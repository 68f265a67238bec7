--------------------------- MODULE SessionProofs ---------------------------
(***************************************************************************)
(* What Session promises of the log files, the counters, the report and    *)
(* the JSON stream, for any number of frames and signals and wherever the  *)
(* process is killed.                                                      *)
(***************************************************************************)
EXTENDS Session, TLAPS

-----------------------------------------------------------------------------
(* The inductive invariant relates the counters to what each log has on    *)
(* disk and in its buffer, at every call the program makes.                *)

One(condition) == IF condition THEN 1 ELSE 0

\* Before the loops nothing is counted, and a log is closed only after them.
Phases ==
    /\ pc \in {"args", "openLogs", "init"} => stats = NoStats
    /\ pc \in {"args", "openLogs"} => \A l \in Logs : log[l] = NoLog
    /\ \A l \in Logs :
          /\ log[l].state = "off" => log[l] = NoLog
          /\ log[l].state = "open" => options.logging[l]
          /\ log[l].state = "closed" => pc \in {"report", "sum", "left"}
    /\ pc \in {"print", "logPacket", "flushPacket", "detect"} => frame \in Protocols
    /\ exit # "running" => pc = "left"

\* While the program runs: a valid packet is counted, then buffered, then on
\* disk, and only then can it alert; an alert goes the same way.
Accounts ==
    /\ log["packet"].buffered = One(pc = "flushPacket")
    /\ log["alert"].buffered = One(pc = "flushAlert")
    /\ log["packet"].state # "off" =>
          stats.valid = log["packet"].written + log["packet"].buffered
                        + One(pc \in {"print", "logPacket"})
    /\ log["alert"].state # "off" =>
          stats.alerts = log["alert"].written + log["alert"].buffered
                         + One(pc \in {"printAlert", "logAlert"})
    /\ stats.alerts + One(pc \in {"print", "logPacket", "flushPacket", "detect"})
          <= stats.valid

IInv ==
    /\ TypeOK /\ Phases
    /\ exit = "running" => Accounts
    /\ LogsKeepUp /\ AlertsHavePackets

\* The initial states: nothing is counted and nothing is logged.
LEMMA InitGood == Init => IInv
<1> SUFFICES ASSUME Init PROVE IInv
  OBVIOUS
<1>1. NoStats \in StatsType
  BY DEF NoStats, StatsType
<1>2. NoLog \in LogType
  BY DEF NoLog, LogType
<1>3. TypeOK
  <2>1. log \in [Logs -> LogType]
    BY <1>2 DEF Init, ProcessorInit
  <2>2. /\ out \in OutputType
        /\ report \in [total : Nat, alerts : Nat, written : BOOLEAN]
    BY DEF Init, ProcessorInit, NoOutput, OutputType, NoReport
  <2>3. signals \in 0..MaxSignals
    BY SignalsAssumption DEF Init
  <2> QED
    BY <1>1, <2>1, <2>2, <2>3 DEF Init, ProcessorInit, TypeOK, Frames
<1>4. Phases /\ Accounts
  BY DEF Init, ProcessorInit, Phases, Accounts, One, NoStats, NoLog, Logs
<1>5. LogsKeepUp /\ AlertsHavePackets
  BY DEF Init, ProcessorInit, LogsKeepUp, Lacks, AlertsHavePackets, NoLog, Logs
<1> QED
  BY <1>3, <1>4, <1>5 DEF IInv

\* While the program runs the two properties follow from its accounts.
LEMMA AccountsSuffice ==
  ASSUME TypeOK', Phases', Accounts'
  PROVE  IInv'
  BY DEF IInv, TypeOK, Phases, Accounts, LogsKeepUp, Lacks, AlertsHavePackets, One,
         StatsType, LogType, NoLog, Logs

\* The alerts of a protocol have a known type and severity.
LEMMA AlertsTyped ==
  ASSUME NEW p \in Protocols
  PROVE  AlertsOf(p) \subseteq AlertType
<1>1. CASE p = "TCP"
  BY <1>1 DEF AlertsOf, AlertType, AlertTypes, Severities
<1>2. CASE p = "UDP"
  BY <1>2 DEF AlertsOf, AlertType, AlertTypes, Severities
<1>3. CASE p = "ICMP"
  BY <1>3 DEF AlertsOf, AlertType, AlertTypes, Severities
<1> QED
  BY <1>1, <1>2, <1>3 DEF Protocols

\* Printing keeps the output well-typed.
LEMMA PrintedGood ==
  ASSUME out \in OutputType
  PROVE  /\ [out EXCEPT !.packets = @ + 1] \in OutputType
         /\ [out EXCEPT !.alerts = @ + 1] \in OutputType
         /\ [out EXCEPT !.complete = TRUE] \in OutputType
         /\ \A text \in BOOLEAN : [out EXCEPT !.text = text] \in OutputType
<1>1. [out EXCEPT !.packets = @ + 1] \in OutputType
  BY DEF OutputType
<1>2. [out EXCEPT !.alerts = @ + 1] \in OutputType
  BY DEF OutputType
<1>3. [out EXCEPT !.complete = TRUE] \in OutputType
  BY DEF OutputType
<1>4. ASSUME NEW text \in BOOLEAN PROVE [out EXCEPT !.text = text] \in OutputType
  BY DEF OutputType
<1> QED
  BY <1>1, <1>2, <1>3, <1>4

\* fprintf to an open log whose buffer is empty, and fflush.
LEMMA BufferedGood ==
  ASSUME log \in [Logs -> LogType], NEW l \in Logs, log[l].buffered = 0
  PROVE  /\ Buffered(l) \in [Logs -> LogType]
         /\ Buffered(l)[l].state = log[l].state
         /\ Buffered(l)[l].written = log[l].written
         /\ Buffered(l)[l].buffered = 1
         /\ \A k \in Logs \ {l} : Buffered(l)[k] = log[k]
<1> DEFINE new == [log[l] EXCEPT !.buffered = @ + 1]
<1>1. log[l] \in LogType
  OBVIOUS
<1>2. /\ new \in LogType
      /\ new.state = log[l].state /\ new.written = log[l].written /\ new.buffered = 1
  BY <1>1 DEF LogType
<1>3. Buffered(l) = [log EXCEPT ![l] = new]
  BY DEF Buffered
<1> HIDE DEF new
<1> QED
  BY <1>2, <1>3

LEMMA FlushedGood ==
  ASSUME log \in [Logs -> LogType], NEW l \in Logs
  PROVE  /\ Flushed(l) \in [Logs -> LogType]
         /\ Flushed(l)[l].state = log[l].state
         /\ Flushed(l)[l].written = log[l].written + log[l].buffered
         /\ Flushed(l)[l].buffered = 0
         /\ \A k \in Logs \ {l} : Flushed(l)[k] = log[k]
<1> DEFINE lines == log[l].written + log[l].buffered
           added == [log[l] EXCEPT !.written = lines]
           new   == [added EXCEPT !.buffered = 0]
<1>1. log[l] \in LogType /\ lines \in Nat
  BY DEF LogType
<1> HIDE DEF lines
<1>2. /\ added \in LogType
      /\ added.state = log[l].state /\ added.written = lines
  BY <1>1 DEF LogType
<1>3. Flushed(l) = [log EXCEPT ![l] = new]
  BY <1>1 DEF Flushed, LogType, lines
<1> HIDE DEF added
<1>4. /\ new \in LogType
      /\ new.state = log[l].state /\ new.buffered = 0
      /\ new.written = lines
  BY <1>2 DEF LogType
<1> HIDE DEF new
<1> QED
  BY <1>3, <1>4 DEF lines

\* stats_update_packet counts a packet as valid unless it was refused, and
\* stats_update_alert counts one alert more.
LEMMA WithPacketGood ==
  ASSUME NEW s \in StatsType, NEW f \in Frames
  PROVE  /\ WithPacket(s, f) \in StatsType
         /\ WithPacket(s, f).valid = s.valid + One(f # "none")
         /\ WithPacket(s, f).alerts = s.alerts
<1> DEFINE t == [s EXCEPT !.total = @ + 1]
           i == [t EXCEPT !.invalid = @ + 1]
           v == [t EXCEPT !.valid = @ + 1]
           p == [v EXCEPT !.proto[f] = @ + 1]
<1>1. t \in StatsType /\ t.valid = s.valid /\ t.alerts = s.alerts
  BY DEF StatsType
<1>2. WithPacket(s, f) = IF f = "none" THEN i ELSE p
  BY DEF WithPacket
<1> HIDE DEF t
<1>3. i \in StatsType /\ i.valid = t.valid /\ i.alerts = t.alerts
  BY <1>1 DEF StatsType
<1>4. v \in StatsType /\ v.valid = t.valid + 1 /\ v.alerts = t.alerts
  BY <1>1 DEF StatsType
<1> HIDE DEF i, v
<1>5. ASSUME f # "none"
      PROVE  p \in StatsType /\ p.valid = v.valid /\ p.alerts = v.alerts
  <2>1. f \in Protocols /\ v.proto \in [Protocols -> Nat]
    BY <1>4, <1>5 DEF StatsType, Frames
  <2>2. [v.proto EXCEPT ![f] = @ + 1] \in [Protocols -> Nat]
    BY <2>1
  <2> QED
    BY <1>4, <2>2 DEF StatsType
<1> HIDE DEF p
<1> QED
  BY <1>1, <1>2, <1>3, <1>4, <1>5 DEF One, StatsType

LEMMA WithAlertGood ==
  ASSUME NEW s \in StatsType, NEW a \in AlertType
  PROVE  /\ WithAlert(s, a) \in StatsType
         /\ WithAlert(s, a).valid = s.valid
         /\ WithAlert(s, a).alerts = s.alerts + 1
<1> DEFINE n == [s EXCEPT !.alerts = @ + 1]
           v == [n EXCEPT !.severity[a.severity] = @ + 1]
           t == [v EXCEPT !.type[a.type] = @ + 1]
<1>1. n \in StatsType /\ n.valid = s.valid /\ n.alerts = s.alerts + 1
  BY DEF StatsType
<1>2. WithAlert(s, a) = t
  BY DEF WithAlert
<1> HIDE DEF n
<1>3. v \in StatsType /\ v.valid = n.valid /\ v.alerts = n.alerts
  <2>1. [n.severity EXCEPT ![a.severity] = @ + 1] \in [Severities -> Nat]
    BY <1>1 DEF StatsType, AlertType
  <2> QED
    BY <1>1, <2>1 DEF StatsType
<1> HIDE DEF v
<1>4. t \in StatsType /\ t.valid = v.valid /\ t.alerts = v.alerts
  <2>1. [v.type EXCEPT ![a.type] = @ + 1] \in [AlertTypes -> Nat]
    BY <1>3 DEF StatsType, AlertType
  <2> QED
    BY <1>3, <2>1 DEF StatsType
<1> HIDE DEF t
<1> QED
  BY <1>1, <1>2, <1>3, <1>4

-----------------------------------------------------------------------------
(* The calls of processor.c.                                               *)

LEMMA ProcessKeeps ==
  ASSUME IInv, ProcessStep, UNCHANGED <<loopVars, mainVars>>
  PROVE  IInv'
<1> USE DEF One, loopVars, mainVars, procVars, Back, Writing
<1>1. exit = "running" /\ TypeOK /\ Phases /\ Accounts
  BY DEF IInv, Phases, ProcessStep, Parse, PrintPacket, LogPacket, FlushPacket,
         NoAlarm, Alarm, PrintAlert, LogAlert, FlushAlert, TypeOK
<1>2. CASE Parse
  <2>1. /\ stats' \in StatsType /\ stats'.alerts = stats.alerts
        /\ stats'.valid = stats.valid + One(frame # "none")
    BY <1>1, <1>2, WithPacketGood DEF Parse, TypeOK
  <2>2. TypeOK'
    BY <1>1, <1>2, <2>1 DEF ProcessStep, Parse, TypeOK
  <2>3. Phases'
    BY <1>1, <1>2 DEF ProcessStep, Parse, Phases, TypeOK, Frames
  <2>4. Accounts'
    BY <1>1, <1>2, <2>1 DEF ProcessStep, Parse, Accounts, TypeOK, StatsType, LogType, Logs
  <2> QED
    BY <2>2, <2>3, <2>4, AccountsSuffice
<1>3. CASE PrintPacket
  <2>0. out' \in OutputType
    <3>1. options.quiet \in BOOLEAN /\ options.json \in BOOLEAN
      BY <1>1, OptionsAssumption DEF TypeOK, OptionsType
    <3> QED
      BY <1>1, <1>3, <3>1, PrintedGood DEF PrintPacket, TypeOK
  <2>1. TypeOK'
    BY <1>1, <1>3, <2>0 DEF ProcessStep, PrintPacket, TypeOK
  <2>2. Phases'
    BY <1>1, <1>3 DEF ProcessStep, PrintPacket, Phases, Accounts, TypeOK
  <2>3. Accounts'
    BY <1>1, <1>3 DEF ProcessStep, PrintPacket, Accounts, TypeOK, Phases
  <2> QED
    BY <2>1, <2>2, <2>3, AccountsSuffice
<1>4. CASE LogPacket
  <2> DEFINE open == Writing("packet")
  <2>1. log["packet"].buffered = 0 /\ "packet" \in Logs /\ log \in [Logs -> LogType]
    BY <1>1, <1>4 DEF LogPacket, Accounts, TypeOK, Logs
  <2>2. /\ log' \in [Logs -> LogType]
        /\ log'["packet"].state = log["packet"].state
        /\ log'["packet"].written = log["packet"].written
        /\ log'["packet"].buffered = One(open)
        /\ \A k \in Logs \ {"packet"} : log'[k] = log[k]
    BY <1>4, <2>1, BufferedGood DEF LogPacket
  <2>3. TypeOK'
    BY <1>1, <1>4, <2>2 DEF ProcessStep, LogPacket, TypeOK
  <2>4. Phases'
    BY <1>1, <1>4, <2>1, <2>2 DEF ProcessStep, LogPacket, Phases, TypeOK, NoLog, Logs, LogType
  <2>5. Accounts'
    BY <1>1, <1>4, <2>1, <2>2 DEF ProcessStep, LogPacket, Accounts, Phases, TypeOK, Logs, LogType
  <2> QED
    BY <2>3, <2>4, <2>5, AccountsSuffice
<1>5. CASE FlushPacket
  <2>1. "packet" \in Logs /\ log \in [Logs -> LogType]
    BY <1>1 DEF TypeOK, Logs
  <2>2. TypeOK'
    BY <1>1, <1>5, <2>1, FlushedGood DEF ProcessStep, FlushPacket, TypeOK
  <2>3. Phases'
    BY <1>1, <1>5, <2>1, FlushedGood DEF ProcessStep, FlushPacket, Phases, TypeOK, Accounts, NoLog, Logs, LogType
  <2>4. Accounts'
    BY <1>1, <1>5, <2>1, FlushedGood
    DEF ProcessStep, FlushPacket, Accounts, TypeOK, Phases, NoLog, Logs, LogType
  <2> QED
    BY <2>2, <2>3, <2>4, AccountsSuffice
<1>6. CASE NoAlarm
  <2>1. TypeOK'
    BY <1>1, <1>6 DEF ProcessStep, NoAlarm, TypeOK, Phases, Accounts
  <2>2. Phases'
    BY <1>1, <1>6 DEF ProcessStep, NoAlarm, Phases, Accounts, TypeOK
  <2>3. Accounts'
    BY <1>1, <1>6 DEF ProcessStep, NoAlarm, Accounts, TypeOK, Phases, StatsType
  <2> QED
    BY <2>1, <2>2, <2>3, AccountsSuffice
<1>7. CASE Alarm
  <2>1. alert' \in AlertType
    BY <1>1, <1>7, AlertsTyped DEF Alarm, Phases
  <2>2. /\ stats' \in StatsType /\ stats'.valid = stats.valid
        /\ stats'.alerts = stats.alerts + 1
    BY <1>1, <1>7, <2>1, WithAlertGood DEF Alarm, TypeOK
  <2>3. TypeOK'
    BY <1>1, <1>7, <2>1, <2>2 DEF ProcessStep, Alarm, TypeOK
  <2>4. Phases'
    BY <1>1, <1>7 DEF ProcessStep, Alarm, Phases, TypeOK
  <2>5. Accounts'
    BY <1>1, <1>7, <2>2 DEF ProcessStep, Alarm, Accounts, TypeOK, StatsType, LogType, Logs
  <2> QED
    BY <2>3, <2>4, <2>5, AccountsSuffice
<1>8. CASE PrintAlert
  <2>0. out' \in OutputType
    BY <1>1, <1>8, PrintedGood DEF PrintAlert, TypeOK
  <2>1. TypeOK'
    BY <1>1, <1>8, <2>0 DEF ProcessStep, PrintAlert, TypeOK
  <2>2. Phases'
    BY <1>1, <1>8 DEF ProcessStep, PrintAlert, Phases, Accounts, TypeOK
  <2>3. Accounts'
    BY <1>1, <1>8 DEF ProcessStep, PrintAlert, Accounts, TypeOK, Phases
  <2> QED
    BY <2>1, <2>2, <2>3, AccountsSuffice
<1>9. CASE LogAlert
  <2> DEFINE open == Writing("alert")
  <2>1. log["alert"].buffered = 0 /\ "alert" \in Logs /\ log \in [Logs -> LogType]
    BY <1>1, <1>9 DEF LogAlert, Accounts, TypeOK, Logs
  <2>2. /\ log' \in [Logs -> LogType]
        /\ log'["alert"].state = log["alert"].state
        /\ log'["alert"].written = log["alert"].written
        /\ log'["alert"].buffered = One(open)
        /\ \A k \in Logs \ {"alert"} : log'[k] = log[k]
    BY <1>9, <2>1, BufferedGood DEF LogAlert
  <2>3. TypeOK'
    BY <1>1, <1>9, <2>2 DEF ProcessStep, LogAlert, TypeOK
  <2>4. Phases'
    BY <1>1, <1>9, <2>1, <2>2 DEF ProcessStep, LogAlert, Phases, TypeOK, NoLog, Logs, LogType
  <2>5. Accounts'
    BY <1>1, <1>9, <2>1, <2>2 DEF ProcessStep, LogAlert, Accounts, Phases, TypeOK, Logs, LogType
  <2> QED
    BY <2>3, <2>4, <2>5, AccountsSuffice
<1>10. CASE FlushAlert
  <2>1. "alert" \in Logs /\ log \in [Logs -> LogType]
    BY <1>1 DEF TypeOK, Logs
  <2>2. TypeOK'
    BY <1>1, <1>10, <2>1, FlushedGood DEF ProcessStep, FlushAlert, TypeOK
  <2>3. Phases'
    BY <1>1, <1>10, <2>1, FlushedGood DEF ProcessStep, FlushAlert, Phases, TypeOK, Accounts, NoLog, Logs, LogType
  <2>4. Accounts'
    BY <1>1, <1>10, <2>1, FlushedGood
    DEF ProcessStep, FlushAlert, Accounts, TypeOK, Phases, NoLog, Logs, LogType
  <2> QED
    BY <2>2, <2>3, <2>4, AccountsSuffice
<1> QED
  BY <1>2, <1>3, <1>4, <1>5, <1>6, <1>7, <1>8, <1>9, <1>10 DEF ProcessStep

-----------------------------------------------------------------------------
(* The steps that leave the counters and the logs alone.                   *)

Busy     == {"print", "logPacket", "flushPacket", "detect",
             "printAlert", "logAlert", "flushAlert"}
Starting == {"args", "openLogs", "init"}
Ending   == {"report", "sum", "left"}

LEMMA UntouchedGood ==
  ASSUME IInv, exit = "running", TypeOK', UNCHANGED <<stats, log, options, exit>>,
         \/ pc' = pc /\ frame' = frame
         \/ /\ pc \notin Busy /\ pc' \notin Busy /\ pc' \notin Starting
            /\ pc \in Ending => pc' \in Ending
  PROVE  IInv'
<1>1. TypeOK /\ Phases /\ Accounts
  BY DEF IInv
<1>2. Phases'
  BY <1>1 DEF Phases, Busy, Starting, Ending
<1>3. Accounts'
  BY <1>1 DEF Accounts, One, Busy
<1> QED
  BY <1>2, <1>3, AccountsSuffice

\* The options the program runs with are of their type.
LEMMA OptionsTyped == TypeOK => options \in OptionsType
  BY OptionsAssumption DEF TypeOK

\* capture.c's own steps.
LEMMA CaptureKeeps ==
  ASSUME IInv, CaptureStep, UNCHANGED mainVars
  PROVE  IInv'
<1> USE DEF captureVars, procVars, loopVars, mainVars
<1>1. TypeOK /\ exit = "running"
  BY DEF IInv, Phases, CaptureStep, EnterCapture, SocketFails, SocketOpens,
         TestLoop, LeaveLoop, LiveStats, TypeOK
<1>2. TypeOK'
  <2>1. CASE EnterCapture
    BY <1>1, <2>1 DEF EnterCapture, TypeOK
  <2>2. CASE SocketFails
    BY <1>1, <2>2 DEF SocketFails, TypeOK
  <2>3. CASE SocketOpens
    BY <1>1, <2>3, PrintedGood DEF SocketOpens, TypeOK
  <2>4. CASE TestLoop
    BY <1>1, <2>4 DEF TestLoop, TypeOK
  <2>5. CASE LeaveLoop
    BY <1>1, <2>5, PrintedGood DEF LeaveLoop, TypeOK
  <2>6. CASE LiveStats
    <3>1. (out.text \/ ~options.json) \in BOOLEAN
      OBVIOUS
    <3>2. out' \in OutputType
      BY <1>1, <2>6, <3>1, PrintedGood DEF LiveStats, TypeOK
    <3> QED
      BY <1>1, <2>6, <3>2 DEF LiveStats, TypeOK
  <2> QED
    BY <2>1, <2>2, <2>3, <2>4, <2>5, <2>6 DEF CaptureStep
<1>3. /\ pc \notin Busy \cup Ending /\ pc' \notin Busy /\ pc' \notin Starting
      /\ UNCHANGED <<stats, log, options, exit>>
  BY DEF CaptureStep, EnterCapture, SocketFails, SocketOpens, TestLoop, LeaveLoop,
         LiveStats, Busy, Starting, Ending
<1> QED
  BY <1>1, <1>2, <1>3, UntouchedGood

\* pcap_reader.c's own steps.
LEMMA PcapKeeps ==
  ASSUME IInv, PcapStep, UNCHANGED <<loopVars, mainVars>>
  PROVE  IInv'
<1> USE DEF readerVars, procVars, loopVars, mainVars
<1>1. TypeOK /\ exit = "running"
  BY DEF IInv, Phases, PcapStep, OpenFails, Opens, ReadRecord, ReadFails,
         EndOfFile, CountRecord, PcapEnds, TypeOK
<1>2. TypeOK'
  <2>1. CASE OpenFails
    BY <1>1, <2>1 DEF OpenFails, TypeOK
  <2>2. CASE Opens
    <3>1. out' \in OutputType
      BY <1>1, <2>2, PrintedGood DEF Opens, TypeOK
    <3> QED
      BY <1>1, <2>2, <3>1 DEF Opens, TypeOK
  <2>3. CASE \E f \in Frames : ReadRecord(f)
    BY <1>1, <2>3 DEF ReadRecord, Begin, TypeOK
  <2>4. CASE ReadFails
    BY <1>1, <2>4 DEF ReadFails, TypeOK
  <2>5. CASE EndOfFile
    BY <1>1, <2>5 DEF EndOfFile, TypeOK
  <2>6. CASE CountRecord
    BY <1>1, <2>6 DEF CountRecord, TypeOK
  <2>7. CASE PcapEnds
    <3>1. out' \in OutputType
      BY <1>1, <2>7, PrintedGood DEF PcapEnds, TypeOK
    <3> QED
      BY <1>1, <2>7, <3>1 DEF PcapEnds, TypeOK
  <2> QED
    BY <2>1, <2>2, <2>3, <2>4, <2>5, <2>6, <2>7 DEF PcapStep
<1>3. /\ pc \notin Busy \cup Ending /\ pc' \notin Busy /\ pc' \notin Starting
      /\ UNCHANGED <<stats, log, options, exit>>
  BY DEF PcapStep, OpenFails, Opens, ReadRecord, Begin, ReadFails, EndOfFile,
         CountRecord, PcapEnds, Busy, Starting, Ending
<1> QED
  BY <1>1, <1>2, <1>3, UntouchedGood

\* recvfrom returns, and the signal handler.
LEMMA ReceiveKeeps ==
  ASSUME IInv, TimeOut \/ Arrival
  PROVE  IInv'
<1> USE DEF captureVars, procVars, loopVars, mainVars
<1>1. TypeOK /\ exit = "running"
  BY DEF IInv, Phases, TimeOut, Arrival, ReceiveTimesOut, ReceiveFails, Receive, TypeOK
<1>2. TypeOK'
  BY <1>1 DEF TimeOut, Arrival, ReceiveTimesOut, ReceiveFails, Receive, Begin, TypeOK
<1>3. /\ pc \notin Busy \cup Ending /\ pc' \notin Busy /\ pc' \notin Starting
      /\ UNCHANGED <<stats, log, options, exit>>
  BY DEF TimeOut, Arrival, ReceiveTimesOut, ReceiveFails, Receive, Begin,
         Busy, Starting, Ending
<1> QED
  BY <1>1, <1>2, <1>3, UntouchedGood

LEMMA SignalKeeps ==
  ASSUME IInv, Signal
  PROVE  IInv'
<1> USE DEF captureVars, procVars, mainVars
<1>1. TypeOK /\ exit \in {"running", "success", "failure", "killed"}
  BY DEF IInv, TypeOK
<1>2. TypeOK'
  <2>1. signals' \in 0..MaxSignals
    BY <1>1, SignalsAssumption DEF Signal, HandleShutdown, TypeOK
  <2> QED
    BY <1>1, <2>1 DEF Signal, HandleShutdown, TypeOK
<1>3. exit = "running"
  BY DEF IInv, Phases, Signal, Shielded
<1>4. UNCHANGED <<stats, log, options, exit, frame>> /\ (pc' = pc \/ (pc = "recv" /\ pc' = "test"))
  BY DEF Signal, HandleShutdown
<1> QED
  BY <1>2, <1>3, <1>4, UntouchedGood DEF Busy, Starting, Ending

-----------------------------------------------------------------------------
(* main.c                                                                  *)

\* logger_init: nothing was logged before it.
LEMMA OpenLogsKeeps ==
  ASSUME IInv, OpenLogs
  PROVE  IInv'
<1> USE DEF mainVars, loopVars
<1>1. TypeOK /\ Phases /\ exit = "running" /\ Accounts
  BY DEF IInv, Phases, OpenLogs, TypeOK
<1>2. PICK opened \in SUBSET {l \in Logs : options.logging[l]} :
        log' = [l \in Logs |-> IF l \in opened THEN [log[l] EXCEPT !.state = "open"]
                                               ELSE log[l]]
  BY DEF OpenLogs
<1>3. \A l \in Logs :
        /\ log'[l] \in LogType /\ log'[l].buffered = 0 /\ log'[l].written = 0
        /\ log'[l].state = "off" => log'[l] = NoLog
        /\ log'[l].state = "open" => options.logging[l]
        /\ log'[l].state # "closed"
  <2> TAKE l \in Logs
  <2>1. log[l] = NoLog
    BY <1>1 DEF OpenLogs, Phases
  <2>2. CASE l \in opened
    BY <1>2, <2>1, <2>2 DEF NoLog, LogType
  <2>3. CASE l \notin opened
    BY <1>2, <2>1, <2>3 DEF NoLog, LogType
  <2> QED
    BY <2>2, <2>3
<1>4. TypeOK'
  <2>1. log' \in [Logs -> LogType]
    BY <1>2, <1>3
  <2> QED
    BY <1>1, <2>1 DEF OpenLogs, TypeOK
<1>5. Phases'
  BY <1>1, <1>3 DEF OpenLogs, Phases
<1>6. Accounts'
  BY <1>1, <1>3 DEF OpenLogs, Accounts, Phases, NoStats, One, Logs
<1> QED
  BY <1>4, <1>5, <1>6, AccountsSuffice

\* logger_close: whatever is left in a buffer reaches the disk.
LEMMA CloseLogsKeeps ==
  ASSUME IInv, CloseLogs
  PROVE  IInv'
<1> USE DEF mainVars, loopVars
<1>1. TypeOK /\ Phases /\ exit = "running" /\ Accounts
  BY DEF IInv, Phases, CloseLogs, TypeOK
<1>2. \A l \in Logs :
        /\ log'[l] \in LogType /\ log'[l].buffered = 0
        /\ log'[l].written = log[l].written + log[l].buffered
        /\ log'[l].state = "off" <=> log[l].state = "off"
        /\ log'[l].state = "off" => log'[l] = NoLog
        /\ log'[l].state # "open"
  <2> TAKE l \in Logs
  <2>1. log[l] \in LogType /\ (log[l].state = "off" => log[l] = NoLog)
        /\ log[l].state # "closed"
    BY <1>1 DEF TypeOK, Phases, CloseLogs
  <2>2. CASE log[l].state = "open"
    BY <2>1, <2>2 DEF CloseLogs, LogType
  <2>3. CASE log[l].state = "off"
    BY <2>1, <2>3 DEF CloseLogs, LogType, NoLog
  <2> QED
    BY <2>1, <2>2, <2>3 DEF LogType
<1>3. TypeOK'
  <2>1. log' \in [Logs -> LogType]
    BY <1>2 DEF CloseLogs
  <2> QED
    BY <1>1, <2>1 DEF CloseLogs, TypeOK
<1>4. Phases'
  BY <1>1, <1>2 DEF CloseLogs, Phases
<1>5. Accounts'
  BY <1>1, <1>2 DEF CloseLogs, Accounts, TypeOK, LogType, StatsType, One, Logs
<1> QED
  BY <1>3, <1>4, <1>5, AccountsSuffice

\* The steps by which the process ends.
LEMMA EndKeeps ==
  ASSUME IInv, LeaveEarly \/ Finish \/ Killed
  PROVE  IInv'
<1> USE DEF mainVars, loopVars, procVars
<1>1. TypeOK /\ Phases /\ LogsKeepUp /\ AlertsHavePackets
  BY DEF IInv
<1>2. \A l \in Logs :
        /\ log'[l] \in LogType /\ log'[l].state = log[l].state
        /\ log'[l].written = log[l].written
        /\ log'[l].state = "off" => log'[l] = NoLog
  <2>1. CASE UNCHANGED log
    BY <1>1, <2>1 DEF TypeOK, Phases
  <2>2. CASE Killed
    <3> TAKE l \in Logs
    <3>1. log'[l] = [log[l] EXCEPT !.buffered = 0]
      BY <2>2 DEF Killed
    <3>2. log[l] \in LogType /\ (log[l].state = "off" => log[l] = NoLog)
      BY <1>1 DEF TypeOK, Phases
    <3> QED
      BY <3>1, <3>2 DEF LogType, NoLog
  <2> QED
    BY <2>1, <2>2 DEF LeaveEarly, Finish
<1>3. TypeOK'
  <2>1. log' \in [Logs -> LogType]
    BY <1>1, <1>2 DEF LeaveEarly, Finish, Killed, TypeOK
  <2>2. out' \in OutputType
    BY <1>1, PrintedGood DEF LeaveEarly, Finish, Killed, TypeOK
  <2> QED
    BY <1>1, <2>1, <2>2 DEF LeaveEarly, Finish, Killed, TypeOK
<1>4. Phases'
  BY <1>1, <1>2 DEF LeaveEarly, Finish, Killed, Phases
<1>5. (LogsKeepUp /\ AlertsHavePackets)'
  BY <1>1, <1>2 DEF LeaveEarly, Finish, Killed, LogsKeepUp, Lacks, AlertsHavePackets, Logs
<1>6. exit' # "running"
  BY DEF LeaveEarly, Finish, Killed
<1> QED
  BY <1>3, <1>4, <1>5, <1>6 DEF IInv

\* The other steps of main.
LEMMA MainKeeps ==
  ASSUME IInv, MainStep
  PROVE  IInv'
<1> USE DEF mainVars, loopVars, procVars
<1>1. CASE Configure
  <2>1. TypeOK /\ Phases /\ exit = "running" /\ Accounts
    BY <1>1 DEF IInv, Phases, Configure, TypeOK
  <2>2. TypeOK'
    BY <1>1, <2>1 DEF Configure, TypeOK
  <2>3. Phases' /\ Accounts'
    BY <1>1, <2>1 DEF Configure, Phases, Accounts, One
  <2> QED
    BY <2>2, <2>3, AccountsSuffice
<1>2. CASE Initialise
  <2>1. TypeOK /\ Phases /\ exit = "running" /\ Accounts /\ stats' = stats
    BY <1>2 DEF IInv, Phases, Initialise, TypeOK
  <2>2. TypeOK'
    BY <1>2, <2>1 DEF Initialise, TypeOK
  <2>3. pc \notin Busy \cup Ending /\ pc' \notin Busy \cup Starting
    BY <1>2 DEF Initialise, Busy, Starting, Ending
  <2> QED
    BY <1>2, <2>1, <2>2, <2>3, UntouchedGood DEF Initialise
<1>3. CASE InstallHandlers \/ WriteReport \/ ReportFails
  <2>1. TypeOK /\ exit = "running"
    BY <1>3 DEF IInv, Phases, InstallHandlers, WriteReport, ReportFails, TypeOK
  <2>2. out' \in OutputType
    BY <1>3, <2>1, PrintedGood DEF InstallHandlers, WriteReport, ReportFails, TypeOK
  <2>3. report' \in [total : Nat, alerts : Nat, written : BOOLEAN]
    <3>1. stats.total \in Nat /\ stats.alerts \in Nat
      BY <2>1 DEF TypeOK, StatsType
    <3>2. [total |-> stats.total, alerts |-> stats.alerts, written |-> TRUE]
             \in [total : Nat, alerts : Nat, written : BOOLEAN]
      BY <3>1
    <3> QED
      BY <1>3, <2>1, <3>2 DEF InstallHandlers, WriteReport, ReportFails, TypeOK
  <2>4. TypeOK'
    BY <1>3, <2>1, <2>2, <2>3 DEF InstallHandlers, WriteReport, ReportFails, TypeOK
  <2>5. /\ pc \notin Busy /\ pc' \notin Busy \cup Starting
        /\ pc \in Ending => pc' \in Ending
        /\ UNCHANGED <<stats, log, options, exit>>
    BY <1>3 DEF InstallHandlers, WriteReport, ReportFails, Busy, Starting, Ending
  <2> QED
    BY <2>1, <2>4, <2>5, UntouchedGood
<1> QED
  BY <1>1, <1>2, <1>3, OpenLogsKeeps, CloseLogsKeeps, EndKeeps DEF MainStep

-----------------------------------------------------------------------------
\* A step that changes nothing.
LEMMA StutterKeeps ==
  ASSUME IInv, UNCHANGED vars
  PROVE  IInv'
  BY DEF IInv, vars, TypeOK, Phases, Accounts, LogsKeepUp, Lacks, AlertsHavePackets

\* The invariant holds of every run, however long and however it ends.
THEOREM InvariantHolds == Spec => []IInv
<1>1. IInv /\ [Next]_vars => IInv'
  BY StutterKeeps, MainKeeps, ProcessKeeps, CaptureKeeps, PcapKeeps,
     ReceiveKeeps, SignalKeeps, EndKeeps DEF Next, ProgramStep
<1> QED
  BY InitGood, <1>1, PTL DEF Spec

\* The program's state is always of its type; in particular no more than one
\* line waits in the buffer of a log.
THEOREM SessionTypeCorrect == Spec => []TypeOK
<1>1. IInv => TypeOK
  BY DEF IInv
<1> QED
  BY InvariantHolds, <1>1, PTL

\* logger.c:292: a kill at any moment costs an open log at most the event in
\* hand.
THEOREM LogsAlwaysKeepUp == Spec => []LogsKeepUp
<1>1. IInv => LogsKeepUp
  BY DEF IInv
<1> QED
  BY InvariantHolds, <1>1, PTL

\* No alert is on disk without its packet, whenever the process dies.
THEOREM AlertsAlwaysHavePackets == Spec => []AlertsHavePackets
<1>1. IInv => AlertsHavePackets
  BY DEF IInv
<1> QED
  BY InvariantHolds, <1>1, PTL

-----------------------------------------------------------------------------
(* What Session promises of the counters, the report and the JSON stream.  *)
(* IInv is extended by what each call has still to do.                     *)

\* Where only one of the two modes comes.
LiveOnly   == {"install", "enter", "socket", "test", "recv", "handled"}
ReplayOnly == {"open", "record", "processed", "pcapEnd"}

Modes ==
    /\ pc \in LiveOnly => options.live
    /\ pc \in ReplayOnly => ~options.live

\* The live loop counts a frame before it is processed, the file loop after.
Hand ==
    /\ options.live => seen = stats.total + One(pc = "parse")
    /\ ~options.live => stats.total = seen + One(pc \in Busy \cup {"processed"})

\* Both loops look at --count before they go on.
Untouched == {"args", "openLogs", "init", "install", "enter", "socket", "open"}

Bounded ==
    /\ pc \in Untouched => seen = 0
    /\ options.max > 0 => seen <= options.max
    /\ options.max > 0 /\ pc = "recv" => seen < options.max
    /\ options.max > 0 /\ ~options.live /\ pc \in Busy \cup {"record", "parse", "processed"}
          => seen < options.max

\* Why a live capture that succeeds has ended.
Reasons ==
    /\ ~keepRunning => signals > 0
    /\ options.live /\ result = 0 /\ pc \in {"closeLogs", "report", "sum"}
          => signals > 0 \/ (options.max > 0 /\ seen = options.max)

\* What was printed is what was counted, but for the event in hand.
Printed ==
    options.json =>
        /\ ~options.quiet => out.packets + One(pc = "print") = stats.valid
        /\ options.quiet => out.packets = 0
        /\ out.alerts + One(pc = "printAlert") = stats.alerts
        /\ ~options.live => ~out.text

\* The report is written last.
Reported ==
    report.written =>
        /\ pc \in {"sum", "left"}
        /\ report.total = stats.total /\ report.alerts = stats.alerts

Running == Modes /\ Hand /\ Bounded /\ Reasons /\ Printed /\ Reported

AInv ==
    /\ IInv /\ Consistent(stats)
    /\ exit = "running" => Running
    /\ BooksBalance /\ AccountsAgree /\ EndsForAReason /\ ReplayJsonPure

-----------------------------------------------------------------------------
(* The counters.                                                           *)

LEMMA WithPacketBooks ==
  ASSUME NEW s \in StatsType, NEW f \in Frames, Consistent(s)
  PROVE  /\ WithPacket(s, f).total = s.total + 1
         /\ Consistent(WithPacket(s, f))
<1>1. CASE f = "none"
  <2>1. WithPacket(s, f) = [s EXCEPT !.total = @ + 1, !.invalid = @ + 1]
    BY <1>1 DEF WithPacket
  <2>2. /\ WithPacket(s, f).total = s.total + 1
        /\ WithPacket(s, f).invalid = s.invalid + 1
        /\ WithPacket(s, f).valid = s.valid /\ WithPacket(s, f).alerts = s.alerts
        /\ WithPacket(s, f).proto = s.proto /\ WithPacket(s, f).severity = s.severity
        /\ WithPacket(s, f).type = s.type
    BY <2>1 DEF StatsType
  <2>3. s.total \in Nat /\ s.valid \in Nat /\ s.invalid \in Nat
    BY DEF StatsType
  <2>4. s.total = s.invalid + s.valid
    BY DEF Consistent
  <2>5. WithPacket(s, f).total = WithPacket(s, f).invalid + WithPacket(s, f).valid
    <3> DEFINE t == s.total
               v == s.valid
               i == s.invalid
    <3>1. t \in Nat /\ v \in Nat /\ i \in Nat /\ t = i + v
      BY <2>3, <2>4
    <3>2. t + 1 = (i + 1) + v
      <4> HIDE DEF t, v, i
      <4> QED
        BY <3>1
    <3> QED
      BY <2>2, <3>2
  <2> QED
    BY <2>2, <2>5 DEF Consistent
<1>2. CASE f \in Protocols
  <2> DEFINE proto == [s.proto EXCEPT ![f] = @ + 1]
  <2>1. WithPacket(s, f) = [s EXCEPT !.total = @ + 1, !.valid = @ + 1, !.proto[f] = @ + 1]
    BY <1>2 DEF WithPacket, Protocols
  <2>2. /\ WithPacket(s, f).total = s.total + 1
        /\ WithPacket(s, f).valid = s.valid + 1
        /\ WithPacket(s, f).invalid = s.invalid
        /\ WithPacket(s, f).alerts = s.alerts
        /\ WithPacket(s, f).proto = proto
        /\ WithPacket(s, f).severity = s.severity
        /\ WithPacket(s, f).type = s.type
    BY <2>1 DEF StatsType
  <2>3. /\ s.proto \in [Protocols -> Nat] /\ s.total \in Nat /\ s.valid \in Nat
        /\ s.invalid \in Nat
    BY DEF StatsType
  <2>4. proto["TCP"] + proto["UDP"] + proto["ICMP"]
           = s.proto["TCP"] + s.proto["UDP"] + s.proto["ICMP"] + 1
    BY <1>2, <2>3 DEF Protocols
  <2>5. s.proto["TCP"] + s.proto["UDP"] + s.proto["ICMP"] \in Nat
    BY <2>3 DEF Protocols
  <2> HIDE DEF proto
  <2>6. WithPacket(s, f).total = WithPacket(s, f).invalid + WithPacket(s, f).valid
    <3> DEFINE t == s.total
               v == s.valid
               i == s.invalid
    <3>1. t \in Nat /\ v \in Nat /\ i \in Nat /\ t = i + v
      BY <2>3 DEF Consistent
    <3>2. t + 1 = i + (v + 1)
      <4> HIDE DEF t, v, i
      <4> QED
        BY <3>1
    <3> QED
      BY <2>2, <3>2
  <2>7. WithPacket(s, f).valid = proto["TCP"] + proto["UDP"] + proto["ICMP"]
    BY <2>2, <2>4 DEF Consistent
  <2> QED
    BY <2>2, <2>6, <2>7 DEF Consistent
<1> QED
  BY <1>1, <1>2 DEF Frames

LEMMA WithAlertBooks ==
  ASSUME NEW s \in StatsType, NEW a \in AlertType, Consistent(s)
  PROVE  /\ WithAlert(s, a).total = s.total
         /\ Consistent(WithAlert(s, a))
<1> DEFINE severity == [s.severity EXCEPT ![a.severity] = @ + 1]
           type == [s.type EXCEPT ![a.type] = @ + 1]
<1>1. /\ WithAlert(s, a).total = s.total
      /\ WithAlert(s, a).valid = s.valid
      /\ WithAlert(s, a).invalid = s.invalid
      /\ WithAlert(s, a).alerts = s.alerts + 1
      /\ WithAlert(s, a).proto = s.proto
      /\ WithAlert(s, a).severity = severity
      /\ WithAlert(s, a).type = type
  BY DEF WithAlert, StatsType
<1>2. /\ s.severity \in [Severities -> Nat] /\ s.type \in [AlertTypes -> Nat]
      /\ a.severity \in Severities /\ a.type \in AlertTypes
  BY DEF StatsType, AlertType
<1>3. severity["low"] + severity["medium"] + severity["high"]
         = s.severity["low"] + s.severity["medium"] + s.severity["high"] + 1
  BY <1>2 DEF Severities
<1>4. type["SYN Flood"] + type["Port Scan"] + type["ICMP Flood"]
         + type["Suspicious Port"] + type["ICMP Echo Request"] + type["TCP SYN Watch"]
      = s.type["SYN Flood"] + s.type["Port Scan"] + s.type["ICMP Flood"]
         + s.type["Suspicious Port"] + s.type["ICMP Echo Request"] + s.type["TCP SYN Watch"] + 1
  <2>1. \A x \in AlertTypes : s.type[x] \in Nat
    BY <1>2
  <2>2. \A x \in AlertTypes : type[x] = IF x = a.type THEN s.type[x] + 1 ELSE s.type[x]
    BY <1>2
  <2> HIDE DEF type
  <2>3. /\ s.type["SYN Flood"] \in Nat /\ s.type["Port Scan"] \in Nat
        /\ s.type["ICMP Flood"] \in Nat /\ s.type["Suspicious Port"] \in Nat
        /\ s.type["ICMP Echo Request"] \in Nat /\ s.type["TCP SYN Watch"] \in Nat
    BY <2>1 DEF AlertTypes
  <2> DEFINE n1 == s.type["SYN Flood"]          m1 == type["SYN Flood"]
             n2 == s.type["Port Scan"]          m2 == type["Port Scan"]
             n3 == s.type["ICMP Flood"]         m3 == type["ICMP Flood"]
             n4 == s.type["Suspicious Port"]    m4 == type["Suspicious Port"]
             n5 == s.type["ICMP Echo Request"]  m5 == type["ICMP Echo Request"]
             n6 == s.type["TCP SYN Watch"]      m6 == type["TCP SYN Watch"]
  <2> SUFFICES m1 + m2 + m3 + m4 + m5 + m6 = n1 + n2 + n3 + n4 + n5 + n6 + 1
    OBVIOUS
  <2>10. n1 \in Nat /\ n2 \in Nat /\ n3 \in Nat /\ n4 \in Nat /\ n5 \in Nat /\ n6 \in Nat
    BY <2>3
  <2>4. CASE a.type = "SYN Flood"
    <3>1. /\ m1 = n1 + 1 /\ m2 = n2 /\ m3 = n3
          /\ m4 = n4 /\ m5 = n5 /\ m6 = n6
      BY <2>2, <2>4 DEF AlertTypes
    <3> HIDE DEF n1, n2, n3, n4, n5, n6, m1, m2, m3, m4, m5, m6
    <3> QED
      BY <2>10, <3>1
  <2>5. CASE a.type = "Port Scan"
    <3>1. /\ m1 = n1 /\ m2 = n2 + 1 /\ m3 = n3
          /\ m4 = n4 /\ m5 = n5 /\ m6 = n6
      BY <2>2, <2>5 DEF AlertTypes
    <3> HIDE DEF n1, n2, n3, n4, n5, n6, m1, m2, m3, m4, m5, m6
    <3> QED
      BY <2>10, <3>1
  <2>6. CASE a.type = "ICMP Flood"
    <3>1. /\ m1 = n1 /\ m2 = n2 /\ m3 = n3 + 1
          /\ m4 = n4 /\ m5 = n5 /\ m6 = n6
      BY <2>2, <2>6 DEF AlertTypes
    <3> HIDE DEF n1, n2, n3, n4, n5, n6, m1, m2, m3, m4, m5, m6
    <3> QED
      BY <2>10, <3>1
  <2>7. CASE a.type = "Suspicious Port"
    <3>1. /\ m1 = n1 /\ m2 = n2 /\ m3 = n3
          /\ m4 = n4 + 1 /\ m5 = n5 /\ m6 = n6
      BY <2>2, <2>7 DEF AlertTypes
    <3> HIDE DEF n1, n2, n3, n4, n5, n6, m1, m2, m3, m4, m5, m6
    <3> QED
      BY <2>10, <3>1
  <2>8. CASE a.type = "ICMP Echo Request"
    <3>1. /\ m1 = n1 /\ m2 = n2 /\ m3 = n3
          /\ m4 = n4 /\ m5 = n5 + 1 /\ m6 = n6
      BY <2>2, <2>8 DEF AlertTypes
    <3> HIDE DEF n1, n2, n3, n4, n5, n6, m1, m2, m3, m4, m5, m6
    <3> QED
      BY <2>10, <3>1
  <2>9. CASE a.type = "TCP SYN Watch"
    <3>1. /\ m1 = n1 /\ m2 = n2 /\ m3 = n3
          /\ m4 = n4 /\ m5 = n5 /\ m6 = n6 + 1
      BY <2>2, <2>9 DEF AlertTypes
    <3> HIDE DEF n1, n2, n3, n4, n5, n6, m1, m2, m3, m4, m5, m6
    <3> QED
      BY <2>10, <3>1
  <2> QED
    BY <1>2, <2>4, <2>5, <2>6, <2>7, <2>8, <2>9 DEF AlertTypes
<1> HIDE DEF severity, type
<1> QED
  BY <1>1, <1>3, <1>4 DEF Consistent

-----------------------------------------------------------------------------
(* What the steps have in common.                                          *)

\* The numbers and flags of a state of its type.
LEMMA Typed ==
  ASSUME TypeOK
  PROVE  /\ stats.total \in Nat /\ stats.valid \in Nat /\ stats.alerts \in Nat
         /\ stats.invalid \in Nat
         /\ seen \in Nat /\ signals \in Nat /\ options.max \in Nat
         /\ out \in OutputType /\ out.packets \in Nat /\ out.alerts \in Nat
         /\ out.text \in BOOLEAN
         /\ options.live \in BOOLEAN /\ options.json \in BOOLEAN /\ options.quiet \in BOOLEAN
<1>1. options \in OptionsType
  BY OptionsTyped
<1> QED
  BY <1>1, SignalsAssumption DEF TypeOK, StatsType, OutputType, OptionsType

\* While the program runs the four properties follow from the rest.
LEMMA RunningSuffices ==
  ASSUME IInv', Consistent(stats)', Running', exit' = "running"
  PROVE  AInv'
<1>1. Accounts' /\ TypeOK'
  BY DEF IInv
<1>2. stats'.alerts <= stats'.valid
  <2>1. stats'.alerts \in Nat /\ stats'.valid \in Nat
    BY <1>1 DEF TypeOK, StatsType
  <2> QED
    BY <1>1, <2>1 DEF Accounts, One
<1>3. InHand' \in {0, 1}
  <2>1. seen' \in Nat /\ stats'.total \in Nat
    BY <1>1 DEF TypeOK, StatsType
  <2> QED
    BY <2>1 DEF InHand, Running, Hand, One
<1>4. BooksBalance' /\ AccountsAgree'
  BY <1>2, <1>3 DEF BooksBalance, AccountsAgree
<1>5. EndsForAReason' /\ ReplayJsonPure'
  BY DEF Running, Bounded, Reasons, Printed, EndsForAReason, ReplayJsonPure, JsonPure
<1> QED
  BY <1>4, <1>5 DEF AInv

\* Where the program is, it runs.
LEMMA WhereRunning ==
  ASSUME AInv, pc # "left" \/ exit = "running"
  PROVE  /\ exit = "running" /\ TypeOK /\ Phases /\ Accounts
         /\ Running /\ Consistent(stats)
<1>1. Phases /\ TypeOK
  BY DEF AInv, IInv
<1>2. exit = "running"
  BY <1>1 DEF Phases
<1> QED
  BY <1>1, <1>2 DEF AInv, IInv

LEMMA StartGood == Init => AInv
<1> SUFFICES ASSUME Init PROVE AInv
  OBVIOUS
<1>1. IInv
  BY InitGood
<1>2. Consistent(stats) /\ BooksBalance
  <2>1. /\ stats.total = 0 /\ stats.valid = 0 /\ stats.invalid = 0 /\ stats.alerts = 0
        /\ stats.proto = [p \in Protocols |-> 0]
        /\ stats.severity = [v \in Severities |-> 0]
        /\ stats.type = [t \in AlertTypes |-> 0]
        /\ seen = 0 /\ exit = "running"
    BY DEF Init, ProcessorInit, NoStats
  <2>2. /\ stats.proto["TCP"] = 0 /\ stats.proto["UDP"] = 0 /\ stats.proto["ICMP"] = 0
        /\ stats.severity["low"] = 0 /\ stats.severity["medium"] = 0
        /\ stats.severity["high"] = 0
    BY <2>1 DEF Protocols, Severities
  <2>3. /\ stats.type["SYN Flood"] = 0 /\ stats.type["Port Scan"] = 0
        /\ stats.type["ICMP Flood"] = 0 /\ stats.type["Suspicious Port"] = 0
        /\ stats.type["ICMP Echo Request"] = 0 /\ stats.type["TCP SYN Watch"] = 0
    BY <2>1 DEF AlertTypes
  <2>4. Consistent(stats)
    <3>1. 0 = 0 + 0 /\ 0 = 0 + 0 + 0 /\ 0 = 0 + 0 + 0 + 0 + 0 + 0
      OBVIOUS
    <3> QED
      BY <2>1, <2>2, <2>3, <3>1, Zenon DEF Consistent
  <2> QED
    BY <2>1, <2>4 DEF BooksBalance, InHand
<1>3. options \in OptionsType
  BY <1>1, OptionsTyped DEF IInv
<1>4. Modes /\ Reasons /\ Reported
  BY DEF Init, ProcessorInit, Modes, Reasons, Reported, LiveOnly, ReplayOnly, NoReport
<1>5. Hand /\ Printed
  BY DEF Init, ProcessorInit, NoStats, NoOutput, Hand, Printed, One, Busy
<1>6. Bounded
  BY <1>3 DEF Init, ProcessorInit, Bounded, OptionsType, Busy
<1>7. AccountsAgree /\ EndsForAReason /\ ReplayJsonPure
  BY <1>3 DEF Init, ProcessorInit, AccountsAgree, EndsForAReason, ReplayJsonPure, JsonPure,
         NoOutput, OptionsType
<1> QED
  BY <1>1, <1>2, <1>4, <1>5, <1>6, <1>7 DEF AInv, Running

-----------------------------------------------------------------------------
(* The calls of processor.c.                                               *)

\* A frame is counted when it is parsed; every call goes on to the next, or
\* back to the loop.
LEMMA ProcessGoesOn ==
  ASSUME TypeOK, ProcessStep
  PROVE  \/ /\ pc = "parse" /\ pc' \in {"print", Back}
            /\ stats' = WithPacket(stats, frame)
         \/ /\ pc \in Busy /\ pc' \in Busy \cup {Back}
            /\ (stats' = stats \/ (alert' \in AlertsOf(frame) /\ stats' = WithAlert(stats, alert')
                                  /\ pc = "detect" /\ pc' = "printAlert"))
  BY DEF ProcessStep, Parse, PrintPacket, LogPacket, FlushPacket, NoAlarm, Alarm,
         PrintAlert, LogAlert, FlushAlert, Busy, procVars

LEMMA ProcessCounts ==
  ASSUME AInv, ProcessStep, UNCHANGED <<loopVars, mainVars>>
  PROVE  AInv'
<1>1. pc # "left"
  BY DEF ProcessStep, Parse, PrintPacket, LogPacket, FlushPacket, NoAlarm, Alarm,
         PrintAlert, LogAlert, FlushAlert
<1>2. /\ exit = "running" /\ TypeOK /\ Phases /\ Accounts
      /\ Running /\ Consistent(stats)
  BY <1>1, WhereRunning
<1>3. IInv'
  BY ProcessKeeps DEF AInv
<1>4. UNCHANGED <<options, seen, result, keepRunning, signals, report, exit>>
  BY DEF ProcessStep, loopVars, mainVars
<1>5. /\ Consistent(stats)'
      /\ stats'.total = stats.total + One(pc = "parse")
      /\ stats'.valid = stats.valid + One(pc = "parse" /\ frame # "none")
      /\ stats'.alerts = stats.alerts + One(pc = "detect" /\ pc' = "printAlert")
  <2>1. stats \in StatsType /\ frame \in Frames /\ stats.total \in Nat
        /\ stats.valid \in Nat /\ stats.alerts \in Nat
    BY <1>2 DEF TypeOK, StatsType
  <2>2. CASE Parse
    BY <1>2, <2>1, <2>2, WithPacketBooks, WithPacketGood DEF Parse, One
  <2>3. CASE Alarm
    <3>1. alert' \in AlertType
      BY <1>2, <2>3, AlertsTyped DEF Alarm, Phases
    <3>2. PICK a \in AlertType : stats' = WithAlert(stats, a)
      BY <2>3, <3>1 DEF Alarm
    <3> QED
      BY <1>2, <2>1, <2>3, <3>2, WithAlertBooks, WithAlertGood DEF Alarm, One
  <2>4. CASE NoAlarm
    BY <1>2, <2>1, <2>4 DEF NoAlarm, procVars, One, Back
  <2>5. CASE PrintPacket \/ LogPacket \/ FlushPacket \/ PrintAlert \/ LogAlert \/ FlushAlert
    <3>1. stats' = stats /\ pc # "parse" /\ pc # "detect"
      BY <2>5 DEF PrintPacket, LogPacket, FlushPacket, PrintAlert, LogAlert, FlushAlert
    <3> QED
      BY <1>2, <2>1, <3>1 DEF One
  <2> QED
    BY <2>2, <2>3, <2>4, <2>5 DEF ProcessStep
<1>6. \/ pc = "parse" /\ pc' \in {"print", Back}
      \/ pc \in Busy /\ pc' \in Busy \cup {Back}
  BY <1>2, ProcessGoesOn
<1>7. Modes'
  BY <1>2, <1>4, <1>6 DEF Running, Modes, LiveOnly, ReplayOnly, Busy, Back
<1>8. Hand'
  <2>1. seen \in Nat /\ stats.total \in Nat
    BY <1>2, Typed
  <2> QED
    BY <1>2, <1>4, <1>5, <1>6, <2>1 DEF Running, Hand, Busy, Back, One
<1>9. Bounded'
  BY <1>2, <1>4, <1>6 DEF Running, Bounded, Busy, Back, Untouched
<1>10. Reasons'
  BY <1>2, <1>4, <1>6 DEF Running, Reasons, Busy, Back
<1>11. Reported'
  BY <1>2, <1>4, <1>6 DEF Running, Reported, Busy
<1>12. Printed'
  <2>1. /\ out \in OutputType /\ out.packets \in Nat /\ out.alerts \in Nat
        /\ stats.valid \in Nat /\ stats.alerts \in Nat
        /\ options.json \in BOOLEAN /\ options.quiet \in BOOLEAN /\ options.live \in BOOLEAN
    BY <1>2, Typed
  <2>2. CASE Parse
    BY <1>2, <1>4, <1>5, <2>1, <2>2 DEF Parse, Running, Printed, One, Back
  <2>3. CASE PrintPacket
    <3>1. CASE options.json
      BY <1>2, <1>4, <1>5, <2>1, <2>3, <3>1 DEF PrintPacket, Running, Printed, One, OutputType
    <3>2. CASE ~options.json
      BY <1>4, <3>2 DEF Printed
    <3> QED
      BY <3>1, <3>2
  <2>4. CASE NoAlarm
    BY <1>2, <1>4, <1>5, <2>1, <2>4 DEF NoAlarm, procVars, Running, Printed, One, Back
  <2>5. CASE Alarm
    BY <1>2, <1>4, <1>5, <2>1, <2>5 DEF Alarm, Running, Printed, One
  <2>6. CASE PrintAlert
    <3>1. CASE options.json
      BY <1>2, <1>4, <1>5, <2>1, <2>6, <3>1 DEF PrintAlert, Running, Printed, One, OutputType
    <3>2. CASE ~options.json
      BY <1>4, <3>2 DEF Printed
    <3> QED
      BY <3>1, <3>2
  <2>7. CASE LogPacket \/ FlushPacket \/ LogAlert \/ FlushAlert
    <3>1. /\ out' = out /\ pc \notin {"parse", "detect", "print", "printAlert"}
          /\ pc' \notin {"print", "printAlert"}
      BY <2>7 DEF LogPacket, FlushPacket, LogAlert, FlushAlert, Back
    <3> QED
      BY <1>2, <1>4, <1>5, <2>1, <3>1 DEF Running, Printed, One
  <2> QED
    BY <2>2, <2>3, <2>4, <2>5, <2>6, <2>7 DEF ProcessStep
<1> QED
  BY <1>2, <1>3, <1>4, <1>5, <1>7, <1>8, <1>9, <1>10, <1>11, <1>12, RunningSuffices DEF Running

-----------------------------------------------------------------------------
(* The steps that leave the counters alone.                                *)

\* A step of a loop or of main, outside the processor.
LEMMA LoopCounts ==
  ASSUME AInv, exit = "running", exit' = "running", IInv',
         UNCHANGED <<options, stats, report>>,
         pc \notin Busy, pc' \notin Busy,
         Modes', Hand', Bounded', Reasons',
         UNCHANGED <<out.packets, out.alerts>>,
         options.json /\ ~options.live /\ ~out.text => ~out'.text,
         report.written => pc' \in {"sum", "left"}
  PROVE  AInv'
<1>1. Running /\ Consistent(stats) /\ TypeOK
  BY WhereRunning
<1>2. Printed'
  <2>1. /\ out.packets \in Nat /\ out.alerts \in Nat
        /\ stats.valid \in Nat /\ stats.alerts \in Nat
    BY <1>1, Typed
  <2> QED
    BY <1>1, <2>1 DEF Running, Printed, One, Busy
<1>3. Reported'
  BY <1>1 DEF Running, Reported
<1> QED
  BY <1>1, <1>2, <1>3, RunningSuffices DEF Running

LEMMA CaptureCounts ==
  ASSUME AInv, CaptureStep, UNCHANGED mainVars
  PROVE  AInv'
<1> USE DEF captureVars, procVars, loopVars, mainVars
<1>1. pc # "left" /\ pc \in LiveOnly
  BY DEF CaptureStep, EnterCapture, SocketFails, SocketOpens, TestLoop, LeaveLoop,
         LiveStats, LiveOnly
<1>2. /\ exit = "running" /\ TypeOK /\ Phases /\ Accounts
      /\ Running /\ Consistent(stats)
  BY <1>1, WhereRunning
<1>3. IInv'
  BY CaptureKeeps DEF AInv
<1>4. /\ UNCHANGED <<options, stats, report, exit, seen, signals>>
      /\ pc \notin Busy \cup {"parse", "processed"}
      /\ pc' \in {"socket", "test", "recv", "closeLogs"}
  BY DEF CaptureStep, EnterCapture, SocketFails, SocketOpens, TestLoop, LeaveLoop,
         LiveStats, Busy
<1>5. options.live /\ options.max \in Nat /\ seen \in Nat /\ stats.total \in Nat
      /\ out \in OutputType
  BY <1>1, <1>2, Typed DEF Running, Modes
<1>6. Modes' /\ Hand'
  BY <1>2, <1>4, <1>5 DEF Running, Modes, Hand, One, LiveOnly, ReplayOnly
<1>7. Bounded'
  <2>1. /\ pc' = "recv" => (options.max = 0 \/ seen < options.max)
        /\ pc' = "socket" => pc = "enter"
    BY DEF CaptureStep, EnterCapture, SocketFails, SocketOpens, TestLoop, LeaveLoop, LiveStats
  <2> QED
    BY <1>2, <1>4, <1>5, <2>1 DEF Running, Bounded, Untouched
<1>8. Reasons'
  <2>1. CASE LeaveLoop
    <3>1. seen = options.max \/ ~keepRunning \/ options.max = 0
      BY <1>2, <1>5, <2>1 DEF LeaveLoop, Running, Bounded
    <3> QED
      BY <1>2, <1>4, <1>5, <2>1, <3>1 DEF LeaveLoop, Running, Reasons
  <2>2. CASE SocketFails
    BY <1>2, <1>4, <2>2 DEF SocketFails, Running, Reasons
  <2>3. CASE EnterCapture \/ SocketOpens \/ TestLoop \/ LiveStats
    BY <1>2, <1>4, <2>3 DEF EnterCapture, SocketOpens, TestLoop, LiveStats, Running, Reasons
  <2> QED
    BY <2>1, <2>2, <2>3 DEF CaptureStep
<1>9. UNCHANGED <<out.packets, out.alerts>>
  BY <1>5 DEF CaptureStep, EnterCapture, SocketFails, SocketOpens, TestLoop, LeaveLoop,
              LiveStats, OutputType
<1>10. report.written => pc' \in {"sum", "left"}
  BY <1>2, <1>1 DEF Running, Reported, LiveOnly
<1>11. pc \notin Busy /\ pc' \notin Busy
  BY <1>4 DEF Busy
<1> QED
  BY <1>2, <1>3, <1>4, <1>5, <1>6, <1>7, <1>8, <1>9, <1>10, <1>11, LoopCounts DEF LiveOnly

LEMMA PcapCounts ==
  ASSUME AInv, PcapStep, UNCHANGED <<loopVars, mainVars>>
  PROVE  AInv'
<1> USE DEF readerVars, procVars, loopVars, mainVars
<1>1. pc # "left" /\ pc \in ReplayOnly
  BY DEF PcapStep, OpenFails, Opens, ReadRecord, ReadFails, EndOfFile, CountRecord,
         PcapEnds, ReplayOnly
<1>2. /\ exit = "running" /\ TypeOK /\ Phases /\ Accounts
      /\ Running /\ Consistent(stats)
  BY <1>1, WhereRunning
<1>3. IInv'
  BY PcapKeeps DEF AInv
<1>4. /\ UNCHANGED <<options, stats, report, exit, keepRunning, signals>>
      /\ pc \notin Busy
      /\ pc' \in {"record", "parse", "pcapEnd", "closeLogs"}
  BY DEF PcapStep, OpenFails, Opens, ReadRecord, Begin, ReadFails, EndOfFile,
         CountRecord, PcapEnds, Busy
<1>5. ~options.live /\ options.max \in Nat /\ seen \in Nat /\ stats.total \in Nat
      /\ out \in OutputType
  BY <1>1, <1>2, Typed DEF Running, Modes, LiveOnly, ReplayOnly
<1>6. seen' = seen + One(pc = "processed")
  BY <1>5 DEF PcapStep, OpenFails, Opens, ReadRecord, Begin, ReadFails, EndOfFile,
         CountRecord, PcapEnds, One
<1>7. Modes'
  BY <1>4, <1>5 DEF Modes, LiveOnly
<1>8. Hand'
  BY <1>2, <1>4, <1>5, <1>6 DEF Running, Hand, One, Busy
<1>9. Bounded'
  <2>1. /\ pc' \in {"record", "parse"} => (options.max > 0 => seen' < options.max)
        /\ options.max > 0 => seen' <= options.max
    <3>1. CASE pc = "processed"
      BY <1>2, <1>4, <1>5, <3>1
      DEF Running, Bounded, PcapStep, OpenFails, Opens, ReadRecord, ReadFails, EndOfFile,
          CountRecord, PcapEnds
    <3>2. CASE pc # "processed"
      <4>1. /\ seen' = seen /\ pc \in {"open", "record", "pcapEnd"}
            /\ pc' = "parse" => pc = "record"
            /\ pc' = "record" => pc = "open"
        BY <1>5, <3>2 DEF PcapStep, OpenFails, Opens, ReadRecord, Begin, ReadFails, EndOfFile,
             CountRecord, PcapEnds
      <4> QED
        BY <1>2, <1>5, <4>1 DEF Running, Bounded, Untouched
    <3> QED
      BY <3>1, <3>2
  <2> QED
    BY <1>4, <1>5, <2>1 DEF Bounded, Untouched, Busy
<1>10. Reasons'
  BY <1>2, <1>4, <1>5 DEF Running, Reasons
<1>11. UNCHANGED <<out.packets, out.alerts>>
  BY <1>5 DEF PcapStep, OpenFails, Opens, ReadRecord, Begin, ReadFails, EndOfFile,
         CountRecord, PcapEnds, OutputType
<1>12. options.json /\ ~out.text => ~out'.text
  BY <1>5 DEF PcapStep, OpenFails, Opens, ReadRecord, Begin, ReadFails, EndOfFile,
         CountRecord, PcapEnds, OutputType
<1>13. report.written => pc' \in {"sum", "left"}
  BY <1>2, <1>1 DEF Running, Reported, ReplayOnly
<1>14. pc' \notin Busy
  BY <1>4 DEF Busy
<1> QED
  BY <1>2, <1>3, <1>4, <1>7, <1>8, <1>9, <1>10, <1>11, <1>12, <1>13, <1>14, LoopCounts

\* recvfrom returns.
LEMMA ReceiveCounts ==
  ASSUME AInv, TimeOut \/ Arrival
  PROVE  AInv'
<1> USE DEF captureVars, procVars, loopVars, mainVars
<1>1. pc = "recv" /\ pc' \in {"handled", "closeLogs", "parse"}
  BY DEF TimeOut, Arrival, ReceiveTimesOut, ReceiveFails, Receive, Begin
<1>2. /\ exit = "running" /\ TypeOK /\ Phases /\ Accounts
      /\ Running /\ Consistent(stats)
  BY <1>1, WhereRunning
<1>3. IInv'
  BY ReceiveKeeps DEF AInv
<1>4. /\ UNCHANGED <<options, stats, report, exit, keepRunning, signals, out>>
      /\ pc' = "closeLogs" => result' = 1
  BY DEF TimeOut, Arrival, ReceiveTimesOut, ReceiveFails, Receive, Begin
<1>5. options.live /\ options.max \in Nat /\ seen \in Nat /\ stats.total \in Nat
  BY <1>1, <1>2, Typed DEF Running, Modes, LiveOnly
<1>6. seen' = seen + One(pc' = "parse")
  BY <1>5 DEF TimeOut, Arrival, ReceiveTimesOut, ReceiveFails, Receive, Begin, One
<1>7. Modes' /\ Hand'
  BY <1>1, <1>2, <1>4, <1>5, <1>6 DEF Running, Modes, ReplayOnly, Hand, One
<1>8. Bounded' /\ Reasons'
  BY <1>1, <1>2, <1>4, <1>5, <1>6 DEF Running, Bounded, Reasons, Untouched, One
<1>9. ~report.written /\ pc \notin Busy /\ pc' \notin Busy
  BY <1>1, <1>2 DEF Running, Reported, Busy
<1> QED
  BY <1>2, <1>3, <1>4, <1>7, <1>8, <1>9, LoopCounts

\* The handler may run at any of the program's calls.
LEMMA SignalCounts ==
  ASSUME AInv, Signal
  PROVE  AInv'
<1>1. /\ pc # "left" /\ options.live /\ signals' = signals + 1
      /\ UNCHANGED <<options, stats, report, exit, out, seen, result>>
      /\ pc' = pc \/ (pc = "recv" /\ pc' = "test")
  BY DEF Signal, Shielded, HandleShutdown, mainVars, captureVars, procVars
<1>2. /\ exit = "running" /\ TypeOK /\ Phases /\ Accounts
      /\ Running /\ Consistent(stats)
  BY <1>1, WhereRunning
<1>3. IInv'
  BY SignalKeeps DEF AInv
<1>4. signals \in Nat /\ options.max \in Nat /\ seen \in Nat
  BY <1>2, Typed
<1>5. Modes' /\ Hand'
  BY <1>1, <1>2 DEF Running, Modes, LiveOnly, ReplayOnly, Hand, One
<1>6. Bounded' /\ Reasons'
  BY <1>1, <1>2, <1>4 DEF Running, Bounded, Reasons, Untouched
<1>7. Printed' /\ Reported'
  BY <1>1, <1>2 DEF Running, Printed, Reported, One
<1> QED
  BY <1>1, <1>2, <1>3, <1>5, <1>6, <1>7, RunningSuffices DEF Running

-----------------------------------------------------------------------------
(* main.c                                                                  *)

\* The steps before the loops and the closing of the logs.
LEMMA MainCounts ==
  ASSUME AInv, Configure \/ OpenLogs \/ Initialise \/ InstallHandlers \/ CloseLogs
  PROVE  AInv'
<1> USE DEF mainVars, loopVars, procVars
<1>1. pc \in {"args", "openLogs", "init", "install", "closeLogs"}
  BY DEF Configure, OpenLogs, Initialise, InstallHandlers, CloseLogs
<1>2. /\ exit = "running" /\ TypeOK /\ Phases /\ Accounts
      /\ Running /\ Consistent(stats)
  BY <1>1, WhereRunning
<1>3. IInv'
  BY MainKeeps DEF AInv, MainStep
<1>4. /\ UNCHANGED <<options, report, exit, keepRunning, signals, seen, result>>
      /\ stats' = stats
  BY <1>2 DEF Configure, OpenLogs, Initialise, InstallHandlers, CloseLogs, Phases
<1>5. /\ options.live \in BOOLEAN /\ out \in OutputType /\ options.max \in Nat
      /\ seen \in Nat
  BY <1>2, Typed
<1>6. /\ pc = "args" => pc' = "openLogs"
      /\ pc = "openLogs" => pc' = "init"
      /\ pc = "init" => pc' = IF options.live THEN "install" ELSE "open"
      /\ pc = "install" => pc' = "enter"
      /\ pc = "closeLogs" => pc' \in {"report", "sum"}
  BY DEF Configure, OpenLogs, Initialise, InstallHandlers, CloseLogs
<1>7. Modes'
  BY <1>1, <1>2, <1>4, <1>5, <1>6 DEF Running, Modes, LiveOnly, ReplayOnly
<1>8. Hand'
  BY <1>1, <1>2, <1>4, <1>6 DEF Running, Hand, One, Busy
<1>9. Bounded'
  BY <1>1, <1>2, <1>4, <1>5, <1>6 DEF Running, Bounded, Untouched, Busy
<1>10. Reasons'
  BY <1>1, <1>2, <1>4, <1>6 DEF Running, Reasons
<1>11. UNCHANGED <<out.packets, out.alerts>>
       /\ (options.json /\ ~options.live /\ ~out.text => ~out'.text)
  BY <1>5 DEF Configure, OpenLogs, Initialise, InstallHandlers, CloseLogs, OutputType
<1>12. /\ report.written => pc' \in {"sum", "left"}
       /\ pc \notin Busy /\ pc' \notin Busy
  BY <1>1, <1>2, <1>5, <1>6 DEF Running, Reported, Busy
<1> QED
  BY <1>2, <1>3, <1>4, <1>7, <1>8, <1>9, <1>10, <1>11, <1>12, LoopCounts

\* report_generate
LEMMA ReportCounts ==
  ASSUME AInv, WriteReport \/ ReportFails
  PROVE  AInv'
<1> USE DEF mainVars, loopVars, procVars
<1>1. pc = "report" /\ pc' = "sum"
  BY DEF WriteReport, ReportFails
<1>2. /\ exit = "running" /\ TypeOK /\ Phases /\ Accounts
      /\ Running /\ Consistent(stats)
  BY <1>1, WhereRunning
<1>3. IInv'
  BY MainKeeps DEF AInv, MainStep
<1>4. /\ UNCHANGED <<options, stats, exit, keepRunning, signals, seen>>
      /\ result' \in {result, 1}
      /\ report' = report \/ (report'.total = stats.total /\ report'.alerts = stats.alerts)
  BY DEF WriteReport, ReportFails
<1>5. out \in OutputType
  BY <1>2, Typed
<1>6. UNCHANGED <<out.packets, out.alerts>>
      /\ (options.json /\ ~out.text => ~out'.text)
  BY <1>5 DEF WriteReport, ReportFails, OutputType
<1>7. Modes' /\ Hand' /\ Bounded'
  BY <1>1, <1>2, <1>4 DEF Running, Modes, LiveOnly, ReplayOnly, Hand, One, Busy,
                          Bounded, Untouched
<1>8. Reasons'
  BY <1>1, <1>2, <1>4 DEF Running, Reasons
<1>9. Printed' /\ Reported'
  BY <1>1, <1>2, <1>4, <1>6 DEF Running, Printed, Reported, One
<1> QED
  BY <1>2, <1>3, <1>4, <1>7, <1>8, <1>9, RunningSuffices DEF Running

\* The steps by which the process ends: what the accounts said of a running
\* program is what the properties say of one that has ended.
LEMMA EndCounts ==
  ASSUME AInv, LeaveEarly \/ Finish \/ Killed
  PROVE  AInv'
<1> USE DEF mainVars, loopVars, procVars
<1>1. exit = "running"
  BY DEF LeaveEarly, Finish, Killed, AInv, IInv, Phases
<1>2. TypeOK /\ Phases /\ Accounts /\ Running /\ Consistent(stats)
  BY <1>1, WhereRunning
<1>3. IInv'
  BY EndKeeps DEF AInv
<1>4. /\ UNCHANGED <<options, stats, seen, report, result, signals>>
      /\ pc' = "left" /\ exit' # "running"
  BY DEF LeaveEarly, Finish, Killed
<1>5. /\ out \in OutputType /\ options.json \in BOOLEAN /\ options.quiet \in BOOLEAN
      /\ stats.total \in Nat /\ seen \in Nat /\ stats.valid \in Nat /\ stats.alerts \in Nat
      /\ out.packets \in Nat /\ out.alerts \in Nat
  BY <1>2, Typed
<1>6. BooksBalance'
  <2>1. CASE exit' \in {"success", "failure"}
    <3>1. pc \in {"args", "sum"}
      BY <2>1 DEF LeaveEarly, Finish, Killed
    <3>2. InHand = 0
      BY <1>2, <1>5, <3>1 DEF Running, Hand, One, Busy, InHand
    <3> QED
      BY <1>4, <3>2 DEF AInv, BooksBalance, InHand
  <2>2. CASE exit' \notin {"success", "failure"}
    BY <1>4, <2>2 DEF AInv, BooksBalance, InHand
  <2> QED
    BY <2>1, <2>2
<1>7. AccountsAgree'
  <2> SUFFICES ASSUME LeaveEarly \/ Finish
               PROVE  AccountsAgree'
    BY DEF Killed, AccountsAgree
  <2>1. pc \in {"args", "sum"} /\ log' = log
    BY DEF LeaveEarly, Finish
  <2>2. UNCHANGED <<out.packets, out.alerts>>
    BY <1>5 DEF LeaveEarly, Finish, OutputType
  <2>3. /\ Lacks("packet", stats.valid) = 0 /\ Lacks("alert", stats.alerts) = 0
    <3>1. /\ log["packet"].written \in Nat /\ log["alert"].written \in Nat
      BY <1>2 DEF TypeOK, LogType, Logs
    <3> QED
      BY <1>2, <1>5, <2>1, <3>1 DEF Accounts, Lacks, One
  <2>4. options.json => /\ out.packets = IF options.quiet THEN 0 ELSE stats.valid
                        /\ out.alerts = stats.alerts
    BY <1>2, <1>5, <2>1 DEF Running, Printed, One
  <2> QED
    BY <1>2, <1>4, <2>1, <2>2, <2>3, <2>4 DEF AccountsAgree, Running, Reported, Lacks
<1>8. EndsForAReason'
  BY <1>4 DEF AInv, EndsForAReason
<1>9. ReplayJsonPure'
  BY <1>4, <1>5 DEF AInv, ReplayJsonPure, JsonPure, LeaveEarly, Finish, Killed, OutputType
<1> QED
  BY <1>2, <1>3, <1>4, <1>6, <1>7, <1>8, <1>9 DEF AInv, Consistent

-----------------------------------------------------------------------------
\* A step that changes nothing.
LEMMA StillCounts ==
  ASSUME AInv, UNCHANGED vars
  PROVE  AInv'
<1>1. IInv'
  BY StutterKeeps DEF AInv
<1>2. /\ UNCHANGED <<options, pc, stats, log, out, seen, result, keepRunning, signals, report, exit>>
  BY DEF vars
<1>3. exit' = "running" => Running'
  BY <1>2 DEF AInv, Running, Modes, Hand, Bounded, Reasons, Printed, Reported
<1>4. Consistent(stats)'
  <2>1. PICK s : s = stats /\ s = stats' /\ Consistent(s)
    BY <1>2 DEF AInv
  <2> QED
    BY <2>1
<1>5. BooksBalance'
  BY <1>2, <1>4 DEF AInv, BooksBalance, InHand
<1>6. AccountsAgree'
  BY <1>2 DEF AInv, AccountsAgree, Lacks
<1>7. EndsForAReason' /\ ReplayJsonPure'
  BY <1>2 DEF AInv, EndsForAReason, ReplayJsonPure, JsonPure
<1> QED
  BY <1>1, <1>3, <1>4, <1>5, <1>6, <1>7 DEF AInv

LEMMA AccountsKept == AInv /\ [Next]_vars => AInv'
  BY StillCounts, MainCounts, ReportCounts, ProcessCounts, CaptureCounts, PcapCounts,
     ReceiveCounts, SignalCounts, EndCounts DEF Next, ProgramStep, MainStep

\* The accounts hold of every run, however long and however it ends.
THEOREM AccountsHold == Spec => []AInv
  BY StartGood, AccountsKept, PTL DEF Spec

\* stats.c: every frame is counted once, under one protocol or as invalid, and
\* every alert once by severity and once by type.
THEOREM BooksAlwaysBalance == Spec => []BooksBalance
<1>1. AInv => BooksBalance
  BY DEF AInv
<1> QED
  BY AccountsHold, <1>1, PTL

\* The log files, the report and the JSON stream of a run that ends by itself
\* tell the same numbers.
THEOREM AccountsAlwaysAgree == Spec => []AccountsAgree
<1>1. AInv => AccountsAgree
  BY DEF AInv
<1> QED
  BY AccountsHold, <1>1, PTL

\* capture.c:112: a live capture that succeeds saw --count frames or was told
\* to stop, and no run sees more.
THEOREM RunsEndForAReason == Spec => []EndsForAReason
<1>1. AInv => EndsForAReason
  BY DEF AInv
<1> QED
  BY AccountsHold, <1>1, PTL

\* PCAP mode prints nothing but JSON lines under --json, also when it fails.
THEOREM ReplayStaysJson == Spec => []ReplayJsonPure
<1>1. AInv => ReplayJsonPure
  BY DEF AInv
<1> QED
  BY AccountsHold, <1>1, PTL

-----------------------------------------------------------------------------
(* The stop.                                                               *)

Early == {"args", "openLogs", "init", "install", "enter"}

\* After a stop the program does not get back to recvfrom, and what it waits
\* for there it gets at most once.
LEMMA StopKeeps ==
  ASSUME AInv, Stopped, Next
  PROVE  Stopped' /\ Due \in Nat /\ Due' \in Nat /\ Due' <= Due
<1> USE DEF captureVars, procVars, loopVars, mainVars
<1>1. options.live /\ ~keepRunning /\ pc \notin Early
  BY DEF Stopped, Early
<1>2. pc # "left" \/ exit = "running"
  BY DEF Next, ProgramStep, MainStep, LeaveEarly, Configure, OpenLogs, Initialise,
         InstallHandlers, CloseLogs, WriteReport, ReportFails, Finish,
         ProcessStep, Parse, PrintPacket, LogPacket, FlushPacket, NoAlarm, Alarm,
         PrintAlert, LogAlert, FlushAlert,
         CaptureStep, EnterCapture, SocketFails, SocketOpens, TestLoop, LeaveLoop, LiveStats,
         PcapStep, OpenFails, Opens, ReadRecord, ReadFails, EndOfFile, CountRecord, PcapEnds,
         TimeOut, ReceiveTimesOut, Arrival, ReceiveFails, Receive,
         Signal, Shielded, Killed
<1>3. TypeOK /\ Modes
  BY <1>2, WhereRunning DEF Running
<1>4. seen \in Nat /\ pc \notin ReplayOnly
  BY <1>1, <1>3, Typed DEF Modes
\* A step that neither lets a frame in nor gets ready for one.
<1> DEFINE Quiet == /\ UNCHANGED <<options, seen>> /\ ~keepRunning'
                    /\ pc' \notin Early /\ (pc' = "recv" => pc = "recv")
<1>5. Quiet => Stopped' /\ Due \in Nat /\ Due' \in Nat /\ Due' <= Due
  BY <1>1, <1>4 DEF Stopped, Due, Early
<1>6. CASE MainStep
  BY <1>1, <1>5, <1>6
  DEF Early, MainStep, LeaveEarly, Configure, OpenLogs, Initialise, InstallHandlers,
      CloseLogs, WriteReport, ReportFails, Finish
<1>7. CASE ProcessStep /\ UNCHANGED <<loopVars, mainVars>>
  <2>1. pc' \in Busy \cup {Back}
    BY <1>3, <1>7, ProcessGoesOn DEF Busy
  <2> QED
    BY <1>1, <1>5, <1>7, <2>1 DEF Early, ProcessStep, Busy, Back
<1>8. CASE CaptureStep /\ UNCHANGED mainVars
  BY <1>1, <1>5, <1>8
  DEF Early, CaptureStep, EnterCapture, SocketFails, SocketOpens, TestLoop, LeaveLoop, LiveStats
<1>9. CASE PcapStep
  BY <1>4, <1>9
  DEF ReplayOnly, PcapStep, OpenFails, Opens, ReadRecord, ReadFails, EndOfFile,
      CountRecord, PcapEnds
<1>10. CASE TimeOut \/ (ReceiveFails /\ UNCHANGED mainVars)
  BY <1>1, <1>5, <1>10 DEF Early, TimeOut, ReceiveTimesOut, ReceiveFails
<1>11. ASSUME NEW f \in Frames, Receive(f)
       PROVE  Stopped' /\ Due \in Nat /\ Due' \in Nat /\ Due' <= Due
  <2>1. /\ UNCHANGED <<options, keepRunning>>
        /\ pc = "recv" /\ pc' = "parse" /\ seen' = seen + 1
    BY <1>11 DEF Receive, Begin
  <2> QED
    BY <1>1, <1>4, <2>1 DEF Stopped, Due
<1>12. CASE Signal
  BY <1>1, <1>5, <1>12 DEF Early, Signal, HandleShutdown
<1>13. CASE Killed
  BY <1>1, <1>5, <1>13 DEF Early, Killed
<1> QED
  BY <1>6, <1>7, <1>8, <1>9, <1>10, <1>11, <1>12, <1>13 DEF Next, ProgramStep, Arrival

\* capture.c:112: the flag is looked at before every recvfrom, so that no frame
\* is handled after a stop but the one that recvfrom may be about to return.
THEOREM NoFramesAfterStop == Spec => NoFrameAfterStop
<1> SUFFICES ASSUME NEW n \in 0..MaxFrames
             PROVE  Spec => [](Stopped /\ Due = n => [](seen <= n))
  BY DEF NoFrameAfterStop
<1> DEFINE Enough == Stopped /\ Due <= n
<1>1. AInv /\ Stopped /\ Due = n => Enough
  BY DEF Due
<1>2. AInv /\ Enough /\ [Next]_vars => Enough'
  <2> SUFFICES ASSUME AInv, Enough, [Next]_vars
               PROVE  Enough'
    OBVIOUS
  <2>1. CASE Next
    <3>1. n \in Nat
      BY OptionsAssumption
    <3> QED
      BY <2>1, <3>1, StopKeeps
  <2>2. CASE UNCHANGED vars
    BY <2>2 DEF vars, Stopped, Due
  <2> QED
    BY <2>1, <2>2
<1>3. AInv /\ Enough => seen <= n
  <2> SUFFICES ASSUME AInv, Enough PROVE seen <= n
    OBVIOUS
  <2>1. seen \in Nat
    BY DEF AInv, IInv, TypeOK
  <2> QED
    BY <2>1 DEF Due
<1> QED
  BY AccountsHold, <1>1, <1>2, <1>3, PTL DEF Spec
=============================================================================
