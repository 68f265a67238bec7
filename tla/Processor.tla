----------------------------- MODULE Processor -----------------------------
(***************************************************************************)
(* What processor.c does with one frame, with the counters of stats.c, the *)
(* two log files of logger.c and what reaches standard output.  The        *)
(* program is one thread: pc is where it is, and each step below is one    *)
(* call, so that the process may be killed between any two of them.        *)
(*                                                                         *)
(* A frame is abstracted to what parser.c makes of it: the protocol of a   *)
(* valid packet, or "none" for a frame it refuses.  Which alert            *)
(* detect_packet answers with is left open (Detector says which): any      *)
(* alert that the protocol allows, or none.                                *)
(***************************************************************************)
EXTENDS Naturals

CONSTANTS
    Options,     \* the settings cli.c may come up with
    NoAlert,     \* detect_packet answered without an alert
    MaxFrames    \* frames the environment delivers in one run

Protocols == {"TCP", "UDP", "ICMP"}
Frames    == Protocols \cup {"none"}
Logs      == {"packet", "alert"}

\* GiftIDSRuntimeOptions.  "max" is --count, 0 when it is not given.
OptionsType ==
    [live : BOOLEAN, json : BOOLEAN, quiet : BOOLEAN, stats : BOOLEAN,
     max : Nat, logging : [Logs -> BOOLEAN], report : BOOLEAN]

ASSUME OptionsAssumption == Options \subseteq OptionsType /\ MaxFrames \in Nat

\* The alerts the rules raise for a protocol, with their severities.
AlertsOf(proto) ==
    LET alert(type, severity) == [type |-> type, severity |-> severity] IN
    CASE proto = "TCP"  -> {alert("SYN Flood", "high"), alert("Port Scan", "medium"),
                            alert("Suspicious Port", "low"),
                            alert("Suspicious Port", "medium"),
                            alert("TCP SYN Watch", "low")}
      [] proto = "UDP"  -> {alert("Suspicious Port", "low"),
                            alert("Suspicious Port", "medium")}
      [] proto = "ICMP" -> {alert("ICMP Flood", "medium"),
                            alert("ICMP Echo Request", "low")}

AlertTypes == {"SYN Flood", "Port Scan", "ICMP Flood",
               "Suspicious Port", "ICMP Echo Request", "TCP SYN Watch"}
Severities == {"low", "medium", "high"}
AlertType  == [type : AlertTypes, severity : Severities]

ASSUME NoAlertAssumption == NoAlert \notin AlertType

VARIABLES
    options,     \* options of main
    pc,          \* the call the program is about to make
    frame,       \* info: the frame in hand
    alert,       \* detection: the alert in hand
    stats,       \* stats of stats.c
    log,         \* log_file and alert_log_file
    out,         \* what was printed to standard output
    seen,        \* packets_seen of the capture loop or of the file loop
    result       \* result of main: 0, or 1 for the code's -1

procVars == <<frame, alert, stats, log, out>>

StatsType ==
    [total : Nat, valid : Nat, invalid : Nat, alerts : Nat,
     proto : [Protocols -> Nat],
     severity : [Severities -> Nat],
     type : [AlertTypes -> Nat]]

OutputType == [packets : Nat, alerts : Nat, complete : BOOLEAN, text : BOOLEAN]

LogType == [state : {"off", "open", "closed"}, buffered : 0..1, written : Nat]

NoStats ==
    [total |-> 0, valid |-> 0, invalid |-> 0, alerts |-> 0,
     proto |-> [p \in Protocols |-> 0],
     severity |-> [s \in Severities |-> 0],
     type |-> [t \in AlertTypes |-> 0]]

\* A log is "off" until and unless logger_init opens it.  Lines are buffered
\* by fprintf and written by fflush or fclose.
NoLog == [state |-> "off", buffered |-> 0, written |-> 0]

\* JSON events printed, and whether a line of plain text was.
NoOutput == [packets |-> 0, alerts |-> 0, complete |-> FALSE, text |-> FALSE]

-----------------------------------------------------------------------------
\* Mutant of WithPacket: a refused frame is not counted in total_packets.
WithPacketUncounted(s, f) ==
    IF f = "none"
    THEN [s EXCEPT !.invalid = @ + 1]
    ELSE [s EXCEPT !.total = @ + 1, !.valid = @ + 1, !.proto[f] = @ + 1]

\* stats_update_packet
WithPacket(s, f) ==
    IF f = "none"
    THEN [s EXCEPT !.total = @ + 1, !.invalid = @ + 1]
    ELSE [s EXCEPT !.total = @ + 1, !.valid = @ + 1, !.proto[f] = @ + 1]

\* stats_update_alert
WithAlert(s, a) ==
    [s EXCEPT !.alerts = @ + 1, !.severity[a.severity] = @ + 1, !.type[a.type] = @ + 1]

\* fprintf, then fflush
Buffered(l) == [log EXCEPT ![l].buffered = @ + 1]

\* Mutant of Flushed: lines stay in the buffer once they are written.
FlushedAgain(l) == [log EXCEPT ![l].written = @ + log[l].buffered]

Flushed(l) == [log EXCEPT ![l].written = @ + log[l].buffered, ![l].buffered = 0]

Writing(l) == options.logging[l] /\ log[l].state = "open"

\* process_packet_event_at_time returns to the loop that called it.
Back == IF options.live THEN "handled" ELSE "processed"

-----------------------------------------------------------------------------
ProcessorInit ==
    /\ options \in Options
    /\ frame = "none"
    /\ alert = NoAlert
    /\ stats = NoStats
    /\ log   = [l \in Logs |-> NoLog]
    /\ out   = NoOutput
    /\ seen  = 0
    /\ result = 0

\* The call of process_packet_event_at_time for a frame that parses to f.
Begin(f) ==
    /\ pc' = "parse"
    /\ frame' = f
    /\ alert' = NoAlert
    /\ UNCHANGED <<stats, log, out>>

Parse ==
    /\ pc = "parse"
    /\ stats' = WithPacket(stats, frame)
    /\ pc' = IF frame = "none" THEN Back ELSE "print"
    /\ UNCHANGED <<frame, alert, log, out>>

\* Mutant of PrintPacket: --json does not look at --quiet.
PrintPacketAnyway ==
    /\ pc = "print"
    /\ out' = CASE options.json -> [out EXCEPT !.packets = @ + 1]
                [] ~options.json /\ options.quiet  -> out
                [] ~options.json /\ ~options.quiet -> [out EXCEPT !.text = TRUE]
    /\ pc' = "logPacket"
    /\ UNCHANGED <<frame, alert, stats, log>>

\* print_packet_for_mode
PrintPacket ==
    /\ pc = "print"
    /\ out' = CASE options.quiet -> out
                [] ~options.quiet /\ options.json  -> [out EXCEPT !.packets = @ + 1]
                [] ~options.quiet /\ ~options.json -> [out EXCEPT !.text = TRUE]
    /\ pc' = "logPacket"
    /\ UNCHANGED <<frame, alert, stats, log>>

\* Mutant of LogPacket: the line is not flushed.
LogPacketUnflushed ==
    /\ pc = "logPacket"
    /\ log' = IF Writing("packet") THEN Buffered("packet") ELSE log
    /\ pc' = "detect"
    /\ UNCHANGED <<frame, alert, stats, out>>

\* logger_log_packet, with its fflush in FlushPacket
LogPacket ==
    /\ pc = "logPacket"
    /\ IF Writing("packet")
       THEN log' = Buffered("packet") /\ pc' = "flushPacket"
       ELSE UNCHANGED log /\ pc' = "detect"
    /\ UNCHANGED <<frame, alert, stats, out>>

FlushPacket ==
    /\ pc = "flushPacket"
    /\ log' = Flushed("packet")
    /\ pc' = "detect"
    /\ UNCHANGED <<frame, alert, stats, out>>

\* detect_packet, and stats_update_alert when it alerts.
NoAlarm ==
    /\ pc = "detect"
    /\ pc' = Back
    /\ UNCHANGED procVars

Alarm ==
    /\ pc = "detect"
    /\ alert' \in AlertsOf(frame)
    /\ stats' = WithAlert(stats, alert')
    /\ pc' = "printAlert"
    /\ UNCHANGED <<frame, log, out>>

\* json_print_alert, logger_print_alert or logger_print_alert_verbose
PrintAlert ==
    /\ pc = "printAlert"
    /\ out' = IF options.json THEN [out EXCEPT !.alerts = @ + 1]
                              ELSE [out EXCEPT !.text = TRUE]
    /\ pc' = "logAlert"
    /\ UNCHANGED <<frame, alert, stats, log>>

\* log_alert, with its fflush in FlushAlert
LogAlert ==
    /\ pc = "logAlert"
    /\ IF Writing("alert")
       THEN log' = Buffered("alert") /\ pc' = "flushAlert"
       ELSE UNCHANGED log /\ pc' = Back
    /\ UNCHANGED <<frame, alert, stats, out>>

FlushAlert ==
    /\ pc = "flushAlert"
    /\ log' = Flushed("alert")
    /\ pc' = Back
    /\ UNCHANGED <<frame, alert, stats, out>>

ProcessStep ==
    /\ \/ Parse \/ PrintPacket \/ LogPacket \/ FlushPacket
       \/ NoAlarm \/ Alarm \/ PrintAlert \/ LogAlert \/ FlushAlert
    /\ UNCHANGED <<options, seen, result>>
=============================================================================
