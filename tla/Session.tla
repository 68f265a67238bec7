------------------------------ MODULE Session ------------------------------
(***************************************************************************)
(* One run of giftids: main.c, which sets the components up, hands over to *)
(* the capture loop or to the file loop and winds up after it.  SIGKILL    *)
(* may end the process anywhere, and so may SIGINT or SIGTERM while they   *)
(* have their default disposition: before the handlers are installed, and  *)
(* in all of PCAP mode.                                                    *)
(***************************************************************************)
EXTENDS Capture, PcapReader

VARIABLES
    report,      \* the counters in the report file, NoStats for no report
    exit         \* how the process ended

mainVars == <<report, exit>>
vars == <<options, pc, frame, alert, stats, log, out, seen, result,
          keepRunning, timed, signals, report, exit>>

NoReport == [total |-> 0, alerts |-> 0, written |-> FALSE]

Init ==
    /\ ProcessorInit
    /\ pc = "args"
    /\ keepRunning = TRUE /\ timed = FALSE /\ signals = 0
    /\ report = NoReport
    /\ exit = "running"

-----------------------------------------------------------------------------
(* main                                                                    *)

\* --help and --version, or arguments cli_parse_args refuses.
LeaveEarly ==
    /\ pc = "args"
    /\ exit' \in {"success", "failure"}
    /\ pc' = "left"
    /\ UNCHANGED <<procVars, options, seen, result, loopVars, report>>

\* The options are taken and the configuration is loaded over its defaults.
Configure ==
    /\ pc = "args"
    /\ pc' = "openLogs"
    /\ UNCHANGED <<procVars, options, seen, result, loopVars, mainVars>>

\* logger_init: each log that is enabled is opened or, with a warning, not.
OpenLogs ==
    /\ pc = "openLogs"
    /\ \E opened \in SUBSET {l \in Logs : options.logging[l]} :
          log' = [l \in Logs |-> IF l \in opened THEN [log[l] EXCEPT !.state = "open"]
                                                 ELSE log[l]]
    /\ pc' = "init"
    /\ UNCHANGED <<frame, alert, stats, out, options, seen, result, loopVars, mainVars>>

\* detector_init, stats_init and the choice of the mode.
Initialise ==
    /\ pc = "init"
    /\ stats' = NoStats
    /\ pc' = IF options.live THEN "install" ELSE "open"
    /\ UNCHANGED <<frame, alert, log, out, options, seen, result, loopVars, mainVars>>

\* signal() for SIGINT and SIGTERM; from here on they run handle_shutdown.
InstallHandlers ==
    /\ pc = "install"
    /\ out' \in {out} \cup
                (IF options.quiet \/ options.json THEN {} ELSE {[out EXCEPT !.text = TRUE]})
    /\ pc' = "enter"
    /\ UNCHANGED <<frame, alert, stats, log, options, seen, result, loopVars, mainVars>>

\* logger_close
CloseLogs ==
    /\ pc = "closeLogs"
    /\ log' = [l \in Logs |->
                  IF log[l].state = "open"
                  THEN [state |-> "closed", buffered |-> 0,
                        written |-> log[l].written + log[l].buffered]
                  ELSE log[l]]
    /\ pc' = IF options.report THEN "report" ELSE "sum"
    /\ UNCHANGED <<frame, alert, stats, out, options, seen, result, loopVars, mainVars>>

\* report_generate, which fails when the file cannot be created or finished.
WriteReport ==
    /\ pc = "report"
    /\ report' = [total |-> stats.total, alerts |-> stats.alerts, written |-> TRUE]
    /\ out' = [out EXCEPT !.text = @ \/ ~(options.quiet \/ options.json)]
    /\ pc' = "sum"
    /\ UNCHANGED <<frame, alert, stats, log, options, seen, result, loopVars, exit>>

ReportFails ==
    /\ pc = "report"
    /\ result' = 1
    /\ pc' = "sum"
    /\ UNCHANGED <<procVars, options, seen, loopVars, mainVars>>

\* The session_complete event or the final summary, and main returns.
Finish ==
    /\ pc = "sum"
    /\ out' = IF options.json THEN [out EXCEPT !.complete = TRUE]
                              ELSE [out EXCEPT !.text = TRUE]
    /\ exit' = IF result = 0 THEN "success" ELSE "failure"
    /\ pc' = "left"
    /\ UNCHANGED <<frame, alert, stats, log, options, seen, result, loopVars, report>>

MainStep ==
    \/ LeaveEarly \/ Configure \/ OpenLogs \/ Initialise \/ InstallHandlers
    \/ CloseLogs \/ WriteReport \/ ReportFails \/ Finish

-----------------------------------------------------------------------------
\* The process is killed: what the log files have not been given is gone.
Killed ==
    /\ exit = "running"
    /\ exit' = "killed"
    /\ pc' = "left"
    /\ log' = [l \in Logs |-> [log[l] EXCEPT !.buffered = 0]]
    /\ UNCHANGED <<frame, alert, stats, out, options, seen, result, loopVars, report>>

\* Where the program is once its handlers are in place.
Shielded ==
    options.live /\ pc \notin {"args", "openLogs", "init", "install", "left"}

Signal == Shielded /\ HandleShutdown /\ UNCHANGED mainVars

\* What the program does by itself, at once.
ProgramStep ==
    \/ MainStep
    \/ ProcessStep /\ UNCHANGED <<loopVars, mainVars>>
    \/ CaptureStep /\ UNCHANGED mainVars
    \/ PcapStep /\ UNCHANGED <<loopVars, mainVars>>

\* recvfrom comes back.
TimeOut == ReceiveTimesOut /\ UNCHANGED mainVars
Arrival == (ReceiveFails \/ \E f \in Frames : Receive(f)) /\ UNCHANGED mainVars

Next == ProgramStep \/ TimeOut \/ Arrival \/ Signal \/ Killed

\* The program does not halt by itself, and a receive timeout expires.  That
\* a frame or a signal ever comes is not assumed.
Fairness == WF_vars(ProgramStep) /\ WF_vars(TimeOut)

Spec == Init /\ [][Next]_vars /\ Fairness

-----------------------------------------------------------------------------
TypeOK ==
    /\ options \in Options
    /\ frame \in Frames /\ alert \in AlertType \cup {NoAlert}
    /\ stats \in StatsType
    /\ log \in [Logs -> LogType]
    /\ out \in OutputType
    /\ seen \in Nat /\ result \in {0, 1}
    /\ keepRunning \in BOOLEAN /\ timed \in BOOLEAN /\ signals \in 0..MaxSignals
    /\ report \in [total : Nat, alerts : Nat, written : BOOLEAN]
    /\ exit \in {"running", "success", "failure", "killed"}

\* The counters tell one story: every frame either loop has seen is counted
\* once, the frame in hand aside; every valid packet under one protocol; every
\* alert under one severity and one type; no packet alerts twice.
InHand == IF options.live THEN seen - stats.total ELSE stats.total - seen

Consistent(s) ==
    /\ s.total = s.invalid + s.valid
    /\ s.valid = s.proto["TCP"] + s.proto["UDP"] + s.proto["ICMP"]
    /\ s.alerts = s.severity["low"] + s.severity["medium"] + s.severity["high"]
    /\ s.alerts = s.type["SYN Flood"] + s.type["Port Scan"] + s.type["ICMP Flood"]
                  + s.type["Suspicious Port"] + s.type["ICMP Echo Request"]
                  + s.type["TCP SYN Watch"]

BooksBalance ==
    /\ InHand \in {0, 1}
    /\ exit \in {"success", "failure"} => InHand = 0
    /\ Consistent(stats)
    /\ stats.alerts <= stats.valid

\* "Stop the IDS and immediately see the latest events in the log file"
\* (logger.c:292): wherever the process is killed, an open log on disk lacks
\* at most the one event in hand.
Lacks(l, counted) == IF log[l].state = "off" THEN 0 ELSE counted - log[l].written

LogsKeepUp ==
    /\ Lacks("packet", stats.valid) \in {0, 1}
    /\ Lacks("alert", stats.alerts) \in {0, 1}

\* No alert is on disk without its packet, also after a kill: the packet is
\* written before the rules are asked.
AlertsHavePackets ==
    log["packet"].state # "off" => log["alert"].written <= log["packet"].written

\* When a run ends by itself its log files, its report and its JSON stream
\* tell the same numbers.
AccountsAgree ==
    exit \in {"success", "failure"} =>
        /\ Lacks("packet", stats.valid) = 0
        /\ Lacks("alert", stats.alerts) = 0
        /\ report.written => report.total = stats.total /\ report.alerts = stats.alerts
        /\ options.json => /\ out.packets = IF options.quiet THEN 0 ELSE stats.valid
                           /\ out.alerts = stats.alerts

\* "--json": no line of plain text gets into the JSON lines (README.md:398).
JsonPure == options.json => ~out.text

\* PCAP mode keeps that promise, also when it fails; live mode does not.
ReplayJsonPure == ~options.live => JsonPure

\* A live capture that succeeds ended for a reason: --count frames were seen,
\* and never more, or it was told to stop.
EndsForAReason ==
    /\ options.max > 0 => seen <= options.max
    /\ options.live /\ pc = "sum" /\ result = 0 =>
          signals > 0 \/ (options.max > 0 /\ seen = options.max)

\* main.c:31 and capture.c:93: once the loop is up, a stop lets no frame in but
\* the one a recvfrom the program is waiting in may still return.  (A stop
\* before keep_running = 1 is lost: StopHonoured.)
Stopped == options.live /\ ~keepRunning
           /\ pc \notin {"args", "openLogs", "init", "install", "enter"}

Due == IF pc = "recv" THEN seen + 1 ELSE seen

NoFrameAfterStop ==
    \A n \in 0..MaxFrames : [](Stopped /\ Due = n => [](seen <= n))

\* Once the loop is up with its timeout, a stop is honoured, also when no
\* frame ever comes again, and a second signal does not get in the way of the
\* logs, the report and the summary.
StopInCapture == timed /\ ~keepRunning ~> pc = "left"

\* Without the timeout, which setsockopt may refuse (capture.c:44), a stop that
\* finds a frame in hand is still honoured once that frame is dealt with.
StopAtNextFrame == options.live /\ pc = "parse" /\ ~keepRunning ~> pc = "left"

\* The comment in handle_shutdown (main.c:28): "Ctrl+C should stop capture
\* cleanly so main can flush logs, close files, and print a final summary".
\* A signal the handler took ends the run.
StopHonoured == signals > 0 ~> pc = "left"
=============================================================================
