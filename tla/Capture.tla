------------------------------ MODULE Capture ------------------------------
(***************************************************************************)
(* capture_packets and capture_stop: the live capture loop, the raw socket *)
(* it blocks on and the flag by which the signal handler stops it.         *)
(*                                                                         *)
(* signal() has BSD semantics under the flags of the Makefile: the handler *)
(* stays installed, and a blocked recvfrom is restarted after it, except   *)
(* on a socket with SO_RCVTIMEO, where it fails with EINTR.                *)
(***************************************************************************)
EXTENDS Processor

CONSTANTS
    MaxSignals,      \* SIGINT and SIGTERM the environment sends
    TimeoutMayFail   \* whether setsockopt(SO_RCVTIMEO) may fail

ASSUME SignalsAssumption == MaxSignals \in Nat /\ TimeoutMayFail \in BOOLEAN

VARIABLES
    keepRunning,     \* keep_running
    timed,           \* the socket has its one-second receive timeout
    signals          \* signals the handler has run for

loopVars == <<keepRunning, timed, signals>>
captureVars == <<procVars, options, seen>>

\* keep_running = 1, whatever it was before.
EnterCapture ==
    /\ pc = "enter"
    /\ keepRunning' = TRUE
    /\ pc' = "socket"
    /\ UNCHANGED <<captureVars, result, timed, signals>>

\* No permission for the socket, or the interface cannot be bound.
SocketFails ==
    /\ pc = "socket"
    /\ result' = 1
    /\ pc' = "closeLogs"
    /\ UNCHANGED <<captureVars, loopVars>>

\* The socket is up, with a timeout unless setsockopt failed, which only
\* warns; then the banner, whatever the output mode.
SocketOpens ==
    /\ pc = "socket"
    /\ timed' \in IF TimeoutMayFail THEN BOOLEAN ELSE {TRUE}
    /\ out' = [out EXCEPT !.text = TRUE]
    /\ pc' = "test"
    /\ UNCHANGED <<frame, alert, stats, log, options, seen, result, keepRunning, signals>>

\* Mutant of TestLoop: --count is off by one.
TestLoopOneMore ==
    /\ pc = "test"
    /\ keepRunning /\ (options.max = 0 \/ seen <= options.max)
    /\ pc' = "recv"
    /\ UNCHANGED <<captureVars, result, loopVars>>

\* Mutant of TestLoop: the flag is not looked at.
TestLoopDeaf ==
    /\ pc = "test"
    /\ options.max = 0 \/ seen < options.max
    /\ pc' = "recv"
    /\ UNCHANGED <<captureVars, result, loopVars>>

\* The condition of the while loop; at its end the count is printed.
TestLoop ==
    /\ pc = "test"
    /\ keepRunning /\ (options.max = 0 \/ seen < options.max)
    /\ pc' = "recv"
    /\ UNCHANGED <<captureVars, result, loopVars>>

LeaveLoop ==
    /\ pc = "test"
    /\ ~keepRunning \/ (options.max # 0 /\ seen >= options.max)
    /\ out' = [out EXCEPT !.text = TRUE]
    /\ pc' = "closeLogs"
    /\ UNCHANGED <<frame, alert, stats, log, options, seen, result, loopVars>>

\* recvfrom returns a frame, and handle_packet is called.
Receive(f) ==
    /\ pc = "recv" /\ seen < MaxFrames
    /\ seen' = seen + 1
    /\ Begin(f)
    /\ UNCHANGED <<options, result, loopVars>>

\* Mutant of ReceiveTimesOut: recvfrom is called again at once.
ReceiveRetries ==
    /\ pc = "recv" /\ timed
    /\ pc' = "recv"
    /\ UNCHANGED <<captureVars, result, loopVars>>

\* recvfrom fails with EAGAIN, and handle_idle is called.
ReceiveTimesOut ==
    /\ pc = "recv" /\ timed
    /\ pc' = "handled"
    /\ UNCHANGED <<captureVars, result, loopVars>>

\* recvfrom fails with any other error.
ReceiveFails ==
    /\ pc = "recv"
    /\ result' = 1
    /\ pc' = "closeLogs"
    /\ UNCHANGED <<captureVars, loopVars>>

\* maybe_print_live_stats: with --stats, when five seconds have passed.
LiveStats ==
    /\ pc = "handled"
    /\ out' \in {out} \cup
                (IF options.stats THEN {[out EXCEPT !.text = @ \/ ~options.json]} ELSE {})
    /\ pc' = "test"
    /\ UNCHANGED <<frame, alert, stats, log, options, seen, result, loopVars>>

\* handle_shutdown runs between any two steps; when it interrupts recvfrom,
\* and not the instructions before it, the call fails with EINTR.
HandleShutdown ==
    /\ signals < MaxSignals
    /\ signals' = signals + 1
    /\ keepRunning' = FALSE
    /\ \/ pc' = pc
       \/ pc = "recv" /\ timed /\ pc' = "test"
    /\ UNCHANGED <<captureVars, result, timed>>

\* The calls that take no time the program does not control.
CaptureStep ==
    \/ EnterCapture \/ SocketFails \/ SocketOpens
    \/ TestLoop \/ LeaveLoop \/ LiveStats
=============================================================================
