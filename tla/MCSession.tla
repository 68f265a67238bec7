----------------------------- MODULE MCSession -----------------------------
(***************************************************************************)
(* Instances of Session: PCAP mode, live mode with and without --count.    *)
(***************************************************************************)
EXTENDS Session, TLC

Base == [live |-> FALSE, json |-> FALSE, quiet |-> FALSE, stats |-> FALSE, max |-> 0,
         logging |-> [l \in Logs |-> TRUE], report |-> TRUE]

\* JSON with and without --quiet, with and without --count, and plain text.
Replay == {[Base EXCEPT !.json = json, !.quiet = quiet, !.max = max] :
              json \in BOOLEAN, quiet \in BOOLEAN, max \in {0, 1}}

Live == {[Base EXCEPT !.live = TRUE, !.max = max, !.report = (max = 0)] : max \in {0, 2}}

LiveJson == {[Base EXCEPT !.live = TRUE, !.json = TRUE, !.stats = TRUE, !.max = 1]}

\* --no-alert-log and --stats, one frame.
LiveQuiet == {[Base EXCEPT !.live = TRUE, !.quiet = TRUE, !.stats = TRUE, !.max = 1,
                           !.logging["alert"] = FALSE]}

BothModes == Replay \cup Live \cup LiveQuiet
=============================================================================
