----------------------------- MODULE PcapReader -----------------------------
(***************************************************************************)
(* pcap_reader_run: the loop that reads a capture file record by record.   *)
(* The file is the environment: what each read finds is left open, which   *)
(* makes every file of at most MaxFrames records an instance.              *)
(***************************************************************************)
EXTENDS Processor

readerVars == <<procVars, options, seen>>

\* No file was given, it cannot be opened, or its global header is refused.
OpenFails ==
    /\ pc = "open"
    /\ result' = 1
    /\ pc' = "closeLogs"
    /\ UNCHANGED readerVars

\* Mutant of Opens: the banner is printed under --json.
OpensLoudly ==
    /\ pc = "open"
    /\ out' = [out EXCEPT !.text = @ \/ ~options.quiet]
    /\ pc' = "record"
    /\ UNCHANGED <<frame, alert, stats, log, options, seen, result>>

\* The file is open and its header accepted; the banner is printed.
Opens ==
    /\ pc = "open"
    /\ out' = [out EXCEPT !.text = @ \/ ~(options.quiet \/ options.json)]
    /\ pc' = "record"
    /\ UNCHANGED <<frame, alert, stats, log, options, seen, result>>

\* A whole record: process_packet_event_at_time is called for its data, or
\* for NULL when it has none.
ReadRecord(f) ==
    /\ pc = "record" /\ seen < MaxFrames
    /\ Begin(f)
    /\ UNCHANGED <<options, seen, result>>

\* A read error, a truncated header or body, a length above the limit, or no
\* memory: the loop ends with status -1.
ReadFails ==
    /\ pc = "record"
    /\ result' = 1
    /\ pc' = "pcapEnd"
    /\ UNCHANGED readerVars

EndOfFile ==
    /\ pc = "record"
    /\ pc' = "pcapEnd"
    /\ UNCHANGED <<readerVars, result>>

\* The record is counted, and the loop ends at --count.
CountRecord ==
    /\ pc = "processed"
    /\ seen' = seen + 1
    /\ pc' = IF options.max > 0 /\ seen' >= options.max THEN "pcapEnd" ELSE "record"
    /\ UNCHANGED <<procVars, options, result>>

PcapEnds ==
    /\ pc = "pcapEnd"
    /\ out' = [out EXCEPT !.text = @ \/ (result = 0 /\ ~(options.quiet \/ options.json))]
    /\ pc' = "closeLogs"
    /\ UNCHANGED <<frame, alert, stats, log, options, seen, result>>

PcapStep ==
    \/ OpenFails \/ Opens \/ \E f \in Frames : ReadRecord(f)
    \/ ReadFails \/ EndOfFile \/ CountRecord \/ PcapEnds
=============================================================================
