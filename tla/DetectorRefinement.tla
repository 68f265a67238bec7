------------------------- MODULE DetectorRefinement -------------------------
(***************************************************************************)
(* Detector, fed with packets whose timestamps do not go back, implements  *)
(* WindowRules.  The memory of a flow is what its slot holds of marks that *)
(* are still inside the window: a slot nobody has compacted yet, and one   *)
(* that is free, stand for nothing.  Nor does an entry of the history      *)
(* whose cooldown has passed.                                              *)
(***************************************************************************)
EXTENDS Detector

Memory(table, cells, now, window) ==
    [k \in FlowKeys |->
        IF SlotsOf(table, k) = {} THEN NoMarks(cells)
        ELSE Fresh(MarksOf(table, k), now, window)]

\* The alert of an incident that is still in cooldown.
RecentAlerts(entries, now, cooldown) ==
    LET Live(k) == {i \in DOMAIN entries :
                       entries[i].key = k /\ Within(now, entries[i].last, cooldown)}
    IN  [k \in AlertKeys |-> IF Live(k) = {} THEN 0 ELSE entries[Least(Live(k))].last]

Windows == INSTANCE WindowRules WITH
    synMemory  <- Memory(synTable, Cells, clock, config.synWindow),
    scanMemory <- Memory(scanTable, Ports, clock, config.scanWindow),
    icmpMemory <- Memory(icmpTable, Cells, clock, config.icmpWindow),
    claimed    <- verdict.by,
    recent     <- RecentAlerts(history, clock, config.cooldown),
    alerted    <- verdict.alert

\* Packets in order: however slots are freed, reused and left uncompacted,
\* every rule claims exactly the packets it would with one exact memory per
\* flow, and a flow is refused only when MaxHosts flows are known.  And however
\* entries of the history are taken over, exactly those claims alert whose
\* incident has no alert in cooldown among the at most MaxHistory remembered.
RulesImplemented == Windows!Spec
=============================================================================
