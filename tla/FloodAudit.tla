----------------------------- MODULE FloodAudit -----------------------------
(***************************************************************************)
(* Detector beside an exact count of the packets that one of the two flood *)
(* rules looks at.  The detector has MaxHosts slots of MaxEvents entries,  *)
(* frees slots and drops events; the count keeps every arrival for as long *)
(* as the window of the rule.  The SYN flood rule is the first of the      *)
(* chain, and no rule before the ICMP flood rule claims an echo request:   *)
(* both see every packet of theirs, and the properties say when they claim *)
(* exactly those they should.                                              *)
(***************************************************************************)
EXTENDS Detector

CONSTANT ArrivalCap   \* arrivals of one flow at one time are counted up to here

ASSUME CapAssumption ==
    /\ ArrivalCap \in Nat
    /\ \A c \in Configs : ArrivalCap >= c.synThreshold /\ ArrivalCap >= c.icmpThreshold

VARIABLES
    audited,      \* the flood rule that is watched
    arrived,      \* arrived[flow][t]: packets of the flow stamped t
    lost,         \* the time of the last packet of the flow not remembered, 0 for none
    asked         \* the flow of the last packet, NoKey when the rule ignores it

floodVars == <<vars, audited, arrived, lost, asked>>

FloodRules == {"SYN Flood", "ICMP Flood"}

\* The audited rule: the packets it looks at, its key, memory and settings.
LooksAt(p) == IF audited = "SYN Flood" THEN SynLooksAt(p) ELSE IcmpLooksAt(p)
KeyOf(p)   == IF audited = "SYN Flood" THEN PortKey(p) ELSE PairKey(p)
Table      == IF audited = "SYN Flood" THEN synTable ELSE icmpTable
Threshold  == IF audited = "SYN Flood" THEN config.synThreshold ELSE config.icmpThreshold
Window     == WindowOf(audited)

FloodInit ==
    /\ Init
    /\ audited \in FloodRules
    /\ arrived = [k \in FlowKeys |-> [t \in Times |-> 0]]
    /\ lost = [k \in FlowKeys |-> 0]
    /\ asked = NoKey

\* Marks of the flow stamped t in the table of the rule.
StampsAt(table, key, t) ==
    IF SlotsOf(table, key) = {} THEN 0
    ELSE Cardinality({c \in Cells : MarksOf(table, key)[c] = t})

\* With ordered packets an arrival that left the window matters no more.
InWindowOf(key, t) ==
    [u \in Times |-> IF Within(t, u, Window) THEN arrived[key][u] ELSE 0]
Recent(t) == [k \in FlowKeys |-> InWindowOf(k, t)]
RecentlyLost(t) ==
    [k \in FlowKeys |-> IF Within(t, lost[k], Window) THEN lost[k] ELSE 0]

ObserveOwn(p, t) ==
    /\ LooksAt(p)
    /\ asked' = KeyOf(p)
    /\ arrived' = [Recent(t) EXCEPT ![KeyOf(p)][t] = IF @ < ArrivalCap THEN @ + 1 ELSE @]
    /\ lost' = IF StampsAt(Table', KeyOf(p), t) > StampsAt(Table, KeyOf(p), t)
               THEN RecentlyLost(t)
               ELSE [RecentlyLost(t) EXCEPT ![KeyOf(p)] = t]

ObserveOther(p, t) ==
    /\ ~LooksAt(p)
    /\ asked' = NoKey
    /\ arrived' = Recent(t)
    /\ lost' = RecentlyLost(t)

Observe(p, t) == ObserveOwn(p, t) \/ ObserveOther(p, t)

FloodNext ==
    \E p \in Packets, t \in Times :
        t >= clock /\ UNCHANGED audited /\ Detect(p, t) /\ Observe(p, t)

FloodSpec == FloodInit /\ [][FloodNext]_floodVars

-----------------------------------------------------------------------------
\* The packets of a flow that lie within the window of the rule, as pairs of a
\* time and a number.  Arrivals of one time are capped at the threshold or
\* above, so that there are as many pairs as the threshold exactly when there
\* are as many packets.
TrueArrivals(key) ==
    {a \in Times \X (1..ArrivalCap) : a[2] <= InWindowOf(key, clock)[a[1]]}

Flood == asked # NoKey /\ Cardinality(TrueArrivals(asked)) >= Threshold

\* A flood is claimed only of a flow that did send the threshold of packets
\* within the window: no event is counted twice, kept past its window or taken
\* over from the flow that had the slot before.
NoFalseAlarm == verdict.by = audited => Flood

\* A flood goes unclaimed only when, within the window, a packet of that flow
\* was not remembered.  Compaction, reuse of slots and early returns never lose
\* an event, and no other rule takes a packet away from this one.
MissedOnlyAfterLoss ==
    Flood /\ ~Within(clock, lost[asked], Window) => verdict.by = audited

\* A packet is not remembered for two reasons only: every slot holds an event
\* inside the window, or the event array of the flow is full (detector.c:414).
\* In the second case the rule claims the packet even so, unless its threshold
\* is one that detector_init warns of: a flood can be missed for a full array
\* only after it has been claimed.
LossHasCause ==
    asked # NoKey /\ lost[asked] = clock =>
        \/ Busy(Table, Window)
        \/ verdict.by = audited
        \/ OutOfReach(audited)
=============================================================================
