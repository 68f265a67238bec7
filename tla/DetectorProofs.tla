--------------------------- MODULE DetectorProofs ---------------------------
(***************************************************************************)
(* Theorems about Detector, for any number of hosts, ports, packets and    *)
(* timestamps, any limits and any configuration the program accepts.       *)
(***************************************************************************)
EXTENDS Detector, TrackTableProofs

\* The inductive invariant of Spec.  A threshold test reads the marks of the
\* one slot that has the key, so that types alone are not inductive.
IInv == TypeOK /\ FlowsTrackedOnce /\ SlotsInUse

LEMMA Numbers ==
    /\ 0 \notin Times /\ Times \subseteq Nat
    /\ Cells = 1..MaxEvents /\ IsFiniteSet(Cells)
    /\ NoKey \notin FlowKeys
<1>1. IsFiniteSet(1..MaxEvents)
  BY LimitAssumption, FS_Interval
<1> QED BY <1>1, InputAssumption, KeyAssumption DEF Cells

LEMMA PacketKeys ==
    ASSUME NEW p \in Packets
    PROVE  /\ PairKey(p) \in FlowKeys /\ PortKey(p) \in FlowKeys
           /\ p.port \in Ports
<1>1. p \in PacketType
  BY InputAssumption
<1> QED BY <1>1 DEF PacketType, PairKey, PortKey, FlowKeys

\* IInv in the terms of the table lemmas.
LEMMA GoodTables ==
    IInv <=> /\ config \in Configs
             /\ GoodTable(synTable, MaxHosts, Cells, Times, FlowKeys)
             /\ GoodTable(scanTable, MaxHosts, Ports, Times, FlowKeys)
             /\ GoodTable(icmpTable, MaxHosts, Cells, Times, FlowKeys)
             /\ PortsBounded(scanTable, MaxPorts)
             /\ history \in [1..MaxHistory ->
                                [key : AlertKeys \cup {NoKey}, last : Times \cup {0}]]
             /\ OneSlotPerKey(history)
             /\ clock \in Times \cup {0}
             /\ verdict \in VerdictType
<1>1. ASSUME NEW table, NEW cells, table \in [1..MaxHosts -> Slot(cells, Times, FlowKeys)]
      PROVE  DOMAIN table = 1..MaxHosts
  BY <1>1
<1> QED BY <1>1 DEF IInv, TypeOK, FlowsTrackedOnce, SlotsInUse, GoodTable, PortsBounded

-----------------------------------------------------------------------------
(* The parts of a step.                                                    *)

LEMMA SynAfterGood ==
    ASSUME IInv, NEW p \in Packets, NEW t \in Times
    PROVE  /\ GoodTable(SynAfter(p, t), MaxHosts, Cells, Times, FlowKeys)
           /\ SynLooksAt(p) => Marked(SynAfter(p, t), synTable, PortKey(p), t, config.synWindow)
<1>1. GoodTable(synTable, MaxHosts, Cells, Times, FlowKeys)
  BY GoodTables
<1>2. PortKey(p) \in FlowKeys
  BY PacketKeys
<1>3. CASE SynLooksAt(p)
  BY <1>1, <1>2, <1>3, Numbers, LimitAssumption, TrackEventGood DEF SynAfter
<1>4. CASE ~SynLooksAt(p)
  BY <1>1, <1>4 DEF SynAfter
<1> QED BY <1>3, <1>4

LEMMA IcmpAfterGood ==
    ASSUME IInv, NEW p \in Packets, NEW t \in Times
    PROVE  /\ GoodTable(IcmpAfter(p, t), MaxHosts, Cells, Times, FlowKeys)
           /\ IcmpLooksAt(p) => Marked(IcmpAfter(p, t), icmpTable, PairKey(p), t, config.icmpWindow)
<1>1. GoodTable(icmpTable, MaxHosts, Cells, Times, FlowKeys)
  BY GoodTables
<1>2. PairKey(p) \in FlowKeys
  BY PacketKeys
<1>3. CASE IcmpLooksAt(p)
  BY <1>1, <1>2, <1>3, Numbers, LimitAssumption, TrackEventGood DEF IcmpAfter
<1>4. CASE ~IcmpLooksAt(p)
  BY <1>1, <1>4 DEF IcmpAfter
<1> QED BY <1>3, <1>4

LEMMA ScanAfterGood ==
    ASSUME IInv, NEW p \in Packets, NEW t \in Times
    PROVE  /\ GoodTable(ScanAfter(p, t), MaxHosts, Ports, Times, FlowKeys)
           /\ PortsBounded(ScanAfter(p, t), MaxPorts)
           /\ ScanLooksAt(p) => Marked(ScanAfter(p, t), scanTable, PairKey(p), t, config.scanWindow)
<1>1. GoodTable(scanTable, MaxHosts, Ports, Times, FlowKeys) /\ PortsBounded(scanTable, MaxPorts)
  BY GoodTables
<1>2. PairKey(p) \in FlowKeys /\ p.port \in Ports
  BY PacketKeys
<1>3. CASE ScanLooksAt(p)
  <2>1. MaxHosts \in Nat /\ MaxPorts \in Nat \ {0} /\ IsFiniteSet(Ports)
    BY LimitAssumption, InputAssumption
  <2>2. ScanAfter(p, t) =
           TrackPort(scanTable, PairKey(p), p.port, t, config.scanWindow, MaxPorts)
    BY <1>3 DEF ScanAfter
  <2> QED BY <1>1, <1>2, <2>1, <2>2, Numbers, TrackPortGood
<1>4. CASE ~ScanLooksAt(p)
  BY <1>1, <1>4 DEF ScanAfter
<1> QED BY <1>3, <1>4

EvidenceType == [count : Nat, first : Times, last : Times]

\* The marks a threshold was reached by are there to be reported: the slot is
\* the only one of its flow and is not empty.
LEMMA ReachedEvidence ==
    ASSUME NEW cells, IsFiniteSet(cells), NEW table,
           GoodTable(table, MaxHosts, cells, Times, FlowKeys),
           NEW key \in FlowKeys, NEW threshold \in Nat \ {0},
           Tally(table, key) >= threshold
    PROVE  LET marks == MarksOf(table, key) IN
           /\ MarksEvidence(marks) \in EvidenceType
           /\ FirstSeen(marks) \in SeenTimes(marks)
           /\ LastSeen(marks) \in SeenTimes(marks)
           /\ FirstSeen(marks) <= LastSeen(marks)
           /\ \E i \in SlotsOf(table, key) : marks = table[i].marks
<1> DEFINE slot == Least(SlotsOf(table, key))
<1>1. SlotsOf(table, key) # {}
  BY DEF Tally
<1>2. slot \in SlotsOf(table, key)
  <2>1. SlotsOf(table, key) \subseteq Nat
    BY DEF SlotsOf, GoodTable
  <2> QED BY <1>1, <2>1, LeastIsLeast
<1>3. slot \in 1..MaxHosts /\ table[slot].key # NoKey
  BY <1>2, Numbers DEF SlotsOf, GoodTable
<1>4. table[slot].marks \in MarksType(cells, Times) /\ Stamped(table[slot].marks) # {}
  BY <1>3 DEF GoodTable, Slot, MarksType, SlotInUse
<1>5. MarksOf(table, key) = table[slot].marks
  BY DEF MarksOf
<1> HIDE DEF slot
<1>6. Times \subseteq Nat \ {0}
  BY InputAssumption
<1>7. /\ FirstSeen(table[slot].marks) \in SeenTimes(table[slot].marks)
      /\ LastSeen(table[slot].marks) \in SeenTimes(table[slot].marks)
      /\ FirstSeen(table[slot].marks) <= LastSeen(table[slot].marks)
      /\ SeenTimes(table[slot].marks) \subseteq Times
      /\ Count(table[slot].marks) \in Nat
  BY <1>4, <1>6, SeenBounds
<1> QED BY <1>2, <1>5, <1>7 DEF MarksEvidence, EvidenceType

HistoryType == [1..MaxHistory -> [key : AlertKeys \cup {NoKey}, last : Times \cup {0}]]

\* save_alert_history takes an entry only when no entry has the incident.
LEMMA HistoryAfterGood ==
    ASSUME IInv, NEW key \in AlertKeys, NEW now \in Times
    PROVE  /\ HistoryAfter(key, now) \in HistoryType
           /\ OneSlotPerKey(HistoryAfter(key, now))
<1> DEFINE slot == IF Incidents(key) # {} THEN Incidents(key) ELSE Reusable(now)
           new  == [key |-> key, last |-> now]
           after == HistoryAfter(key, now)
<1>1. history \in HistoryType /\ OneSlotPerKey(history) /\ DOMAIN history = 1..MaxHistory
  BY GoodTables DEF HistoryType
<1>2. slot \subseteq 1..MaxHistory /\ slot \subseteq Nat
  BY <1>1 DEF Incidents, Reusable
<1>3. CASE after = history
  BY <1>1, <1>3
<1>4. CASE slot # {} /\ after = [history EXCEPT ![Least(slot)] = new]
  <2> HIDE DEF slot, after
  <2>1. Least(slot) \in slot /\ Least(slot) \in 1..MaxHistory
    BY <1>2, <1>4, LeastIsLeast
  <2>2. new \in [key : AlertKeys \cup {NoKey}, last : Times \cup {0}] /\ new.key = key
    OBVIOUS
  <2> HIDE DEF new
  <2>3. /\ after \in HistoryType
        /\ after[Least(slot)] = new
        /\ \A i \in 1..MaxHistory : i # Least(slot) => after[i] = history[i]
    BY <1>1, <1>4, <2>1, <2>2 DEF HistoryType
  <2>4. \A i \in 1..MaxHistory : i # Least(slot) => history[i].key # key
    <3> SUFFICES ASSUME NEW i \in 1..MaxHistory, history[i].key = key
                 PROVE  i = Least(slot)
      OBVIOUS
    <3>1. i \in Incidents(key) BY <1>1 DEF Incidents
    <3>2. Least(slot) \in Incidents(key) BY <3>1, <2>1 DEF slot
    <3>3. history[Least(slot)].key = key BY <3>2 DEF Incidents
    <3>4. key # NoKey BY KeyAssumption
    <3> QED BY <3>3, <3>4, <2>1, <1>1 DEF OneSlotPerKey
  <2>5. OneSlotPerKey(after)
    <3> SUFFICES ASSUME NEW i \in 1..MaxHistory, NEW j \in 1..MaxHistory,
                        after[i].key = after[j].key, after[i].key # NoKey
                 PROVE  i = j
      BY <2>3 DEF OneSlotPerKey, HistoryType
    <3>1. CASE i # Least(slot) /\ j # Least(slot)
      BY <3>1, <2>3, <1>1 DEF OneSlotPerKey
    <3>2. CASE i = Least(slot) \/ j = Least(slot)
      BY <3>2, <2>2, <2>3, <2>4
    <3> QED BY <3>1, <3>2
  <2> QED BY <2>3, <2>5 DEF after
<1>5. after = history \/ (slot # {} /\ after = [history EXCEPT ![Least(slot)] = new])
  BY DEF HistoryAfter
<1> QED BY <1>3, <1>4, <1>5

LEMMA ClaimGood ==
    ASSUME IInv, NEW rule \in Rules, NEW key \in FlowKeys, NEW t \in Times,
           NEW evidence \in EvidenceType, Claim(rule, key, t, evidence)
    PROVE  /\ verdict' \in VerdictType
           /\ history' \in HistoryType
           /\ OneSlotPerKey(history')
<1>1. <<rule, key>> \in AlertKeys
  BY DEF AlertKeys
<1>2. history' \in HistoryType /\ OneSlotPerKey(history')
  BY <1>1, HistoryAfterGood DEF Claim
<1>3. verdict' \in VerdictType
  <2>1. CASE ShouldEmit(<<rule, key>>, t)
    BY <2>1 DEF Claim, VerdictType, EvidenceType
  <2>2. CASE ~ShouldEmit(<<rule, key>>, t)
    BY <2>2 DEF Claim, VerdictType, Nothing
  <2> QED BY <2>1, <2>2
<1> QED BY <1>2, <1>3

\* The thresholds that the marks a rule reports have reached are positive.
LEMMA Thresholds ==
    ASSUME config \in Configs
    PROVE  /\ config.synThreshold \in Nat \ {0}
           /\ config.scanThreshold \in Nat \ {0}
           /\ config.icmpThreshold \in Nat \ {0}
           /\ config.synWindow \in Nat
           /\ config.scanWindow \in Nat
           /\ config.icmpWindow \in Nat
           /\ config.cooldown \in Nat
<1>1. config \in ConfigType
  BY ConfigAssumption
<1> QED BY <1>1, ConfigAssumption DEF ConfigType, PositiveLimits

\* The three tables of the next state, whichever rule claims.
LEMMA TablesNext ==
    ASSUME IInv, NEW p \in Packets, NEW t \in Times, Detect(p, t)
    PROVE  /\ synTable' \in {synTable, SynAfter(p, t)}
           /\ scanTable' \in {scanTable, ScanAfter(p, t)}
           /\ icmpTable' \in {icmpTable, IcmpAfter(p, t)}
BY DEF Detect, RaiseSynFlood, RaisePortScan, RaiseIcmpFlood, RaiseSuspiciousPort,
       RaiseIcmpEcho, RaiseSynWatch, NoRule, FallThrough

-----------------------------------------------------------------------------
(* The alert history.                                                      *)

LEMMA HistoryFacts ==
    ASSUME IInv
    PROVE  /\ history \in HistoryType /\ OneSlotPerKey(history)
           /\ DOMAIN history = 1..MaxHistory
           /\ config.cooldown \in Nat
<1>1. history \in HistoryType /\ OneSlotPerKey(history) /\ config \in Configs
  BY GoodTables DEF HistoryType
<1> QED BY <1>1, Thresholds DEF HistoryType

\* The one entry of an incident is the one should_emit_alert meets.
LEMMA TheIncident ==
    ASSUME IInv, NEW key \in AlertKeys, NEW i \in 1..MaxHistory, history[i].key = key
    PROVE  Incidents(key) = {i} /\ Least(Incidents(key)) = i
<1>1. key # NoKey
  BY KeyAssumption
<1>2. Incidents(key) = {i}
  BY <1>1, HistoryFacts DEF Incidents, OneSlotPerKey
<1>3. Least({i}) = i
  <2>1. {i} \subseteq Nat BY LimitAssumption
  <2> QED BY <2>1, LeastIsLeast
<1> QED BY <1>2, <1>3

\* Entries a new incident takes: its own, or one that is out of cooldown.
LEMMA HistoryStep ==
    ASSUME IInv, NEW key \in AlertKeys, NEW t \in Times
    PROVE  \/ /\ HistoryAfter(key, t) = history
              /\ \/ config.cooldown = 0
                 \/ InCooldown(key, t)
                 \/ Incidents(key) = {} /\ Reusable(t) = {}
           \/ /\ config.cooldown # 0
              /\ \E i \in 1..MaxHistory :
                    /\ HistoryAfter(key, t) = [history EXCEPT ![i] = [key |-> key, last |-> t]]
                    /\ history[i].key = key \/ ~Within(t, history[i].last, config.cooldown)
<1> DEFINE slot == IF Incidents(key) # {} THEN Incidents(key) ELSE Reusable(t)
<1>1. CASE config.cooldown = 0 \/ InCooldown(key, t) \/ slot = {}
  BY <1>1 DEF HistoryAfter
<1>2. CASE ~(config.cooldown = 0 \/ InCooldown(key, t) \/ slot = {})
  <2>1. HistoryAfter(key, t) = [history EXCEPT ![Least(slot)] = [key |-> key, last |-> t]]
    BY <1>2 DEF HistoryAfter
  <2>2. slot \subseteq 1..MaxHistory
    BY HistoryFacts DEF Incidents, Reusable
  <2>3. Least(slot) \in slot
    <3>1. slot \subseteq Nat BY <2>2
    <3> HIDE DEF slot
    <3> QED BY <3>1, <1>2, LeastIsLeast
  <2>4. history[Least(slot)].key = key \/ ~Within(t, history[Least(slot)].last, config.cooldown)
    BY <2>3 DEF Incidents, Reusable
  <2> HIDE DEF slot
  <2> QED BY <1>2, <2>1, <2>2, <2>3, <2>4
<1> QED BY <1>1, <1>2

-----------------------------------------------------------------------------
(* One call.                                                               *)

\* A step is the claim of one rule, or finds nothing.
LEMMA StepShape ==
    ASSUME IInv, NEW p \in Packets, NEW t \in Times, Detect(p, t)
    PROVE  \/ \E rule \in Rules, key \in FlowKeys, evidence \in EvidenceType :
                 Claim(rule, key, t, evidence)
           \/ verdict' = Nothing /\ history' = history
<1>1. PacketEvidence(t) \in EvidenceType
  <2>1. t \in Nat BY Numbers
  <2> QED BY <2>1 DEF PacketEvidence, EvidenceType
<1>2. PairKey(p) \in FlowKeys /\ PortKey(p) \in FlowKeys
  BY PacketKeys
<1>3. config \in Configs
  BY GoodTables
<1>4. CASE RaiseSynFlood(p, t)
  <2>1. Tally(SynAfter(p, t), PortKey(p)) >= config.synThreshold
    BY <1>4 DEF RaiseSynFlood, SynClaims
  <2>2. MarksEvidence(MarksOf(SynAfter(p, t), PortKey(p))) \in EvidenceType
    BY <2>1, <1>2, <1>3, Thresholds, Numbers, SynAfterGood, ReachedEvidence
  <2> QED BY <1>4, <2>2, <1>2 DEF RaiseSynFlood, Rules
<1>5. CASE RaisePortScan(p, t)
  <2>1. Tally(ScanAfter(p, t), PairKey(p)) >= config.scanThreshold
    BY <1>5 DEF RaisePortScan, ScanClaims
  <2>2. MarksEvidence(MarksOf(ScanAfter(p, t), PairKey(p))) \in EvidenceType
    BY <2>1, <1>2, <1>3, Thresholds, InputAssumption, ScanAfterGood, ReachedEvidence
  <2> QED BY <1>5, <2>2, <1>2 DEF RaisePortScan, Rules
<1>6. CASE RaiseIcmpFlood(p, t)
  <2>1. Tally(IcmpAfter(p, t), PairKey(p)) >= config.icmpThreshold
    BY <1>6 DEF RaiseIcmpFlood, IcmpClaims
  <2>2. MarksEvidence(MarksOf(IcmpAfter(p, t), PairKey(p))) \in EvidenceType
    BY <2>1, <1>2, <1>3, Thresholds, Numbers, IcmpAfterGood, ReachedEvidence
  <2> QED BY <1>6, <2>2, <1>2 DEF RaiseIcmpFlood, Rules
<1>7. CASE RaiseSuspiciousPort(p, t)
  BY <1>7, <1>1, <1>2 DEF RaiseSuspiciousPort, Rules
<1>8. CASE RaiseIcmpEcho(p, t)
  BY <1>8, <1>1, <1>2 DEF RaiseIcmpEcho, Rules
<1>9. CASE RaiseSynWatch(p, t)
  BY <1>9, <1>1, <1>2 DEF RaiseSynWatch, Rules
<1>10. CASE NoRule(p, t)
  BY <1>10 DEF NoRule
<1> QED BY <1>4, <1>5, <1>6, <1>7, <1>8, <1>9, <1>10 DEF Detect

LEMMA VerdictNext ==
    ASSUME IInv, NEW p \in Packets, NEW t \in Times, Detect(p, t)
    PROVE  /\ verdict' \in VerdictType
           /\ history' \in HistoryType
           /\ OneSlotPerKey(history')
<1>1. CASE \E rule \in Rules, key \in FlowKeys, evidence \in EvidenceType :
              Claim(rule, key, t, evidence)
  BY <1>1, ClaimGood
<1>2. CASE verdict' = Nothing /\ history' = history
  <2>1. Nothing \in VerdictType
    BY DEF Nothing, VerdictType
  <2> QED BY <1>2, <2>1, GoodTables DEF HistoryType
<1> QED BY <1>1, <1>2, StepShape

-----------------------------------------------------------------------------
LEMMA InitIInv == Init => IInv
<1> SUFFICES ASSUME Init PROVE IInv
  OBVIOUS
<1>1. /\ GoodTable(synTable, MaxHosts, Cells, Times, FlowKeys)
      /\ GoodTable(scanTable, MaxHosts, Ports, Times, FlowKeys)
      /\ GoodTable(icmpTable, MaxHosts, Cells, Times, FlowKeys)
  BY LimitAssumption, EmptyTableGood DEF Init
<1>2. PortsBounded(scanTable, MaxPorts)
  <2>1. Stamped(FreeSlot(Ports).marks) = {}
    BY DEF FreeSlot, NoMarks, Stamped
  <2>2. Count(FreeSlot(Ports).marks) = 0
    BY <2>1, FS_EmptySet DEF Count
  <2> QED BY <2>2, LimitAssumption DEF Init, EmptyTable, PortsBounded
<1>3. history \in HistoryType /\ OneSlotPerKey(history)
  BY DEF Init, Unused, HistoryType, OneSlotPerKey
<1>4. verdict \in VerdictType
  BY DEF Init, Nothing, VerdictType
<1> QED BY <1>1, <1>2, <1>3, <1>4, GoodTables DEF Init, HistoryType

LEMMA DetectIInv ==
    ASSUME IInv, NEW p \in Packets, NEW t \in Times, Detect(p, t)
    PROVE  IInv'
<1>1. /\ GoodTable(synTable', MaxHosts, Cells, Times, FlowKeys)
      /\ GoodTable(scanTable', MaxHosts, Ports, Times, FlowKeys)
      /\ GoodTable(icmpTable', MaxHosts, Cells, Times, FlowKeys)
      /\ PortsBounded(scanTable', MaxPorts)
  BY TablesNext, GoodTables, SynAfterGood, ScanAfterGood, IcmpAfterGood
<1>2. /\ verdict' \in VerdictType
      /\ history' \in HistoryType
      /\ OneSlotPerKey(history')
  BY VerdictNext
<1>3. config' \in Configs /\ clock' \in Times \cup {0}
  BY GoodTables DEF Detect
<1>4. DOMAIN synTable' = 1..MaxHosts /\ DOMAIN scanTable' = 1..MaxHosts /\ DOMAIN icmpTable' = 1..MaxHosts
  BY <1>1 DEF GoodTable
<1> QED BY <1>1, <1>2, <1>3, <1>4
        DEF IInv, TypeOK, FlowsTrackedOnce, SlotsInUse, GoodTable, PortsBounded, HistoryType

LEMMA StutterIInv == IInv /\ UNCHANGED vars => IInv'
BY DEF IInv, TypeOK, FlowsTrackedOnce, SlotsInUse, vars, VerdictType, AlertKeys

\* Detector's state is well formed, every flow and incident has one slot, and
\* slots in use are those with marks, for every sequence of packets, in order
\* or not.
THEOREM IInvHolds == Spec => []IInv
<1>1. IInv /\ [Next]_vars => IInv'
  BY DetectIInv, StutterIInv DEF Next
<1> QED BY InitIInv, <1>1, PTL DEF Spec

\* The variables keep their types (all of detector.c's static state).
THEOREM TypeCorrect == Spec => []TypeOK
<1>1. IInv => TypeOK
  BY DEF IInv
<1> QED BY IInvHolds, <1>1, PTL

\* A flow is tracked by one slot and an incident by one entry, whatever the
\* early returns of find_..._state leave uncompacted.
THEOREM TrackedOnce == Spec => []FlowsTrackedOnce
<1>1. IInv => FlowsTrackedOnce
  BY DEF IInv
<1> QED BY IInvHolds, <1>1, PTL

\* A slot is in use exactly while it has marks, and ports[] is not overrun.
THEOREM InUse == Spec => []SlotsInUse
<1>1. IInv => SlotsInUse
  BY DEF IInv
<1> QED BY IInvHolds, <1>1, PTL

-----------------------------------------------------------------------------
(* Thresholds above the limits.                                            *)

\* A tally is the number of marks of one slot.
LEMMA TallyBounded ==
    ASSUME NEW cells, NEW table, GoodTable(table, MaxHosts, cells, Times, FlowKeys),
           NEW limit \in Nat, \A i \in 1..MaxHosts : Count(table[i].marks) <= limit,
           NEW key
    PROVE  Tally(table, key) <= limit
<1>1. CASE SlotsOf(table, key) = {}
  BY <1>1 DEF Tally
<1>2. CASE SlotsOf(table, key) # {}
  <2>1. SlotsOf(table, key) \subseteq 1..MaxHosts
    BY DEF SlotsOf, GoodTable
  <2>2. Least(SlotsOf(table, key)) \in SlotsOf(table, key)
    BY <1>2, <2>1, LeastIsLeast
  <2> QED BY <1>2, <2>1, <2>2 DEF Tally, MarksOf
<1> QED BY <1>1, <1>2

LEMMA TallyIsNat ==
    ASSUME NEW cells, IsFiniteSet(cells), NEW table,
           GoodTable(table, MaxHosts, cells, Times, FlowKeys), NEW key
    PROVE  Tally(table, key) \in Nat
<1>1. CASE SlotsOf(table, key) = {}
  BY <1>1 DEF Tally
<1>2. CASE SlotsOf(table, key) # {}
  <2>1. SlotsOf(table, key) \subseteq 1..MaxHosts
    BY DEF SlotsOf, GoodTable
  <2>2. Least(SlotsOf(table, key)) \in 1..MaxHosts
    BY <1>2, <2>1, LeastIsLeast
  <2>3. Stamped(MarksOf(table, key)) \in SUBSET cells
    BY <2>2 DEF MarksOf, GoodTable, Slot, Stamped
  <2>4. Cardinality(Stamped(MarksOf(table, key))) \in Nat
    BY <2>3, FS_Subset, FS_CardinalityType
  <2> QED BY <1>2, <2>4 DEF Tally, Count
<1> QED BY <1>1, <1>2

\* events[] holds MaxEvents entries.
LEMMA EventsBounded ==
    ASSUME NEW table, GoodTable(table, MaxHosts, Cells, Times, FlowKeys),
           NEW i \in 1..MaxHosts
    PROVE  Count(table[i].marks) <= MaxEvents
<1>1. Stamped(table[i].marks) \in SUBSET Cells
  BY DEF GoodTable, Slot, Stamped
<1>2. IsFiniteSet(Cells) /\ Cardinality(Cells) = MaxEvents
  BY LimitAssumption, FS_Interval DEF Cells
<1>3. Cardinality(Stamped(table[i].marks)) <= Cardinality(Cells)
  BY <1>1, <1>2, FS_Subset
<1> QED BY <1>2, <1>3 DEF Count

LEMMA Between ==
    ASSUME NEW a \in Nat, NEW b \in Nat, NEW c \in Nat, a >= b, a <= c
    PROVE  ~(b > c)
OBVIOUS

LEMMA ClaimsInReach ==
    ASSUME IInv, NEW p \in Packets, NEW t \in Times, Detect(p, t)
    PROVE  OutOfReachNeverClaims'
<1>1. config' = config /\ config \in Configs /\ MaxEvents \in Nat /\ MaxPorts \in Nat
  BY GoodTables, LimitAssumption DEF Detect
<1>2. /\ Tally(SynAfter(p, t), PortKey(p)) <= MaxEvents
      /\ Tally(IcmpAfter(p, t), PairKey(p)) <= MaxEvents
  <2>1. \A i \in 1..MaxHosts : /\ Count(SynAfter(p, t)[i].marks) <= MaxEvents
                               /\ Count(IcmpAfter(p, t)[i].marks) <= MaxEvents
    BY SynAfterGood, IcmpAfterGood, EventsBounded
  <2> QED BY <1>1, <2>1, SynAfterGood, IcmpAfterGood, TallyBounded
<1>3. Tally(ScanAfter(p, t), PairKey(p)) <= MaxPorts
  <2>1. \A i \in 1..MaxHosts : Count(ScanAfter(p, t)[i].marks) <= MaxPorts
    BY ScanAfterGood DEF PortsBounded, GoodTable
  <2> QED BY <1>1, <2>1, ScanAfterGood, TallyBounded
<1>4. \A rule, key, evidence : Claim(rule, key, t, evidence) => verdict'.by = rule
  BY DEF Claim, Nothing
<1>5. CASE RaiseSynFlood(p, t)
  <2>1. verdict'.by = "SYN Flood" /\ Tally(SynAfter(p, t), PortKey(p)) >= config.synThreshold
    BY <1>4, <1>5 DEF RaiseSynFlood, SynClaims
  <2>2. Tally(SynAfter(p, t), PortKey(p)) \in Nat /\ config.synThreshold \in Nat
    BY <1>1, Thresholds, SynAfterGood, TallyIsNat, Numbers
  <2>3. ~(config.synThreshold > MaxEvents)
    BY <1>1, <1>2, <2>1, <2>2, Between
  <2>4. ~(config'.synThreshold > MaxEvents)
    BY <1>1, <2>3
  <2> QED BY <2>1, <2>4 DEF OutOfReachNeverClaims, OutOfReach
<1>6. CASE RaisePortScan(p, t)
  <2>1. verdict'.by = "Port Scan" /\ Tally(ScanAfter(p, t), PairKey(p)) >= config.scanThreshold
    BY <1>4, <1>6 DEF RaisePortScan, ScanClaims
  <2>2. Tally(ScanAfter(p, t), PairKey(p)) \in Nat /\ config.scanThreshold \in Nat
    BY <1>1, Thresholds, ScanAfterGood, TallyIsNat, InputAssumption
  <2>3. ~(config.scanThreshold > MaxPorts)
    BY <1>1, <1>3, <2>1, <2>2, Between
  <2>4. ~(config'.scanThreshold > MaxPorts)
    BY <1>1, <2>3
  <2> QED BY <2>1, <2>4 DEF OutOfReachNeverClaims, OutOfReach
<1>7. CASE RaiseIcmpFlood(p, t)
  <2>1. verdict'.by = "ICMP Flood" /\ Tally(IcmpAfter(p, t), PairKey(p)) >= config.icmpThreshold
    BY <1>4, <1>7 DEF RaiseIcmpFlood, IcmpClaims
  <2>2. Tally(IcmpAfter(p, t), PairKey(p)) \in Nat /\ config.icmpThreshold \in Nat
    BY <1>1, Thresholds, IcmpAfterGood, TallyIsNat, Numbers
  <2>3. ~(config.icmpThreshold > MaxEvents)
    BY <1>1, <1>2, <2>1, <2>2, Between
  <2>4. ~(config'.icmpThreshold > MaxEvents)
    BY <1>1, <2>3
  <2> QED BY <2>1, <2>4 DEF OutOfReachNeverClaims, OutOfReach
<1>8. CASE RaiseSuspiciousPort(p, t) \/ RaiseIcmpEcho(p, t) \/ RaiseSynWatch(p, t) \/ NoRule(p, t)
  <2>1. verdict'.by \in {"Suspicious Port", "ICMP Echo Request", "TCP SYN Watch", "none"}
    <3>1. CASE RaiseSuspiciousPort(p, t)
      BY <1>4, <3>1 DEF RaiseSuspiciousPort
    <3>2. CASE RaiseIcmpEcho(p, t)
      BY <1>4, <3>2 DEF RaiseIcmpEcho
    <3>3. CASE RaiseSynWatch(p, t)
      BY <1>4, <3>3 DEF RaiseSynWatch
    <3>4. CASE NoRule(p, t)
      BY <3>4 DEF NoRule, Nothing
    <3> QED BY <1>8, <3>1, <3>2, <3>3, <3>4
  <2> QED BY <2>1 DEF OutOfReachNeverClaims, OutOfReach
<1> QED BY <1>5, <1>6, <1>7, <1>8 DEF Detect

\* A rule whose threshold is above its limit, of which detector_init warns,
\* never claims a packet, in order or not: no array outgrows its limit.
THEOREM OutOfReachIsSilent == Spec => []OutOfReachNeverClaims
<1>1. Init => OutOfReachNeverClaims
  BY DEF Init, Nothing, OutOfReachNeverClaims, OutOfReach
<1>2. IInv /\ OutOfReachNeverClaims /\ [Next]_vars => OutOfReachNeverClaims'
  <2>1. IInv /\ Next => OutOfReachNeverClaims'
    BY ClaimsInReach DEF Next
  <2>2. OutOfReachNeverClaims /\ UNCHANGED vars => OutOfReachNeverClaims'
    BY DEF vars, OutOfReachNeverClaims, OutOfReach
  <2> QED BY <2>1, <2>2
<1> QED BY <1>1, <1>2, IInvHolds, PTL DEF Spec

-----------------------------------------------------------------------------
(* A full table.                                                           *)

\* A search that does not find the flow has compacted every slot.
LEMMA SweptThrough ==
    ASSUME NEW cells, NEW table, GoodTable(table, MaxHosts, cells, Times, FlowKeys),
           NEW key \in FlowKeys, NEW now, NEW window
    PROVE  LET swept == Swept(table, key, now, window) IN
           /\ GoodTable(swept, MaxHosts, cells, Times, FlowKeys)
           /\ SlotsOf(swept, key) = {} =>
                 \A i \in 1..MaxHosts : \A c \in Stamped(swept[i].marks) :
                    Within(now, swept[i].marks[c], window)
<1> DEFINE swept == Swept(table, key, now, window)
<1>1. key # NoKey /\ MaxHosts \in Nat
  BY Numbers, LimitAssumption
<1>2. GoodTable(swept, MaxHosts, cells, Times, FlowKeys)
  BY <1>1, SweptGood
<1>3. SlotsOf(swept, key) = {} =>
         \A i \in 1..MaxHosts : \A c \in Stamped(swept[i].marks) :
            Within(now, swept[i].marks[c], window)
  BY <1>1, SweptGood
<1> QED BY <1>2, <1>3

\* When a flow has no slot after it was looked for, the search went through
\* the whole table and found no slot free.
LEMMA RefusedIsBusy ==
    ASSUME NEW cells, IsFiniteSet(cells), NEW table,
           GoodTable(table, MaxHosts, cells, Times, FlowKeys),
           NEW key \in FlowKeys, NEW now, NEW window, NEW after, NEW marks,
           GoodTable(after, MaxHosts, cells, Times, FlowKeys),
           LET swept == Swept(table, key, now, window) IN
           after = IF Candidates(swept, key) = {} THEN swept
                   ELSE Put(swept, Least(Candidates(swept, key)), key, marks),
           Tally(after, key) = 0
    PROVE  \A i \in DOMAIN after :
              \E c \in DOMAIN after[i].marks : Within(now, after[i].marks[c], window)
<1> DEFINE swept == Swept(table, key, now, window)
<1>1. key # NoKey /\ MaxHosts \in Nat
  BY Numbers, LimitAssumption
<1>2. /\ GoodTable(swept, MaxHosts, cells, Times, FlowKeys)
      /\ SlotsOf(swept, key) = {} =>
            \A i \in 1..MaxHosts : \A c \in Stamped(swept[i].marks) :
               Within(now, swept[i].marks[c], window)
  BY SweptThrough
<1> HIDE DEF swept
<1>3. DOMAIN swept = 1..MaxHosts /\ DOMAIN after = 1..MaxHosts
  BY <1>2 DEF GoodTable
<1>4. SlotsOf(after, key) = {}
  <2> SUFFICES ASSUME SlotsOf(after, key) # {} PROVE FALSE
    OBVIOUS
  <2> DEFINE slot == Least(SlotsOf(after, key))
  <2>1. slot \in 1..MaxHosts /\ after[slot].key = key
    <3>1. SlotsOf(after, key) \subseteq 1..MaxHosts
      BY <1>3 DEF SlotsOf
    <3>2. slot \in SlotsOf(after, key)
      BY <3>1, LeastIsLeast
    <3> QED BY <1>3, <3>2 DEF SlotsOf
  <2>2. Stamped(after[slot].marks) # {} /\ Stamped(after[slot].marks) \subseteq cells
    BY <1>1, <2>1 DEF GoodTable, SlotInUse, Slot, Stamped
  <2>3. Count(after[slot].marks) # 0
    BY <2>2, FS_Subset, FS_EmptySet DEF Count
  <2> QED BY <2>3 DEF Tally, MarksOf
<1>5. Candidates(swept, key) = {}
  <2> SUFFICES ASSUME Candidates(swept, key) # {} PROVE FALSE
    OBVIOUS
  <2> DEFINE slot == Least(Candidates(swept, key))
  <2>1. Candidates(swept, key) \subseteq 1..MaxHosts
    BY <1>3 DEF Candidates, SlotsOf
  <2>2. slot \in 1..MaxHosts
    BY <2>1, LeastIsLeast
  <2>3. after[slot].key = key
    BY <1>3, <2>2 DEF swept, Put
  <2> QED BY <1>3, <1>4, <2>2, <2>3 DEF SlotsOf
<1>6. after = swept
  BY <1>5 DEF swept
<1>7. SlotsOf(swept, key) = {} /\ SlotsOf(swept, NoKey) = {}
  BY <1>5 DEF Candidates
<1> TAKE i \in DOMAIN after
<1>8. i \in 1..MaxHosts /\ swept[i].key # NoKey
  BY <1>3, <1>7 DEF SlotsOf
<1>9. PICK c \in DOMAIN swept[i].marks : c \in Stamped(swept[i].marks)
  BY <1>2, <1>8 DEF GoodTable, SlotInUse, Stamped
<1> QED BY <1>2, <1>6, <1>7, <1>8, <1>9

\* find_..._state: a packet that finds no slot found every one of them with an
\* event still inside the window, in order or not.
THEOREM RefusalsAreDue == Spec => RefusedOnlyWhenBusy
<1> DEFINE Refused(p) ==
      /\ SynLooksAt(p) /\ Tally(synTable, PortKey(p))' = 0
         /\ synTable' = SynAfter(p, clock') => Busy(synTable, config.synWindow)'
      /\ ScanLooksAt(p) /\ Tally(scanTable, PairKey(p))' = 0
         /\ scanTable' = ScanAfter(p, clock') => Busy(scanTable, config.scanWindow)'
      /\ IcmpLooksAt(p) /\ Tally(icmpTable, PairKey(p))' = 0
         /\ icmpTable' = IcmpAfter(p, clock') => Busy(icmpTable, config.icmpWindow)'
<1>1. ASSUME IInv, NEW q \in Packets, NEW t \in Times, Detect(q, t), NEW p \in Packets
      PROVE  Refused(p)
  <2>1. clock' = t /\ config' = config
    BY <1>1 DEF Detect
  <2>2. /\ GoodTable(synTable, MaxHosts, Cells, Times, FlowKeys)
        /\ GoodTable(scanTable, MaxHosts, Ports, Times, FlowKeys)
        /\ GoodTable(icmpTable, MaxHosts, Cells, Times, FlowKeys)
    BY <1>1, GoodTables
  <2>3. PortKey(p) \in FlowKeys /\ PairKey(p) \in FlowKeys
    BY <1>1, PacketKeys
  <2>4. IsFiniteSet(Cells) /\ IsFiniteSet(Ports)
    BY Numbers, InputAssumption
  <2>5. ASSUME SynLooksAt(p), Tally(synTable, PortKey(p))' = 0, synTable' = SynAfter(p, clock')
        PROVE  Busy(synTable, config.synWindow)'
    <3>1. synTable' = TrackEvent(synTable, PortKey(p), t, config.synWindow)
      BY <2>1, <2>5 DEF SynAfter
    <3>2. GoodTable(synTable', MaxHosts, Cells, Times, FlowKeys)
      BY <1>1, <2>1, <2>5, SynAfterGood
    <3>3. Tally(synTable', PortKey(p)) = 0
      BY <2>5
    <3>4. \A i \in DOMAIN synTable' : \E c \in DOMAIN synTable'[i].marks :
             Within(t, synTable'[i].marks[c], config.synWindow)
      BY <2>2, <2>3, <2>4, <3>1, <3>2, <3>3, RefusedIsBusy DEF TrackEvent
    <3> QED BY <2>1, <3>4 DEF Busy
  <2>6. ASSUME ScanLooksAt(p), Tally(scanTable, PairKey(p))' = 0, scanTable' = ScanAfter(p, clock')
        PROVE  Busy(scanTable, config.scanWindow)'
    <3>1. scanTable' = TrackPort(scanTable, PairKey(p), p.port, t, config.scanWindow, MaxPorts)
      BY <2>1, <2>6 DEF ScanAfter
    <3>2. GoodTable(scanTable', MaxHosts, Ports, Times, FlowKeys)
      BY <1>1, <2>1, <2>6, ScanAfterGood
    <3>3. Tally(scanTable', PairKey(p)) = 0
      BY <2>6
    <3>4. \A i \in DOMAIN scanTable' : \E c \in DOMAIN scanTable'[i].marks :
             Within(t, scanTable'[i].marks[c], config.scanWindow)
      BY <2>2, <2>3, <2>4, <3>1, <3>2, <3>3, RefusedIsBusy DEF TrackPort
    <3> QED BY <2>1, <3>4 DEF Busy
  <2>7. ASSUME IcmpLooksAt(p), Tally(icmpTable, PairKey(p))' = 0, icmpTable' = IcmpAfter(p, clock')
        PROVE  Busy(icmpTable, config.icmpWindow)'
    <3>1. icmpTable' = TrackEvent(icmpTable, PairKey(p), t, config.icmpWindow)
      BY <2>1, <2>7 DEF IcmpAfter
    <3>2. GoodTable(icmpTable', MaxHosts, Cells, Times, FlowKeys)
      BY <1>1, <2>1, <2>7, IcmpAfterGood
    <3>3. Tally(icmpTable', PairKey(p)) = 0
      BY <2>7
    <3>4. \A i \in DOMAIN icmpTable' : \E c \in DOMAIN icmpTable'[i].marks :
             Within(t, icmpTable'[i].marks[c], config.icmpWindow)
      BY <2>2, <2>3, <2>4, <3>1, <3>2, <3>3, RefusedIsBusy DEF TrackEvent
    <3> QED BY <2>1, <3>4 DEF Busy
  <2> QED BY <2>5, <2>6, <2>7
<1>2. IInv /\ [Next]_vars => [\A p \in Packets : Refused(p)]_vars
  BY <1>1 DEF Next
<1> QED BY IInvHolds, <1>2, PTL DEF Spec, RefusedOnlyWhenBusy

\* A table a call leaves alone keeps what it holds.
LEMMA LiveKeptSame ==
    ASSUME NEW table, NEW now, NEW window, NEW renewals
    PROVE  LiveKept(table, table, now, window, renewals)
BY DEF LiveKept

LEMMA TablesKeepLive ==
    ASSUME IInv, NEW p \in Packets, NEW t \in Times
    PROVE  /\ LiveKept(synTable, SynAfter(p, t), t, config.synWindow, {})
           /\ LiveKept(scanTable, ScanAfter(p, t), t, config.scanWindow, {t})
           /\ LiveKept(icmpTable, IcmpAfter(p, t), t, config.icmpWindow, {})
<1>1. /\ GoodTable(synTable, MaxHosts, 1..MaxEvents, Times, FlowKeys)
      /\ GoodTable(scanTable, MaxHosts, Ports, Times, FlowKeys)
      /\ GoodTable(icmpTable, MaxHosts, 1..MaxEvents, Times, FlowKeys)
  BY GoodTables, Numbers
<1>2. PortKey(p) # NoKey /\ PairKey(p) # NoKey
  BY PacketKeys, Numbers
<1>3. MaxHosts \in Nat /\ MaxEvents \in Nat
  BY LimitAssumption
<1>4. LiveKept(synTable, SynAfter(p, t), t, config.synWindow, {})
  BY <1>1, <1>2, <1>3, TrackEventKeepsLive, LiveKeptSame DEF SynAfter
<1>5. LiveKept(scanTable, ScanAfter(p, t), t, config.scanWindow, {t})
  BY <1>1, <1>2, <1>3, TrackPortKeepsLive, LiveKeptSame DEF ScanAfter
<1>6. LiveKept(icmpTable, IcmpAfter(p, t), t, config.icmpWindow, {})
  BY <1>1, <1>2, <1>3, TrackEventKeepsLive, LiveKeptSame DEF IcmpAfter
<1> QED BY <1>4, <1>5, <1>6

\* find_..._state and remember_...: whatever packet comes, in order or not, no
\* slot with an event inside the window changes its flow or loses the event.
THEOREM LiveEventsAreKept == Spec => LiveEventsStay
<1> DEFINE Kept ==
      /\ LiveKept(synTable, synTable', clock', config.synWindow, {})
      /\ LiveKept(scanTable, scanTable', clock', config.scanWindow, {clock'})
      /\ LiveKept(icmpTable, icmpTable', clock', config.icmpWindow, {})
<1>1. ASSUME IInv, NEW p \in Packets, NEW t \in Times, Detect(p, t)
      PROVE  Kept
  <2>1. clock' = t
    BY <1>1 DEF Detect
  <2>2. /\ synTable' \in {synTable, SynAfter(p, t)}
        /\ scanTable' \in {scanTable, ScanAfter(p, t)}
        /\ icmpTable' \in {icmpTable, IcmpAfter(p, t)}
    BY <1>1, TablesNext
  <2>3. /\ LiveKept(synTable, SynAfter(p, t), t, config.synWindow, {})
        /\ LiveKept(scanTable, ScanAfter(p, t), t, config.scanWindow, {t})
        /\ LiveKept(icmpTable, IcmpAfter(p, t), t, config.icmpWindow, {})
    BY <1>1, TablesKeepLive
  <2> QED BY <2>1, <2>2, <2>3, LiveKeptSame
<1>2. IInv /\ [Next]_vars => [Kept]_vars
  BY <1>1 DEF Next
<1> QED BY IInvHolds, <1>2, PTL DEF Spec, LiveEventsStay

-----------------------------------------------------------------------------
(* Packets in order: the evidence of an alert.                             *)

\* No mark is later than the last packet.  It is what makes the test of
\* is_within_window, which accepts any mark later than "now", mean that the
\* mark lies in the window.
Past(table) == \A i \in DOMAIN table : \A c \in Stamped(table[i].marks) :
                  table[i].marks[c] <= clock

OrderedIInv ==
    IInv /\ Past(synTable) /\ Past(scanTable) /\ Past(icmpTable) /\ EvidenceHolds

LEMMA InitPast == Init => Past(synTable) /\ Past(scanTable) /\ Past(icmpTable)
BY DEF Init, EmptyTable, FreeSlot, NoMarks, Past, Stamped

\* All times of a good table are naturals.
LEMMA MarksAreTimes ==
    ASSUME NEW table, NEW cells, GoodTable(table, MaxHosts, cells, Times, FlowKeys)
    PROVE  /\ DOMAIN table = 1..MaxHosts
           /\ \A i \in 1..MaxHosts : \A c \in Stamped(table[i].marks) :
                 table[i].marks[c] \in Times
BY DEF GoodTable, Slot, Stamped

LEMMA ClockIsNat ==
    ASSUME IInv
    PROVE  clock \in Nat
<1>1. clock \in Times \cup {0}
  BY DEF IInv, TypeOK
<1> QED BY <1>1, Numbers

LEMMA MarkedPast ==
    ASSUME IInv, NEW t \in Times, t >= clock, clock' = t, NEW before, NEW after,
           NEW cells, NEW key, NEW window,
           GoodTable(before, MaxHosts, cells, Times, FlowKeys),
           GoodTable(after, MaxHosts, cells, Times, FlowKeys),
           \A i \in DOMAIN before : \A c \in Stamped(before[i].marks) :
              before[i].marks[c] <= clock,
           Marked(after, before, key, t, window)
    PROVE  \A i \in DOMAIN after : \A c \in Stamped(after[i].marks) :
              after[i].marks[c] <= clock'
<1> SUFFICES ASSUME NEW i \in DOMAIN after, NEW c \in Stamped(after[i].marks)
             PROVE  after[i].marks[c] <= t
  OBVIOUS
<1>1. clock \in Nat /\ t \in Nat
  BY ClockIsNat, Numbers
<1>2. CASE after[i].marks[c] = t
  BY <1>1, <1>2
<1>3. CASE after[i].marks[c] # t
  <2>1. PICK j \in DOMAIN before : \E d \in Stamped(before[j].marks) :
           after[i].marks[c] = before[j].marks[d]
    BY <1>3 DEF Marked
  <2>2. PICK d \in Stamped(before[j].marks) : after[i].marks[c] = before[j].marks[d]
    BY <2>1
  <2>3. before[j].marks[d] <= clock /\ before[j].marks[d] \in Nat
    BY MarksAreTimes, Numbers
  <2> QED BY <1>1, <2>2, <2>3
<1> QED BY <1>2, <1>3

LEMMA NextPast ==
    ASSUME OrderedIInv, NEW p \in Packets, NEW t \in Times, t >= clock, Detect(p, t)
    PROVE  Past(synTable)' /\ Past(scanTable)' /\ Past(icmpTable)'
<1>1. /\ GoodTable(synTable, MaxHosts, Cells, Times, FlowKeys)
      /\ GoodTable(scanTable, MaxHosts, Ports, Times, FlowKeys)
      /\ GoodTable(icmpTable, MaxHosts, Cells, Times, FlowKeys)
      /\ IInv
  BY GoodTables DEF OrderedIInv
<1>0. clock' = t /\ clock \in Nat /\ t \in Nat
  BY <1>1, ClockIsNat, Numbers DEF Detect
<1>2. ASSUME NEW table, Past(table)
      PROVE  \A i \in DOMAIN table : \A c \in Stamped(table[i].marks) :
                table[i].marks[c] <= clock
  BY <1>2 DEF Past
<1>3. ASSUME NEW table, NEW cells, GoodTable(table, MaxHosts, cells, Times, FlowKeys), Past(table)
      PROVE  \A i \in DOMAIN table : \A c \in Stamped(table[i].marks) :
                table[i].marks[c] <= t
  <2> SUFFICES ASSUME NEW i \in DOMAIN table, NEW c \in Stamped(table[i].marks)
               PROVE  table[i].marks[c] <= t
    OBVIOUS
  <2>1. table[i].marks[c] \in Nat BY <1>3, MarksAreTimes, Numbers
  <2>2. table[i].marks[c] <= clock BY <1>3 DEF Past
  <2> QED BY <2>1, <2>2, <1>0
<1>4. Past(synTable)'
  <2>1. SynLooksAt(p) => \A i \in DOMAIN SynAfter(p, t) :
           \A c \in Stamped(SynAfter(p, t)[i].marks) : SynAfter(p, t)[i].marks[c] <= clock'
    BY <1>0, <1>1, SynAfterGood, MarkedPast DEF OrderedIInv, Past
  <2>2. ~SynLooksAt(p) => SynAfter(p, t) = synTable
    BY DEF SynAfter
  <2>3. synTable' \in {synTable, SynAfter(p, t)}
    BY <1>1, TablesNext
  <2> QED BY <2>1, <2>2, <2>3, <1>0, <1>1, <1>3 DEF OrderedIInv, Past
<1>5. Past(scanTable)'
  <2>1. ScanLooksAt(p) => \A i \in DOMAIN ScanAfter(p, t) :
           \A c \in Stamped(ScanAfter(p, t)[i].marks) : ScanAfter(p, t)[i].marks[c] <= clock'
    BY <1>0, <1>1, ScanAfterGood, MarkedPast DEF OrderedIInv, Past
  <2>2. ~ScanLooksAt(p) => ScanAfter(p, t) = scanTable
    BY DEF ScanAfter
  <2>3. scanTable' \in {scanTable, ScanAfter(p, t)}
    BY <1>1, TablesNext
  <2> QED BY <2>1, <2>2, <2>3, <1>0, <1>1, <1>3 DEF OrderedIInv, Past
<1>6. Past(icmpTable)'
  <2>1. IcmpLooksAt(p) => \A i \in DOMAIN IcmpAfter(p, t) :
           \A c \in Stamped(IcmpAfter(p, t)[i].marks) : IcmpAfter(p, t)[i].marks[c] <= clock'
    BY <1>0, <1>1, IcmpAfterGood, MarkedPast DEF OrderedIInv, Past
  <2>2. ~IcmpLooksAt(p) => IcmpAfter(p, t) = icmpTable
    BY DEF IcmpAfter
  <2>3. icmpTable' \in {icmpTable, IcmpAfter(p, t)}
    BY <1>1, TablesNext
  <2> QED BY <2>1, <2>2, <2>3, <1>0, <1>1, <1>3 DEF OrderedIInv, Past
<1> QED BY <1>4, <1>5, <1>6

\* The marks by which a rule reached its threshold span at most its window.
LEMMA SpanInWindow ==
    ASSUME IInv, NEW t \in Times, NEW table, NEW before,
           NEW cells, IsFiniteSet(cells), NEW key \in FlowKeys,
           GoodTable(table, MaxHosts, cells, Times, FlowKeys),
           NEW window \in Nat, Marked(table, before, key, t, window),
           \A i \in DOMAIN table : \A c \in Stamped(table[i].marks) :
              table[i].marks[c] <= t,
           NEW threshold \in Nat \ {0}, Tally(table, key) >= threshold
    PROVE  LET e == MarksEvidence(MarksOf(table, key)) IN
           e.first <= e.last /\ e.last <= e.first + window
<1>1. PICK i \in SlotsOf(table, key) : MarksOf(table, key) = table[i].marks
  BY ReachedEvidence
<1> DEFINE marks == table[i].marks
<1>2. /\ FirstSeen(marks) \in SeenTimes(marks)
      /\ LastSeen(marks) \in SeenTimes(marks)
      /\ FirstSeen(marks) <= LastSeen(marks)
  BY <1>1, ReachedEvidence
<1>3. i \in DOMAIN table
  BY DEF SlotsOf
<1>4. \A s \in SeenTimes(marks) : s \in Nat /\ s <= t /\ t <= s + window
  <2> SUFFICES ASSUME NEW c \in Stamped(marks)
               PROVE  marks[c] \in Nat /\ marks[c] <= t /\ t <= marks[c] + window
    BY DEF SeenTimes
  <2>1. marks[c] \in Nat /\ t \in Nat
    BY <1>3, MarksAreTimes, Numbers
  <2>2. marks[c] = t \/ Within(t, marks[c], window)
    BY DEF Marked
  <2> QED BY <2>1, <2>2, <1>3 DEF Within
<1> HIDE DEF marks
<1>5. t \in Nat
  BY Numbers
<1>6. FirstSeen(marks) <= LastSeen(marks) /\ LastSeen(marks) <= FirstSeen(marks) + window
  BY <1>2, <1>4, <1>5
<1>7. MarksOf(table, key) = marks
  BY <1>1 DEF marks
<1> QED BY <1>6, <1>7 DEF MarksEvidence

\* An alert carries the evidence of its claim, and a silent claim none.
LEMMA ClaimEvidence ==
    ASSUME NEW rule, NEW key, NEW t, NEW evidence, Claim(rule, key, t, evidence),
           config' = config,
           evidence.first <= evidence.last,
           evidence.last <= evidence.first + WindowOf(rule)
    PROVE  EvidenceHolds'
<1>1. CASE ShouldEmit(<<rule, key>>, t)
  <2>1. verdict'.by = rule /\ verdict'.first = evidence.first /\ verdict'.last = evidence.last
    BY <1>1 DEF Claim
  <2>2. WindowOf(rule)' = WindowOf(rule)
    BY DEF WindowOf
  <2>3. (WindowOf(verdict.by))' = WindowOf(rule)
    BY <2>1 DEF WindowOf
  <2> QED BY <2>1, <2>3 DEF EvidenceHolds
<1>2. CASE ~ShouldEmit(<<rule, key>>, t)
  <2>1. ~verdict'.alert
    BY <1>2 DEF Claim, Nothing
  <2> QED BY <2>1 DEF EvidenceHolds
<1> QED BY <1>1, <1>2

LEMMA NextEvidence ==
    ASSUME OrderedIInv, NEW p \in Packets, NEW t \in Times, t >= clock, Detect(p, t)
    PROVE  EvidenceHolds'
<1>1. IInv /\ config' = config /\ config \in Configs /\ clock' = t /\ t \in Nat
  BY GoodTables, Numbers DEF OrderedIInv, Detect
<1>2. Past(synTable)' /\ Past(scanTable)' /\ Past(icmpTable)'
  BY NextPast
<1>3. PairKey(p) \in FlowKeys /\ PortKey(p) \in FlowKeys
  BY PacketKeys
<1>4. ASSUME NEW rule, WindowOf(rule) = 0
      PROVE  /\ PacketEvidence(t).first <= PacketEvidence(t).last
             /\ PacketEvidence(t).last <= PacketEvidence(t).first + WindowOf(rule)
  BY <1>1, <1>4 DEF PacketEvidence
<1>5. CASE RaiseSynFlood(p, t)
  <2>1. /\ SynLooksAt(p)
        /\ Tally(SynAfter(p, t), PortKey(p)) >= config.synThreshold
        /\ synTable' = SynAfter(p, t)
    BY <1>5 DEF RaiseSynFlood, SynClaims
  <2>2. \A i \in DOMAIN SynAfter(p, t) : \A c \in Stamped(SynAfter(p, t)[i].marks) :
           SynAfter(p, t)[i].marks[c] <= t
    BY <1>1, <1>2, <2>1 DEF Past
  <2>3. LET e == MarksEvidence(MarksOf(SynAfter(p, t), PortKey(p))) IN
        e.first <= e.last /\ e.last <= e.first + config.synWindow
    BY <1>1, <1>3, <2>1, <2>2, Thresholds, Numbers, SynAfterGood, SpanInWindow
  <2>4. WindowOf("SYN Flood") = config.synWindow
    BY DEF WindowOf
  <2> QED BY <1>1, <1>5, <2>3, <2>4, ClaimEvidence DEF RaiseSynFlood
<1>6. CASE RaisePortScan(p, t)
  <2>1. /\ ScanLooksAt(p)
        /\ Tally(ScanAfter(p, t), PairKey(p)) >= config.scanThreshold
        /\ scanTable' = ScanAfter(p, t)
    BY <1>6 DEF RaisePortScan, ScanClaims
  <2>2. \A i \in DOMAIN ScanAfter(p, t) : \A c \in Stamped(ScanAfter(p, t)[i].marks) :
           ScanAfter(p, t)[i].marks[c] <= t
    BY <1>1, <1>2, <2>1 DEF Past
  <2>3. LET e == MarksEvidence(MarksOf(ScanAfter(p, t), PairKey(p))) IN
        e.first <= e.last /\ e.last <= e.first + config.scanWindow
    BY <1>1, <1>3, <2>1, <2>2, Thresholds, InputAssumption, ScanAfterGood, SpanInWindow
  <2>4. WindowOf("Port Scan") = config.scanWindow
    BY DEF WindowOf
  <2> QED BY <1>1, <1>6, <2>3, <2>4, ClaimEvidence DEF RaisePortScan
<1>7. CASE RaiseIcmpFlood(p, t)
  <2>1. /\ IcmpLooksAt(p)
        /\ Tally(IcmpAfter(p, t), PairKey(p)) >= config.icmpThreshold
        /\ icmpTable' = IcmpAfter(p, t)
    BY <1>7 DEF RaiseIcmpFlood, IcmpClaims
  <2>2. \A i \in DOMAIN IcmpAfter(p, t) : \A c \in Stamped(IcmpAfter(p, t)[i].marks) :
           IcmpAfter(p, t)[i].marks[c] <= t
    BY <1>1, <1>2, <2>1 DEF Past
  <2>3. LET e == MarksEvidence(MarksOf(IcmpAfter(p, t), PairKey(p))) IN
        e.first <= e.last /\ e.last <= e.first + config.icmpWindow
    BY <1>1, <1>3, <2>1, <2>2, Thresholds, Numbers, IcmpAfterGood, SpanInWindow
  <2>4. WindowOf("ICMP Flood") = config.icmpWindow
    BY DEF WindowOf
  <2> QED BY <1>1, <1>7, <2>3, <2>4, ClaimEvidence DEF RaiseIcmpFlood
<1>8. CASE RaiseSuspiciousPort(p, t)
  <2>1. WindowOf("Suspicious Port") = 0 BY DEF WindowOf
  <2> QED BY <1>1, <1>4, <1>8, <2>1, ClaimEvidence DEF RaiseSuspiciousPort
<1>9. CASE RaiseIcmpEcho(p, t)
  <2>1. WindowOf("ICMP Echo Request") = 0 BY DEF WindowOf
  <2> QED BY <1>1, <1>4, <1>9, <2>1, ClaimEvidence DEF RaiseIcmpEcho
<1>10. CASE RaiseSynWatch(p, t)
  <2>1. WindowOf("TCP SYN Watch") = 0 BY DEF WindowOf
  <2> QED BY <1>1, <1>4, <1>10, <2>1, ClaimEvidence DEF RaiseSynWatch
<1>11. CASE NoRule(p, t)
  BY <1>11 DEF NoRule, Nothing, EvidenceHolds
<1> QED BY <1>5, <1>6, <1>7, <1>8, <1>9, <1>10, <1>11 DEF Detect

\* When timestamps never go back, the evidence of every flood and scan alert
\* is true: the events it counts lie within the window of the rule.
THEOREM EvidenceTrue == OrderedSpec => []EvidenceHolds
<1>1. Init => OrderedIInv
  <2>1. Init => EvidenceHolds
    BY DEF Init, Nothing, EvidenceHolds
  <2> QED BY <2>1, InitIInv, InitPast DEF OrderedIInv
<1>2. OrderedIInv /\ [OrderedNext]_vars => OrderedIInv'
  <2> SUFFICES ASSUME OrderedIInv, [OrderedNext]_vars PROVE OrderedIInv'
    OBVIOUS
  <2>1. CASE OrderedNext
    <3>1. PICK p \in Packets, t \in Times : t >= clock /\ Detect(p, t)
      BY <2>1 DEF OrderedNext
    <3> QED BY <3>1, DetectIInv, NextPast, NextEvidence DEF OrderedIInv
  <2>2. CASE UNCHANGED vars
    <3>1. IInv'
      BY <2>2, StutterIInv DEF OrderedIInv
    <3> QED BY <2>2, <3>1 DEF OrderedIInv, vars, Past, EvidenceHolds, WindowOf
  <2> QED BY <2>1, <2>2
<1>3. OrderedIInv => EvidenceHolds
  BY DEF OrderedIInv
<1> QED BY <1>1, <1>2, <1>3, PTL DEF OrderedSpec
=============================================================================
