-------------------------- MODULE RefinementProofs --------------------------
(***************************************************************************)
(* Detector implements WindowRules, for every limit, configuration and     *)
(* sequence of packets in order.  The lemmas say of a table what Memory    *)
(* makes of it; the refinement then is one lemma per rule.                 *)
(***************************************************************************)
EXTENDS DetectorRefinement, DetectorProofs

\* The two specifications have the same inputs.
LEMMA SameInputs ==
    /\ Windows!FlowKeys = FlowKeys /\ Windows!Cells = Cells
    /\ Windows!Rules = Rules /\ Windows!AlertKeys = AlertKeys
    /\ \A p \in Packets :
          /\ Windows!PairKey(p) = PairKey(p) /\ Windows!PortKey(p) = PortKey(p)
          /\ Windows!IsTcpSynWithoutAck(p) = IsTcpSynWithoutAck(p)
          /\ Windows!IsTcpOrUdp(p) = IsTcpOrUdp(p)
          /\ Windows!IsEchoRequest(p) = IsEchoRequest(p)
BY DEF Windows!FlowKeys, FlowKeys, Windows!Rules, Rules, Windows!AlertKeys, AlertKeys,
       Windows!Cells, Cells, Windows!PairKey, PairKey,
       Windows!PortKey, PortKey, Windows!IsTcpSynWithoutAck, IsTcpSynWithoutAck,
       Windows!IsTcpOrUdp, IsTcpOrUdp, Windows!IsEchoRequest, IsEchoRequest

LEMMA SameCardinality == \A S : Windows!Cardinality(S) = Cardinality(S)
BY DEF Windows!Cardinality, Cardinality

GoodFlows(table, cells) == GoodTable(table, MaxHosts, cells, Times, FlowKeys)

\* The memory of a flow that has a slot, and of one that has none.
LEMMA MemoryOfFlow ==
    ASSUME NEW cells, NEW table, GoodFlows(table, cells), NEW now, NEW window,
           NEW k \in FlowKeys
    PROVE  /\ DOMAIN Memory(table, cells, now, window) = FlowKeys
           /\ \A i \in 1..MaxHosts : table[i].key = k =>
                 Memory(table, cells, now, window)[k] = Fresh(table[i].marks, now, window)
           /\ (\A i \in 1..MaxHosts : table[i].key # k) =>
                 Memory(table, cells, now, window)[k] = NoMarks(cells)
           /\ Memory(table, cells, now, window)[k] \in MarksType(cells, Times)
<1>1. DOMAIN table = 1..MaxHosts
  BY DEF GoodFlows, GoodTable
<1>2. ASSUME NEW i \in 1..MaxHosts, table[i].key = k
      PROVE  /\ Memory(table, cells, now, window)[k] = Fresh(table[i].marks, now, window)
             /\ Memory(table, cells, now, window)[k] \in MarksType(cells, Times)
  <2>1. i \in SlotsOf(table, k)
    BY <1>1, <1>2 DEF SlotsOf
  <2>2. Least(SlotsOf(table, k)) \in SlotsOf(table, k)
    BY <1>1, <2>1, LeastIsLeast DEF SlotsOf
  <2>3. Least(SlotsOf(table, k)) = i
    BY <1>1, <1>2, <2>2, Numbers DEF SlotsOf, GoodFlows, GoodTable, OneSlotPerKey
  <2>4. MarksOf(table, k) = table[i].marks
    BY <2>3 DEF MarksOf
  <2>5. table[i].marks \in MarksType(cells, Times)
    BY DEF GoodFlows, GoodTable, Slot, MarksType
  <2>6. Fresh(table[i].marks, now, window) \in MarksType(cells, Times)
    BY <2>5, FreshType
  <2> QED BY <2>1, <2>4, <2>6 DEF Memory
<1>3. ASSUME \A i \in 1..MaxHosts : table[i].key # k
      PROVE  /\ Memory(table, cells, now, window)[k] = NoMarks(cells)
             /\ Memory(table, cells, now, window)[k] \in MarksType(cells, Times)
  <2>1. SlotsOf(table, k) = {}
    BY <1>1, <1>3 DEF SlotsOf
  <2> QED BY <2>1 DEF Memory, NoMarks, MarksType
<1>4. DOMAIN Memory(table, cells, now, window) = FlowKeys
  BY DEF Memory
<1> QED BY <1>2, <1>3, <1>4

\* A memory is a function, so two are equal when they agree on every flow.
LEMMA MemoryEqual ==
    ASSUME NEW cells, NEW table, NEW other, GoodFlows(table, cells), GoodFlows(other, cells),
           NEW now, NEW window, NEW then,
           \A k \in FlowKeys : Memory(table, cells, now, window)[k] = Memory(other, cells, then, window)[k]
    PROVE  Memory(table, cells, now, window) = Memory(other, cells, then, window)
BY DEF Memory

\* A memory holds nothing outside the window.
LEMMA FreshMemory ==
    ASSUME NEW cells, NEW table, NEW k \in FlowKeys, NEW now, NEW window,
           NEW c \in Stamped(Memory(table, cells, now, window)[k])
    PROVE  Within(now, Memory(table, cells, now, window)[k][c], window)
BY DEF Memory, Fresh, NoMarks, Stamped

\* Fresh marks stay what they are.
LEMMA FreshOfFresh ==
    ASSUME NEW cells, NEW marks \in MarksType(cells, Times), NEW now, NEW window,
           \A c \in Stamped(marks) : Within(now, marks[c], window)
    PROVE  Fresh(marks, now, window) = marks
BY DEF Fresh, MarksType, Stamped

LEMMA MarksAreNat ==
    ASSUME NEW cells, NEW marks \in MarksType(cells, Times)
    PROVE  DOMAIN marks = cells /\ \A c \in cells : marks[c] \in Nat
<1>1. Times \cup {0} \subseteq Nat
  BY Numbers
<1>2. marks \in [cells -> Times \cup {0}]
  BY DEF MarksType
<1> QED BY <1>1, <1>2

\* Time alone: what the slots of a table stand for later is what aging leaves
\* of what they stand for now.
LEMMA MemoryAges ==
    ASSUME NEW cells, NEW table, GoodFlows(table, cells),
           NEW now \in Nat, NEW then \in Nat, now <= then, NEW window \in Nat \ {0}
    PROVE  Windows!Aged(Memory(table, cells, now, window), then, window)
              = Memory(table, cells, then, window)
<1> DEFINE mem == Memory(table, cells, now, window)
           later == Memory(table, cells, then, window)
<1>1. ASSUME NEW k \in FlowKeys
      PROVE  later[k] = [c \in DOMAIN mem[k] |->
                IF mem[k][c] # 0 /\ then <= mem[k][c] + window THEN mem[k][c] ELSE 0]
  <2>1. CASE \A i \in 1..MaxHosts : table[i].key # k
    <3>1. mem[k] = NoMarks(cells) /\ later[k] = NoMarks(cells)
      BY <2>1, MemoryOfFlow
    <3> QED BY <3>1 DEF NoMarks
  <2>2. CASE \E i \in 1..MaxHosts : table[i].key = k
    <3>1. PICK i \in 1..MaxHosts : table[i].key = k
      BY <2>2
    <3>2. /\ mem[k] = Fresh(table[i].marks, now, window)
          /\ later[k] = Fresh(table[i].marks, then, window)
      BY <3>1, MemoryOfFlow
    <3>3. table[i].marks \in MarksType(cells, Times)
      BY DEF GoodFlows, GoodTable, Slot, MarksType
    <3>4. DOMAIN table[i].marks = cells /\ \A c \in cells : table[i].marks[c] \in Nat
      BY <3>3, MarksAreNat
    <3> HIDE DEF mem, later
    <3>5. /\ mem[k] = [c \in cells |-> mem[k][c]]
          /\ later[k] = [c \in cells |-> later[k][c]]
      BY <3>2, <3>4 DEF Fresh
    <3>6. ASSUME NEW c \in cells
          PROVE  later[k][c] = IF mem[k][c] # 0 /\ then <= mem[k][c] + window
                               THEN mem[k][c] ELSE 0
      <4>1. /\ mem[k][c] = IF Within(now, table[i].marks[c], window) THEN table[i].marks[c] ELSE 0
            /\ later[k][c] = IF Within(then, table[i].marks[c], window) THEN table[i].marks[c] ELSE 0
        BY <3>2, <3>4 DEF Fresh
      <4>2. table[i].marks[c] \in Nat
        BY <3>4
      <4> QED BY <4>1, <4>2 DEF Within
    <3> QED BY <3>5, <3>6
  <2> QED BY <2>1, <2>2
<1>2. later = [k \in FlowKeys |-> later[k]]
  BY DEF Memory
<1>3. DOMAIN mem = FlowKeys
  BY DEF Memory
<1> HIDE DEF mem, later
<1>4. Windows!Aged(mem, then, window) = later
  BY <1>1, <1>2, <1>3, SameInputs DEF Windows!Aged
<1> QED BY <1>4 DEF mem, later

\* The sweep changes nothing that counts: it only drops what is out of the
\* window, and a slot it gives up had nothing else.
LEMMA SweepInvisible ==
    ASSUME NEW cells, NEW table, GoodFlows(table, cells), NEW key \in FlowKeys,
           NEW now, NEW window
    PROVE  Memory(Swept(table, key, now, window), cells, now, window)
              = Memory(table, cells, now, window)
<1> DEFINE swept == Swept(table, key, now, window)
<1>1. GoodFlows(swept, cells)
  <2>1. key # NoKey /\ MaxHosts \in Nat
    BY Numbers, LimitAssumption
  <2>2. GoodTable(table, MaxHosts, cells, Times, FlowKeys)
    BY DEF GoodFlows
  <2>3. GoodTable(swept, MaxHosts, cells, Times, FlowKeys)
    BY <2>1, <2>2, SweptGood
  <2> QED BY <2>3 DEF GoodFlows
<1>2. DOMAIN table = 1..MaxHosts
  BY DEF GoodFlows, GoodTable
<1>3. \A i \in 1..MaxHosts : swept[i] \in {table[i], Compacted(table[i], now, window)}
  BY <1>2 DEF Swept
<1>4. \A i \in 1..MaxHosts : swept[i].key \in {table[i].key, NoKey}
  <2>1. \A i \in 1..MaxHosts : /\ table[i] \in Slot(cells, Times, FlowKeys)
                                /\ SlotInUse(table[i])
    BY DEF GoodFlows, GoodTable
  <2> QED BY <1>3, <2>1, CompactedType
<1> HIDE DEF swept
<1>5. ASSUME NEW k \in FlowKeys
      PROVE  Memory(swept, cells, now, window)[k] = Memory(table, cells, now, window)[k]
  <2>0. k # NoKey
    BY Numbers
  <2>1. CASE \A i \in 1..MaxHosts : table[i].key # k
    <3>1. \A i \in 1..MaxHosts : swept[i].key # k
      BY <1>4, <2>0, <2>1
    <3> QED BY <1>1, <2>1, <3>1, MemoryOfFlow
  <2>2. CASE \E i \in 1..MaxHosts : table[i].key = k
    <3>1. PICK i \in 1..MaxHosts : table[i].key = k
      BY <2>2
    <3>2. \A j \in 1..MaxHosts : j # i => table[j].key # k
      BY <1>2, <2>0, <3>1 DEF GoodFlows, GoodTable, OneSlotPerKey
    <3>3. \A j \in 1..MaxHosts : j # i => swept[j].key # k
      BY <1>4, <2>0, <3>2
    <3>4. /\ table[i].marks \in MarksType(cells, Times)
          /\ table[i] \in Slot(cells, Times, FlowKeys)
      BY DEF GoodFlows, GoodTable, Slot, MarksType
    <3> DEFINE fresh == Fresh(table[i].marks, now, window)
    <3>5. Memory(table, cells, now, window)[k] = fresh
      BY <3>1, MemoryOfFlow
    <3>6. fresh \in MarksType(cells, Times) /\ Fresh(fresh, now, window) = fresh
      BY <3>4, FreshType, FreshOfFresh
    <3> HIDE DEF fresh
    <3>7. CASE swept[i] = table[i]
      BY <1>1, <3>1, <3>5, <3>7, MemoryOfFlow
    <3>8. CASE swept[i] = Compacted(table[i], now, window) /\ Stamped(fresh) # {}
      <4>1. swept[i].key = k /\ swept[i].marks = fresh
        BY <3>1, <3>4, <3>8 DEF Compacted, Slot, fresh
      <4> QED BY <1>1, <3>5, <3>6, <4>1, MemoryOfFlow
    <3>9. CASE swept[i] = Compacted(table[i], now, window) /\ Stamped(fresh) = {}
      <4>1. swept[i].key # k
        BY <2>0, <3>9 DEF Compacted, FreeSlot, fresh
      <4>2. Memory(swept, cells, now, window)[k] = NoMarks(cells)
        BY <1>1, <3>3, <4>1, MemoryOfFlow
      <4>3. fresh = NoMarks(cells)
        BY <3>6, <3>9 DEF MarksType, Stamped, NoMarks
      <4> QED BY <3>5, <4>2, <4>3
    <3> QED BY <1>3, <3>7, <3>8, <3>9
  <2> QED BY <2>1, <2>2
<1> QED BY <1>1, <1>5, MemoryEqual DEF swept

-----------------------------------------------------------------------------
(* Which flows are known.                                                  *)

\* With a table compacted throughout, a flow is known when a slot has its key.
LEMMA KnownFlows ==
    ASSUME NEW cells, NEW table, GoodFlows(table, cells), NEW now, NEW window,
           \A i \in 1..MaxHosts : \A c \in Stamped(table[i].marks) :
              Within(now, table[i].marks[c], window)
    PROVE  Windows!Known(Memory(table, cells, now, window))
              = {k \in FlowKeys : \E i \in 1..MaxHosts : table[i].key = k}
<1> DEFINE mem == Memory(table, cells, now, window)
<1>1. ASSUME NEW k \in FlowKeys
      PROVE  Windows!Held(mem[k]) # {} <=> \E i \in 1..MaxHosts : table[i].key = k
  <2>1. CASE \A i \in 1..MaxHosts : table[i].key # k
    <3>1. mem[k] = NoMarks(cells)
      BY <2>1, MemoryOfFlow
    <3> QED BY <2>1, <3>1 DEF NoMarks, Windows!Held
  <2>2. CASE \E i \in 1..MaxHosts : table[i].key = k
    <3>1. PICK i \in 1..MaxHosts : table[i].key = k
      BY <2>2
    <3>2. table[i].marks \in MarksType(cells, Times) /\ Stamped(table[i].marks) # {}
      BY <3>1, Numbers DEF GoodFlows, GoodTable, Slot, MarksType, SlotInUse
    <3>3. mem[k] = Fresh(table[i].marks, now, window)
      BY <3>1, MemoryOfFlow
    <3>4. Fresh(table[i].marks, now, window) = table[i].marks
      BY <3>2, FreshOfFresh
    <3> QED BY <2>2, <3>2, <3>3, <3>4 DEF Stamped, Windows!Held
  <2> QED BY <2>1, <2>2
<1> QED BY <1>1, SameInputs DEF Windows!Known

\* When every owner has one place, there are as many owners as places exactly
\* when no place is vacant.
LEMMA OwnerCount ==
    ASSUME NEW n \in Nat, NEW keys, NoKey \notin keys,
           NEW owner \in [1..n -> keys \cup {NoKey}],
           \A i, j \in 1..n : owner[i] = owner[j] /\ owner[i] # NoKey => i = j,
           NEW owners, owners = {k \in keys : \E i \in 1..n : owner[i] = k}
    PROVE  Cardinality(owners) < n <=> \E i \in 1..n : owner[i] = NoKey
<1> DEFINE home == [k \in owners |-> CHOOSE i \in 1..n : owner[i] = k]
<1>1. \A k \in owners : home[k] \in 1..n /\ owner[home[k]] = k
  OBVIOUS
<1>2. DOMAIN home = owners /\ home = [k \in owners |-> home[k]]
  OBVIOUS
<1> HIDE DEF home
<1>3. home \in Injection(owners, 1..n)
  <2>1. home \in [owners -> 1..n]
    BY <1>1, <1>2
  <2>2. \A k, m \in owners : home[k] = home[m] => k = m
    BY <1>1
  <2> QED BY <1>2, <2>1, <2>2 DEF Injection, IsInjective
<1>4. IsFiniteSet(1..n) /\ Cardinality(1..n) = n
  BY FS_Interval
<1>5. /\ IsFiniteSet(owners)
      /\ Cardinality(owners) <= n
      /\ Cardinality(owners) = n <=> home \in Surjection(owners, 1..n)
  BY <1>3, <1>4, FS_Injection
<1>6. Cardinality(owners) \in Nat
  BY <1>5, FS_CardinalityType
<1>7. ASSUME home \in Surjection(owners, 1..n), NEW i \in 1..n
      PROVE  owner[i] # NoKey
  <2>1. PICK k \in owners : home[k] = i
    BY <1>7 DEF Surjection
  <2> QED BY <1>1, <2>1
<1>8. ASSUME \A i \in 1..n : owner[i] # NoKey
      PROVE  home \in Surjection(owners, 1..n)
  <2>1. home \in [owners -> 1..n]
    BY <1>1, <1>2
  <2>2. ASSUME NEW i \in 1..n
        PROVE  \E k \in owners : home[k] = i
    <3>1. owner[i] \in owners /\ owner[i] # NoKey
      BY <1>8
    <3>2. owner[home[owner[i]]] = owner[i] /\ home[owner[i]] \in 1..n
      BY <1>1, <3>1
    <3>3. home[owner[i]] = i
      BY <3>1, <3>2
    <3> QED BY <3>1, <3>3
  <2> QED BY <2>1, <2>2 DEF Surjection
<1> QED BY <1>5, <1>6, <1>7, <1>8

\* There are MaxHosts known flows exactly when no slot is free.
LEMMA KnownCount ==
    ASSUME NEW cells, NEW table, GoodFlows(table, cells),
           NEW known, known = {k \in FlowKeys : \E i \in 1..MaxHosts : table[i].key = k}
    PROVE  Cardinality(known) < MaxHosts <=> \E i \in 1..MaxHosts : table[i].key = NoKey
<1> DEFINE owner == [i \in 1..MaxHosts |-> table[i].key]
<1>1. DOMAIN table = 1..MaxHosts /\ OneSlotPerKey(table)
  BY DEF GoodFlows, GoodTable
<1>2. owner \in [1..MaxHosts -> FlowKeys \cup {NoKey}]
  BY DEF GoodFlows, GoodTable, Slot
<1>3. \A i, j \in 1..MaxHosts : owner[i] = owner[j] /\ owner[i] # NoKey => i = j
  BY <1>1 DEF OneSlotPerKey
<1>4. known = {k \in FlowKeys : \E i \in 1..MaxHosts : owner[i] = k}
  OBVIOUS
<1>5. (\E i \in 1..MaxHosts : owner[i] = NoKey) <=> \E i \in 1..MaxHosts : table[i].key = NoKey
  OBVIOUS
<1>6. MaxHosts \in Nat /\ NoKey \notin FlowKeys
  BY LimitAssumption, KeyAssumption
<1> HIDE DEF owner
<1>7. Cardinality(known) < MaxHosts <=> \E i \in 1..MaxHosts : owner[i] = NoKey
  BY <1>2, <1>3, <1>4, <1>6, OwnerCount
<1> QED BY <1>5, <1>7

\* What find_..._state answers, in terms of the memory: a slot when there is
\* room for the flow, and the marks in it are the memory of the flow.
LEMMA SearchAnswer ==
    ASSUME NEW cells, NEW table, GoodFlows(table, cells), NEW key \in FlowKeys,
           NEW now, NEW window
    PROVE  LET swept == Swept(table, key, now, window)
               mem   == Memory(table, cells, now, window)
           IN  /\ Candidates(swept, key) # {} <=> Windows!HasRoom(mem, key)
               /\ \A i \in Candidates(swept, key) :
                     i \in 1..MaxHosts /\ mem[key] = swept[i].marks
<1> DEFINE swept == Swept(table, key, now, window)
           mem   == Memory(table, cells, now, window)
<1>1. key # NoKey /\ MaxHosts \in Nat
  BY Numbers, LimitAssumption
<1>2. /\ GoodFlows(swept, cells)
      /\ \A i \in SlotsOf(swept, key) : \A c \in Stamped(swept[i].marks) :
            Within(now, swept[i].marks[c], window)
      /\ SlotsOf(swept, key) = {} =>
            \A i \in 1..MaxHosts : \A c \in Stamped(swept[i].marks) :
               Within(now, swept[i].marks[c], window)
  <2>1. GoodTable(table, MaxHosts, cells, Times, FlowKeys)
    BY DEF GoodFlows
  <2>2. /\ GoodTable(swept, MaxHosts, cells, Times, FlowKeys)
        /\ \A i \in SlotsOf(swept, key) : \A c \in Stamped(swept[i].marks) :
              Within(now, swept[i].marks[c], window)
    BY <1>1, <2>1, SweptGood
  <2>3. SlotsOf(swept, key) = {} =>
           \A i \in 1..MaxHosts : \A c \in Stamped(swept[i].marks) :
              Within(now, swept[i].marks[c], window)
    BY <1>1, <2>1, SweptGood
  <2> HIDE DEF swept
  <2> QED BY <2>2, <2>3 DEF GoodFlows
<1>3. mem = Memory(swept, cells, now, window)
  BY SweepInvisible
<1> HIDE DEF swept, mem
<1>6. DOMAIN swept = 1..MaxHosts /\ key \in FlowKeys
  BY <1>2 DEF GoodFlows, GoodTable
<1>7. \A i \in 1..MaxHosts : /\ swept[i].marks \in MarksType(cells, Times)
                              /\ SlotInUse(swept[i])
  BY <1>2 DEF GoodFlows, GoodTable, Slot, MarksType
<1>8. CASE SlotsOf(swept, key) # {}
  <2>1. Candidates(swept, key) = SlotsOf(swept, key)
    BY <1>8 DEF Candidates
  <2>2. ASSUME NEW i \in SlotsOf(swept, key)
        PROVE  i \in 1..MaxHosts /\ mem[key] = swept[i].marks /\ Stamped(swept[i].marks) # {}
    <3>1. i \in 1..MaxHosts /\ swept[i].key = key
      BY <1>6 DEF SlotsOf
    <3>2. mem[key] = Fresh(swept[i].marks, now, window)
      BY <1>2, <1>3, <3>1, MemoryOfFlow
    <3>3. Fresh(swept[i].marks, now, window) = swept[i].marks
      BY <1>2, <1>7, <3>1, FreshOfFresh
    <3> QED BY <1>1, <1>7, <3>1, <3>2, <3>3 DEF SlotInUse
  <2>3. key \in Windows!Known(mem)
    BY <1>6, <1>8, <2>2, SameInputs DEF Windows!Known, Windows!Held, Stamped
  <2> QED BY <1>8, <2>1, <2>2, <2>3 DEF Windows!HasRoom, swept, mem
<1>9. CASE SlotsOf(swept, key) = {}
  <2>1. Candidates(swept, key) = SlotsOf(swept, NoKey)
    BY <1>9 DEF Candidates
  <2>2. \A i \in 1..MaxHosts : swept[i].key # key
    BY <1>6, <1>9 DEF SlotsOf
  <2>3. mem[key] = NoMarks(cells)
    BY <1>2, <1>3, <2>2, MemoryOfFlow
  <2>4. \A i \in SlotsOf(swept, NoKey) : i \in 1..MaxHosts /\ mem[key] = swept[i].marks
    <3> TAKE i \in SlotsOf(swept, NoKey)
    <3>1. i \in 1..MaxHosts /\ swept[i].key = NoKey
      BY <1>6 DEF SlotsOf
    <3>2. swept[i].marks \in MarksType(cells, Times) /\ Stamped(swept[i].marks) = {}
      BY <1>7, <3>1 DEF SlotInUse
    <3> QED BY <2>3, <3>1, <3>2 DEF MarksType, Stamped, NoMarks
  <2>5. \A i \in 1..MaxHosts : \A c \in Stamped(swept[i].marks) :
           Within(now, swept[i].marks[c], window)
    BY <1>2, <1>9
  <2>6. Windows!Known(mem) = {k \in FlowKeys : \E i \in 1..MaxHosts : swept[i].key = k}
    BY <1>2, <1>3, <2>5, KnownFlows
  <2>7. Cardinality(Windows!Known(mem)) < MaxHosts <=> \E i \in 1..MaxHosts : swept[i].key = NoKey
    BY <1>2, <2>6, KnownCount
  <2>8. key \notin Windows!Known(mem)
    BY <2>2, <2>6
  <2>9. SlotsOf(swept, NoKey) # {} <=> \E i \in 1..MaxHosts : swept[i].key = NoKey
    BY <1>6 DEF SlotsOf
  <2>10. Windows!HasRoom(mem, key) <=> Cardinality(Windows!Known(mem)) < MaxHosts
    BY <2>8, SameCardinality DEF Windows!HasRoom
  <2>11. Candidates(swept, key) # {} <=> Windows!HasRoom(mem, key)
    BY <2>1, <2>7, <2>9, <2>10
  <2> QED BY <2>1, <2>4, <2>11 DEF swept, mem
<1> QED BY <1>8, <1>9

-----------------------------------------------------------------------------
(* What is remembered.                                                     *)

\* Writing fresh marks to the slot of a flow changes the memory of that flow
\* and of no other.
LEMMA MemoryOfPut ==
    ASSUME NEW cells, NEW swept, GoodFlows(swept, cells), NEW key \in FlowKeys,
           Candidates(swept, key) # {}, NEW now, NEW window,
           NEW marks \in MarksType(cells, Times), Stamped(marks) # {},
           \A c \in Stamped(marks) : Within(now, marks[c], window),
           NEW after, after = Put(swept, Least(Candidates(swept, key)), key, marks)
    PROVE  /\ GoodFlows(after, cells)
           /\ Memory(after, cells, now, window)
                 = [Memory(swept, cells, now, window) EXCEPT ![key] = marks]
<1> DEFINE slot == Least(Candidates(swept, key))
<1>1. key # NoKey /\ MaxHosts \in Nat
  BY Numbers, LimitAssumption
<1>2. /\ GoodTable(after, MaxHosts, cells, Times, FlowKeys)
      /\ SlotsOf(after, key) = {slot}
      /\ after[slot].marks = marks
      /\ slot \in Candidates(swept, key)
  BY <1>1, PutGood DEF GoodFlows
<1>3. GoodFlows(after, cells)
  BY <1>2 DEF GoodFlows
<1>4. DOMAIN swept = 1..MaxHosts /\ DOMAIN after = 1..MaxHosts
  BY <1>3 DEF GoodFlows, GoodTable
<1>5. slot \in 1..MaxHosts /\ swept[slot].key \in {key, NoKey} /\ after[slot].key = key
  BY <1>2, <1>4 DEF Candidates, SlotsOf
<1>6. \A i \in 1..MaxHosts : i # slot => after[i] = swept[i]
  <2>1. after = [swept EXCEPT ![slot] = [key |-> key, marks |-> marks]]
    BY DEF Put
  <2> HIDE DEF slot
  <2> QED BY <1>4, <1>5, <2>1
<1> HIDE DEF slot
<1>7. Memory(after, cells, now, window)[key] = marks
  <2>1. Memory(after, cells, now, window)[key] = Fresh(marks, now, window)
    BY <1>2, <1>3, <1>5, MemoryOfFlow
  <2> QED BY <2>1, FreshOfFresh
<1>8. ASSUME NEW k \in FlowKeys, k # key
      PROVE  Memory(after, cells, now, window)[k] = Memory(swept, cells, now, window)[k]
  <2>1. k # NoKey
    BY Numbers
  <2>2. CASE \A i \in 1..MaxHosts : swept[i].key # k
    <3>1. \A i \in 1..MaxHosts : after[i].key # k
      BY <1>5, <1>6, <1>8, <2>2
    <3> QED BY <1>3, <2>2, <3>1, MemoryOfFlow
  <2>3. CASE \E i \in 1..MaxHosts : swept[i].key = k
    <3>1. PICK i \in 1..MaxHosts : swept[i].key = k
      BY <2>3
    <3>2. i # slot
      BY <1>5, <1>8, <2>1, <3>1
    <3>3. after[i] = swept[i]
      BY <1>6, <3>2
    <3> QED BY <1>3, <3>1, <3>3, MemoryOfFlow
  <2> QED BY <2>2, <2>3
<1>9. /\ Memory(after, cells, now, window)
            = [k \in FlowKeys |-> Memory(after, cells, now, window)[k]]
      /\ Memory(swept, cells, now, window)
            = [k \in FlowKeys |-> Memory(swept, cells, now, window)[k]]
  BY DEF Memory
<1> QED BY <1>3, <1>7, <1>8, <1>9

\* An event table remembers an event as WindowRules does.
LEMMA EventRemembered ==
    ASSUME NEW table, GoodFlows(table, Cells), NEW key \in FlowKeys,
           NEW now \in Times, NEW window \in Nat \ {0}
    PROVE  LET after == TrackEvent(table, key, now, window) IN
           /\ GoodFlows(after, Cells)
           /\ Memory(after, Cells, now, window)
                 \in Windows!WithEvent(Memory(table, Cells, now, window), key, now)
<1> DEFINE swept == Swept(table, key, now, window)
           mem   == Memory(table, Cells, now, window)
           slot  == Least(Candidates(swept, key))
           old   == swept[slot].marks
           new   == RememberEvent(old, now)
           after == TrackEvent(table, key, now, window)
<1>1. key # NoKey /\ MaxHosts \in Nat /\ now \in Nat /\ 0 \notin Times /\ now # 0
  BY Numbers, LimitAssumption
<1>2. GoodFlows(swept, Cells)
  BY <1>1, SweptGood DEF GoodFlows
<1>3. Memory(swept, Cells, now, window) = mem
  BY SweepInvisible
<1>4. Candidates(swept, key) # {} <=> Windows!HasRoom(mem, key)
  BY SearchAnswer
<1>5. CASE Candidates(swept, key) = {}
  <2>1. after = swept
    BY <1>5 DEF TrackEvent
  <2>2. mem \in Windows!WithEvent(mem, key, now)
    BY <1>4, <1>5 DEF Windows!WithEvent
  <2> QED BY <1>2, <1>3, <2>1, <2>2
<1>6. CASE Candidates(swept, key) # {}
  <2>1. slot \in Candidates(swept, key)
    <3>1. Candidates(swept, key) \subseteq Nat
      BY <1>2 DEF GoodFlows, GoodTable, Candidates, SlotsOf
    <3> QED BY <1>6, <3>1, LeastIsLeast
  <2>2. slot \in 1..MaxHosts /\ mem[key] = old
    BY <2>1, SearchAnswer
  <2>3. after = Put(swept, slot, key, new)
    BY <1>6 DEF TrackEvent
  <2>4. mem[key] \in MarksType(Cells, Times) /\ DOMAIN mem = FlowKeys
    BY MemoryOfFlow
  <2>5. /\ new \in MarksType(Cells, Times)
        /\ Stamped(new) # {}
        /\ \A c \in Stamped(new) : new[c] = now \/ (c \in Stamped(old) /\ new[c] = old[c])
    <3>1. Cells = 1..MaxEvents /\ MaxEvents \in Nat \ {0}
      BY Numbers, LimitAssumption
    <3>2. old \in MarksType(1..MaxEvents, Times)
      BY <2>2, <2>4, <3>1
    <3> HIDE DEF old, mem
    <3>3. /\ RememberEvent(old, now) \in MarksType(1..MaxEvents, Times)
          /\ Stamped(RememberEvent(old, now)) # {}
          /\ \A c \in Stamped(RememberEvent(old, now)) :
                \/ RememberEvent(old, now)[c] = now
                \/ c \in Stamped(old) /\ RememberEvent(old, now)[c] = old[c]
      BY <1>1, <3>1, <3>2, RememberEventType
    <3>4. new \in MarksType(Cells, Times)
      BY <3>1, <3>3
    <3> QED BY <3>3, <3>4
  <2>6. \A c \in Stamped(old) : Within(now, old[c], window)
    <3>1. mem[key] = old
      BY <2>2
    <3>2. \A c \in Stamped(mem[key]) : Within(now, mem[key][c], window)
      BY FreshMemory
    <3> QED BY <3>1, <3>2
  <2>7. Within(now, now, window)
    BY <1>1 DEF Within
  <2>8. \A c \in Stamped(new) : Within(now, new[c], window)
    BY <2>5, <2>6, <2>7
  <2> HIDE DEF after, new, swept, slot
  <2>9. /\ GoodFlows(after, Cells)
        /\ Memory(after, Cells, now, window) = [mem EXCEPT ![key] = new]
    BY <1>2, <1>3, <1>6, <2>3, <2>5, <2>8, MemoryOfPut DEF slot
  <2>10. [mem EXCEPT ![key] = new] \in Windows!WithEvent(mem, key, now)
    <3> DEFINE empty == DOMAIN mem[key] \ Stamped(mem[key])
    <3>1. empty = DOMAIN mem[key] \ Windows!Held(mem[key])
      BY DEF Windows!Held, Stamped
    <3>2. CASE empty = {}
      <4>1. new = mem[key]
        BY <2>2, <3>2 DEF new, RememberEvent
      <4>2. mem = [k \in FlowKeys |-> mem[k]]
        BY DEF Memory
      <4> HIDE DEF mem
      <4>3. [mem EXCEPT ![key] = new] = mem
        BY <4>1, <4>2
      <4> QED BY <1>4, <1>6, <3>1, <3>2, <4>3 DEF Windows!WithEvent
    <3>3. CASE empty # {}
      <4>1. empty \subseteq Nat
        <5>1. DOMAIN mem[key] = Cells
          BY <2>4 DEF MarksType
        <5>2. Cells \subseteq Nat
          BY DEF Cells
        <5>3. empty \subseteq Cells
          BY <5>1
        <5> QED BY <5>2, <5>3
      <4>2. Least(empty) \in empty
        <5> HIDE DEF empty
        <5> QED BY <3>3, <4>1, LeastIsLeast
      <4>3. new = [mem[key] EXCEPT ![Least(empty)] = now]
        BY <2>2, <3>3 DEF new, RememberEvent
      <4> HIDE DEF empty
      <4>4. [mem EXCEPT ![key] = new] = [mem EXCEPT ![key][Least(empty)] = now]
        BY <2>4, <4>3
      <4> QED BY <1>4, <1>6, <3>1, <3>3, <4>2, <4>4 DEF Windows!WithEvent
    <3> QED BY <3>2, <3>3
  <2> QED BY <2>9, <2>10 DEF after
<1> QED BY <1>5, <1>6

\* The threshold test asks of the memory what it asks of the table.
LEMMA HeldIsStamped ==
    \A marks : Windows!Held(marks) = Stamped(marks)
               /\ Windows!Cardinality(Windows!Held(marks)) = Count(marks)
BY SameCardinality DEF Windows!Held, Stamped, Count

\* A sweep of a port table stamps no port.
LEMMA SweptStampsNothing ==
    ASSUME NEW table, GoodFlows(table, Ports),
           NEW key \in FlowKeys, NEW now \in Times, NEW window \in Nat \ {0},
           NEW i \in 1..MaxHosts
    PROVE  /\ GoodFlows(Swept(table, key, now, window), Ports)
           /\ Stamped(Swept(table, key, now, window)[i].marks) \subseteq Stamped(table[i].marks)
<1>1. key # NoKey /\ MaxHosts \in Nat
  BY KeyAssumption, LimitAssumption
<1>2. GoodTable(table, MaxHosts, Ports, Times, FlowKeys)
  BY DEF GoodFlows
<1>3. GoodTable(Swept(table, key, now, window), MaxHosts, Ports, Times, FlowKeys)
  BY <1>1, <1>2, SweptGood
<1>4. \A j \in 1..MaxHosts : \A c \in Stamped(Swept(table, key, now, window)[j].marks) :
         /\ c \in Stamped(table[j].marks)
         /\ Swept(table, key, now, window)[j].marks[c] = table[j].marks[c]
  BY <1>1, <1>2, SweptGood
<1> QED BY <1>3, <1>4 DEF GoodFlows

\* A port table remembers a port as WindowRules does.
LEMMA PortRemembered ==
    ASSUME NEW table, GoodFlows(table, Ports), PortsBounded(table, MaxPorts),
           NEW key \in FlowKeys, NEW port \in Ports,
           NEW now \in Times, NEW window \in Nat \ {0}
    PROVE  LET after == TrackPort(table, key, port, now, window, MaxPorts) IN
           /\ GoodFlows(after, Ports)
           /\ Memory(after, Ports, now, window)
                 = Windows!WithPort(Memory(table, Ports, now, window), key, port, now)
<1> DEFINE swept == Swept(table, key, now, window)
           mem   == Memory(table, Ports, now, window)
           slot  == Least(Candidates(swept, key))
           old   == swept[slot].marks
           new   == RememberPort(old, port, now, MaxPorts)
           after == TrackPort(table, key, port, now, window, MaxPorts)
<1>1. /\ key # NoKey /\ MaxHosts \in Nat /\ now \in Nat /\ 0 \notin Times /\ now # 0
      /\ MaxPorts \in Nat \ {0} /\ IsFiniteSet(Ports)
  BY Numbers, LimitAssumption, InputAssumption
<1>2. /\ GoodFlows(swept, Ports)
      /\ \A i \in 1..MaxHosts : Stamped(swept[i].marks) \subseteq Stamped(table[i].marks)
  <2>1. GoodFlows(swept, Ports)
    <3>1. 1 \in 1..MaxHosts
      BY LimitAssumption
    <3> QED BY <3>1, SweptStampsNothing
  <2>2. ASSUME NEW i \in 1..MaxHosts
        PROVE  Stamped(swept[i].marks) \subseteq Stamped(table[i].marks)
    BY SweptStampsNothing
  <2> HIDE DEF swept
  <2> QED BY <2>1, <2>2
<1>3. Memory(swept, Ports, now, window) = mem
  BY SweepInvisible
<1>4. Candidates(swept, key) # {} <=> Windows!HasRoom(mem, key)
  BY SearchAnswer
<1>5. CASE Candidates(swept, key) = {}
  <2>1. after = swept
    BY <1>5 DEF TrackPort
  <2>2. Windows!WithPort(mem, key, port, now) = mem
    BY <1>4, <1>5 DEF Windows!WithPort
  <2> QED BY <1>2, <1>3, <2>1, <2>2
<1>6. CASE Candidates(swept, key) # {}
  <2>1. slot \in Candidates(swept, key)
    <3>1. Candidates(swept, key) \subseteq Nat
      BY <1>2 DEF GoodFlows, GoodTable, Candidates, SlotsOf
    <3> QED BY <1>6, <3>1, LeastIsLeast
  <2>2. slot \in 1..MaxHosts /\ mem[key] = old
    BY <2>1, SearchAnswer
  <2>3. after = Put(swept, slot, key, new)
    BY <1>6 DEF TrackPort
  <2>4. mem[key] \in MarksType(Ports, Times) /\ DOMAIN mem = FlowKeys
    BY MemoryOfFlow
  <2>5. old \in MarksType(Ports, Times) /\ Count(old) <= MaxPorts
    <3>1. Stamped(old) \subseteq Stamped(table[slot].marks)
      BY <1>2, <2>2
    <3>2. table[slot].marks \in MarksType(Ports, Times) /\ Count(table[slot].marks) <= MaxPorts
      BY <2>2 DEF GoodFlows, GoodTable, PortsBounded, Slot, MarksType
    <3>3. old \in MarksType(Ports, Times)
      BY <2>2, <2>4
    <3> HIDE DEF old, slot
    <3> QED BY <1>1, <3>1, <3>2, <3>3, FewerMarks
  <2>6. /\ new \in MarksType(Ports, Times)
        /\ Stamped(new) # {}
        /\ \A c \in Stamped(new) : new[c] = now \/ (c \in Stamped(old) /\ new[c] = old[c])
    <3> HIDE DEF old
    <3> QED BY <1>1, <2>5, RememberPortType
  <2>7. \A c \in Stamped(old) : Within(now, old[c], window)
    <3>1. \A c \in Stamped(mem[key]) : Within(now, mem[key][c], window)
      BY FreshMemory
    <3> QED BY <2>2, <3>1
  <2>8. Within(now, now, window)
    BY <1>1 DEF Within
  <2>9. \A c \in Stamped(new) : Within(now, new[c], window)
    BY <2>6, <2>7, <2>8
  <2> HIDE DEF after, new, swept, slot
  <2>10. /\ GoodFlows(after, Ports)
         /\ Memory(after, Ports, now, window) = [mem EXCEPT ![key] = new]
    BY <1>2, <1>3, <1>6, <2>3, <2>6, <2>9, MemoryOfPut DEF slot
  <2>11. [mem EXCEPT ![key] = new] = Windows!WithPort(mem, key, port, now)
    <3>1. mem = [k \in FlowKeys |-> mem[k]]
      BY DEF Memory
    <3>2. mem[key][port] # 0 <=> port \in Windows!Held(mem[key])
      BY <2>4, HeldIsStamped DEF Stamped, MarksType
    <3>3. Count(mem[key]) = Windows!Cardinality(Windows!Held(mem[key]))
      BY HeldIsStamped
    <3>4. new = IF \/ port \in Windows!Held(mem[key])
                   \/ Windows!Cardinality(Windows!Held(mem[key])) < MaxPorts
                THEN [mem[key] EXCEPT ![port] = now] ELSE mem[key]
      BY <2>2, <3>2, <3>3 DEF new, RememberPort
    <3> HIDE DEF mem
    <3> QED BY <1>4, <1>6, <3>1, <3>4 DEF Windows!WithPort
  <2> QED BY <2>10, <2>11 DEF after
<1> QED BY <1>5, <1>6

\* A rule compares its threshold with the marks of the flow in the memory.
LEMMA TallyIsReached ==
    ASSUME NEW cells, NEW after, GoodFlows(after, cells), NEW key \in FlowKeys,
           NEW now \in Times, NEW window \in Nat \ {0}, NEW before,
           Marked(after, before, key, now, window), NEW threshold
    PROVE  Windows!Reached(Memory(after, cells, now, window), key, threshold)
              <=> Tally(after, key) >= threshold
<1>1. DOMAIN after = 1..MaxHosts
  BY DEF GoodFlows, GoodTable
<1>2. Count(Memory(after, cells, now, window)[key]) = Tally(after, key)
  <2>1. CASE SlotsOf(after, key) = {}
    <3>1. Memory(after, cells, now, window)[key] = NoMarks(cells)
      BY <2>1 DEF Memory
    <3>2. Stamped(NoMarks(cells)) = {}
      BY DEF NoMarks, Stamped
    <3> QED BY <2>1, <3>1, <3>2, FS_EmptySet DEF Tally, Count
  <2>2. CASE SlotsOf(after, key) # {}
    <3>1. PICK i \in 1..MaxHosts : i = Least(SlotsOf(after, key)) /\ i \in SlotsOf(after, key)
      <4>1. SlotsOf(after, key) \subseteq Nat /\ SlotsOf(after, key) \subseteq 1..MaxHosts
        BY <1>1 DEF SlotsOf
      <4> QED BY <2>2, <4>1, LeastIsLeast
    <3>2. after[i].key = key
      BY <3>1 DEF SlotsOf
    <3>3. Memory(after, cells, now, window)[key] = Fresh(after[i].marks, now, window)
      BY <3>2, MemoryOfFlow
    <3>4. Within(now, now, window)
      <4>1. now \in Nat /\ now # 0
        BY Numbers
      <4> QED BY <4>1 DEF Within
    <3>5. \A c \in Stamped(after[i].marks) : Within(now, after[i].marks[c], window)
      BY <3>1, <3>4 DEF Marked
    <3>6. after[i].marks \in MarksType(cells, Times)
      BY DEF GoodFlows, GoodTable, Slot, MarksType
    <3>7. Fresh(after[i].marks, now, window) = after[i].marks
      BY <3>5, <3>6, FreshOfFresh
    <3> QED BY <2>2, <3>1, <3>3, <3>7 DEF Tally, MarksOf
  <2> QED BY <2>1, <2>2
<1> QED BY <1>2, HeldIsStamped DEF Windows!Reached

-----------------------------------------------------------------------------
(* The rules.                                                              *)

\* What one call does to the tables, whichever rule claims the packet, and
\* which rule that is.
LEMMA CallShape ==
    ASSUME IInv, NEW p \in Packets, NEW t \in Times, Detect(p, t)
    PROVE  /\ config' = config /\ clock' = t
           /\ synTable' = SynAfter(p, t)
           /\ scanTable' = IF SynClaims(p, t) THEN scanTable ELSE ScanAfter(p, t)
           /\ icmpTable' = IcmpAfter(p, t)
           /\ verdict'.by =
                 CASE SynClaims(p, t)                        -> "SYN Flood"
                   [] ~SynClaims(p, t) /\ ScanClaims(p, t)   -> "Port Scan"
                   [] IcmpClaims(p, t)                       -> "ICMP Flood"
                   [] OTHER -> CASE SuspiciousClaims(p)      -> "Suspicious Port"
                                 [] EchoClaims(p)            -> "ICMP Echo Request"
                                 [] WatchClaims(p) /\ ~SuspiciousClaims(p) -> "TCP SYN Watch"
                                 [] OTHER                    -> "none"
<1>1. SynLooksAt(p) => ~IcmpLooksAt(p) /\ ~EchoClaims(p) /\ IcmpAfter(p, t) = icmpTable
  BY DEF SynLooksAt, IcmpLooksAt, EchoClaims, IsTcpSynWithoutAck, IsEchoRequest, IcmpAfter
<1>2. ScanLooksAt(p) => ~IcmpLooksAt(p) /\ ~EchoClaims(p) /\ IcmpAfter(p, t) = icmpTable
  BY DEF ScanLooksAt, IcmpLooksAt, EchoClaims, IsTcpSynWithoutAck, IsEchoRequest, IcmpAfter
<1>3. IcmpLooksAt(p) => /\ ~SynLooksAt(p) /\ ~ScanLooksAt(p)
                        /\ SynAfter(p, t) = synTable /\ ScanAfter(p, t) = scanTable
  BY DEF SynLooksAt, ScanLooksAt, IcmpLooksAt, IsTcpSynWithoutAck, IsEchoRequest,
         SynAfter, ScanAfter
<1>4. /\ SynClaims(p, t) => SynLooksAt(p)
      /\ ScanClaims(p, t) => ScanLooksAt(p)
      /\ IcmpClaims(p, t) => IcmpLooksAt(p)
  BY DEF SynClaims, ScanClaims, IcmpClaims
<1>5. EchoClaims(p) => ~SuspiciousClaims(p) /\ ~WatchClaims(p)
  BY DEF EchoClaims, SuspiciousClaims, WatchClaims, IsEchoRequest, IsTcpOrUdp, IsTcpSynWithoutAck
<1>6. ASSUME NEW rule, NEW key, NEW evidence, Claim(rule, key, t, evidence)
      PROVE  verdict'.by = rule
  BY <1>6 DEF Claim, Nothing
<1>7. config' = config /\ clock' = t
  BY DEF Detect
<1>8. CASE RaiseSynFlood(p, t)
  BY <1>1, <1>4, <1>6, <1>7, <1>8 DEF RaiseSynFlood
<1>9. CASE RaisePortScan(p, t)
  BY <1>2, <1>4, <1>6, <1>7, <1>9 DEF RaisePortScan
<1>10. CASE RaiseIcmpFlood(p, t)
  BY <1>3, <1>4, <1>6, <1>7, <1>10 DEF RaiseIcmpFlood
<1>11. CASE RaiseSuspiciousPort(p, t)
  BY <1>5, <1>6, <1>7, <1>11 DEF RaiseSuspiciousPort, FallThrough
<1>12. CASE RaiseIcmpEcho(p, t)
  BY <1>5, <1>6, <1>7, <1>12 DEF RaiseIcmpEcho, FallThrough
<1>13. CASE RaiseSynWatch(p, t)
  BY <1>5, <1>6, <1>7, <1>13 DEF RaiseSynWatch, FallThrough
<1>14. CASE NoRule(p, t)
  BY <1>7, <1>14 DEF NoRule, FallThrough, Nothing
<1> QED BY <1>8, <1>9, <1>10, <1>11, <1>12, <1>13, <1>14 DEF Detect

\* What the three tables stand for, before and after time has passed.
SynMemory  == Memory(synTable, Cells, clock, config.synWindow)
ScanMemory == Memory(scanTable, Ports, clock, config.scanWindow)
IcmpMemory == Memory(icmpTable, Cells, clock, config.icmpWindow)

LEMMA NextMemories ==
    ASSUME config' = config, NEW t, clock' = t
    PROVE  /\ SynMemory'  = Memory(synTable', Cells, t, config.synWindow)
           /\ ScanMemory' = Memory(scanTable', Ports, t, config.scanWindow)
           /\ IcmpMemory' = Memory(icmpTable', Cells, t, config.icmpWindow)
BY DEF SynMemory, ScanMemory, IcmpMemory, Memory

\* Where the clock and the windows are, and what the tables are.
LEMMA StateFacts ==
    ASSUME IInv, NEW t \in Times
    PROVE  /\ clock \in Nat /\ t \in Nat
           /\ config.synWindow \in Nat \ {0}
           /\ config.scanWindow \in Nat \ {0}
           /\ config.icmpWindow \in Nat \ {0}
           /\ GoodFlows(synTable, Cells) /\ GoodFlows(icmpTable, Cells)
           /\ GoodFlows(scanTable, Ports) /\ PortsBounded(scanTable, MaxPorts)
<1>1. config \in Configs
  BY GoodTables
<1>2. /\ config.synWindow \in Nat \ {0}
      /\ config.scanWindow \in Nat \ {0}
      /\ config.icmpWindow \in Nat \ {0}
  BY <1>1, ConfigAssumption, Thresholds DEF PositiveLimits
<1>3. clock \in Nat /\ t \in Nat
  BY ClockIsNat, Numbers
<1> QED BY <1>2, <1>3, GoodTables DEF GoodFlows

LEMMA SynImplemented ==
    ASSUME IInv, NEW p \in Packets, NEW t \in Times, t >= clock,
           config' = config, clock' = t, synTable' = SynAfter(p, t)
    PROVE  /\ IF SynLooksAt(p)
              THEN SynMemory' \in Windows!WithEvent(
                      Windows!Aged(SynMemory, t, config.synWindow), PortKey(p), t)
              ELSE SynMemory' = Windows!Aged(SynMemory, t, config.synWindow)
           /\ SynClaims(p, t) <=> /\ SynLooksAt(p)
                                  /\ Windows!Reached(SynMemory', PortKey(p), config.synThreshold)
<1>1. /\ clock \in Nat /\ t \in Nat /\ config.synWindow \in Nat \ {0}
      /\ GoodFlows(synTable, Cells) /\ PortKey(p) \in FlowKeys
  BY StateFacts, PacketKeys
<1>2. Windows!Aged(SynMemory, t, config.synWindow) = Memory(synTable, Cells, t, config.synWindow)
  BY <1>1, MemoryAges DEF SynMemory
<1>3. SynMemory' = Memory(SynAfter(p, t), Cells, t, config.synWindow)
  BY NextMemories
<1>4. CASE SynLooksAt(p)
  <2>1. SynAfter(p, t) = TrackEvent(synTable, PortKey(p), t, config.synWindow)
    BY <1>4 DEF SynAfter
  <2>2. /\ GoodFlows(SynAfter(p, t), Cells)
        /\ SynMemory' \in Windows!WithEvent(
              Memory(synTable, Cells, t, config.synWindow), PortKey(p), t)
    BY <1>1, <1>3, <2>1, EventRemembered
  <2>3. Marked(SynAfter(p, t), synTable, PortKey(p), t, config.synWindow)
    BY <1>4, SynAfterGood
  <2>4. Windows!Reached(SynMemory', PortKey(p), config.synThreshold)
           <=> Tally(SynAfter(p, t), PortKey(p)) >= config.synThreshold
    BY <1>1, <1>3, <2>2, <2>3, TallyIsReached
  <2> QED BY <1>2, <1>4, <2>2, <2>4 DEF SynClaims
<1>5. CASE ~SynLooksAt(p)
  BY <1>2, <1>3, <1>5 DEF SynAfter, SynClaims
<1> QED BY <1>4, <1>5

LEMMA IcmpImplemented ==
    ASSUME IInv, NEW p \in Packets, NEW t \in Times, t >= clock,
           config' = config, clock' = t, icmpTable' = IcmpAfter(p, t)
    PROVE  /\ IF IcmpLooksAt(p)
              THEN IcmpMemory' \in Windows!WithEvent(
                      Windows!Aged(IcmpMemory, t, config.icmpWindow), PairKey(p), t)
              ELSE IcmpMemory' = Windows!Aged(IcmpMemory, t, config.icmpWindow)
           /\ IcmpClaims(p, t) <=> /\ IcmpLooksAt(p)
                                   /\ Windows!Reached(IcmpMemory', PairKey(p), config.icmpThreshold)
<1>1. /\ clock \in Nat /\ t \in Nat /\ config.icmpWindow \in Nat \ {0}
      /\ GoodFlows(icmpTable, Cells) /\ PairKey(p) \in FlowKeys
  BY StateFacts, PacketKeys
<1>2. Windows!Aged(IcmpMemory, t, config.icmpWindow) = Memory(icmpTable, Cells, t, config.icmpWindow)
  BY <1>1, MemoryAges DEF IcmpMemory
<1>3. IcmpMemory' = Memory(IcmpAfter(p, t), Cells, t, config.icmpWindow)
  BY NextMemories
<1>4. CASE IcmpLooksAt(p)
  <2>1. IcmpAfter(p, t) = TrackEvent(icmpTable, PairKey(p), t, config.icmpWindow)
    BY <1>4 DEF IcmpAfter
  <2>2. /\ GoodFlows(IcmpAfter(p, t), Cells)
        /\ IcmpMemory' \in Windows!WithEvent(
              Memory(icmpTable, Cells, t, config.icmpWindow), PairKey(p), t)
    BY <1>1, <1>3, <2>1, EventRemembered
  <2>3. Marked(IcmpAfter(p, t), icmpTable, PairKey(p), t, config.icmpWindow)
    BY <1>4, IcmpAfterGood
  <2>4. Windows!Reached(IcmpMemory', PairKey(p), config.icmpThreshold)
           <=> Tally(IcmpAfter(p, t), PairKey(p)) >= config.icmpThreshold
    BY <1>1, <1>3, <2>2, <2>3, TallyIsReached
  <2> QED BY <1>2, <1>4, <2>2, <2>4 DEF IcmpClaims
<1>5. CASE ~IcmpLooksAt(p)
  BY <1>2, <1>3, <1>5 DEF IcmpAfter, IcmpClaims
<1> QED BY <1>4, <1>5

\* The scan rule is asked only when the SYN flood rule has let the packet pass.
LEMMA ScanImplemented ==
    ASSUME IInv, NEW p \in Packets, NEW t \in Times, t >= clock,
           config' = config, clock' = t,
           scanTable' = IF SynClaims(p, t) THEN scanTable ELSE ScanAfter(p, t)
    PROVE  /\ IF ScanLooksAt(p) /\ ~SynClaims(p, t)
              THEN ScanMemory' = Windows!WithPort(
                      Windows!Aged(ScanMemory, t, config.scanWindow), PairKey(p), p.port, t)
              ELSE ScanMemory' = Windows!Aged(ScanMemory, t, config.scanWindow)
           /\ ~SynClaims(p, t) =>
                 (ScanClaims(p, t) <=>
                     /\ ScanLooksAt(p)
                     /\ Windows!Reached(ScanMemory', PairKey(p), config.scanThreshold))
<1>1. /\ clock \in Nat /\ t \in Nat /\ config.scanWindow \in Nat \ {0}
      /\ GoodFlows(scanTable, Ports) /\ PortsBounded(scanTable, MaxPorts)
      /\ PairKey(p) \in FlowKeys /\ p.port \in Ports
  BY StateFacts, PacketKeys
<1>2. Windows!Aged(ScanMemory, t, config.scanWindow) = Memory(scanTable, Ports, t, config.scanWindow)
  BY <1>1, MemoryAges DEF ScanMemory
<1>3. ScanMemory' = Memory(scanTable', Ports, t, config.scanWindow)
  BY NextMemories
<1>4. CASE ScanLooksAt(p) /\ ~SynClaims(p, t)
  <2>1. ScanAfter(p, t) =
           TrackPort(scanTable, PairKey(p), p.port, t, config.scanWindow, MaxPorts)
    BY <1>4 DEF ScanAfter
  <2>2. scanTable' = ScanAfter(p, t)
    BY <1>4
  <2>3. /\ GoodFlows(ScanAfter(p, t), Ports)
        /\ ScanMemory' = Windows!WithPort(
              Memory(scanTable, Ports, t, config.scanWindow), PairKey(p), p.port, t)
    BY <1>1, <1>3, <2>1, <2>2, PortRemembered
  <2>4. Marked(ScanAfter(p, t), scanTable, PairKey(p), t, config.scanWindow)
    BY <1>4, ScanAfterGood
  <2>5. Windows!Reached(ScanMemory', PairKey(p), config.scanThreshold)
           <=> Tally(ScanAfter(p, t), PairKey(p)) >= config.scanThreshold
    BY <1>1, <1>3, <2>2, <2>3, <2>4, TallyIsReached
  <2> QED BY <1>2, <1>4, <2>3, <2>5 DEF ScanClaims
<1>5. CASE ~(ScanLooksAt(p) /\ ~SynClaims(p, t))
  <2>1. scanTable' = scanTable
    BY <1>5 DEF ScanAfter
  <2>2. ~SynClaims(p, t) => ~ScanLooksAt(p) /\ ~ScanClaims(p, t)
    BY <1>5 DEF ScanClaims
  <2> QED BY <1>2, <1>3, <1>5, <2>1, <2>2
<1> QED BY <1>4, <1>5

-----------------------------------------------------------------------------
(* The cooldown.                                                           *)

\* An entry without an incident has no time.
BlankEntries(entries) == \A i \in 1..MaxHistory : entries[i].key = NoKey => entries[i].last = 0

GoodHistory(entries) ==
    entries \in HistoryType /\ OneSlotPerKey(entries) /\ BlankEntries(entries)

\* What an entry stands for, and an incident without one.
LEMMA RecentOfIncident ==
    ASSUME NEW entries, GoodHistory(entries), NEW now, NEW cooldown, NEW k \in AlertKeys
    PROVE  /\ \A i \in 1..MaxHistory : entries[i].key = k =>
                 RecentAlerts(entries, now, cooldown)[k]
                    = IF Within(now, entries[i].last, cooldown) THEN entries[i].last ELSE 0
           /\ (\A i \in 1..MaxHistory : entries[i].key # k) =>
                 RecentAlerts(entries, now, cooldown)[k] = 0
           /\ RecentAlerts(entries, now, cooldown)[k] \in Times \cup {0}
<1> DEFINE live == {i \in DOMAIN entries :
                       entries[i].key = k /\ Within(now, entries[i].last, cooldown)}
<1>1. DOMAIN entries = 1..MaxHistory /\ k # NoKey
  BY KeyAssumption DEF GoodHistory, HistoryType
<1>2. RecentAlerts(entries, now, cooldown)[k] = IF live = {} THEN 0 ELSE entries[Least(live)].last
  BY DEF RecentAlerts
<1>3. live # {} => Least(live) \in live
  <2>1. live \subseteq Nat
    BY <1>1
  <2> HIDE DEF live
  <2> QED BY <2>1, LeastIsLeast
<1>4. ASSUME NEW i \in 1..MaxHistory, entries[i].key = k
      PROVE  live \subseteq {i}
  BY <1>1, <1>4 DEF GoodHistory, OneSlotPerKey
<1>5. \A i \in 1..MaxHistory : entries[i].last \in Times \cup {0}
  BY DEF GoodHistory, HistoryType
<1>6. ASSUME NEW i \in 1..MaxHistory, entries[i].key = k
      PROVE  RecentAlerts(entries, now, cooldown)[k]
                = IF Within(now, entries[i].last, cooldown) THEN entries[i].last ELSE 0
  <2>1. CASE Within(now, entries[i].last, cooldown)
    <3>1. i \in live
      BY <1>1, <1>6, <2>1
    <3>2. Least(live) = i
      BY <1>3, <1>4, <1>6, <3>1
    <3> QED BY <1>2, <2>1, <3>1, <3>2
  <2>2. CASE ~Within(now, entries[i].last, cooldown)
    <3>1. live = {}
      BY <1>4, <1>6, <2>2
    <3> QED BY <1>2, <2>2, <3>1
  <2> QED BY <2>1, <2>2
<1>7. ASSUME \A i \in 1..MaxHistory : entries[i].key # k
      PROVE  RecentAlerts(entries, now, cooldown)[k] = 0
  BY <1>1, <1>2, <1>7
<1> QED BY <1>5, <1>6, <1>7

\* Time alone: the cooldown of some alerts passes, the others stay.
LEMMA RecentAges ==
    ASSUME NEW entries, GoodHistory(entries), NEW now \in Nat, NEW then \in Nat, now <= then,
           NEW cooldown \in Nat, NEW k \in AlertKeys
    PROVE  LET recent == RecentAlerts(entries, now, cooldown) IN
           RecentAlerts(entries, then, cooldown)[k]
              = IF recent[k] # 0 /\ then <= recent[k] + cooldown THEN recent[k] ELSE 0
<1>1. CASE \A i \in 1..MaxHistory : entries[i].key # k
  BY <1>1, RecentOfIncident
<1>2. ASSUME NEW i \in 1..MaxHistory, entries[i].key = k
      PROVE  RecentAlerts(entries, then, cooldown)[k]
                = IF /\ RecentAlerts(entries, now, cooldown)[k] # 0
                     /\ then <= RecentAlerts(entries, now, cooldown)[k] + cooldown
                  THEN RecentAlerts(entries, now, cooldown)[k] ELSE 0
  <2>1. entries[i].last \in Nat
    <3>1. entries[i].last \in Times \cup {0}
      BY DEF GoodHistory, HistoryType
    <3>2. Times \cup {0} \subseteq Nat
      BY Numbers
    <3> QED BY <3>1, <3>2
  <2>2. /\ RecentAlerts(entries, now, cooldown)[k]
              = IF Within(now, entries[i].last, cooldown) THEN entries[i].last ELSE 0
        /\ RecentAlerts(entries, then, cooldown)[k]
              = IF Within(then, entries[i].last, cooldown) THEN entries[i].last ELSE 0
    BY <1>2, RecentOfIncident
  <2> QED BY <2>1, <2>2 DEF Within
<1> QED BY <1>1, <1>2

\* There are MaxHistory alerts in cooldown exactly when no entry may be taken.
LEMMA RecentCount ==
    ASSUME NEW entries, GoodHistory(entries), NEW now, NEW cooldown
    PROVE  Cardinality(Windows!Held(RecentAlerts(entries, now, cooldown))) < MaxHistory
              <=> \E i \in 1..MaxHistory : ~Within(now, entries[i].last, cooldown)
<1> DEFINE owner == [i \in 1..MaxHistory |->
                        IF Within(now, entries[i].last, cooldown) THEN entries[i].key ELSE NoKey]
           recent == RecentAlerts(entries, now, cooldown)
<1>1. entries \in HistoryType /\ DOMAIN entries = 1..MaxHistory
  BY DEF GoodHistory, HistoryType
<1>2. \A i \in 1..MaxHistory : Within(now, entries[i].last, cooldown) => entries[i].key # NoKey
  BY DEF GoodHistory, BlankEntries, Within
<1>3. owner \in [1..MaxHistory -> AlertKeys \cup {NoKey}]
  BY <1>1 DEF HistoryType
<1>4. \A i, j \in 1..MaxHistory : owner[i] = owner[j] /\ owner[i] # NoKey => i = j
  BY <1>1 DEF GoodHistory, OneSlotPerKey
<1>5. (\E i \in 1..MaxHistory : owner[i] = NoKey)
         <=> \E i \in 1..MaxHistory : ~Within(now, entries[i].last, cooldown)
  BY <1>2
<1>6. ASSUME NEW k \in AlertKeys
      PROVE  recent[k] # 0 <=> \E i \in 1..MaxHistory : owner[i] = k
  <2>1. k # NoKey
    BY KeyAssumption
  <2>2. CASE \A i \in 1..MaxHistory : entries[i].key # k
    BY <2>1, <2>2, RecentOfIncident
  <2>3. ASSUME NEW i \in 1..MaxHistory, entries[i].key = k
        PROVE  recent[k] # 0 <=> \E j \in 1..MaxHistory : owner[j] = k
    <3>1. recent[k] = IF Within(now, entries[i].last, cooldown) THEN entries[i].last ELSE 0
      BY <2>3, RecentOfIncident
    <3>2. \A j \in 1..MaxHistory : owner[j] = k => j = i
      BY <1>1, <2>1, <2>3 DEF GoodHistory, OneSlotPerKey
    <3>3. Within(now, entries[i].last, cooldown) => entries[i].last # 0
      BY DEF Within
    <3> HIDE DEF recent
    <3>4. CASE Within(now, entries[i].last, cooldown)
      BY <2>3, <3>1, <3>3, <3>4
    <3>5. CASE ~Within(now, entries[i].last, cooldown)
      BY <2>1, <3>1, <3>2, <3>5
    <3> QED BY <3>4, <3>5
  <2> QED BY <2>2, <2>3
<1>7. DOMAIN recent = AlertKeys
  BY DEF RecentAlerts
<1> HIDE DEF owner, recent
<1>8. Windows!Held(recent) = {k \in AlertKeys : \E i \in 1..MaxHistory : owner[i] = k}
  BY <1>6, <1>7 DEF Windows!Held
<1>9. MaxHistory \in Nat /\ NoKey \notin AlertKeys
  BY LimitAssumption, KeyAssumption
<1>10. Cardinality(Windows!Held(recent)) < MaxHistory <=> \E i \in 1..MaxHistory : owner[i] = NoKey
  BY <1>3, <1>4, <1>8, <1>9, OwnerCount
<1> QED BY <1>5, <1>10 DEF recent

\* should_emit_alert, in terms of the alerts in cooldown: an incident alerts
\* unless it is among them, and joins them while there are fewer than MaxHistory.
LEMMA AlertRemembered ==
    ASSUME IInv, BlankEntries(history), NEW key \in AlertKeys, NEW t \in Times
    PROVE  LET cooling == RecentAlerts(history, t, config.cooldown)
               after   == HistoryAfter(key, t)
           IN  /\ BlankEntries(after)
               /\ ShouldEmit(key, t) <=> cooling[key] = 0
               /\ RecentAlerts(after, t, config.cooldown)
                     = IF /\ ShouldEmit(key, t) /\ config.cooldown > 0
                          /\ Cardinality(Windows!Held(cooling)) < MaxHistory
                       THEN [cooling EXCEPT ![key] = t] ELSE cooling
<1> DEFINE cooling == RecentAlerts(history, t, config.cooldown)
           after   == HistoryAfter(key, t)
           room    == Cardinality(Windows!Held(cooling)) < MaxHistory
<1>1. /\ GoodHistory(history) /\ history \in HistoryType /\ OneSlotPerKey(history)
      /\ DOMAIN history = 1..MaxHistory
      /\ config.cooldown \in Nat /\ t \in Nat /\ t # 0 /\ key # NoKey
  BY HistoryFacts, Numbers, KeyAssumption DEF GoodHistory
<1>2. room <=> \E i \in 1..MaxHistory : ~Within(t, history[i].last, config.cooldown)
  BY <1>1, RecentCount
<1>3. ASSUME NEW i \in 1..MaxHistory, history[i].key = key
      PROVE  InCooldown(key, t) <=> Within(t, history[i].last, config.cooldown)
  <2>1. Incidents(key) = {i} /\ Least(Incidents(key)) = i
    BY <1>3, TheIncident
  <2> QED BY <2>1 DEF InCooldown
<1>4. \A k \in AlertKeys :
         /\ \A i \in 1..MaxHistory : history[i].key = k =>
               cooling[k] = IF Within(t, history[i].last, config.cooldown)
                            THEN history[i].last ELSE 0
         /\ (\A i \in 1..MaxHistory : history[i].key # k) => cooling[k] = 0
  BY <1>1, RecentOfIncident
<1>5. DOMAIN cooling = AlertKeys /\ cooling = [k \in AlertKeys |-> cooling[k]]
  BY DEF RecentAlerts
<1> HIDE DEF cooling, room
<1>6. ShouldEmit(key, t) <=> cooling[key] = 0
  <2>1. CASE \A i \in 1..MaxHistory : history[i].key # key
    <3>1. Incidents(key) = {}
      BY <1>1, <2>1 DEF Incidents
    <3>2. cooling[key] = 0
      BY <1>4, <2>1
    <3> QED BY <3>1, <3>2 DEF ShouldEmit, InCooldown
  <2>2. ASSUME NEW i \in 1..MaxHistory, history[i].key = key
        PROVE  ShouldEmit(key, t) <=> cooling[key] = 0
    <3>1. cooling[key]
             = IF Within(t, history[i].last, config.cooldown) THEN history[i].last ELSE 0
      BY <1>4, <2>2
    <3>2. Within(t, history[i].last, config.cooldown)
             => history[i].last # 0 /\ config.cooldown # 0
      BY <1>1 DEF Within
    <3> QED BY <1>3, <2>2, <3>1, <3>2 DEF ShouldEmit
  <2> QED BY <2>1, <2>2
<1>7. CASE ShouldEmit(key, t) /\ config.cooldown > 0 /\ room
  <2>1. Incidents(key) # {} \/ Reusable(t) # {}
    BY <1>1, <1>2, <1>7 DEF Reusable
  <2>2. ~InCooldown(key, t) /\ config.cooldown # 0
    BY <1>1, <1>7 DEF ShouldEmit
  <2>3. PICK i \in 1..MaxHistory :
            /\ after = [history EXCEPT ![i] = [key |-> key, last |-> t]]
            /\ history[i].key = key \/ ~Within(t, history[i].last, config.cooldown)
    BY <2>1, <2>2, HistoryStep
  <2> HIDE DEF after
  <2>4. /\ after[i] = [key |-> key, last |-> t]
        /\ \A j \in 1..MaxHistory : j # i => after[j] = history[j]
    BY <1>1, <2>3
  <2>5. BlankEntries(after)
    BY <1>1, <2>4 DEF BlankEntries
  <2>6. GoodHistory(after)
    BY <2>5, HistoryAfterGood DEF GoodHistory, after
  <2>7. ~Within(t, history[i].last, config.cooldown)
    BY <1>3, <2>2, <2>3
  <2>8. RecentAlerts(after, t, config.cooldown)[key] = t
    <3>1. Within(t, t, config.cooldown)
      BY <1>1, <2>2 DEF Within
    <3>2. after[i].key = key /\ after[i].last = t
      BY <2>4
    <3> QED BY <2>6, <3>1, <3>2, RecentOfIncident
  <2>9. ASSUME NEW k \in AlertKeys, k # key
        PROVE  RecentAlerts(after, t, config.cooldown)[k] = cooling[k]
    <3>1. CASE \E j \in 1..MaxHistory : j # i /\ history[j].key = k
      <4>1. PICK j \in 1..MaxHistory : j # i /\ history[j].key = k
        BY <3>1
      <4>2. after[j].key = k /\ after[j].last = history[j].last
        BY <2>4, <4>1
      <4>3. cooling[k] = IF Within(t, history[j].last, config.cooldown) THEN history[j].last ELSE 0
        BY <1>4, <4>1
      <4>4. RecentAlerts(after, t, config.cooldown)[k]
               = IF Within(t, after[j].last, config.cooldown) THEN after[j].last ELSE 0
        BY <2>6, <4>2, RecentOfIncident
      <4> QED BY <4>2, <4>3, <4>4
    <3>2. CASE \A j \in 1..MaxHistory : j # i => history[j].key # k
      <4>1. \A j \in 1..MaxHistory : after[j].key # k
        BY <2>4, <2>9, <3>2
      <4>2. RecentAlerts(after, t, config.cooldown)[k] = 0
        BY <2>6, <4>1, RecentOfIncident
      <4>3. cooling[k] = 0
        <5>1. CASE history[i].key = k
          BY <1>4, <2>7, <5>1
        <5>2. CASE history[i].key # k
          BY <1>4, <3>2, <5>2
        <5> QED BY <5>1, <5>2
      <4> QED BY <4>2, <4>3
    <3> QED BY <3>1, <3>2
  <2>10. RecentAlerts(after, t, config.cooldown)
            = [k \in AlertKeys |-> RecentAlerts(after, t, config.cooldown)[k]]
    BY DEF RecentAlerts
  <2>11. RecentAlerts(after, t, config.cooldown) = [cooling EXCEPT ![key] = t]
    BY <1>5, <2>8, <2>9, <2>10
  <2> QED BY <1>6, <1>7, <2>5, <2>11 DEF cooling, room, after
<1>8. CASE ~(ShouldEmit(key, t) /\ config.cooldown > 0 /\ room)
  <2>1. after = history
    <3>1. CASE ~ShouldEmit(key, t)
      BY <3>1 DEF ShouldEmit, HistoryAfter
    <3>2. CASE ~(config.cooldown > 0)
      BY <1>1, <3>2 DEF HistoryAfter
    <3>3. CASE ShouldEmit(key, t) /\ config.cooldown > 0 /\ ~room
      <4>1. \A i \in 1..MaxHistory : Within(t, history[i].last, config.cooldown)
        BY <1>2, <3>3
      <4>2. Reusable(t) = {}
        BY <1>1, <4>1 DEF Reusable
      <4>3. \A i \in 1..MaxHistory : history[i].key # key
        BY <1>1, <1>3, <3>3, <4>1 DEF ShouldEmit
      <4>4. Incidents(key) = {}
        BY <1>1, <4>3 DEF Incidents
      <4> QED BY <4>2, <4>4 DEF HistoryAfter
    <3> QED BY <1>8, <3>1, <3>2, <3>3
  <2> QED BY <1>6, <1>8, <2>1 DEF cooling, room
<1> QED BY <1>7, <1>8

\* What a call does to the history and says of the alert: the incident of the
\* rule that claimed is put to should_emit_alert.
LEMMA CallAlerts ==
    ASSUME IInv, NEW p \in Packets, NEW t \in Times, Detect(p, t)
    PROVE  LET key == Windows!IncidentOf(verdict'.by, p) IN
           IF verdict'.by = "none"
           THEN history' = history /\ ~verdict'.alert
           ELSE /\ key \in AlertKeys
                /\ history' = HistoryAfter(key, t)
                /\ verdict'.alert <=> ShouldEmit(key, t)
<1> USE DEF Windows!IncidentOf, Windows!PortRules
<1>1. /\ Windows!PairKey(p) = PairKey(p) /\ Windows!PortKey(p) = PortKey(p)
      /\ PairKey(p) \in FlowKeys /\ PortKey(p) \in FlowKeys
  BY SameInputs, PacketKeys
<1>2. ASSUME NEW rule \in Rules, NEW key \in FlowKeys, NEW evidence,
             Claim(rule, key, t, evidence)
      PROVE  /\ verdict'.by = rule /\ <<rule, key>> \in AlertKeys /\ rule # "none"
             /\ history' = HistoryAfter(<<rule, key>>, t)
             /\ verdict'.alert <=> ShouldEmit(<<rule, key>>, t)
  <2>1. <<rule, key>> \in AlertKeys /\ rule # "none"
    BY DEF AlertKeys, Rules
  <2>2. CASE ShouldEmit(<<rule, key>>, t)
    BY <1>2, <2>1, <2>2 DEF Claim
  <2>3. CASE ~ShouldEmit(<<rule, key>>, t)
    BY <1>2, <2>1, <2>3 DEF Claim, Nothing
  <2> QED BY <2>2, <2>3
<1>3. CASE RaiseSynFlood(p, t)
  BY <1>1, <1>2, <1>3 DEF RaiseSynFlood, Rules
<1>4. CASE RaisePortScan(p, t)
  BY <1>1, <1>2, <1>4 DEF RaisePortScan, Rules
<1>5. CASE RaiseIcmpFlood(p, t)
  BY <1>1, <1>2, <1>5 DEF RaiseIcmpFlood, Rules
<1>6. CASE RaiseSuspiciousPort(p, t)
  BY <1>1, <1>2, <1>6 DEF RaiseSuspiciousPort, Rules
<1>7. CASE RaiseIcmpEcho(p, t)
  BY <1>1, <1>2, <1>7 DEF RaiseIcmpEcho, Rules
<1>8. CASE RaiseSynWatch(p, t)
  BY <1>1, <1>2, <1>8 DEF RaiseSynWatch, Rules
<1>9. CASE NoRule(p, t)
  BY <1>9 DEF NoRule, Nothing
<1> QED BY <1>3, <1>4, <1>5, <1>6, <1>7, <1>8, <1>9 DEF Detect

LEMMA CooldownImplemented ==
    ASSUME IInv, BlankEntries(history), NEW p \in Packets, NEW t \in Times, t >= clock,
           Detect(p, t), verdict'.by = Windows!Answer(p)
    PROVE  Windows!AskCooldown(p, t) /\ BlankEntries(history')
<1> DEFINE key     == Windows!IncidentOf(verdict'.by, p)
           cooling == RecentAlerts(history, t, config.cooldown)
<1>0. verdict'.alert \in BOOLEAN
  <2>1. IInv'
    BY DetectIInv
  <2>2. verdict' \in VerdictType
    BY <2>1 DEF IInv, TypeOK, VerdictType
  <2> QED BY <2>2 DEF VerdictType
<1>1. config' = config /\ clock' = t
  BY DEF Detect
<1>2. Windows!Cooling(t) = cooling
  <2>1. GoodHistory(history) /\ clock \in Nat /\ t \in Nat /\ config.cooldown \in Nat
    BY HistoryFacts, ClockIsNat, Numbers DEF GoodHistory
  <2>2. \A k \in AlertKeys : cooling[k]
           = IF /\ RecentAlerts(history, clock, config.cooldown)[k] # 0
                /\ t <= RecentAlerts(history, clock, config.cooldown)[k] + config.cooldown
             THEN RecentAlerts(history, clock, config.cooldown)[k] ELSE 0
    BY <2>1, RecentAges
  <2>3. cooling = [k \in AlertKeys |-> cooling[k]]
    BY DEF RecentAlerts
  <2>4. Windows!AlertKeys = AlertKeys
    BY SameInputs
  <2> HIDE DEF cooling
  <2> QED BY <2>2, <2>3, <2>4 DEF Windows!Cooling
<1>3. CASE verdict'.by = "none"
  <2>1. history' = history /\ ~verdict'.alert
    BY <1>3, CallAlerts
  <2> HIDE DEF cooling
  <2>2. RecentAlerts(history', clock', config'.cooldown) = cooling
    BY <1>1, <2>1 DEF cooling
  <2> QED BY <1>0, <1>2, <1>3, <2>1, <2>2 DEF Windows!AskCooldown
<1>4. CASE verdict'.by # "none"
  <2>1. /\ key \in AlertKeys
        /\ history' = HistoryAfter(key, t)
        /\ verdict'.alert <=> ShouldEmit(key, t)
    BY <1>4, CallAlerts
  <2> HIDE DEF key
  <2>2. /\ BlankEntries(history')
        /\ ShouldEmit(key, t) <=> cooling[key] = 0
        /\ RecentAlerts(history', t, config.cooldown)
              = IF /\ ShouldEmit(key, t) /\ config.cooldown > 0
                   /\ Cardinality(Windows!Held(cooling)) < MaxHistory
                THEN [cooling EXCEPT ![key] = t] ELSE cooling
    BY <2>1, AlertRemembered
  <2> HIDE DEF cooling
  <2>3. verdict'.alert = (cooling[key] = 0)
    BY <1>0, <2>1, <2>2
  <2>4. key = Windows!IncidentOf(Windows!Answer(p), p)
    BY DEF key
  <2>5. RecentAlerts(history', clock', config'.cooldown)
           = IF verdict'.alert /\ config.cooldown > 0
                  /\ Windows!Cardinality(Windows!Held(cooling)) < MaxHistory
             THEN [cooling EXCEPT ![key] = t] ELSE cooling
    BY <1>1, <2>1, <2>2, SameCardinality
  <2> QED BY <1>2, <1>4, <2>2, <2>3, <2>4, <2>5 DEF Windows!AskCooldown
<1> QED BY <1>3, <1>4

\* One call of detect_packet is one step of WindowRules.
LEMMA CallImplemented ==
    ASSUME IInv, BlankEntries(history),
           NEW p \in Packets, NEW t \in Times, t >= clock, Detect(p, t)
    PROVE  Windows!Look(p, t) /\ BlankEntries(history')
<1>1. /\ config' = config /\ clock' = t
      /\ synTable' = SynAfter(p, t)
      /\ scanTable' = IF SynClaims(p, t) THEN scanTable ELSE ScanAfter(p, t)
      /\ icmpTable' = IcmpAfter(p, t)
  BY CallShape
<1>2. Windows!AskSynFlood(p, t) /\ (Windows!SynFlood(p) <=> SynClaims(p, t))
  BY <1>1, SynImplemented, SameInputs
     DEF Windows!AskSynFlood, Windows!SynFlood, SynLooksAt, SynMemory
<1>3. Windows!AskIcmpFlood(p, t) /\ (Windows!IcmpFlood(p) <=> IcmpClaims(p, t))
  BY <1>1, IcmpImplemented, SameInputs
     DEF Windows!AskIcmpFlood, Windows!IcmpFlood, IcmpLooksAt, IcmpMemory
<1>4. /\ Windows!AskPortScan(p, t)
      /\ Windows!PortScan(p) <=> ~SynClaims(p, t) /\ ScanClaims(p, t)
  BY <1>1, <1>2, ScanImplemented, SameInputs
     DEF Windows!AskPortScan, Windows!PortScan, ScanLooksAt, ScanMemory
<1>5. verdict'.by = Windows!Answer(p)
  <2>1. SuspiciousClaims(p)
           <=> config.suspiciousPort /\ Windows!IsTcpOrUdp(p) /\ p.port \in RiskyPorts
    BY SameInputs DEF SuspiciousClaims
  <2>2. EchoClaims(p) <=> config.icmpEcho /\ Windows!IsEchoRequest(p)
    BY SameInputs DEF EchoClaims
  <2>3. WatchClaims(p) /\ ~SuspiciousClaims(p)
           <=> /\ config.synWatch /\ Windows!IsTcpSynWithoutAck(p)
               /\ ~(config.suspiciousPort /\ p.port \in RiskyPorts)
    BY SameInputs DEF WatchClaims, SuspiciousClaims, IsTcpOrUdp, IsTcpSynWithoutAck
  <2>4. verdict'.by =
            CASE SynClaims(p, t)                        -> "SYN Flood"
              [] ~SynClaims(p, t) /\ ScanClaims(p, t)   -> "Port Scan"
              [] IcmpClaims(p, t)                       -> "ICMP Flood"
              [] OTHER -> CASE SuspiciousClaims(p)      -> "Suspicious Port"
                            [] EchoClaims(p)            -> "ICMP Echo Request"
                            [] WatchClaims(p) /\ ~SuspiciousClaims(p) -> "TCP SYN Watch"
                            [] OTHER                    -> "none"
    BY CallShape
  <2>5. /\ SuspiciousClaims(p) => p.proto \in {"TCP", "UDP"}
        /\ EchoClaims(p) => p.proto = "ICMP"
        /\ SynClaims(p, t) => p.proto = "TCP"
        /\ ScanClaims(p, t) => p.proto \in {"TCP", "UDP"}
        /\ IcmpClaims(p, t) => p.proto = "ICMP"
        /\ WatchClaims(p) => p.proto = "TCP"
    BY DEF SuspiciousClaims, EchoClaims, WatchClaims, SynClaims, ScanClaims, IcmpClaims,
           SynLooksAt, ScanLooksAt, IcmpLooksAt, IsTcpOrUdp, IsTcpSynWithoutAck, IsEchoRequest
  <2>6. CASE SynClaims(p, t)
    <3>1. verdict'.by = "SYN Flood"
      BY <2>4, <2>5, <2>6
    <3>2. /\ Windows!SynFlood(p)
          /\ ~Windows!PortScan(p)
          /\ ~Windows!IcmpFlood(p)
      BY <1>2, <1>3, <1>4, <2>5, <2>6
    <3> QED BY <3>1, <3>2 DEF Windows!Answer
  <2>7. CASE ~SynClaims(p, t) /\ ScanClaims(p, t)
    <3>1. verdict'.by = "Port Scan"
      BY <2>4, <2>5, <2>7
    <3>2. /\ ~Windows!SynFlood(p)
          /\ Windows!PortScan(p)
          /\ ~Windows!IcmpFlood(p)
      BY <1>2, <1>3, <1>4, <2>5, <2>7
    <3> QED BY <3>1, <3>2 DEF Windows!Answer
  <2>8. CASE IcmpClaims(p, t)
    <3>1. verdict'.by = "ICMP Flood"
      BY <2>4, <2>5, <2>8
    <3>2. /\ ~Windows!SynFlood(p)
          /\ ~Windows!PortScan(p)
          /\ Windows!IcmpFlood(p)
      BY <1>2, <1>3, <1>4, <2>5, <2>8
    <3> QED BY <3>1, <3>2 DEF Windows!Answer
  <2>9. CASE ~SynClaims(p, t) /\ ~ScanClaims(p, t) /\ ~IcmpClaims(p, t)
    <3>1. ~Windows!SynFlood(p) /\ ~Windows!PortScan(p) /\ ~Windows!IcmpFlood(p)
      BY <1>2, <1>3, <1>4, <2>9
    <3>2. CASE SuspiciousClaims(p)
      BY <2>1, <2>2, <2>3, <2>4, <2>5, <2>9, <3>1, <3>2 DEF Windows!Answer
    <3>3. CASE ~SuspiciousClaims(p) /\ EchoClaims(p)
      BY <2>1, <2>2, <2>3, <2>4, <2>5, <2>9, <3>1, <3>3 DEF Windows!Answer
    <3>4. CASE ~SuspiciousClaims(p) /\ ~EchoClaims(p) /\ WatchClaims(p)
      BY <2>1, <2>2, <2>3, <2>4, <2>5, <2>9, <3>1, <3>4 DEF Windows!Answer
    <3>5. CASE ~SuspiciousClaims(p) /\ ~EchoClaims(p) /\ ~WatchClaims(p)
      BY <2>1, <2>2, <2>3, <2>4, <2>5, <2>9, <3>1, <3>5 DEF Windows!Answer
    <3> QED BY <3>2, <3>3, <3>4, <3>5
  <2> QED BY <2>6, <2>7, <2>8, <2>9
<1>6. Windows!AskCooldown(p, t) /\ BlankEntries(history')
  BY <1>5, CooldownImplemented
<1> QED BY <1>1, <1>2, <1>3, <1>4, <1>5, <1>6 DEF Windows!Look

LEMMA InitImplemented == Init => Windows!Init /\ BlankEntries(history)
<1> SUFFICES ASSUME Init PROVE Windows!Init /\ BlankEntries(history)
  OBVIOUS
<1>1. ASSUME NEW cells, NEW window, NEW k \in FlowKeys
      PROVE  Memory(EmptyTable(MaxHosts, cells), cells, 0, window)[k] = NoMarks(cells)
  <2>1. SlotsOf(EmptyTable(MaxHosts, cells), k) = {}
    BY Numbers DEF SlotsOf, EmptyTable, FreeSlot
  <2> QED BY <2>1 DEF Memory
<1>2. ASSUME NEW cells, NEW window
      PROVE  Memory(EmptyTable(MaxHosts, cells), cells, 0, window) = Windows!Nowhere(cells)
  BY <1>1, SameInputs DEF Memory, Windows!Nowhere, NoMarks
<1>3. BlankEntries(history)
  BY DEF Init, Unused, BlankEntries
<1>4. RecentAlerts(history, clock, config.cooldown) = [k \in Windows!AlertKeys |-> 0]
  <2>1. \A i \in DOMAIN history : history[i].last = 0
    BY DEF Init, Unused
  <2>2. \A i \in DOMAIN history : ~Within(clock, history[i].last, config.cooldown)
    BY <2>1 DEF Within
  <2> QED BY <2>2, SameInputs DEF RecentAlerts
<1> QED BY <1>2, <1>3, <1>4, SameInputs DEF Init, Windows!Init, Nothing

\* Packets in order: Detector implements WindowRules.  However slots are
\* freed, reused and left uncompacted, every rule claims exactly the packets
\* it would with one exact memory per flow; and whatever entries of the history
\* were taken over, exactly the claims alert that are not in cooldown.
THEOREM RulesAreImplemented == OrderedSpec => RulesImplemented
<1> DEFINE RInv == IInv /\ BlankEntries(history)
<1>1. RInv /\ [OrderedNext]_vars => RInv' /\ [Windows!Next]_Windows!vars
  <2> SUFFICES ASSUME IInv, BlankEntries(history), [OrderedNext]_vars
               PROVE  RInv' /\ [Windows!Next]_Windows!vars
    OBVIOUS
  <2>1. CASE OrderedNext
    <3>1. PICK p \in Packets, t \in Times : t >= clock /\ Detect(p, t)
      BY <2>1 DEF OrderedNext
    <3>2. Windows!Look(p, t) /\ BlankEntries(history')
      BY <3>1, CallImplemented
    <3>3. IInv'
      BY <3>1, DetectIInv
    <3>4. BlankEntries(history)'
      BY <3>2 DEF BlankEntries
    <3> QED BY <3>2, <3>3, <3>4 DEF Windows!Next
  <2>2. CASE UNCHANGED vars
    <3>1. IInv'
      BY <2>2, StutterIInv
    <3> QED BY <2>2, <3>1 DEF vars, Windows!vars, Memory, RecentAlerts, BlankEntries
  <2> QED BY <2>1, <2>2
<1>2. Init => RInv
  BY InitIInv, InitImplemented
<1> QED BY InitImplemented, <1>1, <1>2, PTL DEF OrderedSpec, RulesImplemented, Windows!Spec
=============================================================================
