-------------------------- MODULE TrackTableProofs --------------------------
(***************************************************************************)
(* Lemmas about the operators of TrackTable: what compaction, the search   *)
(* and the two remember_... functions preserve, for tables of any size.    *)
(***************************************************************************)
EXTENDS TrackTable, FunctionTheorems, FiniteSetTheorems, WellFoundedInduction, TLAPS

\* A nonempty set of naturals has a least element, and Least is it.
LEMMA LeastIsLeast ==
    ASSUME NEW S, S \subseteq Nat, S # {}
    PROVE  Least(S) \in S /\ \A y \in S : Least(S) <= y
<1>1. PICK x \in S : \A y \in S : ~(<<y, x>> \in OpToRel(<, Nat))
  BY NatLessThanWellFounded, WFMin, Zenon
<1>2. \A y \in S : ~(y < x)
  BY <1>1 DEF OpToRel
<1>3. \A y \in S : x <= y
  BY <1>2
<1> QED
  BY <1>3 DEF Least

\* Every prefix of a sequence of naturals, given as a function, is bounded.
LEMMA PrefixBounded ==
    ASSUME NEW n \in Nat, NEW f \in [1..n -> Nat]
    PROVE  \E m \in Nat : \A i \in 1..n : f[i] <= m
<1> DEFINE Bad == {k \in 0..n : ~ \E m \in Nat : \A i \in 1..k : f[i] <= m}
<1>1. SUFFICES ASSUME Bad # {} PROVE FALSE
  <2>1. n \in 0..n OBVIOUS
  <2> QED BY <2>1
<1>2. PICK k \in Bad : \A j \in Bad : k <= j
  <2>1. Bad \subseteq Nat OBVIOUS
  <2> HIDE DEF Bad
  <2> QED BY <1>1, <2>1, LeastIsLeast
<1>3. k # 0
  <2>1. \A i \in 1..0 : f[i] <= 0 OBVIOUS
  <2> QED BY <2>1
<1>4. k - 1 \in 0..n /\ k - 1 \notin Bad
  <2>1. k \in 0..n /\ k - 1 \in 0..n /\ ~(k <= k - 1)
    BY <1>3
  <2> QED BY <2>1, <1>2, Zenon
<1>5. PICK m \in Nat : \A i \in 1..(k - 1) : f[i] <= m
  BY <1>4
<1>6. k \in 1..n /\ f[k] \in Nat
  BY <1>3
<1>7. \A i \in 1..k : f[i] <= m + f[k]
  <2> TAKE i \in 1..k
  <2>1. CASE i = k BY <2>1, <1>6
  <2>2. CASE i # k
    <3>1. i \in 1..(k - 1) BY <2>2, <1>6
    <3> QED BY <3>1, <1>5, <1>6
  <2> QED BY <2>1, <2>2
<1>8. m + f[k] \in Nat BY <1>6
<1> QED BY <1>7, <1>8

\* A nonempty finite set of naturals has a greatest element, and Greatest is
\* it.
LEMMA GreatestIsGreatest ==
    ASSUME NEW S, S \subseteq Nat, S # {}, IsFiniteSet(S)
    PROVE  Greatest(S) \in S /\ \A y \in S : y <= Greatest(S)
<1>1. PICK n \in Nat : \E f \in Bijection(1..n, S) : TRUE
  <2>1. Cardinality(S) \in Nat /\ ExistsBijection(1..Cardinality(S), S)
    BY FS_CardinalityType
  <2> QED BY <2>1 DEF ExistsBijection
<1>2. PICK f \in [1..n -> Nat] : \A x \in S : \E i \in 1..n : f[i] = x
  BY <1>1 DEF Bijection, Surjection
<1>3. PICK m \in Nat : \A i \in 1..n : f[i] <= m
  BY <1>2, PrefixBounded
<1>4. \A x \in S : x <= m
  BY <1>2, <1>3
<1> DEFINE Gaps == {m - x : x \in S}
<1>5. Gaps \subseteq Nat /\ Gaps # {}
  <2>1. \A x \in S : x \in Nat /\ m - x \in Nat
    BY <1>4
  <2>2. PICK x \in S : TRUE OBVIOUS
  <2>3. m - x \in Gaps BY <2>2
  <2> QED BY <2>1, <2>3
<1>6. PICK x \in S : \A y \in S : m - x <= m - y
  <2>1. Least(Gaps) \in Gaps /\ \A g \in Gaps : Least(Gaps) <= g
    <3> HIDE DEF Gaps
    <3> QED BY <1>5, LeastIsLeast
  <2> QED BY <2>1
<1>7. \A y \in S : y <= x
  BY <1>6
<1> QED BY <1>7 DEF Greatest

-----------------------------------------------------------------------------
(* Marks.                                                                  *)

MarksType(cells, times) == [cells -> times \cup {0}]

LEMMA FreshType ==
    ASSUME NEW cells, NEW times, NEW marks \in MarksType(cells, times),
           NEW now, NEW window
    PROVE  /\ Fresh(marks, now, window) \in MarksType(cells, times)
           /\ \A c \in Stamped(Fresh(marks, now, window)) :
                 Within(now, Fresh(marks, now, window)[c], window)
BY DEF Fresh, MarksType, Stamped

\* What remember_event leaves: the marks it was given and at most one more,
\* the new event; and never an empty array.
LEMMA RememberEventType ==
    ASSUME NEW n \in Nat \ {0}, NEW times, 0 \notin times, NEW now \in times,
           NEW marks \in MarksType(1..n, times)
    PROVE  /\ RememberEvent(marks, now) \in MarksType(1..n, times)
           /\ Stamped(RememberEvent(marks, now)) # {}
           /\ \A c \in Stamped(RememberEvent(marks, now)) :
                 \/ RememberEvent(marks, now)[c] = now
                 \/ /\ c \in Stamped(marks)
                    /\ RememberEvent(marks, now)[c] = marks[c]
<1> DEFINE empty == DOMAIN marks \ Stamped(marks)
<1>1. DOMAIN marks = 1..n
  BY DEF MarksType
<1>2. CASE empty = {}
  <2>1. RememberEvent(marks, now) = marks
    BY <1>2 DEF RememberEvent
  <2>2. 1 \in Stamped(marks)
    BY <1>1, <1>2
  <2> QED BY <2>1, <2>2
<1>3. CASE empty # {}
  <2>1. Least(empty) \in 1..n
    <3>1. empty \subseteq Nat BY <1>1
    <3>2. Least(empty) \in empty BY <3>1, <1>3, LeastIsLeast
    <3> QED BY <3>2, <1>1
  <2>2. RememberEvent(marks, now) = [marks EXCEPT ![Least(empty)] = now]
    BY <1>3 DEF RememberEvent
  <2>3. [marks EXCEPT ![Least(empty)] = now] \in MarksType(1..n, times)
    BY <2>1 DEF MarksType
  <2>4. now # 0 OBVIOUS
  <2> HIDE DEF empty
  <2> QED BY <2>1, <2>2, <2>3, <2>4 DEF MarksType, Stamped
<1> QED BY <1>2, <1>3

\* The same of remember_unique_port, which also keeps to its limit.
LEMMA RememberPortType ==
    ASSUME NEW ports, IsFiniteSet(ports), NEW times, 0 \notin times,
           NEW now \in times, NEW marks \in MarksType(ports, times),
           NEW port \in ports, NEW limit \in Nat \ {0},
           Count(marks) <= limit
    PROVE  /\ RememberPort(marks, port, now, limit) \in MarksType(ports, times)
           /\ Stamped(RememberPort(marks, port, now, limit)) # {}
           /\ Count(RememberPort(marks, port, now, limit)) <= limit
           /\ \A c \in Stamped(RememberPort(marks, port, now, limit)) :
                 \/ RememberPort(marks, port, now, limit)[c] = now
                 \/ /\ c \in Stamped(marks)
                    /\ RememberPort(marks, port, now, limit)[c] = marks[c]
<1> DEFINE kept == [marks EXCEPT ![port] = now]
<1>1. Stamped(marks) \subseteq ports /\ IsFiniteSet(Stamped(marks))
  <2>1. Stamped(marks) \in SUBSET ports BY DEF Stamped, MarksType
  <2> QED BY <2>1, FS_Subset
<1>2. Count(marks) \in Nat
  BY <1>1, FS_CardinalityType DEF Count
<1>3. CASE ~(marks[port] # 0 \/ Count(marks) < limit)
  <2>1. RememberPort(marks, port, now, limit) = marks
    BY <1>3 DEF RememberPort
  <2>2. Count(marks) # 0
    BY <1>3, <1>2
  <2>3. Stamped(marks) # {}
    BY <2>2, FS_EmptySet DEF Count
  <2> QED BY <2>1, <2>3
<1>4. CASE marks[port] # 0 \/ Count(marks) < limit
  <2>1. RememberPort(marks, port, now, limit) = kept
    BY <1>4 DEF RememberPort
  <2>2. kept \in MarksType(ports, times) /\ now # 0
    BY DEF MarksType
  <2>3. Stamped(kept) = Stamped(marks) \cup {port}
    BY <2>2 DEF Stamped, MarksType
  <2>4. Count(kept) <= limit
    <3>1. Cardinality(Stamped(marks) \cup {port}) =
              IF port \in Stamped(marks) THEN Count(marks) ELSE Count(marks) + 1
      BY <1>1, FS_AddElement DEF Count
    <3>2. port \in Stamped(marks) <=> marks[port] # 0
      BY DEF Stamped, MarksType
    <3>3. Count(kept) = Cardinality(Stamped(marks) \cup {port})
      BY <2>3 DEF Count
    <3> HIDE DEF kept
    <3> QED BY <3>1, <3>2, <3>3, <1>2, <1>4
  <2>5. \A c \in Stamped(kept) :
           kept[c] = now \/ (c \in Stamped(marks) /\ kept[c] = marks[c])
    BY <2>3, <1>1 DEF MarksType
  <2> QED BY <2>1, <2>2, <2>3, <2>4, <2>5
<1> QED BY <1>3, <1>4

\* The bounds an alert reports are times of remembered events.
LEMMA SeenBounds ==
    ASSUME NEW cells, IsFiniteSet(cells), NEW times, times \subseteq Nat \ {0},
           NEW marks \in MarksType(cells, times), Stamped(marks) # {}
    PROVE  /\ FirstSeen(marks) \in SeenTimes(marks)
           /\ LastSeen(marks) \in SeenTimes(marks)
           /\ FirstSeen(marks) <= LastSeen(marks)
           /\ SeenTimes(marks) \subseteq times
           /\ Count(marks) \in Nat
<1>1. SeenTimes(marks) \subseteq times /\ SeenTimes(marks) # {}
  BY DEF SeenTimes, Stamped, MarksType
<1>2. IsFiniteSet(Stamped(marks))
  <2>1. Stamped(marks) \in SUBSET cells BY DEF Stamped, MarksType
  <2> QED BY <2>1, FS_Subset
<1>3. IsFiniteSet(SeenTimes(marks))
  <2> DEFINE f == [c \in Stamped(marks) |-> marks[c]]
  <2>1. f \in Surjection(Stamped(marks), SeenTimes(marks))
    BY DEF Surjection, SeenTimes
  <2> HIDE DEF f
  <2> QED BY <2>1, <1>2, FS_Surjection
<1>4. /\ Least(SeenTimes(marks)) \in SeenTimes(marks)
      /\ \A y \in SeenTimes(marks) : Least(SeenTimes(marks)) <= y
  BY <1>1, LeastIsLeast
<1>5. Greatest(SeenTimes(marks)) \in SeenTimes(marks)
  <2>1. SeenTimes(marks) \subseteq Nat BY <1>1
  <2> QED BY <2>1, <1>1, <1>3, GreatestIsGreatest
<1>6. Count(marks) \in Nat
  BY <1>2, FS_CardinalityType DEF Count
<1> QED BY <1>1, <1>4, <1>5, <1>6 DEF FirstSeen, LastSeen

-----------------------------------------------------------------------------
(* Slots and tables.                                                       *)

\* What every operation on a table preserves.
GoodTable(table, size, cells, times, keys) ==
    /\ table \in [1..size -> Slot(cells, times, keys)]
    /\ OneSlotPerKey(table)
    /\ \A i \in 1..size : SlotInUse(table[i])

LEMMA EmptyTableGood ==
    ASSUME NEW size \in Nat, NEW cells, NEW times, NEW keys
    PROVE  GoodTable(EmptyTable(size, cells), size, cells, times, keys)
<1>1. FreeSlot(cells) \in Slot(cells, times, keys) /\ SlotInUse(FreeSlot(cells))
  BY DEF FreeSlot, Slot, SlotInUse, Stamped, NoMarks
<1>2. FreeSlot(cells).key = NoKey
  BY DEF FreeSlot
<1> HIDE DEF SlotInUse
<1> QED BY <1>1, <1>2 DEF GoodTable, EmptyTable, OneSlotPerKey

LEMMA CompactedType ==
    ASSUME NEW cells, NEW times, NEW keys, NEW slot \in Slot(cells, times, keys),
           SlotInUse(slot), NEW now, NEW window
    PROVE  /\ Compacted(slot, now, window) \in Slot(cells, times, keys)
           /\ SlotInUse(Compacted(slot, now, window))
           /\ Compacted(slot, now, window).key \in {slot.key, NoKey}
           /\ \A c \in Stamped(Compacted(slot, now, window).marks) :
                 /\ Within(now, Compacted(slot, now, window).marks[c], window)
                 /\ c \in Stamped(slot.marks)
                 /\ Compacted(slot, now, window).marks[c] = slot.marks[c]
<1> DEFINE fresh == Fresh(slot.marks, now, window)
<1>1. /\ slot.marks \in MarksType(cells, times)
      /\ slot.key \in keys \cup {NoKey}
      /\ slot = [key |-> slot.key, marks |-> slot.marks]
  BY DEF Slot, MarksType
<1>2. /\ fresh \in MarksType(cells, times)
      /\ \A c \in Stamped(fresh) : Within(now, fresh[c], window)
  BY <1>1, FreshType
<1>3. \A c \in Stamped(fresh) : c \in Stamped(slot.marks) /\ fresh[c] = slot.marks[c]
  BY <1>1 DEF Fresh, Stamped, MarksType
<1> HIDE DEF fresh
<1>4. CASE Stamped(fresh) = {}
  <2>1. Compacted(slot, now, window) = FreeSlot(cells)
    BY <1>4, <1>1 DEF Compacted, fresh, MarksType
  <2> QED BY <2>1 DEF FreeSlot, Slot, SlotInUse, Stamped, NoMarks
<1>5. CASE Stamped(fresh) # {}
  <2>1. Compacted(slot, now, window) = [key |-> slot.key, marks |-> fresh]
    BY <1>5, <1>1 DEF Compacted, fresh
  <2>2. slot.key # NoKey
    <3>1. Stamped(slot.marks) # {} BY <1>5, <1>3
    <3> QED BY <3>1 DEF SlotInUse
  <2>3. SlotInUse(Compacted(slot, now, window))
    BY <2>1, <2>2, <1>5 DEF SlotInUse
  <2>4. Compacted(slot, now, window) \in Slot(cells, times, keys)
    BY <2>1, <1>1, <1>2 DEF Slot, MarksType
  <2> QED BY <2>1, <2>3, <2>4, <1>2, <1>3
<1> QED BY <1>4, <1>5

\* The search leaves a good table: it frees slots and drops old events, and
\* what it answers with is free of events outside the window.
LEMMA SweptGood ==
    ASSUME NEW size \in Nat, NEW cells, NEW times, NEW keys, NEW table,
           GoodTable(table, size, cells, times, keys),
           NEW key, key # NoKey, NEW now, NEW window
    PROVE  /\ GoodTable(Swept(table, key, now, window), size, cells, times, keys)
           /\ \A i \in SlotsOf(Swept(table, key, now, window), key) :
                 LET marks == Swept(table, key, now, window)[i].marks IN
                 \A c \in Stamped(marks) : Within(now, marks[c], window)
           /\ \A i \in 1..size : \A c \in Stamped(Swept(table, key, now, window)[i].marks) :
                 /\ c \in Stamped(table[i].marks)
                 /\ Swept(table, key, now, window)[i].marks[c] = table[i].marks[c]
           /\ SlotsOf(Swept(table, key, now, window), key) = {} =>
                 \A i \in 1..size : \A c \in Stamped(Swept(table, key, now, window)[i].marks) :
                    Within(now, Swept(table, key, now, window)[i].marks[c], window)
<1> DEFINE compacted == [i \in 1..size |-> Compacted(table[i], now, window)]
           hits == SlotsOf(compacted, key)
           swept == Swept(table, key, now, window)
<1>1. DOMAIN table = 1..size
  BY DEF GoodTable
<1>2. swept = [i \in 1..size |->
                  IF hits = {} \/ i <= Least(hits) THEN compacted[i] ELSE table[i]]
  BY <1>1 DEF Swept
<1>3. \A i \in 1..size :
         /\ table[i] \in Slot(cells, times, keys)
         /\ SlotInUse(table[i])
  BY DEF GoodTable
<1>4. \A i \in 1..size :
         /\ compacted[i] = Compacted(table[i], now, window)
         /\ compacted[i] \in Slot(cells, times, keys)
         /\ SlotInUse(compacted[i])
         /\ compacted[i].key \in {table[i].key, NoKey}
         /\ \A c \in Stamped(compacted[i].marks) :
               /\ Within(now, compacted[i].marks[c], window)
               /\ c \in Stamped(table[i].marks)
               /\ compacted[i].marks[c] = table[i].marks[c]
  BY <1>3, CompactedType
<1>5. hits \subseteq 1..size
  BY DEF SlotsOf
<1>6. hits # {} => Least(hits) \in hits
  <2>1. hits \subseteq Nat BY <1>5
  <2> HIDE DEF hits
  <2> QED BY <2>1, LeastIsLeast
<1>7. \A i \in hits : compacted[i].key = key /\ table[i].key = key
  BY <1>4, <1>5 DEF SlotsOf
<1> HIDE DEF compacted, hits
<1>8. \A i \in 1..size :
         /\ swept[i] \in {compacted[i], table[i]}
         /\ hits = {} => swept[i] = compacted[i]
         /\ hits # {} /\ i <= Least(hits) => swept[i] = compacted[i]
  BY <1>2
<1>9. swept \in [1..size -> Slot(cells, times, keys)] /\ DOMAIN swept = 1..size
  <2>1. \A i \in 1..size :
           (IF hits = {} \/ i <= Least(hits) THEN compacted[i] ELSE table[i])
              \in Slot(cells, times, keys)
    BY <1>3, <1>4
  <2> QED BY <1>2, <2>1
<1> HIDE DEF swept
<1>10. \A i \in 1..size : SlotInUse(swept[i]) /\ swept[i].key \in {table[i].key, NoKey}
  BY <1>8, <1>3, <1>4
<1>11. OneSlotPerKey(swept)
  <2> SUFFICES ASSUME NEW i \in 1..size, NEW j \in 1..size,
                      swept[i].key = swept[j].key, swept[i].key # NoKey
               PROVE  i = j
    BY <1>9 DEF OneSlotPerKey
  <2>1. table[i].key = table[j].key /\ table[i].key # NoKey
    BY <1>10
  <2> QED BY <2>1, <1>1 DEF GoodTable, OneSlotPerKey
<1>12. GoodTable(swept, size, cells, times, keys)
  BY <1>9, <1>10, <1>11 DEF GoodTable
<1>13. \A i \in 1..size : \A c \in Stamped(swept[i].marks) :
          c \in Stamped(table[i].marks) /\ swept[i].marks[c] = table[i].marks[c]
  BY <1>8, <1>4
<1>14. \A i \in SlotsOf(swept, key) :
          i \in 1..size /\ swept[i] = compacted[i]
  <2> TAKE i \in SlotsOf(swept, key)
  <2>1. i \in 1..size /\ swept[i].key = key
    BY <1>9 DEF SlotsOf
  <2>2. CASE hits = {} BY <2>1, <2>2, <1>8
  <2>3. CASE hits # {}
    <3>1. table[i].key = key BY <2>1, <1>10
    <3>2. Least(hits) \in 1..size /\ table[Least(hits)].key = key
      BY <2>3, <1>5, <1>6, <1>7
    <3>3. i = Least(hits)
      BY <3>1, <3>2, <2>1, <1>1 DEF GoodTable, OneSlotPerKey
    <3> QED BY <3>2, <3>3, <2>3, <1>8
  <2> QED BY <2>2, <2>3
<1>15. \A i \in SlotsOf(swept, key) : \A c \in Stamped(swept[i].marks) :
          Within(now, swept[i].marks[c], window)
  BY <1>14, <1>4
<1>16. SlotsOf(swept, key) = {} =>
          \A i \in 1..size : \A c \in Stamped(swept[i].marks) :
             Within(now, swept[i].marks[c], window)
  <2> SUFFICES ASSUME SlotsOf(swept, key) = {}
               PROVE  hits = {}
    BY <1>8, <1>4
  <2> SUFFICES ASSUME hits # {} PROVE FALSE
    OBVIOUS
  <2>1. Least(hits) \in 1..size /\ compacted[Least(hits)].key = key
    BY <1>5, <1>6, <1>7
  <2>2. swept[Least(hits)] = compacted[Least(hits)]
    BY <2>1, <1>8
  <2>3. Least(hits) \in SlotsOf(swept, key)
    BY <2>1, <2>2, <1>9 DEF SlotsOf
  <2> QED BY <2>3
<1> QED BY <1>12, <1>13, <1>15, <1>16 DEF swept

\* Writing the marks of a flow to the slot the search answered with.
LEMMA PutGood ==
    ASSUME NEW size \in Nat, NEW cells, NEW times, NEW keys, NEW swept,
           GoodTable(swept, size, cells, times, keys),
           NEW key \in keys, key # NoKey, Candidates(swept, key) # {},
           NEW marks \in MarksType(cells, times), Stamped(marks) # {},
           NEW table, table = Put(swept, Least(Candidates(swept, key)), key, marks)
    PROVE  /\ GoodTable(table, size, cells, times, keys)
           /\ SlotsOf(table, key) = {Least(Candidates(swept, key))}
           /\ table[Least(Candidates(swept, key))].marks = marks
           /\ Least(Candidates(swept, key)) \in Candidates(swept, key)
<1> DEFINE slot == Least(Candidates(swept, key))
           new  == [key |-> key, marks |-> marks]
<1>1. swept \in [1..size -> Slot(cells, times, keys)] /\ DOMAIN swept = 1..size
  BY DEF GoodTable
<1>2. Candidates(swept, key) \subseteq 1..size
  BY <1>1 DEF Candidates, SlotsOf
<1>3. slot \in Candidates(swept, key)
  <2>1. Candidates(swept, key) \subseteq Nat BY <1>2
  <2> QED BY <2>1, LeastIsLeast
<1>4. slot \in 1..size
  BY <1>2, <1>3
<1>5. \A i \in 1..size : i # slot => swept[i].key # key
  <2> SUFFICES ASSUME NEW i \in 1..size, swept[i].key = key PROVE i = slot
    OBVIOUS
  <2>1. i \in SlotsOf(swept, key) BY <1>1 DEF SlotsOf
  <2>2. slot \in SlotsOf(swept, key) BY <2>1, <1>3 DEF Candidates
  <2>3. swept[slot].key = key BY <2>2 DEF SlotsOf
  <2> QED BY <2>3, <1>1, <1>4 DEF GoodTable, OneSlotPerKey
<1> HIDE DEF slot
<1>6. new \in Slot(cells, times, keys) /\ new.key = key /\ new.marks = marks
  BY DEF Slot, MarksType
<1>7. SlotInUse(new)
  BY <1>6 DEF SlotInUse
<1> HIDE DEF new
<1>8. table = [swept EXCEPT ![slot] = new]
  BY DEF slot, new, Put
<1>9. /\ table \in [1..size -> Slot(cells, times, keys)]
      /\ DOMAIN table = 1..size
      /\ table[slot] = new
      /\ \A i \in 1..size : i # slot => table[i] = swept[i]
  BY <1>8, <1>1, <1>4, <1>6
<1>10. \A i \in 1..size : SlotInUse(table[i])
  BY <1>9, <1>7 DEF GoodTable
<1>11. OneSlotPerKey(table)
  <2> SUFFICES ASSUME NEW i \in 1..size, NEW j \in 1..size,
                      table[i].key = table[j].key, table[i].key # NoKey
               PROVE  i = j
    BY <1>9 DEF OneSlotPerKey
  <2>1. CASE i # slot /\ j # slot
    BY <2>1, <1>9, <1>1 DEF GoodTable, OneSlotPerKey
  <2>2. CASE i = slot \/ j = slot
    BY <2>2, <1>9, <1>5, <1>6
  <2> QED BY <2>1, <2>2
<1>12. SlotsOf(table, key) = {slot}
  BY <1>9, <1>4, <1>5, <1>6 DEF SlotsOf
<1> QED BY <1>3, <1>6, <1>9, <1>10, <1>11, <1>12 DEF GoodTable, slot

\* Every mark a tracking step leaves was there before or is the new event, and
\* the marks it counts for the flow of the packet lie in the window.
Marked(table, before, key, now, window) ==
    /\ \A i \in DOMAIN table : \A c \in Stamped(table[i].marks) :
          table[i].marks[c] = now \/ \E j \in DOMAIN before : \E d \in Stamped(before[j].marks) :
                                        table[i].marks[c] = before[j].marks[d]
    /\ \A i \in SlotsOf(table, key) : \A c \in Stamped(table[i].marks) :
          table[i].marks[c] = now \/ Within(now, table[i].marks[c], window)

LEMMA SweptMarked ==
    ASSUME NEW size \in Nat, NEW cells, NEW times, NEW keys, NEW table,
           GoodTable(table, size, cells, times, keys),
           NEW key, key # NoKey, NEW now, NEW window
    PROVE  Marked(Swept(table, key, now, window), table, key, now, window)
<1> DEFINE swept == Swept(table, key, now, window)
<1>1. DOMAIN table = 1..size
  BY DEF GoodTable
<1>2. DOMAIN swept = 1..size
  BY <1>1 DEF Swept
<1>3. \A i \in 1..size : \A c \in Stamped(swept[i].marks) :
         c \in Stamped(table[i].marks) /\ swept[i].marks[c] = table[i].marks[c]
  BY SweptGood
<1>4. \A i \in SlotsOf(swept, key) : \A c \in Stamped(swept[i].marks) :
         Within(now, swept[i].marks[c], window)
  BY SweptGood
<1> HIDE DEF swept
<1>5. Marked(swept, table, key, now, window)
  BY <1>1, <1>2, <1>3, <1>4 DEF Marked
<1> QED BY <1>5 DEF swept

\* Replacing the slot of the flow by what it held, and perhaps the new event.
LEMMA PutMarked ==
    ASSUME NEW size \in Nat, NEW cells, NEW times, NEW keys,
           NEW before, NEW swept, NEW table,
           GoodTable(swept, size, cells, times, keys),
           NEW key \in keys, key # NoKey, NEW now, NEW window,
           Marked(swept, before, key, now, window),
           NEW slot \in Candidates(swept, key), NEW marks,
           table = Put(swept, slot, key, marks),
           SlotsOf(table, key) = {slot},
           \A c \in Stamped(marks) :
              \/ marks[c] = now
              \/ c \in Stamped(swept[slot].marks) /\ marks[c] = swept[slot].marks[c]
    PROVE  Marked(table, before, key, now, window)
<1>1. DOMAIN swept = 1..size /\ DOMAIN table = 1..size
  BY DEF GoodTable, Put
<1>2. slot \in 1..size
  BY <1>1 DEF Candidates, SlotsOf
<1>3. /\ table[slot].marks = marks
      /\ \A i \in 1..size : i # slot => table[i] = swept[i]
  BY <1>1, <1>2 DEF Put
<1>4. ASSUME NEW c \in Stamped(marks), marks[c] # now
      PROVE  Within(now, marks[c], window)
  <2>1. c \in Stamped(swept[slot].marks) /\ marks[c] = swept[slot].marks[c]
    BY <1>4
  <2>2. swept[slot].key # NoKey
    BY <2>1, <1>2 DEF GoodTable, SlotInUse
  <2>3. slot \in SlotsOf(swept, key)
    BY <2>2 DEF Candidates, SlotsOf
  <2> QED BY <2>1, <2>3, <1>4 DEF Marked
<1>5. \A i \in SlotsOf(table, key) : \A c \in Stamped(table[i].marks) :
          table[i].marks[c] = now \/ Within(now, table[i].marks[c], window)
  BY <1>3, <1>4
<1>6. ASSUME NEW i \in 1..size, NEW c \in Stamped(table[i].marks), table[i].marks[c] # now
      PROVE  \E j \in DOMAIN before : \E d \in Stamped(before[j].marks) :
                table[i].marks[c] = before[j].marks[d]
  <2>1. c \in Stamped(swept[i].marks) /\ table[i].marks[c] = swept[i].marks[c]
    BY <1>3, <1>6
  <2> QED BY <2>1, <1>1, <1>6 DEF Marked
<1> QED BY <1>1, <1>5, <1>6 DEF Marked

\* A flood rule's step on its table.
LEMMA TrackEventGood ==
    ASSUME NEW size \in Nat, NEW n \in Nat \ {0}, NEW times, 0 \notin times,
           NEW keys, NoKey \notin keys, NEW table,
           GoodTable(table, size, 1..n, times, keys),
           NEW key \in keys, NEW now \in times, NEW window
    PROVE  /\ GoodTable(TrackEvent(table, key, now, window), size, 1..n, times, keys)
           /\ Marked(TrackEvent(table, key, now, window), table, key, now, window)
<1> DEFINE swept == Swept(table, key, now, window)
           slot  == Least(Candidates(swept, key))
           marks == RememberEvent(swept[slot].marks, now)
<1>1. key # NoKey OBVIOUS
<1>2. /\ GoodTable(swept, size, 1..n, times, keys)
      /\ Marked(swept, table, key, now, window)
  BY <1>1, SweptGood, SweptMarked
<1>3. CASE Candidates(swept, key) = {}
  BY <1>2, <1>3 DEF TrackEvent
<1>4. CASE Candidates(swept, key) # {}
  <2>1. TrackEvent(table, key, now, window) = Put(swept, slot, key, marks)
    BY <1>4 DEF TrackEvent
  <2> HIDE DEF swept
  <2>2. slot \in Candidates(swept, key) /\ slot \in 1..size
    <3>1. Candidates(swept, key) \subseteq 1..size
      BY <1>2 DEF Candidates, SlotsOf, GoodTable
    <3>2. Candidates(swept, key) \subseteq Nat BY <3>1
    <3> QED BY <3>1, <3>2, <1>4, LeastIsLeast
  <2>3. swept[slot].marks \in MarksType(1..n, times)
    BY <2>2, <1>2 DEF GoodTable, Slot, MarksType
  <2>4. /\ marks \in MarksType(1..n, times)
        /\ Stamped(marks) # {}
        /\ \A c \in Stamped(marks) :
              \/ marks[c] = now
              \/ c \in Stamped(swept[slot].marks) /\ marks[c] = swept[slot].marks[c]
    BY <2>3, RememberEventType
  <2> HIDE DEF marks
  <2>5. /\ GoodTable(TrackEvent(table, key, now, window), size, 1..n, times, keys)
        /\ SlotsOf(TrackEvent(table, key, now, window), key) = {slot}
    BY <1>1, <1>2, <1>4, <2>1, <2>4, PutGood
  <2> HIDE DEF slot
  <2>6. Marked(TrackEvent(table, key, now, window), table, key, now, window)
    BY <1>1, <1>2, <2>1, <2>2, <2>4, <2>5, PutMarked
  <2> QED BY <2>5, <2>6
<1> QED BY <1>3, <1>4

\* No slot of the port table holds more than the limit.
PortsBounded(table, limit) == \A i \in DOMAIN table : Count(table[i].marks) <= limit

LEMMA FewerMarks ==
    ASSUME NEW cells, IsFiniteSet(cells), NEW times,
           NEW marks \in MarksType(cells, times), NEW fewer,
           Stamped(fewer) \subseteq Stamped(marks),
           NEW limit \in Nat, Count(marks) <= limit
    PROVE  Count(fewer) <= limit
<1>1. Stamped(marks) \in SUBSET cells
  BY DEF Stamped, MarksType
<1>2. IsFiniteSet(Stamped(marks))
  BY <1>1, FS_Subset
<1>3. /\ IsFiniteSet(Stamped(fewer))
      /\ Cardinality(Stamped(fewer)) <= Cardinality(Stamped(marks))
  <2>1. Stamped(fewer) \in SUBSET Stamped(marks) OBVIOUS
  <2> QED BY <1>2, <2>1, FS_Subset
<1>4. Cardinality(Stamped(fewer)) \in Nat /\ Cardinality(Stamped(marks)) \in Nat
  BY <1>2, <1>3, FS_CardinalityType
<1> QED BY <1>3, <1>4 DEF Count

\* The port scan rule's step on its table.
LEMMA TrackPortGood ==
    ASSUME NEW size \in Nat, NEW ports, IsFiniteSet(ports), NEW times, 0 \notin times,
           NEW keys, NoKey \notin keys, NEW table, NEW limit \in Nat \ {0},
           GoodTable(table, size, ports, times, keys), PortsBounded(table, limit),
           NEW key \in keys, NEW port \in ports, NEW now \in times, NEW window
    PROVE  LET after == TrackPort(table, key, port, now, window, limit) IN
           /\ GoodTable(after, size, ports, times, keys)
           /\ PortsBounded(after, limit)
           /\ Marked(after, table, key, now, window)
<1> DEFINE swept == Swept(table, key, now, window)
           slot  == Least(Candidates(swept, key))
           marks == RememberPort(swept[slot].marks, port, now, limit)
           after == TrackPort(table, key, port, now, window, limit)
<1>1. key # NoKey OBVIOUS
<1>2. /\ GoodTable(swept, size, ports, times, keys)
      /\ Marked(swept, table, key, now, window)
  BY <1>1, SweptGood, SweptMarked
<1>3. \A i \in 1..size : Stamped(swept[i].marks) \subseteq Stamped(table[i].marks)
  BY <1>1, SweptGood
<1>4. PortsBounded(swept, limit)
  <2> SUFFICES ASSUME NEW i \in 1..size PROVE Count(swept[i].marks) <= limit
    BY <1>2 DEF PortsBounded, GoodTable
  <2>1. table[i].marks \in MarksType(ports, times) /\ Count(table[i].marks) <= limit
    BY DEF GoodTable, PortsBounded, Slot, MarksType
  <2> HIDE DEF swept
  <2> QED BY <2>1, <1>3, FewerMarks
<1>5. CASE Candidates(swept, key) = {}
  BY <1>2, <1>4, <1>5 DEF TrackPort
<1>6. CASE Candidates(swept, key) # {}
  <2>1. after = Put(swept, slot, key, marks)
    BY <1>6 DEF TrackPort
  <2> HIDE DEF swept
  <2>2. slot \in Candidates(swept, key) /\ slot \in 1..size
    <3>1. Candidates(swept, key) \subseteq 1..size
      BY <1>2 DEF Candidates, SlotsOf, GoodTable
    <3>2. Candidates(swept, key) \subseteq Nat BY <3>1
    <3> QED BY <3>1, <3>2, <1>6, LeastIsLeast
  <2>3. swept[slot].marks \in MarksType(ports, times) /\ Count(swept[slot].marks) <= limit
    BY <2>2, <1>2, <1>4 DEF GoodTable, Slot, MarksType, PortsBounded
  <2>4. /\ marks \in MarksType(ports, times)
        /\ Stamped(marks) # {}
        /\ Count(marks) <= limit
        /\ \A c \in Stamped(marks) :
              \/ marks[c] = now
              \/ c \in Stamped(swept[slot].marks) /\ marks[c] = swept[slot].marks[c]
    BY <2>3, RememberPortType
  <2> HIDE DEF marks, after
  <2>5. /\ GoodTable(after, size, ports, times, keys)
        /\ SlotsOf(after, key) = {slot}
        /\ after[slot].marks = marks
    BY <1>1, <1>2, <1>6, <2>1, <2>4, PutGood
  <2> HIDE DEF slot
  <2>6. Marked(after, table, key, now, window)
    BY <1>1, <1>2, <2>1, <2>2, <2>4, <2>5, PutMarked
  <2>7. PortsBounded(after, limit)
    <3> SUFFICES ASSUME NEW i \in 1..size PROVE Count(after[i].marks) <= limit
      BY <2>5 DEF PortsBounded, GoodTable
    <3>1. CASE i = slot BY <3>1, <2>4, <2>5
    <3>2. CASE i # slot
      <4>1. after[i] = swept[i] BY <3>2, <2>1, <1>2 DEF GoodTable, Put
      <4> QED BY <4>1, <1>2, <1>4 DEF PortsBounded, GoodTable
    <3> QED BY <3>1, <3>2
  <2> QED BY <2>5, <2>6, <2>7 DEF after
<1> QED BY <1>5, <1>6

-----------------------------------------------------------------------------
(* What a tracking step may not take away.                                 *)

\* A slot with a live event survives compaction, with that event.
LEMMA CompactedKeepsLive ==
    ASSUME NEW cells, NEW times, NEW keys, NEW slot \in Slot(cells, times, keys),
           NEW now, NEW window, NEW c \in cells, Within(now, slot.marks[c], window)
    PROVE  /\ Compacted(slot, now, window).key = slot.key
           /\ Compacted(slot, now, window).marks[c] = slot.marks[c]
<1> DEFINE fresh == Fresh(slot.marks, now, window)
<1>1. DOMAIN slot.marks = cells /\ slot.marks[c] # 0
  BY DEF Slot, Within
<1>2. DOMAIN fresh = cells /\ fresh[c] = slot.marks[c]
  BY <1>1 DEF Fresh
<1>3. Stamped(fresh) # {}
  BY <1>1, <1>2 DEF Stamped
<1>4. Compacted(slot, now, window) = [slot EXCEPT !.marks = fresh]
  BY <1>3 DEF Compacted
<1> HIDE DEF fresh
<1> QED BY <1>2, <1>4 DEF Slot

LEMMA SweptKeepsLive ==
    ASSUME NEW size \in Nat, NEW cells, NEW times, NEW keys, NEW table,
           GoodTable(table, size, cells, times, keys),
           NEW key, NEW now, NEW window,
           NEW i \in 1..size, NEW c \in cells, Within(now, table[i].marks[c], window)
    PROVE  /\ Swept(table, key, now, window)[i].key = table[i].key
           /\ Swept(table, key, now, window)[i].marks[c] = table[i].marks[c]
<1>1. DOMAIN table = 1..size /\ table[i] \in Slot(cells, times, keys)
  BY DEF GoodTable
<1>2. Swept(table, key, now, window)[i] \in {Compacted(table[i], now, window), table[i]}
  BY <1>1 DEF Swept
<1>3. /\ Compacted(table[i], now, window).key = table[i].key
      /\ Compacted(table[i], now, window).marks[c] = table[i].marks[c]
  BY <1>1, CompactedKeepsLive
<1> QED BY <1>2, <1>3

\* New marks of a slot that lose none of the old ones.
Renews(marks, old, renewals) ==
    \A c \in Stamped(old) : marks[c] = old[c] \/ marks[c] \in renewals

\* The slot the search answers with is the flow's own or holds nothing, so
\* that writing to it takes no event from another flow.
LEMMA PutKeepsLive ==
    ASSUME NEW size \in Nat, NEW cells, NEW times, NEW keys, NEW swept,
           GoodTable(swept, size, cells, times, keys),
           NEW key, NEW slot \in Candidates(swept, key), NEW marks, NEW renewals,
           Renews(marks, swept[slot].marks, renewals),
           NEW i \in 1..size, NEW c \in cells, swept[i].marks[c] # 0
    PROVE  /\ Put(swept, slot, key, marks)[i].key = swept[i].key
           /\ \/ Put(swept, slot, key, marks)[i].marks[c] = swept[i].marks[c]
              \/ Put(swept, slot, key, marks)[i].marks[c] \in renewals
<1>1. DOMAIN swept = 1..size /\ swept[i] \in Slot(cells, times, keys)
  BY DEF GoodTable
<1>2. CASE i # slot
  BY <1>1, <1>2 DEF Put
<1>3. CASE i = slot
  <2>1. c \in Stamped(swept[i].marks)
    BY <1>1 DEF Stamped, Slot
  <2>2. swept[i].key # NoKey
    BY <2>1 DEF GoodTable, SlotInUse
  <2>3. swept[i].key = key
    BY <1>3, <2>2 DEF Candidates, SlotsOf
  <2>4. Put(swept, slot, key, marks)[i] = [key |-> key, marks |-> marks]
    BY <1>1, <1>3 DEF Put
  <2> QED BY <1>3, <2>1, <2>3, <2>4 DEF Renews
<1> QED BY <1>2, <1>3

\* remember_event writes to an entry that holds no event.
LEMMA RememberEventKeeps ==
    ASSUME NEW n \in Nat, NEW times, NEW marks \in MarksType(1..n, times), NEW now,
           NEW c \in Stamped(marks)
    PROVE  RememberEvent(marks, now)[c] = marks[c]
<1> DEFINE empty == DOMAIN marks \ Stamped(marks)
<1>1. CASE empty = {}
  BY <1>1 DEF RememberEvent
<1>2. CASE empty # {}
  <2>1. empty \subseteq Nat /\ c \notin empty
    BY DEF MarksType
  <2>2. RememberEvent(marks, now) = [marks EXCEPT ![Least(empty)] = now]
    BY <1>2 DEF RememberEvent
  <2> HIDE DEF empty
  <2>3. Least(empty) # c
    BY <1>2, <2>1, LeastIsLeast
  <2> QED BY <2>2, <2>3 DEF MarksType, Stamped
<1> QED BY <1>1, <1>2

\* remember_unique_port writes to the entry of the port only.
LEMMA RememberPortKeeps ==
    ASSUME NEW ports, NEW times, NEW marks \in MarksType(ports, times),
           NEW port, NEW now, NEW limit, NEW c \in Stamped(marks)
    PROVE  RememberPort(marks, port, now, limit)[c] \in {marks[c]} \cup {now}
BY DEF RememberPort, MarksType, Stamped

\* The two outcomes of a search: the flow is not remembered, or stored.
LEMMA SearchKeepsLive ==
    ASSUME NEW size \in Nat, NEW cells, NEW times, NEW keys, NEW table,
           GoodTable(table, size, cells, times, keys),
           NEW key, key # NoKey, NEW now, NEW window, NEW renewals,
           NEW swept, swept = Swept(table, key, now, window)
    PROVE  /\ LiveKept(table, swept, now, window, renewals)
           /\ \A slot \in Candidates(swept, key) : \A marks :
                 Renews(marks, swept[slot].marks, renewals) =>
                    LiveKept(table, Put(swept, slot, key, marks), now, window, renewals)
<1>1. DOMAIN table = 1..size /\ \A i \in 1..size : DOMAIN table[i].marks = cells
  BY DEF GoodTable, Slot
<1>2. GoodTable(swept, size, cells, times, keys)
  BY SweptGood
<1>3. \A i \in 1..size : \A c \in cells : Within(now, table[i].marks[c], window) =>
         swept[i].key = table[i].key /\ swept[i].marks[c] = table[i].marks[c]
  BY SweptKeepsLive
<1>4. ASSUME NEW slot \in Candidates(swept, key), NEW marks,
             Renews(marks, swept[slot].marks, renewals)
      PROVE  LiveKept(table, Put(swept, slot, key, marks), now, window, renewals)
  <2> DEFINE after == Put(swept, slot, key, marks)
  <2> SUFFICES ASSUME NEW i \in 1..size, NEW c \in cells, Within(now, table[i].marks[c], window)
               PROVE  /\ after[i].key = table[i].key
                      /\ after[i].marks[c] \in {table[i].marks[c]} \cup renewals
    BY <1>1 DEF LiveKept
  <2>1. swept[i].key = table[i].key /\ swept[i].marks[c] = table[i].marks[c]
    BY <1>3
  <2>2. swept[i].marks[c] # 0
    BY <2>1 DEF Within
  <2>3. /\ after[i].key = swept[i].key
        /\ after[i].marks[c] = swept[i].marks[c] \/ after[i].marks[c] \in renewals
    BY <1>2, <1>4, <2>2, PutKeepsLive
  <2> QED BY <2>1, <2>3
<1> QED BY <1>1, <1>3, <1>4 DEF LiveKept

LEMMA TrackEventKeepsLive ==
    ASSUME NEW size \in Nat, NEW n \in Nat, NEW times, NEW keys, NEW table,
           GoodTable(table, size, 1..n, times, keys),
           NEW key, key # NoKey, NEW now, NEW window
    PROVE  LiveKept(table, TrackEvent(table, key, now, window), now, window, {})
<1> DEFINE swept == Swept(table, key, now, window)
           slot  == Least(Candidates(swept, key))
<1>1. GoodTable(swept, size, 1..n, times, keys)
  BY SweptGood
<1>2. /\ LiveKept(table, swept, now, window, {})
      /\ \A s \in Candidates(swept, key) : \A marks : Renews(marks, swept[s].marks, {}) =>
            LiveKept(table, Put(swept, s, key, marks), now, window, {})
  BY SearchKeepsLive
<1> HIDE DEF swept
<1>3. CASE Candidates(swept, key) = {}
  BY <1>2, <1>3 DEF TrackEvent, swept
<1>4. CASE Candidates(swept, key) # {}
  <2>1. slot \in 1..size /\ slot \in Candidates(swept, key)
    <3>1. Candidates(swept, key) \subseteq 1..size /\ Candidates(swept, key) \subseteq Nat
      BY <1>1 DEF Candidates, SlotsOf, GoodTable
    <3> QED BY <3>1, <1>4, LeastIsLeast
  <2>2. swept[slot].marks \in MarksType(1..n, times)
    BY <1>1, <2>1 DEF GoodTable, Slot, MarksType
  <2>3. Renews(RememberEvent(swept[slot].marks, now), swept[slot].marks, {})
    BY <2>2, RememberEventKeeps DEF Renews
  <2> QED BY <1>2, <1>4, <2>1, <2>3 DEF TrackEvent, swept
<1> QED BY <1>3, <1>4

LEMMA TrackPortKeepsLive ==
    ASSUME NEW size \in Nat, NEW ports, NEW times, NEW keys, NEW table,
           GoodTable(table, size, ports, times, keys),
           NEW key, key # NoKey, NEW now, NEW window, NEW port, NEW limit
    PROVE  LiveKept(table, TrackPort(table, key, port, now, window, limit), now, window, {now})
<1> DEFINE swept == Swept(table, key, now, window)
           slot  == Least(Candidates(swept, key))
<1>1. GoodTable(swept, size, ports, times, keys)
  BY SweptGood
<1>2. /\ LiveKept(table, swept, now, window, {now})
      /\ \A s \in Candidates(swept, key) : \A marks : Renews(marks, swept[s].marks, {now}) =>
            LiveKept(table, Put(swept, s, key, marks), now, window, {now})
  BY SearchKeepsLive
<1> HIDE DEF swept
<1>3. CASE Candidates(swept, key) = {}
  BY <1>2, <1>3 DEF TrackPort, swept
<1>4. CASE Candidates(swept, key) # {}
  <2>1. slot \in 1..size /\ slot \in Candidates(swept, key)
    <3>1. Candidates(swept, key) \subseteq 1..size /\ Candidates(swept, key) \subseteq Nat
      BY <1>1 DEF Candidates, SlotsOf, GoodTable
    <3> QED BY <3>1, <1>4, LeastIsLeast
  <2>2. swept[slot].marks \in MarksType(ports, times)
    BY <1>1, <2>1 DEF GoodTable, Slot, MarksType
  <2>3. Renews(RememberPort(swept[slot].marks, port, now, limit), swept[slot].marks, {now})
    BY <2>2, RememberPortKeeps DEF Renews
  <2> QED BY <1>2, <1>4, <2>1, <2>3 DEF TrackPort, swept
<1> QED BY <1>3, <1>4
=============================================================================
