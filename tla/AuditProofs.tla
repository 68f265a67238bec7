----------------------------- MODULE AuditProofs -----------------------------
(***************************************************************************)
(* What ScanAudit states of the port scan rule and FloodAudit of the two   *)
(* flood rules, for any number of hosts and ports, any limits and any      *)
(* configuration, with ordered packets.  The tables are looked at through  *)
(* the memory of RefinementProofs, which already hides their slots: what   *)
(* is left is to compare the memory with the record of ScanAudit and with  *)
(* the count of FloodAudit.                                                *)
(***************************************************************************)
EXTENDS FloodAudit, ScanAudit, RefinementProofs

-----------------------------------------------------------------------------
(* The port scan rule.                                                     *)

Remembered(pair, port) == ScanMemory[<<pair, NoPort>>][port]

RecordType ==
    /\ contacted \in [Pairs -> [Ports -> Times \cup {0}]]
    /\ hidden \in [Pairs -> Times \cup {0}]
    /\ dropped \in [Pairs -> Times \cup {0}]
    /\ scanned = NoKey \/ scanned \in Pairs \X {NoPort}

\* The memory never runs ahead of the record, and where it falls behind it a
\* packet of the pair was hidden or dropped since.
MemoryFollows ==
    \A k \in Pairs, d \in Ports :
        /\ contacted[k][d] <= clock
        /\ Remembered(k, d) <= contacted[k][d]
        /\ \/ Remembered(k, d) = contacted[k][d]
           \/ contacted[k][d] <= hidden[k]
           \/ contacted[k][d] <= dropped[k]

\* What the last packet was answered with.
AnswerFits ==
    /\ verdict.by = "Port Scan" => scanned # NoKey
    /\ scanned # NoKey /\ verdict.by = "SYN Flood" =>
          hidden[scanned[1]] = clock /\ clock \in Times
    /\ scanned # NoKey /\ verdict.by # "SYN Flood" =>
          (verdict.by = "Port Scan" <=> Windows!Reached(ScanMemory, scanned, config.scanThreshold))

SInv == IInv /\ RecordType /\ MemoryFollows /\ AnswerFits

-----------------------------------------------------------------------------
LEMMA NumbersOfScans ==
    ASSUME IInv
    PROVE  /\ clock \in Nat /\ 0 \notin Times
           /\ config.scanWindow \in Nat \ {0} /\ config.scanThreshold \in Nat
<1>1. config \in Configs
  BY GoodTables
<1>2. config.scanThreshold \in Nat /\ config.scanWindow \in Nat
  BY <1>1, Thresholds
<1>3. config.scanWindow # 0
  BY <1>1, <1>2, ConfigAssumption DEF PositiveLimits
<1> QED BY <1>2, <1>3, ClockIsNat, Numbers

LEMMA TimesAreNumbers == Times \cup {0} \subseteq Nat
BY Numbers

\* A later time is in the window, too.
LEMMA WithinLater ==
    ASSUME NEW now \in Nat, NEW a \in Nat, NEW b \in Nat, NEW w \in Nat,
           Within(now, a, w), a <= b
    PROVE  Within(now, b, w)
BY DEF Within

LEMMA WithinNow ==
    ASSUME NEW now \in Nat, now # 0, NEW w \in Nat \ {0}
    PROVE  Within(now, now, w)
BY DEF Within

LEMMA ReachedByMore ==
    ASSUME NEW a \in Nat, NEW b \in Nat, NEW n \in Nat, a >= n, a <= b
    PROVE  b >= n
OBVIOUS

LEMMA PairKeysAreKeys ==
    ASSUME NEW k \in Pairs
    PROVE  <<k, NoPort>> \in FlowKeys
BY DEF FlowKeys

LEMMA RememberedIsTime ==
    ASSUME IInv, NEW k \in Pairs, NEW d \in Ports
    PROVE  Remembered(k, d) \in Times \cup {0} /\ Remembered(k, d) \in Nat
<1>1. GoodFlows(scanTable, Ports)
  BY GoodTables DEF GoodFlows
<1>2. <<k, NoPort>> \in FlowKeys
  BY PairKeysAreKeys
<1>3. ScanMemory[<<k, NoPort>>] \in MarksType(Ports, Times)
  BY <1>1, <1>2, MemoryOfFlow DEF ScanMemory
<1>4. Remembered(k, d) \in Times \cup {0}
  BY <1>3 DEF Remembered, MarksType
<1> QED BY <1>4, TimesAreNumbers

\* The flow just tracked has a port in its slot only if it is in the memory.
LEMMA KeptIsRemembered ==
    ASSUME IInv, NEW p \in Packets, NEW t \in Times, ScanLooksAt(p),
           Kept(ScanAfter(p, t), p)
    PROVE  Memory(ScanAfter(p, t), Ports, t, config.scanWindow)[PairKey(p)][p.port] # 0
<1> DEFINE after == ScanAfter(p, t)
           slot  == Least(SlotsOf(after, PairKey(p)))
<1>1. GoodFlows(after, Ports) /\ Marked(after, scanTable, PairKey(p), t, config.scanWindow)
  BY ScanAfterGood DEF GoodFlows
<1>2. PairKey(p) \in FlowKeys /\ p.port \in Ports
  BY PacketKeys
<1>3. SlotsOf(after, PairKey(p)) # {} /\ after[slot].marks[p.port] # 0
  BY DEF Kept, MarksOf
<1> HIDE DEF after
<1>4. DOMAIN after = 1..MaxHosts /\ MaxHosts \in Nat
  BY <1>1, LimitAssumption DEF GoodFlows, GoodTable
<1>5. slot \in SlotsOf(after, PairKey(p))
  <2>1. SlotsOf(after, PairKey(p)) \subseteq 1..MaxHosts
    BY <1>4 DEF SlotsOf
  <2> QED BY <1>3, <2>1, LeastIsLeast
<1>6. slot \in 1..MaxHosts /\ after[slot].key = PairKey(p)
  BY <1>4, <1>5 DEF SlotsOf
<1> HIDE DEF slot
<1>7. after[slot].marks \in MarksType(Ports, Times)
  BY <1>1, <1>6 DEF GoodFlows, GoodTable, Slot, MarksType
<1>8. p.port \in Stamped(after[slot].marks)
  BY <1>2, <1>3, <1>7 DEF Stamped, MarksType, slot
<1>9. Within(t, after[slot].marks[p.port], config.scanWindow)
  <2>1. Within(t, t, config.scanWindow)
    BY StateFacts, Numbers DEF Within
  <2> QED BY <1>1, <1>5, <1>8, <2>1 DEF Marked
<1>10. Memory(after, Ports, t, config.scanWindow)[PairKey(p)]
          = Fresh(after[slot].marks, t, config.scanWindow)
  BY <1>1, <1>2, <1>6, MemoryOfFlow
<1> QED BY <1>2, <1>3, <1>7, <1>9, <1>10 DEF Fresh, MarksType, after, slot

-----------------------------------------------------------------------------
(* One call, seen through the memory.                                      *)

\* The scan rule sees packet p.
Seen(p) == ScanLooksAt(p) /\ verdict'.by # "SYN Flood"

LEMMA SynNotIcmp ==
    ASSUME NEW p, NEW t
    PROVE  SynClaims(p, t) \/ ScanClaims(p, t) => ~IcmpClaims(p, t)
BY DEF SynClaims, ScanClaims, IcmpClaims, SynLooksAt, ScanLooksAt, IcmpLooksAt,
       IsTcpSynWithoutAck, IsEchoRequest

LEMMA CallAnswers ==
    ASSUME IInv, NEW p \in Packets, NEW t \in Times, t >= clock, Detect(p, t)
    PROVE  /\ config' = config /\ clock' = t
           /\ IF Seen(p)
              THEN /\ scanTable' = ScanAfter(p, t)
                   /\ ScanMemory' = Windows!WithPort(
                         Windows!Aged(ScanMemory, t, config.scanWindow), PairKey(p), p.port, t)
              ELSE ScanMemory' = Windows!Aged(ScanMemory, t, config.scanWindow)
           /\ verdict'.by = "Port Scan" => Seen(p)
           /\ Seen(p) => (verdict'.by = "Port Scan" <=>
                             Windows!Reached(ScanMemory', PairKey(p), config.scanThreshold))
<1>1. /\ config' = config /\ clock' = t
      /\ scanTable' = IF SynClaims(p, t) THEN scanTable ELSE ScanAfter(p, t)
      /\ verdict'.by = "SYN Flood" <=> SynClaims(p, t)
      /\ verdict'.by = "Port Scan" <=> ~SynClaims(p, t) /\ ScanClaims(p, t)
  <2>1. /\ config' = config /\ clock' = t
        /\ scanTable' = IF SynClaims(p, t) THEN scanTable ELSE ScanAfter(p, t)
    BY CallShape
  <2>2. CASE SynClaims(p, t)
    <3>1. verdict'.by = "SYN Flood"
      BY <2>2, CallShape, SynNotIcmp
    <3> QED BY <2>1, <2>2, <3>1
  <2>3. CASE ~SynClaims(p, t) /\ ScanClaims(p, t)
    <3>1. verdict'.by = "Port Scan"
      BY <2>3, CallShape, SynNotIcmp
    <3> QED BY <2>1, <2>3, <3>1
  <2>4. CASE ~SynClaims(p, t) /\ ~ScanClaims(p, t)
    <3>1. verdict'.by \notin {"SYN Flood", "Port Scan"}
      BY <2>4, CallShape
    <3> QED BY <2>1, <2>4, <3>1
  <2> QED BY <2>2, <2>3, <2>4
<1>2. /\ IF ScanLooksAt(p) /\ ~SynClaims(p, t)
         THEN ScanMemory' = Windows!WithPort(
                 Windows!Aged(ScanMemory, t, config.scanWindow), PairKey(p), p.port, t)
         ELSE ScanMemory' = Windows!Aged(ScanMemory, t, config.scanWindow)
      /\ ~SynClaims(p, t) =>
            (ScanClaims(p, t) <=>
                /\ ScanLooksAt(p)
                /\ Windows!Reached(ScanMemory', PairKey(p), config.scanThreshold))
  BY <1>1, ScanImplemented
<1>3. ScanClaims(p, t) => ScanLooksAt(p)
  BY DEF ScanClaims
<1> QED BY <1>1, <1>2, <1>3 DEF Seen

\* What the call makes of one mark of the memory: the port at hand is stamped
\* or was not kept, every other mark ages.
LEMMA MemoryStep ==
    ASSUME IInv, NEW p \in Packets, NEW t \in Times, t >= clock, Detect(p, t),
           NEW k \in Pairs, NEW d \in Ports
    PROVE  /\ ~(Seen(p) /\ k = p.pair /\ d = p.port) =>
                 Remembered(k, d)' = IF Within(t, Remembered(k, d), config.scanWindow)
                                     THEN Remembered(k, d) ELSE 0
           /\ Seen(p) /\ k = p.pair /\ d = p.port =>
                 \/ Remembered(k, d)' = t
                 \/ Remembered(k, d)' = 0 /\ ~Kept(scanTable', p)
<1> DEFINE K    == <<k, NoPort>>
           aged == Windows!Aged(ScanMemory, t, config.scanWindow)
           new  == Windows!WithPort(aged, PairKey(p), p.port, t)
<1>1. K \in FlowKeys /\ PairKey(p) \in FlowKeys /\ PairKey(p) = <<p.pair, NoPort>>
  BY PairKeysAreKeys, PacketKeys DEF PairKey
<1>2. GoodFlows(scanTable, Ports) /\ clock \in Nat /\ t \in Nat /\ config.scanWindow \in Nat \ {0}
  BY StateFacts
<1>3. /\ DOMAIN ScanMemory = FlowKeys
      /\ \A m \in FlowKeys : DOMAIN ScanMemory[m] = Ports
  <2>1. DOMAIN ScanMemory = FlowKeys
    BY DEF ScanMemory, Memory
  <2>2. \A m \in FlowKeys : ScanMemory[m] \in MarksType(Ports, Times)
    BY <1>2, MemoryOfFlow DEF ScanMemory
  <2> QED BY <2>1, <2>2 DEF MarksType
<1>4. /\ DOMAIN aged = FlowKeys
      /\ \A m \in FlowKeys : DOMAIN aged[m] = Ports
      /\ aged[K][d] = IF Within(t, Remembered(k, d), config.scanWindow)
                      THEN Remembered(k, d) ELSE 0
  BY <1>1, <1>2, <1>3, SameInputs DEF Windows!Aged, Within, Remembered
<1>5. Remembered(k, d)' = ScanMemory'[K][d]
  BY DEF Remembered
<1>6. /\ Seen(p) => scanTable' = ScanAfter(p, t) /\ ScanMemory' = new
      /\ ~Seen(p) => ScanMemory' = aged
      /\ config' = config /\ clock' = t
  BY CallAnswers
<1> HIDE DEF aged
<1>7. CASE ~Seen(p)
  BY <1>4, <1>5, <1>6, <1>7
<1>8. CASE Seen(p) /\ ~(k = p.pair /\ d = p.port)
  <2>1. new[K][d] = aged[K][d]
    BY <1>1, <1>4, <1>8 DEF Windows!WithPort
  <2> QED BY <1>4, <1>5, <1>6, <1>8, <2>1
<1>9. CASE Seen(p) /\ k = p.pair /\ d = p.port
  <2>1. K = PairKey(p)
    BY <1>1, <1>9
  <2>2. new = [aged EXCEPT ![K][d] = t] \/ (new = aged /\ aged[K][d] = 0)
    <3>1. Windows!Held(aged[K]) = {c \in Ports : aged[K][c] # 0}
      BY <1>1, <1>4 DEF Windows!Held
    <3>2. ~Windows!HasRoom(aged, K) => Windows!Held(aged[K]) = {}
      BY <1>1, SameInputs DEF Windows!HasRoom, Windows!Known
    <3>3. ~Windows!HasRoom(aged, K) \/ d \notin Windows!Held(aged[K]) => aged[K][d] = 0
             \/ (Windows!HasRoom(aged, K) /\ d \in Windows!Held(aged[K]))
      BY <3>1, <3>2
    <3> QED BY <1>9, <2>1, <3>3 DEF Windows!WithPort
  <2>3. CASE new = [aged EXCEPT ![K][d] = t]
    <3>1. new[K][d] = t
      BY <1>1, <1>4, <2>3
    <3> QED BY <1>5, <1>6, <1>9, <3>1
  <2>4. CASE new = aged /\ aged[K][d] = 0
    <3>1. Remembered(k, d)' = 0
      BY <1>5, <1>6, <1>9, <2>4
    <3>2. ScanMemory' = Memory(ScanAfter(p, t), Ports, t, config.scanWindow)
      BY <1>6, <1>9, NextMemories
    <3>3. ~Kept(scanTable', p)
      <4>1. Memory(ScanAfter(p, t), Ports, t, config.scanWindow)[PairKey(p)][p.port] = 0
        BY <1>5, <1>9, <2>1, <3>1, <3>2
      <4>2. ScanLooksAt(p)
        BY <1>9 DEF Seen
      <4> QED BY <1>6, <1>9, <4>1, <4>2, KeptIsRemembered
    <3> QED BY <1>9, <3>1, <3>3
  <2> QED BY <2>2, <2>3, <2>4
<1> QED BY <1>7, <1>8, <1>9

-----------------------------------------------------------------------------
(* The record.                                                             *)

\* What the call adds to the record of one pair and one port.
LEMMA RecordStep ==
    ASSUME IInv, RecordType, NEW p \in Packets, NEW t \in Times, t >= clock, Detect(p, t),
           RecordSyn(p, t) \/ RecordOther(p, t)
    PROVE  /\ RecordType'
           /\ \A k \in Pairs, d \in Ports :
                 /\ contacted'[k][d] = IF ScanLooksAt(p) /\ k = p.pair /\ d = p.port THEN t
                                       ELSE IF Within(t, contacted[k][d], config.scanWindow)
                                            THEN contacted[k][d] ELSE 0
                 /\ hidden'[k] = IF ScanLooksAt(p) /\ ~Seen(p) /\ k = p.pair THEN t
                                 ELSE IF Within(t, hidden[k], config.scanWindow)
                                      THEN hidden[k] ELSE 0
                 /\ dropped'[k] = IF Seen(p) /\ ~Kept(scanTable', p) /\ k = p.pair THEN t
                                  ELSE IF Within(t, dropped[k], config.scanWindow)
                                       THEN dropped[k] ELSE 0
           /\ scanned' = IF ScanLooksAt(p) THEN PairKey(p) ELSE NoKey
<1>1. /\ clock \in Nat /\ t \in Nat /\ t # 0 /\ config.scanWindow \in Nat \ {0}
      /\ config' = config
  BY StateFacts, Numbers DEF Detect
<1>2. Within(t, t, config.scanWindow)
  BY <1>1, WithinNow
<1>3. p.pair \in Pairs /\ p.port \in Ports /\ PairKey(p) = <<p.pair, NoPort>>
  BY InputAssumption DEF PacketType, PairKey
<1>4. /\ DOMAIN contacted = Pairs /\ DOMAIN hidden = Pairs /\ DOMAIN dropped = Pairs
      /\ \A k \in Pairs : DOMAIN contacted[k] = Ports
  BY DEF RecordType
<1>5. CASE RecordSyn(p, t)
  <2>1. /\ ScanLooksAt(p) /\ scanned' = PairKey(p)
        /\ contacted' = [k \in Pairs |->
              InWindow(IF k = p.pair THEN [contacted[k] EXCEPT ![p.port] = t] ELSE contacted[k], t)]
        /\ hidden' = InWindow(IF ~Seen(p) THEN [hidden EXCEPT ![p.pair] = t] ELSE hidden, t)
        /\ dropped' = InWindow(IF Seen(p) /\ ~Kept(scanTable', p)
                               THEN [dropped EXCEPT ![p.pair] = t] ELSE dropped, t)
    BY <1>5 DEF RecordSyn, Seen
  <2>2. ASSUME NEW k \in Pairs, NEW d \in Ports
        PROVE  contacted'[k][d] = IF k = p.pair /\ d = p.port THEN t
                                  ELSE IF Within(t, contacted[k][d], config.scanWindow)
                                       THEN contacted[k][d] ELSE 0
    <3>1. CASE k = p.pair
      <4>1. contacted'[k] = InWindow([contacted[k] EXCEPT ![p.port] = t], t)
        BY <2>1, <3>1
      <4> QED BY <1>2, <1>3, <1>4, <3>1, <4>1 DEF InWindow
    <3>2. CASE k # p.pair
      <4>1. contacted'[k] = InWindow(contacted[k], t)
        BY <2>1, <3>2
      <4> QED BY <1>4, <3>2, <4>1 DEF InWindow
    <3> QED BY <3>1, <3>2
  <2>3. ASSUME NEW k \in Pairs
        PROVE  /\ hidden'[k] = IF ~Seen(p) /\ k = p.pair THEN t
                               ELSE IF Within(t, hidden[k], config.scanWindow)
                                    THEN hidden[k] ELSE 0
               /\ dropped'[k] = IF Seen(p) /\ ~Kept(scanTable', p) /\ k = p.pair THEN t
                                ELSE IF Within(t, dropped[k], config.scanWindow)
                                     THEN dropped[k] ELSE 0
    BY <1>2, <1>3, <1>4, <2>1 DEF InWindow
  <2>4. RecordType'
    <3>1. contacted' = [k \in Pairs |-> [d \in Ports |-> contacted'[k][d]]]
      BY <1>3, <1>4, <2>1 DEF InWindow
    <3>2. \A k \in Pairs, d \in Ports : contacted'[k][d] \in Times \cup {0}
      BY <2>2 DEF RecordType
    <3>3. DOMAIN hidden' = Pairs /\ DOMAIN dropped' = Pairs
      BY <1>3, <1>4, <2>1 DEF InWindow
    <3>4. hidden' = [k \in Pairs |-> hidden'[k]] /\ dropped' = [k \in Pairs |-> dropped'[k]]
      BY <1>3, <1>4, <2>1 DEF InWindow
    <3>5. \A k \in Pairs : hidden'[k] \in Times \cup {0} /\ dropped'[k] \in Times \cup {0}
      BY <2>3 DEF RecordType
    <3>6. contacted' \in [Pairs -> [Ports -> Times \cup {0}]]
      BY <3>1, <3>2
    <3>7. hidden' \in [Pairs -> Times \cup {0}] /\ dropped' \in [Pairs -> Times \cup {0}]
      BY <3>4, <3>5
    <3>8. scanned' \in Pairs \X {NoPort}
      BY <1>3, <2>1
    <3> QED BY <3>6, <3>7, <3>8 DEF RecordType
  <2> QED BY <2>1, <2>2, <2>3, <2>4
<1>6. CASE RecordOther(p, t)
  <2>1. /\ ~ScanLooksAt(p) /\ scanned' = NoKey
        /\ contacted' = [k \in Pairs |-> InWindow(contacted[k], t)]
        /\ hidden' = InWindow(hidden, t) /\ dropped' = InWindow(dropped, t)
    BY <1>6 DEF RecordOther
  <2>2. ~Seen(p)
    BY <2>1 DEF Seen
  <2>3. \A k \in Pairs, d \in Ports :
           contacted'[k][d] = IF Within(t, contacted[k][d], config.scanWindow)
                              THEN contacted[k][d] ELSE 0
    BY <1>4, <2>1 DEF InWindow
  <2>4. \A k \in Pairs :
           /\ hidden'[k] = IF Within(t, hidden[k], config.scanWindow) THEN hidden[k] ELSE 0
           /\ dropped'[k] = IF Within(t, dropped[k], config.scanWindow) THEN dropped[k] ELSE 0
    BY <1>4, <2>1 DEF InWindow
  <2>5. RecordType'
    <3>1. contacted' \in [Pairs -> [Ports -> Times \cup {0}]]
      BY <1>4, <2>1 DEF InWindow, RecordType
    <3>2. hidden' \in [Pairs -> Times \cup {0}] /\ dropped' \in [Pairs -> Times \cup {0}]
      BY <1>4, <2>1 DEF InWindow, RecordType
    <3>3. scanned' = NoKey
      BY <2>1
    <3> QED BY <3>1, <3>2, <3>3 DEF RecordType
  <2> QED BY <2>1, <2>2, <2>3, <2>4, <2>5
<1> QED BY <1>5, <1>6

-----------------------------------------------------------------------------
(* The invariant.                                                          *)

LEMMA ScanInitSInv == ScanInit => SInv
<1> SUFFICES ASSUME ScanInit PROVE SInv
  OBVIOUS
<1>1. IInv
  BY InitIInv DEF ScanInit
<1>2. RecordType
  BY DEF ScanInit, RecordType
<1>3. \A k \in Pairs, d \in Ports : Remembered(k, d) = 0
  <2> TAKE k \in Pairs, d \in Ports
  <2>1. SlotsOf(scanTable, <<k, NoPort>>) = {}
    BY PairKeysAreKeys, Numbers DEF ScanInit, Init, SlotsOf, EmptyTable, FreeSlot
  <2>2. ScanMemory[<<k, NoPort>>] = NoMarks(Ports)
    BY <2>1, PairKeysAreKeys DEF ScanMemory, Memory
  <2> QED BY <2>2 DEF Remembered, NoMarks
<1>4. MemoryFollows
  BY <1>3 DEF ScanInit, Init, MemoryFollows
<1>5. AnswerFits
  BY DEF ScanInit, Init, Nothing, AnswerFits
<1> QED BY <1>1, <1>2, <1>4, <1>5 DEF SInv

LEMMA CallKeepsFollowing ==
    ASSUME SInv, NEW p \in Packets, NEW t \in Times, t >= clock, Detect(p, t),
           RecordSyn(p, t) \/ RecordOther(p, t)
    PROVE  MemoryFollows'
<1>1. IInv /\ RecordType /\ MemoryFollows
  BY DEF SInv
<1>2. clock \in Nat /\ t \in Nat /\ t # 0 /\ config.scanWindow \in Nat \ {0} /\ clock' = t
  BY <1>1, StateFacts, Numbers DEF Detect
<1>3. Times \cup {0} \subseteq Nat
  BY TimesAreNumbers
<1> SUFFICES ASSUME NEW k \in Pairs, NEW d \in Ports
             PROVE  /\ contacted'[k][d] <= t
                    /\ Remembered(k, d)' <= contacted'[k][d]
                    /\ \/ Remembered(k, d)' = contacted'[k][d]
                       \/ contacted'[k][d] <= hidden'[k]
                       \/ contacted'[k][d] <= dropped'[k]
  BY <1>2 DEF MemoryFollows
<1> DEFINE m == Remembered(k, d)
           c == contacted[k][d]
           h == hidden[k]
           x == dropped[k]
<1>4. m \in Nat /\ c \in Nat /\ h \in Nat /\ x \in Nat
  BY <1>1, <1>3, RememberedIsTime DEF RecordType
<1>5. c <= clock /\ m <= c /\ (m = c \/ c <= h \/ c <= x)
  BY <1>1 DEF MemoryFollows
<1>6. /\ contacted'[k][d] = IF ScanLooksAt(p) /\ k = p.pair /\ d = p.port THEN t
                            ELSE IF Within(t, c, config.scanWindow) THEN c ELSE 0
      /\ hidden'[k] = IF ScanLooksAt(p) /\ ~Seen(p) /\ k = p.pair THEN t
                      ELSE IF Within(t, h, config.scanWindow) THEN h ELSE 0
      /\ dropped'[k] = IF Seen(p) /\ ~Kept(scanTable', p) /\ k = p.pair THEN t
                       ELSE IF Within(t, x, config.scanWindow) THEN x ELSE 0
  BY <1>1, RecordStep
<1>7. /\ ~(Seen(p) /\ k = p.pair /\ d = p.port) =>
            Remembered(k, d)' = IF Within(t, m, config.scanWindow) THEN m ELSE 0
      /\ Seen(p) /\ k = p.pair /\ d = p.port =>
            \/ Remembered(k, d)' = t
            \/ Remembered(k, d)' = 0 /\ ~Kept(scanTable', p)
  BY <1>1, MemoryStep
<1>8. Seen(p) => ScanLooksAt(p)
  BY DEF Seen
<1> HIDE DEF m, c, h, x
<1>9. CASE ScanLooksAt(p) /\ k = p.pair /\ d = p.port
  <2>1. CASE Seen(p)
    BY <1>2, <1>6, <1>7, <1>9, <2>1
  <2>2. CASE ~Seen(p)
    <3>1. Remembered(k, d)' <= t
      BY <1>2, <1>4, <1>5, <1>7, <2>2
    <3> QED BY <1>2, <1>6, <1>9, <2>2, <3>1
  <2> QED BY <2>1, <2>2
<1>10. CASE ~(ScanLooksAt(p) /\ k = p.pair /\ d = p.port)
  <2>1. /\ contacted'[k][d] = IF Within(t, c, config.scanWindow) THEN c ELSE 0
        /\ Remembered(k, d)' = IF Within(t, m, config.scanWindow) THEN m ELSE 0
    BY <1>6, <1>7, <1>8, <1>10
  <2>2. /\ hidden'[k] = t \/ hidden'[k] = IF Within(t, h, config.scanWindow) THEN h ELSE 0
        /\ dropped'[k] = t \/ dropped'[k] = IF Within(t, x, config.scanWindow) THEN x ELSE 0
    BY <1>6
  <2>3. contacted'[k][d] <= t /\ Remembered(k, d)' <= contacted'[k][d]
    BY <1>2, <1>4, <1>5, <2>1 DEF Within
  <2>4. CASE m = c
    BY <2>1, <2>3, <2>4
  <2>5. CASE c <= h
    BY <1>2, <1>4, <1>5, <2>1, <2>2, <2>3, <2>5 DEF Within
  <2>6. CASE c <= x
    BY <1>2, <1>4, <1>5, <2>1, <2>2, <2>3, <2>6 DEF Within
  <2> QED BY <1>5, <2>4, <2>5, <2>6
<1> QED BY <1>9, <1>10

LEMMA CallKeepsSInv ==
    ASSUME SInv, NEW p \in Packets, NEW t \in Times, t >= clock, Detect(p, t),
           RecordSyn(p, t) \/ RecordOther(p, t)
    PROVE  SInv'
<1>1. IInv /\ RecordType
  BY DEF SInv
<1>2. IInv'
  BY <1>1, DetectIInv
<1>3. RecordType' /\ scanned' = IF ScanLooksAt(p) THEN PairKey(p) ELSE NoKey
  BY <1>1, RecordStep
<1>4. MemoryFollows'
  BY CallKeepsFollowing
<1>5. AnswerFits'
  <2>1. /\ clock' = t /\ config' = config
        /\ verdict'.by = "Port Scan" => Seen(p)
        /\ Seen(p) => (verdict'.by = "Port Scan" <=>
                           Windows!Reached(ScanMemory', PairKey(p), config.scanThreshold))
    BY <1>1, CallAnswers
  <2>2. Seen(p) <=> ScanLooksAt(p) /\ verdict'.by # "SYN Flood"
    BY DEF Seen
  <2>3. PairKey(p) # NoKey /\ PairKey(p)[1] = p.pair /\ p.pair \in Pairs
    <3>1. PairKey(p) # NoKey
      BY PacketKeys, Numbers
    <3> QED BY <3>1, InputAssumption DEF PairKey, PacketType
  <2>4. CASE ScanLooksAt(p)
    <3>1. scanned' = PairKey(p)
      BY <1>3, <2>4
    <3>2. verdict'.by = "SYN Flood" => hidden'[p.pair] = t
      <4>1. PICK d \in Ports : d = p.port
        BY PacketKeys
      <4> QED BY <1>1, <2>2, <2>3, <2>4, <4>1, RecordStep
    <3>3. (Windows!Reached(ScanMemory, scanned, config.scanThreshold))'
             <=> Windows!Reached(ScanMemory', PairKey(p), config.scanThreshold)
      BY <2>1, <3>1 DEF Windows!Reached
    <3> QED BY <2>1, <2>2, <2>3, <2>4, <3>1, <3>2, <3>3 DEF AnswerFits
  <2>5. CASE ~ScanLooksAt(p)
    BY <1>3, <2>1, <2>2, <2>5 DEF AnswerFits
  <2> QED BY <2>4, <2>5
<1> QED BY <1>2, <1>3, <1>4, <1>5 DEF SInv

LEMMA StutterKeepsSInv ==
    ASSUME SInv, UNCHANGED scanVars
    PROVE  SInv'
<1>1. IInv'
  BY StutterIInv DEF SInv, scanVars
<1>2. ScanMemory' = ScanMemory
  BY DEF scanVars, vars, ScanMemory, Memory
<1>3. RecordType' /\ MemoryFollows'
  BY <1>2 DEF SInv, scanVars, vars, RecordType, MemoryFollows, Remembered
<1>4. AnswerFits'
  BY <1>2 DEF SInv, scanVars, vars, AnswerFits, Windows!Reached
<1> QED BY <1>1, <1>3, <1>4 DEF SInv

\* The record and the memory stay together through every run.
THEOREM RecordFollowed == ScanSpec => []SInv
<1>1. SInv /\ [ScanNext]_scanVars => SInv'
  BY CallKeepsSInv, StutterKeepsSInv DEF ScanNext
<1> QED BY ScanInitSInv, <1>1, PTL DEF ScanSpec

-----------------------------------------------------------------------------
(* The properties.                                                         *)

LEMMA PortsHeld ==
    ASSUME SInv, NEW k \in Pairs
    PROVE  LET held == Windows!Held(ScanMemory[<<k, NoPort>>]) IN
           /\ held = {d \in Ports : Remembered(k, d) # 0}
           /\ held \subseteq TruePorts(k)
           /\ IsFiniteSet(TruePorts(k))
           /\ Windows!Reached(ScanMemory, <<k, NoPort>>, config.scanThreshold)
                 <=> Cardinality(held) >= config.scanThreshold
<1> DEFINE held == Windows!Held(ScanMemory[<<k, NoPort>>])
<1>1. IInv /\ RecordType /\ MemoryFollows
  BY DEF SInv
<1>2. GoodFlows(scanTable, Ports) /\ <<k, NoPort>> \in FlowKeys
  BY <1>1, GoodTables, PairKeysAreKeys DEF GoodFlows
<1>3. ScanMemory[<<k, NoPort>>] \in MarksType(Ports, Times)
  BY <1>2, MemoryOfFlow DEF ScanMemory
<1>4. held = {d \in Ports : Remembered(k, d) # 0}
  BY <1>3 DEF MarksType, Remembered, Windows!Held
<1>5. ASSUME NEW d \in Ports, Remembered(k, d) # 0
      PROVE  Within(clock, contacted[k][d], config.scanWindow)
  <2>1. Within(clock, Remembered(k, d), config.scanWindow)
    <3>1. d \in Stamped(ScanMemory[<<k, NoPort>>])
      BY <1>3, <1>5 DEF MarksType, Remembered, Stamped
    <3> QED BY <1>2, <3>1, FreshMemory DEF ScanMemory, Remembered
  <2>2. Remembered(k, d) <= contacted[k][d]
    BY <1>1 DEF MemoryFollows
  <2>3. Remembered(k, d) \in Nat /\ contacted[k][d] \in Nat
    <3>1. contacted[k][d] \in Times \cup {0}
      BY <1>1 DEF RecordType
    <3> QED BY <1>1, <3>1, TimesAreNumbers, RememberedIsTime
  <2>4. clock \in Nat /\ config.scanWindow \in Nat
    BY <1>1, NumbersOfScans
  <2> QED BY <2>1, <2>2, <2>3, <2>4, WithinLater
<1>6. held \subseteq TruePorts(k) /\ IsFiniteSet(TruePorts(k))
  BY <1>4, <1>5, InputAssumption, FS_Subset DEF TruePorts
<1> QED BY <1>4, <1>6, SameCardinality DEF Windows!Reached

LEMMA ScannedPair ==
    ASSUME RecordType, scanned # NoKey
    PROVE  \E k \in Pairs : scanned = <<k, NoPort>> /\ scanned[1] = k
<1>1. scanned \in Pairs \X {NoPort}
  BY DEF RecordType
<1>2. PICK k \in Pairs, n \in {NoPort} : scanned = <<k, n>>
  BY <1>1
<1> QED BY <1>2

\* No port is counted past its window or taken over from another pair: a port
\* scan is claimed only of a pair that contacted that many ports.
THEOREM ScansAreReal == ScanSpec => []NoFalseScan
<1>1. SInv => NoFalseScan
  <2> SUFFICES ASSUME SInv, verdict.by = "Port Scan" PROVE Scan
    BY DEF NoFalseScan
  <2>1. scanned # NoKey /\ Windows!Reached(ScanMemory, scanned, config.scanThreshold)
    BY DEF SInv, AnswerFits
  <2>2. PICK k \in Pairs : scanned = <<k, NoPort>> /\ scanned[1] = k
    BY <2>1, ScannedPair DEF SInv
  <2> DEFINE held == Windows!Held(ScanMemory[<<k, NoPort>>])
  <2>3. held \subseteq TruePorts(k) /\ IsFiniteSet(TruePorts(k))
        /\ Cardinality(held) >= config.scanThreshold
    BY <2>1, <2>2, PortsHeld
  <2>4. /\ Cardinality(held) <= Cardinality(TruePorts(k))
        /\ Cardinality(held) \in Nat /\ Cardinality(TruePorts(k)) \in Nat
    BY <2>3, FS_Subset, FS_CardinalityType
  <2>5. config.scanThreshold \in Nat
    BY NumbersOfScans DEF SInv
  <2>6. Cardinality(TruePorts(k)) >= config.scanThreshold
    BY <2>3, <2>4, <2>5, ReachedByMore
  <2> QED BY <2>1, <2>2, <2>6 DEF Scan
<1> QED BY RecordFollowed, <1>1, PTL

\* detector.c:873 and the two limits are the only ways for a scan to go
\* unclaimed.
THEOREM MissedScansAreExplained == ScanSpec => []MissedScanHasCause
<1>1. SInv => MissedScanHasCause
  <2> SUFFICES ASSUME SInv, Scan, verdict.by # "Port Scan"
               PROVE  \/ Within(clock, hidden[scanned[1]], config.scanWindow)
                      \/ Within(clock, dropped[scanned[1]], config.scanWindow)
    BY DEF MissedScanHasCause
  <2>1. IInv /\ RecordType /\ MemoryFollows /\ AnswerFits
    BY DEF SInv
  <2>2. PICK k \in Pairs : scanned = <<k, NoPort>> /\ scanned[1] = k
    BY <2>1, ScannedPair DEF Scan
  <2>3. scanned # NoKey /\ scanned[1] = k
    BY <2>2 DEF Scan
  <2>4. /\ clock \in Nat /\ 0 \notin Times
        /\ config.scanWindow \in Nat \ {0} /\ config.scanThreshold \in Nat
    BY <2>1, NumbersOfScans
  <2>5. CASE verdict.by = "SYN Flood"
    <3>1. hidden[k] = clock /\ clock \in Times
      BY <2>1, <2>3, <2>5 DEF AnswerFits
    <3>2. clock # 0
      BY <2>4, <3>1
    <3>3. Within(clock, clock, config.scanWindow)
      BY <2>4, <3>2, WithinNow
    <3> QED BY <2>3, <3>1, <3>3
  <2>6. CASE verdict.by # "SYN Flood"
    <3> DEFINE held == Windows!Held(ScanMemory[<<k, NoPort>>])
    <3>1. /\ held = {d \in Ports : Remembered(k, d) # 0}
          /\ held \subseteq TruePorts(k) /\ IsFiniteSet(TruePorts(k))
          /\ ~(Cardinality(held) >= config.scanThreshold)
      BY <2>1, <2>2, <2>3, <2>6, PortsHeld DEF AnswerFits
    <3>2. held # TruePorts(k)
      BY <2>3, <3>1 DEF Scan
    <3>3. PICK d \in Ports : Within(clock, contacted[k][d], config.scanWindow) /\ Remembered(k, d) = 0
      BY <3>1, <3>2 DEF TruePorts
    <3>4. contacted[k][d] # 0
      BY <3>3 DEF Within
    <3>5. contacted[k][d] <= hidden[k] \/ contacted[k][d] <= dropped[k]
      BY <2>1, <3>3, <3>4 DEF MemoryFollows
    <3>6. contacted[k][d] \in Nat /\ hidden[k] \in Nat /\ dropped[k] \in Nat
      BY <2>1, TimesAreNumbers DEF RecordType
    <3>7. Within(clock, hidden[k], config.scanWindow) \/ Within(clock, dropped[k], config.scanWindow)
      BY <2>4, <3>3, <3>5, <3>6, WithinLater
    <3> QED BY <2>3, <3>7
  <2> QED BY <2>5, <2>6
<1> QED BY RecordFollowed, <1>1, PTL

-----------------------------------------------------------------------------
(* The flood rules.                                                        *)


\* What the audited rule remembers of its flows, and of one flow at one time.
RuleMemory == IF audited = "SYN Flood" THEN SynMemory ELSE IcmpMemory
StampsIn(memory, key, u) == Cardinality({c \in Cells : memory[key][c] = u})
Stamps(key, u) == StampsIn(RuleMemory, key, u)

RInv == IInv /\ audited \in FloodRules

CountType ==
    /\ arrived \in [FlowKeys -> [Times -> 0..ArrivalCap]]
    /\ lost \in [FlowKeys -> Times \cup {0}]
    /\ asked \in FlowKeys \cup {NoKey}

\* The memory never runs ahead of the count, and what arrived after the last
\* loss is in the memory until it leaves the window.
CountFollows ==
    \A k \in FlowKeys :
        /\ lost[k] <= clock
        /\ \A u \in Times :
              /\ arrived[k][u] # 0 => u <= clock
              /\ Stamps(k, u) <= arrived[k][u] \/ arrived[k][u] = ArrivalCap
              /\ Within(clock, u, Window) /\ lost[k] < u => arrived[k][u] <= Stamps(k, u)

\* A flow that has just lost a packet has no room, in the table or in its array.
NoRoomFor(memory, key) ==
    \/ ~Windows!HasRoom(memory, key)
    \/ Windows!Held(memory[key]) = Cells

LossFits == \A k \in FlowKeys : clock # 0 /\ lost[k] = clock => NoRoomFor(RuleMemory, k)

\* What the rule said of the last packet.
RuleAnswers ==
    /\ asked = NoKey => verdict.by # audited
    /\ asked # NoKey => clock # 0 /\ (verdict.by = audited <=>
                            Windows!Reached(RuleMemory, asked, Threshold))

FInv == RInv /\ CountType /\ CountFollows /\ LossFits /\ RuleAnswers

-----------------------------------------------------------------------------
(* Counting marks and arrivals time by time.                               *)

SameTime(held, marks, u) == {c \in held : marks[c] = u}

\* The number of a mark among those of its time.
Rank(held, marks, c) == Cardinality({d \in held : marks[d] = marks[c] /\ d <= c})

LEMMA RankNumbers ==
    ASSUME NEW held \in SUBSET Nat, IsFiniteSet(held), NEW marks
    PROVE  /\ \A c \in held :
                 Rank(held, marks, c) \in 1..Cardinality(SameTime(held, marks, marks[c]))
           /\ \A c, d \in held :
                 marks[c] = marks[d] /\ Rank(held, marks, c) = Rank(held, marks, d) => c = d
<1> DEFINE UpTo(c) == {d \in held : marks[d] = marks[c] /\ d <= c}
<1>1. ASSUME NEW c \in held
      PROVE  /\ IsFiniteSet(UpTo(c)) /\ Cardinality(UpTo(c)) \in Nat /\ c \in UpTo(c)
             /\ Rank(held, marks, c) = Cardinality(UpTo(c))
  <2>1. UpTo(c) \in SUBSET held
    OBVIOUS
  <2>2. IsFiniteSet(UpTo(c))
    BY <2>1, FS_Subset
  <2>3. c \in Nat
    OBVIOUS
  <2> QED BY <2>2, <2>3, FS_CardinalityType DEF Rank
<1>2. ASSUME NEW c \in held
      PROVE  Rank(held, marks, c) \in 1..Cardinality(SameTime(held, marks, marks[c]))
  <2>1. /\ UpTo(c) \in SUBSET SameTime(held, marks, marks[c])
        /\ SameTime(held, marks, marks[c]) \in SUBSET held
    BY DEF SameTime
  <2>2. IsFiniteSet(SameTime(held, marks, marks[c]))
    BY <2>1, FS_Subset
  <2>3. /\ Cardinality(UpTo(c)) <= Cardinality(SameTime(held, marks, marks[c]))
        /\ Cardinality(SameTime(held, marks, marks[c])) \in Nat
    BY <2>1, <2>2, FS_Subset, FS_CardinalityType
  <2>4. Cardinality(UpTo(c)) # 0
    BY <1>1, FS_EmptySet
  <2> HIDE DEF UpTo
  <2> QED BY <1>1, <2>3, <2>4
<1>3. ASSUME NEW c \in held, NEW d \in held, marks[c] = marks[d], c < d
      PROVE  Rank(held, marks, c) # Rank(held, marks, d)
  <2>1. UpTo(c) \in SUBSET UpTo(d)
    <3> SUFFICES ASSUME NEW e \in UpTo(c) PROVE e \in UpTo(d)
      OBVIOUS
    <3>1. e \in Nat /\ c \in Nat /\ d \in Nat /\ e <= c
      OBVIOUS
    <3>2. e <= d
      BY <3>1, <1>3
    <3> QED BY <3>2, <1>3
  <2>2. d \in UpTo(d) /\ d \notin UpTo(c)
    <3>1. c \in Nat /\ d \in Nat
      OBVIOUS
    <3> QED BY <3>1, <1>1, <1>3
  <2> HIDE DEF UpTo
  <2> QED BY <1>1, <2>1, <2>2, FS_Subset
<1>4. ASSUME NEW c \in held, NEW d \in held, marks[c] = marks[d],
             Rank(held, marks, c) = Rank(held, marks, d)
      PROVE  c = d
  <2>1. c \in Nat /\ d \in Nat
    OBVIOUS
  <2>2. ~(c < d) /\ ~(d < c)
    BY <1>3, <1>4
  <2> QED BY <2>1, <2>2
<1> QED BY <1>2, <1>4

\* Arrivals as TrueArrivals has them: numbered at each of their times.
Numbered(times, cap, arrivals) == {a \in times \X (1..cap) : a[2] <= arrivals[a[1]]}

\* With no more marks than arrivals at each time there are no more in all.
LEMMA MarksWithinArrivals ==
    ASSUME NEW held \in SUBSET Nat, IsFiniteSet(held), NEW marks, NEW times,
           \A c \in held : marks[c] \in times,
           NEW cap \in Nat, NEW arrivals \in [times -> 0..cap],
           \A u \in times : Cardinality(SameTime(held, marks, u)) <= arrivals[u],
           IsFiniteSet(Numbered(times, cap, arrivals))
    PROVE  Cardinality(held) <= Cardinality(Numbered(times, cap, arrivals))
<1> DEFINE f == [c \in held |-> <<marks[c], Rank(held, marks, c)>>]
<1>1. ASSUME NEW c \in held
      PROVE  f[c] \in Numbered(times, cap, arrivals)
  <2> DEFINE n == Rank(held, marks, c)
             m == Cardinality(SameTime(held, marks, marks[c]))
             k == arrivals[marks[c]]
  <2>1. n \in 1..m /\ m <= k /\ k \in 0..cap
    BY RankNumbers
  <2>2. m \in Nat
    <3>1. SameTime(held, marks, marks[c]) \in SUBSET held
      BY DEF SameTime
    <3> QED BY <3>1, FS_Subset, FS_CardinalityType
  <2>3. f[c] = <<marks[c], n>>
    OBVIOUS
  <2>4. n \in 1..cap /\ n <= k
    <3> HIDE DEF n, m, k
    <3> QED BY <2>1, <2>2
  <2> QED BY <2>3, <2>4 DEF Numbered
<1>2. ASSUME NEW c \in held, NEW d \in held, f[c] = f[d]
      PROVE  c = d
  <2>1. marks[c] = marks[d] /\ Rank(held, marks, c) = Rank(held, marks, d)
    BY <1>2
  <2> QED BY <2>1, RankNumbers
<1>3. f \in Injection(held, Numbered(times, cap, arrivals))
  <2>1. f \in [held -> Numbered(times, cap, arrivals)]
    BY <1>1
  <2> HIDE DEF f
  <2> QED BY <1>2, <2>1 DEF Injection, IsInjective
<1> HIDE DEF f
<1> QED BY <1>3, FS_Injection

\* With a mark for every arrival there are as many marks.
LEMMA ArrivalsWithinMarks ==
    ASSUME NEW held, IsFiniteSet(held), NEW marks, NEW times,
           NEW cap \in Nat, NEW arrivals \in [times -> 0..cap],
           \A u \in times : arrivals[u] <= Cardinality(SameTime(held, marks, u))
    PROVE  Cardinality(Numbered(times, cap, arrivals)) <= Cardinality(held)
<1> DEFINE Size(u) == Cardinality(SameTime(held, marks, u))
           pick == [u \in times |-> CHOOSE g : g \in Bijection(1..Size(u), SameTime(held, marks, u))]
           A == Numbered(times, cap, arrivals)
           f == [a \in A |-> pick[a[1]][a[2]]]
<1>1. ASSUME NEW u \in times
      PROVE  Size(u) \in Nat /\ pick[u] \in Bijection(1..Size(u), SameTime(held, marks, u))
  <2>1. SameTime(held, marks, u) \in SUBSET held
    BY DEF SameTime
  <2>2. IsFiniteSet(SameTime(held, marks, u))
    BY <2>1, FS_Subset
  <2>3. Size(u) \in Nat /\ ExistsBijection(1..Size(u), SameTime(held, marks, u))
    BY <2>2, FS_CardinalityType
  <2> QED BY <2>3 DEF ExistsBijection
<1>2. ASSUME NEW a \in A
      PROVE  a[1] \in times /\ a[2] \in 1..Size(a[1]) /\ a = <<a[1], a[2]>>
  <2>1. a[1] \in times /\ a[2] \in 1..cap /\ a[2] <= arrivals[a[1]] /\ a = <<a[1], a[2]>>
    BY DEF Numbered
  <2>2. arrivals[a[1]] \in Nat /\ arrivals[a[1]] <= Size(a[1]) /\ Size(a[1]) \in Nat
    BY <1>1, <2>1
  <2> HIDE DEF Size
  <2> QED BY <2>1, <2>2
<1> HIDE DEF pick, Size, A
<1>3. ASSUME NEW a \in A
      PROVE  f[a] \in held /\ marks[f[a]] = a[1]
  <2>1. f[a] \in SameTime(held, marks, a[1])
    BY <1>1, <1>2 DEF Bijection, Injection, IsInjective
  <2> QED BY <2>1 DEF SameTime
<1>4. ASSUME NEW a \in A, NEW b \in A, f[a] = f[b]
      PROVE  a = b
  <2>1. a[1] = b[1]
    BY <1>3, <1>4
  <2>2. pick[a[1]][a[2]] = pick[a[1]][b[2]]
    BY <1>4, <2>1
  <2>3. a[2] = b[2]
    BY <1>1, <1>2, <2>1, <2>2 DEF Bijection, Injection, IsInjective
  <2> QED BY <1>2, <2>1, <2>3
<1>5. f \in Injection(A, held)
  <2>1. f \in [A -> held]
    BY <1>3
  <2> HIDE DEF f
  <2> QED BY <1>4, <2>1 DEF Injection, IsInjective
<1> HIDE DEF f
<1> QED BY <1>5, FS_Injection DEF A

-----------------------------------------------------------------------------
(* One call, seen through the memory of the audited rule.                  *)

LEMMA RuleFacts ==
    ASSUME RInv
    PROVE  /\ clock \in Nat /\ Window \in Nat \ {0} /\ Threshold \in Nat \ {0}
           /\ ArrivalCap \in Nat /\ ArrivalCap >= Threshold
           /\ GoodFlows(Table, Cells)
           /\ RuleMemory = Memory(Table, Cells, clock, Window)
<1>1. config \in Configs /\ GoodFlows(synTable, Cells) /\ GoodFlows(icmpTable, Cells)
  BY GoodTables DEF GoodFlows, RInv
<1>2. /\ config.synThreshold \in Nat \ {0} /\ config.icmpThreshold \in Nat \ {0}
      /\ config.synWindow \in Nat \ {0} /\ config.icmpWindow \in Nat \ {0}
  BY <1>1, Thresholds, ConfigAssumption DEF PositiveLimits
<1>3. CASE audited = "SYN Flood"
  <2>1. Window = config.synWindow /\ Threshold = config.synThreshold /\ Table = synTable
        /\ RuleMemory = SynMemory
    BY <1>3 DEF Window, WindowOf, Threshold, Table, RuleMemory
  <2> QED BY <1>1, <1>2, <2>1, ClockIsNat, CapAssumption DEF SynMemory, RInv
<1>4. CASE audited = "ICMP Flood"
  <2>1. Window = config.icmpWindow /\ Threshold = config.icmpThreshold /\ Table = icmpTable
        /\ RuleMemory = IcmpMemory
    BY <1>4 DEF Window, WindowOf, Threshold, Table, RuleMemory
  <2> QED BY <1>1, <1>2, <2>1, ClockIsNat, CapAssumption DEF IcmpMemory, RInv
<1> QED BY <1>3, <1>4 DEF RInv, FloodRules

LEMMA RInvNext ==
    ASSUME RInv, NEW p \in Packets, NEW t \in Times, Detect(p, t), audited' = audited
    PROVE  RInv'
BY DetectIInv DEF RInv

LEMMA KeysOfRule ==
    ASSUME NEW p \in Packets
    PROVE  KeyOf(p) \in FlowKeys
BY PacketKeys DEF KeyOf

\* A call ages the memory of the rule, adds the packet if the rule looks at it
\* and there is room, and is answered by the rule exactly when the threshold is
\* then reached.
LEMMA CallOfRule ==
    ASSUME RInv, NEW p \in Packets, NEW t \in Times, t >= clock, Detect(p, t),
           audited' = audited
    PROVE  /\ config' = config /\ clock' = t
           /\ Window' = Window /\ Threshold' = Threshold
           /\ LET aged == Windows!Aged(RuleMemory, t, Window) IN
              IF LooksAt(p) THEN RuleMemory' \in Windows!WithEvent(aged, KeyOf(p), t)
              ELSE RuleMemory' = aged
           /\ verdict'.by = audited <=>
                 LooksAt(p) /\ Windows!Reached(RuleMemory', KeyOf(p), Threshold)
<1>0. IInv /\ audited \in FloodRules
  BY DEF RInv
<1>1. /\ config' = config /\ clock' = t
      /\ synTable' = SynAfter(p, t) /\ icmpTable' = IcmpAfter(p, t)
  BY <1>0, CallShape
<1>2. /\ verdict'.by = "SYN Flood" <=> SynClaims(p, t)
      /\ verdict'.by = "ICMP Flood" <=> IcmpClaims(p, t)
  <2>1. SynClaims(p, t) \/ ScanClaims(p, t) => ~IcmpClaims(p, t)
    BY DEF SynClaims, ScanClaims, IcmpClaims, SynLooksAt, ScanLooksAt, IcmpLooksAt,
           IsTcpSynWithoutAck, IsEchoRequest
  <2>2. verdict'.by =
           CASE SynClaims(p, t)                        -> "SYN Flood"
             [] ~SynClaims(p, t) /\ ScanClaims(p, t)   -> "Port Scan"
             [] IcmpClaims(p, t)                       -> "ICMP Flood"
             [] OTHER -> CASE SuspiciousClaims(p)      -> "Suspicious Port"
                           [] EchoClaims(p)            -> "ICMP Echo Request"
                           [] WatchClaims(p) /\ ~SuspiciousClaims(p) -> "TCP SYN Watch"
                           [] OTHER                    -> "none"
    BY <1>0, CallShape
  <2>3. CASE SynClaims(p, t) BY <2>1, <2>2, <2>3
  <2>4. CASE ~SynClaims(p, t) /\ ScanClaims(p, t) BY <2>1, <2>2, <2>4
  <2>5. CASE ~SynClaims(p, t) /\ ~ScanClaims(p, t) /\ IcmpClaims(p, t) BY <2>2, <2>5
  <2>6. CASE ~SynClaims(p, t) /\ ~ScanClaims(p, t) /\ ~IcmpClaims(p, t)
    <3>1. verdict'.by \in {"Suspicious Port", "ICMP Echo Request", "TCP SYN Watch", "none"}
      BY <2>2, <2>6
    <3> QED BY <2>6, <3>1
  <2> QED BY <2>3, <2>4, <2>5, <2>6
<1>3. Window' = Window /\ Threshold' = Threshold
  BY <1>1 DEF Window, WindowOf, Threshold
<1>4. CASE audited = "SYN Flood"
  <2>1. /\ Window = config.synWindow /\ Threshold = config.synThreshold
        /\ RuleMemory = SynMemory /\ RuleMemory' = SynMemory'
        /\ LooksAt(p) = SynLooksAt(p) /\ KeyOf(p) = PortKey(p)
    BY <1>4 DEF Window, WindowOf, Threshold, RuleMemory, LooksAt, KeyOf
  <2> QED BY <1>1, <1>2, <1>3, <1>4, <2>1, <1>0, SynImplemented
<1>5. CASE audited = "ICMP Flood"
  <2>1. /\ Window = config.icmpWindow /\ Threshold = config.icmpThreshold
        /\ RuleMemory = IcmpMemory /\ RuleMemory' = IcmpMemory'
        /\ LooksAt(p) = IcmpLooksAt(p) /\ KeyOf(p) = PairKey(p)
    BY <1>5 DEF Window, WindowOf, Threshold, RuleMemory, LooksAt, KeyOf
  <2> QED BY <1>1, <1>2, <1>3, <1>5, <2>1, <1>0, IcmpImplemented
<1> QED BY <1>4, <1>5 DEF RInv, FloodRules

\* The number of stamps the observer reads off the table.
LEMMA StampsRead ==
    ASSUME NEW table, GoodFlows(table, Cells), NEW now, NEW window,
           NEW key \in FlowKeys, NEW u \in Times, Within(now, u, window)
    PROVE  StampsAt(table, key, u)
              = Cardinality({c \in Cells : Memory(table, Cells, now, window)[key][c] = u})
<1> DEFINE mem == Memory(table, Cells, now, window)[key]
<1>1. u # 0
  BY Numbers
<1>2. CASE SlotsOf(table, key) = {}
  <2>1. mem = NoMarks(Cells)
    BY <1>2 DEF Memory
  <2>2. {c \in Cells : mem[c] = u} = {}
    BY <1>1, <2>1 DEF NoMarks
  <2> QED BY <1>2, <2>2, FS_EmptySet DEF StampsAt
<1>3. CASE SlotsOf(table, key) # {}
  <2> DEFINE marks == MarksOf(table, key)
  <2>1. mem = Fresh(marks, now, window)
    BY <1>3 DEF Memory
  <2>2. marks \in MarksType(Cells, Times)
    <3>1. SlotsOf(table, key) \subseteq 1..MaxHosts
      BY DEF SlotsOf, GoodFlows, GoodTable
    <3>2. Least(SlotsOf(table, key)) \in 1..MaxHosts
      BY <1>3, <3>1, LeastIsLeast
    <3> QED BY <3>2 DEF MarksOf, GoodFlows, GoodTable, Slot, MarksType
  <2> HIDE DEF marks, mem
  <2>3. \A c \in Cells : mem[c] = u <=> marks[c] = u
    BY <1>1, <2>1, <2>2 DEF Fresh, MarksType
  <2>4. {c \in Cells : mem[c] = u} = {c \in Cells : marks[c] = u}
    BY <2>3
  <2> QED BY <1>3, <2>4 DEF StampsAt, marks, mem
<1> QED BY <1>2, <1>3

LEMMA RuleMemoryType ==
    ASSUME RInv
    PROVE  /\ DOMAIN RuleMemory = FlowKeys
           /\ RuleMemory = [k \in FlowKeys |-> RuleMemory[k]]
           /\ \A k \in FlowKeys : RuleMemory[k] \in MarksType(Cells, Times)
           /\ \A k \in FlowKeys : \A c \in Cells :
                 RuleMemory[k][c] # 0 => Within(clock, RuleMemory[k][c], Window)
<1>1. GoodFlows(Table, Cells) /\ RuleMemory = Memory(Table, Cells, clock, Window)
  BY RuleFacts
<1>2. DOMAIN RuleMemory = FlowKeys /\ RuleMemory = [k \in FlowKeys |-> RuleMemory[k]]
  BY <1>1 DEF Memory
<1>3. \A k \in FlowKeys : RuleMemory[k] \in MarksType(Cells, Times)
  BY <1>1, MemoryOfFlow
<1>4. ASSUME NEW k \in FlowKeys, NEW c \in Cells, RuleMemory[k][c] # 0
      PROVE  Within(clock, RuleMemory[k][c], Window)
  <2>1. c \in Stamped(RuleMemory[k])
    BY <1>3, <1>4 DEF Stamped, MarksType
  <2> QED BY <1>1, <2>1, FreshMemory
<1> QED BY <1>2, <1>3, <1>4

\* Aging drops the stamps that left the window and keeps the others.
LEMMA AgedStamps ==
    ASSUME RInv, NEW t \in Times, t >= clock
    PROVE  LET aged == Windows!Aged(RuleMemory, t, Window) IN
           /\ aged = [k \in FlowKeys |-> aged[k]]
           /\ \A k \in FlowKeys : aged[k] \in MarksType(Cells, Times)
           /\ \A k \in FlowKeys : \A u \in Times :
                 StampsIn(aged, k, u) = IF Within(t, u, Window) THEN Stamps(k, u) ELSE 0
<1> DEFINE aged == Windows!Aged(RuleMemory, t, Window)
<1>1. /\ DOMAIN RuleMemory = FlowKeys
      /\ \A k \in FlowKeys : RuleMemory[k] \in MarksType(Cells, Times)
  BY RuleMemoryType
<1>2. aged = [k \in FlowKeys |-> [c \in Cells |->
                 IF RuleMemory[k][c] # 0 /\ t <= RuleMemory[k][c] + Window
                 THEN RuleMemory[k][c] ELSE 0]]
  BY <1>1, SameInputs DEF Windows!Aged, MarksType
<1> HIDE DEF aged
<1>3. ASSUME NEW k \in FlowKeys
      PROVE  aged[k] \in MarksType(Cells, Times)
  BY <1>1, <1>2 DEF MarksType
<1>4. ASSUME NEW k \in FlowKeys, NEW u \in Times
      PROVE  StampsIn(aged, k, u) = IF Within(t, u, Window) THEN Stamps(k, u) ELSE 0
  <2>1. u # 0 /\ Window > 0
    BY Numbers, RuleFacts
  <2>2. CASE Within(t, u, Window)
    <3>1. \A c \in Cells : aged[k][c] = u <=> RuleMemory[k][c] = u
      BY <1>2, <2>1, <2>2 DEF Within
    <3>2. {c \in Cells : aged[k][c] = u} = {c \in Cells : RuleMemory[k][c] = u}
      BY <3>1
    <3> QED BY <2>2, <3>2 DEF Stamps, StampsIn
  <2>3. CASE ~Within(t, u, Window)
    <3>1. \A c \in Cells : aged[k][c] # u
      BY <1>2, <2>1, <2>3 DEF Within
    <3>2. {c \in Cells : aged[k][c] = u} = {}
      BY <3>1
    <3> QED BY <2>3, <3>2, FS_EmptySet DEF StampsIn
  <2> QED BY <2>2, <2>3
<1>5. aged = [k \in FlowKeys |-> aged[k]]
  BY <1>2
<1> QED BY <1>3, <1>4, <1>5 DEF aged

\* One more stamp, or none because there is no room.
LEMMA StampsNext ==
    ASSUME RInv, NEW p \in Packets, NEW t \in Times, t >= clock, Detect(p, t),
           audited' = audited
    PROVE  /\ \A k \in FlowKeys, u \in Times :
                 ~(LooksAt(p) /\ k = KeyOf(p) /\ u = t) =>
                    StampsIn(RuleMemory', k, u) = IF Within(t, u, Window) THEN Stamps(k, u) ELSE 0
           /\ LooksAt(p) =>
                 \/ StampsIn(RuleMemory', KeyOf(p), t) = Stamps(KeyOf(p), t) + 1
                 \/ /\ StampsIn(RuleMemory', KeyOf(p), t) = Stamps(KeyOf(p), t)
                    /\ RuleMemory' = Windows!Aged(RuleMemory, t, Window)
                    /\ NoRoomFor(RuleMemory', KeyOf(p))
<1> DEFINE aged == Windows!Aged(RuleMemory, t, Window)
           key  == KeyOf(p)
<1>1. /\ aged = [k \in FlowKeys |-> aged[k]]
      /\ \A k \in FlowKeys : aged[k] \in MarksType(Cells, Times)
      /\ \A k \in FlowKeys : \A u \in Times :
            StampsIn(aged, k, u) = IF Within(t, u, Window) THEN Stamps(k, u) ELSE 0
  BY AgedStamps
<1>2. IF LooksAt(p) THEN RuleMemory' \in Windows!WithEvent(aged, key, t)
      ELSE RuleMemory' = aged
  BY CallOfRule
<1>3. key \in FlowKeys /\ t # 0 /\ t \in Nat /\ Within(t, t, Window)
  <2>1. t \in Nat /\ t # 0 /\ Window \in Nat \ {0}
    BY Numbers, RuleFacts
  <2> QED BY <2>1, KeysOfRule DEF Within
<1> HIDE DEF aged, key
<1>4. CASE RuleMemory' = aged
  <2>1. \A k \in FlowKeys, u \in Times :
           StampsIn(RuleMemory', k, u) = IF Within(t, u, Window) THEN Stamps(k, u) ELSE 0
    BY <1>1, <1>4
  <2>2. LooksAt(p) => NoRoomFor(aged, key)
    <3> SUFFICES ASSUME LooksAt(p), Windows!HasRoom(aged, key) PROVE Windows!Held(aged[key]) = Cells
      BY DEF NoRoomFor
    <3> DEFINE empty == DOMAIN aged[key] \ Windows!Held(aged[key])
    <3>1. DOMAIN aged[key] = Cells
      BY <1>1, <1>3 DEF MarksType
    <3>2. ASSUME NEW c \in empty PROVE aged # [aged EXCEPT ![key][c] = t]
      <4>1. aged[key][c] = 0 /\ c \in Cells
        BY <3>1 DEF Windows!Held
      <4>2. [aged EXCEPT ![key][c] = t][key][c] = t
        BY <1>1, <1>3, <3>1, <4>1
      <4> QED BY <1>3, <4>1, <4>2
    <3>3. empty = {}
      <4> SUFFICES ASSUME empty # {} PROVE FALSE
        OBVIOUS
      <4>1. aged \in {[aged EXCEPT ![key][c] = t] : c \in empty}
        BY <1>2, <1>4 DEF Windows!WithEvent
      <4> HIDE DEF empty
      <4> QED BY <3>2, <4>1
    <3> QED BY <3>1, <3>3 DEF Windows!Held
  <2> QED BY <1>3, <1>4, <2>1, <2>2 DEF aged, key
<1>5. CASE LooksAt(p) /\ RuleMemory' # aged
  <2> DEFINE empty == DOMAIN aged[key] \ Windows!Held(aged[key])
  <2>1. PICK c \in empty : RuleMemory' = [aged EXCEPT ![key][c] = t]
    BY <1>2, <1>5 DEF Windows!WithEvent
  <2>2. DOMAIN aged[key] = Cells
    BY <1>1, <1>3 DEF MarksType
  <2>3. c \in Cells /\ aged[key][c] = 0
    BY <2>2 DEF Windows!Held
  <2> HIDE DEF empty
  <2>4. /\ \A k \in FlowKeys : k # key => RuleMemory'[k] = aged[k]
        /\ \A d \in Cells : RuleMemory'[key][d] = IF d = c THEN t ELSE aged[key][d]
    BY <1>1, <1>3, <2>1, <2>2, <2>3
  <2>5. ASSUME NEW k \in FlowKeys, NEW u \in Times, ~(k = key /\ u = t)
        PROVE  StampsIn(RuleMemory', k, u) = StampsIn(aged, k, u)
    <3>0. u # 0
      BY Numbers
    <3>1. CASE k # key
      BY <2>4, <3>1 DEF StampsIn
    <3>2. CASE k = key /\ u # t
      <4>1. \A d \in Cells : RuleMemory'[k][d] = u <=> aged[k][d] = u
        BY <2>3, <2>4, <3>0, <3>2
      <4>2. {d \in Cells : RuleMemory'[k][d] = u} = {d \in Cells : aged[k][d] = u}
        BY <4>1
      <4> QED BY <4>2 DEF StampsIn
    <3> QED BY <2>5, <3>1, <3>2
  <2>6. StampsIn(RuleMemory', key, t) = StampsIn(aged, key, t) + 1
    <3> DEFINE old == {d \in Cells : aged[key][d] = t}
    <3>1. {d \in Cells : RuleMemory'[key][d] = t} = old \cup {c}
      BY <2>3, <2>4
    <3>2. c \notin old
      BY <1>3, <2>3
    <3>3. IsFiniteSet(old)
      <4>1. old \in SUBSET Cells OBVIOUS
      <4> QED BY <4>1, Numbers, FS_Subset
    <3> HIDE DEF old
    <3>4. Cardinality(old \cup {c}) = Cardinality(old) + 1
      BY <3>2, <3>3, FS_AddElement
    <3> QED BY <3>1, <3>4 DEF old, StampsIn
  <2>7. \A k \in FlowKeys, u \in Times : ~(k = key /\ u = t) =>
           StampsIn(RuleMemory', k, u) = IF Within(t, u, Window) THEN Stamps(k, u) ELSE 0
    BY <1>1, <2>5
  <2>8. StampsIn(RuleMemory', key, t) = Stamps(key, t) + 1
    BY <1>1, <1>3, <2>6
  <2> QED BY <1>5, <2>7, <2>8 DEF key
<1> QED BY <1>2, <1>4, <1>5

\* Whether the packet was remembered, as the observer sees it.
LEMMA LossRead ==
    ASSUME RInv, NEW p \in Packets, NEW t \in Times, t >= clock, Detect(p, t),
           audited' = audited
    PROVE  /\ StampsAt(Table, KeyOf(p), t) = Stamps(KeyOf(p), t)
           /\ StampsAt(Table', KeyOf(p), t) = StampsIn(RuleMemory', KeyOf(p), t)
           /\ Stamps(KeyOf(p), t) \in Nat
<1> DEFINE key == KeyOf(p)
<1>1. key \in FlowKeys /\ t \in Nat /\ t # 0 /\ clock \in Nat /\ Window \in Nat \ {0}
  BY KeysOfRule, Numbers, RuleFacts
<1>2. GoodFlows(Table, Cells) /\ RuleMemory = Memory(Table, Cells, clock, Window)
  BY RuleFacts
<1>3. RInv' /\ clock' = t /\ Window' = Window
  BY RInvNext, CallOfRule
<1>4. GoodFlows(Table', Cells) /\ RuleMemory' = Memory(Table', Cells, t, Window)
  <2>1. GoodFlows(Table, Cells)' /\ (RuleMemory = Memory(Table, Cells, clock, Window))'
    BY <1>3, RuleFacts, PTL
  <2>2. Memory(Table, Cells, clock, Window)' = Memory(Table', Cells, t, Window)
    BY <1>3 DEF Memory
  <2> QED BY <2>1, <2>2 DEF GoodFlows
<1>5. Within(clock, t, Window) /\ Within(t, t, Window)
  BY <1>1 DEF Within
<1> HIDE DEF key
<1>6. StampsAt(Table, key, t) = Cardinality({c \in Cells : RuleMemory[key][c] = t})
  BY <1>1, <1>2, <1>5, StampsRead
<1>7. StampsAt(Table', key, t) = Cardinality({c \in Cells : RuleMemory'[key][c] = t})
  BY <1>1, <1>4, <1>5, StampsRead
<1>8. Cardinality({c \in Cells : RuleMemory[key][c] = t}) \in Nat
  <2>1. {c \in Cells : RuleMemory[key][c] = t} \in SUBSET Cells
    OBVIOUS
  <2> QED BY <2>1, Numbers, FS_Subset, FS_CardinalityType
<1> QED BY <1>6, <1>7, <1>8 DEF Stamps, StampsIn, key

\* What the call adds to the count.
LEMMA CountStep ==
    ASSUME RInv, CountType, NEW p \in Packets, NEW t \in Times, t >= clock, Detect(p, t),
           audited' = audited, Observe(p, t)
    PROVE  /\ CountType'
           /\ asked' = IF LooksAt(p) THEN KeyOf(p) ELSE NoKey
           /\ \A k \in FlowKeys, u \in Times :
                 ~(LooksAt(p) /\ k = KeyOf(p) /\ u = t) =>
                    arrived'[k][u] = IF Within(t, u, Window) THEN arrived[k][u] ELSE 0
           /\ LooksAt(p) => arrived'[KeyOf(p)][t] =
                               IF arrived[KeyOf(p)][t] < ArrivalCap
                               THEN arrived[KeyOf(p)][t] + 1 ELSE arrived[KeyOf(p)][t]
           /\ \A k \in FlowKeys :
                 lost'[k] = IF /\ LooksAt(p) /\ k = KeyOf(p)
                               /\ ~(StampsIn(RuleMemory', KeyOf(p), t) > Stamps(KeyOf(p), t))
                            THEN t
                            ELSE IF Within(t, lost[k], Window) THEN lost[k] ELSE 0
<1> DEFINE key == KeyOf(p)
           more == StampsIn(RuleMemory', key, t) > Stamps(key, t)
<1>1. key \in FlowKeys /\ t \in Nat /\ t # 0 /\ Window \in Nat \ {0} /\ ArrivalCap \in Nat
  BY KeysOfRule, Numbers, RuleFacts
<1>2. Within(t, t, Window)
  BY <1>1 DEF Within
<1>3. Recent(t) = [k \in FlowKeys |-> [u \in Times |->
                      IF Within(t, u, Window) THEN arrived[k][u] ELSE 0]]
  BY DEF Recent, InWindowOf
<1>4. more <=> StampsAt(Table', key, t) > StampsAt(Table, key, t)
  BY LossRead
<1>5. \A k \in FlowKeys, u \in Times : arrived[k][u] \in 0..ArrivalCap
  BY DEF CountType
<1>6. \A k \in FlowKeys : lost[k] \in Times \cup {0}
  BY DEF CountType
<1> HIDE DEF key, more
<1>7. CASE ObserveOther(p, t)
  <2>1. /\ ~LooksAt(p) /\ asked' = NoKey /\ arrived' = Recent(t) /\ lost' = RecentlyLost(t)
    BY <1>7 DEF ObserveOther
  <2>2. \A k \in FlowKeys, u \in Times :
           arrived'[k][u] = IF Within(t, u, Window) THEN arrived[k][u] ELSE 0
    BY <1>3, <2>1
  <2>3. \A k \in FlowKeys :
           lost'[k] = IF Within(t, lost[k], Window) THEN lost[k] ELSE 0
    BY <2>1 DEF RecentlyLost
  <2>4. arrived' \in [FlowKeys -> [Times -> 0..ArrivalCap]]
    BY <1>1, <1>3, <1>5, <2>1
  <2>5. lost' \in [FlowKeys -> Times \cup {0}]
    BY <1>6, <2>1 DEF RecentlyLost
  <2> QED BY <2>1, <2>2, <2>3, <2>4, <2>5 DEF CountType
<1>8. CASE ObserveOwn(p, t)
  <2> DEFINE one == IF arrived[key][t] < ArrivalCap THEN arrived[key][t] + 1
                    ELSE arrived[key][t]
  <2>1. /\ LooksAt(p) /\ asked' = key
        /\ arrived' = [Recent(t) EXCEPT ![key][t] = IF @ < ArrivalCap THEN @ + 1 ELSE @]
        /\ lost' = IF more THEN RecentlyLost(t) ELSE [RecentlyLost(t) EXCEPT ![key] = t]
    BY <1>4, <1>8 DEF ObserveOwn, key
  <2>2. Recent(t)[key][t] = arrived[key][t]
    BY <1>1, <1>2, <1>3
  <2>3. arrived' = [Recent(t) EXCEPT ![key] = [Recent(t)[key] EXCEPT ![t] = one]]
    BY <2>1, <2>2
  <2>4. one \in 0..ArrivalCap
    BY <1>1, <1>5
  <2> HIDE DEF one
  <2>5. /\ arrived'[key][t] = one
        /\ \A k \in FlowKeys, u \in Times : ~(k = key /\ u = t) =>
              arrived'[k][u] = IF Within(t, u, Window) THEN arrived[k][u] ELSE 0
    BY <1>1, <1>3, <2>3
  <2>6. arrived' \in [FlowKeys -> [Times -> 0..ArrivalCap]]
    <3>1. Recent(t) \in [FlowKeys -> [Times -> 0..ArrivalCap]]
      BY <1>1, <1>3, <1>5
    <3>2. [Recent(t)[key] EXCEPT ![t] = one] \in [Times -> 0..ArrivalCap]
      BY <1>1, <2>4, <3>1
    <3> QED BY <2>3, <3>1, <3>2
  <2>7. \A k \in FlowKeys :
           lost'[k] = IF k = key /\ ~more THEN t
                      ELSE IF Within(t, lost[k], Window) THEN lost[k] ELSE 0
    BY <1>1, <2>1 DEF RecentlyLost
  <2>8. lost' \in [FlowKeys -> Times \cup {0}]
    <3>1. RecentlyLost(t) \in [FlowKeys -> Times \cup {0}]
      BY <1>6 DEF RecentlyLost
    <3> QED BY <2>1, <3>1
  <2>9. CountType'
    BY <1>1, <2>1, <2>6, <2>8 DEF CountType
  <2> QED BY <2>1, <2>5, <2>7, <2>9 DEF key, more, one
<1> QED BY <1>7, <1>8 DEF Observe

-----------------------------------------------------------------------------
(* The invariant of the flood audit.                                       *)

LEMMA FloodInitFInv == FloodInit => FInv
<1> SUFFICES ASSUME FloodInit PROVE FInv
  OBVIOUS
<1>1. RInv
  BY InitIInv DEF FloodInit, RInv
<1>2. CountType
  BY RuleFacts, <1>1 DEF FloodInit, CountType
<1>3. \A k \in FlowKeys : RuleMemory[k] = NoMarks(Cells)
  <2> TAKE k \in FlowKeys
  <2>1. SlotsOf(Table, k) = {}
    BY Numbers DEF FloodInit, Init, Table, SlotsOf, EmptyTable, FreeSlot
  <2> QED BY <1>1, <2>1, RuleFacts DEF Memory
<1>4. ASSUME NEW k \in FlowKeys, NEW u \in Times
      PROVE  Stamps(k, u) = 0 /\ arrived[k][u] = 0 /\ lost[k] = 0
  <2>1. {c \in Cells : RuleMemory[k][c] = u} = {}
    BY <1>3, Numbers DEF NoMarks
  <2> QED BY <2>1, FS_EmptySet DEF Stamps, StampsIn, FloodInit
<1>5. CountFollows
  <2>1. clock = 0 /\ \A k \in FlowKeys : lost[k] = 0
    BY DEF FloodInit, Init
  <2> QED BY <1>4, <2>1, RuleFacts, <1>1 DEF CountFollows
<1>6. LossFits
  BY DEF FloodInit, Init, LossFits
<1>7. RuleAnswers
  BY DEF FloodInit, Init, Nothing, RuleAnswers, FloodRules
<1> QED BY <1>1, <1>2, <1>5, <1>6, <1>7 DEF FInv

LEMMA CallKeepsCountFollows ==
    ASSUME RInv, CountType, CountFollows, NEW p \in Packets, NEW t \in Times, t >= clock,
           Detect(p, t), audited' = audited, Observe(p, t)
    PROVE  CountFollows'
<1>1. clock \in Nat /\ t \in Nat /\ t # 0 /\ Window \in Nat \ {0} /\ ArrivalCap \in Nat
  BY Numbers, RuleFacts
<1>2. clock' = t /\ Window' = Window
  BY CallOfRule
<1> SUFFICES ASSUME NEW k \in FlowKeys
             PROVE  /\ lost'[k] <= t
                    /\ \A u \in Times :
                          /\ arrived'[k][u] # 0 => u <= t
                          /\ StampsIn(RuleMemory', k, u) <= arrived'[k][u] \/ arrived'[k][u] = ArrivalCap
                          /\ Within(t, u, Window) /\ lost'[k] < u =>
                                arrived'[k][u] <= StampsIn(RuleMemory', k, u)
  BY <1>1, <1>2 DEF CountFollows, Stamps
<1> DEFINE own == LooksAt(p) /\ k = KeyOf(p)
           l   == lost[k]
<1>3. l \in Nat /\ l <= clock
  <2>1. l \in Times \cup {0}
    BY DEF CountType
  <2> QED BY <2>1, TimesAreNumbers DEF CountFollows
<1>4. lost'[k] = IF own /\ ~(StampsIn(RuleMemory', KeyOf(p), t) > Stamps(KeyOf(p), t)) THEN t
                 ELSE IF Within(t, l, Window) THEN l ELSE 0
  BY CountStep
<1> HIDE DEF l
<1>5. lost'[k] <= t /\ lost'[k] \in Nat
  BY <1>1, <1>3, <1>4
<1>6. ASSUME NEW u \in Times
      PROVE  /\ arrived'[k][u] # 0 => u <= t
             /\ StampsIn(RuleMemory', k, u) <= arrived'[k][u] \/ arrived'[k][u] = ArrivalCap
             /\ Within(t, u, Window) /\ lost'[k] < u => arrived'[k][u] <= StampsIn(RuleMemory', k, u)
  <2> DEFINE a == arrived[k][u]
             s == Stamps(k, u)
  <2>1. u \in Nat /\ u # 0 /\ a \in 0..ArrivalCap /\ s \in Nat
    <3>1. {c \in Cells : RuleMemory[k][c] = u} \in SUBSET Cells
      OBVIOUS
    <3>2. s \in Nat
      BY <3>1, Numbers, FS_Subset, FS_CardinalityType DEF Stamps, StampsIn
    <3> QED BY <3>2, Numbers DEF CountType
  <2>2. /\ a # 0 => u <= clock
        /\ s <= a \/ a = ArrivalCap
        /\ Within(clock, u, Window) /\ l < u => a <= s
    BY DEF CountFollows, l
  <2>3. CASE own /\ u = t
    <3>1. arrived'[k][u] = IF a < ArrivalCap THEN a + 1 ELSE a
      BY <2>3, CountStep
    <3>2. StampsIn(RuleMemory', KeyOf(p), t) = StampsIn(RuleMemory', k, u)
      BY <2>3 DEF Stamps, StampsIn
    <3>3. StampsIn(RuleMemory', k, u) = s + 1 \/ StampsIn(RuleMemory', k, u) = s
      BY <2>3, <3>2, StampsNext
    <3>4. lost'[k] = IF ~(StampsIn(RuleMemory', k, u) > s) THEN t
                     ELSE IF Within(t, l, Window) THEN l ELSE 0
      BY <1>4, <2>3, <3>2
    <3> HIDE DEF a, s
    <3>5. Within(clock, u, Window)
      BY <1>1, <2>3 DEF Within
    <3>6. l = t => Within(t, l, Window)
      BY <1>1 DEF Within
    <3> QED BY <1>1, <1>3, <2>1, <2>2, <2>3, <3>1, <3>3, <3>4, <3>5, <3>6
  <2>4. CASE ~(own /\ u = t)
    <3>1. /\ arrived'[k][u] = IF Within(t, u, Window) THEN a ELSE 0
          /\ StampsIn(RuleMemory', k, u) = IF Within(t, u, Window) THEN s ELSE 0
      <4>1. ~(LooksAt(p) /\ k = KeyOf(p) /\ u = t)
        BY <2>4
      <4> QED BY <4>1, CountStep, StampsNext
    <3>2. lost'[k] = t \/ lost'[k] = IF Within(t, l, Window) THEN l ELSE 0
      BY <1>4
    <3> HIDE DEF a, s
    <3>3. CASE ~Within(t, u, Window)
      BY <1>1, <2>1, <3>1, <3>3
    <3>4. CASE Within(t, u, Window)
      <4>1. Within(clock, u, Window)
        BY <1>1, <2>1, <3>4 DEF Within
      <4>2. ~Within(t, l, Window) => l < u
        BY <1>1, <1>3, <2>1, <3>4 DEF Within
      <4>3. t < u => a = 0
        BY <1>1, <2>1, <2>2
      <4> QED BY <1>1, <1>3, <2>1, <2>2, <3>1, <3>2, <3>4, <4>1, <4>2, <4>3
    <3> QED BY <3>3, <3>4
  <2> QED BY <2>3, <2>4
<1> QED BY <1>5, <1>6

\* Without time passing, a memory only grows.
LEMMA NoRoomStays ==
    ASSUME NEW memory, memory = [k \in FlowKeys |-> memory[k]],
           \A k \in FlowKeys : memory[k] \in MarksType(Cells, Times),
           NEW flow \in FlowKeys, NoRoomFor(memory, flow),
           NEW key \in FlowKeys, NEW t \in Times,
           NEW next \in Windows!WithEvent(memory, key, t)
    PROVE  NoRoomFor(next, flow)
<1> DEFINE empty == DOMAIN memory[key] \ Windows!Held(memory[key])
<1>1. CASE next = memory
  BY <1>1
<1>2. CASE next # memory
  <2>1. /\ Windows!HasRoom(memory, key)
        /\ \E c \in empty : next = [memory EXCEPT ![key][c] = t]
    BY <1>2 DEF Windows!WithEvent
  <2>2. PICK c \in empty : next = [memory EXCEPT ![key][c] = t]
    BY <2>1
  <2>3. \A k \in FlowKeys : DOMAIN memory[k] = Cells
    BY DEF MarksType
  <2>4. c \in Cells
    BY <2>3
  <2> HIDE DEF empty
  <2>5. /\ \A k \in FlowKeys : DOMAIN next[k] = Cells
        /\ \A k \in FlowKeys : k # key => next[k] = memory[k]
        /\ \A d \in Cells : next[key][d] = IF d = c THEN t ELSE memory[key][d]
    BY <2>2, <2>3, <2>4
  <2>6. t # 0
    BY Numbers
  <2>7. /\ \A k \in FlowKeys : Windows!Held(memory[k]) \subseteq Windows!Held(next[k])
        /\ \A k \in FlowKeys : Windows!Held(next[k]) \subseteq Cells
    BY <2>3, <2>5, <2>6 DEF Windows!Held
  <2>8. CASE Windows!Held(memory[flow]) = Cells
    BY <2>7, <2>8 DEF NoRoomFor
  <2>9. CASE ~Windows!HasRoom(memory, flow)
    <3>1. flow \notin Windows!Known(memory) /\ key \in Windows!Known(memory) /\ flow # key
      BY <2>1, <2>9 DEF Windows!HasRoom
    <3>2. Windows!Known(next) = Windows!Known(memory)
      BY <2>5, <2>7, <3>1, SameInputs DEF Windows!Known
    <3> QED BY <2>9, <3>2 DEF NoRoomFor, Windows!HasRoom
  <2> QED BY <2>8, <2>9 DEF NoRoomFor
<1> QED BY <1>1, <1>2

LEMMA CallKeepsLossFits ==
    ASSUME RInv, CountType, CountFollows, LossFits, NEW p \in Packets, NEW t \in Times,
           t >= clock, Detect(p, t), audited' = audited, Observe(p, t)
    PROVE  LossFits'
<1>1. clock \in Nat /\ t \in Nat /\ t # 0 /\ Window \in Nat \ {0}
  BY Numbers, RuleFacts
<1>2. clock' = t /\ KeyOf(p) \in FlowKeys
  BY CallOfRule, KeysOfRule
<1> SUFFICES ASSUME NEW k \in FlowKeys, lost'[k] = t
             PROVE  NoRoomFor(RuleMemory', k)
  <2>1. (\A k \in FlowKeys : clock # 0 /\ lost[k] = clock => NoRoomFor(RuleMemory, k))'
           <=> \A k \in FlowKeys : clock' # 0 /\ lost'[k] = clock' => NoRoomFor(RuleMemory', k)
    BY DEF NoRoomFor
  <2> QED BY <1>2, <2>1 DEF LossFits
<1> DEFINE lostNow == /\ LooksAt(p) /\ k = KeyOf(p)
                      /\ ~(StampsIn(RuleMemory', KeyOf(p), t) > Stamps(KeyOf(p), t))
<1>3. lost'[k] = IF lostNow THEN t ELSE IF Within(t, lost[k], Window) THEN lost[k] ELSE 0
  BY CountStep
<1>4. CASE lostNow
  <2>1. Stamps(KeyOf(p), t) \in Nat
    BY LossRead
  <2>2. StampsIn(RuleMemory', KeyOf(p), t) # Stamps(KeyOf(p), t) + 1
    BY <1>4, <2>1
  <2> QED BY <1>4, <2>2, StampsNext
<1>5. CASE ~lostNow
  <2>1. lost[k] = t
    BY <1>1, <1>3, <1>5
  <2>2. clock = t
    BY <1>1, <2>1 DEF CountFollows
  <2>3. NoRoomFor(RuleMemory, k)
    BY <1>1, <2>1, <2>2 DEF LossFits
  <2>4. /\ RuleMemory = [m \in FlowKeys |-> RuleMemory[m]]
        /\ \A m \in FlowKeys : RuleMemory[m] \in MarksType(Cells, Times)
    BY RuleMemoryType
  <2>5. Windows!Aged(RuleMemory, t, Window) = RuleMemory
    <3>1. \A m \in FlowKeys : \A c \in Cells :
             RuleMemory[m][c] # 0 => t <= RuleMemory[m][c] + Window
      BY <2>2, RuleMemoryType DEF Within
    <3>2. \A m \in FlowKeys : [c \in DOMAIN RuleMemory[m] |->
             IF RuleMemory[m][c] # 0 /\ t <= RuleMemory[m][c] + Window
             THEN RuleMemory[m][c] ELSE 0] = RuleMemory[m]
      <4> TAKE m \in FlowKeys
      <4>1. RuleMemory[m] = [c \in Cells |-> RuleMemory[m][c]] /\ DOMAIN RuleMemory[m] = Cells
        BY <2>4 DEF MarksType
      <4> QED BY <3>1, <4>1
    <3> QED BY <2>4, <3>2, SameInputs DEF Windows!Aged
  <2>6. RuleMemory' \in Windows!WithEvent(RuleMemory, KeyOf(p), t) \/ RuleMemory' = RuleMemory
    BY <2>5, CallOfRule
  <2> QED BY <1>2, <2>3, <2>4, <2>6, NoRoomStays
<1> QED BY <1>4, <1>5

LEMMA CallKeepsFInv ==
    ASSUME FInv, NEW p \in Packets, NEW t \in Times, t >= clock, Detect(p, t), audited' = audited, Observe(p, t)
    PROVE  FInv'
<1>1. RInv /\ CountType /\ CountFollows /\ LossFits
  BY DEF FInv
<1>2. RInv' /\ CountType' /\ CountFollows' /\ LossFits'
  BY <1>1, RInvNext, CountStep, CallKeepsCountFollows, CallKeepsLossFits
<1>3. RuleAnswers'
  <2>1. /\ clock' = t /\ Threshold' = Threshold
        /\ verdict'.by = audited <=>
              LooksAt(p) /\ Windows!Reached(RuleMemory', KeyOf(p), Threshold)
    BY <1>1, CallOfRule
  <2>2. asked' = IF LooksAt(p) THEN KeyOf(p) ELSE NoKey
    BY <1>1, CountStep
  <2>3. KeyOf(p) # NoKey /\ t # 0
    BY KeysOfRule, Numbers
  <2>4. Windows!Reached(RuleMemory, asked, Threshold)'
           <=> Windows!Reached(RuleMemory', asked', Threshold)
    BY <2>1 DEF Windows!Reached
  <2> QED BY <2>1, <2>2, <2>3, <2>4 DEF RuleAnswers
<1> QED BY <1>2, <1>3 DEF FInv

LEMMA StutterKeepsFInv ==
    ASSUME FInv, UNCHANGED floodVars
    PROVE  FInv'
<1>1. UNCHANGED vars /\ UNCHANGED <<audited, arrived, lost, asked>>
  BY DEF floodVars
<1>2. RInv'
  BY <1>1, StutterIInv DEF FInv, RInv
<1>3. RuleMemory' = RuleMemory /\ Threshold' = Threshold /\ Window' = Window
  BY <1>1 DEF vars, RuleMemory, SynMemory, IcmpMemory, Memory, Threshold, Window, WindowOf
<1>4. CountType' /\ CountFollows' /\ LossFits' /\ RuleAnswers'
  BY <1>1, <1>3 DEF FInv, vars, CountType, CountFollows, Stamps, StampsIn, LossFits, NoRoomFor,
     RuleAnswers, Windows!Reached
<1> QED BY <1>2, <1>4 DEF FInv

\* The count and the memory stay together through every run, under either
\* flood rule.
THEOREM CountFollowed == FloodSpec => []FInv
<1>1. FInv /\ [FloodNext]_floodVars => FInv'
  BY CallKeepsFInv, StutterKeepsFInv DEF FloodNext
<1> QED BY FloodInitFInv, <1>1, PTL DEF FloodSpec

-----------------------------------------------------------------------------
(* The properties of the flood audit.                                      *)

\* What is remembered of the flow of the last packet, beside what it sent.
LEMMA AskedFlow ==
    ASSUME FInv, asked # NoKey
    PROVE  LET marks == RuleMemory[asked]
               held  == Windows!Held(marks)
               arrivals == InWindowOf(asked, clock)
           IN  /\ asked \in FlowKeys
               /\ held \in SUBSET Nat /\ IsFiniteSet(held)
               /\ \A c \in held : marks[c] \in Times
               /\ \A u \in Times : Cardinality(SameTime(held, marks, u)) = Stamps(asked, u)
               /\ \A u \in Times : Stamps(asked, u) \in Nat
               /\ \A u \in Times : ~Within(clock, u, Window) => Stamps(asked, u) = 0
               /\ arrivals \in [Times -> 0..ArrivalCap]
               /\ TrueArrivals(asked) = Numbered(Times, ArrivalCap, arrivals)
               /\ IsFiniteSet(TrueArrivals(asked))
               /\ Cardinality(TrueArrivals(asked)) \in Nat /\ Cardinality(held) \in Nat
               /\ verdict.by = audited <=> Cardinality(held) >= Threshold
<1> DEFINE marks == RuleMemory[asked]
           held  == Windows!Held(marks)
           arrivals == InWindowOf(asked, clock)
<1>1. RInv /\ CountType /\ CountFollows /\ RuleAnswers
  BY DEF FInv
<1>2. asked \in FlowKeys
  BY <1>1 DEF CountType
<1>3. marks \in MarksType(Cells, Times) /\ \A c \in Cells : marks[c] # 0 => Within(clock, marks[c], Window)
  BY <1>1, <1>2, RuleMemoryType
<1>4. held = {c \in Cells : marks[c] # 0} /\ held \in SUBSET Cells
  BY <1>3 DEF MarksType, Windows!Held
<1>5. verdict.by = audited <=> Cardinality(held) >= Threshold
  BY <1>1, SameCardinality DEF RuleAnswers, Windows!Reached
<1> HIDE DEF held
<1>6. IsFiniteSet(held) /\ held \in SUBSET Nat /\ Cardinality(held) \in Nat
  <2>1. Cells \in SUBSET Nat
    BY Numbers, LimitAssumption
  <2> QED BY <1>4, <2>1, Numbers, FS_Subset, FS_CardinalityType
<1>7. \A c \in held : marks[c] \in Times
  BY <1>3, <1>4 DEF MarksType
<1>8. ASSUME NEW u \in Times
      PROVE  /\ Cardinality(SameTime(held, marks, u)) = Stamps(asked, u)
             /\ Stamps(asked, u) \in Nat
             /\ ~Within(clock, u, Window) => Stamps(asked, u) = 0
  <2>1. u # 0
    BY Numbers
  <2>2. SameTime(held, marks, u) = {c \in Cells : RuleMemory[asked][c] = u}
    BY <1>4, <2>1 DEF SameTime
  <2>3. SameTime(held, marks, u) \in SUBSET Cells
    BY <2>2
  <2>4. Cardinality(SameTime(held, marks, u)) \in Nat
    BY <2>3, Numbers, FS_Subset, FS_CardinalityType
  <2>5. ~Within(clock, u, Window) => SameTime(held, marks, u) = {}
    BY <1>3, <2>1, <2>2
  <2> QED BY <2>2, <2>4, <2>5, FS_EmptySet DEF Stamps, StampsIn
<1>9. arrivals \in [Times -> 0..ArrivalCap]
  <2>1. ArrivalCap \in Nat
    BY <1>1, RuleFacts
  <2>2. \A u \in Times : arrived[asked][u] \in 0..ArrivalCap
    BY <1>1, <1>2 DEF CountType
  <2> QED BY <2>1, <2>2 DEF InWindowOf
<1>10. TrueArrivals(asked) = Numbered(Times, ArrivalCap, arrivals)
  BY DEF TrueArrivals, Numbered
<1>11. IsFiniteSet(TrueArrivals(asked)) /\ Cardinality(TrueArrivals(asked)) \in Nat
  <2>1. clock \in Nat /\ ArrivalCap \in Nat
    BY <1>1, RuleFacts
  <2>2. TrueArrivals(asked) \in SUBSET ((1..clock) \X (1..ArrivalCap))
    <3> SUFFICES ASSUME NEW a \in TrueArrivals(asked)
                 PROVE  a \in (1..clock) \X (1..ArrivalCap)
      OBVIOUS
    <3>1. /\ a[1] \in Times /\ a[2] \in 1..ArrivalCap /\ a = <<a[1], a[2]>>
          /\ a[2] <= InWindowOf(asked, clock)[a[1]]
      BY DEF TrueArrivals
    <3>2. arrived[asked][a[1]] # 0
      <4>1. InWindowOf(asked, clock)[a[1]] # 0
        BY <3>1
      <4> QED BY <3>1, <4>1 DEF InWindowOf
    <3>3. a[1] <= clock
      BY <1>1, <1>2, <3>1, <3>2 DEF CountFollows
    <3>4. a[1] \in Nat /\ a[1] # 0
      BY <3>1, Numbers
    <3>5. a[1] \in 1..clock
      BY <2>1, <3>3, <3>4
    <3> QED BY <3>1, <3>5
  <2>3. IsFiniteSet((1..clock) \X (1..ArrivalCap))
    <3>1. IsFiniteSet(1..clock) /\ IsFiniteSet(1..ArrivalCap)
      BY <2>1, FS_Interval
    <3> QED BY <3>1, FS_Product
  <2> QED BY <2>2, <2>3, FS_Subset, FS_CardinalityType
<1> QED BY <1>2, <1>5, <1>6, <1>7, <1>8, <1>9, <1>10, <1>11 DEF held

\* A flow with as many packets of one time as are counted is a flood.
LEMMA FullTimeIsFlood ==
    ASSUME NEW times, NEW cap \in Nat, NEW arrivals \in [times -> 0..cap],
           IsFiniteSet(Numbered(times, cap, arrivals)), NEW u \in times, arrivals[u] = cap
    PROVE  cap <= Cardinality(Numbered(times, cap, arrivals))
<1> DEFINE f == [n \in 1..cap |-> <<u, n>>]
<1>1. f \in [1..cap -> Numbered(times, cap, arrivals)]
  BY DEF Numbered
<1>2. f \in Injection(1..cap, Numbered(times, cap, arrivals))
  BY <1>1 DEF Injection, IsInjective
<1> HIDE DEF f
<1>3. Cardinality(1..cap) <= Cardinality(Numbered(times, cap, arrivals))
  BY <1>2, FS_Injection
<1>4. Cardinality(1..cap) = cap
  BY FS_Interval
<1> QED BY <1>3, <1>4

\* No event is counted twice, kept past its window or taken over from another
\* flow: a flood is claimed only of a flow that sent that many packets.
THEOREM FloodsAreReal == FloodSpec => []NoFalseAlarm
<1>1. FInv => NoFalseAlarm
  <2> SUFFICES ASSUME FInv, verdict.by = audited PROVE Flood
    BY DEF NoFalseAlarm
  <2>1. asked # NoKey /\ CountFollows
    BY DEF FInv, RuleAnswers
  <2> DEFINE marks == RuleMemory[asked]
             held  == Windows!Held(marks)
             arrivals == InWindowOf(asked, clock)
  <2>2. /\ asked \in FlowKeys
        /\ held \in SUBSET Nat /\ IsFiniteSet(held)
        /\ \A c \in held : marks[c] \in Times
        /\ \A u \in Times : Cardinality(SameTime(held, marks, u)) = Stamps(asked, u)
        /\ \A u \in Times : ~Within(clock, u, Window) => Stamps(asked, u) = 0
        /\ arrivals \in [Times -> 0..ArrivalCap]
        /\ TrueArrivals(asked) = Numbered(Times, ArrivalCap, arrivals)
        /\ IsFiniteSet(Numbered(Times, ArrivalCap, arrivals))
        /\ Cardinality(TrueArrivals(asked)) \in Nat /\ Cardinality(held) \in Nat
        /\ Cardinality(held) >= Threshold
    BY <2>1, AskedFlow
  <2>3. Threshold \in Nat /\ ArrivalCap \in Nat /\ ArrivalCap >= Threshold
    BY RuleFacts DEF FInv
  <2>4. \A u \in Times : arrivals[u] = IF Within(clock, u, Window) THEN arrived[asked][u] ELSE 0
    BY DEF InWindowOf
  <2> HIDE DEF marks, held, arrivals
  <2>5. CASE \E u \in Times : arrivals[u] = ArrivalCap
    <3>1. ArrivalCap <= Cardinality(TrueArrivals(asked))
      BY <2>2, <2>3, <2>5, FullTimeIsFlood
    <3>2. Cardinality(TrueArrivals(asked)) >= Threshold
      BY <2>2, <2>3, <3>1
    <3> QED BY <2>1, <3>2 DEF Flood
  <2>6. CASE \A u \in Times : arrivals[u] # ArrivalCap
    <3>1. \A u \in Times : Cardinality(SameTime(held, marks, u)) <= arrivals[u]
      <4> TAKE u \in Times
      <4>1. CASE Within(clock, u, Window)
        BY <2>1, <2>2, <2>4, <2>6, <4>1 DEF CountFollows
      <4>2. CASE ~Within(clock, u, Window)
        BY <2>2, <2>4, <4>2
      <4> QED BY <4>1, <4>2
    <3>2. Cardinality(held) <= Cardinality(TrueArrivals(asked))
      BY <2>2, <2>3, <3>1, MarksWithinArrivals
    <3>3. Cardinality(TrueArrivals(asked)) >= Threshold
      BY <2>2, <2>3, <3>2
    <3> QED BY <2>1, <3>3 DEF Flood
  <2> QED BY <2>5, <2>6
<1> QED BY CountFollowed, <1>1, PTL

\* Compaction, reuse of slots and searches that end early lose nothing: a flood
\* goes unclaimed only if a packet of it was not remembered.
THEOREM MissedFloodsAreExplained == FloodSpec => []MissedOnlyAfterLoss
<1>1. FInv => MissedOnlyAfterLoss
  <2> SUFFICES ASSUME FInv, Flood, ~Within(clock, lost[asked], Window) PROVE verdict.by = audited
    BY DEF MissedOnlyAfterLoss
  <2>1. /\ asked # NoKey /\ Cardinality(TrueArrivals(asked)) >= Threshold
        /\ RInv /\ CountType /\ CountFollows
    BY DEF FInv, Flood
  <2> DEFINE marks == RuleMemory[asked]
             held  == Windows!Held(marks)
             arrivals == InWindowOf(asked, clock)
  <2>2. /\ asked \in FlowKeys
        /\ IsFiniteSet(held)
        /\ \A u \in Times : Cardinality(SameTime(held, marks, u)) = Stamps(asked, u)
        /\ \A u \in Times : Stamps(asked, u) \in Nat
        /\ arrivals \in [Times -> 0..ArrivalCap]
        /\ TrueArrivals(asked) = Numbered(Times, ArrivalCap, arrivals)
        /\ Cardinality(TrueArrivals(asked)) \in Nat /\ Cardinality(held) \in Nat
        /\ verdict.by = audited <=> Cardinality(held) >= Threshold
    BY <2>1, AskedFlow
  <2>3. Threshold \in Nat /\ ArrivalCap \in Nat /\ clock \in Nat /\ Window \in Nat
    BY <2>1, RuleFacts
  <2>4. \A u \in Times : arrivals[u] = IF Within(clock, u, Window) THEN arrived[asked][u] ELSE 0
    BY DEF InWindowOf
  <2>5. lost[asked] \in Nat
    BY <2>1, <2>2, TimesAreNumbers DEF CountType
  <2> HIDE DEF marks, held, arrivals
  <2>6. \A u \in Times : arrivals[u] <= Cardinality(SameTime(held, marks, u))
    <3> TAKE u \in Times
    <3>1. CASE Within(clock, u, Window)
      <4>1. u \in Nat
        BY Numbers
      <4>2. lost[asked] < u
        BY <2>3, <2>5, <3>1, <4>1, WithinLater
      <4> QED BY <2>1, <2>2, <2>4, <3>1, <4>2 DEF CountFollows
    <3>2. CASE ~Within(clock, u, Window)
      BY <2>2, <2>4, <3>2
    <3> QED BY <3>1, <3>2
  <2>7. Cardinality(TrueArrivals(asked)) <= Cardinality(held)
    BY <2>2, <2>3, <2>6, ArrivalsWithinMarks
  <2>8. Cardinality(held) >= Threshold
    BY <2>1, <2>2, <2>3, <2>7
  <2> QED BY <2>2, <2>8
<1> QED BY CountFollowed, <1>1, PTL

\* With as many flows known as there are slots every slot is in use, by a flow
\* with an event inside the window.
LEMMA NoSlotIsBusy ==
    ASSUME RInv, NEW flow \in FlowKeys, ~Windows!HasRoom(RuleMemory, flow)
    PROVE  Busy(Table, Window)
<1> DEFINE known == Windows!Known(RuleMemory)
           f == [k \in known |-> Least(SlotsOf(Table, k))]
<1>1. /\ GoodFlows(Table, Cells) /\ RuleMemory = Memory(Table, Cells, clock, Window)
      /\ DOMAIN Table = 1..MaxHosts /\ MaxHosts \in Nat
  BY RuleFacts, LimitAssumption DEF GoodFlows, GoodTable
<1>2. ~(Cardinality(known) < MaxHosts)
  BY SameCardinality DEF Windows!HasRoom
<1>3. ASSUME NEW k \in known
      PROVE  /\ k \in FlowKeys /\ f[k] \in 1..MaxHosts /\ Table[f[k]].key = k
             /\ \E c \in Cells : RuleMemory[k][c] # 0
  <2>1. k \in FlowKeys /\ Windows!Held(RuleMemory[k]) # {}
    BY SameInputs DEF Windows!Known
  <2>2. \E c \in Cells : RuleMemory[k][c] # 0
    BY <2>1, RuleMemoryType DEF Windows!Held, MarksType
  <2>3. SlotsOf(Table, k) # {}
    BY <1>1, <2>1, <2>2 DEF Memory, NoMarks
  <2>4. Least(SlotsOf(Table, k)) \in SlotsOf(Table, k)
    <3>1. SlotsOf(Table, k) \subseteq 1..MaxHosts
      BY <1>1 DEF SlotsOf
    <3> QED BY <2>3, <3>1, LeastIsLeast
  <2> QED BY <1>1, <2>1, <2>2, <2>4 DEF SlotsOf
<1> HIDE DEF known, f
<1>4. f \in Injection(known, 1..MaxHosts)
  <2>1. f \in [known -> 1..MaxHosts]
    <3>1. f = [k \in known |-> f[k]]
      BY DEF f
    <3> QED BY <1>3, <3>1
  <2> QED BY <1>3, <2>1 DEF Injection, IsInjective
<1>5. IsFiniteSet(1..MaxHosts) /\ Cardinality(1..MaxHosts) = MaxHosts
  BY <1>1, FS_Interval
<1>6. /\ IsFiniteSet(known) /\ Cardinality(known) \in Nat
      /\ Cardinality(known) = MaxHosts
  <2>1. IsFiniteSet(known) /\ Cardinality(known) <= MaxHosts
    BY <1>4, <1>5, FS_Injection
  <2>2. Cardinality(known) \in Nat
    BY <2>1, FS_CardinalityType
  <2> QED BY <1>1, <1>2, <2>1, <2>2
<1>7. \A i \in 1..MaxHosts : \E k \in known : f[k] = i
  <2>1. f \in Surjection(known, 1..MaxHosts)
    BY <1>4, <1>5, <1>6, FS_Injection
  <2> QED BY <2>1 DEF Surjection
<1>8. ASSUME NEW i \in 1..MaxHosts
      PROVE  \E c \in DOMAIN Table[i].marks : Within(clock, Table[i].marks[c], Window)
  <2>1. PICK k \in known : f[k] = i
    BY <1>7
  <2>2. k \in FlowKeys /\ Table[i].key = k
    BY <1>3, <2>1
  <2>3. PICK c \in Cells : RuleMemory[k][c] # 0
    BY <1>3
  <2>4. RuleMemory[k] = Fresh(Table[i].marks, clock, Window)
    BY <1>1, <2>2, MemoryOfFlow
  <2>5. DOMAIN Table[i].marks = Cells
    BY <1>1 DEF GoodFlows, GoodTable, Slot
  <2> QED BY <2>3, <2>4, <2>5 DEF Fresh
<1> QED BY <1>1, <1>8 DEF Busy

\* detector.c:414 and :589: a packet is forgotten because every slot is busy,
\* or because the array of its flow is full, and then the flow is claimed.
THEOREM LossesAreExplained == FloodSpec => []LossHasCause
<1>1. FInv => LossHasCause
  <2> SUFFICES ASSUME FInv, asked # NoKey, lost[asked] = clock
               PROVE  Busy(Table, Window) \/ verdict.by = audited \/ OutOfReach(audited)
    BY DEF LossHasCause
  <2>1. RInv /\ CountType /\ LossFits /\ clock # 0
    BY DEF FInv, RuleAnswers
  <2>2. asked \in FlowKeys
    BY <2>1 DEF CountType
  <2>3. NoRoomFor(RuleMemory, asked)
    BY <2>1, <2>2 DEF LossFits
  <2>4. CASE ~Windows!HasRoom(RuleMemory, asked)
    BY <2>1, <2>2, <2>4, NoSlotIsBusy
  <2>5. CASE Windows!Held(RuleMemory[asked]) = Cells
    <3>1. verdict.by = audited <=> Cardinality(Cells) >= Threshold
      BY <2>5, AskedFlow
    <3>2. Cardinality(Cells) = MaxEvents /\ MaxEvents \in Nat
      BY Numbers, LimitAssumption, FS_Interval
    <3>3. Threshold \in Nat
      BY <2>1, RuleFacts
    <3>4. Threshold > MaxEvents => OutOfReach(audited)
      BY <2>1 DEF RInv, FloodRules, Threshold, OutOfReach
    <3> QED BY <3>1, <3>2, <3>3, <3>4
  <2> QED BY <2>3, <2>4, <2>5 DEF NoRoomFor
<1> QED BY CountFollowed, <1>1, PTL
=============================================================================
