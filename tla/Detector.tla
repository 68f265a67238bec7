------------------------------ MODULE Detector ------------------------------
(***************************************************************************)
(* The detection rules of detector.c.  One step is one call of             *)
(* detect_packet: the rules are tried in their fixed order and the first   *)
(* that claims the packet ends the call, whether or not its alert is       *)
(* suppressed by the cooldown.  Rules behind the one that claims neither   *)
(* alert nor remember the packet.                                          *)
(***************************************************************************)
EXTENDS RuleInputs, TrackTable

ASSUME KeyAssumption ==
    /\ NoPort \notin Ports
    /\ NoKey \notin FlowKeys
    /\ NoKey \notin AlertKeys

VARIABLES
    config,       \* detector_config
    synTable,     \* syn_flood_states
    scanTable,    \* port_scan_states
    icmpTable,    \* icmp_flood_states
    history,      \* alert_history
    clock,        \* the time of the last packet, 0 before the first
    verdict       \* the last DetectionResult, with the rule that claimed

tables == <<synTable, scanTable, icmpTable>>
vars == <<config, synTable, scanTable, icmpTable, history, clock, verdict>>

-----------------------------------------------------------------------------
(* The alert history (should_emit_alert and save_alert_history).           *)

Unused == [key |-> NoKey, last |-> 0]

\* Mutant of Incidents: the addresses are not compared.
IncidentsOfAnyPair(key) ==
    {i \in DOMAIN history :
        /\ history[i].key # NoKey
        /\ history[i].key[1] = key[1]          \* the rule
        /\ history[i].key[2][2] = key[2][2]}   \* the port

\* alert_key_matches
Incidents(key) == {i \in DOMAIN history : history[i].key = key}

\* Mutant of Reusable: an entry whose cooldown has passed is never taken over.
ReusableNever(now) == {i \in DOMAIN history : history[i].last = 0}

\* Entries a new incident may take: never used, or out of cooldown.
Reusable(now) ==
    {i \in DOMAIN history : ~Within(now, history[i].last, config.cooldown)}

InCooldown(key, now) ==
    /\ Incidents(key) # {}
    /\ Within(now, history[Least(Incidents(key))].last, config.cooldown)

ShouldEmit(key, now) == config.cooldown = 0 \/ ~InCooldown(key, now)

\* Mutants of HistoryAfter: an incident always takes a new entry; the first
\* entry is evicted when the array is full; an entry is written behind its end.
Recorded(slot, key, now) ==
    IF config.cooldown = 0 \/ InCooldown(key, now) \/ slot = {}
    THEN history
    ELSE [history EXCEPT ![Least(slot)] = [key |-> key, last |-> now]]

HistoryAfterNewEntry(key, now) == Recorded(Reusable(now), key, now)

HistoryAfterEviction(key, now) ==
    LET slot == IF Incidents(key) # {} THEN Incidents(key) ELSE Reusable(now) IN
    Recorded(IF slot = {} THEN {1} ELSE slot, key, now)

HistoryAfterOverrun(key, now) ==
    LET slot == IF Incidents(key) # {} THEN Incidents(key) ELSE Reusable(now) IN
    IF slot = {}
    THEN [i \in 1..(MaxHistory + 1) |->
             IF i > MaxHistory THEN [key |-> key, last |-> now] ELSE history[i]]
    ELSE Recorded(slot, key, now)

\* With every entry in cooldown a new incident is alerted but not remembered.
HistoryAfter(key, now) ==
    LET slot == IF Incidents(key) # {} THEN Incidents(key) ELSE Reusable(now) IN
    IF config.cooldown = 0 \/ InCooldown(key, now) \/ slot = {}
    THEN history
    ELSE [history EXCEPT ![Least(slot)] = [key |-> key, last |-> now]]

-----------------------------------------------------------------------------
(* What the stateful rules remember of packet p at time t, when they are   *)
(* reached, and whether they then claim it.                                *)

SynLooksAt(p)  == config.synFlood  /\ IsTcpSynWithoutAck(p)
ScanLooksAt(p) == config.portScan  /\ IsTcpSynWithoutAck(p)
IcmpLooksAt(p) == config.icmpFlood /\ IsEchoRequest(p)

SynAfter(p, t) ==
    IF SynLooksAt(p)
    THEN TrackEvent(synTable, PortKey(p), t, config.synWindow)
    ELSE synTable

ScanAfter(p, t) ==
    IF ScanLooksAt(p)
    THEN TrackPort(scanTable, PairKey(p), p.port, t, config.scanWindow, MaxPorts)
    ELSE scanTable

\* Mutant of IcmpAfter: the table is compacted with the window of the SYN rule.
IcmpAfterSynWindow(p, t) ==
    IF IcmpLooksAt(p)
    THEN TrackEvent(icmpTable, PairKey(p), t, config.synWindow)
    ELSE icmpTable

IcmpAfter(p, t) ==
    IF IcmpLooksAt(p)
    THEN TrackEvent(icmpTable, PairKey(p), t, config.icmpWindow)
    ELSE icmpTable

SynClaims(p, t) ==
    SynLooksAt(p) /\ Tally(SynAfter(p, t), PortKey(p)) >= config.synThreshold
ScanClaims(p, t) ==
    ScanLooksAt(p) /\ Tally(ScanAfter(p, t), PairKey(p)) >= config.scanThreshold

IcmpClaims(p, t) ==
    IcmpLooksAt(p) /\ Tally(IcmpAfter(p, t), PairKey(p)) >= config.icmpThreshold

SuspiciousClaims(p) == config.suspiciousPort /\ IsTcpOrUdp(p) /\ p.port \in RiskyPorts
EchoClaims(p)       == config.icmpEcho /\ IsEchoRequest(p)
WatchClaims(p)      == config.synWatch /\ IsTcpSynWithoutAck(p)

-----------------------------------------------------------------------------
(* The result of a call (empty_detection_result, set_alert,                *)
(* set_alert_details).  "by" is the rule whose check returned 1; it is the *)
(* alert's type when "alert" holds and is not in the result otherwise.     *)

VerdictType ==
    [by : Rules \cup {"none"}, key : FlowKeys \cup {NoKey}, alert : BOOLEAN,
     count : Nat, first : Times \cup {0}, last : Times \cup {0}]

Nothing == [by |-> "none", key |-> NoKey, alert |-> FALSE,
            count |-> 0, first |-> 0, last |-> 0]

\* The rule claims packet p: the cooldown decides whether it also alerts,
\* and only an alert carries evidence.
Claim(rule, key, now, evidence) ==
    /\ verdict' = IF ShouldEmit(<<rule, key>>, now)
                  THEN [by |-> rule, key |-> key, alert |-> TRUE,
                        count |-> evidence.count,
                        first |-> evidence.first, last |-> evidence.last]
                  ELSE [Nothing EXCEPT !.by = rule, !.key = key]
    /\ history' = HistoryAfter(<<rule, key>>, now)

MarksEvidence(marks) ==
    [count |-> Count(marks), first |-> FirstSeen(marks), last |-> LastSeen(marks)]

PacketEvidence(now) == [count |-> 1, first |-> now, last |-> now]

-----------------------------------------------------------------------------
Init ==
    /\ config \in Configs
    /\ synTable  = EmptyTable(MaxHosts, Cells)
    /\ scanTable = EmptyTable(MaxHosts, Ports)
    /\ icmpTable = EmptyTable(MaxHosts, Cells)
    /\ history   = [i \in 1..MaxHistory |-> Unused]
    /\ clock     = 0
    /\ verdict   = Nothing

\* check_syn_flood returns 1.
RaiseSynFlood(p, t) ==
    /\ SynClaims(p, t)
    /\ synTable' = SynAfter(p, t)
    /\ UNCHANGED <<scanTable, icmpTable>>
    /\ Claim("SYN Flood", PortKey(p), t, MarksEvidence(MarksOf(SynAfter(p, t), PortKey(p))))

\* check_syn_flood returned 0 and check_port_scan returns 1.
RaisePortScan(p, t) ==
    /\ ~SynClaims(p, t)
    /\ ScanClaims(p, t)
    /\ synTable'  = SynAfter(p, t)
    /\ scanTable' = ScanAfter(p, t)
    /\ UNCHANGED icmpTable
    /\ Claim("Port Scan", PairKey(p), t, MarksEvidence(MarksOf(ScanAfter(p, t), PairKey(p))))

\* check_icmp_flood returns 1; its packets are of no interest to the two
\* rules before it.
RaiseIcmpFlood(p, t) ==
    /\ IcmpClaims(p, t)
    /\ icmpTable' = IcmpAfter(p, t)
    /\ UNCHANGED <<synTable, scanTable>>
    /\ Claim("ICMP Flood", PairKey(p), t, MarksEvidence(MarksOf(IcmpAfter(p, t), PairKey(p))))

\* No stateful rule claims the packet, but each has remembered it.
FallThrough(p, t) ==
    /\ ~SynClaims(p, t) /\ ~ScanClaims(p, t) /\ ~IcmpClaims(p, t)
    /\ synTable'  = SynAfter(p, t)
    /\ scanTable' = ScanAfter(p, t)
    /\ icmpTable' = IcmpAfter(p, t)

RaiseSuspiciousPort(p, t) ==
    /\ FallThrough(p, t)
    /\ SuspiciousClaims(p)
    /\ Claim("Suspicious Port", PortKey(p), t, PacketEvidence(t))

RaiseIcmpEcho(p, t) ==
    /\ FallThrough(p, t)
    /\ ~SuspiciousClaims(p) /\ EchoClaims(p)
    /\ Claim("ICMP Echo Request", PairKey(p), t, PacketEvidence(t))

RaiseSynWatch(p, t) ==
    /\ FallThrough(p, t)
    /\ ~SuspiciousClaims(p) /\ ~EchoClaims(p) /\ WatchClaims(p)
    /\ Claim("TCP SYN Watch", PortKey(p), t, PacketEvidence(t))

NoRule(p, t) ==
    /\ FallThrough(p, t)
    /\ ~SuspiciousClaims(p) /\ ~EchoClaims(p) /\ ~WatchClaims(p)
    /\ verdict' = Nothing
    /\ UNCHANGED history

\* detect_packet of a valid packet p stamped t.
Detect(p, t) ==
    /\ clock' = t
    /\ UNCHANGED config
    /\ \/ RaiseSynFlood(p, t)
       \/ RaisePortScan(p, t)
       \/ RaiseIcmpFlood(p, t)
       \/ RaiseSuspiciousPort(p, t)
       \/ RaiseIcmpEcho(p, t)
       \/ RaiseSynWatch(p, t)
       \/ NoRule(p, t)

\* Timestamps come from the capture file or from time(): nothing in the code
\* makes them increase.
Next == \E p \in Packets, t \in Times : Detect(p, t)

\* Traffic whose timestamps never go back.
OrderedNext == \E p \in Packets, t \in Times : t >= clock /\ Detect(p, t)

Spec == Init /\ [][Next]_vars
OrderedSpec == Init /\ [][OrderedNext]_vars

-----------------------------------------------------------------------------
TypeOK ==
    /\ config \in Configs
    /\ synTable  \in [1..MaxHosts -> Slot(Cells, Times, FlowKeys)]
    /\ scanTable \in [1..MaxHosts -> Slot(Ports, Times, FlowKeys)]
    /\ icmpTable \in [1..MaxHosts -> Slot(Cells, Times, FlowKeys)]
    /\ history \in [1..MaxHistory ->
                       [key : AlertKeys \cup {NoKey}, last : Times \cup {0}]]
    /\ clock \in Times \cup {0}
    /\ verdict \in VerdictType

\* No flow is tracked by two slots of a table, and no incident by two entries
\* of the history, however slots are freed, reused and left uncompacted by the
\* early returns of find_..._state; otherwise events of one flow would be
\* counted apart and a threshold missed.
FlowsTrackedOnce ==
    /\ OneSlotPerKey(synTable)
    /\ OneSlotPerKey(scanTable)
    /\ OneSlotPerKey(icmpTable)
    /\ OneSlotPerKey(history)

\* in_use goes with a count above 0 (the tables have no other way to free a
\* slot), and the port table never outgrows ports[].
SlotsInUse ==
    /\ \A table \in {synTable, scanTable, icmpTable} :
          \A i \in DOMAIN table : SlotInUse(table[i])
    /\ \A i \in DOMAIN scanTable : Count(scanTable[i].marks) <= MaxPorts

\* detector_init warns of a threshold above what the memory of its rule can
\* count to.
OutOfReach(rule) ==
    \/ rule = "SYN Flood"  /\ config.synThreshold > MaxEvents
    \/ rule = "Port Scan"  /\ config.scanThreshold > MaxPorts
    \/ rule = "ICMP Flood" /\ config.icmpThreshold > MaxEvents

\* The warning is the whole truth: such a rule claims no packet of any traffic,
\* so that with it on the rules behind it see all there is.  An array written
\* past its end, or a port kept above the limit, would make it claim.
OutOfReachNeverClaims == ~OutOfReach(verdict.by)

\* The evidence "Source sent N packets within W seconds" of a flood or scan
\* alert is true: the N events it counts lie within W seconds of each other.
WindowOf(rule) ==
    CASE rule = "SYN Flood"  -> config.synWindow
      [] rule = "Port Scan"  -> config.scanWindow
      [] rule = "ICMP Flood" -> config.icmpWindow
      [] OTHER               -> 0

EvidenceHolds ==
    verdict.alert =>
        /\ verdict.first <= verdict.last
        /\ verdict.last <= verdict.first + WindowOf(verdict.by)

\* A packet is refused by a full table only when every slot holds an event
\* still inside the window: an expired flow never keeps a new one out.
Busy(table, window) ==
    \A i \in DOMAIN table :
        \E c \in DOMAIN table[i].marks : Within(clock, table[i].marks[c], window)

RefusedOnlyWhenBusy ==
    [][\A p \in Packets :
          /\ SynLooksAt(p) /\ Tally(synTable, PortKey(p))' = 0
             /\ synTable' = SynAfter(p, clock') => Busy(synTable, config.synWindow)'
          /\ ScanLooksAt(p) /\ Tally(scanTable, PairKey(p))' = 0
             /\ scanTable' = ScanAfter(p, clock') => Busy(scanTable, config.scanWindow)'
          /\ IcmpLooksAt(p) /\ Tally(icmpTable, PairKey(p))' = 0
             /\ icmpTable' = IcmpAfter(p, clock') => Busy(icmpTable, config.icmpWindow)'
      ]_vars

\* Whatever packet comes, in order or not, no flow loses what the rules still
\* count of it: neither the search for another flow's slot nor a full table
\* evicts a slot with an event inside the window, and an event is never
\* overwritten.  A port seen again takes the time of the packet.
LiveEventsStay ==
    [][/\ LiveKept(synTable, synTable', clock', config.synWindow, {})
       /\ LiveKept(scanTable, scanTable', clock', config.scanWindow, {clock'})
       /\ LiveKept(icmpTable, icmpTable', clock', config.icmpWindow, {})
      ]_vars
=============================================================================
