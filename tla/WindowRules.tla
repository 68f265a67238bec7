---------------------------- MODULE WindowRules ----------------------------
(***************************************************************************)
(* What the rules of detector.c promise, without the arrays they keep      *)
(* their memory in: each stateful rule has one memory per flow, which      *)
(* holds the marks inside the rule's window and nothing else.  There are   *)
(* no slots, no search, no compaction and no state left behind by a        *)
(* search that ended early; and the cooldown silences an incident exactly  *)
(* as long as one of its alerts is in its memory.  Only the limits show.   *)
(* Timestamps do not go back.                                              *)
(***************************************************************************)
EXTENDS RuleInputs

VARIABLES
    config,       \* the configuration
    clock,        \* the time of the last packet
    synMemory,    \* what the SYN flood rule remembers of each flow
    scanMemory,   \* the ports the scan rule remembers of each pair
    icmpMemory,   \* what the ICMP flood rule remembers of each pair
    claimed,      \* the rule that claimed the last packet, or "none"
    recent,       \* the alert of each incident that is still in cooldown, by its time
    alerted       \* whether the last packet raised an alert

vars == <<config, clock, synMemory, scanMemory, icmpMemory, claimed, recent, alerted>>

Nowhere(cells) == [k \in FlowKeys |-> [c \in cells |-> 0]]

Held(marks) == {c \in DOMAIN marks : marks[c] # 0}
Known(memory) == {k \in FlowKeys : Held(memory[k]) # {}}

\* The memory at time t: the marks whose window has passed are gone.
Aged(memory, t, window) ==
    [k \in FlowKeys |->
        [c \in DOMAIN memory[k] |->
            IF memory[k][c] # 0 /\ t <= memory[k][c] + window THEN memory[k][c] ELSE 0]]

\* A flow is taken up while fewer than MaxHosts others are known.
HasRoom(memory, key) == key \in Known(memory) \/ Cardinality(Known(memory)) < MaxHosts

\* An event is remembered in some empty cell, when there is one.
WithEvent(memory, key, t) ==
    LET empty == DOMAIN memory[key] \ Held(memory[key]) IN
    IF HasRoom(memory, key) /\ empty # {}
    THEN {[memory EXCEPT ![key][c] = t] : c \in empty}
    ELSE {memory}

\* A port is remembered once, with the time it was last seen.
WithPort(memory, key, port, t) ==
    IF /\ HasRoom(memory, key)
       /\ port \in Held(memory[key]) \/ Cardinality(Held(memory[key])) < MaxPorts
    THEN [memory EXCEPT ![key][port] = t]
    ELSE memory

Reached(memory, key, threshold) == Cardinality(Held(memory[key])) >= threshold

-----------------------------------------------------------------------------
Init ==
    /\ config \in Configs
    /\ clock = 0
    /\ synMemory  = Nowhere(Cells)
    /\ scanMemory = Nowhere(Ports)
    /\ icmpMemory = Nowhere(Cells)
    /\ claimed = "none"
    /\ recent = [k \in AlertKeys |-> 0]
    /\ alerted = FALSE

\* The rules in their order.  A rule is asked only when none before it has
\* claimed the packet, and remembers only what it is asked about.
AskSynFlood(p, t) ==
    LET aged == Aged(synMemory, t, config.synWindow) IN
    IF config.synFlood /\ IsTcpSynWithoutAck(p)
    THEN synMemory' \in WithEvent(aged, PortKey(p), t)
    ELSE synMemory' = aged

SynFlood(p) ==
    /\ config.synFlood /\ IsTcpSynWithoutAck(p)
    /\ Reached(synMemory', PortKey(p), config.synThreshold)

AskPortScan(p, t) ==
    LET aged == Aged(scanMemory, t, config.scanWindow) IN
    IF config.portScan /\ IsTcpSynWithoutAck(p) /\ ~SynFlood(p)
    THEN scanMemory' = WithPort(aged, PairKey(p), p.port, t)
    ELSE scanMemory' = aged

PortScan(p) ==
    /\ config.portScan /\ IsTcpSynWithoutAck(p) /\ ~SynFlood(p)
    /\ Reached(scanMemory', PairKey(p), config.scanThreshold)

AskIcmpFlood(p, t) ==
    LET aged == Aged(icmpMemory, t, config.icmpWindow) IN
    IF config.icmpFlood /\ IsEchoRequest(p)
    THEN icmpMemory' \in WithEvent(aged, PairKey(p), t)
    ELSE icmpMemory' = aged

IcmpFlood(p) ==
    /\ config.icmpFlood /\ IsEchoRequest(p)
    /\ Reached(icmpMemory', PairKey(p), config.icmpThreshold)

Answer(p) ==
    CASE SynFlood(p)  -> "SYN Flood"
      [] PortScan(p)  -> "Port Scan"
      [] IcmpFlood(p) -> "ICMP Flood"
      [] OTHER        ->
           CASE config.suspiciousPort /\ IsTcpOrUdp(p) /\ p.port \in RiskyPorts
                              -> "Suspicious Port"
             [] config.icmpEcho /\ IsEchoRequest(p)
                              -> "ICMP Echo Request"
             [] config.synWatch /\ IsTcpSynWithoutAck(p)
                   /\ ~(config.suspiciousPort /\ p.port \in RiskyPorts)
                              -> "TCP SYN Watch"
             [] OTHER         -> "none"

\* Rules that tell the incidents of two ports apart.
PortRules == {"SYN Flood", "Suspicious Port", "TCP SYN Watch"}
IncidentOf(rule, p) == <<rule, IF rule \in PortRules THEN PortKey(p) ELSE PairKey(p)>>

\* The alerts whose cooldown lasts until time t.
Cooling(t) ==
    [k \in AlertKeys |->
        IF recent[k] # 0 /\ t <= recent[k] + config.cooldown THEN recent[k] ELSE 0]

\* A claim alerts unless its incident is cooling, and the alert is remembered
\* while fewer than MaxHistory are.
AskCooldown(p, t) ==
    LET key == IncidentOf(Answer(p), p) IN
    /\ alerted' = (Answer(p) # "none" /\ Cooling(t)[key] = 0)
    /\ recent' = IF /\ alerted' /\ config.cooldown > 0
                    /\ Cardinality(Held(Cooling(t))) < MaxHistory
                 THEN [Cooling(t) EXCEPT ![key] = t]
                 ELSE Cooling(t)

Look(p, t) ==
    /\ t >= clock
    /\ clock' = t
    /\ UNCHANGED config
    /\ AskSynFlood(p, t) /\ AskPortScan(p, t) /\ AskIcmpFlood(p, t)
    /\ claimed' = Answer(p)
    /\ AskCooldown(p, t)

Next == \E p \in Packets, t \in Times : Look(p, t)

Spec == Init /\ [][Next]_vars
=============================================================================
