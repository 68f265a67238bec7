---------------------------- MODULE MCFloodAudit ----------------------------
(***************************************************************************)
(* Instances of FloodAudit: three flows that compete for the two slots of  *)
(* the table of the audited rule, and packets the rule does not look at.   *)
(***************************************************************************)
EXTENDS FloodAudit, TLC

CONSTANTS a, b, c, ssh

MCPairs == {a, b, c}
MCPorts == {ssh}

Syn(pair)  == [pair |-> pair, proto |-> "TCP", port |-> ssh,
               syn |-> TRUE, ack |-> FALSE, echo |-> FALSE]
Ping(pair) == [pair |-> pair, proto |-> "ICMP", port |-> ssh,
               syn |-> FALSE, ack |-> FALSE, echo |-> TRUE]

ThreeFlows == {Syn(pair) : pair \in MCPairs} \cup {Ping(pair) : pair \in MCPairs}

\* One flood rule at a time; its window is the shorter one.
OneFlood(rule) ==
    [synFlood |-> rule = "SYN Flood", portScan |-> FALSE, icmpFlood |-> rule = "ICMP Flood",
     suspiciousPort |-> FALSE, icmpEcho |-> FALSE, synWatch |-> FALSE,
     synThreshold |-> 2, scanThreshold |-> 1, icmpThreshold |-> 2,
     synWindow  |-> IF rule = "SYN Flood" THEN 1 ELSE 2, scanWindow |-> 1,
     icmpWindow |-> IF rule = "ICMP Flood" THEN 1 ELSE 2,
     cooldown |-> 0]

EitherFlood == {OneFlood(rule) : rule \in FloodRules}

\* The flows are interchangeable: every one sends the same packets.
Symmetry == Permutations(MCPairs)
=============================================================================
