---------------------------- MODULE MCAlertAudit ----------------------------
(***************************************************************************)
(* Instances of AlertAudit: four incidents of the stateless rules compete  *)
(* for a history of two entries.                                           *)
(***************************************************************************)
EXTENDS AlertAudit, DetectorRefinement, TLC

CONSTANTS a, b, ssh, web

MCPairs == {a, b}
MCPorts == {ssh, web}

Packet(proto, pair, port, syn) ==
    [pair |-> pair, proto |-> proto, port |-> port,
     syn |-> syn, ack |-> FALSE, echo |-> proto = "ICMP"]

\* Incidents: ssh and web attempts of a, ssh attempts and pings of b.
Busy4 == {Packet("TCP", a, ssh, TRUE), Packet("TCP", a, web, TRUE),
          Packet("UDP", b, ssh, FALSE), Packet("ICMP", b, web, FALSE)}

Stateless(cooldown) ==
    [synFlood |-> FALSE, portScan |-> FALSE, icmpFlood |-> FALSE,
     suspiciousPort |-> TRUE, icmpEcho |-> TRUE, synWatch |-> TRUE,
     synThreshold |-> 1, scanThreshold |-> 1, icmpThreshold |-> 1,
     synWindow |-> 1, scanWindow |-> 1, icmpWindow |-> 1,
     cooldown |-> cooldown]

Cooldowns == {Stateless(1), Stateless(2)}
=============================================================================
