----------------------------- MODULE MCScanAudit -----------------------------
(***************************************************************************)
(* Instances of ScanAudit: two pairs of hosts compete for the one slot of  *)
(* the port table, and contact more ports than a slot holds.               *)
(***************************************************************************)
EXTENDS ScanAudit

CONSTANTS a, b, ssh, web, dns

MCPairs == {a, b}
MCPorts == {ssh, web, dns}

Tcp(pair, port, ack) == [pair |-> pair, proto |-> "TCP", port |-> port,
                         syn |-> TRUE, ack |-> ack, echo |-> FALSE]

\* SYNs, and a SYN-ACK that the rules do not look at.
Scanners == {Tcp(a, port, FALSE) : port \in MCPorts}
            \cup {Tcp(b, ssh, FALSE), Tcp(b, web, FALSE), Tcp(a, ssh, TRUE)}

\* The scan rule alone, and behind the flood rule, whose claims of a cooldown
\* are silent but still keep packets from the scan rule.
ScanBehind(flood, cooldown) ==
    [synFlood |-> flood, portScan |-> TRUE, icmpFlood |-> FALSE,
     suspiciousPort |-> FALSE, icmpEcho |-> FALSE, synWatch |-> FALSE,
     synThreshold |-> 2, scanThreshold |-> 2, icmpThreshold |-> 1,
     synWindow |-> 1, scanWindow |-> 1, icmpWindow |-> 1,
     cooldown |-> cooldown]

Chains == {ScanBehind(FALSE, 0), ScanBehind(TRUE, 1)}
=============================================================================
