----------------------------- MODULE MCDetector -----------------------------
(***************************************************************************)
(* Instances of Detector: packets of every kind the rules tell apart, and  *)
(* configurations that put one rule, or all of them, to work.              *)
(***************************************************************************)
EXTENDS DetectorRefinement, TLC

CONSTANTS a, b, c, ssh, web

MCPairs == {a, b, c}
MCPorts == {ssh, web}

Syn(pair, port) == [pair |-> pair, proto |-> "TCP", port |-> port,
                    syn |-> TRUE, ack |-> FALSE, echo |-> FALSE]
SynAck(pair)    == [Syn(pair, ssh) EXCEPT !.ack = TRUE]
Udp(pair)       == [pair |-> pair, proto |-> "UDP", port |-> web,
                    syn |-> FALSE, ack |-> FALSE, echo |-> FALSE]
Echo(pair)      == [pair |-> pair, proto |-> "ICMP", port |-> web,
                    syn |-> FALSE, ack |-> FALSE, echo |-> TRUE]

AllOff == [synFlood |-> FALSE, portScan |-> FALSE, icmpFlood |-> FALSE,
           suspiciousPort |-> FALSE, icmpEcho |-> FALSE, synWatch |-> FALSE,
           synThreshold |-> 2, scanThreshold |-> 2, icmpThreshold |-> 2,
           synWindow |-> 1, scanWindow |-> 1, icmpWindow |-> 1,
           cooldown |-> 1]

\* One stateful rule at a time, alerting on every packet it claims.
OneRule ==
    {[AllOff EXCEPT !.synFlood = TRUE, !.cooldown = 0],
     [AllOff EXCEPT !.portScan = TRUE, !.cooldown = 0],
     [AllOff EXCEPT !.icmpFlood = TRUE, !.cooldown = 0]}

\* And one whose threshold is above what events[] can hold; with MaxPorts = 1
\* the threshold of the scan rule is above what ports[] can hold, too.
Limits == OneRule \cup {[AllOff EXCEPT !.synFlood = TRUE, !.synThreshold = 3]}

\* Every rule on.
AllRules ==
    {[AllOff EXCEPT !.synFlood = TRUE, !.portScan = TRUE, !.icmpFlood = TRUE,
                    !.suspiciousPort = TRUE, !.icmpEcho = TRUE, !.synWatch = TRUE]}

\* The same, every claim alerting: SYN flows of two pairs compete for two slots.
Loud == {[c0 EXCEPT !.cooldown = 0] : c0 \in AllRules}

Contest == {Syn(a, ssh), Syn(a, web), Syn(b, ssh), Echo(a)}

Flows   == {Syn(a, ssh), Syn(a, web), Syn(b, ssh), Syn(c, ssh), Echo(a), Echo(b), Echo(c)}
OnePair == {Syn(a, ssh), Syn(a, web), SynAck(a), Udp(a), Echo(a)}
=============================================================================
