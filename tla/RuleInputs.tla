----------------------------- MODULE RuleInputs -----------------------------
(***************************************************************************)
(* What the detection rules of detector.c are given: packets, timestamps,  *)
(* a configuration and the sizes of their memories; and what they ask of a *)
(* packet.  A packet is abstracted to what the rules read: the pair of     *)
(* addresses, the protocol, the destination port, the SYN and ACK flags    *)
(* and whether its ICMP type is 8 (echo request).                          *)
(***************************************************************************)
EXTENDS Naturals, FiniteSets, Settings

CONSTANTS
    Pairs,        \* (source, destination) address pairs
    Ports,        \* destination ports
    NoPort,       \* the port of a key with has_port = 0
    RiskyPorts,   \* the ports of risky_ports[]
    Packets,      \* the valid packets that may arrive
    Times,        \* the timestamps they may carry
    Configs,      \* the configurations detector_init may be given
    MaxHosts,     \* MAX_TRACKED_HOSTS
    MaxEvents,    \* MAX_TRACKED_EVENTS
    MaxPorts,     \* MAX_TRACKED_PORTS
    MaxHistory    \* MAX_ALERT_HISTORY

PacketType ==
    [pair : Pairs, proto : {"TCP", "UDP", "ICMP"}, port : Ports,
     syn : BOOLEAN, ack : BOOLEAN, echo : BOOLEAN]

ASSUME InputAssumption ==
    /\ IsFiniteSet(Pairs)
    /\ IsFiniteSet(Ports)
    /\ RiskyPorts \subseteq Ports
    /\ Packets \subseteq PacketType
    /\ Times \subseteq Nat \ {0}

\* config.c keeps thresholds and windows positive (Startup shows it does).
ASSUME ConfigAssumption ==
    /\ Configs \subseteq ConfigType
    /\ \A c \in Configs : PositiveLimits(c)

ASSUME LimitAssumption ==
    /\ MaxHosts \in Nat \ {0}
    /\ MaxEvents \in Nat \ {0}
    /\ MaxPorts \in Nat \ {0}
    /\ MaxHistory \in Nat \ {0}

Cells == 1..MaxEvents

\* A key has a port only where the code compares it.
FlowKeys == Pairs \X (Ports \cup {NoPort})

Rules == {"SYN Flood", "Port Scan", "ICMP Flood",
          "Suspicious Port", "ICMP Echo Request", "TCP SYN Watch"}

\* An incident: the rule, the pair of hosts and, where the rule has one, the port.
AlertKeys == Rules \X FlowKeys

PairKey(p) == <<p.pair, NoPort>>
PortKey(p) == <<p.pair, p.port>>

-----------------------------------------------------------------------------
(* What the rules ask of a packet.                                         *)

IsTcpSynWithoutAck(p) == p.proto = "TCP" /\ p.syn /\ ~p.ack
IsTcpOrUdp(p)         == p.proto \in {"TCP", "UDP"}
IsEchoRequest(p)      == p.proto = "ICMP" /\ p.echo
=============================================================================
