------------------------------- MODULE Settings -------------------------------
(***************************************************************************)
(* The settings of GiftIDSConfig as the detector reads them: what          *)
(* detector_init is handed by the start of the program, and what the       *)
(* rules take for granted of it.                                           *)
(***************************************************************************)
EXTENDS Naturals

ConfigType ==
    [synFlood : BOOLEAN, portScan : BOOLEAN, icmpFlood : BOOLEAN,
     suspiciousPort : BOOLEAN, icmpEcho : BOOLEAN, synWatch : BOOLEAN,
     synThreshold : Nat, scanThreshold : Nat, icmpThreshold : Nat,
     synWindow : Nat, scanWindow : Nat, icmpWindow : Nat,
     cooldown : Nat]

\* Every threshold and every window is positive; only the cooldown may be 0.
PositiveLimits(c) ==
    /\ c.synThreshold > 0 /\ c.scanThreshold > 0 /\ c.icmpThreshold > 0
    /\ c.synWindow > 0 /\ c.scanWindow > 0 /\ c.icmpWindow > 0
=============================================================================
