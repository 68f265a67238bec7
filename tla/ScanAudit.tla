------------------------------ MODULE ScanAudit ------------------------------
(***************************************************************************)
(* Detector beside an exact record of the ports every pair of hosts has    *)
(* contacted.  The port scan rule stands behind the SYN flood rule, which  *)
(* ends the call for every packet it claims, and it keeps MaxPorts ports   *)
(* in each of MaxHosts slots.  The record sees every packet.               *)
(***************************************************************************)
EXTENDS Detector

VARIABLES
    contacted,    \* contacted[pair][port]: the time of the last SYN, 0 for none
    hidden,       \* the last SYN of the pair that the flood rule claimed, 0 for none
    dropped,      \* the last SYN of the pair whose port was not kept, 0 for none
    scanned       \* the pair of the last packet when it was a SYN, else NoKey

scanVars == <<vars, contacted, hidden, dropped, scanned>>

ScanInit ==
    /\ Init
    /\ contacted = [k \in Pairs |-> [d \in Ports |-> 0]]
    /\ hidden = [k \in Pairs |-> 0]
    /\ dropped = [k \in Pairs |-> 0]
    /\ scanned = NoKey

\* The port table knows the port of packet p.
Kept(table, p) ==
    /\ SlotsOf(table, PairKey(p)) # {}
    /\ MarksOf(table, PairKey(p))[p.port] # 0

\* With ordered packets what has left the window matters no more.
InWindow(times, now) ==
    [x \in DOMAIN times |-> IF Within(now, times[x], config.scanWindow) THEN times[x] ELSE 0]

RecordSyn(p, t) ==
    /\ ScanLooksAt(p)
    /\ scanned' = PairKey(p)
    /\ contacted' = [k \in Pairs |->
          InWindow(IF k = p.pair THEN [contacted[k] EXCEPT ![p.port] = t] ELSE contacted[k], t)]
    /\ hidden' = InWindow(IF verdict'.by = "SYN Flood"
                          THEN [hidden EXCEPT ![p.pair] = t] ELSE hidden, t)
    /\ dropped' = InWindow(IF verdict'.by # "SYN Flood" /\ ~Kept(scanTable', p)
                           THEN [dropped EXCEPT ![p.pair] = t] ELSE dropped, t)

RecordOther(p, t) ==
    /\ ~ScanLooksAt(p)
    /\ scanned' = NoKey
    /\ contacted' = [k \in Pairs |-> InWindow(contacted[k], t)]
    /\ hidden' = InWindow(hidden, t)
    /\ dropped' = InWindow(dropped, t)

ScanNext ==
    \E p \in Packets, t \in Times :
        /\ t >= clock
        /\ Detect(p, t)
        /\ RecordSyn(p, t) \/ RecordOther(p, t)

ScanSpec == ScanInit /\ [][ScanNext]_scanVars

-----------------------------------------------------------------------------
\* The ports the pair contacted within the window of the rule.
TruePorts(pair) ==
    {d \in Ports : Within(clock, contacted[pair][d], config.scanWindow)}

Scan == scanned # NoKey /\ Cardinality(TruePorts(scanned[1])) >= config.scanThreshold

\* A port scan is claimed only of a pair that did contact the threshold of
\* ports within the window: no port is counted past its window or taken over
\* from the pair that had the slot before.
NoFalseScan == verdict.by = "Port Scan" => Scan

\* A scan goes unclaimed for three reasons only: the SYN flood rule claims the
\* packet at hand; it claimed another packet of the pair within the window,
\* which the scan rule then never saw (detector.c:873); or a port was not kept,
\* the table or ports[] being full.
MissedScanHasCause ==
    Scan /\ verdict.by # "Port Scan" =>
        LET pair == scanned[1] IN
        \/ Within(clock, hidden[pair], config.scanWindow)
        \/ Within(clock, dropped[pair], config.scanWindow)
=============================================================================
