-------------------------- MODULE AlertAuditProofs --------------------------
(***************************************************************************)
(* Theorems about the cooldown, for any number of incidents and any size   *)
(* of the history.                                                         *)
(***************************************************************************)
EXTENDS AlertAudit, DetectorProofs

\* An entry of the history tells the truth: it has the time of the last alert
\* of its incident.
HistoryTrue ==
    /\ \A i \in 1..MaxHistory :
          /\ history[i].key = NoKey => history[i].last = 0
          /\ history[i].key # NoKey => history[i].last = lastAlert[history[i].key]
    /\ config.cooldown = 0 => \A i \in 1..MaxHistory : history[i].key = NoKey

AuditTypes ==
    lastAlert \in [AlertKeys -> Times \cup {0}] /\ forgotten \subseteq AlertKeys

AInv == IInv /\ AuditTypes /\ HistoryTrue

LEMMA EmitHistoryTrue ==
    ASSUME AInv, NEW key \in AlertKeys, NEW t \in Times, ShouldEmit(key, t),
           config' = config, history' = HistoryAfter(key, t),
           lastAlert' = [lastAlert EXCEPT ![key] = t]
    PROVE  HistoryTrue'
<1>1. /\ IInv
      /\ lastAlert \in [AlertKeys -> Times \cup {0}]
      /\ HistoryTrue
  BY DEF AInv, AuditTypes
<1>2. /\ history \in HistoryType
      /\ history' \in HistoryType
      /\ OneSlotPerKey(history')
  BY <1>1, HistoryFacts, HistoryAfterGood
<1>3. lastAlert'[key] = t /\ \A k \in AlertKeys : k # key => lastAlert'[k] = lastAlert[k]
  BY <1>1
<1>4. CASE history' = history /\ config.cooldown = 0
  BY <1>1, <1>4 DEF HistoryTrue
<1>5. CASE history' = history /\ Incidents(key) = {} /\ config.cooldown # 0
  <2>1. \A i \in 1..MaxHistory : history[i].key # key
    BY <1>5, <1>2 DEF Incidents, HistoryType
  <2>2. \A i \in 1..MaxHistory : history[i].key \in AlertKeys \cup {NoKey}
    BY <1>2 DEF HistoryType
  <2> QED BY <1>1, <1>3, <1>5, <2>1, <2>2 DEF HistoryTrue
<1>6. ASSUME config.cooldown # 0, NEW i \in 1..MaxHistory,
             history' = [history EXCEPT ![i] = [key |-> key, last |-> t]]
      PROVE  HistoryTrue'
  <2>1. history'[i].key = key /\ history'[i].last = t /\ key # NoKey
    BY <1>2, <1>6, KeyAssumption DEF HistoryType
  <2>2. \A j \in 1..MaxHistory : j # i => history'[j] = history[j] /\ history'[j].key # key
    BY <1>2, <1>6, <2>1 DEF HistoryType, OneSlotPerKey
  <2>3. \A j \in 1..MaxHistory : history[j].key \in AlertKeys \cup {NoKey}
    BY <1>2 DEF HistoryType
  <2>4. \A j \in 1..MaxHistory :
           /\ history'[j].key = NoKey => history'[j].last = 0
           /\ history'[j].key # NoKey => history'[j].last = lastAlert'[history'[j].key]
    <3> TAKE j \in 1..MaxHistory
    <3>1. CASE j = i BY <3>1, <2>1, <1>3
    <3>2. CASE j # i BY <3>2, <2>2, <2>3, <1>1, <1>3 DEF HistoryTrue
    <3> QED BY <3>1, <3>2
  <2> QED BY <1>6, <2>4 DEF HistoryTrue
<1>7. ~InCooldown(key, t) \/ config.cooldown = 0
  BY DEF ShouldEmit
<1> QED BY <1>1, <1>4, <1>5, <1>6, <1>7, HistoryStep

LEMMA SilentHistory ==
    ASSUME AInv, NEW key \in AlertKeys, NEW t \in Times, ~ShouldEmit(key, t)
    PROVE  /\ HistoryAfter(key, t) = history
           /\ Within(t, lastAlert[key], config.cooldown)
<1>1. IInv /\ HistoryTrue
  BY DEF AInv
<1>2. InCooldown(key, t)
  BY DEF ShouldEmit
<1>3. PICK i \in 1..MaxHistory : history[i].key = key
  BY <1>1, <1>2, HistoryFacts DEF InCooldown, Incidents
<1>4. Least(Incidents(key)) = i
  BY <1>1, <1>3, TheIncident
<1>5. history[i].last = lastAlert[key]
  BY <1>1, <1>3, KeyAssumption DEF HistoryTrue
<1> QED BY <1>2, <1>4, <1>5 DEF InCooldown, HistoryAfter

LEMMA InitAInv == AuditInit => AInv /\ SilenceJustified
<1> SUFFICES ASSUME AuditInit PROVE AInv /\ SilenceJustified
  OBVIOUS
<1>1. IInv
  BY InitIInv DEF AuditInit
<1>2. AuditTypes /\ HistoryTrue
  BY DEF AuditInit, Init, Unused, AuditTypes, HistoryTrue
<1>3. SilenceJustified
  BY DEF AuditInit, Init, Nothing, SilenceJustified
<1> QED BY <1>1, <1>2, <1>3 DEF AInv

LEMMA StepAInv ==
    ASSUME AInv, NEW p \in Packets, NEW t \in Times, Detect(p, t), Read \/ Silent
    PROVE  AInv' /\ SilenceJustified'
<1>1. IInv /\ IInv' /\ config' = config /\ clock' = t
  BY DetectIInv DEF AInv, Detect
<1>2. CASE \E rule \in Rules, key \in FlowKeys, evidence \in EvidenceType :
              Claim(rule, key, t, evidence)
  <2>1. PICK rule \in Rules, key \in FlowKeys, evidence \in EvidenceType :
               Claim(rule, key, t, evidence)
    BY <1>2
  <2> DEFINE k == <<rule, key>>
  <2>2. k \in AlertKeys /\ rule # "none"
    BY DEF AlertKeys, Rules
  <2>3. Incident' = k /\ history' = HistoryAfter(k, t)
    BY <2>1 DEF Claim, Incident, Nothing
  <2>4. verdict'.alert <=> ShouldEmit(k, t)
    BY <2>1 DEF Claim, Nothing
  <2>5. CASE ShouldEmit(k, t)
    <3>1. /\ lastAlert' = [lastAlert EXCEPT ![k] = t]
          /\ forgotten' \in {forgotten \ {k}, forgotten \cup {k}}
      BY <1>1, <2>3, <2>4, <2>5 DEF Read, Silent
    <3>2. AuditTypes'
      BY <3>1, <2>2 DEF AInv, AuditTypes
    <3>3. HistoryTrue'
      BY <1>1, <2>2, <2>3, <2>5, <3>1, EmitHistoryTrue
    <3> QED BY <1>1, <2>4, <2>5, <3>2, <3>3 DEF AInv, SilenceJustified
  <2>6. CASE ~ShouldEmit(k, t)
    <3>1. UNCHANGED <<lastAlert, forgotten>>
      BY <2>4, <2>6 DEF Read, Silent
    <3>2. history' = history /\ Within(t, lastAlert[k], config.cooldown)
      BY <2>2, <2>3, <2>6, SilentHistory
    <3>3. AuditTypes' /\ HistoryTrue'
      BY <1>1, <3>1, <3>2 DEF AInv, AuditTypes, HistoryTrue
    <3>4. SilenceJustified'
      BY <1>1, <2>3, <3>1, <3>2 DEF SilenceJustified
    <3> QED BY <1>1, <3>3, <3>4 DEF AInv
  <2> QED BY <2>5, <2>6
<1>3. CASE verdict' = Nothing /\ history' = history
  <2>1. ~verdict'.alert /\ verdict'.by = "none"
    BY <1>3 DEF Nothing
  <2>2. UNCHANGED <<lastAlert, forgotten>>
    BY <2>1 DEF Read, Silent
  <2> QED BY <1>1, <1>3, <2>1, <2>2 DEF AInv, AuditTypes, HistoryTrue, SilenceJustified
<1> QED BY <1>1, <1>2, <1>3, StepShape

LEMMA StutterAInv ==
    AInv /\ SilenceJustified /\ UNCHANGED auditVars => AInv' /\ SilenceJustified'
<1> SUFFICES ASSUME AInv, SilenceJustified, UNCHANGED auditVars
             PROVE  AInv' /\ SilenceJustified'
  OBVIOUS
<1>1. IInv'
  BY StutterIInv DEF AInv, auditVars
<1> QED BY <1>1 DEF AInv, AuditTypes, HistoryTrue, SilenceJustified, Incident, auditVars, vars

\* Whatever the traffic and however small the history, an alert is suppressed
\* only within the cooldown of an alert raised for the same incident.
THEOREM SilenceHasReason == AuditSpec => []SilenceJustified
<1>1. AInv /\ SilenceJustified /\ [AuditNext]_auditVars => AInv' /\ SilenceJustified'
  BY StepAInv, StutterAInv DEF AuditNext, Next
<1>2. AInv /\ SilenceJustified => SilenceJustified
  OBVIOUS
<1> QED BY InitAInv, <1>1, <1>2, PTL DEF AuditSpec

\* The detector's arrays and the record kept of its alerts stay in their types.
THEOREM AuditTypeCorrect == AuditSpec => []AuditTypeOK
<1>1. AInv /\ SilenceJustified /\ [AuditNext]_auditVars => AInv' /\ SilenceJustified'
  BY StepAInv, StutterAInv DEF AuditNext, Next
<1>2. AInv /\ SilenceJustified => AuditTypeOK
  BY DEF AInv, IInv, AuditTypes, AuditTypeOK
<1> QED BY InitAInv, <1>1, <1>2, PTL DEF AuditSpec

-----------------------------------------------------------------------------
(* Packets in order: only forgotten incidents are repeated.                *)

\* An incident in cooldown that is not forgotten has its entry.
Remembered ==
    \A k \in AlertKeys \ forgotten :
        Within(clock, lastAlert[k], config.cooldown) =>
            \E i \in 1..MaxHistory : history[i] = [key |-> k, last |-> lastAlert[k]]

OrderedAInv == AInv /\ Remembered

\* A mark that is within the window of a later packet is within that of an
\* earlier one.
LEMMA WithinEarlier ==
    ASSUME NEW early \in Nat, NEW late \in Nat, early <= late,
           NEW seen \in Nat, NEW window \in Nat, Within(late, seen, window)
    PROVE  Within(early, seen, window)
BY DEF Within

\* An incident with a fresh entry is in cooldown.
LEMMA EntrySilences ==
    ASSUME AInv, NEW k \in AlertKeys, NEW t \in Times,
           NEW i \in 1..MaxHistory, history[i] = [key |-> k, last |-> lastAlert[k]],
           Within(t, lastAlert[k], config.cooldown)
    PROVE  ~ShouldEmit(k, t)
<1>1. IInv /\ config.cooldown \in Nat
  BY HistoryFacts DEF AInv
<1>2. history[i].key = k /\ history[i].last = lastAlert[k]
  OBVIOUS
<1>3. Incidents(k) = {i} /\ Least(Incidents(k)) = i
  BY <1>1, <1>2, TheIncident
<1>4. config.cooldown # 0
  BY <1>1 DEF Within
<1> QED BY <1>2, <1>3, <1>4 DEF ShouldEmit, InCooldown

LEMMA AuditNats ==
    ASSUME AInv
    PROVE  /\ clock \in Nat /\ config.cooldown \in Nat
           /\ \A k \in AlertKeys : lastAlert[k] \in Nat
<1>1. IInv /\ lastAlert \in [AlertKeys -> Times \cup {0}]
  BY DEF AInv, AuditTypes
<1>2. clock \in Nat /\ config.cooldown \in Nat
  BY <1>1, ClockIsNat, HistoryFacts
<1>3. \A k \in AlertKeys : lastAlert[k] \in Times \cup {0}
  BY <1>1
<1>4. \A k \in AlertKeys : lastAlert[k] \in Nat
  <2>1. Times \cup {0} \subseteq Nat BY Numbers
  <2> QED BY <1>3, <2>1, Zenon
<1> QED BY <1>2, <1>4

LEMMA StepRemembered ==
    ASSUME OrderedAInv, NEW p \in Packets, NEW t \in Times, t >= clock,
           Detect(p, t), Read \/ Silent
    PROVE  Remembered' /\ (Repeated => Incident' \in forgotten)
<1>1. AInv /\ IInv /\ Remembered /\ config' = config /\ clock' = t
  BY DEF OrderedAInv, AInv, Detect
<1>2. t \in Nat /\ clock \in Nat /\ config.cooldown \in Nat
  BY <1>1, AuditNats, Numbers
<1>3. \A k \in AlertKeys : Within(t, lastAlert[k], config.cooldown)
                              => Within(clock, lastAlert[k], config.cooldown)
  BY <1>1, <1>2, AuditNats, WithinEarlier
<1>4. CASE \E rule \in Rules, key \in FlowKeys, evidence \in EvidenceType :
              Claim(rule, key, t, evidence)
  <2>1. PICK rule \in Rules, key \in FlowKeys, evidence \in EvidenceType :
               Claim(rule, key, t, evidence)
    BY <1>4
  <2> DEFINE k == <<rule, key>>
  <2>2. k \in AlertKeys
    BY DEF AlertKeys
  <2>3. Incident' = k /\ history' = HistoryAfter(k, t)
    BY <2>1 DEF Claim, Incident, Nothing
  <2>4. verdict'.alert <=> ShouldEmit(k, t)
    BY <2>1 DEF Claim, Nothing
  <2> HIDE DEF k
  <2>5. CASE ShouldEmit(k, t)
    <3>1. /\ lastAlert' = [lastAlert EXCEPT ![k] = t]
          /\ forgotten' =
                IF \E i \in 1..MaxHistory : history'[i] = [key |-> k, last |-> t]
                THEN forgotten \ {k} ELSE forgotten \cup {k}
      BY <1>1, <2>3, <2>4, <2>5 DEF Read, Silent
    <3>2. lastAlert'[k] = t /\ \A j \in AlertKeys : j # k => lastAlert'[j] = lastAlert[j]
      BY <1>1, <2>2, <3>1 DEF AInv, AuditTypes
    <3>3. ASSUME NEW j \in AlertKeys \ forgotten',
                 Within(t, lastAlert'[j], config.cooldown)
          PROVE  \E i \in 1..MaxHistory : history'[i] = [key |-> j, last |-> lastAlert'[j]]
      <4>1. CASE j = k
        BY <4>1, <3>1, <3>2, <3>3
      <4>2. CASE j # k
        <5>1. j \notin forgotten /\ Within(t, lastAlert[j], config.cooldown)
          BY <4>2, <3>1, <3>2, <3>3
        <5>2. PICK i \in 1..MaxHistory : history[i] = [key |-> j, last |-> lastAlert[j]]
          BY <5>1, <1>1, <1>3 DEF Remembered
        <5>3. history'[i] = history[i]
          <6>1. history \in HistoryType
            BY <1>1, HistoryFacts
          <6>2. CASE history' = history
            BY <6>2
          <6>3. ASSUME NEW m \in 1..MaxHistory,
                       history' = [history EXCEPT ![m] = [key |-> k, last |-> t]],
                       history[m].key = k \/ ~Within(t, history[m].last, config.cooldown)
                PROVE  history'[i] = history[i]
            <7>1. m # i
              BY <6>3, <5>1, <5>2, <4>2
            <7> QED BY <7>1, <6>1, <6>3 DEF HistoryType
          <6> QED BY <6>2, <6>3, <2>2, <2>3, <1>1, HistoryStep
        <5> QED BY <5>2, <5>3, <4>2, <3>2
      <4> QED BY <4>1, <4>2
    <3>4. Remembered'
      BY <1>1, <3>3 DEF Remembered
    <3>5. ASSUME Repeated PROVE k \in forgotten
      <4> SUFFICES ASSUME k \notin forgotten PROVE FALSE
        OBVIOUS
      <4>1. Within(t, lastAlert[k], config.cooldown)
        BY <3>5, <1>1, <2>3 DEF Repeated
      <4>2. PICK i \in 1..MaxHistory : history[i] = [key |-> k, last |-> lastAlert[k]]
        BY <4>1, <1>1, <1>3, <2>2 DEF Remembered
      <4> QED BY <4>1, <4>2, <1>1, <2>2, <2>5, EntrySilences
    <3> QED BY <2>3, <3>4, <3>5
  <2>6. CASE ~ShouldEmit(k, t)
    <3>1. UNCHANGED <<lastAlert, forgotten>> /\ ~verdict'.alert
      BY <2>4, <2>6 DEF Read, Silent
    <3>2. history' = history
      BY <1>1, <2>2, <2>3, <2>6, SilentHistory
    <3> QED BY <1>1, <1>3, <3>1, <3>2 DEF Remembered, Repeated
  <2> QED BY <2>5, <2>6
<1>5. CASE verdict' = Nothing /\ history' = history
  <2>1. ~verdict'.alert
    BY <1>5 DEF Nothing
  <2>2. UNCHANGED <<lastAlert, forgotten>>
    BY <2>1 DEF Read, Silent
  <2> QED BY <1>1, <1>3, <1>5, <2>1, <2>2 DEF Remembered, Repeated
<1> QED BY <1>1, <1>4, <1>5, StepShape

LEMMA InitRemembered == AuditInit => Remembered
BY DEF AuditInit, Remembered, Within

LEMMA OrderedStep ==
    OrderedAInv /\ [OrderedAuditNext]_auditVars =>
        OrderedAInv' /\ [Repeated => Incident' \in forgotten]_auditVars
<1> SUFFICES ASSUME OrderedAInv, [OrderedAuditNext]_auditVars
             PROVE  OrderedAInv' /\ [Repeated => Incident' \in forgotten]_auditVars
  OBVIOUS
<1>1. CASE OrderedAuditNext
  <2>1. PICK p \in Packets, t \in Times : t >= clock /\ Detect(p, t)
    BY <1>1 DEF OrderedAuditNext, OrderedNext
  <2>2. Read \/ Silent
    BY <1>1 DEF OrderedAuditNext
  <2> QED BY <2>1, <2>2, StepAInv, StepRemembered DEF OrderedAInv
<1>2. CASE UNCHANGED auditVars
  <2>1. IInv'
    BY <1>2, StutterIInv DEF OrderedAInv, AInv, auditVars
  <2>2. AuditTypes' /\ HistoryTrue' /\ Remembered'
    BY <1>2 DEF OrderedAInv, AInv, AuditTypes, HistoryTrue, Remembered, auditVars, vars
  <2> QED BY <1>2, <2>1, <2>2 DEF OrderedAInv, AInv
<1> QED BY <1>1, <1>2

\* With packets in order an alert is repeated inside its cooldown only when
\* the history had no room for the one before.
THEOREM RepeatsWereForgotten == OrderedAuditSpec => RepeatsOnlyForgotten
<1>1. AuditInit => OrderedAInv
  BY InitAInv, InitRemembered DEF OrderedAInv
<1> QED BY <1>1, OrderedStep, PTL DEF OrderedAuditSpec, RepeatsOnlyForgotten

-----------------------------------------------------------------------------
(* Forgetting takes more incidents than the history has entries.           *)

LEMMA KeysFinite == IsFiniteSet(AlertKeys)
<1>1. IsFiniteSet(Ports \cup {NoPort})
  BY InputAssumption, FS_AddElement
<1>2. IsFiniteSet(FlowKeys)
  BY <1>1, InputAssumption, FS_Product DEF FlowKeys
<1>3. IsFiniteSet(Rules)
  <2>1. \A r : IsFiniteSet({r})
    BY FS_Singleton
  <2>2. IsFiniteSet({"SYN Flood"} \cup {"Port Scan"})
    BY <2>1, FS_Union
  <2>3. IsFiniteSet({"ICMP Flood"} \cup {"Suspicious Port"})
    BY <2>1, FS_Union
  <2>4. IsFiniteSet({"ICMP Echo Request"} \cup {"TCP SYN Watch"})
    BY <2>1, FS_Union
  <2>5. IsFiniteSet((({"SYN Flood"} \cup {"Port Scan"}) \cup
                     ({"ICMP Flood"} \cup {"Suspicious Port"})) \cup
                    ({"ICMP Echo Request"} \cup {"TCP SYN Watch"}))
    BY <2>2, <2>3, <2>4, FS_Union
  <2>6. Rules = (({"SYN Flood"} \cup {"Port Scan"}) \cup
                 ({"ICMP Flood"} \cup {"Suspicious Port"})) \cup
                ({"ICMP Echo Request"} \cup {"TCP SYN Watch"})
    BY DEF Rules
  <2> QED BY <2>5, <2>6
<1> QED BY <1>2, <1>3, FS_Product DEF AlertKeys

LEMMA ForgettingCrowds ==
    ASSUME AInv, NEW p \in Packets, NEW t \in Times, Detect(p, t), Read \/ Silent,
           config.cooldown > 0, forgotten' \ forgotten # {}
    PROVE  Cardinality(InCooldownNow') > MaxHistory
<1>1. IInv /\ HistoryTrue /\ config' = config /\ clock' = t /\ config.cooldown \in Nat
  BY HistoryFacts DEF AInv, Detect
<1>2. Read
  BY DEF Silent
<1>3. verdict'.alert
  BY <1>2 DEF Read
<1>4. PICK rule \in Rules, key \in FlowKeys, evidence \in EvidenceType :
             Claim(rule, key, t, evidence)
  BY <1>1, <1>3, StepShape DEF Nothing
<1> DEFINE k == <<rule, key>>
<1>5. k \in AlertKeys
  BY DEF AlertKeys
<1>6. Incident' = k /\ history' = HistoryAfter(k, t) /\ ShouldEmit(k, t)
  BY <1>3, <1>4 DEF Claim, Incident, Nothing
<1> HIDE DEF k
<1>7. /\ lastAlert' = [lastAlert EXCEPT ![k] = t]
      /\ ~ \E i \in 1..MaxHistory : history'[i] = [key |-> k, last |-> t]
  BY <1>1, <1>2, <1>6 DEF Read
<1>8. /\ lastAlert'[k] = t
      /\ \A j \in AlertKeys : j # k => lastAlert'[j] = lastAlert[j]
  BY <1>1, <1>5, <1>7 DEF AInv, AuditTypes
<1>9. Incidents(k) = {} /\ Reusable(t) = {}
  <2>1. ~InCooldown(k, t) /\ config.cooldown # 0
    BY <1>1, <1>6 DEF ShouldEmit
  <2>2. ASSUME NEW i \in 1..MaxHistory,
               history' = [history EXCEPT ![i] = [key |-> k, last |-> t]]
        PROVE  FALSE
    <3>1. history'[i] = [key |-> k, last |-> t]
      BY <2>2, <1>1, HistoryFacts DEF HistoryType
    <3> QED BY <3>1, <1>7
  <2> QED BY <2>1, <2>2, <1>1, <1>5, <1>6, HistoryStep
\* Every entry is in cooldown, for an incident of its own that is not k.
<1>10. \A i \in 1..MaxHistory :
          /\ Within(t, history[i].last, config.cooldown)
          /\ history[i].key \in AlertKeys \ {k}
          /\ history[i].last = lastAlert'[history[i].key]
  <2> TAKE i \in 1..MaxHistory
  <2>1. Within(t, history[i].last, config.cooldown) /\ history[i].key # k
    BY <1>1, <1>9, HistoryFacts DEF Reusable, Incidents
  <2>2. history[i].key # NoKey
    BY <1>1, <2>1 DEF HistoryTrue, Within
  <2>3. history[i].key \in AlertKeys
    BY <1>1, <2>2, HistoryFacts DEF HistoryType
  <2> QED BY <1>1, <1>8, <2>1, <2>2, <2>3 DEF HistoryTrue
<1> DEFINE others == InCooldownNow' \ {k}
           owner == [i \in 1..MaxHistory |-> history[i].key]
<1>11. InCooldownNow' = {j \in AlertKeys : Within(t, lastAlert'[j], config.cooldown)}
  BY <1>1 DEF InCooldownNow
<1>12. owner \in Injection(1..MaxHistory, others)
  <2>1. owner \in [1..MaxHistory -> others]
    BY <1>10, <1>11
  <2>2. \A i, j \in 1..MaxHistory : owner[i] = owner[j] => i = j
    BY <1>1, <1>10, HistoryFacts, KeyAssumption DEF OneSlotPerKey
  <2> QED BY <2>1, <2>2 DEF Injection, IsInjective
<1>13. k \in InCooldownNow'
  <2>1. t \in Nat /\ t # 0
    BY Numbers
  <2>2. Within(t, t, config.cooldown)
    BY <1>1, <2>1 DEF Within
  <2> QED BY <1>5, <1>8, <1>11, <2>2
<1>14. IsFiniteSet(InCooldownNow')
  <2>1. InCooldownNow' \in SUBSET AlertKeys BY <1>11
  <2> QED BY <2>1, KeysFinite, FS_Subset
<1>15. /\ IsFiniteSet(others)
       /\ Cardinality(others) = Cardinality(InCooldownNow') - 1
  BY <1>13, <1>14, FS_RemoveElement
<1>16. Cardinality(1..MaxHistory) = MaxHistory
  BY LimitAssumption, FS_Interval
<1>17. MaxHistory <= Cardinality(others)
  <2> HIDE DEF others, owner
  <2> QED BY <1>12, <1>15, <1>16, FS_Injection
<1>18. Cardinality(InCooldownNow') \in Nat
  BY <1>14, FS_CardinalityType
<1> QED BY <1>15, <1>17, <1>18, LimitAssumption

\* An alert is not remembered only when more than MaxHistory incidents are in
\* cooldown; below that, by RepeatsWereForgotten, every cooldown is kept.
THEOREM ForgottenNeedsCrowd == AuditSpec => ForgottenOnlyWhenCrowded
<1> DEFINE Crowded == config.cooldown > 0 /\ forgotten' \ forgotten # {}
                         => Cardinality(InCooldownNow') > MaxHistory
<1>1. AInv /\ [AuditNext]_auditVars => AInv'
  <2> SUFFICES ASSUME AInv, [AuditNext]_auditVars PROVE AInv'
    OBVIOUS
  <2>1. CASE AuditNext
    BY <2>1, StepAInv DEF AuditNext, Next
  <2>2. CASE UNCHANGED auditVars
    <3>1. IInv' BY <2>2, StutterIInv DEF AInv, auditVars
    <3> QED BY <2>2, <3>1 DEF AInv, AuditTypes, HistoryTrue, auditVars, vars
  <2> QED BY <2>1, <2>2
<1>2. AInv /\ [AuditNext]_auditVars => [Crowded]_auditVars
  <2> SUFFICES ASSUME AInv, AuditNext PROVE Crowded
    BY DEF auditVars
  <2> QED BY ForgettingCrowds DEF AuditNext, Next
<1> QED BY InitAInv, <1>1, <1>2, PTL DEF AuditSpec, ForgottenOnlyWhenCrowded
=============================================================================
