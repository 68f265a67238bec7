----------------------------- MODULE AlertAudit -----------------------------
(***************************************************************************)
(* Detector watched from outside: what an analyst who reads every alert    *)
(* knows of each incident (a rule, a pair of hosts and, where the rule has *)
(* one, a port).  The detector itself only has alert_history, MaxHistory   *)
(* entries that it reuses.  The two added variables are never read by the  *)
(* detector.                                                               *)
(***************************************************************************)
EXTENDS Detector

VARIABLES
    lastAlert,    \* the time of each incident's last alert, 0 for none
    forgotten     \* incidents whose last alert the history did not keep

auditVars == <<vars, lastAlert, forgotten>>

Incident == <<verdict.by, verdict.key>>

AuditInit ==
    /\ Init
    /\ lastAlert = [k \in AlertKeys |-> 0]
    /\ forgotten = {}

\* An alert was returned and read.
Read ==
    /\ verdict'.alert
    /\ lastAlert' = [lastAlert EXCEPT ![Incident'] = clock']
    /\ forgotten' =
          IF \E i \in 1..MaxHistory : history'[i] = [key |-> Incident', last |-> clock']
          THEN forgotten \ {Incident'}
          ELSE forgotten \cup {Incident'}

\* Nothing was returned to read.
Silent ==
    /\ ~verdict'.alert
    /\ UNCHANGED <<lastAlert, forgotten>>

AuditNext == Next /\ (Read \/ Silent)
OrderedAuditNext == OrderedNext /\ (Read \/ Silent)

AuditSpec == AuditInit /\ [][AuditNext]_auditVars
OrderedAuditSpec == AuditInit /\ [][OrderedAuditNext]_auditVars

AuditTypeOK ==
    /\ TypeOK
    /\ lastAlert \in [AlertKeys -> Times \cup {0}]
    /\ forgotten \subseteq AlertKeys

-----------------------------------------------------------------------------
\* Silence has a reason: a packet that a rule claims without an alert lies
\* within the cooldown of an alert that was raised for the very same incident.
\* should_emit_alert answers from an array whose entries other incidents
\* take over; a mixed-up entry would silence an incident nobody was told of.
SilenceJustified ==
    verdict.by # "none" /\ ~verdict.alert =>
        Within(clock, lastAlert[Incident], config.cooldown)

\* The comment at detector.c:532 and the README ("Cooldowns reduce repeated
\* alerts"): once an incident is alerted, repeated packets during the cooldown
\* raise no new alert.
Repeated == verdict'.alert /\ Within(clock', lastAlert[Incident'], config.cooldown)

CooldownRespected == [][~Repeated]_auditVars

\* While packets come in order the only repeated alerts are those of
\* incidents the history had no room for; in particular an entry is taken
\* over only when its own cooldown has passed.
RepeatsOnlyForgotten == [][Repeated => Incident' \in forgotten]_auditVars

\* An alert fails to be kept only when more incidents than the history has
\* entries are in cooldown at once.
InCooldownNow == {k \in AlertKeys : Within(clock, lastAlert[k], config.cooldown)}

ForgottenOnlyWhenCrowded ==
    [][config.cooldown > 0 /\ forgotten' \ forgotten # {}
          => Cardinality(InCooldownNow') > MaxHistory]_auditVars
=============================================================================
