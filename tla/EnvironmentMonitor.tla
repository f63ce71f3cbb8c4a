------------------------- MODULE EnvironmentMonitor -------------------------
(***************************************************************************)
(* One environment as the control plane sees it over time: every poll      *)
(* collects, correlates against the incident history of the last 24 hours, *)
(* appends the active incidents to that history and scores the result.     *)
(***************************************************************************)
EXTENDS Correlator

CONSTANTS
  Worlds,          \* what a poll may find in the environment
  ConfiguredDbs,   \* monitored_databases in environments.yaml
  Lookback,        \* polls in the 24 hours a history entry counts for
  HistoryMayFail   \* may the history fail to be read or appended to?  Both
                   \* functions swallow the exception.

ASSUME MonitorAssumption ==
  /\ Lookback \in Nat \ {0} /\ HistoryMayFail \in BOOLEAN
  /\ \A w \in Worlds : /\ w.db # NoSnap => w.db.pct \in Nat
                       /\ w.win # NoSnap => IsFiniteSet(DOMAIN w.win.services)

VARIABLES
  world,       \* what the last poll found; NoSnap while the plane is down
  left,        \* per incident type: polls for which history still counts it
  unread,      \* types whose remembered history the last poll failed to read
  incidents,   \* what the last poll reported, suppressed ones included
  score        \* the last health score

vars == <<world, left, unread, incidents, score>>

Seen == {t \in RuleTypes : left[t] > 0}

Report == Active(incidents)

Label == ScoreToLabel(score)

\* A fresh deployment: no history, nothing polled yet (world is NoSnap).
Init ==
  /\ world = NoSnap
  /\ left = [t \in RuleTypes |-> 0]
  /\ unread = {}
  /\ incidents = {}
  /\ score = 100

Age(t) == IF left[t] > 0 THEN left[t] - 1 ELSE 0

\* Mutant: suppressed incidents enter the history too.
PollRecordingSuppressed(w, missed, lost) ==
  LET s     == Signals(w)
      found == Correlate(s, Seen \ missed)
      kept  == Types(found) \ lost
  IN  /\ world' = w
      /\ unread' = missed
      /\ incidents' = found
      /\ left' = [t \in RuleTypes |-> IF t \in kept THEN Lookback ELSE Age(t)]
      /\ score' = HealthScore(found, s)

\* poll_environment.  Every rule that fires reads the file for its own type:
\* for the types in `missed` the read fails, or stops before their entries,
\* and yields no recurrence.  The appends of the types in `lost` fail.
Poll(w, missed, lost) ==
  LET s     == Signals(w)
      found == Correlate(s, Seen \ missed)
      kept  == ActiveTypes(found) \ lost
  IN  /\ world' = w
      /\ unread' = missed
      /\ incidents' = found
      /\ left' = [t \in RuleTypes |-> IF t \in kept THEN Lookback ELSE Age(t)]
      /\ score' = HealthScore(found, s)

\* What a rule fires on does not depend on the history.
Fires(w) == Types(Correlate(Signals(w), {}))

\* Any subset of the accesses to the file may fail.
Failing(types) == IF HistoryMayFail THEN SUBSET types ELSE {{}}

\* The plane is down for the time of a poll; history goes on ageing.
Outage ==
  /\ world' = NoSnap
  /\ left' = [t \in RuleTypes |-> Age(t)]
  /\ UNCHANGED <<unread, incidents, score>>

Next ==
  \/ \E w \in Worlds :
       \E missed \in Failing(Seen \intersect Fires(w)), lost \in Failing(Fires(w)) :
         Poll(w, missed, lost)
  \/ Outage

Spec == Init /\ [][Next]_vars
-----------------------------------------------------------------------------
(***************************************************************************)
(* Properties the code has.                                                *)
(***************************************************************************)
\* The variables stay in their domains.
TypeOK ==
  /\ world \in Worlds \cup {NoSnap}
  /\ left \in [RuleTypes -> 0..Lookback]
  /\ unread \subseteq RuleTypes
  /\ incidents \subseteq IncidentRecords
  /\ score \in 0..100

\* A database outage that is reported at all brings the environment down to
\* CRITICAL, whatever its confidence (health_score.py and confidence.py use
\* unrelated tables: 30 for the outage and a scaled penalty must reach 41).
ActiveOutageIsCritical ==
  "db_unavailable" \in Types(Report) => Label = "CRITICAL"

\* An environment with a reported incident is never labelled HEALTHY: the
\* smallest scaled penalty is 10, exactly what HEALTHY tolerates, so something
\* else must count.  The exception would be a silent service failure found
\* with snapshots of 121 to 300 seconds; no database is monitored for it.
IncidentIsNeverHealthy == Report # {} => Label # "HEALTHY"

\* app_layer_issue says the infrastructure is healthy: no rule that blames
\* the database or a Windows service fires with it, suppressed or not.  The
\* saturation rule compares with a literal 75, the database's severity with
\* the configured threshold; they agree while that one is not higher.
DiagnosesAgree ==
  "app_layer_issue" \in Types(incidents) /\ ConnWarn <= 75 =>
    Types(incidents) \intersect
      {"db_unavailable", "db_saturation_api_cascade", "reporting_anomaly_with_db_pressure",
       "service_stopped_db_drop", "qmatic_service_stopped"} = {}

\* An outage found with fresh signals is always reported, with the least
\* evidence and outside business hours; one the history remembers is critical
\* at its next poll, the 15 points of the recurrence lift it over 80.  Only a
\* history that could not be read leaves it at a warning.
RepeatedOutageEscalates ==
  [][ world' # NoSnap =>
        \A i \in incidents' :
          i.type = "db_unavailable" /\ world'.age <= 120 =>
            /\ ~i.suppressed
            /\ left[i.type] > 0 => i.severity = "critical" \/ i.type \in unread' ]_vars

\* Polling the same signals again never weakens a reported incident while
\* the history holds it and can be read: confidence and severity can only
\* stay or rise.
SameSignalsNeverWeaken ==
  [][ world' = world /\ world # NoSnap =>
        \A i \in Report : left[i.type] > 0 /\ i.type \notin unread' =>
          \E j \in Report' : /\ j.type = i.type /\ j.confidence >= i.confidence
                             /\ i.severity = "critical" => j.severity = "critical" ]_vars

\* A suppressed incident leaves no trace: polling the same signals again
\* keeps it suppressed, it never confirms itself through the history.  One
\* comes back only if it was suppressed because its history was not read.
SuppressedStaysSuppressed ==
  [][ world' = world /\ world # NoSnap =>
        Types(Suppressed(incidents)) \ unread \subseteq Types(Suppressed(incidents')) ]_vars
-----------------------------------------------------------------------------
(***************************************************************************)
(* What the documents say and the code does not do.                        *)
(***************************************************************************)
Polled == world # NoSnap

\* README.md, rule table: service_stopped_db_drop is "Windows service stopped
\* + JDBC connections dropped".
JdbcDropIsReported ==
  /\ Polled /\ world.db # NoSnap /\ world.win # NoSnap
  /\ ServicesStopped(Signals(world))
  /\ world.jdbc.ok /\ ConfiguredDbs \intersect world.jdbc.idle # {}
  => "service_stopped_db_drop" \in Types(incidents)
=============================================================================
