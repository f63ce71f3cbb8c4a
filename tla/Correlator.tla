----------------------------- MODULE Correlator -----------------------------
(***************************************************************************)
(* Confidence scoring, the nine correlation rules and the health score, as *)
(* functions of one environment's signals.                                 *)
(*                                                                         *)
(* A `signals` record holds what a poll collected: pg, http, win (NoSnap   *)
(* when the source is not configured or its collector raised), missing     *)
(* (databases without JDBC connections; NoSnap without a database), the    *)
(* sets of activity and reporting anomalies, biz (business hours) and age  *)
(* (seconds since the oldest of the pg and http snapshots was taken).      *)
(* `seen` is the set of incident types found in the history of the last    *)
(* 24 hours.  An Evidence is reduced to its severity.                      *)
(***************************************************************************)
EXTENDS Collectors, Sequences

RuleTypes ==
  {"db_unavailable", "db_saturation_api_cascade", "zero_activity_business_hours",
   "reporting_anomaly_with_db_pressure", "service_stopped_db_drop",
   "memory_pressure_api_cascade", "silent_service_failure", "app_layer_issue",
   "qmatic_service_stopped"}

\* _RULES: the order in which @correlation_rule registers them.
Registry ==
  <<"db_unavailable", "db_saturation_api_cascade", "zero_activity_business_hours",
    "reporting_anomaly_with_db_pressure", "service_stopped_db_drop",
    "memory_pressure_api_cascade", "silent_service_failure", "app_layer_issue",
    "qmatic_service_stopped">>

FirstIn(types) ==
  Registry[CHOOSE n \in DOMAIN Registry :
             Registry[n] \in types /\ \A m \in 1..(n - 1) : Registry[m] \notin types]

\* What the collectors of one environment hand to the correlator.
Signals(w) ==
  [pg        |-> IF w.db = NoSnap THEN NoSnap ELSE CollectPg(w.db),
   http      |-> IF w.http = NoSnap THEN NoSnap ELSE CollectHttp(w.http),
   win       |-> IF w.win = NoSnap THEN NoSnap ELSE CollectWindows(w.win),
   missing   |-> IF w.db = NoSnap THEN NoSnap ELSE MissingServices(w.jdbc),
   activity  |-> IF w.db = NoSnap \/ w.queue = NoSnap THEN {}
                 ELSE ActivityAnomalies(QueueActivity(w.queue), w.biz),
   reporting |-> IF w.db = NoSnap \/ w.report = NoSnap THEN {}
                 ELSE ReportingAnomalies(w.report),
   biz       |-> w.biz,
   age       |-> w.age]
-----------------------------------------------------------------------------
(***************************************************************************)
(* Confidence.                                                             *)
(***************************************************************************)
SignalSeverityScore(evidence) ==
  LET severities == {evidence[n] : n \in DOMAIN evidence}
  IN  IF "critical" \in severities THEN 30 ELSE IF "warning" \in severities THEN 15 ELSE 0

EvidenceCountScore(evidence) ==
  IF Len(evidence) >= 3 THEN 25 ELSE IF Len(evidence) = 2 THEN 16 ELSE 8 * Len(evidence)

RecencyScore(s) ==
  IF s.pg = NoSnap /\ s.http = NoSnap THEN 10
  ELSE IF s.age <= 120 THEN 20 ELSE IF s.age <= 300 THEN 10 ELSE 0

\* Mutants of RecurrenceScore: a smaller bonus, a bonus for novelty.
RecurrenceScoreOfTen(type, seen) == IF type \in seen THEN 10 ELSE 0

NoveltyScore(type, seen) == IF type \in seen THEN 0 ELSE 15

RecurrenceScore(type, seen) == IF type \in seen THEN 15 ELSE 0

BusinessHoursScore(biz) == IF biz THEN 10 ELSE 0

Confidence(type, evidence, s, biz, seen) ==
  LET score == SignalSeverityScore(evidence) + EvidenceCountScore(evidence)
               + RecencyScore(s) + RecurrenceScore(type, seen) + BusinessHoursScore(biz)
  IN  IF score < 100 THEN score ELSE 100

AdjustSeverity(raw, confidence) ==
  IF raw = "critical" /\ confidence < 80 THEN "warning" ELSE raw

ShouldSuppress(confidence) == confidence < 50

IncidentRecords == [type : RuleTypes, severity : {"warning", "critical"},
                    confidence : 0..100, suppressed : BOOLEAN]

Incident(type, raw, evidence, s, biz, seen) ==
  LET confidence == Confidence(type, evidence, s, biz, seen)
  IN  [type       |-> type,
       severity   |-> AdjustSeverity(raw, confidence),
       confidence |-> confidence,
       suppressed |-> ShouldSuppress(confidence)]
-----------------------------------------------------------------------------
(***************************************************************************)
(* The rules.  Each yields the set of its incidents, at most one.          *)
(***************************************************************************)
ApiSlow(http) == OverallSeverity(http) \in {"warning", "critical"}

ServicesStopped(s) == s.win # NoSnap /\ Stopped(s.win) # {}

JdbcMissing(s) == s.missing # NoSnap /\ s.missing # {}

RuleDbUnavailable(s, seen) ==
  IF s.pg = NoSnap \/ s.pg.available THEN {}
  ELSE LET evidence == IF s.http # NoSnap /\ ~AllReachable(s.http)
                       THEN <<"critical", "critical", "critical">>
                       ELSE <<"critical", "critical">>
       IN  {Incident("db_unavailable", "critical", evidence, s, s.biz, seen)}

RuleDbSaturation(s, seen) ==
  IF s.pg = NoSnap \/ s.http = NoSnap \/ s.pg.pct < 75 \/ ~ApiSlow(s.http) THEN {}
  ELSE {Incident("db_saturation_api_cascade",
                 IF s.pg.pct >= 90 THEN "critical" ELSE "warning",
                 <<s.pg.severity, OverallSeverity(s.http), "warning">>, s, s.biz, seen)}

RuleZeroActivity(s, seen) ==
  IF "zero_activity" \notin s.activity THEN {}
  ELSE LET reachable == s.http # NoSnap /\ AllReachable(s.http)
           dbOk      == s.pg # NoSnap /\ s.pg.available
       IN  {Incident("zero_activity_business_hours", "critical",
                     <<"critical", IF reachable THEN "ok" ELSE "critical",
                       IF dbOk THEN "ok" ELSE "critical">>, s, TRUE, seen)}

RuleReportingAnomaly(s, seen) ==
  IF s.reporting = {} \/ s.pg = NoSnap \/ s.pg.long = {} THEN {}
  ELSE {Incident("reporting_anomaly_with_db_pressure", "warning",
                 <<"warning", "warning", "warning">>, s, s.biz, seen)}

RuleServiceStoppedDbDrop(s, seen) ==
  IF ~ServicesStopped(s) \/ ~JdbcMissing(s) THEN {}
  ELSE LET evidence == IF s.pg # NoSnap THEN <<"critical", "critical", s.pg.severity>>
                       ELSE <<"critical", "critical">>
       IN  {Incident("service_stopped_db_drop", "critical", evidence, s, s.biz, seen)}

RuleMemoryPressure(s, seen) ==
  IF s.win = NoSnap \/ s.http = NoSnap \/ s.win.total = 0 \/ ~ApiSlow(s.http)
     \/ 100 * s.win.qmatic < 60 * s.win.total THEN {}
  ELSE {Incident("memory_pressure_api_cascade", "warning",
                 <<"warning", "warning", OverallSeverity(s.http)>>, s, s.biz, seen)}

RuleSilentServiceFailure(s, seen) ==
  IF s.win = NoSnap \/ ~JdbcMissing(s) THEN {}
  ELSE LET pgEvidence == IF s.pg.available THEN "ok" ELSE "critical"
           evidence   == IF s.pg # NoSnap THEN <<"warning", "ok", pgEvidence>>
                         ELSE <<"warning", "ok">>
       IN  {Incident("silent_service_failure", "warning", evidence, s, s.biz, seen)}

\* Mutant: forgets the severity of the database.
RuleAppLayerIssueAnyDb(s, seen) ==
  IF s.pg = NoSnap \/ s.http = NoSnap \/ ~ApiSlow(s.http)
     \/ ~s.pg.available \/ ServicesStopped(s) THEN {}
  ELSE {Incident("app_layer_issue", "warning",
                 <<OverallSeverity(s.http), "ok", "ok">>, s, s.biz, seen)}

RuleAppLayerIssue(s, seen) ==
  IF s.pg = NoSnap \/ s.http = NoSnap \/ ~ApiSlow(s.http)
     \/ ~s.pg.available \/ s.pg.severity # "ok" \/ ServicesStopped(s) THEN {}
  ELSE {Incident("app_layer_issue", "warning",
                 <<OverallSeverity(s.http), "ok", "ok">>, s, s.biz, seen)}

RuleQmaticServiceStopped(s, seen) ==
  IF ~ServicesStopped(s) THEN {}
  ELSE LET evidence == IF JdbcMissing(s) THEN <<"critical", "warning", "critical">>
                       ELSE <<"critical", "warning">>
       IN  {Incident("qmatic_service_stopped", "critical", evidence, s, s.biz, seen)}

Correlate(s, seen) ==
  UNION {RuleDbUnavailable(s, seen), RuleDbSaturation(s, seen), RuleZeroActivity(s, seen),
         RuleReportingAnomaly(s, seen), RuleServiceStoppedDbDrop(s, seen),
         RuleMemoryPressure(s, seen), RuleSilentServiceFailure(s, seen),
         RuleAppLayerIssue(s, seen), RuleQmaticServiceStopped(s, seen)}

Active(incidents) == {i \in incidents : ~i.suppressed}

Suppressed(incidents) == {i \in incidents : i.suppressed}

Types(incidents) == {i.type : i \in incidents}

ActiveTypes(incidents) == Types(Active(incidents))
-----------------------------------------------------------------------------
(***************************************************************************)
(* Health score.                                                           *)
(***************************************************************************)
\* Mutant: a warning is free.
IncidentPenaltyCriticalOnly(incidents, type) ==
  LET critical == {i \in Active(incidents) : i.type = type /\ i.severity = "critical"}
  IN  IF critical # {} THEN (40 * (CHOOSE i \in critical : TRUE).confidence) \div 100 ELSE 0

\* What the incident of one type costs: int(40 or 20 times confidence / 100).
IncidentPenalty(incidents, type) ==
  LET critical == {i \in Active(incidents) : i.type = type /\ i.severity = "critical"}
      warning  == {i \in Active(incidents) : i.type = type /\ i.severity # "critical"}
  IN  IF critical # {} THEN (40 * (CHOOSE i \in critical : TRUE).confidence) \div 100
      ELSE IF warning # {} THEN (20 * (CHOOSE i \in warning : TRUE).confidence) \div 100
      ELSE 0

IncidentPenalties(incidents) ==
  IncidentPenalty(incidents, "db_unavailable")
  + IncidentPenalty(incidents, "db_saturation_api_cascade")
  + IncidentPenalty(incidents, "zero_activity_business_hours")
  + IncidentPenalty(incidents, "reporting_anomaly_with_db_pressure")
  + IncidentPenalty(incidents, "service_stopped_db_drop")
  + IncidentPenalty(incidents, "memory_pressure_api_cascade")
  + IncidentPenalty(incidents, "silent_service_failure")
  + IncidentPenalty(incidents, "app_layer_issue")
  + IncidentPenalty(incidents, "qmatic_service_stopped")
  + 5 * Cardinality(Suppressed(incidents))

\* Mutant: an unreachable database weighs as much as an unreachable API.
PgPenaltyLikeHttp(pg) ==
  IF pg = NoSnap THEN 0
  ELSE IF ~pg.available THEN 25
  ELSE (IF pg.pct >= 90 THEN 20 ELSE IF pg.pct >= 75 THEN 10 ELSE 0)
       + (IF pg.blocked > 0 THEN 10 ELSE 0)
       + (IF pg.long # {} THEN 5 ELSE 0)

PgPenalty(pg) ==
  IF pg = NoSnap THEN 0
  ELSE IF ~pg.available THEN 30
  ELSE (IF pg.pct >= 90 THEN 20 ELSE IF pg.pct >= 75 THEN 10 ELSE 0)
       + (IF pg.blocked > 0 THEN 10 ELSE 0)
       + (IF pg.long # {} THEN 5 ELSE 0)

HttpPenalty(http) ==
  IF http = NoSnap THEN 0
  ELSE IF ~AllReachable(http) THEN 25
  ELSE IF OverallSeverity(http) = "critical" THEN 15
  ELSE IF OverallSeverity(http) = "warning" THEN 10 ELSE 0

HeapAt(win, severity) == {x \in DOMAIN win.services : win.services[x].heap = severity}

WindowsPenalty(win) ==
  IF win = NoSnap \/ ~win.available THEN 0
  ELSE (IF win.memory = "critical" THEN 15 ELSE IF win.memory = "warning" THEN 8 ELSE 0)
       + 15 * Cardinality(Stopped(win))
       + 20 * Cardinality(HeapAt(win, "critical"))
       + 10 * Cardinality(HeapAt(win, "warning"))

\* Mutant: no floor.
HealthScoreNoFloor(incidents, s) ==
  100 - IncidentPenalties(incidents) - PgPenalty(s.pg)
  - HttpPenalty(s.http) - WindowsPenalty(s.win)

HealthScore(incidents, s) ==
  LET score == 100 - IncidentPenalties(incidents) - PgPenalty(s.pg)
               - HttpPenalty(s.http) - WindowsPenalty(s.win)
  IN  IF score < 0 THEN 0 ELSE score

ScoreToLabel(score) ==
  IF score >= 90 THEN "HEALTHY" ELSE IF score >= 60 THEN "DEGRADED" ELSE "CRITICAL"
=============================================================================
