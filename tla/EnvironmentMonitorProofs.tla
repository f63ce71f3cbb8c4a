---------------------- MODULE EnvironmentMonitorProofs ----------------------
(***************************************************************************)
(* Proofs about EnvironmentMonitor, for every set of worlds.               *)
(***************************************************************************)
EXTENDS EnvironmentMonitor, CorrelatorProofs

\* The snapshot of a Windows host lists configured services only.
LEMMA HostsAreFinite ==
  ASSUME NEW w \in Worlds
  PROVE  Signals(w).win # NoSnap => IsFiniteSet(DOMAIN Signals(w).win.services)
<1>. SUFFICES ASSUME Signals(w).win # NoSnap
              PROVE  IsFiniteSet(DOMAIN Signals(w).win.services)
  OBVIOUS
<1>1. w.win # NoSnap /\ Signals(w).win = CollectWindows(w.win)
  BY DEF Signals
<1>2. DOMAIN CollectWindows(w.win).services = IF w.win.done = 2 THEN DOMAIN w.win.services ELSE {}
  BY DEF CollectWindows
<1>3. IsFiniteSet(DOMAIN w.win.services)
  BY <1>1, MonitorAssumption
<1>. QED  BY <1>1, <1>2, <1>3, FS_EmptySet
\* A poll may fail to read any part of what is remembered, and to append
\* anything.
LEMMA PollOrOutage ==
  Next => \/ \E w \in Worlds, missed \in SUBSET Seen, lost \in SUBSET RuleTypes :
               Poll(w, missed, lost)
          \/ Outage
<1>1. ASSUME NEW w \in Worlds
      PROVE  /\ Failing(Seen \intersect Fires(w)) \subseteq SUBSET Seen
             /\ Failing(Fires(w)) \subseteq SUBSET RuleTypes
  BY CorrelateResult DEF Failing, Fires
<1>. QED  BY <1>1 DEF Next
-----------------------------------------------------------------------------
(***************************************************************************)
(* Type correctness.                                                       *)
(***************************************************************************)
LEMMA AgeType ==
  ASSUME left \in [RuleTypes -> 0..Lookback], NEW t \in RuleTypes
  PROVE  Age(t) \in 0..Lookback
  BY MonitorAssumption DEF Age

LEMMA TypeStep == TypeOK /\ [Next]_vars => TypeOK'
<1>. SUFFICES ASSUME TypeOK, [Next]_vars PROVE TypeOK'
  OBVIOUS
<1>1. ASSUME NEW w \in Worlds, NEW missed \in SUBSET Seen, NEW lost \in SUBSET RuleTypes,
             Poll(w, missed, lost)
      PROVE  TypeOK'
  <2>. DEFINE found == Correlate(Signals(w), Seen \ missed)
  <2>1. IsFiniteSet(found) /\ found \subseteq IncidentRecords
    BY CorrelateResult
  <2>2. HealthScore(found, Signals(w)) \in 0..100
    BY <2>1, HostsAreFinite, HealthScoreRange
  <2>3. left' \in [RuleTypes -> 0..Lookback]
    BY <1>1, AgeType, MonitorAssumption DEF Poll, TypeOK
  <2>4. world' = w /\ incidents' = found /\ score' = HealthScore(found, Signals(w))
        /\ unread' \subseteq RuleTypes
    BY <1>1 DEF Poll, Seen
  <2>. QED  BY <2>1, <2>2, <2>3, <2>4 DEF TypeOK
<1>2. CASE Outage
  <2>1. left' \in [RuleTypes -> 0..Lookback]
    BY <1>2, AgeType DEF Outage, TypeOK
  <2>. QED  BY <1>2, <2>1 DEF Outage, TypeOK
<1>3. CASE UNCHANGED vars
  BY <1>3 DEF vars, TypeOK
<1>. QED  BY <1>1, <1>2, <1>3, PollOrOutage

\* The reports, the scores and the history stay in their domains.
THEOREM MonitorTypeCorrect == Spec => []TypeOK
<1>1. Init => TypeOK
  BY MonitorAssumption DEF Init, TypeOK
<1>. QED  BY <1>1, TypeStep, PTL DEF Spec
-----------------------------------------------------------------------------
(***************************************************************************)
(* Outages.                                                                *)
(***************************************************************************)
\* A database outage that is reported brings the environment to CRITICAL, at
\* every confidence, with every other signal.
THEOREM OutageIsCritical == Spec => []ActiveOutageIsCritical
<1>1. Init => ActiveOutageIsCritical
  BY DEF Init, ActiveOutageIsCritical, Types, Report, Active
<1>2. ActiveOutageIsCritical /\ [Next]_vars => ActiveOutageIsCritical'
  <2>. SUFFICES ASSUME ActiveOutageIsCritical, [Next]_vars PROVE ActiveOutageIsCritical'
    OBVIOUS
  <2>1. ASSUME NEW w \in Worlds, NEW missed \in SUBSET Seen, NEW lost \in SUBSET RuleTypes,
             Poll(w, missed, lost)
        PROVE  ActiveOutageIsCritical'
    <3>1. /\ incidents' = Correlate(Signals(w), Seen \ missed)
          /\ score' = HealthScore(Correlate(Signals(w), Seen \ missed), Signals(w))
      BY <2>1 DEF Poll
    <3>2. Types(Report)' = ActiveTypes(incidents')
      BY DEF Types, Report, ActiveTypes, Active
    <3>3. "db_unavailable" \in ActiveTypes(incidents') => score' < 60
      BY <3>1, HostsAreFinite, ActiveOutageScore
    <3>4. score' < 60 => Label' = "CRITICAL"
      <4>1. IsFiniteSet(incidents') /\ incidents' \subseteq IncidentRecords
        BY <3>1, CorrelateResult
      <4>2. score' \in 0..100
        BY <3>1, <4>1, HostsAreFinite, HealthScoreRange
      <4>. QED  BY <4>2 DEF Label, ScoreToLabel
    <3>. QED  BY <3>2, <3>3, <3>4 DEF ActiveOutageIsCritical
  <2>2. CASE Outage \/ UNCHANGED vars
    BY <2>2 DEF Outage, vars, ActiveOutageIsCritical, Types, Report, Active, Label
  <2>. QED  BY <2>1, <2>2, PollOrOutage
<1>. QED  BY <1>1, <1>2, PTL DEF Spec

\* An outage found with fresh signals is reported, and critical if the history
\* remembers it and could be read.
THEOREM RepeatedOutagesEscalate == Spec => RepeatedOutageEscalates
<1>1. [Next]_vars =>
        [ world' # NoSnap =>
            \A i \in incidents' :
              i.type = "db_unavailable" /\ world'.age <= 120 =>
                /\ ~i.suppressed
                /\ left[i.type] > 0 => i.severity = "critical" \/ i.type \in unread' ]_vars
  <2>. SUFFICES ASSUME Next, world' # NoSnap, NEW i \in incidents',
                       i.type = "db_unavailable", world'.age <= 120
                PROVE  /\ ~i.suppressed
                       /\ left[i.type] > 0 => i.severity = "critical" \/ i.type \in unread'
    OBVIOUS
  <2>1. PICK w \in Worlds, missed \in SUBSET Seen, lost \in SUBSET RuleTypes :
         Poll(w, missed, lost)
    BY PollOrOutage DEF Outage
  <2>2. Signals(w).age = w.age
    BY DEF Signals
  <2>3. /\ i \in Correlate(Signals(w), Seen \ missed) /\ w.age <= 120
        /\ unread' = missed
    BY <2>1 DEF Poll
  <2>4. ~i.suppressed /\ ("db_unavailable" \in Seen \ missed => i.severity = "critical")
    BY <2>2, <2>3, FreshOutage
  <2>5. left["db_unavailable"] > 0 => "db_unavailable" \in Seen
    BY DEF Seen, RuleTypes
  <2>. QED  BY <2>3, <2>4, <2>5
<1>. QED  BY <1>1, PTL DEF Spec, RepeatedOutageEscalates
-----------------------------------------------------------------------------
(***************************************************************************)
(* Diagnoses.                                                              *)
(***************************************************************************)
\* With a database whose severity is "ok", fewer connections than the
\* threshold are used and no query is slow.
LEMMA HealthyDatabase ==
  ASSUME NEW w \in Worlds, Signals(w).pg # NoSnap, Signals(w).pg.severity = "ok", ConnWarn <= 75
  PROVE  ~(Signals(w).pg.pct >= 75) /\ Signals(w).pg.long = {}
<1>. DEFINE pg == Signals(w).pg
<1>1. w.db # NoSnap /\ pg = CollectPg(w.db)
  BY DEF Signals
<1>2. w.db.done = 5 /\ PgSeverity(pg.pct, pg.long, pg.blocked) = "ok"
  <2>1. pg.severity = IF w.db.done = 5 THEN PgSeverity(pg.pct, pg.long, pg.blocked) ELSE "critical"
    BY <1>1 DEF CollectPg
  <2>. QED  BY <2>1
<1>3. pg.pct = w.db.pct /\ w.db.pct \in Nat
  BY <1>1, <1>2, MonitorAssumption DEF CollectPg
<1>4. /\ Grade(pg.pct, ConnWarn, ConnCrit) \notin {"critical", "warning"}
      /\ (IF \E q \in pg.long : q > 2 * LongSecs THEN "critical"
          ELSE IF pg.long # {} THEN "warning" ELSE "ok") \notin {"critical", "warning"}
  BY <1>2 DEF PgSeverity, Worst
<1>5. ~(pg.pct >= ConnWarn)
  BY <1>4 DEF Grade
<1>6. ConnWarn \in Nat
  BY CollectorsAssumption
<1>. QED  BY <1>3, <1>4, <1>5, <1>6

\* The types found are those whose rule found something.
LEMMA TypesOfRules ==
  ASSUME NEW s, NEW seen
  PROVE  /\ "app_layer_issue" \in Types(Correlate(s, seen)) => RuleAppLayerIssue(s, seen) # {}
         /\ "db_unavailable" \in Types(Correlate(s, seen)) => RuleDbUnavailable(s, seen) # {}
         /\ "db_saturation_api_cascade" \in Types(Correlate(s, seen))
              => RuleDbSaturation(s, seen) # {}
         /\ "reporting_anomaly_with_db_pressure" \in Types(Correlate(s, seen))
              => RuleReportingAnomaly(s, seen) # {}
         /\ "service_stopped_db_drop" \in Types(Correlate(s, seen))
              => RuleServiceStoppedDbDrop(s, seen) # {}
         /\ "qmatic_service_stopped" \in Types(Correlate(s, seen))
              => RuleQmaticServiceStopped(s, seen) # {}
<1>1. ASSUME NEW R, NEW t, RuleResult(R, t), NEW i \in R PROVE i.type = t
  BY <1>1 DEF RuleResult
<1>2. ASSUME NEW i \in Correlate(s, seen)
      PROVE  \/ i \in RuleDbUnavailable(s, seen) \/ i \in RuleDbSaturation(s, seen)
             \/ i \in RuleZeroActivity(s, seen) \/ i \in RuleReportingAnomaly(s, seen)
             \/ i \in RuleServiceStoppedDbDrop(s, seen) \/ i \in RuleMemoryPressure(s, seen)
             \/ i \in RuleSilentServiceFailure(s, seen) \/ i \in RuleAppLayerIssue(s, seen)
             \/ i \in RuleQmaticServiceStopped(s, seen)
  BY <1>2, Zenon DEF Correlate
<1>. QED  BY <1>1, <1>2, RulesYieldResults DEF Types

\* The rules that blame the database or a service do not fire with the rule
\* that clears them, as long as the configured threshold is at most the 75
\* the saturation rule has built in.
THEOREM DiagnosesAlwaysAgree == Spec => []DiagnosesAgree
<1>1. Init => DiagnosesAgree
  BY DEF Init, DiagnosesAgree, Types
<1>2. DiagnosesAgree /\ [Next]_vars => DiagnosesAgree'
  <2>. SUFFICES ASSUME DiagnosesAgree, [Next]_vars PROVE DiagnosesAgree'
    OBVIOUS
  <2>1. ASSUME NEW w \in Worlds, NEW missed \in SUBSET Seen, NEW lost \in SUBSET RuleTypes,
             Poll(w, missed, lost)
        PROVE  DiagnosesAgree'
    <3>. DEFINE s == Signals(w)
    <3>1. incidents' = Correlate(s, Seen \ missed)
      BY <2>1 DEF Poll
    <3>. SUFFICES ASSUME "app_layer_issue" \in Types(Correlate(s, Seen \ missed)), ConnWarn <= 75
                  PROVE  Types(Correlate(s, Seen \ missed)) \intersect
                           {"db_unavailable", "db_saturation_api_cascade",
                            "reporting_anomaly_with_db_pressure",
                            "service_stopped_db_drop", "qmatic_service_stopped"} = {}
      BY <3>1 DEF DiagnosesAgree, Types
    <3>2. s.pg # NoSnap /\ s.pg.available /\ s.pg.severity = "ok" /\ ~ServicesStopped(s)
      BY TypesOfRules, Zenon DEF RuleAppLayerIssue
    <3>3. ~(s.pg.pct >= 75) /\ s.pg.long = {}
      BY <3>2, HealthyDatabase
    <3>4. s.pg.pct < 75
      <4>1. s.pg = CollectPg(w.db) /\ w.db # NoSnap
        BY <3>2 DEF Signals
      <4>2. s.pg.pct \in Nat
        BY <4>1, MonitorAssumption DEF CollectPg
      <4>. QED  BY <3>3, <4>2
    <3>5. RuleDbUnavailable(s, Seen \ missed) = {} /\ RuleDbSaturation(s, Seen \ missed) = {}
          /\ RuleReportingAnomaly(s, Seen \ missed) = {}
      BY <3>2, <3>3, <3>4, Zenon DEF RuleDbUnavailable, RuleDbSaturation, RuleReportingAnomaly
    <3>6. RuleServiceStoppedDbDrop(s, Seen \ missed) = {} /\ RuleQmaticServiceStopped(s, Seen \ missed) = {}
      BY <3>2, Zenon DEF RuleServiceStoppedDbDrop, RuleQmaticServiceStopped
    <3>. QED  BY <3>5, <3>6, TypesOfRules
  <2>2. CASE Outage \/ UNCHANGED vars
    BY <2>2 DEF Outage, vars, DiagnosesAgree, Types
  <2>. QED  BY <2>1, <2>2, PollOrOutage
<1>. QED  BY <1>1, <1>2, PTL DEF Spec
-----------------------------------------------------------------------------
(***************************************************************************)
(* Reports and labels.                                                     *)
(***************************************************************************)
\* The loader drops monitored_databases, so no database misses connections.
LEMMA NothingMissing ==
  ASSUME NEW w \in Worlds
  PROVE  ~JdbcMissing(Signals(w))
  BY DEF JdbcMissing, Signals, MissingServices, MonitoredDatabases

\* An environment with a reported incident is never labelled HEALTHY, whatever
\* was collected, whatever the history says.
THEOREM ReportedIsNotHealthy == Spec => []IncidentIsNeverHealthy
<1>1. Init => IncidentIsNeverHealthy
  BY DEF Init, IncidentIsNeverHealthy, Report, Active
<1>2. IncidentIsNeverHealthy /\ [Next]_vars => IncidentIsNeverHealthy'
  <2>. SUFFICES ASSUME IncidentIsNeverHealthy, [Next]_vars PROVE IncidentIsNeverHealthy'
    OBVIOUS
  <2>1. ASSUME NEW w \in Worlds, NEW missed \in SUBSET Seen, NEW lost \in SUBSET RuleTypes,
             Poll(w, missed, lost)
        PROVE  IncidentIsNeverHealthy'
    <3>1. /\ incidents' = Correlate(Signals(w), Seen \ missed)
          /\ score' = HealthScore(Correlate(Signals(w), Seen \ missed), Signals(w))
      BY <2>1 DEF Poll
    <3>2. Report' = Active(incidents')
      BY DEF Report
    <3>3. Report' # {} => score' < 90
      BY <3>1, <3>2, HostsAreFinite, NothingMissing, ActiveIncidentScore
    <3>4. score' < 90 => Label' # "HEALTHY"
      <4>1. IsFiniteSet(incidents') /\ incidents' \subseteq IncidentRecords
        BY <3>1, CorrelateResult
      <4>2. score' \in 0..100
        BY <3>1, <4>1, HostsAreFinite, HealthScoreRange
      <4>. QED  BY <4>2 DEF Label, ScoreToLabel
    <3>. QED  BY <3>3, <3>4 DEF IncidentIsNeverHealthy
  <2>2. CASE Outage \/ UNCHANGED vars
    BY <2>2 DEF Outage, vars, IncidentIsNeverHealthy, Report, Active, Label
  <2>. QED  BY <2>1, <2>2, PollOrOutage
<1>. QED  BY <1>1, <1>2, PTL DEF Spec
-----------------------------------------------------------------------------
(***************************************************************************)
(* The same signals again.                                                 *)
(***************************************************************************)
\* What the last poll reported came from its signals and some history; a type
\* it suppressed is still remembered only if that history knew it, or would
\* have known it had it been read.
ReportInv ==
  world # NoSnap =>
    \E seen : /\ incidents = Correlate(Signals(world), seen)
              /\ \A t \in Types(Suppressed(incidents)) \ unread : left[t] > 0 => t \in seen

LEMMA ReportInvInit == Init => ReportInv
  BY DEF Init, ReportInv

\* One rule, one incident: a type is either reported or suppressed.
LEMMA OnePerType ==
  ASSUME NEW s, NEW seen, NEW i \in Correlate(s, seen), NEW j \in Correlate(s, seen),
         i.type = j.type
  PROVE  i = j
<1>. DEFINE InRule(x) ==
       \/ x \in RuleDbUnavailable(s, seen) /\ x.type = "db_unavailable"
       \/ x \in RuleDbSaturation(s, seen) /\ x.type = "db_saturation_api_cascade"
       \/ x \in RuleZeroActivity(s, seen) /\ x.type = "zero_activity_business_hours"
       \/ x \in RuleReportingAnomaly(s, seen) /\ x.type = "reporting_anomaly_with_db_pressure"
       \/ x \in RuleServiceStoppedDbDrop(s, seen) /\ x.type = "service_stopped_db_drop"
       \/ x \in RuleMemoryPressure(s, seen) /\ x.type = "memory_pressure_api_cascade"
       \/ x \in RuleSilentServiceFailure(s, seen) /\ x.type = "silent_service_failure"
       \/ x \in RuleAppLayerIssue(s, seen) /\ x.type = "app_layer_issue"
       \/ x \in RuleQmaticServiceStopped(s, seen) /\ x.type = "qmatic_service_stopped"
<1>1. ASSUME NEW R, NEW t, RuleResult(R, t)
      PROVE  \A x, y \in R : x = y /\ x.type = t
  BY <1>1 DEF RuleResult
<1>2. ASSUME NEW x \in Correlate(s, seen) PROVE InRule(x)
  <2>1. \/ x \in RuleDbUnavailable(s, seen) \/ x \in RuleDbSaturation(s, seen)
        \/ x \in RuleZeroActivity(s, seen) \/ x \in RuleReportingAnomaly(s, seen)
        \/ x \in RuleServiceStoppedDbDrop(s, seen) \/ x \in RuleMemoryPressure(s, seen)
        \/ x \in RuleSilentServiceFailure(s, seen) \/ x \in RuleAppLayerIssue(s, seen)
        \/ x \in RuleQmaticServiceStopped(s, seen)
    BY <1>2, Zenon DEF Correlate
  <2>. QED  BY <1>1, <2>1, RulesYieldResults
<1>3. InRule(i) /\ InRule(j)
  BY <1>2
<1>. QED  BY <1>1, <1>3, RulesYieldResults

LEMMA ReportInvStep == TypeOK /\ ReportInv /\ [Next]_vars => ReportInv'
<1>. SUFFICES ASSUME TypeOK, ReportInv, [Next]_vars PROVE ReportInv'
  OBVIOUS
<1>1. ASSUME NEW w \in Worlds, NEW missed \in SUBSET Seen, NEW lost \in SUBSET RuleTypes,
             Poll(w, missed, lost)
      PROVE  ReportInv'
  <2>. DEFINE found == Correlate(Signals(w), Seen \ missed)
  <2>1. world' = w /\ incidents' = found
    BY <1>1 DEF Poll
  <2>2. ASSUME NEW t \in Types(Suppressed(incidents')) \ unread', left'[t] > 0
        PROVE  t \in Seen \ missed
    <3>1. PICK i \in found : i.suppressed /\ i.type = t
      BY <2>1, <2>2 DEF Types, Suppressed
    <3>2. t \notin ActiveTypes(found)
      BY <3>1, OnePerType DEF ActiveTypes, Types, Active
    <3>3. t \in RuleTypes
      BY <3>1, CorrelateResult DEF Types
    <3>4. left'[t] = Age(t)
      BY <1>1, <3>2, <3>3 DEF Poll
    <3>5. t \in Seen
      BY <2>2, <3>3, <3>4 DEF Age, Seen, TypeOK
    <3>. QED  BY <1>1, <2>2, <3>5 DEF Poll
  <2>. HIDE DEF found
  <2>3. \E seen : incidents' = Correlate(Signals(world'), seen)
                  /\ \A t \in Types(Suppressed(incidents')) \ unread' : left'[t] > 0 => t \in seen
    BY <2>1, <2>2 DEF found
  <2>. QED  BY <2>3 DEF ReportInv, Types, Suppressed
<1>2. CASE Outage
  BY <1>2 DEF Outage, ReportInv
<1>3. CASE UNCHANGED vars
  <2>1. world' = world /\ incidents' = incidents /\ left' = left /\ unread' = unread
    BY <1>3 DEF vars
  <2>. QED  BY <2>1 DEF ReportInv, Types, Suppressed
<1>. QED  BY <1>1, <1>2, <1>3, PollOrOutage

LEMMA ReportsExplained == Spec => []ReportInv
  BY ReportInvInit, ReportInvStep, MonitorTypeCorrect, PTL DEF Spec

\* Polling the same signals again keeps a suppressed incident suppressed,
\* unless it was suppressed because its history was not read.
THEOREM SuppressionKept == Spec => SuppressedStaysSuppressed
<1>1. ReportInv /\ [Next]_vars =>
        [ world' = world /\ world # NoSnap =>
            Types(Suppressed(incidents)) \ unread \subseteq Types(Suppressed(incidents')) ]_vars
  <2>. SUFFICES ASSUME ReportInv, Next, world' = world, world # NoSnap,
                       NEW i \in Suppressed(incidents), i.type \notin unread
                PROVE  \E j \in Suppressed(incidents') : j.type = i.type
    BY DEF Types
  <2>1. PICK missed \in SUBSET Seen, lost \in SUBSET RuleTypes :
         world \in Worlds /\ Poll(world, missed, lost)
    BY PollOrOutage DEF Poll, Outage
  <2>2. PICK seen : /\ incidents = Correlate(Signals(world), seen)
                    /\ \A t \in Types(Suppressed(incidents)) \ unread : left[t] > 0 => t \in seen
    BY DEF ReportInv
  <2>3. /\ i \in Correlate(Signals(world), seen) /\ i.suppressed
        /\ i.type \in Types(Suppressed(incidents)) \ unread
    BY <2>2 DEF Suppressed, Types
  <2>. DEFINE later == Seen \ missed
  <2>. HIDE DEF later
  <2>4. i.type \in later => i.type \in seen
    BY <2>2, <2>3 DEF Seen, later
  <2>5. PICK j \in Correlate(Signals(world), later) :
          /\ j.type = i.type
          /\ i.suppressed = (i.confidence < 50) /\ j.suppressed = (j.confidence < 50)
          /\ i.confidence \in 0..100 /\ j.confidence \in 0..100 /\ j.confidence <= i.confidence
    BY <2>3, <2>4, OtherHistory
  <2>6. i.confidence < 50
    BY <2>3, <2>5, Zenon
  <2>7. j.confidence < 50
    BY <2>5, <2>6
  <2>8. j.suppressed
    BY <2>5, <2>7, Zenon
  <2>9. incidents' = Correlate(Signals(world), later)
    BY <2>1 DEF Poll, later
  <2>. QED  BY <2>5, <2>8, <2>9 DEF Suppressed
<1>. QED  BY <1>1, ReportsExplained, PTL DEF Spec, SuppressedStaysSuppressed

\* Polling the same signals again never weakens a reported incident that the
\* history still holds, if it can be read.
THEOREM ReportsNeverWeaken == Spec => SameSignalsNeverWeaken
<1>1. ReportInv /\ TypeOK /\ [Next]_vars =>
        [ world' = world /\ world # NoSnap =>
            \A i \in Report : left[i.type] > 0 /\ i.type \notin unread' =>
              \E j \in Report' : /\ j.type = i.type /\ j.confidence >= i.confidence
                                 /\ i.severity = "critical" => j.severity = "critical" ]_vars
  <2>. SUFFICES ASSUME ReportInv, TypeOK, Next, world' = world, world # NoSnap,
                       NEW i \in Report, left[i.type] > 0, i.type \notin unread'
                PROVE  \E j \in Report' : /\ j.type = i.type /\ j.confidence >= i.confidence
                                          /\ i.severity = "critical" => j.severity = "critical"
    OBVIOUS
  <2>1. PICK missed \in SUBSET Seen, lost \in SUBSET RuleTypes :
         world \in Worlds /\ Poll(world, missed, lost)
    BY PollOrOutage DEF Poll, Outage
  <2>2. PICK seen : incidents = Correlate(Signals(world), seen)
    BY DEF ReportInv
  <2>3. i \in Correlate(Signals(world), seen) /\ ~i.suppressed
    BY <2>2 DEF Report, Active
  <2>. DEFINE later == Seen \ missed
  <2>. HIDE DEF later
  <2>4. i.type \in later
    BY <2>1, <2>3, CorrelateResult DEF Seen, Types, Poll, later
  <2>5. PICK j \in Correlate(Signals(world), later) :
          /\ j.type = i.type
          /\ i.suppressed = (i.confidence < 50) /\ j.suppressed = (j.confidence < 50)
          /\ i.confidence \in 0..100 /\ j.confidence \in 0..100
          /\ (i.type \in seen => i.type \in later) =>
               /\ j.confidence >= i.confidence
               /\ i.severity = "critical" => j.severity = "critical"
    BY <2>3, OtherHistory
  <2>6. ~(i.confidence < 50)
    BY <2>3, <2>5, Zenon
  <2>7. ~(j.confidence < 50)
    BY <2>4, <2>5, <2>6
  <2>8. ~j.suppressed
    BY <2>5, <2>7, Zenon
  <2>9. incidents' = Correlate(Signals(world), later)
    BY <2>1 DEF Poll, later
  <2>10. j \in Report'
    BY <2>5, <2>8, <2>9 DEF Report, Active
  <2>. QED  BY <2>4, <2>5, <2>10
<1>. QED  BY <1>1, ReportsExplained, MonitorTypeCorrect, PTL DEF Spec, SameSignalsNeverWeaken
=============================================================================
