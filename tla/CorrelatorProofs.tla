-------------------------- MODULE CorrelatorProofs --------------------------
(***************************************************************************)
(* Lemmas about the rules, the confidence and the health score, for every  *)
(* signals record and every history.                                       *)
(***************************************************************************)
EXTENDS Correlator, FiniteSetTheorems, TLAPS

(***************************************************************************)
(* Products and quotients, which the scores and the SLO figures round.     *)
(***************************************************************************)
LEMMA ProductMonotone ==
  ASSUME NEW k \in Nat, NEW p \in Nat, NEW m \in Nat, p <= m
  PROVE  k * p <= k * m
  BY SMT

\* A quotient is below every number whose product with the divisor exceeds the
\* dividend.
LEMMA QuotientBelow ==
  ASSUME NEW x \in Nat, NEW d \in Nat \ {0}, NEW q \in Nat, x < d * q
  PROVE  x \div d < q
<1>1. d * (x \div d) <= x /\ x \div d \in Nat
  BY SMT
<1>2. CASE x \div d >= q
  <2>1. d * q <= d * (x \div d)
    BY <1>1, <1>2, ProductMonotone
  <2>. QED  BY <1>1, <2>1
<1>. QED  BY <1>1, <1>2
-----------------------------------------------------------------------------
\* What a rule hands to Incident: one of the two graded severities and two or
\* three pieces of evidence.
Reported(R, t, s, seen) ==
  \E raw \in {"warning", "critical"} : \E a, b, c, biz :
    \/ R = {Incident(t, raw, <<a, b>>, s, biz, seen)}
    \/ R = {Incident(t, raw, <<a, b, c>>, s, biz, seen)}

\* A rule for type t yields nothing or one incident record of that type.
RuleResult(R, t) == R = {} \/ \E i \in IncidentRecords : R = {i} /\ i.type = t

\* The five scores add up to a natural number, capped at 100.
LEMMA ConfidenceRange ==
  ASSUME NEW t, NEW a, NEW b, NEW c, NEW s, NEW biz, NEW seen
  PROVE  /\ Confidence(t, <<a, b>>, s, biz, seen) \in 0..100
         /\ Confidence(t, <<a, b, c>>, s, biz, seen) \in 0..100
<1>1. ASSUME NEW e PROVE SignalSeverityScore(e) \in {0, 15, 30}
  BY Zenon DEF SignalSeverityScore
<1>2. EvidenceCountScore(<<a, b>>) = 16 /\ EvidenceCountScore(<<a, b, c>>) = 25
  BY DEF EvidenceCountScore
<1>3. RecencyScore(s) \in {0, 10, 20}
  BY Zenon DEF RecencyScore
<1>4. RecurrenceScore(t, seen) \in {0, 15} /\ BusinessHoursScore(biz) \in {0, 10}
  BY Zenon DEF RecurrenceScore, BusinessHoursScore
<1>5. SignalSeverityScore(<<a, b>>) \in {0, 15, 30} /\ SignalSeverityScore(<<a, b, c>>) \in {0, 15, 30}
  BY <1>1
<1>. QED  BY <1>2, <1>3, <1>4, <1>5 DEF Confidence

\* An incident built from them is an incident record.
LEMMA IncidentIsRecord ==
  ASSUME NEW t \in RuleTypes, NEW raw \in {"warning", "critical"},
         NEW a, NEW b, NEW c, NEW s, NEW biz, NEW seen
  PROVE  /\ Incident(t, raw, <<a, b>>, s, biz, seen) \in IncidentRecords
         /\ Incident(t, raw, <<a, b, c>>, s, biz, seen) \in IncidentRecords
         /\ Incident(t, raw, <<a, b>>, s, biz, seen).type = t
         /\ Incident(t, raw, <<a, b, c>>, s, biz, seen).type = t
<1>1. ASSUME NEW conf PROVE AdjustSeverity(raw, conf) \in {"warning", "critical"}
  BY Zenon DEF AdjustSeverity
<1>2. ASSUME NEW conf PROVE ShouldSuppress(conf) \in BOOLEAN
  BY DEF ShouldSuppress
<1>. QED  BY <1>1, <1>2, ConfidenceRange DEF Incident, IncidentRecords

\* Each of the nine rules of correlator.py yields incidents of its own type.
LEMMA RulesYieldResults ==
  ASSUME NEW s, NEW seen
  PROVE  /\ RuleResult(RuleDbUnavailable(s, seen), "db_unavailable")
         /\ RuleResult(RuleDbSaturation(s, seen), "db_saturation_api_cascade")
         /\ RuleResult(RuleZeroActivity(s, seen), "zero_activity_business_hours")
         /\ RuleResult(RuleReportingAnomaly(s, seen), "reporting_anomaly_with_db_pressure")
         /\ RuleResult(RuleServiceStoppedDbDrop(s, seen), "service_stopped_db_drop")
         /\ RuleResult(RuleMemoryPressure(s, seen), "memory_pressure_api_cascade")
         /\ RuleResult(RuleSilentServiceFailure(s, seen), "silent_service_failure")
         /\ RuleResult(RuleAppLayerIssue(s, seen), "app_layer_issue")
         /\ RuleResult(RuleQmaticServiceStopped(s, seen), "qmatic_service_stopped")
<1>. DEFINE OneOf(R, t) == R = {} \/ Reported(R, t, s, seen)
<1>1. ASSUME NEW R, NEW t \in RuleTypes, OneOf(R, t)
      PROVE  RuleResult(R, t)
  <2>1. CASE R = {}
    BY <2>1 DEF RuleResult
  <2>2. CASE Reported(R, t, s, seen)
    <3>1. PICK raw \in {"warning", "critical"} :
            \E a, b, c, biz : \/ R = {Incident(t, raw, <<a, b>>, s, biz, seen)}
                              \/ R = {Incident(t, raw, <<a, b, c>>, s, biz, seen)}
      BY <2>2 DEF Reported
    <3>2. PICK a, b, c, biz : \/ R = {Incident(t, raw, <<a, b>>, s, biz, seen)}
                              \/ R = {Incident(t, raw, <<a, b, c>>, s, biz, seen)}
      BY <3>1
    <3>. QED  BY <3>2, IncidentIsRecord DEF RuleResult
  <2>. QED  BY <1>1, <2>1, <2>2
<1>2. OneOf(RuleDbUnavailable(s, seen), "db_unavailable")
  BY Zenon DEF Reported, RuleDbUnavailable
<1>3. OneOf(RuleDbSaturation(s, seen), "db_saturation_api_cascade")
  BY Zenon DEF Reported, RuleDbSaturation
<1>4. OneOf(RuleZeroActivity(s, seen), "zero_activity_business_hours")
  BY Zenon DEF Reported, RuleZeroActivity
<1>5. OneOf(RuleReportingAnomaly(s, seen), "reporting_anomaly_with_db_pressure")
  BY Zenon DEF Reported, RuleReportingAnomaly
<1>6. OneOf(RuleServiceStoppedDbDrop(s, seen), "service_stopped_db_drop")
  BY Zenon DEF Reported, RuleServiceStoppedDbDrop
<1>7. OneOf(RuleMemoryPressure(s, seen), "memory_pressure_api_cascade")
  BY Zenon DEF Reported, RuleMemoryPressure
<1>8. OneOf(RuleSilentServiceFailure(s, seen), "silent_service_failure")
  BY Zenon DEF Reported, RuleSilentServiceFailure
<1>9. OneOf(RuleAppLayerIssue(s, seen), "app_layer_issue")
  BY Zenon DEF Reported, RuleAppLayerIssue
<1>10. OneOf(RuleQmaticServiceStopped(s, seen), "qmatic_service_stopped")
  BY Zenon DEF Reported, RuleQmaticServiceStopped
<1>. HIDE DEF OneOf
<1>. QED
  BY <1>1, <1>2, <1>3, <1>4, <1>5, <1>6, <1>7, <1>8, <1>9, <1>10
     DEF RuleTypes

\* The engine returns finitely many incidents, all of registered types.
LEMMA CorrelateResult ==
  ASSUME NEW s, NEW seen
  PROVE  /\ IsFiniteSet(Correlate(s, seen))
         /\ Correlate(s, seen) \subseteq IncidentRecords
         /\ Types(Correlate(s, seen)) \subseteq RuleTypes
<1>. DEFINE Fine(R) == IsFiniteSet(R) /\ R \subseteq IncidentRecords
<1>1. ASSUME NEW R, NEW t, RuleResult(R, t)
      PROVE  Fine(R)
  BY <1>1, FS_EmptySet, FS_Singleton DEF RuleResult
<1>2. ASSUME NEW R, NEW S, Fine(R), Fine(S)
      PROVE  Fine(R \cup S)
  BY <1>2, FS_Union
<1>. DEFINE First3 == (RuleDbUnavailable(s, seen) \cup RuleDbSaturation(s, seen))
                      \cup RuleZeroActivity(s, seen)
            Next3  == (RuleReportingAnomaly(s, seen) \cup RuleServiceStoppedDbDrop(s, seen))
                      \cup RuleMemoryPressure(s, seen)
            Last3  == (RuleSilentServiceFailure(s, seen) \cup RuleAppLayerIssue(s, seen))
                      \cup RuleQmaticServiceStopped(s, seen)
<1>. HIDE DEF Fine
<1>3. Fine(First3) /\ Fine(Next3) /\ Fine(Last3)
  BY <1>1, <1>2, RulesYieldResults
<1>4. Correlate(s, seen) = (First3 \cup Next3) \cup Last3
  BY Zenon DEF Correlate
<1>. HIDE DEF First3, Next3, Last3
<1>5. Fine(First3 \cup Next3)
  BY <1>2, <1>3
<1>6. Fine(Correlate(s, seen))
  BY <1>2, <1>3, <1>4, <1>5
<1>. QED  BY <1>6 DEF Fine, Types, IncidentRecords

\* Filtering incidents keeps them few and of registered types.
LEMMA FilteredIncidents ==
  ASSUME NEW incidents, IsFiniteSet(incidents), Types(incidents) \subseteq RuleTypes
  PROVE  /\ ActiveTypes(incidents) \subseteq RuleTypes
         /\ Cardinality(Active(incidents)) \in Nat
         /\ Cardinality(Suppressed(incidents)) \in Nat
<1>1. Active(incidents) \subseteq incidents /\ Suppressed(incidents) \subseteq incidents
  BY DEF Active, Suppressed
<1>2. IsFiniteSet(Active(incidents)) /\ IsFiniteSet(Suppressed(incidents))
  BY <1>1, FS_Subset
<1>. QED  BY <1>1, <1>2, FS_CardinalityType DEF ActiveTypes, Types

\* An incident of the database outage comes from its own rule.
LEMMA IncidentOfRule ==
  ASSUME NEW s, NEW seen, NEW i \in Correlate(s, seen), i.type = "db_unavailable"
  PROVE  i \in RuleDbUnavailable(s, seen)
<1>1. ASSUME NEW R, NEW t, RuleResult(R, t), i \in R
      PROVE  t = "db_unavailable"
  BY <1>1 DEF RuleResult
<1>2. \/ i \in RuleDbUnavailable(s, seen) \/ i \in RuleDbSaturation(s, seen)
      \/ i \in RuleZeroActivity(s, seen) \/ i \in RuleReportingAnomaly(s, seen)
      \/ i \in RuleServiceStoppedDbDrop(s, seen) \/ i \in RuleMemoryPressure(s, seen)
      \/ i \in RuleSilentServiceFailure(s, seen) \/ i \in RuleAppLayerIssue(s, seen)
      \/ i \in RuleQmaticServiceStopped(s, seen)
  BY Zenon DEF Correlate
<1>. QED  BY <1>1, <1>2, RulesYieldResults

\* The least confidence of an outage with fresh signals is 66: 30 for critical
\* evidence, 16 for two pieces of it and 20 for their age.  The 15 points for
\* the recurrence of a remembered one make it 81.
LEMMA FreshOutage ==
  ASSUME NEW s, NEW seen, s.age <= 120, NEW i \in Correlate(s, seen), i.type = "db_unavailable"
  PROVE  ~i.suppressed /\ ("db_unavailable" \in seen => i.severity = "critical")
<1>1. i \in RuleDbUnavailable(s, seen)
  BY IncidentOfRule
<1>2. s.pg # NoSnap
  BY <1>1 DEF RuleDbUnavailable
<1>3. PICK evidence \in {<<"critical", "critical">>, <<"critical", "critical", "critical">>} :
        i = Incident("db_unavailable", "critical", evidence, s, s.biz, seen)
  BY <1>1, Zenon DEF RuleDbUnavailable
<1>4. SignalSeverityScore(evidence) = 30
  <2>1. 1 \in DOMAIN evidence /\ evidence[1] = "critical"
    BY <1>3
  <2>. QED  BY <2>1 DEF SignalSeverityScore
<1>5. EvidenceCountScore(evidence) \in {16, 25}
  <2>1. EvidenceCountScore(<<"critical", "critical">>) = 16
    BY DEF EvidenceCountScore
  <2>2. EvidenceCountScore(<<"critical", "critical", "critical">>) = 25
    BY DEF EvidenceCountScore
  <2>. QED  BY <1>3, <2>1, <2>2, Zenon
<1>6. /\ RecencyScore(s) = 20
      /\ RecurrenceScore("db_unavailable", seen) =
           IF "db_unavailable" \in seen THEN 15 ELSE 0
  BY <1>2 DEF RecencyScore, RecurrenceScore
<1>7. BusinessHoursScore(s.biz) \in {0, 10}
  BY DEF BusinessHoursScore
<1>. DEFINE confidence == Confidence("db_unavailable", evidence, s, s.biz, seen)
<1>8. /\ confidence \in Int /\ confidence >= 50
      /\ "db_unavailable" \in seen => confidence >= 80
  BY <1>4, <1>5, <1>6, <1>7 DEF Confidence
<1>9. i.suppressed = (confidence < 50) /\ i.severity = AdjustSeverity("critical", confidence)
  BY <1>3 DEF Incident, ShouldSuppress
<1>. HIDE DEF confidence
<1>10. ~(confidence < 50) /\ ("db_unavailable" \in seen => ~(confidence < 80))
  BY <1>8
<1>11. ~i.suppressed
  BY <1>9, <1>10, Zenon
<1>. QED  BY <1>9, <1>10, <1>11 DEF AdjustSeverity
-----------------------------------------------------------------------------
(***************************************************************************)
(* One set of signals against two histories.                               *)
(***************************************************************************)
\* What a rule finds with either history, P and Q, has the same severity and
\* the same evidence.
Twins(P, Q, t, s, seen, later) ==
  \E raw \in {"warning", "critical"} : \E a, b, c, biz :
    \/ /\ P = {Incident(t, raw, <<a, b>>, s, biz, seen)}
       /\ Q = {Incident(t, raw, <<a, b>>, s, biz, later)}
    \/ /\ P = {Incident(t, raw, <<a, b, c>>, s, biz, seen)}
       /\ Q = {Incident(t, raw, <<a, b, c>>, s, biz, later)}

\* Each of the nine rules looks at the signals, not at the history.
LEMMA RulesYieldTwins ==
  ASSUME NEW s, NEW seen, NEW later, NEW i \in Correlate(s, seen)
  PROVE  \E t \in RuleTypes : \E P, Q : /\ i \in P /\ Q \subseteq Correlate(s, later)
                                        /\ Twins(P, Q, t, s, seen, later)
<1>1. CASE i \in RuleDbUnavailable(s, seen)
  <2>1. Twins(RuleDbUnavailable(s, seen), RuleDbUnavailable(s, later), "db_unavailable",
              s, seen, later)
    BY <1>1, Zenon DEF Twins, RuleDbUnavailable
  <2>2. RuleDbUnavailable(s, later) \subseteq Correlate(s, later)
    BY Zenon DEF Correlate
  <2>. QED  BY <1>1, <2>1, <2>2 DEF RuleTypes
<1>2. CASE i \in RuleDbSaturation(s, seen)
  <2>1. Twins(RuleDbSaturation(s, seen), RuleDbSaturation(s, later), "db_saturation_api_cascade",
              s, seen, later)
    BY <1>2, Zenon DEF Twins, RuleDbSaturation
  <2>2. RuleDbSaturation(s, later) \subseteq Correlate(s, later)
    BY Zenon DEF Correlate
  <2>. QED  BY <1>2, <2>1, <2>2 DEF RuleTypes
<1>3. CASE i \in RuleZeroActivity(s, seen)
  <2>1. Twins(RuleZeroActivity(s, seen), RuleZeroActivity(s, later), "zero_activity_business_hours",
              s, seen, later)
    BY <1>3, Zenon DEF Twins, RuleZeroActivity
  <2>2. RuleZeroActivity(s, later) \subseteq Correlate(s, later)
    BY Zenon DEF Correlate
  <2>. QED  BY <1>3, <2>1, <2>2 DEF RuleTypes
<1>4. CASE i \in RuleReportingAnomaly(s, seen)
  <2>1. Twins(RuleReportingAnomaly(s, seen), RuleReportingAnomaly(s, later), "reporting_anomaly_with_db_pressure",
              s, seen, later)
    BY <1>4, Zenon DEF Twins, RuleReportingAnomaly
  <2>2. RuleReportingAnomaly(s, later) \subseteq Correlate(s, later)
    BY Zenon DEF Correlate
  <2>. QED  BY <1>4, <2>1, <2>2 DEF RuleTypes
<1>5. CASE i \in RuleServiceStoppedDbDrop(s, seen)
  <2>1. Twins(RuleServiceStoppedDbDrop(s, seen), RuleServiceStoppedDbDrop(s, later), "service_stopped_db_drop",
              s, seen, later)
    BY <1>5, Zenon DEF Twins, RuleServiceStoppedDbDrop
  <2>2. RuleServiceStoppedDbDrop(s, later) \subseteq Correlate(s, later)
    BY Zenon DEF Correlate
  <2>. QED  BY <1>5, <2>1, <2>2 DEF RuleTypes
<1>6. CASE i \in RuleMemoryPressure(s, seen)
  <2>1. Twins(RuleMemoryPressure(s, seen), RuleMemoryPressure(s, later), "memory_pressure_api_cascade",
              s, seen, later)
    BY <1>6, Zenon DEF Twins, RuleMemoryPressure
  <2>2. RuleMemoryPressure(s, later) \subseteq Correlate(s, later)
    BY Zenon DEF Correlate
  <2>. QED  BY <1>6, <2>1, <2>2 DEF RuleTypes
<1>7. CASE i \in RuleSilentServiceFailure(s, seen)
  <2>1. Twins(RuleSilentServiceFailure(s, seen), RuleSilentServiceFailure(s, later), "silent_service_failure",
              s, seen, later)
    BY <1>7, Zenon DEF Twins, RuleSilentServiceFailure
  <2>2. RuleSilentServiceFailure(s, later) \subseteq Correlate(s, later)
    BY Zenon DEF Correlate
  <2>. QED  BY <1>7, <2>1, <2>2 DEF RuleTypes
<1>8. CASE i \in RuleAppLayerIssue(s, seen)
  <2>1. Twins(RuleAppLayerIssue(s, seen), RuleAppLayerIssue(s, later), "app_layer_issue",
              s, seen, later)
    BY <1>8, Zenon DEF Twins, RuleAppLayerIssue
  <2>2. RuleAppLayerIssue(s, later) \subseteq Correlate(s, later)
    BY Zenon DEF Correlate
  <2>. QED  BY <1>8, <2>1, <2>2 DEF RuleTypes
<1>9. CASE i \in RuleQmaticServiceStopped(s, seen)
  <2>1. Twins(RuleQmaticServiceStopped(s, seen), RuleQmaticServiceStopped(s, later), "qmatic_service_stopped",
              s, seen, later)
    BY <1>9, Zenon DEF Twins, RuleQmaticServiceStopped
  <2>2. RuleQmaticServiceStopped(s, later) \subseteq Correlate(s, later)
    BY Zenon DEF Correlate
  <2>. QED  BY <1>9, <2>1, <2>2 DEF RuleTypes
<1>. QED
  BY <1>1, <1>2, <1>3, <1>4, <1>5, <1>6, <1>7, <1>8, <1>9, Zenon DEF Correlate

\* A history that knows the type raises the confidence by 15 and changes
\* nothing else; more confidence can only raise the severity.
LEMMA IncidentTwins ==
  ASSUME NEW t, NEW raw, NEW e, EvidenceCountScore(e) \in {16, 25}, NEW s, NEW biz,
         NEW seen, NEW later, NEW i, NEW j,
         i = Incident(t, raw, e, s, biz, seen), j = Incident(t, raw, e, s, biz, later)
  PROVE  /\ i.type = t /\ j.type = t
         /\ i.suppressed = (i.confidence < 50) /\ j.suppressed = (j.confidence < 50)
         /\ i.confidence \in 0..100 /\ j.confidence \in 0..100
         /\ (t \in later => t \in seen) => j.confidence <= i.confidence
         /\ (t \in seen => t \in later) =>
              /\ j.confidence >= i.confidence
              /\ i.severity = "critical" => j.severity = "critical"
<1>. DEFINE base == SignalSeverityScore(e) + EvidenceCountScore(e) + RecencyScore(s)
            hours == BusinessHoursScore(biz)
            CapAt(n) == IF n < 100 THEN n ELSE 100
<1>1. base \in 0..100 /\ hours \in {0, 10}
  <2>1. SignalSeverityScore(e) \in {0, 15, 30} /\ RecencyScore(s) \in {0, 10, 20}
    BY Zenon DEF SignalSeverityScore, RecencyScore
  <2>2. hours \in {0, 10}
    BY DEF BusinessHoursScore
  <2>. QED  BY <2>1, <2>2
<1>2. /\ i.confidence = CapAt(base + RecurrenceScore(t, seen) + hours)
      /\ j.confidence = CapAt(base + RecurrenceScore(t, later) + hours)
  BY DEF Incident, Confidence
<1>3. /\ i.type = t /\ j.type = t
      /\ i.severity = AdjustSeverity(raw, i.confidence) /\ j.severity = AdjustSeverity(raw, j.confidence)
      /\ i.suppressed = (i.confidence < 50) /\ j.suppressed = (j.confidence < 50)
  BY DEF Incident, ShouldSuppress
<1>4. RecurrenceScore(t, seen) \in {0, 15} /\ RecurrenceScore(t, later) \in {0, 15}
  BY Zenon DEF RecurrenceScore
<1>. HIDE DEF base, hours
<1>5. i.confidence \in 0..100 /\ j.confidence \in 0..100
  BY <1>1, <1>2, <1>4
<1>6. ASSUME t \in later => t \in seen PROVE j.confidence <= i.confidence
  <2>1. RecurrenceScore(t, later) <= RecurrenceScore(t, seen)
    BY <1>6 DEF RecurrenceScore
  <2>. QED  BY <1>1, <1>2, <1>4, <2>1
<1>7. ASSUME t \in seen => t \in later PROVE j.confidence >= i.confidence
  <2>1. RecurrenceScore(t, seen) <= RecurrenceScore(t, later)
    BY <1>7 DEF RecurrenceScore
  <2>. QED  BY <1>1, <1>2, <1>4, <2>1
<1>8. ASSUME j.confidence >= i.confidence, i.severity = "critical" PROVE j.severity = "critical"
  BY <1>3, <1>5, <1>8 DEF AdjustSeverity
<1>. QED  BY <1>3, <1>5, <1>6, <1>7, <1>8

\* The same signals with another history yield the same types; confidence and
\* severity follow the memory of the type.
LEMMA OtherHistory ==
  ASSUME NEW s, NEW seen, NEW later, NEW i \in Correlate(s, seen)
  PROVE  \E j \in Correlate(s, later) :
           /\ j.type = i.type
           /\ i.suppressed = (i.confidence < 50) /\ j.suppressed = (j.confidence < 50)
           /\ i.confidence \in 0..100 /\ j.confidence \in 0..100
           /\ (i.type \in later => i.type \in seen) => j.confidence <= i.confidence
           /\ (i.type \in seen => i.type \in later) =>
                /\ j.confidence >= i.confidence
                /\ i.severity = "critical" => j.severity = "critical"
<1>1. PICK t \in RuleTypes : \E P, Q : /\ i \in P /\ Q \subseteq Correlate(s, later)
                                        /\ Twins(P, Q, t, s, seen, later)
  BY RulesYieldTwins
<1>2. PICK P, Q : /\ i \in P /\ Q \subseteq Correlate(s, later)
                  /\ Twins(P, Q, t, s, seen, later)
  BY <1>1
<1>3. PICK raw \in {"warning", "critical"} : \E a, b, c, biz :
        \/ /\ P = {Incident(t, raw, <<a, b>>, s, biz, seen)}
           /\ Q = {Incident(t, raw, <<a, b>>, s, biz, later)}
        \/ /\ P = {Incident(t, raw, <<a, b, c>>, s, biz, seen)}
           /\ Q = {Incident(t, raw, <<a, b, c>>, s, biz, later)}
  BY <1>2 DEF Twins
<1>4. PICK a, b, c, biz :
        \/ /\ P = {Incident(t, raw, <<a, b>>, s, biz, seen)}
           /\ Q = {Incident(t, raw, <<a, b>>, s, biz, later)}
        \/ /\ P = {Incident(t, raw, <<a, b, c>>, s, biz, seen)}
           /\ Q = {Incident(t, raw, <<a, b, c>>, s, biz, later)}
  BY <1>3
<1>5. PICK e \in {<<a, b>>, <<a, b, c>>} : /\ P = {Incident(t, raw, e, s, biz, seen)}
                                           /\ Q = {Incident(t, raw, e, s, biz, later)}
  BY <1>4, Zenon
<1>. DEFINE j == Incident(t, raw, e, s, biz, later)
<1>6. i = Incident(t, raw, e, s, biz, seen) /\ j \in Correlate(s, later)
  BY <1>2, <1>5
<1>7. PICK k : k = j
  OBVIOUS
<1>8. k \in Correlate(s, later) /\ k = Incident(t, raw, e, s, biz, later)
  BY <1>6, <1>7
<1>. HIDE DEF j
<1>9. EvidenceCountScore(e) \in {16, 25}
  <2>1. EvidenceCountScore(<<a, b>>) = 16 /\ EvidenceCountScore(<<a, b, c>>) = 25
    BY DEF EvidenceCountScore
  <2>. QED  BY <1>5, <2>1
<1>10. /\ i.type = t /\ k.type = t
       /\ i.suppressed = (i.confidence < 50) /\ k.suppressed = (k.confidence < 50)
       /\ i.confidence \in 0..100 /\ k.confidence \in 0..100
       /\ (t \in later => t \in seen) => k.confidence <= i.confidence
       /\ (t \in seen => t \in later) =>
            /\ k.confidence >= i.confidence
            /\ i.severity = "critical" => k.severity = "critical"
  BY <1>6, <1>8, <1>9, IncidentTwins
<1>. QED  BY <1>8, <1>10
-----------------------------------------------------------------------------
(***************************************************************************)
(* The health score.                                                       *)
(***************************************************************************)
\* What an incident costs is a natural number.
LEMMA IncidentPenaltyType ==
  ASSUME NEW incidents, incidents \subseteq IncidentRecords, NEW t
  PROVE  IncidentPenalty(incidents, t) \in Nat
<1>. DEFINE critical == {i \in Active(incidents) : i.type = t /\ i.severity = "critical"}
            warning  == {i \in Active(incidents) : i.type = t /\ i.severity # "critical"}
<1>1. ASSUME NEW S, S \subseteq incidents, S # {}
      PROVE  (CHOOSE i \in S : TRUE).confidence \in 0..100
  <2>1. (CHOOSE i \in S : TRUE) \in IncidentRecords
    BY <1>1
  <2>. QED  BY <2>1 DEF IncidentRecords
<1>2. critical \subseteq incidents /\ warning \subseteq incidents
  BY DEF Active
<1>3. CASE critical # {}
  <2>1. (CHOOSE i \in critical : TRUE).confidence \in 0..100
    BY <1>1, <1>2, <1>3
  <2>2. IncidentPenalty(incidents, t) = (40 * (CHOOSE i \in critical : TRUE).confidence) \div 100
    BY <1>3, Zenon DEF IncidentPenalty
  <2>. HIDE DEF critical
  <2>. QED  BY <2>1, <2>2
<1>4. CASE critical = {} /\ warning # {}
  <2>1. (CHOOSE i \in warning : TRUE).confidence \in 0..100
    BY <1>1, <1>2, <1>4
  <2>2. IncidentPenalty(incidents, t) = (20 * (CHOOSE i \in warning : TRUE).confidence) \div 100
    BY <1>4, Zenon DEF IncidentPenalty
  <2>. HIDE DEF warning
  <2>. QED  BY <2>1, <2>2
<1>5. CASE critical = {} /\ warning = {}
  <2>1. IncidentPenalty(incidents, t) = 0
    BY <1>5, Zenon DEF IncidentPenalty
  <2>. QED  BY <2>1
<1>. QED  BY <1>3, <1>4, <1>5

\* The other penalties are natural numbers too; only listed services count.
LEMMA PenaltyTypes ==
  ASSUME NEW s, s.win # NoSnap => IsFiniteSet(DOMAIN s.win.services)
  PROVE  PgPenalty(s.pg) \in Nat /\ HttpPenalty(s.http) \in Nat /\ WindowsPenalty(s.win) \in Nat
<1>1. PgPenalty(s.pg) \in Nat
  BY DEF PgPenalty
<1>2. HttpPenalty(s.http) \in Nat
  BY DEF HttpPenalty
<1>3. WindowsPenalty(s.win) \in Nat
  <2>1. CASE s.win = NoSnap
    BY <2>1 DEF WindowsPenalty
  <2>2. CASE s.win # NoSnap
    <3>1. /\ Stopped(s.win) \subseteq DOMAIN s.win.services
          /\ HeapAt(s.win, "critical") \subseteq DOMAIN s.win.services
          /\ HeapAt(s.win, "warning") \subseteq DOMAIN s.win.services
      BY DEF Stopped, HeapAt
    <3>2. /\ Cardinality(Stopped(s.win)) \in Nat
          /\ Cardinality(HeapAt(s.win, "critical")) \in Nat
          /\ Cardinality(HeapAt(s.win, "warning")) \in Nat
      BY <2>2, <3>1, FS_Subset, FS_CardinalityType
    <3>. QED  BY <3>2 DEF WindowsPenalty
  <2>. QED  BY <2>1, <2>2
<1>. QED  BY <1>1, <1>2, <1>3

\* All incidents together cost no less than those of one type.
LEMMA IncidentPenaltiesBound ==
  ASSUME NEW incidents, incidents \subseteq IncidentRecords, IsFiniteSet(incidents)
  PROVE  /\ IncidentPenalties(incidents) \in Nat
         /\ \A t \in RuleTypes : IncidentPenalties(incidents) >= IncidentPenalty(incidents, t)
<1>1. Cardinality(Suppressed(incidents)) \in Nat
  BY FilteredIncidents DEF Types, IncidentRecords
<1>2. ASSUME NEW t PROVE IncidentPenalty(incidents, t) \in Nat
  BY IncidentPenaltyType
<1>. QED  BY <1>1, <1>2 DEF IncidentPenalties, RuleTypes

\* Reported incidents of a type, all with a confidence of m or more, cost what
\* a warning of confidence m does.
LEMMA IncidentCosts ==
  ASSUME NEW incidents, incidents \subseteq IncidentRecords, NEW m \in 0..100, NEW t,
         t \in ActiveTypes(incidents),
         \A i \in Active(incidents) : i.type = t => i.confidence >= m
  PROVE  IncidentPenalty(incidents, t) >= (20 * m) \div 100
<1>. DEFINE critical == {i \in Active(incidents) : i.type = t /\ i.severity = "critical"}
            warning  == {i \in Active(incidents) : i.type = t /\ i.severity # "critical"}
<1>1. \A i \in Active(incidents) : i.confidence \in 0..100
  BY DEF Active, IncidentRecords
<1>2. ASSUME NEW S, S \subseteq {i \in Active(incidents) : i.type = t}, S # {}
      PROVE  (CHOOSE i \in S : TRUE).confidence \in m..100
  <2>1. (CHOOSE i \in S : TRUE) \in S
    BY <1>2
  <2>. QED  BY <1>1, <1>2, <2>1
<1>3. CASE critical # {}
  <2>1. (CHOOSE i \in critical : TRUE).confidence \in m..100
    BY <1>2, <1>3
  <2>2. IncidentPenalty(incidents, t) = (40 * (CHOOSE i \in critical : TRUE).confidence) \div 100
    BY <1>3, Zenon DEF IncidentPenalty
  <2>. HIDE DEF critical
  <2>. QED  BY <2>1, <2>2
<1>4. CASE critical = {}
  <2>1. warning # {}
    BY <1>4 DEF ActiveTypes, Types
  <2>2. (CHOOSE i \in warning : TRUE).confidence \in m..100
    BY <1>2, <2>1
  <2>3. IncidentPenalty(incidents, t) = (20 * (CHOOSE i \in warning : TRUE).confidence) \div 100
    BY <1>4, <2>1, Zenon DEF IncidentPenalty
  <2>. HIDE DEF warning
  <2>. QED  BY <2>2, <2>3
<1>. QED  BY <1>3, <1>4

\* The score stays between 0 and 100.
LEMMA HealthScoreRange ==
  ASSUME NEW s, s.win # NoSnap => IsFiniteSet(DOMAIN s.win.services),
         NEW incidents, incidents \subseteq IncidentRecords, IsFiniteSet(incidents)
  PROVE  HealthScore(incidents, s) \in 0..100
  BY PenaltyTypes, IncidentPenaltiesBound DEF HealthScore

\* An active outage has a confidence of at least 55, so it costs at least 11;
\* with the 30 of the unreachable database no more than 59 is left.
LEMMA ActiveOutageScore ==
  ASSUME NEW s, s.win # NoSnap => IsFiniteSet(DOMAIN s.win.services), NEW seen,
         "db_unavailable" \in ActiveTypes(Correlate(s, seen))
  PROVE  HealthScore(Correlate(s, seen), s) < 60
<1>. DEFINE found == Correlate(s, seen)
            outage == {i \in Active(found) : i.type = "db_unavailable"}
<1>1. outage # {}
  BY DEF ActiveTypes, Types
<1>2. ASSUME NEW i \in outage PROVE i.confidence \in 55..100
  <2>1. i \in RuleDbUnavailable(s, seen) /\ ~i.suppressed
    BY IncidentOfRule DEF Active
  <2>2. PICK biz : i \in {Incident("db_unavailable", "critical", <<"critical", "critical">>, s, biz, seen),
               Incident("db_unavailable", "critical", <<"critical", "critical", "critical">>, s, biz, seen)}
    BY <2>1, Zenon DEF RuleDbUnavailable
  <2>3. /\ EvidenceCountScore(<<"critical", "critical">>) = 16
        /\ EvidenceCountScore(<<"critical", "critical", "critical">>) = 25
    BY DEF EvidenceCountScore
  <2>4. /\ SignalSeverityScore(<<"critical", "critical">>) = 30
        /\ SignalSeverityScore(<<"critical", "critical", "critical">>) = 30
    <3>1. 1 \in DOMAIN <<"critical", "critical">> /\ 1 \in DOMAIN <<"critical", "critical", "critical">>
      OBVIOUS
    <3>. QED  BY <3>1 DEF SignalSeverityScore
  <2>5. RecencyScore(s) \in {0, 10, 20}
    BY Zenon DEF RecencyScore
  <2>6. RecurrenceScore("db_unavailable", seen) \in {0, 15} /\ BusinessHoursScore(biz) \in {0, 10}
    BY Zenon DEF RecurrenceScore, BusinessHoursScore
  <2>7. ASSUME NEW e \in {<<"critical", "critical">>, <<"critical", "critical", "critical">>},
               i = Incident("db_unavailable", "critical", e, s, biz, seen)
        PROVE  i.confidence \in 55..100
    <3>1. i.confidence = Confidence("db_unavailable", e, s, biz, seen)
          /\ i.suppressed = ShouldSuppress(i.confidence)
      BY <2>7 DEF Incident
    <3>2. EvidenceCountScore(e) \in {16, 25} /\ SignalSeverityScore(e) = 30
      BY <2>3, <2>4
    <3>3. ~(i.confidence < 50)
      BY <2>1, <3>1 DEF ShouldSuppress
    <3>. QED  BY <2>5, <2>6, <3>1, <3>2, <3>3 DEF Confidence
  <2>. QED  BY <2>2, <2>7
<1>3. found \subseteq IncidentRecords
  BY CorrelateResult
<1>4. IncidentPenalty(found, "db_unavailable") >= 11
  <2>. DEFINE m == 55
  <2>1. m \in 0..100 /\ (20 * m) \div 100 = 11
    OBVIOUS
  <2>2. \A i \in Active(found) : i.type = "db_unavailable" => i.confidence >= m
    BY <1>2
  <2>. HIDE DEF m, found
  <2>. QED  BY <1>3, <2>1, <2>2, IncidentCosts DEF found
<1>5. PgPenalty(s.pg) = 30
  <2>1. PICK i \in outage : TRUE
    BY <1>1
  <2>2. i \in RuleDbUnavailable(s, seen)
    BY IncidentOfRule DEF Active
  <2>. QED  BY <2>2 DEF RuleDbUnavailable, PgPenalty
<1>6. IncidentPenalties(found) \in Nat /\ IncidentPenalties(found) >= IncidentPenalty(found, "db_unavailable")
  BY CorrelateResult, IncidentPenaltiesBound DEF RuleTypes
<1>7. HttpPenalty(s.http) \in Nat /\ WindowsPenalty(s.win) \in Nat
  BY PenaltyTypes
<1>8. IncidentPenalty(found, "db_unavailable") \in Nat
  BY CorrelateResult, IncidentPenaltyType
<1>. HIDE DEF found
<1>. QED  BY <1>4, <1>5, <1>6, <1>7, <1>8 DEF HealthScore, found

\* Critical evidence, alone, is one point from being reported: 46, then 55.
LEMMA CriticalEvidence ==
  ASSUME NEW t, NEW e, SignalSeverityScore(e) = 30, EvidenceCountScore(e) \in {16, 25},
         NEW s, NEW biz, NEW seen, NEW raw, NEW i, i = Incident(t, raw, e, s, biz, seen),
         ~i.suppressed
  PROVE  i.confidence >= 55
<1>1. RecencyScore(s) \in {0, 10, 20} /\ RecurrenceScore(t, seen) \in {0, 15}
      /\ BusinessHoursScore(biz) \in {0, 10}
  BY Zenon DEF RecencyScore, RecurrenceScore, BusinessHoursScore
<1>2. i.confidence = Confidence(t, e, s, biz, seen) /\ ~(i.confidence < 50)
  BY DEF Incident, ShouldSuppress
<1>. QED  BY <1>1, <1>2 DEF Confidence

\* What else than its own cost a reported incident takes off the score, or a
\* confidence that makes it cost more than 10.  Without databases to look for
\* no rule misses their JDBC connections.
LEMMA IncidentHasCompany ==
  ASSUME NEW s, ~JdbcMissing(s), NEW seen, NEW i \in Active(Correlate(s, seen))
  PROVE  PgPenalty(s.pg) >= 5 \/ HttpPenalty(s.http) >= 10 \/ i.confidence >= 55
<1>1. RuleServiceStoppedDbDrop(s, seen) = {} /\ RuleSilentServiceFailure(s, seen) = {}
  BY Zenon DEF RuleServiceStoppedDbDrop, RuleSilentServiceFailure
<1>2. \/ i \in RuleDbUnavailable(s, seen) \/ i \in RuleDbSaturation(s, seen)
      \/ i \in RuleZeroActivity(s, seen) \/ i \in RuleReportingAnomaly(s, seen)
      \/ i \in RuleMemoryPressure(s, seen) \/ i \in RuleAppLayerIssue(s, seen)
      \/ i \in RuleQmaticServiceStopped(s, seen)
  <2>1. i \in Correlate(s, seen)
    BY DEF Active
  <2>. QED  BY <1>1, <2>1, Zenon DEF Correlate
<1>3. ASSUME ApiSlow(s.http), s.http # NoSnap PROVE HttpPenalty(s.http) >= 10
  BY <1>3 DEF ApiSlow, HttpPenalty
<1>4. CASE i \in RuleDbUnavailable(s, seen)
  BY <1>4 DEF RuleDbUnavailable, PgPenalty
<1>5. CASE i \in RuleDbSaturation(s, seen) \/ i \in RuleMemoryPressure(s, seen)
           \/ i \in RuleAppLayerIssue(s, seen)
  <2>1. ApiSlow(s.http) /\ s.http # NoSnap
    BY <1>5, Zenon DEF RuleDbSaturation, RuleMemoryPressure, RuleAppLayerIssue
  <2>. QED  BY <1>3, <2>1
<1>6. CASE i \in RuleReportingAnomaly(s, seen)
  <2>1. s.pg # NoSnap /\ s.pg.long # {}
    BY <1>6, Zenon DEF RuleReportingAnomaly
  <2>. QED  BY <2>1 DEF PgPenalty
<1>7. CASE i \in RuleZeroActivity(s, seen)
  <2>1. PICK b, c : i = Incident("zero_activity_business_hours", "critical", <<"critical", b, c>>,
                                 s, TRUE, seen)
    BY <1>7, Zenon DEF RuleZeroActivity
  <2>2. PICK e : e = <<"critical", b, c>>
    OBVIOUS
  <2>3. SignalSeverityScore(e) = 30 /\ EvidenceCountScore(e) \in {16, 25}
    <3>1. 1 \in DOMAIN e /\ e[1] = "critical" /\ Len(e) = 3
      BY <2>2
    <3>. QED  BY <3>1 DEF SignalSeverityScore, EvidenceCountScore
  <2>4. i = Incident("zero_activity_business_hours", "critical", e, s, TRUE, seen)
        /\ ~i.suppressed
    BY <2>1, <2>2 DEF Active
  <2>. QED  BY <2>3, <2>4, CriticalEvidence
<1>8. CASE i \in RuleQmaticServiceStopped(s, seen)
  <2>1. PICK e : e = <<"critical", "warning">>
    OBVIOUS
  <2>2. i = Incident("qmatic_service_stopped", "critical", e, s, s.biz, seen) /\ ~i.suppressed
    <3>1. i \in {Incident("qmatic_service_stopped", "critical", <<"critical", "warning">>,
                          s, s.biz, seen)}
      BY <1>8, Zenon DEF RuleQmaticServiceStopped
    <3>. QED  BY <2>1, <3>1 DEF Active
  <2>3. SignalSeverityScore(e) = 30 /\ EvidenceCountScore(e) \in {16, 25}
    <3>1. 1 \in DOMAIN e /\ e[1] = "critical" /\ Len(e) = 2
      BY <2>1
    <3>. QED  BY <3>1 DEF SignalSeverityScore, EvidenceCountScore
  <2>. QED  BY <2>2, <2>3, CriticalEvidence
<1>. QED  BY <1>2, <1>4, <1>5, <1>6, <1>7, <1>8

\* A reported incident leaves less than the 90 of a healthy environment: it
\* costs 10 at least, and does not come alone or costs 11.
LEMMA ActiveIncidentScore ==
  ASSUME NEW s, s.win # NoSnap => IsFiniteSet(DOMAIN s.win.services), ~JdbcMissing(s), NEW seen,
         Active(Correlate(s, seen)) # {}
  PROVE  HealthScore(Correlate(s, seen), s) < 90
<1>. DEFINE found == Correlate(s, seen)
<1>1. PICK i \in Active(found) : TRUE
  OBVIOUS
<1>2. /\ found \subseteq IncidentRecords /\ IsFiniteSet(found)
      /\ i.type \in ActiveTypes(found) /\ i.type \in RuleTypes
  BY <1>1, CorrelateResult DEF ActiveTypes, Types, Active, IncidentRecords
<1>3. ASSUME NEW j \in Active(found) PROVE j.confidence \in 50..100
  <2>1. j \in Correlate(s, seen) /\ ~j.suppressed
    BY DEF Active
  <2>2. PICK k \in Correlate(s, seen) :
          j.suppressed = (j.confidence < 50) /\ j.confidence \in 0..100
    BY <2>1, OtherHistory
  <2>3. ~(j.confidence < 50)
    BY <2>1, <2>2, Zenon
  <2>. QED  BY <2>2, <2>3
<1>4. IncidentPenalties(found) \in Nat /\ IncidentPenalties(found) >= IncidentPenalty(found, i.type)
  BY <1>2, IncidentPenaltiesBound
<1>5. /\ PgPenalty(s.pg) \in Nat /\ HttpPenalty(s.http) \in Nat /\ WindowsPenalty(s.win) \in Nat
      /\ IncidentPenalty(found, i.type) \in Nat
  BY <1>2, PenaltyTypes, IncidentPenaltyType
<1>6. IncidentPenalty(found, i.type) >= 10
  <2>. DEFINE m == 50
              t == i.type
  <2>1. m \in 0..100 /\ (20 * m) \div 100 = 10
    OBVIOUS
  <2>2. \A j \in Active(found) : j.type = t => j.confidence >= m
    BY <1>3
  <2>3. t \in ActiveTypes(found)
    BY <1>2
  <2>. HIDE DEF m, t, found
  <2>4. IncidentPenalty(found, t) >= 10
    BY <1>2, <2>1, <2>2, <2>3, IncidentCosts
  <2>. QED  BY <2>4 DEF t
<1>7. CASE PgPenalty(s.pg) >= 5 \/ HttpPenalty(s.http) >= 10
  <2>. HIDE DEF found
  <2>. QED  BY <1>4, <1>5, <1>6, <1>7 DEF HealthScore, found
<1>8. CASE ~(PgPenalty(s.pg) >= 5 \/ HttpPenalty(s.http) >= 10)
  <2>. DEFINE m == 55
              t == i.type
  <2>1. m \in 0..100 /\ (20 * m) \div 100 = 11
    OBVIOUS
  <2>2. \A j \in Active(found) : j.type = t => j.confidence >= m
    BY <1>8, IncidentHasCompany
  <2>3. t \in ActiveTypes(found)
    BY <1>2
  <2>4. IncidentPenalty(found, t) >= 11
    <3>. HIDE DEF m, t, found
    <3>. QED  BY <1>2, <2>1, <2>2, <2>3, IncidentCosts
  <2>. HIDE DEF found
  <2>. QED  BY <1>4, <1>5, <2>4 DEF HealthScore, found
<1>. QED  BY <1>7, <1>8
=============================================================================
