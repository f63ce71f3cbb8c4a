------------------------- MODULE ControlPlaneProofs -------------------------
(***************************************************************************)
(* Proofs about ControlPlane and, at the end, about the page that shows    *)
(* its file (Dashboard), which rest on them.                               *)
(***************************************************************************)
EXTENDS Dashboard, CorrelatorProofs

(***************************************************************************)
(* Lemmas about the operators the process calls.                           *)
(***************************************************************************)
\* One more poll keeps the accumulators typed.
LEMMA AccumulateType ==
  ASSUME NEW a \in Accumulators, NEW s, NEW incidents, NEW label,
         IsFiniteSet(incidents), Types(incidents) \subseteq RuleTypes
  PROVE  Accumulate(a, s, incidents, label) \in Accumulators
<1>1. Cardinality(Active(incidents)) \in Nat /\ Cardinality(Suppressed(incidents)) \in Nat
  BY FilteredIncidents
<1>. QED  BY <1>1 DEF Accumulate, Accumulators

\* The environment being polled is one of the configuration.
LEMMA EnvIsEnv ==
  ASSUME at \in 1..Len(EnvOrder)
  PROVE  Env \in Envs
  BY ControlPlaneAssumption DEF Env
-----------------------------------------------------------------------------
(***************************************************************************)
(* Type correctness.                                                       *)
(***************************************************************************)
Resting == {"top", "stopped", "dead"}

TypeInv ==
  /\ TypeOK
  /\ IsFiniteSet(found)
  /\ pc \notin Resting => cycle \in 1..MaxCycle

LEMMA TypeInvInit == Init => TypeInv
<1>. SUFFICES ASSUME Init PROVE TypeInv
  OBVIOUS
<1>1. IsFiniteSet({})
  BY FS_EmptySet
<1>2. NewAccumulators \in Accumulators
  BY DEF NewAccumulators, Accumulators
<1>3. <<>> \in Seq(PageEntries)
  OBVIOUS
<1>. QED
  BY <1>1, <1>2, <1>3, ControlPlaneAssumption DEF Init, TypeInv, TypeOK, PCs, Resting, Types

LEMMA TypeInvStep == TypeInv /\ [Next]_vars => TypeInv'
<1>. SUFFICES ASSUME TypeInv, [Next]_vars PROVE TypeInv'
  OBVIOUS
<1>. USE DEF TypeInv, TypeOK, Resting, PCs, disk
<1>1. CASE StartCycle
  BY <1>1, ControlPlaneAssumption DEF StartCycle
<1>2. CASE Stop
  BY <1>2 DEF Stop
<1>3. ASSUME NEW w \in Worlds, NEW missed \in Unreadable(w), PollSignals(w, missed)
      PROVE  TypeInv'
  <2>1. IsFiniteSet(found') /\ Types(found') \subseteq RuleTypes
    BY <1>3, CorrelateResult DEF PollSignals
  <2>2. todo' \subseteq RuleTypes
    BY <1>3, <2>1, FilteredIncidents DEF PollSignals
  <2>3. unread' \subseteq RuleTypes
    BY <1>3 DEF PollSignals, Unreadable, Seen
  <2>. QED  BY <1>3, <2>1, <2>2, <2>3 DEF PollSignals
<1>4. ASSUME NEW t \in todo, NEW kept \in BOOLEAN, AppendHistory(t, kept)
      PROVE  TypeInv'
  <2>1. Occurrence(t) \in Occurrences
    BY <1>4, EnvIsEnv DEF AppendHistory, Occurrence, Occurrences
  <2>2. ActiveTypes(found) \subseteq RuleTypes
    BY FilteredIncidents
  <2>. QED  BY <1>4, <2>1, <2>2 DEF AppendHistory
<1>5. ASSUME NEW t \in todo, SaveRca(t)
      PROVE  TypeInv'
  <2>1. Occurrence(t) \in Occurrences
    BY <1>5, EnvIsEnv DEF SaveRca, Occurrence, Occurrences
  <2>. QED  BY <1>5, <2>1 DEF SaveRca
<1>6. ASSUME NEW t \in todo, LogAlert(t)
      PROVE  TypeInv'
  <2>1. Occurrence(t) \in Occurrences
    BY <1>6, EnvIsEnv DEF LogAlert, Occurrence, Occurrences
  <2>. QED  BY <1>6, <2>1 DEF LogAlert
<1>7. CASE ScoreEnvironment
  <2>. DEFINE s == Signals(world)
              label == ScoreToLabel(HealthScore(found, s))
  <2>1. Env \in Envs
    BY EnvIsEnv
  <2>2. acc' = [acc EXCEPT ![Env] = Accumulate(acc[Env], s, found, label)]
    BY <1>7 DEF ScoreEnvironment
  <2>3. Accumulate(acc[Env], s, found, label) \in Accumulators
    BY <2>1, AccumulateType
  <2>4. acc' \in [Envs -> Accumulators]
    BY <2>1, <2>2, <2>3
  <2>5. page' \in Seq(PageEntries)
    <3>1. label \in {"HEALTHY", "DEGRADED", "CRITICAL"}
      BY DEF ScoreToLabel
    <3>2. OverallStatus(acc'[Env], s) \in {"ok", "at_risk", "breached"}
      BY DEF OverallStatus
    <3>3. ActiveTypes(found) \in SUBSET RuleTypes
      BY FilteredIncidents
    <3>4. [env |-> Env, label |-> label, types |-> ActiveTypes(found),
           slo |-> OverallStatus(acc'[Env], s)] \in PageEntries
      BY <2>1, <3>1, <3>2, <3>3 DEF PageEntries
    <3>. QED  BY <1>7, <3>4 DEF ScoreEnvironment
  <2>6. samples' \subseteq (1..MaxCycle) \X Envs
    BY <1>7, <2>1 DEF ScoreEnvironment
  <2>7. at' \in 1..Len(EnvOrder) /\ pc' \in PCs
    BY <1>7, ControlPlaneAssumption DEF ScoreEnvironment
  <2>8. IsFiniteSet(found') /\ Types(found') \subseteq RuleTypes /\ world' = NoSnap /\ unread' = {}
    BY <1>7, FS_EmptySet DEF ScoreEnvironment, Types
  <2>. QED  BY <1>7, <2>4, <2>5, <2>6, <2>7, <2>8 DEF ScoreEnvironment
<1>8. CASE TruncateState
  BY <1>8 DEF TruncateState
<1>9. CASE WriteState
  BY <1>9 DEF WriteState
<1>10. CASE Wake
  BY <1>10 DEF Wake
<1>11. CASE Signal
  BY <1>11 DEF Signal
<1>. DEFINE Forgotten ==
       /\ at' \in 1..Len(EnvOrder) /\ world' \in Worlds \cup {NoSnap}
       /\ IsFiniteSet(found') /\ Types(found') \subseteq RuleTypes
       /\ unread' \subseteq RuleTypes /\ todo' \subseteq RuleTypes /\ page' \in Seq(PageEntries)
<1>12. Forget => Forgotten
  BY FS_EmptySet, ControlPlaneAssumption DEF Forget, Types
<1>. HIDE DEF Forgotten
<1>13. CASE Crash
  BY <1>12, <1>13 DEF Crash, Forgotten
<1>14. CASE Restart
  <2>1. NewAccumulators \in Accumulators
    BY DEF NewAccumulators, Accumulators
  <2>2. cycle \in 0..MaxCycle /\ started' = cycle /\ UNCHANGED cycle
    BY <1>14 DEF Restart
  <2>. QED  BY <1>12, <1>14, <2>1, <2>2, ControlPlaneAssumption DEF Restart, Forgotten
<1>15. CASE UNCHANGED vars
  BY <1>15 DEF vars, process
<1>. QED
  BY <1>1, <1>2, <1>3, <1>4, <1>5, <1>6, <1>7, <1>8, <1>9, <1>10, <1>11, <1>13, <1>14, <1>15
     DEF Next, Poll, Proceed

\* The variables of the process and its files stay in their domains.
THEOREM TypeCorrect == Spec => []TypeOK
<1>1. TypeInv => TypeOK
  BY DEF TypeInv
<1>. QED  BY TypeInvInit, TypeInvStep, <1>1, PTL DEF Spec

\* The invariant holds in every reachable state, for the theorems below.
LEMMA TypeInvAlways == Spec => []TypeInv
  BY TypeInvInit, TypeInvStep, PTL DEF Spec
-----------------------------------------------------------------------------
(***************************************************************************)
(* Alerts are remembered.  While the history is being written the types no *)
(* longer in todo have been appended, or their append failed; from then on *)
(* all of the active ones have.                                            *)
(***************************************************************************)
Recorded(type) == Occurrence(type) \in history \cup lost

MemoryInv ==
  /\ AlertRemembered
  /\ pc \in {"history", "rca", "alert"} => todo \subseteq ActiveTypes(found)
  /\ pc = "history" => \A t \in ActiveTypes(found) \ todo : Recorded(t)
  /\ pc \in {"rca", "alert"} => \A t \in ActiveTypes(found) : Recorded(t)

LEMMA MemoryInvInit == Init => MemoryInv
  BY DEF Init, MemoryInv, AlertRemembered

LEMMA MemoryInvStep == TypeInv /\ MemoryInv /\ [Next]_vars => MemoryInv'
<1>. SUFFICES ASSUME TypeInv, MemoryInv, [Next]_vars PROVE MemoryInv'
  OBVIOUS
<1>. USE DEF MemoryInv, AlertRemembered, disk
<1>1. CASE StartCycle
  BY <1>1 DEF StartCycle
<1>2. CASE Stop
  BY <1>2 DEF Stop
<1>3. ASSUME NEW w \in Worlds, NEW missed \in Unreadable(w), PollSignals(w, missed)
      PROVE  MemoryInv'
  <2>1. todo' = ActiveTypes(found') /\ pc' \in {"score", "history"}
    BY <1>3 DEF PollSignals
  <2>2. ActiveTypes(found)' = ActiveTypes(found')
    BY DEF ActiveTypes, Types, Active
  <2>3. AlertRemembered'
    BY <1>3 DEF PollSignals
  <2>. QED  BY <2>1, <2>2, <2>3
<1>4. ASSUME NEW t \in todo, NEW kept \in BOOLEAN, AppendHistory(t, kept)
      PROVE  MemoryInv'
  <2>1. ASSUME NEW u PROVE Occurrence(u)' = Occurrence(u)
    BY <1>4 DEF AppendHistory, Occurrence, Env
  <2>2. ActiveTypes(found)' = ActiveTypes(found)
    BY <1>4 DEF AppendHistory, ActiveTypes, Types, Active
  <2>3. history \cup lost \cup {Occurrence(t)} = history' \cup lost'
    BY <1>4 DEF AppendHistory
  <2>4. \A u \in ActiveTypes(found) \ (todo \ {t}) : Recorded(u)'
    BY <1>4, <2>1, <2>3 DEF AppendHistory, Recorded
  <2>5. AlertRemembered'
    BY <1>4, <2>3 DEF AppendHistory
  <2>6. CASE todo = {t}
    BY <1>4, <2>2, <2>4, <2>5, <2>6 DEF AppendHistory
  <2>7. CASE todo # {t}
    <3>1. pc' = "history" /\ todo' = todo \ {t}
      BY <1>4, <2>7 DEF AppendHistory
    <3>. QED  BY <1>4, <2>2, <2>4, <2>5, <3>1 DEF AppendHistory
  <2>. QED  BY <2>6, <2>7
<1>5. ASSUME NEW t \in todo, SaveRca(t)
      PROVE  MemoryInv'
  BY <1>5 DEF SaveRca, Recorded, Occurrence, Env, ActiveTypes, Types, Active
<1>6. ASSUME NEW t \in todo, LogAlert(t)
      PROVE  MemoryInv'
  BY <1>6 DEF LogAlert, Recorded, Occurrence, Env, ActiveTypes, Types, Active
<1>7. CASE ScoreEnvironment
  BY <1>7 DEF ScoreEnvironment
<1>8. CASE TruncateState
  BY <1>8 DEF TruncateState
<1>9. CASE WriteState
  BY <1>9 DEF WriteState
<1>10. CASE Wake
  BY <1>10 DEF Wake
<1>11. CASE Signal
  BY <1>11 DEF Signal, Recorded, Occurrence, Env, ActiveTypes, Types, Active
<1>12. CASE Crash
  BY <1>12 DEF Crash
<1>13. CASE Restart
  BY <1>13 DEF Restart
<1>14. CASE UNCHANGED vars
  BY <1>14 DEF vars, process, Recorded, Occurrence, Env, ActiveTypes, Types, Active
<1>. QED
  BY <1>1, <1>2, <1>3, <1>4, <1>5, <1>6, <1>7, <1>8, <1>9, <1>10, <1>11, <1>12, <1>13, <1>14
     DEF Next, Poll, Proceed

\* No crash separates an alert from its history entry: every alerted incident
\* is in the history unless its append failed.
THEOREM AlertsAreRemembered == Spec => []AlertRemembered
<1>1. MemoryInv => AlertRemembered
  BY DEF MemoryInv
<1>. QED  BY MemoryInvInit, MemoryInvStep, TypeInvAlways, <1>1, PTL DEF Spec
-----------------------------------------------------------------------------
(***************************************************************************)
(* Alerts have their documents, when the file names of two environments    *)
(* differ (they need not: a name keeps only some of the characters).       *)
(***************************************************************************)
DistinctNames == \A e, f \in Envs : SafeName[e] = SafeName[f] => e = f

RcaInv ==
  /\ AlertHasRca
  /\ pc = "alert" => Occurrence(FirstIn(todo)) \in rca

\* A document replaces no other one.
LEMMA RcaGrows ==
  ASSUME DistinctNames, rca \subseteq Occurrences, NEW t, Occurrence(t) \in Occurrences, SaveRca(t)
  PROVE  rca' = rca \cup {Occurrence(t)}
<1>1. ASSUME NEW o \in rca, SameFile(o, Occurrence(t))
      PROVE  o = Occurrence(t)
  BY <1>1 DEF SameFile, Occurrences, DistinctNames
<1>. QED  BY <1>1 DEF SaveRca

LEMMA RcaInvStep ==
  ASSUME DistinctNames, TypeInv, RcaInv, [Next]_vars
  PROVE  RcaInv'
<1>. USE DEF RcaInv, AlertHasRca, disk
<1>1. CASE StartCycle \/ Stop \/ TruncateState \/ WriteState \/ Wake \/ Crash \/ Restart
  BY <1>1 DEF StartCycle, Stop, TruncateState, WriteState, Wake, Crash, Restart
<1>2. ASSUME NEW w \in Worlds, NEW missed \in Unreadable(w), PollSignals(w, missed)
      PROVE  RcaInv'
  BY <1>2 DEF PollSignals
<1>3. ASSUME NEW t \in todo, NEW kept \in BOOLEAN, AppendHistory(t, kept)
      PROVE  RcaInv'
  BY <1>3 DEF AppendHistory
<1>4. ASSUME NEW t \in todo, SaveRca(t)
      PROVE  RcaInv'
  <2>1. Occurrence(t) \in Occurrences
    BY <1>4, EnvIsEnv DEF SaveRca, Occurrence, Occurrences, TypeInv, TypeOK, Resting
  <2>3. rca' = rca \cup {Occurrence(t)}
    BY <1>4, <2>1, RcaGrows DEF TypeInv, TypeOK
  <2>4. Occurrence(FirstIn(todo))' = Occurrence(t)
    BY <1>4 DEF SaveRca, Occurrence, Env, FirstIn
  <2>. QED  BY <1>4, <2>3, <2>4 DEF SaveRca
<1>5. ASSUME NEW t \in todo, LogAlert(t)
      PROVE  RcaInv'
  BY <1>5 DEF LogAlert
<1>6. CASE ScoreEnvironment
  BY <1>6 DEF ScoreEnvironment
<1>7. CASE Signal \/ UNCHANGED vars
  <2>1. Occurrence(FirstIn(todo))' = Occurrence(FirstIn(todo))
    BY <1>7 DEF Signal, vars, process, Occurrence, Env, FirstIn
  <2>. QED  BY <1>7, <2>1 DEF Signal, vars, process
<1>. QED
  BY <1>1, <1>2, <1>3, <1>4, <1>5, <1>6, <1>7 DEF Next, Poll, Proceed

\* Every line of the alert log has its RCA document, provided no two
\* environments share the part of the file name that stands for them.
THEOREM AlertsHaveDocuments ==
  ASSUME DistinctNames
  PROVE  Spec => []AlertHasRca
<1>1. Init => RcaInv
  BY DEF Init, RcaInv, AlertHasRca
<1>2. TypeInv /\ RcaInv /\ [Next]_vars => RcaInv'
  BY RcaInvStep
<1>3. RcaInv => AlertHasRca
  BY DEF RcaInv
<1>. QED  BY <1>1, <1>2, <1>3, TypeInvAlways, PTL DEF Spec
-----------------------------------------------------------------------------
(***************************************************************************)
(* The dashboard is backed by the logs.  While the cycle goes on, the page *)
(* holds the environments before `at`; when all of the active incidents of *)
(* the current one are alerted, it can join them.                          *)
(***************************************************************************)
Alerted(type) == Occurrence(type) \in alerts

Polling == {"poll", "history", "rca", "alert", "score"}

DashInv ==
  /\ DashboardBacked
  /\ pc \in Polling => PageBacked(page, cycle, at - 1)
  /\ pc \in {"truncate", "write"} => PageBacked(page, cycle, Len(EnvOrder))
  /\ pc \in {"rca", "alert"} => \A t \in ActiveTypes(found) \ todo : Alerted(t)
  /\ pc = "score" => \A t \in ActiveTypes(found) : Alerted(t)

\* The logs only grow, so what backs a page goes on backing it.
LEMMA BackingGrows ==
  ASSUME samples \subseteq samples', alerts \subseteq alerts',
         NEW p, NEW c, NEW n, PageBacked(p, c, n)
  PROVE  PageBacked(p, c, n)'
  BY DEF PageBacked

LEMMA DashInvInit == Init => DashInv
  BY DEF Init, DashInv, DashboardBacked, Polling

LEMMA DashInvStep == TypeInv /\ DashInv /\ [Next]_vars => DashInv'
<1>. SUFFICES ASSUME TypeInv, DashInv, [Next]_vars PROVE DashInv'
  OBVIOUS
<1>. USE DEF DashInv, DashboardBacked, Polling, disk
<1>1. CASE StartCycle
  <2>1. PageBacked(<<>>, cycle + 1, 0)
    BY DEF PageBacked
  <2>. QED  BY <1>1, <2>1 DEF StartCycle, PageBacked
<1>2. CASE Stop \/ Wake \/ Crash \/ Restart
  BY <1>2 DEF Stop, Wake, Crash, Restart, PageBacked
<1>3. ASSUME NEW w \in Worlds, NEW missed \in Unreadable(w), PollSignals(w, missed)
      PROVE  DashInv'
  <2>1. ActiveTypes(found)' = todo'
    BY <1>3 DEF PollSignals, ActiveTypes, Types, Active
  <2>2. PageBacked(page, cycle, at - 1)' /\ DashboardBacked'
    BY <1>3 DEF PollSignals, PageBacked
  <2>. QED  BY <1>3, <2>1, <2>2 DEF PollSignals
<1>4. ASSUME NEW t \in todo, NEW kept \in BOOLEAN, AppendHistory(t, kept)
      PROVE  DashInv'
  <2>1. ActiveTypes(found)' = ActiveTypes(found)
    BY <1>4 DEF AppendHistory, ActiveTypes, Types, Active
  <2>2. PageBacked(page, cycle, at - 1)' /\ DashboardBacked'
    BY <1>4 DEF AppendHistory, PageBacked
  <2>3. pc' = "rca" => todo' = ActiveTypes(found)
    BY <1>4 DEF AppendHistory
  <2>. QED  BY <1>4, <2>1, <2>2, <2>3 DEF AppendHistory
<1>5. ASSUME NEW t \in todo, SaveRca(t)
      PROVE  DashInv'
  <2>1. ActiveTypes(found)' = ActiveTypes(found) /\ (\A u : Alerted(u)' = Alerted(u))
    BY <1>5 DEF SaveRca, ActiveTypes, Types, Active, Alerted, Occurrence, Env
  <2>2. PageBacked(page, cycle, at - 1)' /\ DashboardBacked'
    BY <1>5 DEF SaveRca, PageBacked
  <2>. QED  BY <1>5, <2>1, <2>2 DEF SaveRca
<1>6. ASSUME NEW t \in todo, LogAlert(t)
      PROVE  DashInv'
  <2>1. ActiveTypes(found)' = ActiveTypes(found)
    BY <1>6 DEF LogAlert, ActiveTypes, Types, Active
  <2>2. Alerted(t)' /\ \A u : Alerted(u) => Alerted(u)'
    BY <1>6 DEF LogAlert, Alerted, Occurrence, Env
  <2>3. PageBacked(page, cycle, at - 1)' /\ DashboardBacked'
    BY <1>6 DEF LogAlert, PageBacked
  <2>4. \A u \in ActiveTypes(found) \ todo' : Alerted(u)'
    BY <1>6, <2>2 DEF LogAlert
  <2>5. pc' = "score" => todo' = {}
    BY <1>6 DEF LogAlert
  <2>. QED  BY <1>6, <2>1, <2>3, <2>4, <2>5 DEF LogAlert
<1>7. CASE ScoreEnvironment
  <2>1. samples \subseteq samples' /\ alerts = alerts' /\ <<cycle, Env>> \in samples'
    BY <1>7 DEF ScoreEnvironment
  <2>2. DashboardBacked'
    BY <1>7, <2>1 DEF ScoreEnvironment, PageBacked
  <2>3. PageBacked(page, cycle, at - 1)
    BY <1>7 DEF ScoreEnvironment
  <2>4. PICK entry : page' = Append(page, entry) /\ entry.env = Env /\ entry.types = ActiveTypes(found)
    BY <1>7 DEF ScoreEnvironment
  <2>5. page \in Seq(PageEntries) /\ at \in 1..Len(EnvOrder) /\ cycle' = cycle
    BY <1>7 DEF ScoreEnvironment, TypeInv, TypeOK
  <2>6. Len(page') = at /\ page'[at] = entry /\ \A k \in 1..(at - 1) : page'[k] = page[k]
    BY <2>3, <2>4, <2>5 DEF PageBacked
  <2>7. \A t \in entry.types : <<cycle, EnvOrder[at], t>> \in alerts
    BY <1>7, <2>4 DEF ScoreEnvironment, Alerted, Occurrence, Env
  <2>8. ASSUME NEW k \in 1..at
        PROVE  /\ page'[k].env = EnvOrder[k]
               /\ <<cycle, EnvOrder[k]>> \in samples'
               /\ \A t \in page'[k].types : <<cycle, EnvOrder[k], t>> \in alerts'
    <3>1. CASE k = at
      BY <2>1, <2>4, <2>6, <2>7, <3>1 DEF Env
    <3>2. CASE k \in 1..(at - 1)
      BY <2>1, <2>3, <2>6, <3>2 DEF PageBacked
    <3>. QED  BY <2>5, <3>1, <3>2
  <2>9. (pc' = "poll" /\ at' = at + 1) \/ (pc' = "truncate" /\ at = Len(EnvOrder))
    BY <1>7 DEF ScoreEnvironment
  <2>. QED  BY <2>2, <2>5, <2>6, <2>8, <2>9 DEF PageBacked
<1>8. CASE TruncateState
  BY <1>8 DEF TruncateState, PageBacked, TypeInv, TypeOK
<1>9. CASE WriteState
  BY <1>9 DEF WriteState, PageBacked
<1>10. CASE Signal \/ UNCHANGED vars
  <2>1. UNCHANGED <<pc, found, todo, page, cycle, at, alerts, samples, dash>>
    BY <1>10 DEF Signal, vars, process
  <2>. QED
    BY <2>1 DEF PageBacked, ActiveTypes, Types, Active, Alerted, Occurrence, Env
<1>. QED
  BY <1>1, <1>2, <1>3, <1>4, <1>5, <1>6, <1>7, <1>8, <1>9, <1>10 DEF Next, Poll, Proceed

\* A readable state file shows one complete cycle, each environment with its
\* metric sample and each incident with its alert, across crashes and restarts.
THEOREM DashboardIsBacked == Spec => []DashboardBacked
<1>1. DashInv => DashboardBacked
  BY DEF DashInv
<1>. QED  BY DashInvInit, DashInvStep, TypeInvAlways, <1>1, PTL DEF Spec
-----------------------------------------------------------------------------
(***************************************************************************)
(* Stopping.                                                               *)
(***************************************************************************)
\* Between two cycles of one process the file is the last cycle's.
StopInv ==
  pc \in {"top", "sleep", "stopped"} /\ cycle > started => dash.whole /\ dash.cycle = cycle

\* A process that stops in good order after a cycle of its own leaves the
\* state file readable and up to date.
THEOREM CleanStopsAreReadable == Spec => []CleanStopIsReadable
<1>1. Init => StopInv
  BY DEF Init, StopInv
<1>2. TypeInv /\ StopInv /\ [Next]_vars => StopInv'
  <2>. SUFFICES ASSUME TypeInv, StopInv, [Next]_vars PROVE StopInv'
    OBVIOUS
  <2>. USE DEF StopInv, disk
  <2>1. CASE StartCycle \/ Stop \/ TruncateState \/ WriteState \/ Wake
    BY <2>1 DEF StartCycle, Stop, TruncateState, WriteState, Wake
  <2>2. CASE Signal \/ Crash \/ Restart \/ UNCHANGED vars
    BY <2>2 DEF Signal, Crash, Restart, vars, process, TypeInv, TypeOK
  <2>3. CASE Poll
    BY <2>3 DEF Poll, PollSignals
  <2>4. CASE \E t \in todo, kept \in BOOLEAN : AppendHistory(t, kept)
    BY <2>4 DEF AppendHistory
  <2>5. CASE \E t \in todo : SaveRca(t) \/ LogAlert(t)
    BY <2>5 DEF SaveRca, LogAlert
  <2>6. CASE ScoreEnvironment
    BY <2>6 DEF ScoreEnvironment
  <2>. QED  BY <2>1, <2>2, <2>3, <2>4, <2>5, <2>6 DEF Next, Poll, Proceed
<1>3. StopInv => CleanStopIsReadable
  BY DEF StopInv, CleanStopIsReadable
<1>. QED  BY <1>1, <1>2, <1>3, TypeInvAlways, PTL DEF Spec

\* A process that was signalled begins no further cycle.
THEOREM SignalEndsCycles == Spec => NoCycleAfterSignal
<1>1. [Next]_vars => [~running => cycle' = cycle]_vars
  <2>. SUFFICES ASSUME Next, ~running PROVE cycle' = cycle
    BY DEF vars, process
  <2>1. CASE Stop \/ TruncateState \/ WriteState \/ Wake \/ StartCycle \/ ScoreEnvironment
    BY <2>1 DEF Stop, TruncateState, WriteState, Wake, StartCycle, ScoreEnvironment
  <2>2. CASE Signal \/ Crash \/ Restart
    BY <2>2 DEF Signal, Crash, Restart
  <2>3. CASE Poll
    BY <2>3 DEF Poll, PollSignals
  <2>4. CASE \E t \in todo, kept \in BOOLEAN : AppendHistory(t, kept)
    BY <2>4 DEF AppendHistory
  <2>5. CASE \E t \in todo : SaveRca(t) \/ LogAlert(t)
    BY <2>5 DEF SaveRca, LogAlert
  <2>. QED  BY <2>1, <2>2, <2>3, <2>4, <2>5 DEF Next, Poll, Proceed
<1>. QED  BY <1>1, PTL DEF Spec, NoCycleAfterSignal
-----------------------------------------------------------------------------
(***************************************************************************)
(* A repeated outage escalates.                                            *)
(***************************************************************************)
\* An earlier occurrence of the outage that the history holds within the lookback.
RememberedOutage ==
  \E o \in history : /\ o[2] = Env /\ o[3] = "db_unavailable"
                     /\ o[1] < cycle /\ cycle - o[1] <= Lookback

EscalationInv ==
  pc \in {"history", "rca", "alert", "score"} /\ world.age <= 120 =>
    \A i \in found :
      i.type = "db_unavailable" =>
        /\ ~i.suppressed
        /\ RememberedOutage => i.severity = "critical" \/ i.type \in unread

LEMMA EscalationInvStep == TypeInv /\ EscalationInv /\ [Next]_vars => EscalationInv'
<1>. SUFFICES ASSUME TypeInv, EscalationInv, [Next]_vars PROVE EscalationInv'
  OBVIOUS
<1>. USE DEF EscalationInv, disk
<1>1. CASE StartCycle \/ Stop \/ TruncateState \/ WriteState \/ Wake \/ Crash \/ Restart
  BY <1>1 DEF StartCycle, Stop, TruncateState, WriteState, Wake, Crash, Restart
<1>2. ASSUME NEW w \in Worlds, NEW missed \in Unreadable(w), PollSignals(w, missed)
      PROVE  EscalationInv'
  <2>. SUFFICES ASSUME world'.age <= 120, NEW i \in found', i.type = "db_unavailable"
                PROVE  /\ ~i.suppressed
                       /\ RememberedOutage' => i.severity = "critical" \/ i.type \in unread'
    OBVIOUS
  <2>1. UNCHANGED <<history, cycle, at>> /\ world' = w /\ unread' = missed
    BY <1>2 DEF PollSignals
  <2>2. RememberedOutage' => RememberedOutage
    BY <2>1 DEF RememberedOutage, Env
  <2>3. RememberedOutage => "db_unavailable" \in Seen(Env)
    BY DEF RememberedOutage, Seen, RuleTypes
  <2>4. Signals(w).age = w.age
    BY DEF Signals
  <2>5. found' = Correlate(Signals(w), Seen(Env) \ missed)
    BY <1>2 DEF PollSignals
  <2>6. ~i.suppressed /\ ("db_unavailable" \in Seen(Env) \ missed => i.severity = "critical")
    BY <2>1, <2>4, <2>5, FreshOutage
  <2>. QED  BY <2>1, <2>2, <2>3, <2>6
<1>3. ASSUME NEW t \in todo, NEW kept \in BOOLEAN, AppendHistory(t, kept)
      PROVE  EscalationInv'
  <2>1. UNCHANGED <<world, found, cycle, at>> /\ history' \subseteq history \cup {Occurrence(t)}
    BY <1>3 DEF AppendHistory
  <2>2. Occurrence(t)[1] = cycle /\ cycle \in Int
    BY DEF Occurrence, TypeInv, TypeOK
  <2>3. RememberedOutage' => RememberedOutage
    BY <2>1, <2>2 DEF RememberedOutage, Env
  <2>. QED  BY <1>3, <2>1, <2>3 DEF AppendHistory
<1>4. ASSUME NEW t \in todo, SaveRca(t) \/ LogAlert(t)
      PROVE  EscalationInv'
  BY <1>4 DEF SaveRca, LogAlert, RememberedOutage, Env
<1>5. CASE ScoreEnvironment
  BY <1>5 DEF ScoreEnvironment
<1>6. CASE Signal \/ UNCHANGED vars
  BY <1>6 DEF Signal, vars, process, RememberedOutage, Env
<1>. QED  BY <1>1, <1>2, <1>3, <1>4, <1>5, <1>6 DEF Next, Poll, Proceed

\* An outage found with fresh signals is reported, and critical if it was
\* alerted within the lookback, whatever crashes and restarts came in between:
\* the alert is in the history, and the history, if it can be read, lifts the
\* confidence over 80.
THEOREM EscalationSurvives == Spec => []EscalationSurvivesRestart
<1>1. Init => EscalationInv
  BY DEF Init, EscalationInv
<1>2. AlertRemembered /\ EscalationInv => EscalationSurvivesRestart
  <2>. SUFFICES ASSUME AlertRemembered, EscalationInv,
                       pc \in {"history", "rca", "alert", "score"}, world.age <= 120,
                       NEW i \in found, i.type = "db_unavailable"
                PROVE  /\ ~i.suppressed
                       /\ \A o \in alerts \ lost :
                            /\ o[3] = i.type /\ o[2] = Env
                            /\ o[1] < cycle /\ cycle - o[1] <= Lookback
                            => i.severity = "critical" \/ i.type \in unread
    BY DEF EscalationSurvivesRestart
  <2>1. ASSUME NEW o \in alerts \ lost, o[3] = "db_unavailable", o[2] = Env,
               o[1] < cycle, cycle - o[1] <= Lookback
        PROVE  RememberedOutage
    BY <2>1 DEF AlertRemembered, RememberedOutage
  <2>. QED  BY <2>1 DEF EscalationInv
<1>. QED  BY <1>1, <1>2, EscalationInvStep, TypeInvAlways, AlertsAreRemembered, PTL DEF Spec
-----------------------------------------------------------------------------
(***************************************************************************)
(* The files keep the ledger.  No file knows of a cycle that has not begun *)
(* and no cycle is published before its end, so every write during a cycle *)
(* is newer than the page; and at any moment of a cycle its alerts are the *)
(* incidents of the environments on the page and the ones already handled  *)
(* of the environment being polled.                                        *)
(***************************************************************************)
CycleOpen == pc \in Polling \cup {"truncate", "write"}

OnPage(env, type) == \E k \in DOMAIN page : page[k].env = env /\ type \in page[k].types

\* The active incidents of this poll that are alerted already.
Handled ==
  IF pc \in {"rca", "alert"} THEN ActiveTypes(found) \ todo
  ELSE IF pc = "score" THEN ActiveTypes(found)
  ELSE {}

NothingAhead == \A o \in history \cup lost \cup rca \cup alerts : o[1] <= cycle

EditionBehind == dash.cycle <= cycle /\ (CycleOpen => dash.cycle < cycle)

AlertsOfCycle ==
  CycleOpen =>
    \A env \in Envs, type \in RuleTypes :
      <<cycle, env, type>> \in alerts <=> OnPage(env, type) \/ (env = Env /\ type \in Handled)

LedgerInv == NothingAhead /\ EditionBehind /\ AlertsOfCycle

LEMMA LedgerInvInit == Init => LedgerInv
  BY DEF Init, LedgerInv, NothingAhead, EditionBehind, AlertsOfCycle, CycleOpen, Polling

LEMMA NothingAheadStep ==
  ASSUME TypeInv, NothingAhead, [Next]_vars
  PROVE  NothingAhead'
<1>. USE DEF NothingAhead, disk
<1>1. cycle \in Int
  BY DEF TypeInv, TypeOK
<1>2. ASSUME NEW t PROVE Occurrence(t)[1] = cycle
  BY DEF Occurrence
<1>3. CASE StartCycle \/ Stop \/ TruncateState \/ WriteState \/ Wake \/ ScoreEnvironment
  BY <1>1, <1>3, TypeInvStep
     DEF StartCycle, Stop, TruncateState, WriteState, Wake, ScoreEnvironment, TypeInv, TypeOK,
         Occurrences
<1>4. CASE Signal \/ Crash \/ Restart \/ UNCHANGED vars
  BY <1>4 DEF Signal, Crash, Restart, vars, process
<1>5. CASE Poll
  BY <1>5 DEF Poll, PollSignals
<1>6. ASSUME NEW t \in todo, NEW kept \in BOOLEAN, AppendHistory(t, kept)
      PROVE  NothingAhead'
  <2>1. /\ history' \cup lost' = history \cup lost \cup {Occurrence(t)}
        /\ UNCHANGED <<rca, alerts, cycle>>
    BY <1>6 DEF AppendHistory
  <2>. QED  BY <1>1, <1>2, <2>1
<1>7. ASSUME NEW t \in todo, SaveRca(t)
      PROVE  NothingAhead'
  <2>1. rca' \subseteq rca \cup {Occurrence(t)} /\ UNCHANGED <<history, lost, alerts, cycle>>
    BY <1>7 DEF SaveRca
  <2>. QED  BY <1>1, <1>2, <2>1
<1>8. ASSUME NEW t \in todo, LogAlert(t)
      PROVE  NothingAhead'
  <2>1. alerts' = alerts \cup {Occurrence(t)} /\ UNCHANGED <<history, lost, rca, cycle>>
    BY <1>8 DEF LogAlert
  <2>. QED  BY <1>1, <1>2, <2>1
<1>. QED  BY <1>3, <1>4, <1>5, <1>6, <1>7, <1>8 DEF Next, Poll, Proceed

LEMMA EditionBehindStep ==
  ASSUME TypeInv, EditionBehind, [Next]_vars
  PROVE  EditionBehind'
<1>. USE DEF EditionBehind, CycleOpen, Polling, disk
<1>1. dash.cycle \in Int /\ cycle \in Int
  BY DEF TypeInv, TypeOK
<1>2. CASE StartCycle \/ Stop \/ WriteState \/ Wake
  BY <1>1, <1>2 DEF StartCycle, Stop, WriteState, Wake
<1>3. CASE TruncateState
  BY <1>3 DEF TruncateState
<1>4. CASE ScoreEnvironment
  BY <1>4 DEF ScoreEnvironment
<1>5. CASE Signal \/ Crash \/ Restart \/ UNCHANGED vars
  BY <1>5 DEF Signal, Crash, Restart, vars, process
<1>6. CASE Poll
  BY <1>6 DEF Poll, PollSignals
<1>7. CASE \E t \in todo, kept \in BOOLEAN : AppendHistory(t, kept)
  BY <1>7 DEF AppendHistory
<1>8. CASE \E t \in todo : SaveRca(t) \/ LogAlert(t)
  BY <1>8 DEF SaveRca, LogAlert
<1>. QED  BY <1>2, <1>3, <1>4, <1>5, <1>6, <1>7, <1>8 DEF Next, Poll, Proceed

LEMMA AlertsOfCycleStep ==
  ASSUME TypeInv, MemoryInv, NothingAhead, AlertsOfCycle, [Next]_vars
  PROVE  AlertsOfCycle'
<1>. USE DEF AlertsOfCycle, CycleOpen, Polling, disk
<1>1. CASE StartCycle
  <2>1. \A env, type : <<cycle + 1, env, type>> \notin alerts
    BY DEF NothingAhead, TypeInv, TypeOK
  <2>2. Handled' = {} /\ \A env, type : ~OnPage(env, type)'
    BY <1>1 DEF StartCycle, Handled, OnPage
  <2>. QED  BY <1>1, <2>1, <2>2 DEF StartCycle
<1>2. CASE Stop \/ WriteState \/ Wake \/ Crash \/ Restart
  BY <1>2 DEF Stop, WriteState, Wake, Crash, Restart
<1>3. ASSUME NEW w \in Worlds, NEW missed \in Unreadable(w), PollSignals(w, missed)
      PROVE  AlertsOfCycle'
  <2>1. Handled = {} /\ (\A env, type : OnPage(env, type)' <=> OnPage(env, type))
    BY <1>3 DEF PollSignals, Handled, OnPage
  <2>2. Handled' = {}
    <3>1. ActiveTypes(found)' = todo'
      BY <1>3 DEF PollSignals, ActiveTypes, Types, Active
    <3>. QED  BY <1>3, <3>1 DEF PollSignals, Handled
  <2>. QED  BY <1>3, <2>1, <2>2 DEF PollSignals
<1>4. ASSUME NEW t \in todo, NEW kept \in BOOLEAN, AppendHistory(t, kept)
      PROVE  AlertsOfCycle'
  <2>1. Handled = {} /\ (\A env, type : OnPage(env, type)' <=> OnPage(env, type))
    BY <1>4 DEF AppendHistory, Handled, OnPage
  <2>2. Handled' = {}
    <3>1. ActiveTypes(found)' = ActiveTypes(found)
      BY <1>4 DEF AppendHistory, ActiveTypes, Types, Active
    <3>. QED  BY <1>4, <3>1 DEF AppendHistory, Handled
  <2>. QED  BY <1>4, <2>1, <2>2 DEF AppendHistory
<1>5. ASSUME NEW t \in todo, SaveRca(t)
      PROVE  AlertsOfCycle'
  <2>1. \A env, type : OnPage(env, type)' <=> OnPage(env, type)
    BY <1>5 DEF SaveRca, OnPage
  <2>2. Handled' = Handled /\ Env' = Env
    BY <1>5 DEF SaveRca, Handled, ActiveTypes, Types, Active, Env
  <2>. QED  BY <1>5, <2>1, <2>2 DEF SaveRca
<1>6. ASSUME NEW t \in todo, LogAlert(t)
      PROVE  AlertsOfCycle'
  <2>1. (\A env, type : OnPage(env, type)' <=> OnPage(env, type)) /\ Env' = Env
    BY <1>6 DEF LogAlert, OnPage, Env
  <2>2. Handled' = Handled \cup {t}
    <3>1. ActiveTypes(found)' = ActiveTypes(found)
      BY <1>6 DEF LogAlert, ActiveTypes, Types, Active
    <3>2. todo \subseteq ActiveTypes(found)
      BY <1>6 DEF LogAlert, MemoryInv
    <3>. QED  BY <1>6, <3>1, <3>2 DEF LogAlert, Handled
  <2>3. alerts' = alerts \cup {<<cycle, Env, t>>} /\ cycle' = cycle
    BY <1>6 DEF LogAlert, Occurrence
  <2>. QED  BY <1>6, <2>1, <2>2, <2>3 DEF LogAlert
<1>7. CASE ScoreEnvironment
  <2>1. PICK entry : /\ page' = Append(page, entry)
                     /\ entry.env = Env /\ entry.types = ActiveTypes(found)
    BY <1>7 DEF ScoreEnvironment
  <2>2. page \in Seq(PageEntries)
    BY DEF TypeInv, TypeOK
  <2>3. /\ DOMAIN page' = DOMAIN page \cup {Len(page) + 1}
        /\ page'[Len(page) + 1] = entry
        /\ \A k \in DOMAIN page : page'[k] = page[k]
    BY <2>1, <2>2
  <2>4. ASSUME NEW env, NEW type
        PROVE  OnPage(env, type)' <=> OnPage(env, type) \/ (env = Env /\ type \in Handled)
    <3>1. Handled = entry.types
      BY <1>7, <2>1 DEF ScoreEnvironment, Handled
    <3>. QED  BY <2>1, <2>3, <3>1 DEF OnPage
  <2>5. Handled' = {}
    BY <1>7 DEF ScoreEnvironment, Handled
  <2>. QED  BY <1>7, <2>4, <2>5 DEF ScoreEnvironment
<1>8. CASE TruncateState
  <2>1. Handled = {} /\ Handled' = {} /\ (\A env, type : OnPage(env, type)' <=> OnPage(env, type))
    BY <1>8 DEF TruncateState, Handled, OnPage
  <2>. QED  BY <1>8, <2>1 DEF TruncateState
<1>9. CASE Signal \/ UNCHANGED vars
  <2>1. Handled' = Handled /\ Env' = Env /\ (\A env, type : OnPage(env, type)' <=> OnPage(env, type))
    BY <1>9 DEF Signal, vars, process, Handled, ActiveTypes, Types, Active, Env, OnPage
  <2>. QED  BY <1>9, <2>1 DEF Signal, vars, process
<1>. QED  BY <1>1, <1>2, <1>3, <1>4, <1>5, <1>6, <1>7, <1>8, <1>9 DEF Next, Poll, Proceed

LEMMA LedgerInvStep ==
  TypeInv /\ MemoryInv /\ LedgerInv /\ [Next]_vars => LedgerInv'
  BY NothingAheadStep, EditionBehindStep, AlertsOfCycleStep DEF LedgerInv

\* The process takes a step of the ledger or none the ledger sees.
LEMMA LedgerStep ==
  ASSUME DistinctNames, TypeInv, MemoryInv, RcaInv, LedgerInv, [Next]_vars
  PROVE  [Ledger!Next]_(Ledger!vars)
<1>. USE DEF Ledger!vars, Published, disk
<1>1. CASE UNCHANGED <<history, lost, rca, alerts, dash>>
  BY <1>1
<1>2. CASE StartCycle \/ Stop \/ Wake \/ ScoreEnvironment
  BY <1>1, <1>2 DEF StartCycle, Stop, Wake, ScoreEnvironment
<1>3. CASE Signal \/ Crash \/ Restart \/ UNCHANGED vars
  BY <1>1, <1>3 DEF Signal, Crash, Restart, vars
<1>4. CASE Poll
  BY <1>1, <1>4 DEF Poll, PollSignals
<1>5. ASSUME NEW t \in todo, NEW kept \in BOOLEAN, AppendHistory(t, kept)
      PROVE  [Ledger!Next]_(Ledger!vars)
  <2>. DEFINE o == Occurrence(t)
  <2>1. o \in Occurrences
    BY <1>5, EnvIsEnv DEF AppendHistory, Occurrence, Occurrences, TypeInv, TypeOK, Resting
  <2>2. history' \cup lost' = history \cup lost \cup {o} /\ UNCHANGED <<rca, alerts, dash>>
    BY <1>5 DEF AppendHistory
  <2>3. o[1] > dash.cycle
    BY <1>5 DEF AppendHistory, Occurrence, LedgerInv, EditionBehind, CycleOpen, Polling,
                TypeInv, TypeOK
  <2>4. CASE o \in history \cup lost
    BY <2>2, <2>4
  <2>5. CASE o \notin history \cup lost
    BY <2>1, <2>2, <2>3, <2>5 DEF Ledger!Next, Ledger!Know
  <2>. QED  BY <2>4, <2>5
<1>6. ASSUME NEW t \in todo, SaveRca(t)
      PROVE  [Ledger!Next]_(Ledger!vars)
  <2>. DEFINE o == Occurrence(t)
  <2>1. o \in Occurrences
    BY <1>6, EnvIsEnv DEF SaveRca, Occurrence, Occurrences, TypeInv, TypeOK, Resting
  <2>2. rca' = rca \cup {o} /\ UNCHANGED <<history, lost, alerts, dash>>
    BY <1>6, <2>1, RcaGrows DEF SaveRca, TypeInv, TypeOK
  <2>3. o \in history \cup lost
    BY <1>6 DEF SaveRca, MemoryInv, Recorded
  <2>4. CASE o \in rca
    BY <2>2, <2>4
  <2>5. CASE o \notin rca
    BY <2>1, <2>2, <2>3, <2>5 DEF Ledger!Next, Ledger!Document
  <2>. QED  BY <2>4, <2>5
<1>7. ASSUME NEW t \in todo, LogAlert(t)
      PROVE  [Ledger!Next]_(Ledger!vars)
  <2>. DEFINE o == Occurrence(t)
  <2>1. o \in Occurrences
    BY <1>7, EnvIsEnv DEF LogAlert, Occurrence, Occurrences, TypeInv, TypeOK, Resting
  <2>2. alerts' = alerts \cup {o} /\ UNCHANGED <<history, lost, rca, dash>>
    BY <1>7 DEF LogAlert
  <2>3. o[1] > dash.cycle
    BY <1>7 DEF LogAlert, Occurrence, LedgerInv, EditionBehind, CycleOpen, Polling, TypeInv, TypeOK
  <2>4. o \in rca
    BY <1>7 DEF LogAlert, RcaInv
  <2>5. CASE o \in alerts
    BY <2>2, <2>5
  <2>6. CASE o \notin alerts
    BY <2>1, <2>2, <2>3, <2>4, <2>6 DEF Ledger!Next, Ledger!Alert
  <2>. QED  BY <2>5, <2>6
<1>8. CASE TruncateState
  <2>1. dash'.whole = FALSE /\ dash'.cycle = dash.cycle
    BY <1>8 DEF TruncateState, TypeInv, TypeOK
  <2>2. Published' = {}
    BY <2>1
  <2>. QED  BY <1>8, <2>1, <2>2 DEF TruncateState, Ledger!Next, Ledger!Withdraw
<1>9. CASE WriteState
  <2>1. /\ dash' = [whole |-> TRUE, cycle |-> cycle, page |-> page]
        /\ UNCHANGED <<history, lost, rca, alerts>>
    BY <1>9 DEF WriteState
  <2>2. Published' = {o \in alerts : o[1] = cycle}
    <3>1. \A o : o \in Published' <=>
                   \E k \in DOMAIN page : \E t \in page[k].types : o = <<cycle, page[k].env, t>>
      BY <2>1
    <3>2. \A k \in DOMAIN page : page[k].env \in Envs /\ page[k].types \subseteq RuleTypes
      <4>1. \A k \in DOMAIN page : page[k] \in PageEntries
        BY DEF TypeInv, TypeOK
      <4>. QED  BY <4>1 DEF PageEntries
    <3>3. \A env \in Envs, type \in RuleTypes :
            <<cycle, env, type>> \in alerts <=> OnPage(env, type)
      BY <1>9 DEF WriteState, LedgerInv, AlertsOfCycle, CycleOpen, Handled
    <3>4. \A o \in alerts : \E env \in Envs, type \in RuleTypes : o = <<o[1], env, type>>
      BY DEF TypeInv, TypeOK, Occurrences
    <3>. QED  BY <3>1, <3>2, <3>3, <3>4 DEF OnPage
  <2>3. cycle \in 1..MaxCycle /\ cycle > dash.cycle
    BY <1>9 DEF WriteState, TypeInv, TypeOK, Resting, LedgerInv, EditionBehind, CycleOpen
  <2>4. Ledger!Publish(cycle)
    BY <2>1, <2>2, <2>3 DEF Ledger!Publish, Ledger!OfCycle
  <2>5. Ledger!Next
    <3>. HIDE DEF Published
    <3>. QED  BY <2>3, <2>4 DEF Ledger!Next
  <2>. QED  BY <2>5
<1>. QED  BY <1>2, <1>3, <1>4, <1>5, <1>6, <1>7, <1>8, <1>9 DEF Next, Poll, Proceed

\* The files implement the ledger: an incident is recorded, then documented,
\* then alerted, once each, a page shows exactly the alerts of its cycle, and
\* no crash or restart takes the process back behind a page it has written;
\* provided no two environments share a file name.
THEOREM FilesKeepLedger ==
  ASSUME DistinctNames
  PROVE  Spec => LedgerKept
<1>1. Init => Ledger!Init
  BY DEF Init, Ledger!Init, Published
<1>2. Init => RcaInv
  BY DEF Init, RcaInv, AlertHasRca
<1>3. TypeInv /\ RcaInv /\ [Next]_vars => RcaInv'
  BY RcaInvStep
<1>4. TypeInv /\ MemoryInv /\ RcaInv /\ LedgerInv /\ [Next]_vars => [Ledger!Next]_(Ledger!vars)
  BY LedgerStep
<1>. QED
  BY <1>1, <1>2, <1>3, <1>4, LedgerInvInit, LedgerInvStep, MemoryInvInit, MemoryInvStep,
     TypeInvAlways, PTL DEF Spec, LedgerKept, Ledger!Spec
-----------------------------------------------------------------------------
(***************************************************************************)
(* The figures cover this process: each poll that counts has a sample of   *)
(* its own, for in a cycle that goes on the environments still to be       *)
(* polled have none.  Assumes that the configuration lists no environment  *)
(* twice, which would count two polls on one accumulator.                  *)
(***************************************************************************)
EachEnvOnce == \A j, k \in DOMAIN EnvOrder : EnvOrder[j] = EnvOrder[k] => j = k

SamplesOf(e) == {s \in samples : s[1] > started /\ s[2] = e}

FiguresInv ==
  /\ FiguresCoverThisProcess
  /\ IsFiniteSet(samples)
  /\ \A s \in samples : s[1] <= cycle
  /\ pc \in Polling =>
       /\ started < cycle
       /\ \A k \in at..Len(EnvOrder) : <<cycle, EnvOrder[k]>> \notin samples

LEMMA FiguresInvInit == Init => FiguresInv
<1>. SUFFICES ASSUME Init PROVE FiguresInv
  OBVIOUS
<1>1. \A e : SamplesOf(e) = {}
  BY DEF Init, SamplesOf
<1>2. IsFiniteSet({}) /\ Cardinality({}) = 0
  BY FS_EmptySet
<1>3. FiguresCoverThisProcess
  BY <1>1, <1>2 DEF Init, FiguresCoverThisProcess, NewAccumulators, SamplesOf
<1>. QED  BY <1>2, <1>3 DEF Init, FiguresInv, Polling

LEMMA FiguresInvStep ==
  ASSUME EachEnvOnce, TypeInv, FiguresInv, [Next]_vars
  PROVE  FiguresInv'
<1>. USE DEF FiguresInv, Polling, disk
<1>1. cycle \in Int /\ started \in Int /\ started <= cycle
  BY DEF TypeInv, TypeOK
<1>2. CASE UNCHANGED <<acc, samples, started, cycle>>
           /\ (pc' \in Polling => pc \in Polling /\ at' = at)
  BY <1>2 DEF FiguresCoverThisProcess
<1>3. CASE StartCycle
  <2>1. UNCHANGED <<acc, samples, started>> /\ cycle' = cycle + 1
    BY <1>3 DEF StartCycle
  <2>2. FiguresCoverThisProcess'
    BY <2>1 DEF FiguresCoverThisProcess
  <2>3. \A s \in samples : s[1] # cycle + 1 /\ s[1] <= cycle + 1
    BY <1>1 DEF TypeInv, TypeOK
  <2>. QED  BY <1>1, <2>1, <2>2, <2>3
<1>4. CASE Stop \/ Wake \/ Signal \/ Crash \/ UNCHANGED vars
  BY <1>2, <1>4 DEF Stop, Wake, Signal, Crash, vars, process
<1>5. CASE TruncateState \/ WriteState
  BY <1>2, <1>5 DEF TruncateState, WriteState
<1>6. CASE Poll
  BY <1>2, <1>6 DEF Poll, PollSignals
<1>7. CASE \E t \in todo, kept \in BOOLEAN : AppendHistory(t, kept)
  BY <1>2, <1>7 DEF AppendHistory
<1>8. CASE \E t \in todo : SaveRca(t) \/ LogAlert(t)
  BY <1>2, <1>8 DEF SaveRca, LogAlert
<1>9. CASE ScoreEnvironment
  <2>. DEFINE new == <<cycle, Env>>
  <2>1. /\ samples' = samples \cup {new} /\ UNCHANGED <<started, cycle>>
        /\ pc = "score" /\ at \in 1..Len(EnvOrder)
    BY <1>9 DEF ScoreEnvironment, TypeInv, TypeOK
  <2>2. new \notin samples
    BY <2>1 DEF Env
  <2>3. IsFiniteSet(samples') /\ \A s \in samples' : s[1] <= cycle'
    BY <1>1, <2>1, FS_AddElement
  <2>4. ASSUME NEW e \in Envs
        PROVE  acc'[e].polls = Cardinality(SamplesOf(e)')
    <3>1. IsFiniteSet(SamplesOf(e)) /\ acc[e].polls = Cardinality(SamplesOf(e))
      BY FS_Subset DEF FiguresCoverThisProcess, SamplesOf
    <3>2. CASE e = Env
      <4>1. SamplesOf(e)' = SamplesOf(e) \cup {new} /\ new \notin SamplesOf(e)
        BY <2>1, <2>2, <3>2 DEF SamplesOf
      <4>2. acc'[e].polls = acc[e].polls + 1
        BY <1>9, <3>2 DEF ScoreEnvironment, Accumulate, TypeInv, TypeOK
      <4>. QED  BY <3>1, <4>1, <4>2, FS_AddElement
    <3>3. CASE e # Env
      <4>1. SamplesOf(e)' = SamplesOf(e)
        BY <2>1, <3>3 DEF SamplesOf
      <4>2. acc'[e] = acc[e]
        BY <1>9, <3>3 DEF ScoreEnvironment, TypeInv, TypeOK
      <4>. QED  BY <3>1, <4>1, <4>2
    <3>. QED  BY <3>2, <3>3
  <2>5. ASSUME pc' \in Polling, NEW k \in at'..Len(EnvOrder)
        PROVE  <<cycle', EnvOrder[k]>> \notin samples'
    <3>1. at' = at + 1
      BY <1>9, <2>5 DEF ScoreEnvironment
    <3>2. EnvOrder[k] # Env
      BY <2>1, <3>1, ControlPlaneAssumption DEF EachEnvOnce, Env
    <3>. QED  BY <2>1, <3>1, <3>2
  <2>6. FiguresCoverThisProcess'
    BY <2>4 DEF FiguresCoverThisProcess, SamplesOf
  <2>. QED  BY <2>1, <2>3, <2>5, <2>6
<1>10. CASE Restart
  <2>1. /\ acc' = [e \in Envs |-> NewAccumulators]
        /\ started' = cycle /\ UNCHANGED <<cycle, samples>> /\ pc' = "top"
    BY <1>10 DEF Restart
  <2>2. \A e : SamplesOf(e)' = {}
    BY <1>1, <2>1 DEF SamplesOf, TypeInv, TypeOK
  <2>3. FiguresCoverThisProcess'
    BY <2>1, <2>2, FS_EmptySet DEF FiguresCoverThisProcess, NewAccumulators, SamplesOf
  <2>. QED  BY <2>1, <2>3
<1>. QED
  BY <1>3, <1>4, <1>5, <1>6, <1>7, <1>8, <1>9, <1>10 DEF Next, Poll, Proceed

\* The SLO figures of an environment count one poll per metric sample logged
\* since the process was started, whatever was lost before.
THEOREM FiguresCover ==
  ASSUME EachEnvOnce
  PROVE  Spec => []FiguresCoverThisProcess
<1>1. TypeInv /\ FiguresInv /\ [Next]_vars => FiguresInv'
  BY FiguresInvStep
<1>2. FiguresInv => FiguresCoverThisProcess
  BY DEF FiguresInv
<1>. QED  BY <1>1, <1>2, FiguresInvInit, TypeInvAlways, PTL DEF Spec
-----------------------------------------------------------------------------
(***************************************************************************)
(* An outage shows in the objectives.                                      *)
(***************************************************************************)
\* With one critical poll among few enough polls the availability is breached.
LEMMA OutageBreaches ==
  ASSUME OnePollBreaches, NEW a \in Accumulators,
         a.critical \in 1..a.polls, a.polls <= MaxCycle
  PROVE  AvailabilityStatus(a) = "breached"
<1>. DEFINE p == a.polls
            left == a.polls - a.critical
            k == 200 * (1000 - TargetPermille) + 1
<1>1. p \in Nat \ {0} /\ left \in 0..(p - 1) /\ k \in Nat /\ MaxCycle \in Nat
  BY SloAssumption, ControlPlaneAssumption DEF Accumulators
<1>2. k * p <= k * MaxCycle
  BY <1>1, ProductMonotone
<1>3. k * MaxCycle < 200000
  BY <1>1 DEF OnePollBreaches
<1>4. k * p = 200000 * p - 200 * (TargetPermille * p) + p
  BY <1>1, SloAssumption
<1>5. 2 * 100000 * left + p < (2 * p) * (100 * TargetPermille)
  <2>1. 2 * 100000 * left + p <= 200000 * p - 200000 + p
    BY <1>1
  <2>2. (2 * p) * (100 * TargetPermille) = 200 * (TargetPermille * p)
    BY <1>1, SloAssumption
  <2>3. TargetPermille * p \in Nat
    BY <1>1, SloAssumption
  <2>. HIDE DEF k, left, p
  <2>. QED  BY <1>1, <1>2, <1>3, <1>4, <2>1, <2>2, <2>3
<1>6. (2 * 100000 * left + p) \div (2 * p) < 100 * TargetPermille
  <2>1. 2 * 100000 * left + p \in Nat /\ 2 * p \in Nat \ {0} /\ 100 * TargetPermille \in Nat
    BY <1>1, SloAssumption
  <2>. HIDE DEF k, left, p
  <2>. QED  BY <1>5, <2>1, QuotientBelow
<1>7. Availability(a) = (2 * 100000 * left + p) \div (2 * p)
  BY <1>1 DEF Availability, Rounded
<1>. HIDE DEF k, left, p
<1>. QED  BY <1>6, <1>7 DEF AvailabilityStatus

ShowsOutages(p) == \A n \in DOMAIN p : p[n].label = "CRITICAL" => p[n].slo = "breached"

\* In each environment one poll counts per cycle, the current one's only after
\* it is scored.
SloInv ==
  /\ ShowsOutages(page) /\ ShowsOutages(dash.page)
  /\ \A e \in Envs : acc[e].critical <= acc[e].polls /\ acc[e].polls <= cycle
  /\ pc \in Polling => \A k \in at..Len(EnvOrder) : acc[EnvOrder[k]].polls < cycle

LEMMA SloInvStep ==
  ASSUME EachEnvOnce, OnePollBreaches, TypeInv, SloInv, [Next]_vars
  PROVE  SloInv'
<1>. USE DEF SloInv, Polling, disk
<1>1. cycle \in Int /\ \A e \in Envs : acc[e].polls \in Nat
  BY DEF TypeInv, TypeOK, Accumulators
<1>2. CASE UNCHANGED <<acc, page, dash, cycle, at>> /\ (pc' \in Polling => pc \in Polling)
  BY <1>2 DEF ShowsOutages
<1>3. CASE StartCycle
  <2>1. UNCHANGED <<acc, dash>> /\ cycle' = cycle + 1 /\ page' = <<>> /\ at' = 1
    BY <1>3 DEF StartCycle
  <2>2. \A k \in 1..Len(EnvOrder) : EnvOrder[k] \in Envs
    BY ControlPlaneAssumption
  <2>. QED  BY <1>1, <2>1, <2>2 DEF ShowsOutages
<1>4. CASE Stop \/ Wake \/ Signal \/ UNCHANGED vars
  BY <1>2, <1>4 DEF Stop, Wake, Signal, vars, process
<1>5. CASE TruncateState
  <2>1. UNCHANGED <<acc, page, cycle>> /\ dash'.page = dash.page /\ pc' = "write"
    BY <1>5 DEF TruncateState, TypeInv, TypeOK
  <2>. QED  BY <2>1 DEF ShowsOutages
<1>6. CASE WriteState
  BY <1>6 DEF WriteState, ShowsOutages
<1>7. CASE Poll
  BY <1>2, <1>7 DEF Poll, PollSignals
<1>8. CASE \E t \in todo, kept \in BOOLEAN : AppendHistory(t, kept)
  BY <1>2, <1>8 DEF AppendHistory
<1>9. CASE \E t \in todo : SaveRca(t) \/ LogAlert(t)
  BY <1>2, <1>9 DEF SaveRca, LogAlert
<1>10. CASE ScoreEnvironment
  <2>. DEFINE s == Signals(world)
              label == ScoreToLabel(HealthScore(found, s))
              a == Accumulate(acc[Env], s, found, label)
  <2>1. /\ acc' = [acc EXCEPT ![Env] = a] /\ UNCHANGED <<cycle, dash>>
        /\ pc = "score" /\ at \in 1..Len(EnvOrder) /\ Env \in Envs
        /\ (at' = at + 1 /\ pc' = "poll") \/ pc' = "truncate"
    BY <1>10, EnvIsEnv DEF ScoreEnvironment, TypeInv, TypeOK
  <2>2. acc'[Env] = a /\ \A e \in Envs \ {Env} : acc'[e] = acc[e]
    BY <2>1 DEF TypeInv, TypeOK
  <2>3. acc[Env] \in Accumulators /\ a \in Accumulators
    BY <2>1, AccumulateType DEF TypeInv, TypeOK
  <2>4. /\ a.polls = acc[Env].polls + 1
        /\ a.critical = acc[Env].critical + (IF label = "CRITICAL" THEN 1 ELSE 0)
    BY DEF Accumulate
  <2>5. acc[Env].polls < cycle /\ acc[Env].critical <= acc[Env].polls
    BY <2>1 DEF Env
  <2>6. a.critical <= a.polls /\ a.polls <= cycle
    <3>. HIDE DEF a
    <3>. QED  BY <1>1, <2>3, <2>4, <2>5 DEF Accumulators
  <2>7. ShowsOutages(page')
    <3>1. label = "CRITICAL" => AvailabilityStatus(a) = "breached"
      <4>1. cycle <= MaxCycle
        BY <2>1 DEF TypeInv, TypeOK
      <4>2. ASSUME label = "CRITICAL" PROVE a.critical \in 1..a.polls /\ a.polls <= MaxCycle
        <5>. HIDE DEF a, label
        <5>. QED  BY <1>1, <2>3, <2>4, <2>6, <4>1, <4>2, ControlPlaneAssumption DEF Accumulators
      <4>. HIDE DEF a, label
      <4>. QED  BY <2>3, <4>2, OutageBreaches
    <3>2. label = "CRITICAL" => OverallStatus(a, s) = "breached"
      <4>. HIDE DEF a, label, s
      <4>. QED  BY <3>1 DEF OverallStatus
    <3>3. PICK entry : /\ page' = Append(page, entry)
                       /\ entry.label = label /\ entry.slo = OverallStatus(a, s)
      BY <1>10, <2>2 DEF ScoreEnvironment
    <3>4. page \in Seq(PageEntries)
      BY DEF TypeInv, TypeOK
    <3>. HIDE DEF a, label, s
    <3>5. \A n \in DOMAIN page' : (n \in DOMAIN page /\ page'[n] = page[n]) \/ page'[n] = entry
      BY <3>3, <3>4
    <3>. QED  BY <3>2, <3>3, <3>5 DEF ShowsOutages
  <2>8. ASSUME pc' \in Polling, NEW k \in at'..Len(EnvOrder)
        PROVE  acc'[EnvOrder[k]].polls < cycle
    <3>1. at' = at + 1
      BY <2>1, <2>8
    <3>2. EnvOrder[k] # Env /\ EnvOrder[k] \in Envs
      BY <2>1, <3>1, ControlPlaneAssumption DEF EachEnvOnce, Env
    <3>3. k \in at..Len(EnvOrder)
      BY <2>1, <3>1
    <3>. QED  BY <2>1, <2>2, <3>2, <3>3
  <2>. HIDE DEF a
  <2>9. \A e \in Envs : acc'[e].critical <= acc'[e].polls /\ acc'[e].polls <= cycle
    BY <2>2, <2>6
  <2>. QED  BY <2>1, <2>7, <2>8, <2>9
<1>11. CASE Restart
  <2>1. /\ acc' = [e \in Envs |-> NewAccumulators] /\ page' = <<>>
        /\ UNCHANGED <<cycle, dash>> /\ pc' = "top" /\ cycle >= 0
    BY <1>11 DEF Restart, Forget, TypeInv, TypeOK
  <2>. QED  BY <2>1 DEF NewAccumulators, ShowsOutages
<1>12. CASE Crash
  <2>1. page' = <<>> /\ UNCHANGED <<acc, cycle, dash>> /\ pc' = "dead"
    BY <1>12 DEF Crash, Forget
  <2>. QED  BY <2>1 DEF ShowsOutages
<1>. QED
  BY <1>3, <1>4, <1>5, <1>6, <1>7, <1>8, <1>9, <1>10, <1>11, <1>12
     DEF Next, Poll, Proceed

\* An environment that the page calls critical has breached its objectives
\* there: the poll that found the outage is in the figures, and one critical
\* poll is enough while the target allows for none among MaxCycle.
THEOREM OutagesShow ==
  ASSUME EachEnvOnce
  PROVE  Spec => []OutageShowsInSlo
<1>1. CASE OnePollBreaches
  <2>1. Init => SloInv
    BY DEF Init, SloInv, ShowsOutages, NewAccumulators, Polling
  <2>2. TypeInv /\ SloInv /\ [Next]_vars => SloInv'
    BY <1>1, SloInvStep
  <2>3. SloInv => OutageShowsInSlo
    BY DEF SloInv, ShowsOutages, OutageShowsInSlo
  <2>. QED  BY <2>1, <2>2, <2>3, TypeInvAlways, PTL DEF Spec
<1>2. CASE ~OnePollBreaches
  <2>1. OutageShowsInSlo
    BY <1>2 DEF OutageShowsInSlo
  <2>. QED  BY <2>1, PTL
<1>. QED  BY <1>1, <1>2
-----------------------------------------------------------------------------
(***************************************************************************)
(* The page in the browser.  A file that a load has read whole was backed  *)
(* when it was read, and the logs behind it only grow while the answer is  *)
(* under way, is on the screen or is kept to be rendered again.            *)
(***************************************************************************)
FileBacked(file) == file.whole => PageBacked(file.page, file.cycle, Len(EnvOrder))

ScreenInv ==
  /\ FileBacked(state) /\ FileBacked(content)
  /\ DOMAIN load = Loads /\ \A l \in Loads : FileBacked(load[l].got)

\* No step of the process or of the page shortens a log.
LEMMA LogsGrow ==
  ASSUME [Next]_vars
  PROVE  samples \subseteq samples' /\ alerts \subseteq alerts'
<1>. USE DEF disk
<1>1. CASE StartCycle \/ Stop \/ TruncateState \/ WriteState \/ Wake \/ ScoreEnvironment
  BY <1>1 DEF StartCycle, Stop, TruncateState, WriteState, Wake, ScoreEnvironment
<1>2. CASE Signal \/ Crash \/ Restart \/ UNCHANGED vars
  BY <1>2 DEF Signal, Crash, Restart, vars
<1>3. CASE Poll
  BY <1>3 DEF Poll, PollSignals
<1>4. CASE \E t \in todo, kept \in BOOLEAN : AppendHistory(t, kept)
  BY <1>4 DEF AppendHistory
<1>5. CASE \E t \in todo : SaveRca(t) \/ LogAlert(t)
  BY <1>5 DEF SaveRca, LogAlert
<1>. QED  BY <1>1, <1>2, <1>3, <1>4, <1>5 DEF Next, Poll, Proceed

LEMMA ScreenInvInit == DashboardInit => ScreenInv
  BY DEF DashboardInit, ScreenInv, FileBacked, Unread, Idle

LEMMA ScreenInvStep ==
  ASSUME DashInv, ScreenInv, [DashboardNext]_all
  PROVE  ScreenInv'
<1>. USE DEF ScreenInv
<1>1. [Next]_vars
  BY DEF DashboardNext, all
<1>2. ASSUME NEW file, FileBacked(file)
      PROVE  file.whole => PageBacked(file.page, file.cycle, Len(EnvOrder))'
  BY <1>1, <1>2, LogsGrow, BackingGrows DEF FileBacked
<1>3. ~Unread.whole /\ ~ErrorBox.whole
  BY DEF Unread, ErrorBox
<1>4. CASE UNCHANGED view
  BY <1>2, <1>4 DEF view, FileBacked
<1>5. ASSUME NEW l \in Loads, LoadState(l)
      PROVE  ScreenInv'
  <2>1. \A m \in Loads : load'[m].got = IF m = l THEN Unread ELSE load[m].got
    BY <1>5 DEF LoadState
  <2>2. DOMAIN load' = Loads /\ UNCHANGED <<state, content>>
    BY <1>5 DEF LoadState
  <2>. QED  BY <1>2, <1>3, <2>1, <2>2 DEF FileBacked
<1>6. ASSUME NEW l \in Loads, Respond(l)
      PROVE  ScreenInv'
  <2>1. \A m \in Loads : \/ load'[m].got \in {Unread, load[m].got}
                         \/ load'[m].got = dash
    BY <1>6 DEF Respond
  <2>2. DOMAIN load' = Loads /\ UNCHANGED <<state, content>>
    BY <1>6 DEF Respond
  <2>3. FileBacked(dash)
    BY DEF DashInv, DashboardBacked, FileBacked
  <2>. QED  BY <1>2, <1>3, <2>1, <2>2, <2>3 DEF FileBacked
<1>7. ASSUME NEW l \in Loads, Render(l)
      PROVE  ScreenInv'
  <2>1. \A m \in Loads : load'[m].got \in {Unread, load[m].got}
    BY <1>7 DEF Render, Idle
  <2>2. DOMAIN load' = Loads
    BY <1>7 DEF Render
  <2>3. state' \in {state, load[l].got} /\ content' \in {ErrorBox, load[l].got}
    BY <1>7 DEF Render
  <2>. QED  BY <1>2, <1>3, <2>1, <2>2, <2>3 DEF FileBacked
<1>8. CASE SelectEnv
  BY <1>2, <1>8 DEF SelectEnv, FileBacked
<1>9. CASE ServerChanges
  BY <1>2, <1>9 DEF ServerChanges, FileBacked
<1>. QED
  BY <1>4, <1>5, <1>6, <1>7, <1>8, <1>9 DEF DashboardNext, all, Watch, Loading

\* Whatever the page shows, keeps or is about to receive is one complete cycle
\* with its samples and alerts, whichever answers are lost or overtaken.
THEOREM ScreenBacked == DashboardSpec => []ScreenIsBacked
<1>1. DashboardInit => TypeInv /\ DashInv /\ ScreenInv
  BY TypeInvInit, DashInvInit, ScreenInvInit DEF DashboardInit
<1>2. TypeInv /\ DashInv /\ ScreenInv /\ [DashboardNext]_all => TypeInv' /\ DashInv' /\ ScreenInv'
  <2>1. [DashboardNext]_all => [Next]_vars
    BY DEF DashboardNext, all
  <2>. QED  BY <2>1, TypeInvStep, DashInvStep, ScreenInvStep
<1>3. ScreenInv => ScreenIsBacked
  BY DEF ScreenInv, FileBacked, ScreenIsBacked
<1>. QED  BY <1>1, <1>2, <1>3, PTL DEF DashboardSpec
=============================================================================
