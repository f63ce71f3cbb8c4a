---------------------------- MODULE ControlPlane ----------------------------
(***************************************************************************)
(* The control plane process: control_plane.run and poll_environment, with *)
(* every file the process writes, the signals that stop it and the crashes *)
(* that interrupt it.                                                      *)
(*                                                                         *)
(* An occurrence <<cycle, env, type>> is an incident found for an          *)
(* environment in a cycle.  Time is counted in cycles, the 24 hours of the *)
(* history lookback are Lookback cycles.  The collectors of one poll write *)
(* no file, so they are one step with the rules that read their snapshots; *)
(* every write to disk is a step of its own.                               *)
(***************************************************************************)
EXTENDS Slo

CONSTANTS
  Envs,             \* environments of the configuration
  EnvOrder,         \* ... in the order of the file
  SafeName,         \* the part of an RCA file name that stands for an env
  Worlds,           \* what a poll may find in an environment
  Lookback,         \* cycles in the 24 hours a history entry counts for
  HistoryMayFail,   \* may the history fail to be read or appended to?  Both
                    \* functions swallow the exception.
  MaxCycle          \* bound on the number of cycles

ASSUME ControlPlaneAssumption ==
  /\ EnvOrder \in Seq(Envs) /\ Len(EnvOrder) > 0
  /\ Lookback \in Nat \ {0} /\ MaxCycle \in Nat
  /\ HistoryMayFail \in BOOLEAN

VARIABLES
  \* the process
  pc,         \* where the loop stands
  running,    \* the flag the signal handlers clear
  cycle,      \* number of cycles begun
  started,    \* value of cycle when this process was started, for the properties
  once,       \* was it started with --once?
  at,         \* position in EnvOrder of the environment being polled
  world,      \* what its collectors found, until its poll is scored
  found,      \* its incidents, suppressed ones included, until then
  todo,       \* types of its active incidents the current loop has still to handle
  page,       \* state["environments"] of the current cycle
  acc,        \* SLO accumulators, per environment
  \* the disk
  history,    \* dashboard/incident_history.jsonl
  rca,        \* incidents/*.md
  alerts,     \* logs/alerts.jsonl
  samples,    \* logs/metrics.jsonl, as <<cycle, env>>
  dash,       \* dashboard/state.json
  \* bookkeeping for the properties
  lost,       \* occurrences whose history append failed
  unread      \* types whose remembered history this poll failed to read

process == <<pc, running, cycle, started, once, at, world, found, todo, page, acc>>
disk == <<history, rca, alerts, samples, dash>>
vars == <<process, disk, lost, unread>>

Occurrences == (1..MaxCycle) \X Envs \X RuleTypes

PCs == {"top", "poll", "history", "rca", "alert", "score", "truncate", "write", "sleep",
        "stopped", "dead"}

Alive == pc \notin {"stopped", "dead"}

Env == EnvOrder[at]

Occurrence(type) == <<cycle, Env, type>>

Seen(env) ==
  {t \in RuleTypes : \E o \in history :
     o[2] = env /\ o[3] = t /\ cycle - o[1] <= Lookback}

Init ==
  /\ pc = "top" /\ running = TRUE /\ cycle = 0 /\ started = 0 /\ once \in BOOLEAN
  /\ at = 1 /\ world = NoSnap /\ found = {} /\ todo = {} /\ page = <<>>
  /\ acc = [e \in Envs |-> NewAccumulators]
  /\ history = {} /\ rca = {} /\ alerts = {} /\ samples = {}
  /\ dash = [whole |-> FALSE, cycle |-> 0, page |-> <<>>]
  /\ lost = {} /\ unread = {}
-----------------------------------------------------------------------------
\* Mutants of StartCycle: the page of the last cycle is kept, the file
\* is written empty first.
StartCycleKeepingPage ==
  /\ pc = "top" /\ running /\ cycle < MaxCycle
  /\ pc' = "poll" /\ cycle' = cycle + 1 /\ at' = 1
  /\ UNCHANGED <<running, started, once, world, found, todo, page, acc,
                 disk, lost, unread>>

StartCycleBlanking ==
  /\ pc = "top" /\ running /\ cycle < MaxCycle
  /\ pc' = "poll" /\ cycle' = cycle + 1 /\ at' = 1 /\ page' = <<>>
  /\ dash' = [whole |-> TRUE, cycle |-> cycle', page |-> <<>>]
  /\ UNCHANGED <<running, started, once, world, found, todo, acc, history, rca, alerts,
                 samples, lost, unread>>

StartCycle ==
  /\ pc = "top" /\ running /\ cycle < MaxCycle
  /\ pc' = "poll" /\ cycle' = cycle + 1 /\ at' = 1 /\ page' = <<>>
  /\ UNCHANGED <<running, started, once, world, found, todo, acc, disk, lost, unread>>

\* Mutant: the signal is also obeyed between truncating and filling the file.
StopAtOnce ==
  /\ pc \in {"top", "write"} /\ ~running
  /\ pc' = "stopped"
  /\ UNCHANGED <<running, cycle, started, once, at, world, found, todo, page, acc,
                 disk, lost, unread>>

Stop ==
  /\ pc = "top" /\ ~running
  /\ pc' = "stopped"
  /\ UNCHANGED <<running, cycle, started, once, at, world, found, todo, page, acc,
                 disk, lost, unread>>

\* Collect every source and run the rules; a rule reads only the history of
\* its own type, so reading all of it before the first append is the same.
\* For the types in `missed` the read fails, or stops before their entries,
\* and yields no recurrence.
PollSignals(w, missed) ==
  /\ pc = "poll"
  /\ world' = w
  /\ found' = Correlate(Signals(w), Seen(Env) \ missed)
  /\ unread' = missed
  /\ todo' = ActiveTypes(found')
  /\ pc' = IF todo' = {} THEN "score" ELSE "history"
  /\ UNCHANGED <<running, cycle, started, once, at, page, acc, disk, lost>>

\* What the rules that fire need of the history and may fail to read.
Unreadable(w) ==
  IF HistoryMayFail THEN SUBSET (Seen(Env) \intersect Types(Correlate(Signals(w), {}))) ELSE {{}}

\* Mutants of AppendHistory: a known type is not appended again, the alert
\* goes out before the document is saved.
AppendHistoryOnce(type, kept) ==
  /\ pc = "history" /\ type = FirstIn(todo)
  /\ kept \/ HistoryMayFail
  /\ history' = IF kept /\ type \notin Seen(Env) THEN history \cup {Occurrence(type)} ELSE history
  /\ lost' = IF kept THEN lost ELSE lost \cup {Occurrence(type)}
  /\ todo' = IF todo = {type} THEN ActiveTypes(found) ELSE todo \ {type}
  /\ pc' = IF todo = {type} THEN "rca" ELSE "history"
  /\ UNCHANGED <<running, cycle, started, once, at, world, found, page, acc,
                 rca, alerts, samples, dash, unread>>

AppendHistoryThenAlert(type, kept) ==
  /\ pc = "history" /\ type = FirstIn(todo)
  /\ kept \/ HistoryMayFail
  /\ history' = IF kept THEN history \cup {Occurrence(type)} ELSE history
  /\ lost' = IF kept THEN lost ELSE lost \cup {Occurrence(type)}
  /\ todo' = IF todo = {type} THEN ActiveTypes(found) ELSE todo \ {type}
  /\ pc' = IF todo = {type} THEN "alert" ELSE "history"
  /\ UNCHANGED <<running, cycle, started, once, at, world, found, page, acc,
                 rca, alerts, samples, dash, unread>>

\* append_history for the next active incident; a failure is only logged.
AppendHistory(type, kept) ==
  /\ pc = "history" /\ type = FirstIn(todo)
  /\ kept \/ HistoryMayFail
  /\ history' = IF kept THEN history \cup {Occurrence(type)} ELSE history
  /\ lost' = IF kept THEN lost ELSE lost \cup {Occurrence(type)}
  /\ todo' = IF todo = {type} THEN ActiveTypes(found) ELSE todo \ {type}
  /\ pc' = IF todo = {type} THEN "rca" ELSE "history"
  /\ UNCHANGED <<running, cycle, started, once, at, world, found, page, acc,
                 rca, alerts, samples, dash, unread>>

\* save_markdown: the file name has the second, the safe name of the
\* environment and the type, so two environments of a cycle may share it.
SameFile(o, p) == o[1] = p[1] /\ SafeName[o[2]] = SafeName[p[2]] /\ o[3] = p[3]

SaveRca(type) ==
  /\ pc = "rca" /\ type = FirstIn(todo)
  /\ rca' = {o \in rca : ~SameFile(o, Occurrence(type))} \cup {Occurrence(type)}
  /\ pc' = "alert"
  /\ UNCHANGED <<running, cycle, started, once, at, world, found, todo, page, acc,
                 history, alerts, samples, dash, lost, unread>>

LogAlert(type) ==
  /\ pc = "alert" /\ type = FirstIn(todo)
  /\ alerts' = alerts \cup {Occurrence(type)}
  /\ todo' = todo \ {type}
  /\ pc' = IF todo = {type} THEN "score" ELSE "rca"
  /\ UNCHANGED <<running, cycle, started, once, at, world, found, page, acc,
                 history, rca, samples, dash, lost, unread>>

\* Mutants of ScoreEnvironment: no end to the loop over the environments, SLO
\* figures from before this poll was counted, suppressed incidents on the page.
ScoreEnvironmentNoEnd ==
  /\ pc = "score"
  /\ LET s     == Signals(world)
         label == ScoreToLabel(HealthScore(found, s))
     IN  /\ acc' = [acc EXCEPT ![Env] = Accumulate(@, s, found, label)]
         /\ page' = Append(page, [env |-> Env, label |-> label, types |-> ActiveTypes(found),
                                  slo |-> OverallStatus(acc'[Env], s)])
  /\ samples' = samples \cup {<<cycle, Env>>}
  /\ world' = NoSnap /\ found' = {} /\ unread' = {}
  /\ at' = at + 1
  /\ pc' = IF at = Len(EnvOrder) THEN "truncate" ELSE "poll"
  /\ UNCHANGED <<running, cycle, started, once, todo, history, rca, alerts, dash, lost>>

ScoreEnvironmentEarly ==
  /\ pc = "score"
  /\ LET s     == Signals(world)
         label == ScoreToLabel(HealthScore(found, s))
     IN  /\ acc' = [acc EXCEPT ![Env] = Accumulate(@, s, found, label)]
         /\ page' = Append(page, [env |-> Env, label |-> label, types |-> ActiveTypes(found),
                                  slo |-> OverallStatus(acc[Env], s)])
  /\ samples' = samples \cup {<<cycle, Env>>}
  /\ world' = NoSnap /\ found' = {} /\ unread' = {}
  /\ at' = IF at = Len(EnvOrder) THEN 1 ELSE at + 1
  /\ pc' = IF at = Len(EnvOrder) THEN "truncate" ELSE "poll"
  /\ UNCHANGED <<running, cycle, started, once, todo, history, rca, alerts, dash, lost>>

ScoreEnvironmentSuppressedToo ==
  /\ pc = "score"
  /\ LET s     == Signals(world)
         label == ScoreToLabel(HealthScore(found, s))
     IN  /\ acc' = [acc EXCEPT ![Env] = Accumulate(@, s, found, label)]
         /\ page' = Append(page, [env |-> Env, label |-> label, types |-> Types(found),
                                  slo |-> OverallStatus(acc'[Env], s)])
  /\ samples' = samples \cup {<<cycle, Env>>}
  /\ world' = NoSnap /\ found' = {} /\ unread' = {}
  /\ at' = IF at = Len(EnvOrder) THEN 1 ELSE at + 1
  /\ pc' = IF at = Len(EnvOrder) THEN "truncate" ELSE "poll"
  /\ UNCHANGED <<running, cycle, started, once, todo, history, rca, alerts, dash, lost>>

\* Health score, SLO accumulators, metric sample; then the next environment.
\* What was collected and found were locals of poll_environment.
ScoreEnvironment ==
  /\ pc = "score"
  /\ LET s     == Signals(world)
         label == ScoreToLabel(HealthScore(found, s))
     IN  /\ acc' = [acc EXCEPT ![Env] = Accumulate(@, s, found, label)]
         /\ page' = Append(page, [env |-> Env, label |-> label, types |-> ActiveTypes(found),
                                  slo |-> OverallStatus(acc'[Env], s)])
  /\ samples' = samples \cup {<<cycle, Env>>}
  /\ world' = NoSnap /\ found' = {} /\ unread' = {}
  /\ at' = IF at = Len(EnvOrder) THEN 1 ELSE at + 1
  /\ pc' = IF at = Len(EnvOrder) THEN "truncate" ELSE "poll"
  /\ UNCHANGED <<running, cycle, started, once, todo, history, rca, alerts, dash, lost>>

\* _write_state: write_text truncates the file, then fills it.
TruncateState ==
  /\ pc = "truncate"
  /\ dash' = [dash EXCEPT !.whole = FALSE]
  /\ pc' = "write"
  /\ UNCHANGED <<running, cycle, started, once, at, world, found, todo, page, acc,
                 history, rca, alerts, samples, lost, unread>>

\* Mutant of WriteState: what the file held before is written back.
WriteStateAgain ==
  /\ pc = "write"
  /\ dash' = [dash EXCEPT !.whole = TRUE]
  /\ pc' = IF once THEN "stopped" ELSE "sleep"
  /\ UNCHANGED <<running, cycle, started, once, at, world, found, todo, page, acc,
                 history, rca, alerts, samples, lost, unread>>

WriteState ==
  /\ pc = "write"
  /\ dash' = [whole |-> TRUE, cycle |-> cycle, page |-> page]
  /\ pc' = IF once THEN "stopped" ELSE "sleep"
  /\ UNCHANGED <<running, cycle, started, once, at, world, found, todo, page, acc,
                 history, rca, alerts, samples, lost, unread>>

\* Mutant: waits for the flag instead of the time.
WakeWhileRunning ==
  /\ pc = "sleep"
  /\ pc' = IF running THEN "top" ELSE "sleep"
  /\ UNCHANGED <<running, cycle, started, once, at, world, found, todo, page, acc,
                 disk, lost, unread>>

\* time.sleep resumes after a signal handler returns, so only time ends it.
Wake ==
  /\ pc = "sleep"
  /\ pc' = "top"
  /\ UNCHANGED <<running, cycle, started, once, at, world, found, todo, page, acc,
                 disk, lost, unread>>

\* SIGINT or SIGTERM.
Signal ==
  /\ Alive /\ running
  /\ running' = FALSE
  /\ UNCHANGED <<pc, cycle, started, once, at, world, found, todo, page, acc,
                 disk, lost, unread>>

\* What the process knew of its cycle is gone with it.
Forget ==
  at' = 1 /\ world' = NoSnap /\ found' = {} /\ unread' = {} /\ todo' = {} /\ page' = <<>>

\* The process is killed, or an exception that nothing catches ends it: one
\* of save_markdown, log_alert, append_metric_sample or _write_state.  Its
\* variables die with it; what a dead process holds in running and once is moot.
Crash ==
  /\ Alive
  /\ pc' = "dead" /\ running' = FALSE /\ once' = FALSE /\ Forget
  /\ UNCHANGED <<cycle, started, acc, disk, lost>>

\* Mutant: the figures of the last process are taken over.
RestartWithFigures ==
  /\ ~Alive
  /\ pc' = "top" /\ running' = TRUE /\ started' = cycle /\ once' \in BOOLEAN
  /\ Forget
  /\ UNCHANGED <<cycle, acc, disk, lost>>

\* The operator starts the program again, with --once or without; only the
\* disk has survived.
Restart ==
  /\ ~Alive
  /\ pc' = "top" /\ running' = TRUE /\ started' = cycle /\ once' \in BOOLEAN
  /\ Forget /\ acc' = [e \in Envs |-> NewAccumulators]
  /\ UNCHANGED <<cycle, disk, lost>>

\* Collecting waits for other machines.
Poll == \E w \in Worlds : \E missed \in Unreadable(w) : PollSignals(w, missed)

\* Everything else the process does by itself, on the local disk.
Proceed ==
  \/ StartCycle \/ Stop
  \/ \E t \in todo, kept \in BOOLEAN : AppendHistory(t, kept)
  \/ \E t \in todo : SaveRca(t)
  \/ \E t \in todo : LogAlert(t)
  \/ ScoreEnvironment \/ TruncateState \/ WriteState \/ Wake

Next == Poll \/ Proceed \/ Signal \/ Crash \/ Restart

Spec == Init /\ [][Next]_vars
-----------------------------------------------------------------------------
(***************************************************************************)
(* Properties.                                                             *)
(***************************************************************************)
PageEntries == [env : Envs, label : {"HEALTHY", "DEGRADED", "CRITICAL"},
                types : SUBSET RuleTypes, slo : {"ok", "at_risk", "breached"}]

\* The variables stay in their domains.
TypeOK ==
  /\ pc \in PCs /\ running \in BOOLEAN
  /\ cycle \in 0..MaxCycle /\ started \in 0..cycle /\ once \in BOOLEAN
  /\ at \in 1..Len(EnvOrder)
  /\ world \in Worlds \cup {NoSnap}
  /\ todo \subseteq RuleTypes /\ Types(found) \subseteq RuleTypes
  /\ page \in Seq(PageEntries)
  /\ acc \in [Envs -> Accumulators]
  /\ history \subseteq Occurrences /\ rca \subseteq Occurrences
  /\ alerts \subseteq Occurrences /\ lost \subseteq Occurrences /\ unread \subseteq RuleTypes
  /\ samples \subseteq (1..MaxCycle) \X Envs
  /\ dash.whole \in BOOLEAN /\ dash.cycle \in 0..MaxCycle /\ dash.page \in Seq(PageEntries)

\* Every line of the alert log has its RCA document, whatever the process
\* was doing when it last died.
AlertHasRca == alerts \subseteq rca

\* Every alerted incident counts as a recurrence later, unless its append
\* failed: no crash separates an alert from its history entry.
AlertRemembered == alerts \subseteq history \cup lost

\* The first n environments of cycle c are on page p, each with its metric
\* sample and an alert for each of its incidents.
PageBacked(p, c, n) ==
  /\ Len(p) = n
  /\ \A k \in 1..n :
       /\ p[k].env = EnvOrder[k]
       /\ <<c, EnvOrder[k]>> \in samples
       /\ \A t \in p[k].types : <<c, EnvOrder[k], t>> \in alerts

\* A readable state file is one complete cycle: every environment, in order,
\* with its metric sample, and every incident it shows is in the alert log.
DashboardBacked == dash.whole => PageBacked(dash.page, dash.cycle, Len(EnvOrder))

\* One critical poll in MaxCycle takes the availability under its target, also
\* after it is rounded to three digits.
OnePollBreaches == MaxCycle * (200 * (1000 - TargetPermille) + 1) < 200000

\* An outage shows in the objectives on the page that reports it: the label is
\* final before the SLO figures are computed from it (they take "HEALTHY" for
\* granted when it is missing), as long as one poll weighs enough.
OutageShowsInSlo ==
  OnePollBreaches =>
    \A n \in DOMAIN dash.page :
      dash.page[n].label = "CRITICAL" => dash.page[n].slo = "breached"

\* The figures speak of this process only: of every environment they count
\* one poll per sample logged since it was started, whatever was lost before.
FiguresCoverThisProcess ==
  \A e \in Envs :
    acc[e].polls = Cardinality({s \in samples : s[1] > started /\ s[2] = e})

\* A process that stops in good order, after at least one cycle, leaves the
\* state file readable and up to date, however earlier processes ended.
CleanStopIsReadable ==
  pc = "stopped" /\ cycle > started => dash.whole /\ dash.cycle = cycle

\* An outage found with fresh signals is reported; one alerted within the
\* lookback is critical when it is found again, also by a process started
\* after a crash, unless its entry was not written or not read.
EscalationSurvivesRestart ==
  pc \in {"history", "rca", "alert", "score"} /\ world.age <= 120 =>
    \A i \in found :
      i.type = "db_unavailable" =>
        /\ ~i.suppressed
        /\ \A o \in alerts \ lost :
             /\ o[3] = i.type /\ o[2] = Env /\ o[1] < cycle /\ cycle - o[1] <= Lookback
             => i.severity = "critical" \/ i.type \in unread

\* After a signal the process finishes what it does and begins no new cycle.
NoCycleAfterSignal == [][~running => cycle' = cycle]_vars

\* A signal ends the process, in one piece or not.  The one thing that can
\* keep it is a poll that never ends: a SQL statement has no timeout, and the
\* handler of the signal does not run before the statement returns.
SignalStops == ~running ~> (~Alive \/ [](pc = "poll"))

\* A cycle that begins is published, unless the process dies in it or a poll
\* never ends.
CycleIsPublished ==
  \A c \in 1..MaxCycle :
    pc = "poll" /\ cycle = c ~> ((dash.whole /\ dash.cycle >= c) \/ pc = "dead" \/ [](pc = "poll"))
-----------------------------------------------------------------------------
\* The incidents the state file shows to a reader.
Published ==
  IF dash.whole
  THEN UNION {{<<dash.cycle, dash.page[k].env, t>> : t \in dash.page[k].types} :
                k \in DOMAIN dash.page}
  ELSE {}

Ledger == INSTANCE IncidentLedger WITH
  Cycles <- 1..MaxCycle,
  known <- history \cup lost, documented <- rca, alerted <- alerts,
  edition <- dash.cycle, shown <- Published

\* The files keep the promise of the ledger: an incident is recorded before it
\* is documented before it is alerted, once each; a page shows all that was
\* alerted in its cycle and nothing else; no crash or restart ever makes the
\* process go back behind a page it has written.
LedgerKept == Ledger!Spec
=============================================================================
