# Verification of the observability control plane

TLA+ models of the control plane in this repository, the TLC runs that check
them, and proofs checked by TLAPS. Paths below are relative to the root of the
repository.

Contents: [inventory](#1-inventory) · [modules](#2-modules) ·
[runs](#3-runs-bounds-and-fairness) · [proofs](#4-proofs) ·
[divergences](#5-where-documents-and-code-disagree) ·
[abstractions](#6-abstractions) · [plan](#7-what-is-left-the-plan)

## 1. Inventory

The program is one Python process, `control_plane.py`. Once a minute it polls
every configured environment: collectors read PostgreSQL, HTTP endpoints and a
Windows host, detectors derive Qmatic anomalies from the readings, nine rules
turn the signals into incidents with a confidence, and the result is appended
to log files and published to a page through `dashboard/state.json`. Four Go
services and a fault injector form a test bed to be monitored.

| component | state it keeps | operations | interacts by |
|---|---|---|---|
| control loop (`control_plane.py`) | `_running`, the state of the cycle being built | `run`, `poll_environment`, `_write_state`, signal handlers | calls everything below; writes `dashboard/state.json` |
| collectors (`collectors/`) | none between polls | `collect` of PostgreSQL, HTTP and Windows | network in, snapshot objects out |
| Qmatic checks (`integrations/qmatic/`) | none that a poll uses | service connections, queue activity, detectors | second database session, results to the correlator |
| correlation engine (`correlators/correlator.py`, `confidence.py`) | `dashboard/incident_history.jsonl` | `correlate`, nine rules, five scores, `load_recent_history`, `append_history` | reads and appends the history |
| health score (`correlators/health_score.py`) | none | `calculate_health_score`, `score_to_label` | pure |
| SLO metrics (`correlators/metrics.py`) | `_state` in memory, `logs/metrics.jsonl` | `calculate_slo`, `append_metric_sample` | reads the label the health score set |
| RCA generator (`rca/rca_generator.py`) | `incidents/*.md`, `logs/alerts.jsonl` | `generate`, `save_markdown`, `log_alert` | called per active incident |
| loader (`config/loader.py`) | none | `load_environments` | decides which sources exist |
| dashboard (`dashboard/*.html`) | the last page it read, what it shows | `loadState` every minute, `render`, `selectEnv` | reads the files the loop writes |
| db-service (`services/db-service`) | connection pool of ten, `faultExhaustPool`, `faultSlowQueryMs` | query, insert, health; exhaust, slow query, reset | PostgreSQL, HTTP |
| api-gateway (`services/api-gateway`) | rate window and counter, fault flags | middleware, orders; fault handlers, reset | HTTP, publishes to RabbitMQ |
| queue-worker (`services/queue-worker`) | one channel, pause and webhook flags | `consume`, `deliverWebhook`; fault handlers, reset | RabbitMQ, posts to the webhook |
| background-job (`services/background-job`) | memory ballast, its flag, two tickers | `scheduler`, two jobs; memory fault, reset | Redis, HTTP |
| fault injector (`orchestrator/fault_injector.py`) | none | trigger and reset faults | HTTP to the services |
| `orchestrator/{correlator,detector,rca_generator}.py` | – | empty, or comments only | – |

**What is hard here.**

* *Crashes between writes.* A cycle writes five files one after the other, and
  an exception in `save_markdown`, `log_alert`, `append_metric_sample` or
  `_write_state` ends the process. `append_history` is the exception: it
  swallows its error, so an incident may be alerted but not remembered.
* *A history that cannot be read.* `load_recent_history` swallows its error too and
  returns what it had read by then: for one poll a known incident counts as new,
  its recurrence is 0, and it may lose its severity or be suppressed.
* *Restarts.* The history survives on disk, the SLO accumulators do not.
* *Signals.* A handler only clears a flag that is read at the top of the loop;
  `time.sleep` is resumed after the handler.
* *Calls without a deadline.* The HTTP checks and the PowerShell sessions have a
  timeout. The database sessions have one for connecting only, so a statement may
  wait for a lock for ever, and Python does not run a signal handler before it
  returns. The worker's `http.Post` has none either.
* *Half-finished collections.* A collector that stops after some of its queries
  keeps what it had; the rest reads as zero.
* *Feedback through the history.* A rule reads the history of its type before
  the incident is appended. Recurrence adds 15 points, and thresholds at 50 and
  80 decide whether an incident is reported and whether it is critical.
* *A reader of a file that is being rewritten.* The page loads `state.json` once a
  minute, whether or not the last load was answered.
* *Waiting for each other.* Exhaustion goroutines take more connections than
  the pool has, in a context that never ends, before they look at their flag.
* *At-least-once delivery.* The worker posts, then acknowledges; answers, channels
  and the process itself get lost in between, and a failed delivery is put back
  in front of the queue without bound: orders that are always rejected fill the
  prefetch window and starve the rest.
* *Faults that guard their own reset.* Fault handlers go through the middleware
  they break; a post the injector has given up still takes effect, and "... active"
  is printed after a failed trigger too.
* *Shared variables without a lock*: the rate limiter's atomics, the ballast slice.
* *Numbers from unrelated tables.* Confidence, penalties and labels are
  calibrated in three files, with truncation and rounding between them.

**What makes the components correct.**

| component | properties |
|---|---|
| files of the loop | an alert has its document and its history entry; a readable page is one complete, backed cycle; a stop in good order leaves a readable page |
| loop | a signal ends it and starts no new cycle; a begun cycle is published or the process dies; only a poll that hangs may prevent either |
| correlation | as long as its history can be read, a remembered outage is critical and repeated signals do not weaken a report; suppressed incidents do not confirm themselves; diagnoses do not contradict each other |
| health score | a reported outage is CRITICAL, no reported incident is HEALTHY, the score stays in 0..100 |
| SLO | an exhausted budget is never "ok"; an outage shows on the page that reports it; an unreachable source shows in one figure; the figures count the polls of this process |
| dashboard | the screen shows one complete, backed cycle, and the last one in the end |
| db-service | no connection is lost; requests do not wait for each other's connections; an exhausted pool does not recover |
| gateway and injector | the limit holds for requests that do not overlap; the result line of a trigger tells the truth; a lock-out lasts |
| orders | an order is owed until it is handed over; repeats have a reason; none is forgotten; none is starved by rejected ones that leave room in the window, unless a post hangs |
| background-job | flag and memory in step after requests that do not overlap; the cleanup goes on |

`PROJECT.json` lists every hazard at its line with the properties that cover it.

## 2. Modules

```
Collectors  <-  Correlator  <-  EnvironmentMonitor  <-  MCEnvironmentMonitor
                    ^   ^                ^
                    |   CorrelatorProofs +-- EnvironmentMonitorProofs *
                    Slo  <-  SloTracker  <-  MCSloTracker
                     ^          ^
                     |          SloTrackerProofs *
IncidentLedger <.. ControlPlane  <-  MCControlPlane
                          ^
                      Dashboard  <-  MCDashboard
                          ^
                     ControlPlaneProofs *

DbService  <-  MCDbService             ApiGateway  <-  FaultInjector  <-  MCFaultInjector
    ^                                                        ^
    DbServiceProofs                                          FaultInjectorProofs
OrderQueue <.. Orders  <-  MCOrders    BackgroundJob  <-  MCBackgroundJob
                  ^                           ^
                  OrdersProofs                BackgroundJobProofs
```

(`*`: also extends `CorrelatorProofs`.)
(`A <- B`: B extends A. `A <.. B`: B is shown to implement the abstract
specification A, by `INSTANCE A WITH` a refinement mapping.)

| module | models | how |
|---|---|---|
| `Collectors` | the three collectors, the Qmatic checks, what the loader drops | functions from raw observations to snapshots; `done` counts the stages of a collection that completed, so every point where an exception can end it is an input |
| `Correlator` | the five scores, severity adjustment, suppression, the nine rules, the engine, the health score | each rule yields the set of its incidents (at most one); `seen` is the set of types in the history of the last 24 hours |
| `EnvironmentMonitor` | one environment over time | `Poll(w, missed, lost)` is steps 1 to 8 of `poll_environment` on the world `w`, where the rules of the types `missed` fail to read their history and the appends of the types `lost` fail (any of them, each rule opens the file for itself); `unread` keeps `missed` for the properties; `Outage` is a minute without the process; `left[t]` is how long the history still counts type `t` |
| `Slo` | `calculate_slo`: accumulators, availability, budget, statuses | functions on the accumulator record; seconds are counted in polls of 60 s |
| `SloTracker` | the accumulators over more polls than the budget window has | one action, `CalculateSlo(w)` |
| `ControlPlane` | the process, its files, signals, crashes, restarts | see below |
| `IncidentLedger` | what the plane promises about an incident | taken down, documented, alerted, each once; a page is an edition that shows the alerts of one cycle |
| `Dashboard` | `dashboard/index.html` next to the plane | calls of `loadState` that overlap, each asked, answered and rendered in steps of its own; the web server is external and may be down |
| `DbService` | `services/db-service` | who owns each connection, who waits in which order, where each request and each exhaustion goroutine stands; a statement may succeed or break its connection, a client may leave |
| `ApiGateway` | `services/api-gateway` | every load, store and add of an atomic in `metricsMiddleware` is a step of a request; so is every store of a reset |
| `FaultInjector` | `orchestrator/fault_injector.py` with clients of the gateway | one post at a time, given up after its time-out while the gateway goes on with it; what the last command about each fault printed: the level and value of the result line (`_print_result`), and "... active", which follows whatever the result |
| `OrderQueue` | what queue and worker promise together | owed from publication until it was handed to the receiver; only a broker restart takes it away |
| `Orders` | `ordersHandler`, RabbitMQ (external), `services/queue-worker`, the receiver (external) | publish, push within the prefetch window, post up to three times, acknowledge or requeue; a receiver that answers nothing for a while, and orders it never takes (`Rejected`); lost connections and answers, crash, restart |
| `BackgroundJob` | `services/background-job` | two handlers append to a slice in a load and a store each; scheduler with two tickers |
| `MC*` | – | the small sets of worlds and constants for TLC |
| `*Proofs` | – | theorems, section 4 |

**ControlPlane.** `pc` says where the loop stands, and each write to disk is a
step of its own:

| action | code |
|---|---|
| `StartCycle`, `Stop` | the test of `while _running` and the new `state` |
| `PollSignals(w, missed)` | collectors, detectors and rules of one environment; the history of the types `missed` is not read |
| `AppendHistory(type, kept)` | `append_history` for the next active incident; with `kept` FALSE the append failed |
| `SaveRca(type)`, `LogAlert(type)` | `save_markdown` and `log_alert` per active incident, in the order of the rules |
| `ScoreEnvironment` | health score, `calculate_slo`, `append_metric_sample`, `state["environments"].append` |
| `TruncateState`, `WriteState` | `_write_state`: `write_text` truncates, then fills; then `--once` or `sleep` |
| `Wake` | the sleep ends |
| `Signal` | SIGINT or SIGTERM clears the flag |
| `Crash` | kill, or an exception nothing catches; possible at every live point |
| `Restart` | a new process, with `--once` or without; the accumulators start empty |

An *occurrence* `<<cycle, env, type>>` identifies an incident in every file. The
variables `started` (cycle at which the process started), `lost` (occurrences
whose append failed) and `unread` (types whose remembered history the open poll
failed to read) are bookkeeping for the properties; the model behaves the same
without them.

The actions of the service modules carry the names of the handlers
(`FaultPause`, `Reset`, `FaultRateLimit`) or of the step they take (`Ask`,
`Notice`, `Release` are the goroutine of `faultExhaustHandler`; `Take`, `Deliver`,
`Post`, `Settle` are one round of `consume`, `Work` its steps other than `Post`). The following variables are
bookkeeping for properties and change nothing: `passed` and `alone` (requests let
through since the last tick, and whether they overlapped in the limiter),
`sure` (faults whose last command was a trigger with no given-up post in its way), `excused` (orders a
lost answer or channel may repeat), `copies`, `clean` (no two handlers overlapped).

## 3. Runs, bounds and fairness

| run | question | bounds |
|---|---|---|
| `MonitorDatabase` | Is a reported outage CRITICAL, does a remembered one escalate, does a suppressed incident stay out of the history? | 270 worlds: nine database states (healthy, refused, stopped after each kind of stage, at 75 and 90 percent, long and blocked queries, absent), five web tiers, both sides of business hours, snapshot ages at 120, 300 and 301 s; a history that counts for two polls, and any of whose reads and appends may fail |
| `MonitorSignals` | Do diagnoses contradict each other, can an incident hide under HEALTHY, can repeating the same signals weaken it, does the score stay in range? | seven Windows hosts (listing failed, one or two services down, one of them still with its process, heap warning and critical, memory queries lost), a healthy host whose database has no JDBC connections with snapshots 300 s old, slow and failing web tier; visits and reporting in their significant combinations; a history that counts for one poll, and any of whose reads and appends may fail |
| `SloBudget` | Do budget and availability agree, does an unreachable source show? | target 90.0 %, window of 20 polls, 24 polls, four worlds |
| `PlaneFiles` | Are the files consistent whatever interrupts the process; does escalation survive a restart; does the plane implement `IncidentLedger`? | two environments, three worlds (nothing, an outage, two active and one suppressed incident), two cycles, failing reads and appends of the history |
| `PlaneDashboard` | What can the screen show; does the loop end and publish? | one environment that is down in every poll, two cycles, two loads under way |
| `PoolRequests` | Is a connection lost, does a request wait for ever, what becomes of an exhausted pool? | two connections (minimum one), two requests, two exhaustion goroutines that want three each |
| `OrdersWorker` | Is an order lost, repeated without a reason, or starved; does queue plus worker implement `OrderQueue`? | three orders, one of which the receiver always rejects, prefetch two, three attempts |
| `GatewayFaults` | Does the limit hold, does a result line tell the truth, how long does a lock-out last? | two requests under way, limit 1, percentages 0 and 1, two ticks, counter up to three |
| `MemoryFault` | Do flag and memory agree, does the cleanup go on? | two handlers, three chunks, five requests |
| `ClaimJdbcDrop`, `PoolReset`, `OrdersReset` | sentences of the documents the code does not meet | section 5 |

**Why the bounds are enough.**

* `Lookback` stands for 24 hours. Two polls in `MonitorDatabase` show an entry
  counted, renewed, aged and expired. In `MonitorSignals` only what the next poll
  reads matters, and one poll is enough. In the plane runs an entry of the first cycle
  counts in the second. The rules ask only whether there is an entry.
* `MaxCycle` bounds the number of cycles, over all processes. Two cycles show a
  file left by one process read or overwritten by the next, since a crash may end
  the first at every point, and an outage that recurs. `EscalationSurvivesRestart`
  is proved for any number of them.
* Two environments are enough for the page: the first, the last, and both loops
  over them. The proofs cover any number.
* In `SloBudget` target and window are small so that a window and what follows it
  can be explored; at 90.0 % of 20 polls the budget is two polls. The margin
  `at_risk` (0.3 points) keeps its size.
* Percentages, latencies, ages and heap sizes take values on both sides of each
  threshold that the code compares them with; the thresholds in the cfgs are
  those of `config/environments.yaml` for PostgreSQL, HTTP and Windows; memory is
  in hundredths of the host's RAM, so `ConfigXmx` is 48 of 100.
* Two connections, two requests and two goroutines show a pool shared between
  goroutines, a goroutine that alone wants more than there is (three of two stands
  for twelve of ten), and a request that needs two connections one by one beside
  another that does.
* Prefetch two and three orders show a full window with one more order waiting
  behind it, and a returned order in front of another. One order that is rejected
  for ever leaves one place of the window; with two, which fill it, the third order
  starves, and `OrdersSettle` excludes that case.
* Two requests in the gateway are the least that can overlap in the limiter, or
  overtake a post that was given up. At `MaxCount` the counter stops; before it the
  limit of one has let one request through and refused others. The clock is a
  number of ticks, each longer than the window of a second: a window opens at the
  first tick and is found to be over at the second.
* Two handlers, five requests: two that overlap, a third that follows the damage,
  and a reset on either side of them.
* The score of `TypeOK` in `MonitorSignals` leaves 0..100 when the clamp is removed:
  the worlds reach sums of penalties above 100.

**Deadlock** is checked except in `SloBudget`, which stops at `MaxPolls`. The
process can always be signalled, crashed or restarted, and the services can
always get another request.

**Fairness.** Four runs check liveness, and assume no more than this:

* `PlaneDashboard` (`DashboardSpec`): weak fairness of `Proceed`, the loop's own next
  step, since the loop is a single thread in a system that schedules it and the
  sleep ends by itself. Polling (`Poll`) has none: the HTTP checks and the
  PowerShell sessions have a timeout, but a SQL statement has not
  (collectors/postgres_collector.py:151-159 sets `connect_timeout` only, as does
  integrations/qmatic/qmatic_postgres_checks.py:168-176). `SignalStops` and
  `CycleIsPublished` hence end in `\/ [](pc = "poll")`: what keeps the process alive
  after a signal, or a cycle from being published, can only be a poll that never
  ends. Each load has weak fairness, since the interval fires and a fetch comes
  back, with an answer or an error. Signals, crashes, restarts, clicks and the web server have none:
  `CycleIsPublished` allows the process to be dead, `ScreenCatchesUp` assumes that
  the server is up and the file readable from some point on. The bound on cycles
  makes `StartCycle` impossible at the end, and then no step is demanded.
* `PoolRequests` and `PoolReset`: the pool serves who waits when it can, a
  statement ends (answered or broken), the two seconds of a health check pass,
  goroutines are scheduled. That statements end is an assumption about PostgreSQL
  (no lock is held for ever), which need not be up. No client has to leave, nobody
  has to reset a fault.
* `OrdersWorker` and `OrdersReset`: the consumer is scheduled (`Work`, `EndConsume`),
  `connectRabbit` succeeds in the end (it tries for ever), a dead container starts
  again (`restart: unless-stopped`). The broker pushes an order that is first in the
  queue time and again with room in the window (strong fairness of `Push`, per
  order). `Post` has no fairness, as `http.Post` has no timeout
  (services/queue-worker/main.go:116): both properties allow a post that hangs
  (`Hangs`). The receiver need not answer well.
* `MemoryFault`: the tickers go on, sleeps and jobs end, and `select`, which
  chooses at random among what is ready, does not pass over the cleanup for ever
  (strong fairness of `PickCleanup`).

**Mutants.** For each checked property, `PROJECT.json` names a definition and a
changed form of it, such as an alert before its document or a page that is not
reset, that makes TLC find the property violated in that run. The mutated forms
stand next to the definitions they change and are used by nothing else.

## 4. Proofs

Every safety property the passing runs check, invariant, action property or
refinement, is also a theorem of the specification, proved for every value of the
constants under the assumptions its module declares. Eight modules hold theorems;
`CorrelatorProofs` has none of its own but the lemmas about rules, scores and
quotients that three of the others cite.

**Assumptions.** On the constants, evaluated by TLC in every run:

| assumption | says | why the code justifies it |
|---|---|---|
| `CollectorsAssumption`, `SloAssumption` | thresholds are natural numbers, the target is below 1000 permille, the window not empty | defaults and types in config/loader.py, constants of metrics.py |
| `ControlPlaneAssumption` | the environments are a non-empty sequence, the lookback is positive | `run` exits when none is configured |
| `MonitorAssumption` | a percentage is a natural number, a host lists finitely many services | what the collectors compute and list |
| `DbAssumption` | a finite, non-empty pool; requests, goroutines and the two marks of a free connection are different things | identity of goroutines, `MaxConns` of the pool |
| `OrdersAssumption`, `InjectorAssumption` | `None` is not an order, not a slot | `None` is a mark of the model |
| `GatewayAssumption` | limits are finitely many natural numbers, percentages natural numbers | both are parsed from a query parameter; the bound of `RateHolds` is their maximum |
| `JobAssumption` | the ballast has at least one chunk | a constant of main.go |

Four theorems assume more, in their statement: `DistinctNames` (`SafeName` is
injective on the environments), without which two environments share a file and
the second document replaces the first; and `EachEnvOnce` (the configuration lists
no environment twice), without which two polls of a cycle count on one accumulator.
The loader enforces neither. `OutageShowsInSlo` itself has the premise
`OnePollBreaches`: with 99.9 percent as the target, one critical poll of the last
is visible after rounding in the first 995 polls of a process and not for ever.

**The control plane.** `TypeInv` is `TypeOK` with what it needs to be inductive: the
incidents found are finitely many, so the accumulators stay numbers, and a cycle is
open outside `Idle`.

| theorem | states | the inductive invariant and why it is needed |
|---|---|---|
| `TypeCorrect` | `TypeOK` | `TypeInv` |
| `AlertsAreRemembered` | `AlertRemembered` | `MemoryInv`: while the history is written, the active types no longer in `todo` have been appended or lost; from then on all of them have. Without that part an alert step could not know its entry exists |
| `AlertsHaveDocuments` | `AlertHasRca`, given `DistinctNames` | `RcaInv`: at the alert step, the document of the first type in `todo` exists |
| `DashboardIsBacked` | `DashboardBacked` | `DashInv`: the page under construction is backed up to the current environment, and the types handled so far are in the alert log. `BackingGrows`: logs only grow, so a page stays backed |
| `CleanStopsAreReadable` | `CleanStopIsReadable` | `StopInv` holds at the top, asleep and stopped; a crash leaves it vacuously, a restart sets `started` |
| `SignalEndsCycles` | `NoCycleAfterSignal` | step-wise from `TypeInv`; proved, no run of its own |
| `EscalationSurvives` | `EscalationSurvivesRestart` | `MemoryInv` (an alert not lost is in the history), and what was found came from that history less `unread`; with `FreshOutage`: severity 30, at least two pieces of evidence 16 and fresh signals 20 make 66, over the 50 of a report; the recurrence of a history that is read adds 15 and passes the 80 of critical |
| `FilesKeepLedger` | `LedgerKept` (`ControlPlane` implements `IncidentLedger`), given `DistinctNames` | `LedgerInv`: no file knows of a cycle that has not begun, the published edition is older than the open cycle, and the alerts of the cycle are those of the page and of the types already handled. Without the last part a publication could show other incidents than were alerted |
| `FiguresCover` | `FiguresCoverThisProcess`, given `EachEnvOnce` | `FiguresInv`: the environments of the cycle still to be polled have no sample yet, so each sample is new |
| `OutagesShow` | `OutageShowsInSlo`, given `EachEnvOnce` | `SloInv`: an environment has been polled at most once per cycle, so one poll weighs at least 1 in `MaxCycle`; `QuotientBelow` carries that through the rounding |
| `ScreenBacked` | `ScreenIsBacked` (of `Dashboard`) | `DashInv` and `ScreenInv`: every answer under way, and the content kept for a click, was backed when it was read; logs only grow |

**Correlation and health.**

| theorem | states | argument |
|---|---|---|
| `MonitorTypeCorrect` | `TypeOK` | confidences in 0..100 (`ConfidenceRange`) give bounded penalties (`IncidentPenaltiesBound`) and a score in range (`HealthScoreRange`) |
| `OutageIsCritical` | `ActiveOutageIsCritical` | `ActiveOutageScore`: an outage that is not suppressed has a confidence of at least 55, so it costs at least 11 even as a warning; with the 30 of the unreachable database at most 59 is left |
| `ReportedIsNotHealthy` | `IncidentIsNeverHealthy` | `ActiveIncidentScore`: a reported incident costs at least 10, which HEALTHY tolerates. `IncidentHasCompany`, rule by rule, finds the eleventh point: a slow web tier costs 10, long queries 5, an unreachable database 30, and critical evidence that is reported has a confidence of 55 and not 50 |
| `RepeatedOutagesEscalate` | `RepeatedOutageEscalates` | `FreshOutage`: reported with any history, critical with one that was read and knows the type |
| `DiagnosesAlwaysAgree` | `DiagnosesAgree` | a healthy database and no stopped service falsify the premise of each of the other rules (`HealthyDatabase`); `TypesOfRules` names the type each rule yields |
| `SuppressionKept` | `SuppressedStaysSuppressed` | `ReportInv`: the last report comes from the last signals and some history, and a type it suppressed, other than for a history it could not read (`unread`), is remembered now only if that history knew it. `OtherHistory`: rules do not look at the history, so the same signals yield the same types, with a confidence that follows the memory of the type |
| `ReportsNeverWeaken` | `SameSignalsNeverWeaken` | the same two, the other way round, for the types whose history this poll reads; for the others the report does weaken |
| `SloTypeCorrect` | `TypeOK` of `SloTracker` | inductive as it stands |
| `ExhaustedBudgetShows` | `ExhaustedBudgetIsNeverOk` | `ExhaustedIsBelowTarget`: within the window, outages that use up the budget are a larger share of the polls so far than of the window. The budget is rounded to two decimals: `QuotientZero` says what a rounded 0 leaves |
| `UnreachableShows` | `UnreachableSourceShows` | one failure in fewer than 100 polls is over one percent, even rounded (`OneFailureShows`) |

The proof of `ReportedIsNotHealthy` shows what the property hangs on. A
`silent_service_failure` found with snapshots of 121 to 300 seconds, outside
business hours and for the first time, has a confidence of exactly 50; it would be
reported, cost 10 and leave a HEALTHY environment. It cannot happen only because
the loader drops `monitored_databases` (section 5), so that the rule never fires:
`NothingMissing`. Repairing the loader breaks the property; `MonitorSignals` has the
world that would show it.

**The services.** Each is one inductive invariant, a conjunction of named parts.

| theorem | states | the invariant |
|---|---|---|
| `PoolTypeCorrect` | `TypeOK` of `DbService` | inductive as it stands; a waiter is an actor, and what `Serve` does with it depends on which |
| `PoolAccounts` | `ConnectionsAccounted` | `HoldersInv`: a running request holds one connection, another none, and a goroutine that still asks has room for one more. `WaitersInv`: the queue has no repetition and holds exactly those who stand at "wait", so who joins it was not in it, and who leaves, from whatever place (`AnyoneLeaves`), is out of it. `OneMoves`: every step moves one actor |
| `ExhaustedPoolStaysExhausted` | `ExhaustionIsPermanent` | with every connection at a goroutine that waits, no request runs, nothing can be granted or refused, and who releases or notices the flag owns nothing |
| `OrdersTypeCorrect`, `NothingForgotten`, `RepeatsHaveExcuse` | `TypeOK`, `NoneForgotten`, `RepeatsAreExcused` | `WindowInv`: the unsettled deliveries are what the worker is busy with and what it has not taken up, in that order, as long as there is a channel. `QueueInv`: no order is in queue and window twice, none is known before it is published. `HandedInv`: an order handed over without an excuse for a repetition is about to be acknowledged or gone |
| `QueueKeepsPromise` | `PromiseKept` (`Orders` implements `OrderQueue`) | the same invariant; each step maps to an abstract step or to a stutter |
| `InjectorTypeCorrect`, `LimitHolds` | `TypeOK`, `RateHolds` | `LimiterInv`: as long as requests keep out of each other's way in the limiter, the one in it has seen the present, and the counter has counted all that has passed since the window was opened |
| `TriggersTellTruth` | `TriggerTellsTruth` | `SenderInv`: only the injector's requests change a fault. `SaidInv`: for a fault in `sure`, no given-up post is about it while its trigger is under way or after the trigger's OK; the trigger, once done, has set what it was asked, and that stays until the next command |
| `LockoutLasts` | `LockoutIsPermanent` | step-wise from the invariant: a counter that makes the gateway reject every request is advanced by none of them |
| `JobTypeCorrect` | `TypeOK` of `BackgroundJob` | `RoomInv`: the ballast and the chunks that the handlers under way still owe are together at most one full ballast per request begun; the lengths they have loaded are part of the account, because a late store puts an old one back. `StageInv` says what a handler has done where |
| `MemoryInStep` | `MemoryFollowsFlag` | `AloneInv`: a request that has the service to itself has set the flag, emptied the ballast and filled it up to the chunk it has come to |

**Model-checked only.**

* Liveness under fairness, out of the prover's reach as it needs ENABLED:
  `SignalStops`, `CycleIsPublished`, `ScreenCatchesUp`, `RequestsAnswered`,
  `HoldersRelease`, `OrdersSettle`, `CleanupGoesOn`.
* The three claims of section 5 are counterexamples, and need no proof.

No recursive operator is used, and no induction over data is needed: the sums of
penalties are written out over the nine types, the memory of the Qmatic processes
is a fold whose value no theorem depends on.

## 5. Where documents and code disagree

Each of these runs checks one sentence of the repository and TLC shows a behaviour
of the code that contradicts it.

| run | the sentence | the code |
|---|---|---|
| `ClaimJdbcDrop` | README.md:184, `service_stopped_db_drop` is "Windows service stopped + JDBC connections dropped" | the loader builds `PostgresConfig` without `monitored_databases`, the check falls back to an empty list, so this rule and `silent_service_failure` can never fire |
| `PoolReset` | runbooks/db-exhaustion.md:40, "If fault injection is active, reset it" | a goroutine asks for twelve connections of ten in a context without an end and looks at the flag only afterwards; a reset clears the flag and frees nothing, only a restart does |
| `OrdersReset` | runbooks/queue-lag.md:28, "Reset fault injection if active", the immediate action for the symptom "Events not being processed" (line 13) | the consumer ends with its channel and is not started again. TLC pauses the worker, closes the channel while an order waits, switches the pause off for good: the order stays in the queue for ever, with no fault active, a live process and a receiver that answers |

Others were met while reading and modelling and have no run of their own.

In the control plane:

* docs/architecture/overview.md:107, "The failed collector's absence is reflected
  in health scoring": a collection that fails half-way can leave the score at 100
  (collectors/postgres_collector.py:225).
* correlators/correlator.py:234, "No visits recorded during business hours despite
  the system appearing operational": a failed query leaves the zeros it began
  with, so an unreachable database reads as zero visits.
* docs/slo/slo-definitions.md:127, "A failed poll (collector timeout or auth
  failure) does not consume availability error budget": a database that cannot be
  connected to makes the environment CRITICAL, which consumes 60 seconds.
* docs/architecture/overview.md:315, RCA files "are never automatically deleted":
  names that differ in `-` and `_` only share a file within a second.
* docs/slo/slo-definitions.md:35, "99.5% per 30-day window": the accumulators are in
  memory only, a restart forgets the consumed budget; while the process lives it
  never leaves the window (correlators/metrics.py:178).
* `app_layer_issue` counts services as running when nothing is known of the host
  (correlators/correlator.py:495, README.md:187); a saturated pool with a fast API
  raises nothing (correlators/correlator.py:151, docs/slo/slo-definitions.md:79); an
  environment without a Windows host never has a successful poll
  (correlators/metrics.py:155, docs/slo/slo-definitions.md:125).
* A SQL statement may wait for ever (collectors/postgres_collector.py:176,
  integrations/qmatic/qmatic_postgres_checks.py:168-176), and with it the whole loop; a
  signal does not end it.
* One history that cannot be read lowers the severity of a known outage, or
  suppresses a reported incident, for that poll (correlators/confidence.py:54).
* The mean time to repair is read from `mttr_seconds` of the history
  (correlators/metrics.py:287), which nothing writes: it is always 0.

On the pages:

* dashboard/metrics.html:237, `error_budget_remaining||100` shows a budget of 0 as 100.
* A click renders the old page over the error box (dashboard/index.html:283), and of
  two loads under way the one answered later wins, which may be the older page
  (dashboard/index.html:758): `ScreenCatchesUp` says that neither lasts.

In the services:

* Authentication failures are decided by `count % 100 < failRate` with a counter that
  only the rate limiter moves (services/api-gateway/main.go:108): without a limit
  they hit all requests or none, and then also `/fault/reset`, which sits behind the
  same middleware. `LockoutIsPermanent` states it.
* The injector prints "Auth failures active" and "Rate limiting active at N rps"
  after a failed trigger as well (orchestrator/fault_injector.py:94, 131), and logs a
  reset as OK whatever the answer (156, 160). `TriggerTellsTruth` is about the result
  line of `_print_result` alone, the only one that depends on the answer.
* Two requests that overlap in the rate limiter may both pass a limit of one
  (services/api-gateway/main.go:89); `RateHolds` is about requests that do not.
* The webhook post has no timeout (services/queue-worker/main.go:116): one that hangs
  stops the consumer. Orders the receiver always rejects go back in front of the
  queue (services/queue-worker/main.go:126); once they fill the prefetch window
  nothing else is delivered.
* An order is answered "received" although nothing was published
  (services/api-gateway/main.go:155-169).
* `queue_depth` only goes down and is set back to 0 (services/queue-worker/main.go:143),
  so the alert of config/alerting-rules.yml:93 never fires.
* The bodies of the webhook's answers are never closed (services/queue-worker/main.go:116),
  so every post keeps its connection.
* WEBHOOK_URL names a route the gateway does not register (docker-compose.yml:143,
  services/api-gateway/main.go:251): as deployed no delivery succeeds.
* A memory fault that overlaps a reset can leave, or bring back, ballast with the flag
  down (services/background-job/main.go:162-190); `MemoryFollowsFlag` holds only
  between requests that do not overlap.

## 6. Abstractions

* **Worlds.** What a poll finds is a record: database, web checks, Windows host,
  JDBC connections, visits, reports, business hours and age of the snapshots.
  `NoSnap` is Python's `None`: a source that is not configured. An exception inside
  a collector is a smaller `done`.
* **Numbers.** Percentages and latencies are integers. `int(40 * c / 100.0)` is
  `(40 * c) \div 100`, equal for every `c` in 0..100. Rounded figures are integers
  in units of the last digit kept, rounded half up.
* **Time.** Counted in polls or cycles. The age of the two snapshots that recency
  looks at is one number, the older one.
* **One step per poll of an environment.** Collectors and rules write nothing but
  the history, and a rule reads only the entries of its own type, before its own
  append: so all rules can be evaluated first and all appends done after, in order.
* **Files.** Sets of occurrences. A document or log line is present or not; a crash
  in the middle of one is a crash before it, except for `state.json`, whose
  truncation is a step. A torn line of the history is not modelled.
* **Failing accesses to the history.** Every rule that fires opens the file for
  itself. A read that fails, at `open` or at a line that cannot be decoded, is a type
  in `missed`, and its recurrence is 0; one that fails after an entry of its type was
  read counts that entry, like a read that succeeds. A failing append is a type in
  `lost`.
* **Files of the page.** A GET answers with what the file holds at one moment. What
  the renderer draws is the page it was given; the status line is left out.
* **Pool.** `pgxpool` and PostgreSQL are external: waiters are served in the order
  they came, from idle connections first, then new ones; an idle connection may age
  out, a released one may be closed instead of kept.
* **Broker.** RabbitMQ is external: at most the prefetch count unsettled, a closed
  channel puts back what was not settled, a restart drops transient messages.
  The receiver either answers or not, as a whole; besides, it may reject some orders
  always (`Rejected`), and a post to it may last for ever.
  A delivery is identified with its order, and an acknowledgement on a closed
  channel does nothing.
* **Go memory.** Handlers are goroutines; every atomic operation is a step. An append
  to the shared slice is a load and a store, which is what the race can yield for the
  length of the slice; torn slice headers are not modelled.
* **Left out.** Texts of documents and alerts, transactions per second, the mean
  time to repair and the suppression rate, `collect_long_jobs` (no caller), the
  checks that need a rolling average (never given one), YAML parsing and secrets,
  Prometheus metrics, what a job stores in Redis.

**Not modelled.**

* The latency, lag and TLS faults: they delay a step, which may be delayed anyway
  here, or are only logged.
* The triggers of the injector for the other services: the same call to another
  address; what they do is in the modules of those services. Its status command
  only reads.
* `dashboard/metrics.html`: a formatter of `logs/metrics.jsonl` without a state.
* Durations: how long a cycle takes when collectors time out, and with it the
  detection latency of docs/slo/slo-definitions.md. Every cycle here may take as
  long as it likes.
* A torn line of the history (the append counts as failed, the entry it swallows is
  not accounted for).
* An exception out of `HISTORY_FILE.exists()`, or out of a rule that the engine
  catches (correlators/correlator.py:648): that rule then yields no incident.
* The empty orchestrator files and the deployment files.

## 7. What is left

All modules of the plan are written and every safety property that a run checks is
proved. What could follow:

1. The safety halves of the liveness properties, such as a bound on the steps between
   a signal and the end of the process.
2. Lemmas that compare two environments: that more evidence never lowers a confidence,
   that a worse snapshot never raises the health score.
3. The last hazards without a property: the torn line of the incident history, the
   zeros of a failed activity query, the drift of the polling interval.
