----------------------------- MODULE Collectors -----------------------------
(***************************************************************************)
(* The collectors of the control plane as functions from what they meet in *)
(* an environment (raw observations) to the snapshots the correlator reads.*)
(* A collection that stops half-way keeps what it had read so far: `done`  *)
(* counts the stages that completed.  Percentages and latencies are        *)
(* integers, a duration is a number of seconds, NoSnap is Python's None.   *)
(***************************************************************************)
EXTENDS Integers, FiniteSets

LOCAL Sets == INSTANCE FiniteSetsExt

CONSTANTS
  NoSnap,
  ConnWarn, ConnCrit,        \* postgres thresholds.connection_pct_*
  LongSecs,                  \* postgres thresholds.long_query_seconds
  WarnLatency, CritLatency,  \* http_checks[*].*_latency_ms
  MemWarn, MemCrit,          \* windows thresholds.server_memory_*_pct
  HeapWarn, HeapCrit,        \* windows thresholds.jvm_heap_*_pct
  ConfigXmx,                 \* windows.qmatic_jvm_heap_max_mb, 0 if absent
  MinVisits,                 \* activity_checks.min_visits_per_hour_...
  Carryover                  \* reporting_checks.carryover_detection

ASSUME CollectorsAssumption ==
  /\ {ConnWarn, ConnCrit, LongSecs, WarnLatency, CritLatency, MemWarn, MemCrit,
      HeapWarn, HeapCrit, ConfigXmx, MinVisits} \subseteq Nat
  /\ Carryover \in BOOLEAN

Severities == {"ok", "warning", "critical"}

\* Every collector grades a set of severities by its worst member.
Worst(S) == IF "critical" \in S THEN "critical"
            ELSE IF "warning" \in S THEN "warning" ELSE "ok"

Grade(value, warn, crit) == IF value >= crit THEN "critical"
                            ELSE IF value >= warn THEN "warning" ELSE "ok"
-----------------------------------------------------------------------------
(***************************************************************************)
(* PostgreSQL.  Stages: connect, connection count, long-running queries,   *)
(* blocked queries, database statistics.  A refused connection is the only *)
(* failure that leaves `available` FALSE.                                  *)
(***************************************************************************)
PgSeverity(pct, long, blocked) ==
  Worst({Grade(pct, ConnWarn, ConnCrit),
         IF \E q \in long : q > 2 * LongSecs THEN "critical"
         ELSE IF long # {} THEN "warning" ELSE "ok",
         Grade(blocked, 1, 3)})

CollectPg(db) ==
  LET pct     == IF db.done >= 2 THEN db.pct ELSE 0
      long    == IF db.done >= 3 THEN {q \in db.queries : q > LongSecs} ELSE {}
      blocked == IF db.done >= 4 THEN db.blocked ELSE 0
  IN  [available |-> db.done >= 1,
       pct       |-> pct,
       long      |-> long,
       blocked   |-> blocked,
       severity  |-> IF db.done = 5 THEN PgSeverity(pct, long, blocked) ELSE "critical"]
-----------------------------------------------------------------------------
(***************************************************************************)
(* HTTP: the sequence of the configured checks' results.  A timeout and a  *)
(* refused connection look the same: unreachable, latency 0.               *)
(***************************************************************************)
CheckOne(c) ==
  [reachable |-> c.reachable,
   latency   |-> IF c.reachable THEN c.latency ELSE 0,
   severity  |-> IF c.reachable /\ c.statusOk
                 THEN Grade(c.latency, WarnLatency, CritLatency)
                 ELSE "critical"]

CollectHttp(checks) == [n \in DOMAIN checks |-> CheckOne(checks[n])]

OverallSeverity(http) == Worst({http[n].severity : n \in DOMAIN http})

AllReachable(http) == \A n \in DOMAIN http : http[n].reachable
-----------------------------------------------------------------------------
(***************************************************************************)
(* Windows host.  Stages: server memory (a missing password fails here     *)
(* too), service list.  Process memory and the -Xmx command lines are read *)
(* for services with a process (pid > 0), also while they start or stop;   *)
(* losing either one is tolerated.  A heap ceiling is what was detected,   *)
(* else the configured one, else all RAM.                                  *)
(***************************************************************************)
XmxOf(w, s) ==
  CASE ~w.xmxOk \/ (\A t \in DOMAIN w.services : ~w.services[t].process) -> 0
    [] w.xmxOk /\ w.services[s].process /\ w.services[s].xmx > 0 -> w.services[s].xmx
    [] OTHER -> IF ConfigXmx > 0 THEN ConfigXmx ELSE w.total

MemoryOf(w, s) == IF w.procOk /\ w.services[s].process THEN w.services[s].memory ELSE 0

\* Tenths of a percent, rounded as round(x, 1) does; 0 when either part is unknown.
HeapTenths(w, s) ==
  LET xmx == XmxOf(w, s)
  IN  IF xmx > 0 /\ MemoryOf(w, s) > 0
      THEN (2000 * MemoryOf(w, s) + xmx) \div (2 * xmx)
      ELSE 0

CollectService(w, s) ==
  [running |-> w.services[s].running,
   heap    |-> IF HeapTenths(w, s) = 0 THEN "ok"
               ELSE Grade(HeapTenths(w, s), 10 * HeapWarn, 10 * HeapCrit)]

CollectWindows(w) ==
  LET listed == IF w.done = 2 THEN DOMAIN w.services ELSE {}
  IN  [available |-> w.done = 2,
       total     |-> IF w.done >= 1 THEN w.total ELSE 0,
       memory    |-> IF w.done = 2 THEN Grade(w.memPct, MemWarn, MemCrit) ELSE "ok",
       qmatic    |-> Sets!MapThenSumSet(LAMBDA s : MemoryOf(w, s), listed),
       services  |-> [s \in listed |-> CollectService(w, s)]]

Stopped(win) == {s \in DOMAIN win.services : ~win.services[s].running}
-----------------------------------------------------------------------------
(***************************************************************************)
(* Qmatic checks.  The loader builds PostgresConfig without the YAML's     *)
(* monitored_databases, so the getattr default [] is what the check sees.  *)
(* A failed query leaves an empty snapshot, not an unavailable one.        *)
(***************************************************************************)
MonitoredDatabases == {}

MissingServices(jdbc) == IF jdbc.ok THEN MonitoredDatabases \intersect jdbc.idle ELSE {}

QueueActivity(q) ==
  [total     |-> IF q.done >= 1 THEN q.total ELSE 0,
   delivered |-> IF q.done >= 1 THEN q.delivered ELSE 0,
   branches  |-> IF q.done >= 2 THEN q.branches ELSE 0]

ActivityAnomalies(a, biz) ==
  {k \in {"zero_activity", "unexpected_silence"} :
     /\ biz
     /\ k = "zero_activity" => a.delivered = 0
     /\ k = "unexpected_silence" => a.total > 0 /\ a.total < MinVisits /\ a.branches = 0}

ReportingAnomalies(r) ==
  {k \in {"duplicate_visit_ids", "carryover_counts"} :
     /\ k = "duplicate_visit_ids" => r.done >= 1 /\ r.duplicates
     /\ k = "carryover_counts" => r.done >= 2 /\ r.carryover /\ Carryover}
=============================================================================
