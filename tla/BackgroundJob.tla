---------------------------- MODULE BackgroundJob ----------------------------
(***************************************************************************)
(* services/background-job: the memory fault and its reset, handled by     *)
(* goroutines that share a slice without a lock, and the scheduler that    *)
(* runs a cleanup slowly while the fault is active.                        *)
(*                                                                         *)
(* The ballast is counted in chunks.  An append loads the slice and stores *)
(* the longer one; two handlers may do so at once, so an update can be     *)
(* lost or come after a reset.                                             *)
(***************************************************************************)
EXTENDS Naturals

CONSTANTS
  Handlers,  \* requests that may be in progress at once
  Chunks,    \* chunks of the ballast (256)
  MaxBegun   \* bound on the number of requests

ASSUME JobAssumption == Chunks \in Nat \ {0} /\ MaxBegun \in Nat

VARIABLES
  pressure,   \* faultMemoryPressure
  ballast,    \* length of memoryBallast
  begun,      \* number of requests begun
  handler,    \* per handler: what it does next, chunks done, length loaded
  scheduler,  \* where the scheduler stands
  due,        \* the jobs whose ticker has fired; a ticker holds one tick
  clean       \* no two handlers that write have overlapped since all were idle

vars == <<pressure, ballast, begun, handler, scheduler, due, clean>>

Off == [at |-> "off", done |-> 0, len |-> 0]

At(h, at) == handler' = [handler EXCEPT ![h].at = at]

AllIdle == \A h \in Handlers : handler[h] = Off

Init ==
  /\ pressure = FALSE /\ ballast = 0 /\ begun = 0
  /\ handler = [h \in Handlers |-> Off]
  /\ scheduler = "select" /\ due = {}
  /\ clean = TRUE

jobs == <<scheduler, due>>
-----------------------------------------------------------------------------
(***************************************************************************)
(* faultMemoryHandler and faultResetHandler.                               *)
(***************************************************************************)
Request(h, at) ==
  /\ handler[h] = Off /\ begun < MaxBegun
  /\ At(h, at) /\ begun' = begun + 1
  /\ clean' = AllIdle
  /\ UNCHANGED <<pressure, ballast, jobs>>

Enable(h) == Request(h, "enable")

\* enable=false and reset do the same.
Reset(h) == Request(h, "reset")

RaiseFlag(h) ==
  /\ handler[h].at = "enable"
  /\ pressure' = TRUE
  /\ At(h, "make")
  /\ UNCHANGED <<ballast, begun, jobs, clean>>

\* Mutant: the ballast of an earlier request is kept.
MakeOnce(h) ==
  /\ handler[h].at = "make"
  /\ At(h, "load")
  /\ UNCHANGED <<pressure, ballast, begun, jobs, clean>>

Make(h) ==
  /\ handler[h].at = "make"
  /\ ballast' = 0
  /\ At(h, "load")
  /\ UNCHANGED <<pressure, begun, jobs, clean>>

\* append(memoryBallast, chunk): the slice is loaded ...
LoadBallast(h) ==
  /\ handler[h].at = "load"
  /\ handler' = [handler EXCEPT ![h].at = "store", ![h].len = ballast]
  /\ UNCHANGED <<pressure, ballast, begun, jobs, clean>>

\* Mutant: one chunk too many.
StoreBallastAgain(h) ==
  /\ handler[h].at = "store"
  /\ ballast' = handler[h].len + 1
  /\ handler' = [handler EXCEPT ![h] = IF @.done = Chunks THEN Off
                                        ELSE [at |-> "load", done |-> @.done + 1, len |-> 0]]
  /\ UNCHANGED <<pressure, begun, jobs, clean>>

\* ... and the longer one stored.
StoreBallast(h) ==
  /\ handler[h].at = "store"
  /\ ballast' = handler[h].len + 1
  /\ handler' = [handler EXCEPT ![h] = IF @.done + 1 = Chunks THEN Off
                                        ELSE [at |-> "load", done |-> @.done + 1, len |-> 0]]
  /\ UNCHANGED <<pressure, begun, jobs, clean>>

ClearFlag(h) ==
  /\ handler[h].at = "reset"
  /\ pressure' = FALSE
  /\ At(h, "drop")
  /\ UNCHANGED <<ballast, begun, jobs, clean>>

Drop(h) ==
  /\ handler[h].at = "drop"
  /\ ballast' = 0
  /\ handler' = [handler EXCEPT ![h] = Off]
  /\ UNCHANGED <<pressure, begun, jobs, clean>>
-----------------------------------------------------------------------------
(***************************************************************************)
(* scheduler, runCleanupJob and runMetricsJob.  Whether Redis answers a    *)
(* job or not only decides which counter goes up.                          *)
(***************************************************************************)
Tick(job) ==
  /\ due' = due \cup {job}
  /\ UNCHANGED <<pressure, ballast, begun, handler, scheduler, clean>>

PickCleanup ==
  /\ scheduler = "select" /\ "cleanup" \in due
  /\ due' = due \ {"cleanup"}
  /\ scheduler' = IF pressure THEN "sleep" ELSE "cleanup"
  /\ UNCHANGED <<pressure, ballast, begun, handler, clean>>

PickMetrics ==
  /\ scheduler = "select" /\ "metrics" \in due
  /\ due' = due \ {"metrics"}
  /\ UNCHANGED <<pressure, ballast, begun, handler, scheduler, clean>>

\* Mutant: under memory pressure the job waits for the pressure to end.
WakeRelieved ==
  /\ scheduler = "sleep" /\ ~pressure
  /\ scheduler' = "cleanup"
  /\ UNCHANGED <<pressure, ballast, begun, handler, due, clean>>

\* Five seconds later, whatever the memory is like.
Wake ==
  /\ scheduler = "sleep"
  /\ scheduler' = "cleanup"
  /\ UNCHANGED <<pressure, ballast, begun, handler, due, clean>>

RunCleanup ==
  /\ scheduler = "cleanup"
  /\ scheduler' = "select"
  /\ UNCHANGED <<pressure, ballast, begun, handler, due, clean>>

Step(h) ==
  RaiseFlag(h) \/ Make(h) \/ LoadBallast(h) \/ StoreBallast(h) \/ ClearFlag(h) \/ Drop(h)

Next ==
  \/ \E h \in Handlers : Enable(h) \/ Reset(h) \/ Step(h)
  \/ \E job \in {"cleanup", "metrics"} : Tick(job)
  \/ PickCleanup \/ PickMetrics \/ Wake \/ RunCleanup

Spec == Init /\ [][Next]_vars

\* The tickers go on, sleeps and jobs end, and select, which chooses at random
\* among what is ready, does not pass over a job for ever.
FairSpec ==
  Spec /\ WF_vars(Tick("cleanup")) /\ SF_vars(PickCleanup) /\ WF_vars(PickMetrics)
       /\ WF_vars(Wake) /\ WF_vars(RunCleanup)
-----------------------------------------------------------------------------
(***************************************************************************)
(* Properties.                                                             *)
(***************************************************************************)
\* The variables stay in their domains.  Overlapping requests may pile up one
\* ballast each; no smaller bound holds, for a store that comes late brings
\* back what a later request has already let go.
TypeOK ==
  /\ pressure \in BOOLEAN /\ clean \in BOOLEAN /\ begun \in 0..MaxBegun
  /\ ballast \in 0..Chunks * begun
  /\ handler \in [Handlers -> [at : {"off", "enable", "make", "load", "store", "reset", "drop"},
                               done : 0..Chunks - 1, len : 0..Chunks * begun]]
  /\ scheduler \in {"select", "sleep", "cleanup"} /\ due \subseteq {"cleanup", "metrics"}

\* Requests that do not overlap leave the flag and the memory in step.
MemoryFollowsFlag ==
  AllIdle /\ clean => ballast = IF pressure THEN Chunks ELSE 0

\* The memory fault slows the cleanup down but does not stop it.
CleanupGoesOn == []<>(scheduler = "cleanup")
=============================================================================
