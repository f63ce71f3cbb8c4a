----------------------------- MODULE ApiGateway -----------------------------
(***************************************************************************)
(* services/api-gateway: the middleware every request goes through (rate   *)
(* limit, injected authentication failures) and the handlers behind it,    *)
(* the fault handlers among them.                                          *)
(*                                                                         *)
(* Every load, store and add of an atomic is a step of its own.  Time is   *)
(* counted in ticks longer than the one-second window.  Latency and TLS    *)
(* faults only delay or are only logged, and are left out.                 *)
(***************************************************************************)
EXTENDS Naturals, FiniteSetsExt

CONSTANTS
  Slots,      \* requests that may be in progress at once
  Limits,     \* values rps may be set to
  Percents,   \* values pct may be set to
  MaxNow,     \* bound on the clock
  MaxCount    \* bound on the request counter

ASSUME GatewayAssumption ==
  /\ Limits \subseteq Nat /\ IsFiniteSet(Limits) /\ Percents \subseteq Nat
  /\ MaxNow \in Nat \ {0} /\ MaxCount \in Nat \ {0}

VARIABLES
  request,      \* per slot: the request and where it stands
  limit,        \* faultRateLimitRPS
  authPct,      \* faultAuthFailRate
  counter,      \* requestCounter, also read where failures are injected
  windowStart,
  now,
  passed,       \* requests the limiter has let through since the last tick
  alone         \* no two of them were in the limiter at once since then

gateway == <<request, limit, authPct, counter, windowStart, now, passed, alone>>

Ops == {[op |-> "order", value |-> 0], [op |-> "reset", value |-> 0]}
         \cup [op : {"limit"}, value : Limits] \cup [op : {"auth"}, value : Percents]

\* Who sent a request does not matter to the gateway.
Free == [at |-> "free", from |-> "none", op |-> "none", value |-> 0, seen |-> 0, arg |-> 0]

GatewayInit ==
  /\ request = [s \in Slots |-> Free]
  /\ limit = 0 /\ authPct = 0 /\ counter = 0 /\ windowStart = 0
  /\ now = 1 /\ passed = 0 /\ alone = TRUE

InLimiter(s) == request[s].at \in {"clock", "window", "store", "zero", "count"}

\* Where the request of s goes next, with what it has loaded.
Go(s, at, seen, arg) ==
  request' = [request EXCEPT ![s].at = at, ![s].seen = seen, ![s].arg = arg]

Send(s, from, r) ==
  /\ request[s].at = "free"
  /\ request' = [request EXCEPT ![s] =
       [at |-> "limit", from |-> from, op |-> r.op, value |-> r.value, seen |-> 0, arg |-> 0]]
  /\ UNCHANGED <<limit, authPct, counter, windowStart, now, passed, alone>>
-----------------------------------------------------------------------------
(***************************************************************************)
(* metricsMiddleware.                                                      *)
(***************************************************************************)
LoadLimit(s) ==
  /\ request[s].at = "limit"
  /\ IF limit > 0 THEN Go(s, "clock", 0, limit) ELSE Go(s, "auth", 0, 0)
  /\ alone' = (alone /\ (limit > 0 => \A t \in Slots \ {s} : ~InLimiter(t)))
  /\ UNCHANGED <<limit, authPct, counter, windowStart, now, passed>>

ReadClock(s) ==
  /\ request[s].at = "clock"
  /\ Go(s, "window", now, request[s].arg)
  /\ UNCHANGED <<limit, authPct, counter, windowStart, now, passed, alone>>

\* Mutant: the window never lasts.
CheckWindowAlways(s) ==
  /\ request[s].at = "window"
  /\ Go(s, IF request[s].seen >= windowStart THEN "store" ELSE "count",
        request[s].seen, request[s].arg)
  /\ UNCHANGED <<limit, authPct, counter, windowStart, now, passed, alone>>

\* now - windowStart > 1 second, with the time this request has seen.
CheckWindow(s) ==
  /\ request[s].at = "window"
  /\ Go(s, IF request[s].seen > windowStart THEN "store" ELSE "count",
        request[s].seen, request[s].arg)
  /\ UNCHANGED <<limit, authPct, counter, windowStart, now, passed, alone>>

\* Mutant: the end of the window is stored.
StoreWindowEnd(s) ==
  /\ request[s].at = "store"
  /\ windowStart' = request[s].seen + 1
  /\ Go(s, "zero", 0, request[s].arg)
  /\ UNCHANGED <<limit, authPct, counter, now, passed, alone>>

StoreWindow(s) ==
  /\ request[s].at = "store"
  /\ windowStart' = request[s].seen
  /\ Go(s, "zero", 0, request[s].arg)
  /\ UNCHANGED <<limit, authPct, counter, now, passed, alone>>

ZeroCounter(s) ==
  /\ request[s].at = "zero"
  /\ counter' = 0
  /\ Go(s, "count", 0, request[s].arg)
  /\ UNCHANGED <<limit, authPct, windowStart, now, passed, alone>>

Count(s) ==
  /\ request[s].at = "count" /\ counter < MaxCount
  /\ counter' = counter + 1
  /\ IF counter' > request[s].arg
       THEN Go(s, "limited", 0, 0) /\ UNCHANGED passed
       ELSE Go(s, "auth", 0, 0) /\ passed' = passed + 1
  /\ UNCHANGED <<limit, authPct, windowStart, now, alone>>

LoadAuth(s) ==
  /\ request[s].at = "auth"
  /\ IF authPct > 0 THEN Go(s, "reject", 0, authPct) ELSE Go(s, "handle", 0, 0)
  /\ UNCHANGED <<limit, authPct, counter, windowStart, now, passed, alone>>

\* Mutant: requests without failure injection are counted as well.
RejectCounting(s) ==
  /\ request[s].at = "reject" /\ counter < MaxCount
  /\ counter' = counter + 1
  /\ Go(s, IF counter % 100 < request[s].arg THEN "unauthorized" ELSE "handle", 0, 0)
  /\ UNCHANGED <<limit, authPct, windowStart, now, passed, alone>>

\* The counter decides, which only the rate limiter moves.
Reject(s) ==
  /\ request[s].at = "reject"
  /\ Go(s, IF counter % 100 < request[s].arg THEN "unauthorized" ELSE "handle", 0, 0)
  /\ UNCHANGED <<limit, authPct, counter, windowStart, now, passed, alone>>
-----------------------------------------------------------------------------
(***************************************************************************)
(* The handlers.  A reset stores one flag after the other.                 *)
(***************************************************************************)
HandleOrder(s) ==
  /\ request[s].at = "handle" /\ request[s].op = "order"
  /\ Go(s, "ok", 0, 0)
  /\ UNCHANGED <<limit, authPct, counter, windowStart, now, passed, alone>>

FaultAuth(s) ==
  /\ request[s].at = "handle" /\ request[s].op = "auth"
  /\ authPct' = request[s].value
  /\ Go(s, "ok", 0, 0)
  /\ UNCHANGED <<limit, counter, windowStart, now, passed, alone>>

FaultRateLimit(s) ==
  /\ request[s].at = "handle" /\ request[s].op = "limit"
  /\ limit' = request[s].value
  /\ Go(s, "ok", 0, 0)
  /\ UNCHANGED <<authPct, counter, windowStart, now, passed, alone>>

ResetAuth(s) ==
  /\ request[s].at = "handle" /\ request[s].op = "reset"
  /\ authPct' = 0
  /\ Go(s, "reset", 0, 0)
  /\ UNCHANGED <<limit, counter, windowStart, now, passed, alone>>

ResetLimit(s) ==
  /\ request[s].at = "reset"
  /\ limit' = 0
  /\ Go(s, "ok", 0, 0)
  /\ UNCHANGED <<authPct, counter, windowStart, now, passed, alone>>

Answers == {"ok", "limited", "unauthorized"}

\* The answer leaves, whether or not somebody still waits for it.
Answer(s) ==
  /\ request[s].at \in Answers
  /\ request' = [request EXCEPT ![s] = Free]
  /\ UNCHANGED <<limit, authPct, counter, windowStart, now, passed, alone>>

Tick ==
  /\ now < MaxNow
  /\ now' = now + 1 /\ passed' = 0
  /\ alone' = \A s \in Slots : ~InLimiter(s)
  /\ UNCHANGED <<request, limit, authPct, counter, windowStart>>

GatewayRestart ==
  /\ request' = [s \in Slots |-> Free]
  /\ limit' = 0 /\ authPct' = 0 /\ counter' = 0 /\ windowStart' = 0
  /\ passed' = 0 /\ alone' = TRUE
  /\ UNCHANGED now

Handle(s) ==
  \/ LoadLimit(s) \/ ReadClock(s) \/ CheckWindow(s) \/ StoreWindow(s) \/ ZeroCounter(s) \/ Count(s)
  \/ LoadAuth(s) \/ Reject(s)
  \/ HandleOrder(s) \/ FaultAuth(s) \/ FaultRateLimit(s) \/ ResetAuth(s) \/ ResetLimit(s)
-----------------------------------------------------------------------------
(***************************************************************************)
(* Properties of the gateway.                                              *)
(***************************************************************************)
Requests == [at : {"free", "limit", "clock", "window", "store", "zero", "count", "auth", "reject",
                   "handle", "reset"} \cup Answers,
             from : {"none", "client", "injector"},
             op : {"none", "order", "reset", "limit", "auth"},
             value : {0} \cup Limits \cup Percents,
             seen : 0..MaxNow, arg : {0} \cup Limits \cup Percents]

GatewayTypeOK ==
  /\ request \in [Slots -> Requests]
  /\ limit \in {0} \cup Limits /\ authPct \in {0} \cup Percents
  /\ counter \in 0..MaxCount /\ windowStart \in 0..MaxNow /\ now \in 1..MaxNow
  /\ passed \in Nat /\ alone \in BOOLEAN

\* Requests that do not overlap in the limiter respect the limit between two
\* ticks, also when the limit is set or reset in between; overlapping ones may
\* each open the window again.
RateHolds == alone => passed <= Max({0} \cup Limits)

\* The request in s has nothing left that could change a fault: it is still in
\* front of the check that rejects it.
Harmless(s) ==
  \/ request[s].at \in {"free", "limit", "auth"} \cup Answers
  \/ request[s].at = "reject" /\ counter % 100 < request[s].arg
  \/ request[s].op = "order" /\ ~InLimiter(s)

\* Failures are injected, no rate limit moves the counter, and it stands below
\* the percentage.
LockedOut ==
  /\ limit = 0 /\ counter % 100 < authPct
  /\ \A s \in Slots : Harmless(s)
=============================================================================
