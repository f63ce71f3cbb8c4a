----------------------------- MODULE DbService -----------------------------
(***************************************************************************)
(* services/db-service: a connection pool, the requests that take a        *)
(* connection from it and the fault that exhausts it.                      *)
(*                                                                         *)
(* A handler is a request with at most two statements; each takes a        *)
(* connection, uses it and gives it back.  Every enabling of the exhaustion *)
(* fault starts a goroutine that asks for Wanted connections (12, of a     *)
(* pool of 10) before it looks at the flag that reset clears.              *)
(***************************************************************************)
EXTENDS Naturals, SequencesExt

CONSTANTS
  Conns,        \* the connections a pool may have open, MaxConns of them
  MinConns,     \* the pool opens connections by itself below this number
  Requests,     \* requests that may be in progress at once
  Injections,   \* exhaustion goroutines that may exist at once
  Wanted        \* connections such a goroutine asks for

ASSUME DbAssumption ==
  /\ IsFiniteSet(Conns) /\ Conns # {}
  /\ MinConns \in 0..Cardinality(Conns) /\ Wanted \in Nat \ {0}
  /\ Requests \cap Injections = {}
  /\ {"idle", "closed"} \cap (Requests \cup Injections) = {}

VARIABLES
  postgres,   \* does the database accept connections?
  owner,      \* per connection: who holds it, or "idle" or "closed"
  waiting,    \* who waits in Acquire, in the order of arrival
  request,    \* per request: what it does, which statement, how far that is
  goroutine,  \* per exhaustion goroutine: where it stands
  exhaust,    \* faultExhaustPool
  slow        \* faultSlowQueryMs > 0

vars == <<postgres, owner, waiting, request, goroutine, exhaust, slow>>

Held(a) == {c \in Conns : owner[c] = a}

Idle == Held("idle")
Closed == Held("closed")

NoRequest == [deadline |-> FALSE, stage |-> "last", at |-> "none"]

\* initPool returns once a connection has answered a ping.
Init ==
  /\ postgres = TRUE
  /\ \E c \in Conns : owner = [d \in Conns |-> IF d = c THEN "idle" ELSE "closed"]
  /\ waiting = <<>>
  /\ request = [r \in Requests |-> NoRequest]
  /\ goroutine = [i \in Injections |-> "off"]
  /\ exhaust = FALSE /\ slow = FALSE
-----------------------------------------------------------------------------
(***************************************************************************)
(* The handlers of requests.                                               *)
(***************************************************************************)
\* queryHandler, insertHandler or healthHandler begins and asks the pool for
\* a connection; a slow query first sleeps on a connection of its own.
Begin(r, kind) ==
  /\ request[r].at = "none"
  /\ request' = [request EXCEPT ![r] =
       [deadline |-> kind = "health", at |-> "wait",
        stage |-> IF kind = "query" /\ slow THEN "slow" ELSE "last"]]
  /\ waiting' = Append(waiting, r)
  /\ UNCHANGED <<postgres, owner, goroutine, exhaust, slow>>

\* What a statement that is over leaves to do: the query after the sleep,
\* even if the sleep failed, or nothing.
After(q) == IF q.stage = "slow" THEN [q EXCEPT !.stage = "last", !.at = "wait"] ELSE NoRequest

\* Mutant: the connection of the sleep is kept while the query asks for one.
FinishKeepingSleep(r, ok) ==
  /\ request[r].at = "run"
  /\ ok => postgres
  /\ owner' = [c \in Conns |-> IF owner[c] = r /\ request[r].stage = "last"
                                 THEN IF ok THEN "idle" ELSE "closed" ELSE owner[c]]
  /\ request' = [request EXCEPT ![r] = After(@)]
  /\ waiting' = IF request'[r].at = "wait" THEN Append(waiting, r) ELSE waiting
  /\ UNCHANGED <<postgres, goroutine, exhaust, slow>>

\* A statement is answered, or its connection breaks and is thrown away.
Finish(r, ok) ==
  /\ request[r].at = "run"
  /\ ok => postgres
  /\ owner' = [c \in Conns |-> IF owner[c] = r THEN IF ok THEN "idle" ELSE "closed" ELSE owner[c]]
  /\ request' = [request EXCEPT ![r] = After(@)]
  /\ waiting' = IF request'[r].at = "wait" THEN Append(waiting, r) ELSE waiting
  /\ UNCHANGED <<postgres, goroutine, exhaust, slow>>

\* The queue without a, who is in it once if at all.
Without(q, a) ==
  IF \E k \in DOMAIN q : q[k] = a THEN RemoveAt(q, CHOOSE k \in DOMAIN q : q[k] = a) ELSE q

\* Mutant: what the request was doing survives it.
EndContextOnly(r) ==
  /\ request' = [request EXCEPT ![r].at = "none"]
  /\ waiting' = Without(waiting, r)
  /\ owner' = [c \in Conns |-> IF owner[c] = r THEN "closed" ELSE owner[c]]
  /\ UNCHANGED <<postgres, goroutine, exhaust, slow>>

\* The context of a request ends: all that is left of it fails at once, the
\* connection it uses is closed.
EndContext(r) ==
  /\ request' = [request EXCEPT ![r] = NoRequest]
  /\ waiting' = Without(waiting, r)
  /\ owner' = [c \in Conns |-> IF owner[c] = r THEN "closed" ELSE owner[c]]
  /\ UNCHANGED <<postgres, goroutine, exhaust, slow>>

ClientLeaves(r) == request[r].at # "none" /\ EndContext(r)

\* Only the health check has a deadline of its own, two seconds.
Timeout(r) ==
  /\ request[r].deadline
  /\ EndContext(r)
-----------------------------------------------------------------------------
(***************************************************************************)
(* The pool (pgxpool): waiters are served in the order they came.          *)
(***************************************************************************)
\* The waiter at the head gets c.
Grant(c) ==
  LET a == Head(waiting) IN
  /\ owner' = [owner EXCEPT ![c] = a]
  /\ waiting' = Tail(waiting)
  /\ IF a \in Requests
       THEN /\ request' = [request EXCEPT ![a].at = "run"]
            /\ UNCHANGED goroutine
       ELSE /\ goroutine' = [goroutine EXCEPT ![a] =
                 IF Cardinality(Held(a)) + 1 = Wanted THEN "hold" ELSE "acquire"]
            /\ UNCHANGED request
  /\ UNCHANGED <<postgres, exhaust, slow>>

\* ... or an error: its statement fails, a goroutine breaks out of its loop.
Refuse ==
  LET a == Head(waiting) IN
  /\ IF a \in Requests
       THEN /\ request' = [request EXCEPT ![a] = After(@)]
            /\ waiting' = IF request'[a].at = "wait" THEN Append(Tail(waiting), a) ELSE Tail(waiting)
            /\ UNCHANGED goroutine
       ELSE /\ goroutine' = [goroutine EXCEPT ![a] = "hold"]
            /\ waiting' = Tail(waiting)
            /\ UNCHANGED request
  /\ UNCHANGED <<postgres, owner, exhaust, slow>>

\* An idle connection if there is one, else a new one if there is room.
Serve ==
  /\ waiting # <<>>
  /\ \/ \E c \in Idle : Grant(c)
     \/ Idle = {} /\ postgres /\ \E c \in Closed : Grant(c)
     \/ Idle = {} /\ ~postgres /\ Closed # {} /\ Refuse

\* Idle connections age out; below MinConns new ones are opened.
Retire(c) ==
  /\ c \in Idle
  /\ owner' = [owner EXCEPT ![c] = "closed"]
  /\ UNCHANGED <<postgres, waiting, request, goroutine, exhaust, slow>>

Refill(c) ==
  /\ postgres /\ c \in Closed /\ Cardinality(Conns \ Closed) < MinConns
  /\ owner' = [owner EXCEPT ![c] = "idle"]
  /\ UNCHANGED <<postgres, waiting, request, goroutine, exhaust, slow>>

Outage ==
  /\ postgres' = ~postgres
  /\ UNCHANGED <<owner, waiting, request, goroutine, exhaust, slow>>
-----------------------------------------------------------------------------
(***************************************************************************)
(* Fault injection.                                                        *)
(***************************************************************************)
\* faultExhaustHandler with enable=true.
Exhaust(i) ==
  /\ goroutine[i] = "off"
  /\ exhaust' = TRUE
  /\ goroutine' = [goroutine EXCEPT ![i] = "acquire"]
  /\ UNCHANGED <<postgres, owner, waiting, request, slow>>

\* pool.Acquire(context.Background()): no deadline, no look at the flag.
Ask(i) ==
  /\ goroutine[i] = "acquire"
  /\ goroutine' = [goroutine EXCEPT ![i] = "wait"]
  /\ waiting' = Append(waiting, i)
  /\ UNCHANGED <<postgres, owner, request, exhaust, slow>>

\* The poll of the flag, every 500 ms, in a critical section of exhaustMu
\* that also spans the releases.
Notice(i) ==
  /\ goroutine[i] = "hold" /\ ~exhaust
  /\ \A j \in Injections : goroutine[j] # "release"
  /\ goroutine' = [goroutine EXCEPT ![i] = "release"]
  /\ UNCHANGED <<postgres, owner, waiting, request, exhaust, slow>>

\* Mutant: the first connection is forgotten.
ReleaseOthers(i) ==
  /\ goroutine[i] = "release"
  /\ \/ /\ Cardinality(Held(i)) <= 1
        /\ goroutine' = [goroutine EXCEPT ![i] = "off"]
        /\ UNCHANGED owner
     \/ \E c \in Held(i), to \in {"idle", "closed"} :
          /\ owner' = [owner EXCEPT ![c] = to]
          /\ UNCHANGED goroutine
  /\ UNCHANGED <<postgres, waiting, request, exhaust, slow>>

\* c.Release() for the next connection; the pool keeps it or, past its
\* lifetime, closes it.  After the last one the goroutine ends.
Release(i) ==
  /\ goroutine[i] = "release"
  /\ \/ /\ Held(i) = {}
        /\ goroutine' = [goroutine EXCEPT ![i] = "off"]
        /\ UNCHANGED owner
     \/ \E c \in Held(i), to \in {"idle", "closed"} :
          /\ owner' = [owner EXCEPT ![c] = to]
          /\ UNCHANGED goroutine
  /\ UNCHANGED <<postgres, waiting, request, exhaust, slow>>

\* faultExhaustHandler with enable=false.
Disable ==
  /\ exhaust' = FALSE
  /\ UNCHANGED <<postgres, owner, waiting, request, goroutine, slow>>

SlowQuery(on) ==
  /\ slow' = on
  /\ UNCHANGED <<postgres, owner, waiting, request, goroutine, exhaust>>

\* Mutant: reset cancels the context the goroutines wait with.
ResetCancelling ==
  /\ exhaust' = FALSE /\ slow' = FALSE
  /\ goroutine' = [i \in Injections |-> IF goroutine[i] = "wait" THEN "hold" ELSE goroutine[i]]
  /\ waiting' = SelectSeq(waiting, LAMBDA a : a \in Requests)
  /\ UNCHANGED <<postgres, owner, request>>

Reset ==
  /\ exhaust' = FALSE /\ slow' = FALSE
  /\ UNCHANGED <<postgres, owner, waiting, request, goroutine>>

Next ==
  \/ \E r \in Requests, kind \in {"query", "insert", "health"} : Begin(r, kind)
  \/ \E r \in Requests, ok \in BOOLEAN : Finish(r, ok)
  \/ \E r \in Requests : ClientLeaves(r) \/ Timeout(r)
  \/ Serve \/ Outage
  \/ \E c \in Conns : Retire(c) \/ Refill(c)
  \/ \E i \in Injections : Exhaust(i) \/ Ask(i) \/ Notice(i) \/ Release(i)
  \/ Disable \/ Reset
  \/ \E on \in BOOLEAN : SlowQuery(on)

Spec == Init /\ [][Next]_vars

\* The pool serves, statements end (answered or broken), the deadline of a
\* health check fires, goroutines are scheduled.  Clients need not leave and
\* nobody has to reset a fault.
Fairness ==
  /\ WF_vars(Serve)
  /\ \A r \in Requests : /\ WF_vars(\E ok \in BOOLEAN : Finish(r, ok))
                         /\ WF_vars(Timeout(r))
  /\ \A i \in Injections : WF_vars(Ask(i)) /\ WF_vars(Notice(i)) /\ WF_vars(Release(i))

FairSpec == Spec /\ Fairness
-----------------------------------------------------------------------------
(***************************************************************************)
(* Properties.                                                             *)
(***************************************************************************)
Actors == Requests \cup Injections

\* The variables stay in their domains.
TypeOK ==
  /\ postgres \in BOOLEAN /\ exhaust \in BOOLEAN /\ slow \in BOOLEAN
  /\ owner \in [Conns -> Actors \cup {"idle", "closed"}]
  /\ waiting \in Seq(Actors)
  /\ request \in [Requests -> [deadline : BOOLEAN, stage : {"slow", "last"},
                               at : {"none", "wait", "run"}]]
  /\ \A r \in Requests : request[r].at = "none" => request[r] = NoRequest
  /\ goroutine \in [Injections -> {"off", "acquire", "wait", "hold", "release"}]

\* No connection is lost and none is used twice: who holds one is still going
\* to give it back, a request uses exactly one while its statement runs, and a
\* goroutine has no more than it asks for; who waits is in the queue once.
ConnectionsAccounted ==
  /\ \A r \in Requests : Cardinality(Held(r)) = IF request[r].at = "run" THEN 1 ELSE 0
  /\ \A i \in Injections : /\ Cardinality(Held(i)) <= Wanted
                           /\ goroutine[i] = "off" => Held(i) = {}
  /\ \A a \in Actors :
       Cardinality({k \in DOMAIN waiting : waiting[k] = a}) =
         IF (IF a \in Requests THEN request[a].at ELSE goroutine[a]) = "wait" THEN 1 ELSE 0

\* Every connection is with a goroutine that waits for yet another one.
Stuck ==
  \A c \in Conns : owner[c] \in Injections /\ goroutine[owner[c]] = "wait"

\* What the fault does when a goroutine wants more than the pool has, or two
\* share it: no later step, a reset included, returns a single connection.
ExhaustionIsPermanent == [][Stuck => Stuck']_vars

\* No two requests wait for each other's connections: unless exhaustion
\* goroutines keep coming back, each request is answered, however many there
\* are.  The slow query depends on it: it needs two connections, one by one.
RequestsAnswered ==
  <>[](\A i \in Injections : goroutine[i] = "off") =>
    \A r \in Requests : request[r].at = "wait" ~> request[r].at = "none"

\* A goroutine that got to its polling loop gives everything back once the
\* flag stays cleared.
HoldersRelease ==
  <>[]~exhaust => \A i \in Injections : goroutine[i] = "hold" ~> Held(i) = {}
-----------------------------------------------------------------------------
(***************************************************************************)
(* What the documents say and the code does not do.                        *)
(***************************************************************************)
\* runbooks/db-exhaustion.md: "If fault injection is active, reset it" (POST
\* /fault/reset) as an immediate action against an exhausted pool.
ResetFreesPool ==
  <>[]~exhaust => <>[](\A c \in Conns : owner[c] \notin Injections)
=============================================================================
