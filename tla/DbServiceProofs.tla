-------------------------- MODULE DbServiceProofs --------------------------
(***************************************************************************)
(* Theorems about DbService, for any pool, any requests and any exhaustion *)
(* goroutines.                                                             *)
(***************************************************************************)
EXTENDS DbService, SequenceTheorems, FiniteSetTheorems, TLAPS

\* What is left of the queue when one leaves it is still a queue of actors.
LEMMA QueueWithoutOne ==
  ASSUME NEW q \in Seq(Actors), NEW r
  PROVE  Without(q, r) \in Seq(Actors)
<1>1. CASE \E k \in DOMAIN q : q[k] = r
  <2>. DEFINE k == CHOOSE k \in DOMAIN q : q[k] = r
  <2>1. k \in 1..Len(q)
    BY <1>1
  <2>. HIDE DEF k
  <2>2. SubSeq(q, 1, k - 1) \in Seq(Actors)
    <3>1. \A i \in 1..(k - 1) : q[i] \in Actors
      BY <2>1
    <3>. QED  BY <2>1, <3>1, SubSeqProperties
  <2>3. SubSeq(q, k + 1, Len(q)) \in Seq(Actors)
    <3>1. \A i \in (k + 1)..Len(q) : q[i] \in Actors
      BY <2>1
    <3>. QED  BY <2>1, <3>1, SubSeqProperties
  <2>4. SubSeq(q, 1, k - 1) \o SubSeq(q, k + 1, Len(q)) \in Seq(Actors)
    BY <2>2, <2>3, ConcatProperties
  <2>. QED  BY <1>1, <2>4 DEF Without, RemoveAt, k
<1>2. CASE ~ \E k \in DOMAIN q : q[k] = r
  BY <1>2 DEF Without
<1>. QED  BY <1>1, <1>2

\* The head of the queue of waiters is an actor, the rest a queue.
LEMMA QueueHead ==
  ASSUME NEW q \in Seq(Actors), q # <<>>
  PROVE  /\ Head(q) \in Requests \cup Injections
         /\ Tail(q) \in Seq(Actors)
  BY SMT DEF Actors

\* A request that ends keeps the variables in their domains.
LEMMA EndContextKeepsType ==
  ASSUME TypeOK, NEW r \in Requests, EndContext(r)
  PROVE  TypeOK'
<1>1. waiting' \in Seq(Actors)
  BY QueueWithoutOne DEF TypeOK, EndContext
<1>2. request' \in [Requests -> [deadline : BOOLEAN, stage : {"slow", "last"},
                                 at : {"none", "wait", "run"}]]
  BY DEF TypeOK, EndContext, NoRequest
<1>. QED  BY <1>1, <1>2 DEF TypeOK, EndContext, NoRequest, Actors

\* The variables stay in their domains.
THEOREM PoolTypeCorrect == Spec => []TypeOK
<1>1. Init => TypeOK
  <2>. SUFFICES ASSUME Init PROVE TypeOK
    OBVIOUS
  <2>1. PICK c \in Conns : owner = [d \in Conns |-> IF d = c THEN "idle" ELSE "closed"]
    BY DEF Init
  <2>2. waiting \in Seq(Actors)
    BY DEF Init
  <2>3. request \in [Requests -> [deadline : BOOLEAN, stage : {"slow", "last"},
                                  at : {"none", "wait", "run"}]]
    BY DEF Init, NoRequest
  <2>. QED  BY <2>1, <2>2, <2>3 DEF Init, TypeOK
<1>2. TypeOK /\ [Next]_vars => TypeOK'
  <2>. SUFFICES ASSUME TypeOK, [Next]_vars PROVE TypeOK'
    OBVIOUS
  <2>. USE DEF TypeOK, Actors
  <2>1. ASSUME NEW r \in Requests, NEW kind \in {"query", "insert", "health"}, Begin(r, kind)
        PROVE  TypeOK'
    <3>1. waiting' \in Seq(Actors)
      BY <2>1 DEF Begin
    <3>. QED  BY <2>1, <3>1 DEF Begin
  <2>2. ASSUME NEW r \in Requests, NEW ok \in BOOLEAN, Finish(r, ok)
        PROVE  TypeOK'
    <3>1. waiting' \in Seq(Actors)
      BY <2>2 DEF Finish
    <3>2. owner' \in [Conns -> Actors \cup {"idle", "closed"}]
      BY <2>2 DEF Finish
    <3>3. After(request[r]) \in [deadline : BOOLEAN, stage : {"slow", "last"},
                                 at : {"none", "wait", "run"}]
          /\ (After(request[r]).at = "none" => After(request[r]) = NoRequest)
      BY DEF After, NoRequest
    <3>. QED  BY <2>2, <3>1, <3>2, <3>3 DEF Finish
  <2>3. ASSUME NEW r \in Requests, ClientLeaves(r) \/ Timeout(r)
        PROVE  TypeOK'
    BY <2>3, EndContextKeepsType DEF ClientLeaves, Timeout
  <2>4. CASE Serve
    <3>. DEFINE a == Head(waiting)
    <3>1. waiting # <<>> /\ a \in Requests \cup Injections /\ Tail(waiting) \in Seq(Actors)
      BY <2>4, QueueHead DEF Serve
    <3>2. ASSUME NEW c \in Conns, Grant(c)
          PROVE  TypeOK'
      <4>1. CASE a \in Requests
        <5>1. request' = [request EXCEPT ![a].at = "run"]
          BY <3>2, <4>1 DEF Grant
        <5>2. request' \in [Requests -> [deadline : BOOLEAN, stage : {"slow", "last"},
                                         at : {"none", "wait", "run"}]]
          BY <4>1, <5>1
        <5>3. \A r \in Requests : request'[r].at = "none" => request'[r] = NoRequest
          BY <4>1, <5>1
        <5>4. owner' \in [Conns -> Actors \cup {"idle", "closed"}]
          BY <3>1, <3>2 DEF Grant
        <5>. QED  BY <3>1, <3>2, <4>1, <5>2, <5>3, <5>4 DEF Grant
      <4>2. CASE a \notin Requests
        BY <3>1, <3>2, <4>2 DEF Grant
      <4>. QED  BY <4>1, <4>2
    <3>3. CASE Refuse
      <4>1. CASE a \in Requests
        <5>1. After(request[a]) \in [deadline : BOOLEAN, stage : {"slow", "last"},
                                     at : {"none", "wait", "run"}]
              /\ (After(request[a]).at = "none" => After(request[a]) = NoRequest)
          BY <4>1 DEF After, NoRequest
        <5>2. waiting' \in Seq(Actors)
          <6>1. Append(Tail(waiting), a) \in Seq(Actors)
            BY <3>1, AppendProperties
          <6>. QED  BY <3>1, <3>3, <4>1, <6>1 DEF Refuse
        <5>. QED  BY <3>3, <4>1, <5>1, <5>2 DEF Refuse
      <4>2. CASE a \notin Requests
        BY <3>1, <3>3, <4>2 DEF Refuse
      <4>. QED  BY <4>1, <4>2
    <3>. QED  BY <2>4, <3>2, <3>3 DEF Serve, Idle, Closed, Held
  <2>5. CASE Outage \/ Disable \/ Reset
    BY <2>5 DEF Outage, Disable, Reset
  <2>6. ASSUME NEW c \in Conns, Retire(c) \/ Refill(c)
        PROVE  TypeOK'
    BY <2>6 DEF Retire, Refill
  <2>7. ASSUME NEW i \in Injections, Exhaust(i) \/ Ask(i) \/ Notice(i) \/ Release(i)
        PROVE  TypeOK'
    <3>1. CASE Exhaust(i) \/ Notice(i)
      BY <3>1 DEF Exhaust, Notice
    <3>2. CASE Ask(i)
      <4>1. waiting' \in Seq(Actors)
        BY <3>2 DEF Ask
      <4>. QED  BY <3>2, <4>1 DEF Ask
    <3>3. CASE Release(i)
      <4>1. owner' \in [Conns -> Actors \cup {"idle", "closed"}]
        BY <3>3 DEF Release
      <4>2. goroutine' \in [Injections -> {"off", "acquire", "wait", "hold", "release"}]
        BY <3>3 DEF Release
      <4>. QED  BY <3>3, <4>1, <4>2 DEF Release
    <3>. QED  BY <2>7, <3>1, <3>2, <3>3
  <2>8. ASSUME NEW on \in BOOLEAN, SlowQuery(on)
        PROVE  TypeOK'
    BY <2>8 DEF SlowQuery
  <2>9. CASE UNCHANGED vars
    BY <2>9 DEF vars
  <2>. QED  BY <2>1, <2>2, <2>3, <2>4, <2>5, <2>6, <2>7, <2>8, <2>9 DEF Next
<1>. QED  BY <1>1, <1>2, PTL DEF Spec

\* Once every connection is with a goroutine that waits for another one, no
\* step, a reset included, gives one back.
THEOREM ExhaustedPoolStaysExhausted == Spec => ExhaustionIsPermanent
<1>1. TypeOK /\ [Next]_vars => (Stuck => Stuck')
  <2>. SUFFICES ASSUME TypeOK, [Next]_vars, Stuck PROVE Stuck'
    OBVIOUS
  <2>. USE DEF Stuck
  <2>1. /\ Idle = {} /\ Closed = {}
        /\ \A r \in Requests : Held(r) = {}
    BY DbAssumption DEF Idle, Closed, Held
  <2>2. ASSUME NEW r \in Requests, NEW kind \in {"query", "insert", "health"}, Begin(r, kind)
        PROVE  Stuck'
    BY <2>2 DEF Begin
  <2>3. ASSUME NEW r \in Requests, NEW ok \in BOOLEAN, Finish(r, ok)
        PROVE  Stuck'
    <3>1. owner' = owner /\ goroutine' = goroutine
      BY <2>1, <2>3 DEF Finish, Held, TypeOK
    <3>. QED  BY <3>1
  <2>4. ASSUME NEW r \in Requests, ClientLeaves(r) \/ Timeout(r)
        PROVE  Stuck'
    <3>1. owner' = owner /\ goroutine' = goroutine
      BY <2>1, <2>4 DEF ClientLeaves, Timeout, EndContext, Held, TypeOK
    <3>. QED  BY <3>1
  <2>5. CASE Serve
    BY <2>1, <2>5 DEF Serve
  <2>6. CASE Outage \/ Disable \/ Reset
    BY <2>6 DEF Outage, Disable, Reset
  <2>7. ASSUME NEW c \in Conns, Retire(c) \/ Refill(c)
        PROVE  Stuck'
    BY <2>1, <2>7 DEF Retire, Refill
  <2>8. ASSUME NEW i \in Injections, Exhaust(i) \/ Ask(i) \/ Notice(i)
        PROVE  Stuck'
    BY <2>8 DEF Exhaust, Ask, Notice, TypeOK
  <2>9. ASSUME NEW i \in Injections, Release(i)
        PROVE  Stuck'
    <3>1. Held(i) = {}
      BY <2>9 DEF Release, Held
    <3>. QED  BY <2>9, <3>1 DEF Release, Held, TypeOK
  <2>10. ASSUME NEW on \in BOOLEAN, SlowQuery(on)
         PROVE  Stuck'
    BY <2>10 DEF SlowQuery
  <2>11. CASE UNCHANGED vars
    BY <2>11 DEF vars
  <2>. QED
    BY <2>2, <2>3, <2>4, <2>5, <2>6, <2>7, <2>8, <2>9, <2>10, <2>11 DEF Next
<1>. QED  BY <1>1, PoolTypeCorrect, PTL DEF Spec, ExhaustionIsPermanent
-----------------------------------------------------------------------------
(***************************************************************************)
(* The accounts of the pool: who holds what, and who waits.                *)
(***************************************************************************)
\* Where an actor stands.
At(a) == IF a \in Requests THEN request[a].at ELSE goroutine[a]

\* A goroutine that is still asking has room for one more connection.
HoldersInv ==
  /\ \A r \in Requests : IF request[r].at = "run" THEN \E c \in Conns : Held(r) = {c}
                                                  ELSE Held(r) = {}
  /\ \A i \in Injections :
       /\ Cardinality(Held(i)) <= Wanted
       /\ goroutine[i] \in {"acquire", "wait"} => Cardinality(Held(i)) < Wanted
       /\ goroutine[i] = "off" => Held(i) = {}

WaitersInv ==
  /\ IsInjective(waiting)
  /\ \A a \in Actors : a \in Range(waiting) <=> At(a) = "wait"

IInv == TypeOK /\ HoldersInv /\ WaitersInv

LEMMA IInvInit == Init => HoldersInv /\ WaitersInv
<1>. SUFFICES ASSUME Init PROVE HoldersInv /\ WaitersInv
  OBVIOUS
<1>1. PICK c \in Conns : owner = [d \in Conns |-> IF d = c THEN "idle" ELSE "closed"]
  BY DEF Init
<1>2. \A a \in Actors : Held(a) = {}
  BY <1>1, DbAssumption DEF Held, Actors
<1>3. /\ waiting = <<>> /\ \A r \in Requests : request[r].at = "none"
      /\ \A i \in Injections : goroutine[i] = "off"
  BY DEF Init, NoRequest
<1>4. Cardinality({}) = 0
  BY FS_EmptySet
<1>5. HoldersInv
  <2>1. 0 <= Wanted /\ 0 < Wanted
    BY DbAssumption
  <2>2. ASSUME NEW r \in Requests PROVE request[r].at # "run" /\ Held(r) = {}
    BY <1>2, <1>3 DEF Actors
  <2>3. ASSUME NEW i \in Injections
        PROVE  Cardinality(Held(i)) = 0 /\ Held(i) = {}
    <3>1. Held(i) = {}
      BY <1>2 DEF Actors
    <3>. QED  BY <1>4, <3>1
  <2>. QED  BY <2>1, <2>2, <2>3 DEF HoldersInv
<1>6. IsInjective(<<>>) /\ Range(<<>>) = {}
  BY DEF IsInjective, Range
<1>. QED  BY <1>3, <1>5, <1>6 DEF WaitersInv, At, Actors

(***************************************************************************)
(* Who joins the queue, and who leaves it, wherever in it.                 *)
(***************************************************************************)
LEMMA Joining ==
  ASSUME NEW q \in Seq(Actors), IsInjective(q), NEW a \in Actors, a \notin Range(q)
  PROVE  /\ Append(q, a) \in Seq(Actors) /\ IsInjective(Append(q, a))
         /\ Range(Append(q, a)) = Range(q) \cup {a}
<1>. DEFINE n == Len(q)
            p == Append(q, a)
<1>1. /\ n \in Nat /\ DOMAIN q = 1..n
      /\ p \in Seq(Actors) /\ Len(p) = n + 1 /\ DOMAIN p = 1..(n + 1)
      /\ p[n + 1] = a /\ \A k \in 1..n : p[k] = q[k]
  BY AppendProperties, LenProperties
<1>. HIDE DEF n, p
<1>2. \A k \in 1..n : q[k] # a
  BY <1>1 DEF Range
<1>3. \A k \in 1..(n + 1) : k \in 1..n \/ k = n + 1
  BY <1>1
<1>4. IsInjective(p)
  BY <1>1, <1>2, <1>3 DEF IsInjective
<1>5. Range(p) = Range(q) \cup {a}
  BY <1>1, <1>3 DEF Range
<1>. QED  BY <1>1, <1>4, <1>5 DEF p

\* Those behind the one who leaves move up.
LEMMA MovingUp ==
  ASSUME NEW q \in Seq(Actors), IsInjective(q), NEW k \in 1..Len(q), NEW p \in Seq(Actors),
         Len(p) = Len(q) - 1,
         \A j \in 1..Len(p) : p[j] = IF j < k THEN q[j] ELSE q[j + 1]
  PROVE  IsInjective(p) /\ Range(p) = Range(q) \ {q[k]}
<1>. DEFINE n == Len(q)
<1>1. /\ n \in Nat \ {0} /\ DOMAIN q = 1..n /\ DOMAIN p = 1..(n - 1) /\ k \in 1..n
      /\ \A i, j \in 1..n : q[i] = q[j] => i = j
      /\ \A j \in 1..(n - 1) : p[j] = IF j < k THEN q[j] ELSE q[j + 1]
  BY LenProperties DEF IsInjective
<1>. HIDE DEF n
<1>2. IsInjective(p)
  BY <1>1 DEF IsInjective
<1>3. ASSUME NEW x \in Range(p) PROVE x \in Range(q) \ {q[k]}
  <2>1. PICK j \in 1..(n - 1) : x = p[j]
    BY <1>1, <1>3 DEF Range
  <2>. QED  BY <1>1, <2>1 DEF Range
<1>4. ASSUME NEW x \in Range(q) \ {q[k]} PROVE x \in Range(p)
  <2>1. PICK j \in 1..n : x = q[j] /\ j # k
    BY <1>1, <1>4 DEF Range
  <2>2. CASE j < k
    <3>1. j \in 1..(n - 1) /\ p[j] = x
      BY <1>1, <2>1, <2>2
    <3>. QED  BY <1>1, <3>1 DEF Range
  <2>3. CASE j > k
    <3>1. j - 1 \in 1..(n - 1) /\ p[j - 1] = x
      BY <1>1, <2>1, <2>3
    <3>. QED  BY <1>1, <3>1 DEF Range
  <2>. QED  BY <1>1, <2>1, <2>2, <2>3
<1>. QED  BY <1>2, <1>3, <1>4

LEMMA HeadLeaves ==
  ASSUME NEW q \in Seq(Actors), IsInjective(q), q # <<>>
  PROVE  /\ Tail(q) \in Seq(Actors) /\ IsInjective(Tail(q))
         /\ Head(q) \in Range(q) /\ Range(Tail(q)) = Range(q) \ {Head(q)}
<1>. DEFINE p == Tail(q)
<1>1. /\ Len(q) \in Nat \ {0} /\ p \in Seq(Actors) /\ Len(p) = Len(q) - 1 /\ Head(q) = q[1]
      /\ \A j \in 1..Len(p) : p[j] = q[j + 1]
  BY HeadTailProperties, EmptySeq, LenProperties
<1>. DEFINE k == 1
<1>2. k \in 1..Len(q) /\ \A j \in 1..Len(p) : p[j] = IF j < k THEN q[j] ELSE q[j + 1]
  BY <1>1
<1>. HIDE DEF p, k
<1>3. IsInjective(p) /\ Range(p) = Range(q) \ {q[k]}
  BY <1>1, <1>2, MovingUp
<1>4. q[1] \in Range(q)
  BY <1>1, LenProperties DEF Range
<1>. QED  BY <1>1, <1>3, <1>4 DEF p, k

LEMMA AnyoneLeaves ==
  ASSUME NEW q \in Seq(Actors), IsInjective(q), NEW a
  PROVE  IsInjective(Without(q, a)) /\ Range(Without(q, a)) = Range(q) \ {a}
<1>1. CASE \E k \in DOMAIN q : q[k] = a
  <2>. DEFINE k == CHOOSE k \in DOMAIN q : q[k] = a
              f == SubSeq(q, 1, k - 1)
              b == SubSeq(q, k + 1, Len(q))
  <2>1. k \in 1..Len(q) /\ q[k] = a /\ Len(q) \in Nat
    BY <1>1, LenProperties
  <2>. HIDE DEF k
  <2>2. f \in Seq(Actors) /\ Len(f) = k - 1 /\ \A i \in 1..(k - 1) : f[i] = q[i]
    <3>1. \A i \in 1..(k - 1) : q[i] \in Actors
      BY <2>1
    <3>. QED  BY <2>1, <3>1, SubSeqProperties
  <2>3. /\ b \in Seq(Actors) /\ Len(b) = Len(q) - k
        /\ \A i \in 1..(Len(q) - k) : b[i] = q[k + i]
    <3>1. \A i \in (k + 1)..Len(q) : q[i] \in Actors
      BY <2>1
    <3>. QED  BY <2>1, <3>1, SubSeqProperties
  <2>. HIDE DEF f, b
  <2>. DEFINE p == f \o b
  <2>concat. /\ p \in Seq(Actors) /\ Len(p) = Len(f) + Len(b)
        /\ \A j \in 1..(Len(f) + Len(b)) : p[j] = IF j <= Len(f) THEN f[j] ELSE b[j - Len(f)]
    BY <2>2, <2>3, ConcatProperties
  <2>. HIDE DEF p
  <2>4. p \in Seq(Actors) /\ Len(p) = Len(q) - 1
    BY <2>1, <2>2, <2>3, <2>concat
  <2>5. \A j \in 1..Len(p) : p[j] = IF j <= Len(f) THEN f[j] ELSE b[j - Len(f)]
    BY <2>concat
  <2>6. ASSUME NEW j \in 1..Len(p) PROVE p[j] = IF j < k THEN q[j] ELSE q[j + 1]
    <3>1. CASE j < k
      BY <2>1, <2>2, <2>4, <2>5, <3>1
    <3>2. CASE ~(j < k)
      <4>1. j - (k - 1) \in 1..(Len(q) - k) /\ k + (j - (k - 1)) = j + 1
        BY <2>1, <2>4, <3>2
      <4>2. p[j] = b[j - (k - 1)]
        BY <2>1, <2>2, <2>4, <2>5, <3>2
      <4>. QED  BY <2>3, <3>2, <4>1, <4>2
    <3>. QED  BY <3>1, <3>2
  <2>7. IsInjective(p) /\ Range(p) = Range(q) \ {q[k]}
    BY <2>1, <2>4, <2>6, MovingUp
  <2>8. Without(q, a) = p
    BY <1>1 DEF Without, RemoveAt, p, f, b, k
  <2>. QED  BY <2>1, <2>7, <2>8
<1>2. CASE ~ \E k \in DOMAIN q : q[k] = a
  BY <1>2 DEF Without, Range
<1>. QED  BY <1>1, <1>2

(***************************************************************************)
(* One actor moves and the others stay where they are.                     *)
(***************************************************************************)
LEMMA OneMoves ==
  ASSUME TypeOK, HoldersInv, WaitersInv, NEW a \in Actors,
         \A b \in Actors \ {a} : Held(b)' = Held(b) /\ At(b)' = At(b),
         a \in Requests => IF At(a)' = "run" THEN \E c \in Conns : Held(a)' = {c}
                                             ELSE Held(a)' = {},
         a \in Injections => /\ Cardinality(Held(a)') <= Wanted
                             /\ At(a)' \in {"acquire", "wait"} => Cardinality(Held(a)') < Wanted
                             /\ At(a)' = "off" => Held(a)' = {},
         IsInjective(waiting'),
         Range(waiting') = IF At(a)' = "wait" THEN Range(waiting) \cup {a} ELSE Range(waiting) \ {a}
  PROVE  HoldersInv' /\ WaitersInv'
<1>1. /\ \A r \in Requests : At(r) = request[r].at /\ At(r)' = request'[r].at
      /\ \A i \in Injections : At(i) = goroutine[i] /\ At(i)' = goroutine'[i]
  BY DbAssumption DEF At
<1>2. HoldersInv'
  <2>1. ASSUME NEW r \in Requests
        PROVE  IF request'[r].at = "run" THEN \E c \in Conns : Held(r)' = {c} ELSE Held(r)' = {}
    BY <1>1 DEF HoldersInv, Actors
  <2>2. ASSUME NEW i \in Injections
        PROVE  /\ Cardinality(Held(i)') <= Wanted
               /\ goroutine'[i] \in {"acquire", "wait"} => Cardinality(Held(i)') < Wanted
               /\ goroutine'[i] = "off" => Held(i)' = {}
    <3>1. CASE i = a
      BY <1>1, <3>1
    <3>2. CASE i # a
      BY <1>1, <3>2 DEF HoldersInv, Actors
    <3>. QED  BY <3>1, <3>2
  <2>. QED  BY <2>1, <2>2 DEF HoldersInv
<1>3. WaitersInv'
  BY DEF WaitersInv
<1>. QED  BY <1>2, <1>3

\* What HoldersInv and WaitersInv say of an actor, wherever it is named.
LEMMA Stands ==
  ASSUME TypeOK, HoldersInv, WaitersInv, NEW a \in Actors
  PROVE  /\ a # "idle" /\ a # "closed"
         /\ IsFiniteSet(Held(a)) /\ Cardinality(Held(a)) \in Nat
         /\ a \in Requests => /\ At(a) = request[a].at /\ a \notin Injections
                              /\ At(a) = "run" => \E c \in Conns : Held(a) = {c}
                              /\ At(a) # "run" => Held(a) = {}
         /\ a \in Injections => /\ At(a) = goroutine[a] /\ a \notin Requests
                                /\ Cardinality(Held(a)) <= Wanted
                                /\ At(a) \in {"acquire", "wait"} => Cardinality(Held(a)) < Wanted
                                /\ At(a) = "off" => Held(a) = {}
         /\ a \in Range(waiting) <=> At(a) = "wait"
<1>1. a # "idle" /\ a # "closed" /\ ~(a \in Requests /\ a \in Injections)
  BY DbAssumption DEF Actors
<1>2. IsFiniteSet(Held(a)) /\ Cardinality(Held(a)) \in Nat
  <2>1. Held(a) \in SUBSET Conns
    BY DEF Held
  <2>2. IsFiniteSet(Held(a))
    BY <2>1, FS_Subset, DbAssumption
  <2>. QED  BY <2>2, FS_CardinalityType
<1>3. a \in Range(waiting) <=> At(a) = "wait"
  BY DEF WaitersInv
<1>4. ASSUME a \in Requests
      PROVE  /\ At(a) = request[a].at
             /\ At(a) = "run" => \E c \in Conns : Held(a) = {c}
             /\ At(a) # "run" => Held(a) = {}
  BY <1>4 DEF HoldersInv, At
<1>5. ASSUME a \in Injections
      PROVE  /\ At(a) = goroutine[a]
             /\ Cardinality(Held(a)) <= Wanted
             /\ At(a) \in {"acquire", "wait"} => Cardinality(Held(a)) < Wanted
             /\ At(a) = "off" => Held(a) = {}
  BY <1>1, <1>5 DEF HoldersInv, At
<1>. QED  BY <1>1, <1>2, <1>3, <1>4, <1>5

LEMMA BeginKeeps ==
  ASSUME TypeOK, HoldersInv, WaitersInv, NEW r \in Requests,
         NEW kind \in {"query", "insert", "health"}, Begin(r, kind)
  PROVE  HoldersInv' /\ WaitersInv'
<1>1. r \in Actors /\ r \notin Injections
  BY DbAssumption DEF Actors
<1>2. request[r].at = "none" /\ owner' = owner /\ goroutine' = goroutine
  BY DEF Begin
<1>3. Held(r) = {} /\ r \notin Range(waiting)
  BY <1>1, <1>2, Stands
<1>4. At(r)' = "wait" /\ Held(r)' = {}
  BY <1>2, <1>3 DEF Begin, At, Held, TypeOK
<1>5. \A b \in Actors \ {r} : Held(b)' = Held(b) /\ At(b)' = At(b)
  BY <1>2 DEF Begin, At, Held, TypeOK
<1>6. waiting' = Append(waiting, r) /\ waiting \in Seq(Actors) /\ IsInjective(waiting)
  BY DEF Begin, TypeOK, WaitersInv
<1>7. IsInjective(waiting') /\ Range(waiting') = Range(waiting) \cup {r}
  BY <1>1, <1>3, <1>6, Joining
<1>. QED  BY <1>1, <1>4, <1>5, <1>7, OneMoves

LEMMA FinishKeeps ==
  ASSUME TypeOK, HoldersInv, WaitersInv, NEW r \in Requests, NEW ok \in BOOLEAN, Finish(r, ok)
  PROVE  HoldersInv' /\ WaitersInv'
<1>1. r \in Actors /\ r \notin Injections
  BY DbAssumption DEF Actors
<1>2. request[r].at = "run" /\ goroutine' = goroutine
  BY DEF Finish
<1>3. r \notin Range(waiting) /\ r # "idle" /\ r # "closed"
  BY <1>1, <1>2, Stands
<1>4. Held(r)' = {}
  BY <1>3 DEF Finish, Held
<1>5. At(r)' = request'[r].at /\ At(r)' # "run"
  BY DEF Finish, After, NoRequest, At, TypeOK
<1>6. \A b \in Actors \ {r} : Held(b)' = Held(b)
  BY DbAssumption DEF Finish, Held, Actors
<1>7. \A b \in Actors \ {r} : At(b)' = At(b)
  BY <1>2 DEF Finish, At, TypeOK
<1>8. waiting \in Seq(Actors) /\ IsInjective(waiting)
  BY DEF TypeOK, WaitersInv
<1>9. CASE At(r)' = "wait"
  <2>1. waiting' = Append(waiting, r)
    BY <1>5, <1>9 DEF Finish
  <2>2. IsInjective(waiting') /\ Range(waiting') = Range(waiting) \cup {r}
    BY <1>1, <1>3, <1>8, <2>1, Joining
  <2>. QED  BY <1>1, <1>4, <1>5, <1>6, <1>7, <1>9, <2>2, OneMoves
<1>10. CASE At(r)' # "wait"
  <2>1. waiting' = waiting
    BY <1>5, <1>10 DEF Finish
  <2>2. IsInjective(waiting') /\ Range(waiting') = Range(waiting) \ {r}
    BY <1>3, <1>8, <2>1
  <2>. QED  BY <1>1, <1>4, <1>5, <1>6, <1>7, <1>10, <2>2, OneMoves
<1>. QED  BY <1>9, <1>10

LEMMA EndContextKeeps ==
  ASSUME TypeOK, HoldersInv, WaitersInv, NEW r \in Requests, EndContext(r)
  PROVE  HoldersInv' /\ WaitersInv'
<1>1. r \in Actors /\ r \notin Injections
  BY DbAssumption DEF Actors
<1>2. r # "closed"
  BY <1>1, Stands
<1>3. Held(r)' = {} /\ At(r)' = "none"
  BY <1>2 DEF EndContext, Held, At, NoRequest, TypeOK
<1>4. \A b \in Actors \ {r} : Held(b)' = Held(b)
  BY DbAssumption DEF EndContext, Held, Actors
<1>5. \A b \in Actors \ {r} : At(b)' = At(b)
  BY DEF EndContext, At, TypeOK
<1>6. waiting \in Seq(Actors) /\ IsInjective(waiting) /\ waiting' = Without(waiting, r)
  BY DEF TypeOK, WaitersInv, EndContext
<1>7. IsInjective(waiting') /\ Range(waiting') = Range(waiting) \ {r}
  BY <1>6, AnyoneLeaves
<1>. QED  BY <1>1, <1>3, <1>4, <1>5, <1>7, OneMoves


\* The waiter at the head gets a connection that was nobody's.
LEMMA GrantKeeps ==
  ASSUME TypeOK, HoldersInv, WaitersInv, waiting # <<>>,
         NEW c \in Conns, owner[c] \in {"idle", "closed"}, Grant(c)
  PROVE  HoldersInv' /\ WaitersInv'
<1>1. waiting \in Seq(Actors) /\ IsInjective(waiting)
  BY DEF TypeOK, WaitersInv
<1>2. PICK a : a = Head(waiting)
  OBVIOUS
<1>3. a \in Actors /\ a \in Range(waiting)
  BY <1>1, <1>2, HeadLeaves, QueueHead DEF Actors
<1>4. waiting' = Tail(waiting)
  BY DEF Grant
<1>5. IsInjective(waiting') /\ Range(waiting') = Range(waiting) \ {a}
  BY <1>1, <1>2, <1>4, HeadLeaves
<1>6. At(a) = "wait" /\ a # "idle" /\ a # "closed"
  BY <1>3, Stands
<1>7. owner' = [owner EXCEPT ![c] = a]
  BY <1>2 DEF Grant
<1>8. Held(a)' = Held(a) \cup {c} /\ c \notin Held(a)
  BY <1>6, <1>7 DEF Held, TypeOK
<1>9. \A b \in Actors \ {a} : Held(b)' = Held(b)
  BY <1>7, DbAssumption DEF Held, TypeOK, Actors
<1>10. CASE a \in Requests
  <2>1. request' = [request EXCEPT ![a].at = "run"] /\ goroutine' = goroutine
    BY <1>2, <1>10 DEF Grant
  <2>2. At(a)' = "run" /\ \A b \in Actors \ {a} : At(b)' = At(b)
    BY <1>10, <2>1 DEF At, TypeOK
  <2>3. Held(a) = {} /\ a \notin Injections
    BY <1>3, <1>6, <1>10, Stands
  <2>4. Held(a)' = {c}
    BY <1>8, <2>3
  <2>. QED  BY <1>3, <1>5, <1>9, <2>2, <2>3, <2>4, OneMoves
<1>11. CASE a \in Injections
  <2>1. /\ a \notin Requests /\ Cardinality(Held(a)) \in Nat /\ IsFiniteSet(Held(a))
        /\ Cardinality(Held(a)) < Wanted
    BY <1>3, <1>6, <1>11, Stands
  <2>2. /\ goroutine' = [goroutine EXCEPT ![a] =
                            IF Cardinality(Held(a)) + 1 = Wanted THEN "hold" ELSE "acquire"]
        /\ request' = request
    BY <1>2, <2>1 DEF Grant
  <2>3. /\ At(a)' = IF Cardinality(Held(a)) + 1 = Wanted THEN "hold" ELSE "acquire"
        /\ \A b \in Actors \ {a} : At(b)' = At(b)
    BY <1>11, <2>1, <2>2 DEF At, TypeOK
  <2>4. Cardinality(Held(a)') = Cardinality(Held(a)) + 1
    BY <1>8, <2>1, FS_AddElement
  <2>5. /\ Cardinality(Held(a)') <= Wanted
        /\ At(a)' = "acquire" => Cardinality(Held(a)') < Wanted
    BY <2>1, <2>3, <2>4, DbAssumption
  <2>. QED  BY <1>3, <1>5, <1>9, <2>1, <2>3, <2>5, OneMoves
<1>. QED  BY <1>3, <1>10, <1>11 DEF Actors

\* ... or an error.
LEMMA RefuseKeeps ==
  ASSUME TypeOK, HoldersInv, WaitersInv, waiting # <<>>, Refuse
  PROVE  HoldersInv' /\ WaitersInv'
<1>1. waiting \in Seq(Actors) /\ IsInjective(waiting)
  BY DEF TypeOK, WaitersInv
<1>2. PICK a : a = Head(waiting)
  OBVIOUS
<1>3. PICK rest : rest = Tail(waiting)
  OBVIOUS
<1>4. /\ a \in Actors /\ a \in Range(waiting)
      /\ rest \in Seq(Actors) /\ IsInjective(rest) /\ Range(rest) = Range(waiting) \ {a}
  BY <1>1, <1>2, <1>3, HeadLeaves, QueueHead DEF Actors
<1>5. At(a) = "wait"
  BY <1>4, Stands
<1>6. \A b \in Actors : Held(b)' = Held(b)
  BY DEF Refuse, Held
<1>7. CASE a \in Requests
  <2>1. /\ request' = [request EXCEPT ![a] = After(@)] /\ goroutine' = goroutine
        /\ waiting' = IF request'[a].at = "wait" THEN Append(rest, a) ELSE rest
    BY <1>2, <1>3, <1>7 DEF Refuse
  <2>2. At(a)' = request'[a].at /\ At(a)' # "run"
    BY <1>7, <2>1 DEF At, After, NoRequest, TypeOK
  <2>3. \A b \in Actors \ {a} : At(b)' = At(b)
    BY <2>1 DEF At, TypeOK
  <2>4. Held(a)' = {} /\ a \notin Injections
    BY <1>4, <1>5, <1>6, <1>7, Stands
  <2>5. CASE At(a)' = "wait"
    <3>1. waiting' = Append(rest, a)
      BY <2>1, <2>2, <2>5
    <3>2. IsInjective(waiting') /\ Range(waiting') = Range(rest) \cup {a}
      BY <1>4, <3>1, Joining
    <3>3. Range(waiting') = Range(waiting) \cup {a}
      BY <1>4, <3>2
    <3>. QED  BY <1>4, <1>6, <2>2, <2>3, <2>4, <2>5, <3>2, <3>3, OneMoves
  <2>6. CASE At(a)' # "wait"
    <3>1. IsInjective(waiting') /\ Range(waiting') = Range(waiting) \ {a}
      BY <1>4, <2>1, <2>2, <2>6
    <3>. QED  BY <1>4, <1>6, <2>2, <2>3, <2>4, <2>6, <3>1, OneMoves
  <2>. QED  BY <2>5, <2>6
<1>8. CASE a \in Injections
  <2>1. a \notin Requests /\ Cardinality(Held(a)) <= Wanted
    BY <1>4, <1>5, <1>8, Stands
  <2>2. /\ goroutine' = [goroutine EXCEPT ![a] = "hold"] /\ request' = request
        /\ waiting' = rest
    BY <1>2, <1>3, <2>1 DEF Refuse
  <2>3. At(a)' = "hold" /\ \A b \in Actors \ {a} : At(b)' = At(b)
    BY <1>8, <2>1, <2>2 DEF At, TypeOK
  <2>4. Cardinality(Held(a)') <= Wanted
    BY <1>4, <1>6, <2>1
  <2>. QED  BY <1>4, <1>6, <2>1, <2>2, <2>3, <2>4, OneMoves
<1>. QED  BY <1>4, <1>7, <1>8 DEF Actors

LEMMA ServeKeeps ==
  ASSUME TypeOK, HoldersInv, WaitersInv, Serve
  PROVE  HoldersInv' /\ WaitersInv'
<1>1. waiting # <<>>
  BY DEF Serve
<1>2. ASSUME NEW c \in Conns, owner[c] \in {"idle", "closed"}, Grant(c)
      PROVE  HoldersInv' /\ WaitersInv'
  BY <1>1, <1>2, GrantKeeps
<1>3. CASE Refuse
  BY <1>1, <1>3, RefuseKeeps
<1>. QED  BY <1>2, <1>3 DEF Serve, Idle, Closed, Held

\* The four steps of an exhaustion goroutine.
LEMMA GoroutineKeeps ==
  ASSUME TypeOK, HoldersInv, WaitersInv, NEW i \in Injections,
         Exhaust(i) \/ Ask(i) \/ Notice(i) \/ Release(i)
  PROVE  HoldersInv' /\ WaitersInv'
<1>1. /\ i \in Actors /\ i \notin Requests /\ At(i) = goroutine[i]
      /\ IsFiniteSet(Held(i)) /\ Cardinality(Held(i)) \in Nat /\ Cardinality(Held(i)) <= Wanted
      /\ At(i) = "acquire" => Cardinality(Held(i)) < Wanted
      /\ At(i) = "off" => Held(i) = {}
      /\ i \in Range(waiting) <=> At(i) = "wait"
      /\ i # "idle" /\ i # "closed"
  BY Stands DEF Actors
<1>2. waiting \in Seq(Actors) /\ IsInjective(waiting)
  BY DEF TypeOK, WaitersInv
<1>3. CASE Exhaust(i)
  <2>1. At(i) = "off" /\ At(i)' = "acquire" /\ \A b \in Actors \ {i} : At(b)' = At(b)
    BY <1>1, <1>3 DEF Exhaust, At, TypeOK
  <2>2. waiting' = waiting /\ \A b \in Actors : Held(b)' = Held(b)
    BY <1>3 DEF Exhaust, Held
  <2>3. Cardinality(Held(i)') = 0
    BY <1>1, <2>1, <2>2, FS_EmptySet
  <2>4. Cardinality(Held(i)') < Wanted /\ Cardinality(Held(i)') <= Wanted
    BY <2>3, DbAssumption
  <2>5. Range(waiting') = Range(waiting) \ {i}
    BY <1>1, <2>1, <2>2
  <2>6. IsInjective(waiting')
    BY <1>2, <2>2
  <2>. QED  BY <1>1, <2>1, <2>2, <2>4, <2>5, <2>6, OneMoves
<1>4. CASE Ask(i)
  <2>1. At(i) = "acquire" /\ At(i)' = "wait" /\ \A b \in Actors \ {i} : At(b)' = At(b)
    BY <1>1, <1>4 DEF Ask, At, TypeOK
  <2>2. waiting' = Append(waiting, i) /\ \A b \in Actors : Held(b)' = Held(b)
    BY <1>4 DEF Ask, Held
  <2>3. IsInjective(waiting') /\ Range(waiting') = Range(waiting) \cup {i}
    BY <1>1, <1>2, <2>1, <2>2, Joining
  <2>4. Cardinality(Held(i)') < Wanted /\ Cardinality(Held(i)') <= Wanted
    BY <1>1, <2>1, <2>2
  <2>. QED  BY <1>1, <2>1, <2>2, <2>3, <2>4, OneMoves
<1>5. CASE Notice(i)
  <2>1. At(i) = "hold" /\ At(i)' = "release" /\ \A b \in Actors \ {i} : At(b)' = At(b)
    BY <1>1, <1>5 DEF Notice, At, TypeOK
  <2>2. waiting' = waiting /\ \A b \in Actors : Held(b)' = Held(b)
    BY <1>5 DEF Notice, Held
  <2>3. Range(waiting') = Range(waiting) \ {i} /\ IsInjective(waiting')
    BY <1>1, <1>2, <2>1, <2>2
  <2>4. Cardinality(Held(i)') <= Wanted
    BY <1>1, <2>2
  <2>. QED  BY <1>1, <2>1, <2>2, <2>3, <2>4, OneMoves
<1>6. CASE Release(i)
  <2>1. At(i) = "release" /\ waiting' = waiting /\ request' = request
    BY <1>1, <1>6 DEF Release
  <2>2. Range(waiting') = Range(waiting) \ {i} /\ IsInjective(waiting')
    BY <1>1, <1>2, <2>1
  <2>3. CASE Held(i) = {}
    <3>1. /\ owner' = owner /\ goroutine' = [goroutine EXCEPT ![i] = "off"]
      BY <1>6, <2>3 DEF Release
    <3>2. At(i)' = "off" /\ \A b \in Actors \ {i} : At(b)' = At(b)
      BY <1>1, <2>1, <3>1 DEF At, TypeOK
    <3>3. \A b \in Actors : Held(b)' = Held(b)
      BY <3>1 DEF Held
    <3>4. Held(i)' = {} /\ Cardinality(Held(i)') <= Wanted
      BY <1>1, <2>3, <3>3
    <3>. QED  BY <1>1, <2>2, <3>2, <3>3, <3>4, OneMoves
  <2>4. CASE Held(i) # {}
    <3>1. PICK c \in Held(i), to \in {"idle", "closed"} :
            owner' = [owner EXCEPT ![c] = to] /\ goroutine' = goroutine
      BY <1>6, <2>4 DEF Release
    <3>2. \A b \in Actors : At(b)' = At(b)
      BY <2>1, <3>1 DEF At
    <3>3. \A b \in Actors \ {i} : Held(b)' = Held(b)
      BY <3>1, DbAssumption DEF Held, TypeOK, Actors
    <3>4. Held(i)' = Held(i) \ {c}
      BY <1>1, <3>1 DEF Held, TypeOK
    <3>5. Cardinality(Held(i)') = Cardinality(Held(i)) - 1
      BY <1>1, <3>1, <3>4, FS_RemoveElement
    <3>6. Cardinality(Held(i)') <= Wanted
      BY <1>1, <3>5, DbAssumption
    <3>. QED  BY <1>1, <2>1, <2>2, <3>2, <3>3, <3>6, OneMoves
  <2>. QED  BY <2>3, <2>4
<1>. QED  BY <1>3, <1>4, <1>5, <1>6

\* What changes neither an actor's standing nor what it holds, nor the queue.
LEMMA NobodyMoves ==
  ASSUME HoldersInv, WaitersInv, waiting' = waiting, request' = request, goroutine' = goroutine,
         \A a \in Actors : Held(a)' = Held(a)
  PROVE  HoldersInv' /\ WaitersInv'
<1>1. \A r \in Requests : Held(r)' = Held(r)
  BY DEF Actors
<1>2. \A i \in Injections : Held(i)' = Held(i)
  BY DEF Actors
<1>3. HoldersInv'
  BY <1>1, <1>2 DEF HoldersInv
<1>4. WaitersInv'
  BY DEF WaitersInv, At
<1>. QED  BY <1>3, <1>4

LEMMA IInvStep ==
  ASSUME TypeOK, HoldersInv, WaitersInv, [Next]_vars
  PROVE  HoldersInv' /\ WaitersInv'
<1>1. ASSUME NEW r \in Requests, NEW kind \in {"query", "insert", "health"}, Begin(r, kind)
      PROVE  HoldersInv' /\ WaitersInv'
  BY <1>1, BeginKeeps
<1>2. ASSUME NEW r \in Requests, NEW ok \in BOOLEAN, Finish(r, ok)
      PROVE  HoldersInv' /\ WaitersInv'
  BY <1>2, FinishKeeps
<1>3. ASSUME NEW r \in Requests, ClientLeaves(r) \/ Timeout(r)
      PROVE  HoldersInv' /\ WaitersInv'
  BY <1>3, EndContextKeeps DEF ClientLeaves, Timeout
<1>4. CASE Serve
  BY <1>4, ServeKeeps
<1>5. ASSUME NEW i \in Injections, Exhaust(i) \/ Ask(i) \/ Notice(i) \/ Release(i)
      PROVE  HoldersInv' /\ WaitersInv'
  BY <1>5, GoroutineKeeps
<1>6. ASSUME NEW c \in Conns, Retire(c) \/ Refill(c)
      PROVE  HoldersInv' /\ WaitersInv'
  <2>1. waiting' = waiting /\ request' = request /\ goroutine' = goroutine
    BY <1>6 DEF Retire, Refill
  <2>2. \A a \in Actors : Held(a)' = Held(a)
    BY <1>6, DbAssumption DEF Retire, Refill, Idle, Closed, Held, TypeOK, Actors
  <2>. QED  BY <2>1, <2>2, NobodyMoves
<1>7. CASE Outage \/ Disable \/ Reset \/ (\E on \in BOOLEAN : SlowQuery(on)) \/ UNCHANGED vars
  <2>1. waiting' = waiting /\ request' = request /\ goroutine' = goroutine /\ owner' = owner
    BY <1>7 DEF Outage, Disable, Reset, SlowQuery, vars
  <2>2. \A a \in Actors : Held(a)' = Held(a)
    BY <2>1 DEF Held
  <2>. QED  BY <2>1, <2>2, NobodyMoves
<1>. QED  BY <1>1, <1>2, <1>3, <1>4, <1>5, <1>6, <1>7 DEF Next

\* Who is in the queue is in it at one place.
LEMMA OncePerWaiter ==
  ASSUME NEW q \in Seq(Actors), IsInjective(q), NEW a
  PROVE  Cardinality({k \in DOMAIN q : q[k] = a}) = IF a \in Range(q) THEN 1 ELSE 0
<1>. DEFINE places == {k \in DOMAIN q : q[k] = a}
<1>1. CASE a \in Range(q)
  <2>1. PICK k \in DOMAIN q : q[k] = a
    BY <1>1 DEF Range
  <2>2. places = {k}
    BY <2>1 DEF IsInjective
  <2>. QED  BY <1>1, <2>2, FS_Singleton
<1>2. CASE a \notin Range(q)
  <2>1. places = {}
    BY <1>2 DEF Range
  <2>. QED  BY <1>2, <2>1, FS_EmptySet
<1>. QED  BY <1>1, <1>2

\* No connection is lost and none is used twice, and who waits is in the
\* queue once, whatever comes between a request and its connections: the end
\* of its context, an outage of the database, several exhaustion goroutines.
THEOREM PoolAccounts == Spec => []ConnectionsAccounted
<1>1. Init => HoldersInv /\ WaitersInv
  BY IInvInit
<1>2. IInv /\ [Next]_vars => HoldersInv' /\ WaitersInv'
  BY IInvStep DEF IInv
<1>3. IInv => ConnectionsAccounted
  <2>. SUFFICES ASSUME TypeOK, HoldersInv, WaitersInv PROVE ConnectionsAccounted
    BY DEF IInv
  <2>1. ASSUME NEW r \in Requests
        PROVE  Cardinality(Held(r)) = IF request[r].at = "run" THEN 1 ELSE 0
    <3>1. CASE request[r].at = "run"
      <4>1. PICK c \in Conns : Held(r) = {c}
        BY <3>1 DEF HoldersInv
      <4>. QED  BY <3>1, <4>1, FS_Singleton
    <3>2. CASE request[r].at # "run"
      BY <3>2, FS_EmptySet DEF HoldersInv
    <3>. QED  BY <3>1, <3>2
  <2>2. \A i \in Injections : /\ Cardinality(Held(i)) <= Wanted
                              /\ goroutine[i] = "off" => Held(i) = {}
    BY DEF HoldersInv
  <2>3. ASSUME NEW a \in Actors
        PROVE  Cardinality({k \in DOMAIN waiting : waiting[k] = a}) =
                 IF (IF a \in Requests THEN request[a].at ELSE goroutine[a]) = "wait" THEN 1 ELSE 0
    <3>1. waiting \in Seq(Actors) /\ IsInjective(waiting)
      BY DEF TypeOK, WaitersInv
    <3>2. Cardinality({k \in DOMAIN waiting : waiting[k] = a}) = IF a \in Range(waiting) THEN 1 ELSE 0
      BY <3>1, OncePerWaiter
    <3>3. a \in Range(waiting) <=> At(a) = "wait"
      BY DEF WaitersInv
    <3>. QED  BY <3>2, <3>3 DEF At
  <2>. QED  BY <2>1, <2>2, <2>3 DEF ConnectionsAccounted
<1>. QED  BY <1>1, <1>2, <1>3, PoolTypeCorrect, PTL DEF Spec, IInv
=============================================================================
