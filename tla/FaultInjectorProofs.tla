------------------------- MODULE FaultInjectorProofs -------------------------
(***************************************************************************)
(* Theorems about FaultInjector and ApiGateway, for any number of          *)
(* concurrent requests and any limits and percentages.                     *)
(***************************************************************************)
EXTENDS FaultInjector, FiniteSetTheorems, WellFoundedInduction, TLAPS

(***************************************************************************)
(* The invariant.                                                          *)
(***************************************************************************)
\* No time is seen before it has come; and as long as requests keep out of
\* each other's way in the limiter, the one in it has seen the present, and
\* the counter has counted, since the window was opened, all that has passed.
LimiterInv ==
  /\ windowStart <= now
  /\ \A s \in Slots : request[s].seen <= now /\ (InLimiter(s) => request[s].arg \in Limits)
  /\ alone =>
       /\ \A s, t \in Slots : InLimiter(s) /\ InLimiter(t) => s = t
       /\ passed <= counter /\ passed <= Max({0} \cup Limits)
       /\ windowStart < now => passed = 0
       /\ \A s \in Slots :
            /\ request[s].at \in {"window", "store"} => request[s].seen = now
            /\ request[s].at \in {"store", "zero"} => passed = 0
            /\ request[s].at \in {"zero", "count"} => windowStart = now

\* Only the injector's requests change a fault, and the one in a free slot is
\* nobody's.
SenderInv ==
  /\ \A s \in Slots :
       /\ request[s].from = "none" <=> request[s].at = "free"
       /\ request[s].from = "client" => request[s].op = "order"
       /\ request[s].from = "injector" => request[s].op \in Faults \cup {"reset"}
       /\ request[s].op = "auth" => request[s].value \in Percents
       /\ request[s].op = "limit" => request[s].value \in Limits
       /\ request[s].at = "reset" => request[s].op = "reset"
  /\ awaits # None => request[awaits].from = "injector"

\* While a trigger of a fault in sure is in progress, or after its OK, no stray
\* is about the fault; the trigger has set what it was asked once it has done its
\* work, and its OK stands for that until the next command.
SaidInv ==
  \A f \in sure :
    /\ Disputed(f) \/ said[f].level = "OK" => Strays(f) = {}
    /\ Disputed(f) =>
         /\ request[awaits].op = f
         /\ request[awaits].at = "ok" => Setting(f) = request[awaits].value
    /\ said[f].level = "OK" /\ ~Disputed(f) => Setting(f) = said[f].value

IInv == TypeOK /\ LimiterInv /\ SenderInv /\ SaidInv

(***************************************************************************)
(* One request moves on and the others stay where they are.                *)
(***************************************************************************)
Places == {"free", "limit", "clock", "window", "store", "zero", "count", "auth", "reject", "handle", "reset"}
            \cup Answers

Values == {0} \cup Limits \cup Percents

Moved(s, at, seen, arg) ==
  /\ request' \in [Slots -> Requests]
  /\ request'[s].at = at /\ request'[s].seen = seen /\ request'[s].arg = arg
  /\ request'[s].from = request[s].from /\ request'[s].op = request[s].op
  /\ request'[s].value = request[s].value
  /\ \A t \in Slots \ {s} : request'[t] = request[t]

LEMMA GoMoves ==
  ASSUME GatewayTypeOK, NEW s \in Slots, NEW at \in Places, NEW seen \in 0..MaxNow,
         NEW arg \in Values, Go(s, at, seen, arg)
  PROVE  Moved(s, at, seen, arg)
  BY DEF GatewayTypeOK, Requests, Go, Moved, Places, Values

\* The numbers a request has loaded, and those it may load.
LEMMA Loaded ==
  ASSUME GatewayTypeOK, NEW s \in Slots
  PROVE  /\ request[s].seen \in 0..MaxNow /\ request[s].arg \in Values
         /\ request[s].value \in Values /\ request[s].at \in Places
         /\ request[s].from \in {"none", "client", "injector"}
         /\ 0 \in 0..MaxNow /\ now \in 0..MaxNow /\ 0 \in Values
         /\ limit \in Values /\ authPct \in Values /\ Values \subseteq Nat
<1>1. request[s] \in Requests
  BY DEF GatewayTypeOK
<1>. QED  BY <1>1, GatewayAssumption DEF GatewayTypeOK, Requests, Places, Values

\* A request that is handled changes the fault it is about, and that before it
\* is answered "ok".
LEMMA HandleEffect ==
  ASSUME GatewayTypeOK, SenderInv, NEW s \in Slots, Handle(s)
  PROVE  /\ GatewayTypeOK'
         /\ \A t \in Slots \ {s} : request'[t] = request[t]
         /\ request'[s].from = request[s].from /\ request'[s].op = request[s].op
         /\ request'[s].value = request[s].value
         /\ request[s].at # "free" /\ request'[s].at # "free"
         /\ request'[s].at = "reset" => request[s].op = "reset"
         /\ request[s].op \notin {"auth", "reset"} => authPct' = authPct
         /\ request[s].op \notin {"limit", "reset"} => limit' = limit
         /\ request[s].op = "auth" /\ request'[s].at = "ok" => authPct' = request[s].value
         /\ request[s].op = "limit" /\ request'[s].at = "ok" => limit' = request[s].value
<1>. DEFINE r == request[s]
<1>1. /\ r.seen \in 0..MaxNow /\ r.arg \in Values /\ r.value \in Values
      /\ 0 \in 0..MaxNow /\ now \in 0..MaxNow /\ 0 \in Values /\ limit \in Values /\ authPct \in Values
  BY Loaded
<1>2. /\ r.op = "auth" => r.value \in Percents
      /\ r.op = "limit" => r.value \in Limits
      /\ r.at = "reset" => r.op = "reset"
  BY DEF SenderInv
<1>. HIDE DEF r
<1>. USE DEF Places, Answers
<1>3. CASE LoadLimit(s)
  <2>1. r.at = "limit" /\ UNCHANGED <<limit, authPct, counter, windowStart, now, passed>>
        /\ alone' \in BOOLEAN
    BY <1>3 DEF LoadLimit, r, GatewayTypeOK
  <2>2. \E at \in {"clock", "auth"}, seen \in 0..MaxNow, arg \in Values : Moved(s, at, seen, arg)
    BY <1>1, <1>3, GoMoves DEF LoadLimit
  <2>. QED  BY <2>1, <2>2 DEF Moved, GatewayTypeOK, r
<1>11. CASE ReadClock(s)
  <2>1. r.at = "clock" /\ UNCHANGED <<limit, authPct, counter, windowStart, now, passed, alone>>
    BY <1>11 DEF ReadClock, r
  <2>2. Moved(s, "window", now, r.arg)
    BY <1>1, <1>11, GoMoves DEF ReadClock, r
  <2>. QED  BY <2>1, <2>2 DEF Moved, GatewayTypeOK, r
<1>4. CASE CheckWindow(s)
  <2>1. r.at = "window" /\ UNCHANGED <<limit, authPct, counter, windowStart, now, passed, alone>>
    BY <1>4 DEF CheckWindow, r
  <2>2. \E at \in {"store", "count"}, seen \in 0..MaxNow, arg \in Values : Moved(s, at, seen, arg)
    BY <1>1, <1>4, GoMoves DEF CheckWindow, r
  <2>. QED  BY <2>1, <2>2 DEF Moved, GatewayTypeOK, r
<1>5. CASE StoreWindow(s)
  <2>1. r.at = "store" /\ UNCHANGED <<limit, authPct, counter, now, passed, alone>>
        /\ windowStart' = r.seen
    BY <1>5 DEF StoreWindow, r
  <2>2. Moved(s, "zero", 0, r.arg)
    BY <1>1, <1>5, GoMoves DEF StoreWindow, r
  <2>. QED  BY <1>1, <2>1, <2>2 DEF Moved, GatewayTypeOK, r
<1>6. CASE ZeroCounter(s)
  <2>1. r.at = "zero" /\ UNCHANGED <<limit, authPct, windowStart, now, passed, alone>>
        /\ counter' = 0
    BY <1>6 DEF ZeroCounter, r
  <2>2. Moved(s, "count", 0, r.arg)
    BY <1>1, <1>6, GoMoves DEF ZeroCounter, r
  <2>. QED  BY <1>1, <2>1, <2>2, GatewayAssumption DEF Moved, GatewayTypeOK, r
<1>7. CASE Count(s)
  <2>1. r.at = "count" /\ UNCHANGED <<limit, authPct, windowStart, now, alone>>
        /\ counter' \in 0..MaxCount /\ passed' \in Nat
    BY <1>7, GatewayAssumption DEF Count, r, GatewayTypeOK
  <2>2. Moved(s, "limited", 0, 0) \/ Moved(s, "auth", 0, 0)
    BY <1>1, <1>7, GoMoves DEF Count
  <2>. QED  BY <2>1, <2>2 DEF Moved, GatewayTypeOK, r
<1>8. CASE LoadAuth(s) \/ Reject(s)
  <2>1. r.at \in {"auth", "reject"}
        /\ UNCHANGED <<limit, authPct, counter, windowStart, now, passed, alone>>
    BY <1>8 DEF LoadAuth, Reject, r
  <2>2. \E at \in {"reject", "handle", "unauthorized"}, arg \in Values : Moved(s, at, 0, arg)
    BY <1>1, <1>8, GoMoves DEF LoadAuth, Reject
  <2>. QED  BY <2>1, <2>2 DEF Moved, GatewayTypeOK, r
<1>9. CASE HandleOrder(s) \/ FaultAuth(s) \/ FaultRateLimit(s) \/ ResetLimit(s)
  <2>1. /\ r.at \in {"handle", "reset"} /\ UNCHANGED <<counter, windowStart, now, passed, alone>>
        /\ authPct' = IF FaultAuth(s) THEN r.value ELSE authPct
        /\ \/ r.op \in {"order", "auth"} /\ limit' = limit
           \/ r.op = "limit" /\ limit' = r.value
           \/ r.op = "reset" /\ limit' = 0
        /\ FaultAuth(s) <=> r.op = "auth"
    BY <1>2, <1>9 DEF HandleOrder, FaultAuth, FaultRateLimit, ResetLimit, r
  <2>2. Moved(s, "ok", 0, 0)
    BY <1>1, <1>9, GoMoves DEF HandleOrder, FaultAuth, FaultRateLimit, ResetLimit
  <2>. QED  BY <1>1, <1>2, <2>1, <2>2 DEF Moved, GatewayTypeOK, r
<1>10. CASE ResetAuth(s)
  <2>1. r.at = "handle" /\ r.op = "reset" /\ authPct' = 0
        /\ UNCHANGED <<limit, counter, windowStart, now, passed, alone>>
    BY <1>10 DEF ResetAuth, r
  <2>2. Moved(s, "reset", 0, 0)
    BY <1>1, <1>10, GoMoves DEF ResetAuth
  <2>. QED  BY <2>1, <2>2 DEF Moved, GatewayTypeOK, r
<1>. QED  BY <1>3, <1>4, <1>5, <1>6, <1>7, <1>8, <1>9, <1>10, <1>11 DEF Handle

(***************************************************************************)
(* The limiter.                                                            *)
(***************************************************************************)
\* A finite set of numbers has a largest: were there a larger one for each,
\* the numbers above it would become fewer for ever.
LEMMA LargestExists ==
  ASSUME NEW S \in SUBSET Nat, IsFiniteSet(S), S # {}
  PROVE  Max(S) \in S /\ \A x \in S : x <= Max(S)
<1>. DEFINE Above(x) == {y \in S : y > x}
            Tails == {Above(x) : x \in S}
<1>1. Tails \subseteq FiniteSubsetsOf(S) /\ Tails # {}
  <2>1. \A x \in S : Above(x) \in SUBSET S
    OBVIOUS
  <2>2. FiniteSubsetsOf(S) = SUBSET S
    BY FS_FiniteSubsetsOfFinite
  <2>3. Tails # {}
    OBVIOUS
  <2>4. Tails \subseteq SUBSET S
    BY <2>1
  <2>. QED  BY <2>2, <2>3, <2>4
<1>2. PICK t \in Tails : \A u \in Tails : <<u, t>> \notin StrictSubsetOrdering(S)
  <2>1. IsWellFoundedOn(StrictSubsetOrdering(S), FiniteSubsetsOf(S))
    BY FS_StrictSubsetOrderingWellFounded
  <2>. HIDE DEF Tails
  <2>. QED  BY <1>1, <2>1, WFMin
<1>3. PICK m \in S : t = Above(m)
  BY <1>2
<1>4. \A x \in S : m >= x
  <2>. SUFFICES ASSUME NEW x \in S, x > m PROVE FALSE
    OBVIOUS
  <2>1. Above(x) \subseteq Above(m) /\ x \in Above(m) /\ x \notin Above(x)
    <3>1. x \in Nat /\ m \in Nat /\ \A y \in S : y \in Nat
      OBVIOUS
    <3>2. ASSUME NEW y \in Above(x) PROVE y \in Above(m)
      <4>1. y \in S /\ y > x /\ y \in Nat
        BY <3>1
      <4>2. y > m
        BY <3>1, <4>1
      <4>. QED  BY <4>1, <4>2
    <3>3. x \in Above(m) /\ ~(x > x)
      BY <3>1
    <3>. QED  BY <3>2, <3>3
  <2>2. <<Above(x), Above(m)>> \in StrictSubsetOrdering(S)
    BY <2>1 DEF StrictSubsetOrdering
  <2>. QED  BY <1>2, <1>3, <2>2
<1>5. Max(S) \in S /\ \A x \in S : Max(S) >= x
  BY <1>4 DEF Max
<1>. QED  BY <1>5

LEMMA LimitsHaveMax ==
  /\ Max({0} \cup Limits) \in Nat
  /\ \A l \in Limits : l <= Max({0} \cup Limits)
<1>. DEFINE S == {0} \cup Limits
<1>1. S \in SUBSET Nat /\ IsFiniteSet(S) /\ S # {}
  <2>1. IsFiniteSet(Limits \cup {0}) /\ S = Limits \cup {0}
    BY GatewayAssumption, FS_AddElement
  <2>. QED  BY <2>1, GatewayAssumption
<1>. HIDE DEF S
<1>2. Max(S) \in S /\ \A x \in S : x <= Max(S)
  BY <1>1, LargestExists
<1>. QED  BY <1>1, <1>2 DEF S

\* Outside the limiter a request leaves no trace in it.
LEMMA OutsideKeeps ==
  ASSUME GatewayTypeOK, LimiterInv, NEW s \in Slots,
         \E at \in Places, arg \in Values : Moved(s, at, 0, arg),
         ~InLimiter(s), ~InLimiter(s)',
         UNCHANGED <<counter, windowStart, now, passed, alone>>
  PROVE  LimiterInv'
<1>1. request'[s].seen = 0 /\ \A t \in Slots \ {s} : request'[t] = request[t]
  BY DEF Moved
<1>2. 0 <= now
  BY DEF GatewayTypeOK
<1>. QED  BY <1>1, <1>2 DEF LimiterInv, InLimiter

LEMMA LimiterStep ==
  ASSUME GatewayTypeOK, LimiterInv, NEW s \in Slots, Handle(s)
  PROVE  LimiterInv'
<1>. DEFINE r == request[s]
            M == Max({0} \cup Limits)
<1>1. /\ r.seen \in 0..MaxNow /\ r.arg \in Values /\ r.value \in Values
      /\ 0 \in 0..MaxNow /\ now \in 0..MaxNow /\ 0 \in Values /\ limit \in Values /\ authPct \in Values
  BY Loaded
<1>2. /\ counter \in Nat /\ windowStart \in Nat /\ now \in Nat /\ passed \in Nat
      /\ r.seen \in Nat /\ r.seen <= now /\ limit \in Nat /\ limit \in {0} \cup Limits
      /\ alone \in BOOLEAN
  BY <1>1, GatewayAssumption DEF GatewayTypeOK, LimiterInv
<1>3. /\ windowStart <= now
      /\ \A t \in Slots : request[t].seen <= now /\ (InLimiter(t) => request[t].arg \in Limits)
  BY DEF LimiterInv
<1>4. alone =>
        /\ \A t, u \in Slots : InLimiter(t) /\ InLimiter(u) => t = u
        /\ passed <= counter /\ passed <= M
        /\ windowStart < now => passed = 0
        /\ \A t \in Slots :
             /\ request[t].at \in {"window", "store"} => request[t].seen = now
             /\ request[t].at \in {"store", "zero"} => passed = 0
             /\ request[t].at \in {"zero", "count"} => windowStart = now
  BY DEF LimiterInv
<1>5. M \in Nat /\ \A l \in Limits : l <= M
  BY LimitsHaveMax
<1>. HIDE DEF r, M
<1>. USE DEF Places, Answers
<1>6. CASE LoadLimit(s)
  <2>1. r.at = "limit" /\ UNCHANGED <<limit, authPct, counter, windowStart, now, passed>>
        /\ alone' = (alone /\ (limit > 0 => \A t \in Slots \ {s} : ~InLimiter(t)))
    BY <1>6 DEF LoadLimit, r
  <2>2. IF limit > 0 THEN Moved(s, "clock", 0, limit) ELSE Moved(s, "auth", 0, 0)
    BY <1>1, <1>6, GoMoves DEF LoadLimit
  <2>3. CASE limit > 0
    <3>1. /\ request'[s].at = "clock" /\ request'[s].seen = 0 /\ request'[s].arg \in Limits
          /\ \A t \in Slots \ {s} : request'[t] = request[t]
      BY <1>2, <2>2, <2>3 DEF Moved
    <3>2. \A t \in Slots : request'[t].seen <= now /\ (InLimiter(t)' => request'[t].arg \in Limits)
      BY <1>2, <1>3, <3>1 DEF InLimiter
    <3>3. ASSUME alone'
          PROVE  /\ alone
                 /\ \A t \in Slots : InLimiter(t)' => t = s
                 /\ \A t \in Slots \ {s} : request'[t].at \notin {"clock", "window", "store", "zero", "count"}
      BY <2>1, <2>3, <3>1, <3>3 DEF InLimiter
    <3>. QED  BY <1>2, <1>3, <1>4, <2>1, <3>1, <3>2, <3>3 DEF LimiterInv, M
  <2>4. CASE ~(limit > 0)
    <3>1. Moved(s, "auth", 0, 0)
      BY <2>2, <2>4
    <3>2. /\ ~InLimiter(s) /\ ~InLimiter(s)'
      BY <2>1, <3>1 DEF InLimiter, r, Moved
    <3>3. UNCHANGED alone
      BY <1>2, <2>1, <2>4
    <3>. QED  BY <1>1, <2>1, <3>1, <3>2, <3>3, OutsideKeeps
  <2>. QED  BY <2>3, <2>4
<1>12. CASE ReadClock(s)
  <2>1. r.at = "clock" /\ UNCHANGED <<limit, authPct, counter, windowStart, now, passed, alone>>
    BY <1>12 DEF ReadClock, r
  <2>2. Moved(s, "window", now, r.arg)
    BY <1>1, <1>12, GoMoves DEF ReadClock, r
  <2>3. /\ request'[s].at = "window" /\ request'[s].seen = now /\ request'[s].arg = r.arg
        /\ \A t \in Slots \ {s} : request'[t] = request[t]
    BY <2>2 DEF Moved
  <2>. QED  BY <1>2, <1>3, <1>4, <2>1, <2>3 DEF LimiterInv, InLimiter, M, r
<1>7. CASE CheckWindow(s)
  <2>1. r.at = "window" /\ UNCHANGED <<limit, authPct, counter, windowStart, now, passed, alone>>
    BY <1>7 DEF CheckWindow, r
  <2>2. Moved(s, IF r.seen > windowStart THEN "store" ELSE "count", r.seen, r.arg)
    BY <1>1, <1>7, GoMoves DEF CheckWindow, r
  <2>3. /\ request'[s].at = IF r.seen > windowStart THEN "store" ELSE "count"
        /\ request'[s].seen = r.seen /\ request'[s].arg = r.arg
        /\ \A t \in Slots \ {s} : request'[t] = request[t]
    BY <2>2 DEF Moved
  <2>. QED  BY <1>2, <1>3, <1>4, <2>1, <2>3 DEF LimiterInv, InLimiter, M, r
<1>8. CASE StoreWindow(s)
  <2>1. r.at = "store" /\ UNCHANGED <<limit, authPct, counter, now, passed, alone>>
        /\ windowStart' = r.seen
    BY <1>8 DEF StoreWindow, r
  <2>2. Moved(s, "zero", 0, r.arg)
    BY <1>1, <1>8, GoMoves DEF StoreWindow, r
  <2>3. /\ request'[s].at = "zero" /\ request'[s].seen = 0 /\ request'[s].arg = r.arg
        /\ \A t \in Slots \ {s} : request'[t] = request[t]
    BY <2>2 DEF Moved
  <2>. QED  BY <1>2, <1>3, <1>4, <2>1, <2>3 DEF LimiterInv, InLimiter, M, r
<1>9. CASE ZeroCounter(s)
  <2>1. r.at = "zero" /\ UNCHANGED <<limit, authPct, windowStart, now, passed, alone>>
        /\ counter' = 0
    BY <1>9 DEF ZeroCounter, r
  <2>2. Moved(s, "count", 0, r.arg)
    BY <1>1, <1>9, GoMoves DEF ZeroCounter, r
  <2>3. /\ request'[s].at = "count" /\ request'[s].seen = 0 /\ request'[s].arg = r.arg
        /\ \A t \in Slots \ {s} : request'[t] = request[t]
    BY <2>2 DEF Moved
  <2>. QED  BY <1>2, <1>3, <1>4, <2>1, <2>3 DEF LimiterInv, InLimiter, M, r
<1>10. CASE Count(s)
  <2>1. /\ r.at = "count" /\ UNCHANGED <<limit, authPct, windowStart, now, alone>>
        /\ counter' = counter + 1
        /\ passed' = IF counter' > r.arg THEN passed ELSE passed + 1
    BY <1>10 DEF Count, r
  <2>2. \E at \in {"limited", "auth"} : Moved(s, at, 0, 0)
    BY <1>1, <1>10, GoMoves DEF Count
  <2>3. /\ request'[s].at \in {"limited", "auth"} /\ request'[s].seen = 0
        /\ \A t \in Slots \ {s} : request'[t] = request[t]
    BY <2>2 DEF Moved
  <2>4. r.arg \in Limits /\ r.arg \in Nat /\ r.arg <= M
    BY <1>3, <1>5, <2>1, GatewayAssumption DEF InLimiter, r
  <2>5. alone => windowStart = now /\ passed <= counter /\ passed <= M
    BY <1>4, <2>1 DEF r
  <2>6. alone' => passed' <= counter' /\ passed' <= M /\ windowStart' = now'
    BY <1>2, <1>5, <2>1, <2>4, <2>5
  <2>7. \A t \in Slots \ {s} : InLimiter(t) => ~alone
    BY <1>4, <2>1 DEF InLimiter, r
  <2>. QED  BY <1>2, <1>3, <1>4, <2>1, <2>3, <2>6, <2>7 DEF LimiterInv, InLimiter, M, r
<1>11. CASE \/ LoadAuth(s) \/ Reject(s) \/ HandleOrder(s) \/ FaultAuth(s) \/ FaultRateLimit(s)
            \/ ResetAuth(s) \/ ResetLimit(s)
  <2>1. r.at \in {"auth", "reject", "handle", "reset"}
        /\ UNCHANGED <<counter, windowStart, now, passed, alone>>
    BY <1>11 DEF LoadAuth, Reject, HandleOrder, FaultAuth, FaultRateLimit, ResetAuth, ResetLimit, r
  <2>2. \E at \in {"reject", "handle", "unauthorized", "ok", "reset"}, arg \in Values :
          Moved(s, at, 0, arg)
    BY <1>1, <1>11, GoMoves
       DEF LoadAuth, Reject, HandleOrder, FaultAuth, FaultRateLimit, ResetAuth, ResetLimit
  <2>3. ~InLimiter(s) /\ ~InLimiter(s)'
    BY <2>1, <2>2 DEF InLimiter, r, Moved
  <2>. QED  BY <2>1, <2>2, <2>3, OutsideKeeps
<1>. QED  BY <1>6, <1>7, <1>8, <1>9, <1>10, <1>11, <1>12 DEF Handle

(***************************************************************************)
(* A request arrives, an answer leaves, time passes, the gateway restarts. *)
(***************************************************************************)
LEMMA SendKeeps ==
  ASSUME GatewayTypeOK, LimiterInv, NEW s \in Slots, NEW from \in {"client", "injector"},
         NEW r \in Ops, Send(s, from, r)
  PROVE  /\ GatewayTypeOK' /\ LimiterInv'
         /\ request[s].at = "free"
         /\ \A t \in Slots \ {s} : request'[t] = request[t]
         /\ request'[s].from = from /\ request'[s].op = r.op /\ request'[s].value = r.value
         /\ request'[s].at = "limit"
         /\ UNCHANGED <<limit, authPct>>
<1>1. /\ r.op \in {"order", "reset", "limit", "auth"} /\ r.value \in Values
  BY DEF Ops, Values
<1>2. UNCHANGED <<limit, authPct, counter, windowStart, now, passed, alone>>
      /\ request[s].at = "free"
  BY DEF Send
<1>3. /\ request' \in [Slots -> Requests]
      /\ \A t \in Slots \ {s} : request'[t] = request[t]
      /\ request'[s].from = from /\ request'[s].op = r.op /\ request'[s].value = r.value
      /\ request'[s].at = "limit" /\ request'[s].seen = 0
  <2>1. request' = [request EXCEPT ![s] =
          [at |-> "limit", from |-> from, op |-> r.op, value |-> r.value, seen |-> 0, arg |-> 0]]
    BY DEF Send
  <2>2. [at |-> "limit", from |-> from, op |-> r.op, value |-> r.value, seen |-> 0, arg |-> 0]
          \in Requests
    BY <1>1, GatewayAssumption DEF Requests, Values
  <2>. QED  BY <2>1, <2>2 DEF GatewayTypeOK
<1>4. LimiterInv'
  BY <1>2, <1>3 DEF LimiterInv, InLimiter, GatewayTypeOK
<1>. QED  BY <1>2, <1>3, <1>4 DEF GatewayTypeOK

LEMMA AnswerKeeps ==
  ASSUME GatewayTypeOK, LimiterInv, NEW s \in Slots, Answer(s)
  PROVE  /\ GatewayTypeOK' /\ LimiterInv'
         /\ request[s].at \in Answers
         /\ \A t \in Slots \ {s} : request'[t] = request[t]
         /\ request'[s] = Free
         /\ UNCHANGED <<limit, authPct>>
<1>1. UNCHANGED <<limit, authPct, counter, windowStart, now, passed, alone>>
      /\ request[s].at \in Answers
  BY DEF Answer
<1>2. Free \in Requests
  BY GatewayAssumption DEF Free, Requests
<1>3. /\ request' \in [Slots -> Requests]
      /\ \A t \in Slots \ {s} : request'[t] = request[t]
      /\ request'[s] = Free
  BY <1>2 DEF Answer, GatewayTypeOK
<1>4. Free.at = "free" /\ Free.seen = 0
  BY DEF Free
<1>5. LimiterInv'
  BY <1>1, <1>3, <1>4 DEF LimiterInv, InLimiter, GatewayTypeOK
<1>. QED  BY <1>1, <1>3, <1>5 DEF GatewayTypeOK

LEMMA TickKeeps ==
  ASSUME GatewayTypeOK, LimiterInv, Tick
  PROVE  /\ GatewayTypeOK' /\ LimiterInv'
         /\ UNCHANGED <<request, limit, authPct>>
<1>1. /\ now' = now + 1 /\ passed' = 0 /\ now < MaxNow
      /\ alone' = \A s \in Slots : ~InLimiter(s)
      /\ UNCHANGED <<request, limit, authPct, counter, windowStart>>
  BY DEF Tick
<1>2. /\ now \in Nat /\ windowStart \in Nat /\ counter \in Nat
      /\ \A s \in Slots : request[s].seen \in Nat
  BY GatewayAssumption, Loaded DEF GatewayTypeOK
<1>3. GatewayTypeOK'
  <2>1. now' \in 1..MaxNow
    BY <1>1, <1>2, GatewayAssumption
  <2>2. alone' \in BOOLEAN
    BY <1>1
  <2>. QED  BY <1>1, <2>1, <2>2 DEF GatewayTypeOK
<1>4. LimiterInv'
  BY <1>1, <1>2, LimitsHaveMax DEF LimiterInv, InLimiter
<1>. QED  BY <1>1, <1>3, <1>4

\* A gateway that has just started, at whatever time.
LEMMA FreshGateway ==
  ASSUME request = [s \in Slots |-> Free], limit = 0, authPct = 0, counter = 0, windowStart = 0,
         passed = 0, alone = TRUE, now \in 1..MaxNow
  PROVE  GatewayTypeOK /\ LimiterInv
<1>1. Free \in Requests /\ Free.at = "free" /\ Free.seen = 0
  BY GatewayAssumption DEF Free, Requests
<1>2. \A s \in Slots : request[s] = Free
  OBVIOUS
<1>3. GatewayTypeOK
  BY <1>1, GatewayAssumption DEF GatewayTypeOK
<1>4. LimiterInv
  BY <1>1, <1>2, LimitsHaveMax DEF LimiterInv, InLimiter
<1>. QED  BY <1>3, <1>4

LEMMA IInvInit == Init => IInv
<1>. SUFFICES ASSUME Init PROVE IInv
  OBVIOUS
<1>1. /\ request = [s \in Slots |-> Free] /\ limit = 0 /\ authPct = 0 /\ counter = 0
      /\ windowStart = 0 /\ passed = 0 /\ alone = TRUE /\ now \in 1..MaxNow
      /\ awaits = None /\ said \in [Faults -> Lines] /\ sure = {}
  BY GatewayAssumption DEF Init, GatewayInit, Nothing, Lines
<1>2. GatewayTypeOK /\ LimiterInv
  BY <1>1, FreshGateway
<1>3. Free.at = "free" /\ Free.from = "none" /\ Free.op = "none"
  BY DEF Free
<1>. QED  BY <1>1, <1>2, <1>3 DEF IInv, TypeOK, SenderInv, SaidInv

\* What a command prints changes what is said of the faults it is about.
LEMMA Reported ==
  ASSUME said \in [Faults -> Lines], NEW r, NEW failed \in BOOLEAN,
         r.op \in Faults \cup {"reset"}, r.value \in Values, Report(r, failed)
  PROVE  /\ said' \in [Faults -> Lines]
         /\ \A f \in Faults \ About(r.op) : said'[f] = said[f]
         /\ r.op # "reset" =>
              /\ said'[r.op].level = IF failed THEN "ERR" ELSE "OK"
              /\ said'[r.op].value = r.value
<1>. DEFINE line == IF r.op = "reset" THEN [level |-> "OK", value |-> 0, active |-> FALSE]
                    ELSE [level |-> IF failed THEN "ERR" ELSE "OK", value |-> r.value,
                          active |-> TRUE]
<1>1. /\ line \in Lines
      /\ r.op # "reset" =>
           line.level = (IF failed THEN "ERR" ELSE "OK") /\ line.value = r.value
  BY DEF Lines, Values
<1>2. said' = [f \in Faults |-> IF f \in About(r.op) THEN line ELSE said[f]]
  BY DEF Report
<1>. HIDE DEF line
<1>3. r.op # "reset" => r.op \in About(r.op)
  BY DEF About
<1>. QED  BY <1>1, <1>2, <1>3

LEMMA RestartKeeps ==
  ASSUME IInv, Restart
  PROVE  IInv'
<1>1. /\ request' = [s \in Slots |-> Free] /\ limit' = 0 /\ authPct' = 0 /\ counter' = 0
      /\ windowStart' = 0 /\ passed' = 0 /\ alone' = TRUE /\ now' \in 1..MaxNow
      /\ awaits' = None /\ sure' = {}
  BY DEF Restart, GatewayRestart, IInv, TypeOK, GatewayTypeOK
<1>2. GatewayTypeOK' /\ LimiterInv'
  <2>1. Free \in Requests /\ Free.at = "free" /\ Free.seen = 0
    BY GatewayAssumption DEF Free, Requests
  <2>2. \A s \in Slots : request'[s] = Free
    BY <1>1
  <2>3. GatewayTypeOK'
    BY <1>1, <2>1, GatewayAssumption DEF GatewayTypeOK
  <2>. QED  BY <1>1, <2>1, <2>2, <2>3, LimitsHaveMax DEF LimiterInv, InLimiter
<1>3. Free.at = "free" /\ Free.from = "none" /\ Free.op = "none"
  BY DEF Free
<1>4. said' \in [Faults -> Lines]
  <2>1. CASE awaits = None
    BY <2>1 DEF Restart, IInv, TypeOK
  <2>2. CASE awaits # None
    <3>1. awaits \in Slots /\ Report(request[awaits], TRUE)
      BY <2>2 DEF Restart, IInv, TypeOK
    <3>2. request[awaits].op \in Faults \cup {"reset"} /\ request[awaits].value \in Values
      BY <2>2, <3>1, Loaded DEF IInv, TypeOK, SenderInv
    <3>. QED  BY <3>1, <3>2, Reported DEF IInv, TypeOK
  <2>. QED  BY <2>1, <2>2
<1>. QED  BY <1>1, <1>2, <1>3, <1>4 DEF IInv, TypeOK, SenderInv, SaidInv

(***************************************************************************)
(* The injector and the clients.                                           *)
(***************************************************************************)
LEMMA HandleKeeps ==
  ASSUME IInv, NEW s \in Slots, Handle(s), UNCHANGED <<awaits, said, sure>>
  PROVE  IInv'
<1>. USE DEF IInv, TypeOK
<1>1. /\ GatewayTypeOK'
      /\ \A t \in Slots \ {s} : request'[t] = request[t]
      /\ request'[s].from = request[s].from /\ request'[s].op = request[s].op
      /\ request'[s].value = request[s].value
      /\ request[s].at # "free" /\ request'[s].at # "free"
      /\ request'[s].at = "reset" => request[s].op = "reset"
  BY HandleEffect
<1>2. /\ request[s].op \notin {"auth", "reset"} => authPct' = authPct
      /\ request[s].op \notin {"limit", "reset"} => limit' = limit
      /\ request[s].op = "auth" /\ request'[s].at = "ok" => authPct' = request[s].value
      /\ request[s].op = "limit" /\ request'[s].at = "ok" => limit' = request[s].value
  BY HandleEffect
<1>3. LimiterInv'
  BY LimiterStep
<1>4. SenderInv'
  <2>1. \A t \in Slots : /\ request'[t].from = request[t].from /\ request'[t].op = request[t].op
                         /\ request'[t].value = request[t].value
                         /\ request'[t].at = "free" <=> request[t].at = "free"
    BY <1>1
  <2>. QED  BY <1>1, <2>1 DEF SenderInv
<1>5. SaidInv'
  <2>. SUFFICES ASSUME NEW f \in sure, Disputed(f) \/ said[f].level = "OK"
                PROVE  /\ Strays(f)' = {}
                       /\ Disputed(f)' =>
                            /\ request'[awaits].op = f
                            /\ request'[awaits].at = "ok" => Setting(f)' = request'[awaits].value
                       /\ said[f].level = "OK" /\ ~Disputed(f)' => Setting(f)' = said[f].value
    BY <1>1 DEF SaidInv, Disputed
  <2>1. f \in Faults /\ Strays(f) = {}
    BY DEF SaidInv
  <2>2. Strays(f)' = {} /\ (Disputed(f)' <=> Disputed(f))
    BY <1>1, <2>1 DEF Strays, Disputed
  <2>3. request[s].op \notin {f, "reset"} => Setting(f)' = Setting(f)
    BY <1>2, <2>1 DEF Setting, Faults
  <2>4. CASE s = awaits
    <3>1. Disputed(f) <=> request[s].op \in {f, "reset"}
      BY <2>1, <2>4, InjectorAssumption, <1>1 DEF Disputed, About, Faults, SenderInv
    <3>2. CASE Disputed(f)
      <4>1. request[s].op = f
        BY <2>4, <3>2 DEF SaidInv
      <4>. QED  BY <1>1, <1>2, <2>1, <2>2, <2>4, <3>2, <4>1 DEF Setting, Faults
    <3>3. CASE ~Disputed(f)
      BY <2>2, <2>3, <3>1, <3>3 DEF SaidInv
    <3>. QED  BY <3>2, <3>3
  <2>5. CASE s # awaits
    <3>1. request[s].op \notin {f, "reset"}
      <4>1. request[s].from \in {"client", "injector"}
        BY <1>1, Loaded DEF SenderInv
      <4>2. request[s].from = "client" => request[s].op = "order"
        BY DEF SenderInv
      <4>3. request[s].from = "injector" => f \notin About(request[s].op)
        BY <2>1, <2>5 DEF Strays
      <4>. QED  BY <2>1, <4>1, <4>2, <4>3 DEF About, Faults
    <3>2. awaits # None => request'[awaits] = request[awaits]
      BY <1>1, <2>5
    <3>3. Disputed(f) => awaits # None
      BY DEF Disputed
    <3>. QED  BY <2>2, <2>3, <3>1, <3>2, <3>3 DEF SaidInv
  <2>. QED  BY <2>4, <2>5
<1>. QED  BY <1>1, <1>3, <1>4, <1>5

LEMMA ClientKeeps ==
  ASSUME IInv, NEW s \in Slots, Client(s)
  PROVE  IInv'
<1>. USE DEF IInv, TypeOK
<1>. DEFINE r == [op |-> "order", value |-> 0]
<1>1. r \in Ops /\ r.op = "order"
  BY DEF Ops
<1>2. Send(s, "client", r) /\ UNCHANGED <<awaits, said, sure>>
  BY DEF Client
<1>. HIDE DEF r
<1>3. /\ GatewayTypeOK' /\ LimiterInv' /\ request[s].at = "free"
      /\ \A t \in Slots \ {s} : request'[t] = request[t]
      /\ request'[s].from = "client" /\ request'[s].op = "order" /\ request'[s].at = "limit"
      /\ UNCHANGED <<limit, authPct>>
  BY <1>1, <1>2, SendKeeps
<1>4. request[s].from = "none" /\ awaits # s
  BY <1>3, InjectorAssumption DEF SenderInv
<1>5. \A f \in Faults : Strays(f)' = Strays(f)
  BY <1>2, <1>3, <1>4 DEF Strays
<1>6. awaits # None => awaits \in Slots /\ request'[awaits] = request[awaits]
  BY <1>3, <1>4
<1>7. SenderInv'
  BY <1>2, <1>3, <1>6 DEF SenderInv
<1>8. \A f \in Faults : (Disputed(f)' <=> Disputed(f)) /\ Setting(f)' = Setting(f)
  BY <1>2, <1>3, <1>6 DEF Disputed, Setting
<1>9. SaidInv'
  <2>1. \A f \in Faults : Disputed(f) => awaits # None
    BY DEF Disputed
  <2>. QED  BY <1>2, <1>5, <1>6, <1>8, <2>1 DEF SaidInv
<1>. QED  BY <1>2, <1>3, <1>7, <1>9

LEMMA CommandKeeps ==
  ASSUME IInv, NEW s \in Slots, NEW r \in Ops, Command(s, r)
  PROVE  IInv'
<1>. USE DEF IInv, TypeOK
<1>1. /\ awaits = None /\ r.op # "order" /\ Send(s, "injector", r)
      /\ awaits' = s /\ said' = said
      /\ sure' = IF r.op # "reset" /\ Strays(r.op) = {} THEN sure \cup {r.op}
                 ELSE sure \ About(r.op)
  BY DEF Command
<1>2. /\ r.op \in Faults \cup {"reset"}
      /\ r.op = "auth" => r.value \in Percents
      /\ r.op = "limit" => r.value \in Limits
  BY <1>1 DEF Ops, Faults
<1>3. /\ GatewayTypeOK' /\ LimiterInv' /\ request[s].at = "free"
      /\ \A t \in Slots \ {s} : request'[t] = request[t]
      /\ request'[s].from = "injector" /\ request'[s].op = r.op /\ request'[s].value = r.value
      /\ request'[s].at = "limit"
      /\ UNCHANGED <<limit, authPct>>
  BY <1>1, SendKeeps
<1>4. SenderInv'
  BY <1>1, <1>2, <1>3 DEF SenderInv
<1>5. request[s].from = "none" /\ s # None
  BY <1>3, InjectorAssumption DEF SenderInv
<1>6. \A f \in Faults : Strays(f)' = Strays(f)
  BY <1>1, <1>3, <1>5, InjectorAssumption DEF Strays
<1>7. sure' \subseteq Faults
  BY <1>1, <1>2 DEF About, Faults
<1>8. ASSUME NEW f \in sure'
      PROVE  /\ r.op # "reset"
             /\ f = r.op => Strays(f) = {}
             /\ f # r.op => f \in sure
  BY <1>1, <1>2, <1>7, <1>8 DEF About
<1>9. \A f \in Faults : ~Disputed(f) /\ Setting(f)' = Setting(f)
  BY <1>1, <1>3 DEF Disputed, Setting
<1>10. \A f \in Faults : r.op # "reset" => (Disputed(f)' <=> f = r.op)
  BY <1>1, <1>3, <1>5 DEF Disputed, About
<1>11. SaidInv'
  <2>. SUFFICES ASSUME NEW f \in sure'
                PROVE  /\ Disputed(f)' \/ said[f].level = "OK" => Strays(f)' = {}
                       /\ Disputed(f)' =>
                            /\ request'[s].op = f
                            /\ request'[s].at = "ok" => Setting(f)' = request'[s].value
                       /\ said[f].level = "OK" /\ ~Disputed(f)' => Setting(f)' = said[f].value
    BY <1>1 DEF SaidInv
  <2>1. CASE f = r.op
    BY <1>3, <1>6, <1>7, <1>8, <1>10, <2>1
  <2>2. CASE f # r.op
    <3>1. f \in sure /\ r.op # "reset" /\ f \in Faults
      BY <1>7, <1>8, <2>2
    <3>. QED  BY <1>6, <1>9, <1>10, <2>2, <3>1 DEF SaidInv
  <2>. QED  BY <2>1, <2>2
<1>. QED  BY <1>1, <1>3, <1>4, <1>7, <1>11

LEMMA ReceiveKeeps ==
  ASSUME IInv, NEW s \in Slots, Receive(s)
  PROVE  IInv'
<1>. USE DEF IInv, TypeOK
<1>. DEFINE r == request[s]
<1>1. /\ awaits = s /\ awaits' = None /\ Answer(s) /\ sure' = sure
      /\ Report(r, r.at # "ok")
  BY DEF Receive
<1>2. /\ GatewayTypeOK' /\ LimiterInv'
      /\ \A t \in Slots \ {s} : request'[t] = request[t]
      /\ request'[s] = Free
      /\ UNCHANGED <<limit, authPct>>
  BY <1>1, AnswerKeeps
<1>3. /\ Free.at = "free" /\ Free.from = "none" /\ Free.op = "none" /\ awaits # None
      /\ r.op \in Faults \cup {"reset"} /\ r.value \in Values
  BY <1>1, Loaded, InjectorAssumption DEF Free, SenderInv
<1>4. SenderInv'
  BY <1>1, <1>2, <1>3 DEF SenderInv
<1>5. /\ said' \in [Faults -> Lines]
      /\ \A f \in Faults \ About(r.op) : said'[f] = said[f]
      /\ r.op # "reset" =>
           /\ said'[r.op].level = IF r.at # "ok" THEN "ERR" ELSE "OK"
           /\ said'[r.op].value = r.value
  <2>1. (r.at # "ok") \in BOOLEAN
    OBVIOUS
  <2>. HIDE DEF r
  <2>. QED  BY <1>1, <1>3, <2>1, Reported
<1>6. \A f \in Faults : Strays(f)' = Strays(f)
  BY <1>1, <1>2, <1>3, InjectorAssumption DEF Strays
<1>7. \A f \in Faults : ~Disputed(f)' /\ Setting(f)' = Setting(f)
  BY <1>1, <1>2 DEF Disputed, Setting
<1>8. ASSUME NEW f \in sure, said'[f].level = "OK"
      PROVE  Strays(f)' = {} /\ Setting(f)' = said'[f].value
  <2>1. f \in Faults
    OBVIOUS
  <2>2. Disputed(f) <=> f \in About(r.op)
    BY <1>1, <1>3 DEF Disputed
  <2>3. CASE Disputed(f)
    <3>1. r.op = f /\ Strays(f) = {} /\ (r.at = "ok" => Setting(f) = r.value)
      BY <1>1, <2>3 DEF SaidInv
    <3>2. r.op # "reset"
      BY <2>1, <3>1 DEF Faults
    <3>. QED  BY <1>5, <1>6, <1>7, <1>8, <2>1, <3>1, <3>2
  <2>4. CASE ~Disputed(f)
    <3>1. said'[f] = said[f]
      BY <1>5, <2>1, <2>2, <2>4
    <3>. QED  BY <1>6, <1>7, <1>8, <2>1, <2>4, <3>1 DEF SaidInv
  <2>. QED  BY <2>3, <2>4
<1>9. SaidInv'
  BY <1>1, <1>7, <1>8 DEF SaidInv
<1>. QED  BY <1>1, <1>2, <1>4, <1>5, <1>9

LEMMA GiveUpKeeps ==
  ASSUME IInv, GiveUp
  PROVE  IInv'
<1>. USE DEF IInv, TypeOK
<1>. DEFINE r == request[awaits]
<1>1. /\ awaits \in Slots /\ awaits # None /\ awaits' = None /\ Report(r, TRUE)
      /\ UNCHANGED <<request, limit, authPct, counter, windowStart, now, passed, alone, sure>>
  BY DEF GiveUp, gateway
<1>2. GatewayTypeOK' /\ LimiterInv' /\ SenderInv'
  BY <1>1 DEF GatewayTypeOK, LimiterInv, InLimiter, SenderInv
<1>3. r.op \in Faults \cup {"reset"} /\ r.value \in Values
  BY <1>1, Loaded DEF SenderInv
<1>4. /\ said' \in [Faults -> Lines]
      /\ \A f \in Faults \ About(r.op) : said'[f] = said[f]
      /\ r.op # "reset" => said'[r.op].level = "ERR"
  <2>. HIDE DEF r
  <2>. QED  BY <1>1, <1>3, Reported
<1>5. \A f \in Faults : ~Disputed(f)' /\ Setting(f)' = Setting(f)
  BY <1>1 DEF Disputed, Setting
<1>6. ASSUME NEW f \in sure, said'[f].level = "OK"
      PROVE  Strays(f)' = {} /\ Setting(f)' = said'[f].value
  <2>1. f \in Faults
    OBVIOUS
  <2>2. ~Disputed(f)
    <3>. SUFFICES ASSUME Disputed(f) PROVE FALSE
      OBVIOUS
    <3>1. r.op = f /\ r.op # "reset"
      BY <2>1 DEF SaidInv, Faults
    <3>. QED  BY <1>4, <1>6, <3>1
  <2>3. f \notin About(r.op)
    BY <1>1, <2>2 DEF Disputed
  <2>4. Strays(f)' = Strays(f)
    BY <1>1, <2>3, InjectorAssumption DEF Strays
  <2>. QED  BY <1>4, <1>5, <1>6, <2>1, <2>2, <2>3, <2>4 DEF SaidInv
<1>7. SaidInv'
  BY <1>1, <1>5, <1>6 DEF SaidInv
<1>. QED  BY <1>1, <1>2, <1>4, <1>7

LEMMA NobodyWaitsKeeps ==
  ASSUME IInv, NEW s \in Slots, NobodyWaits(s)
  PROVE  IInv'
<1>. USE DEF IInv, TypeOK
<1>1. awaits # s /\ Answer(s) /\ UNCHANGED <<awaits, said, sure>>
  BY DEF NobodyWaits
<1>2. /\ GatewayTypeOK' /\ LimiterInv'
      /\ \A t \in Slots \ {s} : request'[t] = request[t]
      /\ request'[s] = Free
      /\ UNCHANGED <<limit, authPct>>
  BY <1>1, AnswerKeeps
<1>3. /\ Free.at = "free" /\ Free.from = "none" /\ Free.op = "none"
      /\ awaits # None => awaits \in Slots /\ request'[awaits] = request[awaits]
  BY <1>1, <1>2 DEF Free
<1>4. SenderInv'
  BY <1>1, <1>2, <1>3 DEF SenderInv
<1>5. \A f \in Faults : Strays(f)' \subseteq Strays(f)
  BY <1>1, <1>2, <1>3 DEF Strays
<1>6. \A f \in Faults : /\ Disputed(f)' <=> Disputed(f)
                        /\ Setting(f)' = Setting(f) /\ (Disputed(f) => awaits # None)
  BY <1>1, <1>2, <1>3 DEF Disputed, Setting
<1>7. SaidInv'
  BY <1>1, <1>3, <1>5, <1>6 DEF SaidInv
<1>. QED  BY <1>1, <1>2, <1>4, <1>7

LEMMA IInvStep == IInv /\ [Next]_vars => IInv'
<1>. SUFFICES ASSUME IInv, [Next]_vars PROVE IInv'
  OBVIOUS
<1>1. CASE Tick /\ UNCHANGED <<awaits, said, sure>>
  <2>1. GatewayTypeOK' /\ LimiterInv' /\ UNCHANGED <<request, limit, authPct, awaits, said, sure>>
    BY <1>1, TickKeeps DEF IInv, TypeOK
  <2>. QED
    BY <2>1 DEF IInv, TypeOK, SenderInv, SaidInv, Disputed, Setting, Strays
<1>2. CASE UNCHANGED vars
  BY <1>2
     DEF vars, gateway, IInv, TypeOK, GatewayTypeOK, LimiterInv, InLimiter, SenderInv, SaidInv,
         Disputed, Setting, Strays
<1>. QED
  BY <1>1, <1>2, GiveUpKeeps, RestartKeeps, ClientKeeps, CommandKeeps, ReceiveKeeps,
     NobodyWaitsKeeps, HandleKeeps
     DEF Next

LEMMA IInvAlways == Spec => []IInv
  BY IInvInit, IInvStep, PTL DEF Spec

(***************************************************************************)
(* The lockout.  What is still on its way cannot change a fault, and what  *)
(* comes later is rejected: the counter that decides no longer moves.      *)
(***************************************************************************)
LEMMA LockoutHandled ==
  ASSUME GatewayTypeOK, SenderInv, LockedOut, NEW s \in Slots, Handle(s)
  PROVE  LockedOut'
<1>. DEFINE r == request[s]
<1>1. /\ r.arg \in Values /\ 0 \in 0..MaxNow /\ 0 \in Values /\ authPct \in Values
      /\ authPct \in Nat /\ counter \in Nat
  BY Loaded, GatewayAssumption DEF GatewayTypeOK
<1>2. limit = 0 /\ counter % 100 < authPct /\ \A t \in Slots : Harmless(t)
  BY DEF LockedOut
<1>3. counter % 100 \in Nat
  BY <1>1
<1>. HIDE DEF r
<1>4. /\ r.at \in {"limit", "auth", "reject", "handle"}
      /\ r.at = "reject" => counter % 100 < r.arg \/ r.op = "order"
      /\ r.at = "handle" => r.op = "order"
  <2>1. Harmless(s)
    BY <1>2
  <2>2. r.at \in {"limit", "clock", "window", "store", "zero", "count", "auth", "reject", "handle",
               "reset"}
    BY DEF r, Handle, LoadLimit, ReadClock, CheckWindow, StoreWindow, ZeroCounter, Count, LoadAuth, Reject,
           HandleOrder, FaultAuth, FaultRateLimit, ResetAuth, ResetLimit
  <2>3. r.at = "reset" => r.op = "reset"
    BY DEF SenderInv, r
  <2>. QED  BY <2>1, <2>2, <2>3 DEF Harmless, InLimiter, Answers, r
<1>5. ASSUME UNCHANGED <<limit, authPct, counter>>,
             NEW at \in Places, NEW arg \in Values, Moved(s, at, 0, arg),
             \/ at \in {"auth", "unauthorized", "ok"}
             \/ at = "reject" /\ counter % 100 < arg
             \/ at = "handle" /\ r.op = "order"
      PROVE  LockedOut'
  <2>1. /\ request'[s].at = at /\ request'[s].arg = arg /\ request'[s].op = r.op
        /\ \A t \in Slots \ {s} : request'[t] = request[t]
    BY <1>5 DEF Moved, r
  <2>2. Harmless(s)'
    BY <1>5, <2>1 DEF Harmless, InLimiter, Answers
  <2>3. \A t \in Slots \ {s} : Harmless(t)'
    BY <1>2, <1>5, <2>1 DEF Harmless, InLimiter
  <2>. QED  BY <1>2, <1>5, <2>2, <2>3 DEF LockedOut
<1>. USE DEF Places, Answers
<1>6. CASE LoadLimit(s)
  <2>1. Moved(s, "auth", 0, 0) /\ UNCHANGED <<limit, authPct, counter>>
    BY <1>1, <1>2, <1>6, GoMoves DEF LoadLimit
  <2>. QED  BY <1>1, <1>5, <2>1
<1>7. CASE LoadAuth(s)
  <2>1. Moved(s, "reject", 0, authPct) /\ UNCHANGED <<limit, authPct, counter>>
    BY <1>1, <1>2, <1>3, <1>7, GoMoves DEF LoadAuth
  <2>. QED  BY <1>1, <1>2, <1>5, <2>1
<1>8. CASE Reject(s)
  <2>1. /\ r.at = "reject" /\ UNCHANGED <<limit, authPct, counter>>
        /\ Moved(s, IF counter % 100 < r.arg THEN "unauthorized" ELSE "handle", 0, 0)
    BY <1>1, <1>8, GoMoves DEF Reject, r
  <2>. QED  BY <1>1, <1>4, <1>5, <2>1
<1>9. CASE HandleOrder(s)
  <2>1. Moved(s, "ok", 0, 0) /\ UNCHANGED <<limit, authPct, counter>>
    BY <1>1, <1>9, GoMoves DEF HandleOrder
  <2>. QED  BY <1>1, <1>5, <2>1
<1>10. CASE ~(LoadLimit(s) \/ LoadAuth(s) \/ Reject(s) \/ HandleOrder(s))
  BY <1>4, <1>10
     DEF r, Handle, ReadClock, CheckWindow, StoreWindow, ZeroCounter, Count, FaultAuth, FaultRateLimit,
         ResetAuth, ResetLimit
<1>. QED  BY <1>6, <1>7, <1>8, <1>9, <1>10

LEMMA LockoutStep ==
  ASSUME IInv, LockedOut, [Next]_vars
  PROVE  LockedOut' \/ GatewayRestart
<1>1. GatewayTypeOK /\ LimiterInv /\ SenderInv
  BY DEF IInv, TypeOK
<1>2. ASSUME UNCHANGED <<limit, authPct, counter>>,
             NEW s \in Slots, \A t \in Slots \ {s} : request'[t] = request[t],
             request'[s].at \in {"limit", "free"}
      PROVE  LockedOut'
  BY <1>2 DEF LockedOut, Harmless, InLimiter
<1>3. ASSUME NEW s \in Slots, Handle(s)
      PROVE  LockedOut'
  BY <1>1, <1>3, LockoutHandled
<1>4. ASSUME NEW s \in Slots, NEW from \in {"client", "injector"}, NEW r \in Ops, Send(s, from, r)
      PROVE  LockedOut'
  <2>1. UNCHANGED <<limit, authPct, counter>>
    BY <1>4 DEF Send
  <2>. QED  BY <1>1, <1>2, <1>4, <2>1, SendKeeps
<1>5. ASSUME NEW s \in Slots, Answer(s)
      PROVE  LockedOut'
  <2>1. UNCHANGED <<limit, authPct, counter>> /\ Free.at = "free"
    BY <1>5 DEF Answer, Free
  <2>. QED  BY <1>1, <1>2, <1>5, <2>1, AnswerKeeps
<1>6. ASSUME UNCHANGED <<request, limit, authPct, counter>>
      PROVE  LockedOut'
  BY <1>6 DEF LockedOut, Harmless, InLimiter
<1>7. [op |-> "order", value |-> 0] \in Ops
  BY DEF Ops
<1>. QED
  BY <1>3, <1>4, <1>5, <1>6, <1>7
     DEF Next, vars, gateway, Client, Command, Receive, NobodyWaits, GiveUp, Restart, Tick
-----------------------------------------------------------------------------
(***************************************************************************)
(* The theorems.                                                           *)
(***************************************************************************)
\* The variables of gateway and injector stay in their domains.
THEOREM InjectorTypeCorrect == Spec => []TypeOK
  BY IInvAlways, PTL DEF IInv

\* metricsMiddleware lets no more than the largest limit through between two
\* ticks, as long as no two requests are in the limiter at once, wherever the
\* limit is set or reset meanwhile.
THEOREM LimitHolds == Spec => []RateHolds
<1>1. IInv => RateHolds
  BY DEF IInv, LimiterInv, RateHolds
<1>. QED  BY <1>1, IInvAlways, PTL

\* Where the result line of trigger_auth_failures or trigger_rate_limiting says
\* OK, the gateway keeps the value in it until the next command about the fault, if
\* no post given up earlier may change it and the gateway is not restarted.
THEOREM TriggersTellTruth == Spec => []TriggerTellsTruth
<1>1. IInv => TriggerTellsTruth
  BY DEF IInv, SaidInv, TriggerTellsTruth
<1>. QED  BY <1>1, IInvAlways, PTL

\* Once metricsMiddleware rejects every request it goes on so: the counter it
\* decides by stands still, and the reset of the fault is rejected as well.
THEOREM LockoutLasts == Spec => LockoutIsPermanent
<1>1. IInv /\ [Next]_vars => [LockedOut => LockedOut' \/ GatewayRestart]_vars
  BY LockoutStep
<1>. QED  BY <1>1, IInvAlways, PTL DEF Spec, LockoutIsPermanent
=============================================================================
