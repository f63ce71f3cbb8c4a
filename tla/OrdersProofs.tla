---------------------------- MODULE OrdersProofs ----------------------------
(***************************************************************************)
(* Theorems about Orders, for any orders, any prefetch window and any      *)
(* number of attempts.                                                     *)
(***************************************************************************)
EXTENDS Orders, SequenceTheorems, TLAPS

(***************************************************************************)
(* Sequences without repetition.                                           *)
(***************************************************************************)
\* A concatenation repeats nothing if its parts do not and share nothing.
LEMMA InjectiveConcat ==
  ASSUME NEW S, NEW s \in Seq(S), NEW t \in Seq(S)
  PROVE  IsInjective(s \o t) <=>
           IsInjective(s) /\ IsInjective(t) /\ Range(s) \cap Range(t) = {}
<1>. DEFINE m == Len(s)
            n == Len(t)
            u == s \o t
<1>1. /\ m \in Nat /\ n \in Nat /\ DOMAIN s = 1..m /\ DOMAIN t = 1..n
      /\ DOMAIN u = 1..(m + n)
      /\ \A i \in 1..m : u[i] = s[i]
      /\ \A i \in 1..n : u[m + i] = t[i]
  BY LenProperties, ConcatProperties
<1>. HIDE DEF m, n, u
<1>2. \A i \in 1..(m + n) : i \in 1..m \/ \E j \in 1..n : i = m + j
  <2>. SUFFICES ASSUME NEW i \in 1..(m + n), i \notin 1..m PROVE \E j \in 1..n : i = m + j
    OBVIOUS
  <2>1. i - m \in 1..n /\ i = m + (i - m)
    BY <1>1
  <2>. QED  BY <2>1
<1>3. ASSUME IsInjective(u)
      PROVE  IsInjective(s) /\ IsInjective(t) /\ Range(s) \cap Range(t) = {}
  <2>1. \A i, j \in 1..(m + n) : u[i] = u[j] => i = j
    BY <1>1, <1>3 DEF IsInjective
  <2>2. IsInjective(s)
    BY <1>1, <2>1 DEF IsInjective
  <2>3. \A i, j \in 1..n : t[i] = t[j] => i = j
    BY <1>1, <2>1
  <2>4. \A i \in 1..m, j \in 1..n : s[i] # t[j]
    BY <1>1, <2>1
  <2>. QED  BY <1>1, <2>2, <2>3, <2>4 DEF IsInjective, Range
<1>4. ASSUME IsInjective(s), IsInjective(t), Range(s) \cap Range(t) = {}
      PROVE  IsInjective(u)
  <2>1. /\ \A i, j \in 1..m : s[i] = s[j] => i = j
        /\ \A i, j \in 1..n : t[i] = t[j] => i = j
        /\ \A i \in 1..m, j \in 1..n : s[i] # t[j]
    <3>1. (\A i, j \in 1..m : s[i] = s[j] => i = j) /\ (\A i, j \in 1..n : t[i] = t[j] => i = j)
      BY <1>1, <1>4 DEF IsInjective
    <3>2. \A i \in 1..m, j \in 1..n : s[i] \in Range(s) /\ t[j] \in Range(t)
      BY <1>1 DEF Range
    <3>. QED  BY <1>4, <3>1, <3>2
  <2>2. ASSUME NEW i \in 1..(m + n), NEW j \in 1..(m + n), u[i] = u[j]
        PROVE  i = j
    <3>1. CASE i \in 1..m /\ j \in 1..m
      BY <1>1, <2>1, <2>2, <3>1
    <3>2. ASSUME NEW k \in 1..n, NEW l \in 1..n, i = m + k, j = m + l
          PROVE  i = j
      <4>1. u[i] = t[k] /\ u[j] = t[l]
        BY <1>1, <3>2
      <4>. QED  BY <2>1, <2>2, <3>2, <4>1
    <3>3. ASSUME NEW k \in 1..n, (i \in 1..m /\ j = m + k) \/ (j \in 1..m /\ i = m + k)
          PROVE  FALSE
      BY <1>1, <2>1, <2>2, <3>3
    <3>. QED  BY <1>2, <3>1, <3>2, <3>3
  <2>. QED  BY <1>1, <2>2 DEF IsInjective
<1>. QED  BY <1>3, <1>4 DEF u

LEMMA SingleElement ==
  ASSUME NEW S, NEW e \in S
  PROVE  /\ <<e>> \in Seq(S) /\ <<>> \in Seq(S)
         /\ Range(<<e>>) = {e} /\ Range(<<>>) = {}
         /\ IsInjective(<<e>>) /\ IsInjective(<<>>)
<1>1. DOMAIN <<e>> = {1} /\ <<e>>[1] = e
  OBVIOUS
<1>2. DOMAIN <<>> = {}
  OBVIOUS
<1>. QED  BY <1>1, <1>2 DEF Range, IsInjective

LEMMA InFront ==
  ASSUME NEW S, NEW e \in S, NEW s \in Seq(S)
  PROVE  /\ <<e>> \o s \in Seq(S) /\ s \o <<e>> \in Seq(S)
         /\ Range(<<e>> \o s) = {e} \cup Range(s) /\ Range(s \o <<e>>) = {e} \cup Range(s)
         /\ IsInjective(<<e>> \o s) <=> e \notin Range(s) /\ IsInjective(s)
         /\ IsInjective(s \o <<e>>) <=> e \notin Range(s) /\ IsInjective(s)
<1>. DEFINE f == <<e>>
<1>1. f \in Seq(S) /\ Range(f) = {e} /\ IsInjective(f)
  BY SingleElement
<1>. HIDE DEF f
<1>2. f \o s \in Seq(S) /\ s \o f \in Seq(S)
  BY <1>1, ConcatProperties
<1>3. Range(f \o s) = {e} \cup Range(s) /\ Range(s \o f) = {e} \cup Range(s)
  BY <1>1, RangeConcatenation
<1>4. /\ IsInjective(f \o s) <=> e \notin Range(s) /\ IsInjective(s)
      /\ IsInjective(s \o f) <=> e \notin Range(s) /\ IsInjective(s)
  BY <1>1, InjectiveConcat
<1>. QED  BY <1>2, <1>3, <1>4 DEF f

\* A queue is its head in front of the rest.
LEMMA HeadAndTail ==
  ASSUME NEW S, NEW s \in Seq(S), s # <<>>
  PROVE  /\ Head(s) \in S /\ Tail(s) \in Seq(S)
         /\ s = <<Head(s)>> \o Tail(s)
<1>1. Head(s) \in S /\ Tail(s) \in Seq(S) /\ Len(s) \in Nat \ {0}
  BY HeadTailProperties, EmptySeq
<1>2. <<Head(s)>> \in Seq(S) /\ Len(<<Head(s)>>) = 1
  BY <1>1
<1>3. \A i \in 1..Len(s) : s[i] = (<<Head(s)>> \o Tail(s))[i]
  BY <1>1, <1>2, ConcatProperties, HeadTailProperties
<1>. QED  BY <1>1, <1>2, <1>3, ConcatProperties, HeadTailProperties, SeqEqual

\* To settle the first delivery is to leave the others.
LEMMA WithoutFirst ==
  ASSUME NEW S, NEW e \in S, NEW s \in Seq(S), e \notin Range(s)
  PROVE  Without(<<e>> \o s, e) = s
<1>. DEFINE u == <<e>> \o s
            k == CHOOSE k \in DOMAIN u : u[k] = e
<1>1. /\ <<e>> \in Seq(S) /\ Len(<<e>>) = 1 /\ Len(s) \in Nat
      /\ u \in Seq(S) /\ Len(u) = 1 + Len(s) /\ DOMAIN u = 1..Len(u) /\ DOMAIN s = 1..Len(s)
      /\ u[1] = e /\ \A i \in 1..Len(s) : u[i + 1] = s[i]
  BY LenProperties, ConcatProperties
<1>. HIDE DEF u
<1>2. \A i \in 2..Len(u) : u[i] # e
  <2>1. \A i \in 2..Len(u) : i - 1 \in 1..Len(s) /\ u[i] = s[i - 1]
    BY <1>1
  <2>. QED  BY <1>1, <2>1 DEF Range
<1>3. (\E i \in DOMAIN u : u[i] = e) /\ k = 1
  BY <1>1, <1>2
<1>. HIDE DEF k
<1>4. SubSeq(u, 1, 0) = <<>>
  BY SubSeqEmpty
<1>5. SubSeq(u, 2, Len(u)) = s
  <2>1. \A i \in 2..Len(u) : u[i] \in S
    BY <1>1
  <2>2. /\ SubSeq(u, 2, Len(u)) \in Seq(S)
        /\ Len(SubSeq(u, 2, Len(u))) = Len(s)
        /\ \A i \in 1..Len(s) : SubSeq(u, 2, Len(u))[i] = u[i + 1]
    BY <1>1, <2>1, SubSeqProperties
  <2>. QED  BY <1>1, <2>2, SeqEqual
<1>6. RemoveAt(u, k) = s
  BY <1>3, <1>4, <1>5, ConcatEmptySeq DEF RemoveAt
<1>. QED  BY <1>3, <1>6 DEF Without, u, k

LEMMA WithoutNothing ==
  ASSUME NEW e
  PROVE  Without(<<>>, e) = <<>>
<1>1. DOMAIN <<>> = {}
  OBVIOUS
<1>. QED  BY <1>1 DEF Without
-----------------------------------------------------------------------------
(***************************************************************************)
(* The invariant.  The deliveries on the open channel are the one in work  *)
(* and, in their order, those that have arrived behind it; on a closed     *)
(* channel there are none, and a worker that has none either is idle.      *)
(***************************************************************************)
Working == pc \in {"deliver", "post", "ack", "nack"}

WindowInv ==
  /\ unacked = IF channel THEN Busy \o local ELSE <<>>
  /\ pc \in {"dial", "dead", "ended"} => ~channel /\ local = <<>>
  /\ Working <=> current # None

\* Ready and delivered orders are different ones, and the queue has taken all
\* that the worker knows of.
QueueInv ==
  /\ IsInjective(queue \o unacked)
  /\ Owed \cup Range(local) \cup Range(Busy) \subseteq published

\* An order that was handed over and has no excuse to be repeated is about to
\* be acknowledged or is not in the system any more.
HandedInv ==
  /\ RepeatsAreExcused
  /\ pc = "ack" => copies[current] > 0
  /\ \A o \in OrderIds : copies[o] > 0 => o \in published
  /\ \A o \in OrderIds : copies[o] > 0 /\ o \notin excused =>
       /\ o \notin Range(queue) \cup Range(local)
       /\ o \in Range(unacked) \cup Range(Busy) => pc = "ack" /\ o = current

IInv == TypeOK /\ WindowInv /\ QueueInv /\ HandedInv

LEMMA IInvInit == Init => IInv
<1>. SUFFICES ASSUME Init PROVE IInv
  OBVIOUS
<1>1. <<>> \in Seq(OrderIds) /\ <<>> \o <<>> = <<>>
  OBVIOUS
<1>2. IsInjective(<<>>) /\ Range(<<>>) = {}
  BY DEF IsInjective, Range
<1>3. copies \in [OrderIds -> 0..2] /\ attempt \in 1..Attempts
  BY OrdersAssumption DEF Init
<1>4. TypeOK
  BY <1>1, <1>3 DEF Init, TypeOK, PCs
<1>. QED
  BY <1>1, <1>2, <1>4
     DEF Init, IInv, WindowInv, QueueInv, HandedInv, Working, Busy, Owed, RepeatsAreExcused

(***************************************************************************)
(* What the steps do to queue and window.                                  *)
(***************************************************************************)
\* A delivery leaves the queue and arrives behind the others.
LEMMA PushEffect ==
  ASSUME TypeOK, Push
  PROVE  \E h \in OrderIds :
           /\ queue' \in Seq(OrderIds) /\ queue = <<h>> \o queue'
           /\ unacked' = unacked \o <<h>> /\ unacked' \in Seq(OrderIds)
           /\ local' = local \o <<h>> /\ local' \in Seq(OrderIds)
<1>. DEFINE h == Head(queue)
<1>1. h \in OrderIds /\ Tail(queue) \in Seq(OrderIds) /\ queue = <<h>> \o Tail(queue)
  BY HeadAndTail DEF TypeOK, Push
<1>. HIDE DEF h
<1>2. /\ Append(unacked, h) = unacked \o <<h>> /\ Append(unacked, h) \in Seq(OrderIds)
      /\ Append(local, h) = local \o <<h>> /\ Append(local, h) \in Seq(OrderIds)
  BY <1>1, AppendProperties, AppendIsConcat DEF TypeOK
<1>. QED  BY <1>1, <1>2 DEF Push, h

\* The delivery settled next is the first on the channel, if that is open.
LEMMA FirstOfWindow ==
  ASSUME TypeOK, QueueInv, NEW o \in OrderIds, NEW rest \in Seq(OrderIds),
         unacked = IF channel THEN <<o>> \o rest ELSE <<>>
  PROVE  /\ Without(unacked, o) = IF channel THEN rest ELSE <<>>
         /\ o \in Range(unacked) <=> channel
         /\ Range(unacked) = IF channel THEN {o} \cup Range(rest) ELSE {}
         /\ channel => o \notin Range(rest) /\ o \notin Range(queue)
<1>1. <<o>> \in Seq(OrderIds) /\ Range(<<o>>) = {o} /\ Range(<<>>) = {}
  BY SingleElement
<1>2. CASE channel
  <2>1. unacked = <<o>> \o rest
    BY <1>2
  <2>2. IsInjective(unacked) /\ Range(queue) \cap Range(unacked) = {}
    BY InjectiveConcat DEF QueueInv, TypeOK
  <2>3. o \notin Range(rest)
    BY <2>1, <2>2, InFront
  <2>4. Range(unacked) = {o} \cup Range(rest)
    BY <2>1, InFront
  <2>5. Without(unacked, o) = rest
    BY <2>1, <2>3, WithoutFirst
  <2>. QED  BY <1>2, <2>2, <2>3, <2>4, <2>5
<1>3. CASE ~channel
  BY <1>1, <1>3, WithoutNothing
<1>. QED  BY <1>2, <1>3 DEF TypeOK

\* Returning it puts it back in front of the queue: nothing is lost or doubled.
LEMMA NackEffect ==
  ASSUME TypeOK, QueueInv, NEW o \in OrderIds, NEW rest \in Seq(OrderIds),
         unacked = IF channel THEN <<o>> \o rest ELSE <<>>, Nack(o)
  PROVE  /\ queue' \in Seq(OrderIds)
         /\ unacked' = IF channel THEN rest ELSE <<>>
         /\ Range(queue') = IF channel THEN {o} \cup Range(queue) ELSE Range(queue)
         /\ IsInjective(queue' \o unacked')
         /\ Owed' = Owed
<1>1. <<o>> \in Seq(OrderIds) /\ Range(<<o>>) = {o} /\ Range(<<>>) = {} /\ IsInjective(<<o>>)
      /\ IsInjective(<<>>) /\ <<>> \in Seq(OrderIds) /\ queue \in Seq(OrderIds) /\ unacked \in Seq(OrderIds)
  BY SingleElement DEF TypeOK
<1>2. /\ IsInjective(queue) /\ IsInjective(unacked) /\ Range(queue) \cap Range(unacked) = {}
  BY <1>1, InjectiveConcat DEF QueueInv
<1>3. CASE channel
  <2>1. queue' = <<o>> \o queue /\ unacked' = rest /\ o \notin Range(rest) /\ o \notin Range(queue)
        /\ Range(unacked) = {o} \cup Range(rest)
    BY <1>3, FirstOfWindow DEF Nack
  <2>2. IsInjective(rest)
    BY <1>2, <1>3, InFront
  <2>3. queue' \in Seq(OrderIds) /\ Range(queue') = {o} \cup Range(queue)
    BY <1>1, <2>1, InFront
  <2>4. IsInjective(queue')
    BY <1>1, <1>2, <2>1, InFront
  <2>5. Range(queue') \cap Range(unacked') = {}
    BY <1>2, <2>1, <2>3
  <2>6. IsInjective(queue' \o unacked')
    BY <2>1, <2>2, <2>3, <2>4, <2>5, InjectiveConcat
  <2>. QED  BY <1>3, <2>1, <2>3, <2>6 DEF Owed
<1>4. CASE ~channel
  <2>1. UNCHANGED <<queue, unacked>> /\ unacked = <<>>
    BY <1>1, <1>4, FirstOfWindow DEF Nack
  <2>. QED  BY <1>1, <1>4, <2>1 DEF Owed, QueueInv
<1>. QED  BY <1>3, <1>4 DEF TypeOK

\* So does a closed channel with all of the window.
LEMMA RequeueEffect ==
  ASSUME TypeOK, QueueInv, Requeue
  PROVE  /\ queue' \in Seq(OrderIds) /\ unacked' = <<>>
         /\ Range(queue') = Owed
         /\ IsInjective(queue' \o unacked')
         /\ Owed' = Owed
<1>1. queue \in Seq(OrderIds) /\ unacked \in Seq(OrderIds) /\ <<>> \in Seq(OrderIds)
  BY DEF TypeOK
<1>2. IsInjective(queue) /\ IsInjective(unacked) /\ Range(queue) \cap Range(unacked) = {}
  BY <1>1, InjectiveConcat DEF QueueInv
<1>3. queue' = unacked \o queue /\ unacked' = <<>>
  BY DEF Requeue
<1>4. queue' \in Seq(OrderIds) /\ Range(queue') = Range(unacked) \cup Range(queue)
  BY <1>1, <1>3, ConcatProperties, RangeConcatenation
<1>5. IsInjective(queue')
  BY <1>1, <1>2, <1>3, InjectiveConcat
<1>6. queue' \o unacked' = queue'
  BY <1>3, <1>4, ConcatEmptySeq
<1>7. Range(<<>>) = {}
  BY DEF Range
<1>. QED  BY <1>3, <1>4, <1>5, <1>6, <1>7 DEF Owed

\* Who works on nothing has the whole window still to take up.
LEMMA IdleWindow ==
  ASSUME TypeOK, WindowInv, ~Working
  PROVE  current = None /\ Busy = <<>> /\ unacked = IF channel THEN local ELSE <<>>
<1>1. <<>> \o local = local
  BY ConcatEmptySeq DEF TypeOK
<1>. QED  BY <1>1 DEF WindowInv, Busy

LEMMA WorkingWindow ==
  ASSUME TypeOK, WindowInv, Working
  PROVE  /\ current \in OrderIds /\ Busy = <<current>> /\ Range(Busy) = {current}
         /\ unacked = IF channel THEN <<current>> \o local ELSE <<>>
<1>1. current \in OrderIds /\ Busy = <<current>>
  BY DEF WindowInv, TypeOK, Busy
<1>2. Range(<<current>>) = {current}
  BY <1>1, SingleElement
<1>. QED  BY <1>1, <1>2 DEF WindowInv

(***************************************************************************)
(* Every step keeps the invariant.                                         *)
(***************************************************************************)
LEMMA PlaceKeeps ==
  ASSUME IInv, NEW o \in OrderIds, NEW sent \in BOOLEAN, Place(o, sent)
  PROVE  IInv'
<1>. USE DEF IInv, worker
<1>1. UNCHANGED <<unacked, channel, pc, local, current, attempt, paused, failing, receiver,
                  copies, excused>>
  BY DEF Place
<1>2. CASE sent
  <2>1. queue' = queue \o <<o>> /\ queue' \in Seq(OrderIds) /\ Range(queue') = {o} \cup Range(queue)
    <3>1. queue' = Append(queue, o) /\ queue \in Seq(OrderIds)
      BY <1>2 DEF Place, TypeOK
    <3>2. queue' = queue \o <<o>>
      BY <3>1, AppendIsConcat
    <3>. QED  BY <3>1, <3>2, InFront
  <2>2. published' = published \cup {o} /\ answered' = answered \cup {o} /\ o \notin published
    BY <1>2 DEF Place, TypeOK
  <2>3. IsInjective(queue') /\ IsInjective(unacked) /\ Range(queue') \cap Range(unacked) = {}
    <3>1. IsInjective(queue) /\ IsInjective(unacked) /\ Range(queue) \cap Range(unacked) = {}
      BY InjectiveConcat DEF TypeOK, QueueInv
    <3>2. o \notin Range(queue) /\ o \notin Range(unacked)
      BY <2>2 DEF QueueInv, Owed
    <3>. QED  BY <2>1, <3>1, <3>2, InFront DEF TypeOK
  <2>4. IsInjective(queue' \o unacked')
    BY <1>1, <2>1, <2>3, InjectiveConcat DEF TypeOK
  <2>5. TypeOK'
    BY <1>1, <2>1, <2>2 DEF TypeOK
  <2>6. WindowInv'
    BY <1>1 DEF WindowInv, Working, Busy
  <2>7. QueueInv'
    BY <1>1, <2>1, <2>2, <2>4 DEF QueueInv, Owed, Busy
  <2>8. HandedInv'
    BY <1>1, <2>1, <2>2 DEF HandedInv, RepeatsAreExcused, Busy
  <2>. QED  BY <2>5, <2>6, <2>7, <2>8
<1>3. CASE ~sent
  <2>1. UNCHANGED <<queue, published>> /\ answered' = answered \cup {o}
    BY <1>3 DEF Place
  <2>. QED
    BY <1>1, <2>1
       DEF TypeOK, WindowInv, QueueInv, HandedInv, RepeatsAreExcused, Working, Busy, Owed
<1>. QED  BY <1>2, <1>3

LEMMA PushKeeps ==
  ASSUME IInv, Push
  PROVE  IInv'
<1>. USE DEF IInv, others
<1>1. PICK h \in OrderIds :
        /\ queue' \in Seq(OrderIds) /\ queue = <<h>> \o queue'
        /\ unacked' = unacked \o <<h>> /\ unacked' \in Seq(OrderIds)
        /\ local' = local \o <<h>> /\ local' \in Seq(OrderIds)
  BY PushEffect
<1>2. UNCHANGED <<channel, pc, current, attempt, paused, failing, receiver, answered, published,
                  copies, excused>> /\ channel
  BY DEF Push
<1>3. /\ Range(queue) = {h} \cup Range(queue')
      /\ Range(unacked') = {h} \cup Range(unacked)
      /\ Range(local') = {h} \cup Range(local)
  BY <1>1, InFront DEF TypeOK
<1>4. TypeOK'
  BY <1>1, <1>2 DEF TypeOK
<1>5. WindowInv'
  <2>1. Busy \in Seq(OrderIds) /\ Busy' = Busy
    BY <1>2 DEF Busy, TypeOK
  <2>2. <<h>> \in Seq(OrderIds)
    BY SingleElement
  <2>3. (Busy \o local) \o <<h>> = Busy \o (local \o <<h>>)
    <3>. DEFINE f == <<h>>
    <3>. HIDE DEF f
    <3>1. (Busy \o local) \o f = Busy \o (local \o f)
      BY <2>1, <2>2, ConcatAssociative DEF TypeOK, f
    <3>. QED  BY <3>1 DEF f
  <2>. QED  BY <1>1, <1>2, <2>1, <2>3 DEF WindowInv, Working
<1>6. QueueInv'
  <2>1. IsInjective(queue) /\ IsInjective(unacked) /\ Range(queue) \cap Range(unacked) = {}
    BY InjectiveConcat DEF TypeOK, QueueInv
  <2>2. IsInjective(queue') /\ h \notin Range(queue')
    BY <1>1, <2>1, InFront
  <2>3. IsInjective(unacked') /\ Range(queue') \cap Range(unacked') = {}
    BY <1>1, <1>3, <2>1, <2>2, InFront DEF TypeOK
  <2>4. IsInjective(queue' \o unacked')
    BY <1>1, <2>2, <2>3, InjectiveConcat
  <2>. QED  BY <1>2, <1>3, <2>4 DEF QueueInv, Owed, Busy
<1>7. HandedInv'
  BY <1>2, <1>3 DEF HandedInv, RepeatsAreExcused, Busy
<1>. QED  BY <1>4, <1>5, <1>6, <1>7

LEMMA ConnectionLostKeeps ==
  ASSUME IInv, ConnectionLost
  PROVE  IInv'
<1>. USE DEF IInv, worker
<1>1. UNCHANGED <<pc, local, current, attempt, paused, failing, receiver, answered, published, copies>>
  BY DEF ConnectionLost
<1>2. /\ queue' \in Seq(OrderIds) /\ unacked' = <<>> /\ Range(queue') = Owed
      /\ IsInjective(queue' \o unacked') /\ Owed' = Owed /\ channel' = FALSE
      /\ excused' = excused \cup {o \in Range(unacked) : copies[o] > 0}
  BY RequeueEffect DEF ConnectionLost, Requeue
<1>3. Range(unacked) \subseteq OrderIds /\ <<>> \in Seq(OrderIds) /\ Range(<<>>) = {}
  BY RangeOfSeq DEF TypeOK, Range
<1>. QED
  BY <1>1, <1>2, <1>3
     DEF TypeOK, WindowInv, QueueInv, HandedInv, RepeatsAreExcused, Working, Busy, Owed

LEMMA DieKeeps ==
  ASSUME IInv, Die
  PROVE  IInv'
<1>. USE DEF IInv
<1>1. /\ pc' = "dead" /\ local' = <<>> /\ current' = None /\ attempt' = 1
      /\ paused' = FALSE /\ failing' = FALSE
      /\ UNCHANGED <<receiver, answered, published, copies>>
  BY DEF Die
<1>2. /\ queue' \in Seq(OrderIds) /\ unacked' = <<>> /\ Range(queue') = Owed
      /\ IsInjective(queue' \o unacked') /\ Owed' = Owed /\ channel' = FALSE
      /\ excused' = excused \cup {o \in Range(unacked) : copies[o] > 0}
  BY RequeueEffect DEF Die, Requeue
<1>3. Range(unacked) \subseteq OrderIds /\ <<>> \in Seq(OrderIds) /\ Range(<<>>) = {}
  BY RangeOfSeq DEF TypeOK, Range
<1>4. TypeOK'
  <2>1. 1 \in 1..Attempts
    BY OrdersAssumption
  <2>. QED  BY <1>1, <1>2, <1>3, <2>1 DEF TypeOK, PCs
<1>5. WindowInv'
  BY <1>1, <1>2 DEF WindowInv, Working
<1>6. QueueInv'
  BY <1>1, <1>2, <1>3 DEF QueueInv, Busy
<1>7. HandedInv'
  BY <1>1, <1>2, <1>3 DEF HandedInv, RepeatsAreExcused, Busy, Owed
<1>. QED  BY <1>4, <1>5, <1>6, <1>7

LEMMA BrokerRestartKeeps ==
  ASSUME IInv, BrokerRestart
  PROVE  IInv'
<1>1. UNCHANGED <<pc, local, current, attempt, paused, failing, receiver, answered, published,
                  copies, excused>>
      /\ queue' = <<>> /\ unacked' = <<>> /\ channel' = FALSE
  BY DEF BrokerRestart, worker, others
<1>2. <<>> \in Seq(OrderIds) /\ Range(<<>>) = {} /\ IsInjective(<<>>) /\ <<>> \o <<>> = <<>>
  BY DEF Range, IsInjective
<1>. QED
  BY <1>1, <1>2
     DEF IInv, TypeOK, WindowInv, QueueInv, HandedInv, RepeatsAreExcused, Working, Busy, Owed

LEMMA TakePausedKeeps ==
  ASSUME IInv, TakePaused
  PROVE  IInv' /\ Owed' = Owed
<1>. USE DEF IInv, others
<1>. DEFINE o == Head(local)
            rest == Tail(local)
<1>1. o \in OrderIds /\ rest \in Seq(OrderIds) /\ local = <<o>> \o rest
  BY HeadAndTail DEF TakePaused, TypeOK
<1>2. /\ pc = "idle" /\ local' = rest /\ Nack(o)
      /\ UNCHANGED <<channel, pc, current, attempt, paused, failing, receiver, answered, published,
                     copies, excused>>
  BY DEF TakePaused
<1>. HIDE DEF o, rest
<1>3. current = None /\ Busy = <<>> /\ unacked = IF channel THEN <<o>> \o rest ELSE <<>>
  BY <1>1, <1>2, IdleWindow DEF Working
<1>4. /\ queue' \in Seq(OrderIds) /\ unacked' = IF channel THEN rest ELSE <<>>
      /\ Range(queue') = IF channel THEN {o} \cup Range(queue) ELSE Range(queue)
      /\ IsInjective(queue' \o unacked') /\ Owed' = Owed
  BY <1>1, <1>2, <1>3, NackEffect
<1>5. Range(local) = {o} \cup Range(rest) /\ (channel => o \notin Range(rest))
  BY <1>1, <1>3, InFront, FirstOfWindow
<1>6. TypeOK'
  BY <1>1, <1>2, <1>4 DEF TypeOK
<1>7. WindowInv'
  <2>1. Busy' = <<>> /\ <<>> \o local' = local'
    BY <1>1, <1>2, <1>3, ConcatEmptySeq DEF Busy
  <2>. QED  BY <1>1, <1>2, <1>3, <1>4, <2>1 DEF WindowInv, Working
<1>8. QueueInv'
  BY <1>2, <1>3, <1>4, <1>5 DEF QueueInv, Busy
<1>9. HandedInv'
  <2>1. Range(unacked') \subseteq Range(unacked)
    BY <1>1, <1>3, <1>4, FirstOfWindow
  <2>. QED  BY <1>1, <1>2, <1>3, <1>4, <1>5, <2>1 DEF HandedInv, RepeatsAreExcused, Busy
<1>. QED  BY <1>4, <1>6, <1>7, <1>8, <1>9

LEMMA TakeKeeps ==
  ASSUME IInv, Take
  PROVE  IInv'
<1>. USE DEF IInv, broker, others
<1>. DEFINE o == Head(local)
            rest == Tail(local)
<1>1. o \in OrderIds /\ rest \in Seq(OrderIds) /\ local = <<o>> \o rest
  BY HeadAndTail DEF Take, TypeOK
<1>2. /\ pc = "idle" /\ pc' = "deliver" /\ local' = rest /\ current' = o
      /\ UNCHANGED <<queue, unacked, channel, attempt, paused, failing, receiver, answered,
                     published, copies, excused>>
  BY DEF Take
<1>. HIDE DEF o, rest
<1>3. unacked = IF channel THEN local ELSE <<>>
  BY <1>2, IdleWindow DEF Working
<1>4. Range(local) = {o} \cup Range(rest) /\ Range(<<o>>) = {o}
  BY <1>1, InFront, SingleElement
<1>5. Busy' = <<o>>
  BY <1>1, <1>2, OrdersAssumption DEF Busy
<1>6. TypeOK'
  BY <1>1, <1>2 DEF TypeOK, PCs
<1>7. WindowInv'
  BY <1>1, <1>2, <1>3, <1>5, OrdersAssumption DEF WindowInv, Working
<1>8. QueueInv'
  BY <1>2, <1>4, <1>5 DEF QueueInv, Owed
<1>9. HandedInv'
  <2>1. Range(unacked) \subseteq Range(local)
    BY <1>3 DEF Range
  <2>. QED  BY <1>2, <1>4, <1>5, <2>1 DEF HandedInv, RepeatsAreExcused
<1>. QED  BY <1>6, <1>7, <1>8, <1>9

LEMMA DeliverKeeps ==
  ASSUME IInv, Deliver
  PROVE  IInv'
<1>1. /\ pc = "deliver" /\ pc' \in {"nack", "post"} /\ attempt' = 1
      /\ UNCHANGED <<queue, unacked, channel, local, current, paused, failing, receiver, answered,
                     published, copies, excused>>
  BY DEF Deliver, broker, others
<1>2. 1 \in 1..Attempts
  BY OrdersAssumption
<1>. QED
  BY <1>1, <1>2
     DEF IInv, TypeOK, PCs, WindowInv, QueueInv, HandedInv, RepeatsAreExcused, Working, Busy, Owed

LEMMA PostKeeps ==
  ASSUME IInv, NEW got \in BOOLEAN, Post(got)
  PROVE  IInv'
<1>. USE DEF IInv, broker
<1>1. /\ pc = "post" /\ pc' \in {"ack", "post", "nack"}
      /\ pc' = "ack" <=> Taken
      /\ Taken => got
      /\ UNCHANGED <<queue, unacked, channel, local, current, paused, failing, receiver, answered,
                     published>>
  BY DEF Post
<1>2. attempt' \in 1..Attempts
  BY OrdersAssumption DEF Post, TypeOK
<1>3. /\ current \in OrderIds /\ Busy = <<current>> /\ Range(Busy) = {current}
      /\ unacked = IF channel THEN <<current>> \o local ELSE <<>>
  BY <1>1, WorkingWindow DEF Working
<1>4. copies' = IF got THEN [copies EXCEPT ![current] = IF @ = 2 THEN 2 ELSE @ + 1] ELSE copies
  BY DEF Post
<1>5. /\ copies' \in [OrderIds -> 0..2]
      /\ \A o \in OrderIds \ {current} : copies'[o] = copies[o]
      /\ got => copies'[current] > 0
      /\ ~got => copies' = copies
  BY <1>3, <1>4 DEF TypeOK
<1>6. excused' = IF got /\ ~(Taken /\ channel) THEN excused \cup {current} ELSE excused
  BY DEF Post
<1>7. TypeOK'
  BY <1>1, <1>2, <1>3, <1>5, <1>6 DEF TypeOK, PCs
<1>8. WindowInv' /\ QueueInv'
  BY <1>1 DEF WindowInv, QueueInv, Working, Busy, Owed
<1>9. HandedInv'
  <2>1. current \in published
    BY <1>3 DEF QueueInv
  <2>2. copies[current] > 0 => current \in excused
    BY <1>1, <1>3 DEF HandedInv
  <2>3. channel => current \notin Range(queue) \cup Range(local)
    BY <1>3, FirstOfWindow DEF TypeOK
  <2>4. \A o \in OrderIds : copies'[o] = 2 => o \in excused'
    <3>1. copies'[current] = 2 => copies[current] > 0
      BY <1>3, <1>4 DEF TypeOK
    <3>. QED  BY <1>3, <1>5, <1>6, <2>2, <3>1 DEF HandedInv, RepeatsAreExcused
  <2>5. pc' = "ack" => copies'[current] > 0
    BY <1>1, <1>5
  <2>6. \A o \in OrderIds : copies'[o] > 0 => o \in published
    BY <1>5, <2>1 DEF HandedInv
  <2>7. ASSUME NEW o \in OrderIds, copies'[o] > 0, o \notin excused'
        PROVE  /\ o \notin Range(queue) \cup Range(local)
               /\ o \in Range(unacked) \cup Range(Busy) => pc' = "ack" /\ o = current
    <3>1. CASE o = current
      <4>1. got /\ Taken /\ channel
        BY <1>5, <1>6, <2>2, <2>7, <3>1
      <4>. QED  BY <1>1, <2>3, <3>1, <4>1
    <3>2. CASE o # current
      BY <1>1, <1>5, <1>6, <2>7, <3>2 DEF HandedInv
    <3>. QED  BY <3>1, <3>2
  <2>8. Busy' = Busy
    BY <1>1 DEF Busy
  <2>. QED  BY <1>1, <2>4, <2>5, <2>6, <2>7, <2>8 DEF HandedInv, RepeatsAreExcused
<1>. QED  BY <1>7, <1>8, <1>9

\* Settling takes the order in work from the channel; an acknowledged one is
\* gone, any other is back in the queue.
LEMMA SettleEffect ==
  ASSUME IInv, Settle
  PROVE  /\ current \in OrderIds
         /\ queue' \in Seq(OrderIds) /\ unacked' = IF channel THEN local ELSE <<>>
         /\ Range(queue') = IF pc = "nack" /\ channel THEN {current} \cup Range(queue)
                                                      ELSE Range(queue)
         /\ IsInjective(queue' \o unacked')
         /\ Owed' = IF pc = "ack" /\ channel THEN Owed \ {current} ELSE Owed
<1>. USE DEF IInv
<1>1. pc \in {"ack", "nack"}
  BY DEF Settle
<1>2. current \in OrderIds /\ unacked = IF channel THEN <<current>> \o local ELSE <<>>
  BY <1>1, WorkingWindow DEF Working
<1>3. local \in Seq(OrderIds) /\ queue \in Seq(OrderIds)
  BY DEF TypeOK
<1>4. CASE pc = "nack"
  <2>1. Nack(current)
    BY <1>4 DEF Settle
  <2>. QED  BY <1>2, <1>3, <1>4, <2>1, NackEffect
<1>5. CASE pc = "ack"
  <2>1. queue' = queue /\ unacked' = Without(unacked, current)
    BY <1>5 DEF Settle, Ack
  <2>2. /\ Without(unacked, current) = IF channel THEN local ELSE <<>>
        /\ Range(unacked) = IF channel THEN {current} \cup Range(local) ELSE {}
        /\ channel => current \notin Range(local) /\ current \notin Range(queue)
    BY <1>2, <1>3, FirstOfWindow
  <2>3. IsInjective(queue \o unacked')
    <3>1. IsInjective(queue) /\ IsInjective(unacked) /\ Range(queue) \cap Range(unacked) = {}
      BY InjectiveConcat DEF TypeOK, QueueInv
    <3>2. CASE channel
      <4>1. IsInjective(local) /\ Range(queue) \cap Range(local) = {}
        BY <1>2, <1>3, <2>2, <3>1, <3>2, InFront
      <4>. QED  BY <1>3, <2>1, <2>2, <3>1, <3>2, <4>1, InjectiveConcat
    <3>3. CASE ~channel
      BY <1>2, <2>1, <2>2, <3>3 DEF QueueInv
    <3>. QED  BY <3>2, <3>3
  <2>4. Range(<<>>) = {}
    BY DEF Range
  <2>5. Owed' = IF channel THEN Owed \ {current} ELSE Owed
    BY <2>1, <2>2, <2>4, <1>2 DEF Owed
  <2>. QED  BY <1>2, <1>3, <1>5, <2>1, <2>2, <2>3, <2>5
<1>. QED  BY <1>1, <1>4, <1>5

LEMMA SettleKeeps ==
  ASSUME IInv, Settle
  PROVE  IInv'
<1>. USE DEF IInv, others
<1>1. /\ current \in OrderIds
      /\ queue' \in Seq(OrderIds) /\ unacked' = IF channel THEN local ELSE <<>>
      /\ Range(queue') = IF pc = "nack" /\ channel THEN {current} \cup Range(queue)
                                                   ELSE Range(queue)
      /\ IsInjective(queue' \o unacked')
      /\ Owed' = IF pc = "ack" /\ channel THEN Owed \ {current} ELSE Owed
  BY SettleEffect
<1>2. /\ pc \in {"ack", "nack"} /\ pc' = "idle" /\ current' = None
      /\ UNCHANGED <<channel, local, attempt, paused, failing, receiver, answered, published,
                     copies, excused>>
  BY DEF Settle
<1>3. Busy' = <<>> /\ Range(<<>>) = {} /\ <<>> \in Seq(OrderIds) /\ <<>> \o local = local
  BY <1>2, ConcatEmptySeq DEF Busy, Range, TypeOK
<1>4. /\ Range(Busy) = {current}
      /\ unacked = IF channel THEN <<current>> \o local ELSE <<>>
  BY <1>2, WorkingWindow DEF Working
<1>5. TypeOK'
  BY <1>1, <1>2, <1>3 DEF TypeOK, PCs
<1>6. WindowInv'
  BY <1>1, <1>2, <1>3 DEF WindowInv, Working
<1>7. QueueInv'
  <2>1. Owed' \subseteq published /\ Range(local) \subseteq published
    BY <1>1 DEF QueueInv
  <2>. QED  BY <1>1, <1>2, <1>3, <2>1 DEF QueueInv
<1>8. HandedInv'
  <2>1. Range(unacked') \subseteq Range(local)
    BY <1>1, <1>3
  <2>2. pc = "nack" => (copies[current] > 0 => current \in excused)
    BY <1>1, <1>4 DEF HandedInv
  <2>3. ASSUME NEW o \in OrderIds, copies[o] > 0, o \notin excused
        PROVE  o \notin Range(queue') \cup Range(local)
    BY <1>1, <2>2, <2>3 DEF HandedInv
  <2>. QED  BY <1>2, <1>3, <2>1, <2>3 DEF HandedInv, RepeatsAreExcused
<1>. QED  BY <1>5, <1>6, <1>7, <1>8

LEMMA OtherStepsKeep ==
  ASSUME IInv,
         \/ Connect \/ EndConsume \/ Restart \/ ReceiverChanges \/ FaultReset \/ UNCHANGED vars
         \/ \E on \in BOOLEAN : FaultPause(on) \/ FaultWebhook(on)
  PROVE  IInv' /\ Owed' = Owed /\ UNCHANGED <<published, copies>>
<1>. USE DEF broker, others, worker
<1>1. CASE Connect
  <2>1. /\ pc = "dial" /\ pc' = "idle" /\ channel' = TRUE
        /\ UNCHANGED <<queue, unacked, local, current, attempt, paused, failing, receiver, answered,
                       published, copies, excused>>
    BY <1>1 DEF Connect
  <2>2. local = <<>> /\ unacked = <<>> /\ Busy = <<>> /\ current = None /\ <<>> \o <<>> = <<>>
    BY <2>1 DEF IInv, WindowInv, Working, Busy
  <2>. QED
    BY <2>1, <2>2
       DEF IInv, TypeOK, PCs, WindowInv, QueueInv, HandedInv, RepeatsAreExcused, Working, Busy, Owed
<1>2. CASE EndConsume
  <2>1. /\ pc = "idle" /\ ~channel /\ pc' = "ended" /\ local' = <<>>
        /\ UNCHANGED <<queue, unacked, channel, current, attempt, paused, failing, receiver,
                       answered, published, copies, excused>>
    BY <1>2 DEF EndConsume
  <2>2. <<>> \in Seq(OrderIds) /\ Range(<<>>) = {}
    BY DEF Range
  <2>. QED
    BY <2>1, <2>2
       DEF IInv, TypeOK, PCs, WindowInv, QueueInv, HandedInv, RepeatsAreExcused, Working, Busy, Owed
<1>3. CASE Restart
  <2>1. /\ pc = "dead" /\ pc' = "dial"
        /\ UNCHANGED <<queue, unacked, channel, local, current, attempt, paused, failing, receiver,
                       answered, published, copies, excused>>
    BY <1>3 DEF Restart
  <2>. QED
    BY <2>1
       DEF IInv, TypeOK, PCs, WindowInv, QueueInv, HandedInv, RepeatsAreExcused, Working, Busy, Owed
<1>4. CASE \/ ReceiverChanges \/ FaultReset \/ UNCHANGED vars
           \/ \E on \in BOOLEAN : FaultPause(on) \/ FaultWebhook(on)
  <2>1. /\ UNCHANGED <<queue, unacked, channel, pc, local, current, attempt, answered, published,
                       copies, excused>>
    BY <1>4 DEF ReceiverChanges, FaultPause, FaultWebhook, FaultReset, vars
  <2>2. receiver' \in BOOLEAN /\ paused' \in BOOLEAN /\ failing' \in BOOLEAN
    BY <1>4 DEF ReceiverChanges, FaultPause, FaultWebhook, FaultReset, vars, IInv, TypeOK
  <2>. QED
    BY <2>1, <2>2
       DEF IInv, TypeOK, WindowInv, QueueInv, HandedInv, RepeatsAreExcused, Working, Busy, Owed
<1>. QED  BY <1>1, <1>2, <1>3, <1>4

LEMMA IInvStep == IInv /\ [Next]_vars => IInv'
  BY PlaceKeeps, PushKeeps, ConnectionLostKeeps, BrokerRestartKeeps, DieKeeps, TakePausedKeeps,
     TakeKeeps, DeliverKeeps, PostKeeps, SettleKeeps, OtherStepsKeep
     DEF Next, Work

LEMMA IInvAlways == Spec => []IInv
  BY IInvInit, IInvStep, PTL DEF Spec

(***************************************************************************)
(* Every step is a step of the promise, or none of it.                     *)
(***************************************************************************)
Handed == {o \in OrderIds : copies[o] > 0}

LEMMA PromiseInit == Init => Promise!Init
  BY DEF Init, Promise!Init, Owed, Range

LEMMA PromiseStutter ==
  ASSUME Owed' = Owed, UNCHANGED <<published, copies>>
  PROVE  UNCHANGED Promise!vars
  BY DEF Promise!vars

LEMMA PlaceRefines ==
  ASSUME IInv, NEW o \in OrderIds, NEW sent \in BOOLEAN, Place(o, sent)
  PROVE  [Promise!Next]_(Promise!vars)
<1>1. UNCHANGED <<unacked, copies>>
  BY DEF Place
<1>2. CASE sent
  <2>1. queue' = Append(queue, o) /\ published' = published \cup {o} /\ o \notin published
    BY <1>2 DEF Place, IInv, TypeOK
  <2>2. Append(queue, o) = queue \o <<o>> /\ Range(queue \o <<o>>) = {o} \cup Range(queue)
    BY AppendIsConcat, InFront DEF IInv, TypeOK
  <2>3. Owed' = Owed \cup {o}
    BY <1>1, <2>1, <2>2 DEF Owed
  <2>4. Promise!Publish(o)
    BY <1>1, <2>1, <2>3 DEF Promise!Publish
  <2>. QED  BY <2>4 DEF Promise!Next
<1>3. CASE ~sent
  <2>1. UNCHANGED <<queue, published>>
    BY <1>3 DEF Place
  <2>. QED  BY <1>1, <2>1, PromiseStutter DEF Owed
<1>. QED  BY <1>2, <1>3

LEMMA PostRefines ==
  ASSUME IInv, NEW got \in BOOLEAN, Post(got)
  PROVE  [Promise!Next]_(Promise!vars)
<1>1. UNCHANGED <<queue, unacked, published>> /\ Owed' = Owed
  BY DEF Post, broker, Owed
<1>2. current \in OrderIds /\ Range(Busy) = {current}
  BY WorkingWindow DEF IInv, Working, Post
<1>3. CASE got
  <2>1. copies' = [copies EXCEPT ![current] = IF @ = 2 THEN 2 ELSE @ + 1]
    BY <1>3 DEF Post
  <2>2. copies'[current] > 0 /\ \A o \in OrderIds \ {current} : copies'[o] = copies[o]
    BY <1>2, <2>1 DEF IInv, TypeOK
  <2>3. Handed' = Handed \cup {current}
    BY <1>2, <2>2 DEF Handed
  <2>4. current \in published
    BY <1>2 DEF IInv, QueueInv
  <2>5. PICK o \in OrderIds : o = current
    BY <1>2
  <2>6. Promise!Hand(o)
    BY <1>1, <2>3, <2>4, <2>5 DEF Promise!Hand, Handed
  <2>. QED  BY <2>6 DEF Promise!Next
<1>4. CASE ~got
  <2>1. copies' = copies
    BY <1>4 DEF Post
  <2>. QED  BY <1>1, <2>1, PromiseStutter
<1>. QED  BY <1>3, <1>4

LEMMA SettleRefines ==
  ASSUME IInv, Settle
  PROVE  [Promise!Next]_(Promise!vars)
<1>1. UNCHANGED <<channel, published, copies>>
  BY DEF Settle, others
<1>2. current \in OrderIds
      /\ Owed' = IF pc = "ack" /\ channel THEN Owed \ {current} ELSE Owed
  BY SettleEffect
<1>3. CASE pc = "ack" /\ channel
  <2>1. copies[current] > 0
    BY <1>3 DEF IInv, HandedInv
  <2>2. current \in Owed
    <3>1. unacked = <<current>> \o local
      BY <1>3, WorkingWindow DEF IInv, Working
    <3>2. current \in Range(unacked)
      BY <1>2, <3>1, InFront DEF IInv, TypeOK
    <3>. QED  BY <3>2 DEF Owed
  <2>3. Promise!StrikeOff(current)
    BY <1>1, <1>2, <1>3, <2>1, <2>2 DEF Promise!StrikeOff
  <2>. QED  BY <1>2, <2>3 DEF Promise!Next
<1>4. CASE ~(pc = "ack" /\ channel)
  BY <1>1, <1>2, <1>4, PromiseStutter
<1>. QED  BY <1>3, <1>4

LEMMA BrokerRestartRefines ==
  ASSUME BrokerRestart
  PROVE  [Promise!Next]_(Promise!vars)
<1>1. queue' = <<>> /\ unacked' = <<>> /\ UNCHANGED <<published, copies>>
  BY DEF BrokerRestart, others
<1>2. Owed' = {}
  BY <1>1 DEF Owed, Range
<1>3. Promise!LoseAll
  BY <1>1, <1>2 DEF Promise!LoseAll
<1>. QED  BY <1>3 DEF Promise!Next

\* A delivery, a lost connection, a crash and a pause only move what is owed.
LEMMA MovingRefines ==
  ASSUME IInv, Push \/ ConnectionLost \/ Die \/ TakePaused \/ Take \/ Deliver
  PROVE  UNCHANGED Promise!vars
<1>. USE DEF IInv
<1>1. CASE Push
  <2>1. PICK h \in OrderIds : /\ queue' \in Seq(OrderIds) /\ queue = <<h>> \o queue'
                              /\ unacked' = unacked \o <<h>>
    BY <1>1, PushEffect
  <2>2. Range(queue) = {h} \cup Range(queue') /\ Range(unacked') = {h} \cup Range(unacked)
    BY <2>1, InFront DEF TypeOK
  <2>. QED  BY <1>1, <2>2, PromiseStutter DEF Push, others, Owed
<1>2. CASE ConnectionLost \/ Die
  <2>1. Requeue /\ UNCHANGED <<published, copies>>
    BY <1>2 DEF ConnectionLost, Die
  <2>. QED  BY <2>1, RequeueEffect, PromiseStutter
<1>3. CASE TakePaused
  BY <1>3, TakePausedKeeps, PromiseStutter DEF TakePaused, others
<1>4. CASE Take \/ Deliver
  BY <1>4, PromiseStutter DEF Take, Deliver, broker, others, Owed
<1>. QED  BY <1>1, <1>2, <1>3, <1>4

LEMMA PromiseStep == IInv /\ [Next]_vars => [Promise!Next]_(Promise!vars)
<1>. SUFFICES ASSUME IInv, [Next]_vars PROVE [Promise!Next]_(Promise!vars)
  OBVIOUS
<1>1. ASSUME NEW o \in OrderIds, NEW sent \in BOOLEAN, Place(o, sent)
      PROVE  [Promise!Next]_(Promise!vars)
  BY <1>1, PlaceRefines
<1>2. CASE \E got \in BOOLEAN : Post(got)
  BY <1>2, PostRefines
<1>3. CASE Settle \/ BrokerRestart
  BY <1>3, SettleRefines, BrokerRestartRefines
<1>4. CASE Push \/ ConnectionLost \/ Die \/ TakePaused \/ Take \/ Deliver
  BY <1>4, MovingRefines
<1>5. CASE \/ Connect \/ EndConsume \/ Restart \/ ReceiverChanges \/ FaultReset \/ UNCHANGED vars
           \/ \E on \in BOOLEAN : FaultPause(on) \/ FaultWebhook(on)
  BY <1>5, OtherStepsKeep, PromiseStutter
<1>. QED  BY <1>1, <1>2, <1>3, <1>4, <1>5 DEF Next, Work
-----------------------------------------------------------------------------
(***************************************************************************)
(* The theorems.                                                           *)
(***************************************************************************)
\* The variables stay in their domains; the number of the next post of a
\* delivery never passes the three attempts of deliverWebhook.
THEOREM OrdersTypeCorrect == Spec => []TypeOK
  BY IInvAlways, PTL DEF IInv

\* No delivery slips out of the worker's hands unsettled, so the prefetch
\* window of consume never shrinks, and no order is in the queue twice.
THEOREM NothingForgotten == Spec => []NoneForgotten
<1>1. IInv => NoneForgotten
  BY DEF IInv, WindowInv, QueueInv, NoneForgotten
<1>. QED  BY <1>1, IInvAlways, PTL

\* deliverWebhook posts an order again after it was received only if the
\* answer was lost or the channel closed before the acknowledgement.
THEOREM RepeatsHaveExcuse == Spec => []RepeatsAreExcused
<1>1. IInv => RepeatsAreExcused
  BY DEF IInv, HandedInv
<1>. QED  BY <1>1, IInvAlways, PTL

\* ordersHandler, consume and the broker together implement OrderQueue: an
\* order the queue has taken stays owed until the receiver has got it, however
\* connections, answers and processes are lost; only the broker's restart
\* takes it away.
THEOREM QueueKeepsPromise == Spec => PromiseKept
  BY PromiseInit, PromiseStep, IInvAlways, PTL DEF Spec, PromiseKept, Promise!Spec
=============================================================================
