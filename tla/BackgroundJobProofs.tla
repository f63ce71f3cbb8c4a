------------------------ MODULE BackgroundJobProofs ------------------------
(***************************************************************************)
(* Theorems about BackgroundJob, for any number of concurrent requests and *)
(* any size of the ballast.                                                *)
(***************************************************************************)
EXTENDS BackgroundJob, Integers, FiniteSetTheorems, TLAPS

(***************************************************************************)
(* The invariant.  Each request that enables the fault owes the chunks it  *)
(* has not appended yet; the ballast, and every length that was loaded of  *)
(* it, has room for all that is owed.                                      *)
(***************************************************************************)
Stages == {"off", "enable", "make", "load", "store", "reset", "drop"}

HandlerRecords == [at : Stages, done : 0..Chunks - 1, len : Nat]

\* The type invariant without the bounds that follow from RoomInv.
Shape ==
  /\ pressure \in BOOLEAN /\ clean \in BOOLEAN /\ begun \in 0..MaxBegun /\ ballast \in Nat
  /\ handler \in [Handlers -> HandlerRecords]
  /\ scheduler \in {"select", "sleep", "cleanup"} /\ due \subseteq {"cleanup", "metrics"}

Filling(h) == handler[h].at \in {"enable", "make", "load", "store"}

Owing == {p \in Handlers \X (0..Chunks - 1) : Filling(p[1]) /\ handler[p[1]].done <= p[2]}

RoomInv ==
  /\ IsFiniteSet(Owing)
  /\ ballast + Cardinality(Owing) <= Chunks * begun
  /\ \A h \in Handlers : handler[h].len + Cardinality(Owing) <= Chunks * begun

\* Before it appends, and after, a handler has neither done nor loaded a chunk.
StageInv ==
  \A h \in Handlers :
    /\ handler[h].at \notin {"load", "store"} => handler[h].done = 0
    /\ handler[h].at # "store" => handler[h].len = 0

\* A request that has the service to itself has set the flag, emptied the
\* ballast and filled it up to the chunk it has come to, or is about to.
AloneInv ==
  clean =>
    /\ \A g, h \in Handlers : handler[g].at # "off" /\ handler[h].at # "off" => g = h
    /\ (\A h \in Handlers : handler[h].at = "off") => ballast = IF pressure THEN Chunks ELSE 0
    /\ \A h \in Handlers :
         /\ handler[h].at \in {"make", "load", "store"} => pressure
         /\ handler[h].at \in {"load", "store"} => ballast = handler[h].done
         /\ handler[h].at = "store" => handler[h].len = handler[h].done
         /\ handler[h].at = "drop" => ~pressure

IInv == Shape /\ RoomInv /\ StageInv /\ AloneInv

LEMMA RoomInNumbers ==
  ASSUME Shape, RoomInv
  PROVE  /\ Chunks * begun \in Nat /\ begun \in Nat /\ Cardinality(Owing) \in Nat
         /\ ballast <= Chunks * begun
         /\ \A h \in Handlers : handler[h].len <= Chunks * begun
<1>1. begun \in Nat /\ Chunks \in Nat
  BY JobAssumption DEF Shape
<1>2. Chunks * begun \in Nat
  BY <1>1
<1>3. Cardinality(Owing) \in Nat
  BY FS_CardinalityType DEF RoomInv
<1>4. \A h \in Handlers : handler[h].len \in Nat
  BY DEF Shape, HandlerRecords
<1>. QED  BY <1>1, <1>2, <1>3, <1>4 DEF RoomInv, Shape

LEMMA ShapeAndRoom ==
  ASSUME Shape, RoomInv
  PROVE  TypeOK
<1>1. /\ Chunks * begun \in Nat /\ ballast <= Chunks * begun
      /\ \A h \in Handlers : handler[h].len <= Chunks * begun
  BY RoomInNumbers
<1>2. ballast \in 0..Chunks * begun
  BY <1>1 DEF Shape
<1>3. handler \in [Handlers -> [at : Stages, done : 0..Chunks - 1, len : 0..Chunks * begun]]
  BY <1>1 DEF Shape, HandlerRecords
<1>. QED  BY <1>2, <1>3 DEF TypeOK, Shape, Stages

LEMMA IInvInit == Init => IInv
<1>. SUFFICES ASSUME Init PROVE IInv
  OBVIOUS
<1>1. /\ pressure = FALSE /\ ballast = 0 /\ begun = 0 /\ clean = TRUE
      /\ scheduler = "select" /\ due = {}
      /\ handler = [h \in Handlers |-> Off]
  BY DEF Init
<1>2. Off \in HandlerRecords /\ Off.at = "off" /\ Off.len = 0 /\ Off.done = 0
  BY JobAssumption DEF Off, HandlerRecords, Stages
<1>3. Shape
  <2>1. handler \in [Handlers -> HandlerRecords]
    BY <1>1, <1>2
  <2>2. begun \in 0..MaxBegun
    BY <1>1, JobAssumption
  <2>. QED  BY <1>1, <2>1, <2>2 DEF Shape
<1>4. RoomInv
  <2>1. Owing = {}
    BY <1>1, <1>2 DEF Owing, Filling
  <2>2. IsFiniteSet(Owing) /\ Cardinality(Owing) = 0
    BY <2>1, FS_EmptySet
  <2>3. Chunks * begun = 0
    BY <1>1, JobAssumption
  <2>. QED  BY <1>1, <1>2, <2>2, <2>3 DEF RoomInv
<1>. QED  BY <1>1, <1>2, <1>3, <1>4 DEF IInv, StageInv, AloneInv

(***************************************************************************)
(* One handler moves on and the others stay where they are.                *)
(***************************************************************************)
Moved(h, r) ==
  /\ handler' \in [Handlers -> HandlerRecords]
  /\ handler'[h] = r
  /\ \A g \in Handlers \ {h} : handler'[g] = handler[g]

\* As long as h neither begins nor appends, as much is owed as before.
LEMMA OwingStays ==
  ASSUME NEW h \in Handlers, NEW r, Moved(h, r),
         r.at \in {"enable", "make", "load", "store"} <=> Filling(h),
         Filling(h) => r.done = handler[h].done
  PROVE  Owing' = Owing
<1>1. \A g \in Handlers : (Filling(g)' <=> Filling(g))
                          /\ (Filling(g) => handler'[g].done = handler[g].done)
  BY DEF Moved, Filling
<1>. QED  BY <1>1 DEF Owing

\* A step of h that leaves what is owed alone and stores no longer ballast.
LEMMA RoomStays ==
  ASSUME Shape, RoomInv, NEW h \in Handlers, NEW r, Moved(h, r),
         r.at \in {"enable", "make", "load", "store"} <=> Filling(h),
         Filling(h) => r.done = handler[h].done,
         ballast' \in {0, ballast}, r.len \in {0, ballast, handler[h].len}, begun' = begun
  PROVE  RoomInv'
<1>1. Owing' = Owing
  BY OwingStays
<1>2. \A g \in Handlers : handler'[g].len \in {0, ballast, handler[g].len}
  BY DEF Moved
<1>3. /\ Cardinality(Owing) \in Nat /\ Chunks * begun \in Nat /\ ballast \in Nat
      /\ \A g \in Handlers : handler[g].len \in Nat
  BY RoomInNumbers DEF Shape, HandlerRecords
<1>4. 0 + Cardinality(Owing) <= Chunks * begun
  BY <1>3 DEF RoomInv
<1>. QED  BY <1>1, <1>2, <1>3, <1>4 DEF RoomInv

LEMMA EnableMakesRoom ==
  ASSUME Shape, RoomInv, NEW h \in Handlers, handler[h] = Off, begun' = begun + 1,
         ballast' = ballast, NEW r, Moved(h, r), r.at \in {"enable", "reset"}, r.done = 0, r.len = 0
  PROVE  RoomInv'
<1>. DEFINE New == {h} \X (0..Chunks - 1)
            c == Cardinality(Owing)
<1>1. /\ c \in Nat /\ Chunks * begun \in Nat /\ ballast \in Nat /\ begun \in Nat /\ Chunks \in Nat \ {0}
      /\ \A g \in Handlers : handler[g].len \in Nat
  BY RoomInNumbers, JobAssumption DEF Shape, HandlerRecords
<1>2. Chunks * begun' = Chunks * begun + Chunks
  BY <1>1
<1>3. ~Filling(h)
  BY DEF Off, Filling
<1>4. IsFiniteSet(New) /\ Cardinality(New) = Chunks
  <2>. DEFINE A == {h}
              B == 0..Chunks - 1
  <2>1. IsFiniteSet(A) /\ Cardinality(A) = 1
    BY FS_Singleton
  <2>2. IsFiniteSet(B) /\ Cardinality(B) = Chunks
    BY <1>1, FS_Interval
  <2>. HIDE DEF A, B
  <2>3. IsFiniteSet(A \X B) /\ Cardinality(A \X B) = 1 * Chunks
    BY <2>1, <2>2, FS_Product
  <2>. QED  BY <1>1, <2>3 DEF A, B
<1>5. IsFiniteSet(Owing') /\ Cardinality(Owing') <= c + Chunks
  <2>1. CASE r.at = "enable"
    <3>1. Owing' = Owing \cup New
      BY <1>3, <2>1 DEF Owing, Filling, Moved
    <3>2. Owing \cap New = {}
      BY <1>3 DEF Owing
    <3>3. IsFiniteSet(Owing)
      BY DEF RoomInv
    <3>4. /\ IsFiniteSet(Owing \cup New)
          /\ Cardinality(Owing \cup New) = c + Cardinality(New) - Cardinality(Owing \cap New)
      BY <1>4, <3>3, FS_Union
    <3>5. Cardinality(Owing \cap New) = 0
      BY <3>2, FS_EmptySet
    <3>6. Cardinality(Owing \cup New) = c + Chunks
      BY <1>1, <1>4, <3>4, <3>5
    <3>. QED  BY <1>1, <3>1, <3>4, <3>6
  <2>2. CASE r.at = "reset"
    <3>1. Owing' = Owing
      BY <1>3, <2>2, OwingStays
    <3>. QED  BY <1>1, <3>1 DEF RoomInv
  <2>. QED  BY <2>1, <2>2
<1>6. Cardinality(Owing') \in Nat
  BY <1>5, FS_CardinalityType
<1>7. handler'[h].len = 0 /\ \A g \in Handlers \ {h} : handler'[g] = handler[g]
  BY DEF Moved
<1>. HIDE DEF c
<1>8. /\ ballast + c <= Chunks * begun
      /\ \A g \in Handlers : handler[g].len + c <= Chunks * begun
  BY DEF RoomInv, c
<1>9. ballast' + Cardinality(Owing') <= Chunks * begun'
  BY <1>1, <1>2, <1>5, <1>6, <1>8
<1>10. \A g \in Handlers : handler'[g].len + Cardinality(Owing') <= Chunks * begun'
  <2>1. c <= Chunks * begun
    BY <1>1, <1>8
  <2>. QED  BY <1>1, <1>2, <1>5, <1>6, <1>7, <1>8, <2>1
<1>. QED  BY <1>5, <1>9, <1>10 DEF RoomInv

\* An append makes the ballast longer and pays a chunk of what is owed.
LEMMA StorePays ==
  ASSUME Shape, RoomInv, NEW h \in Handlers, handler[h].at = "store",
         ballast' = handler[h].len + 1, begun' = begun,
         Moved(h, IF handler[h].done + 1 = Chunks THEN Off
                  ELSE [at |-> "load", done |-> handler[h].done + 1, len |-> 0])
  PROVE  RoomInv'
<1>. DEFINE d == handler[h].done
            c == Cardinality(Owing)
<1>1. /\ c \in Nat /\ Chunks * begun \in Nat /\ Chunks \in Nat \ {0} /\ d \in 0..Chunks - 1
      /\ \A g \in Handlers : handler[g].len \in Nat /\ handler[g].done \in Nat
  BY RoomInNumbers, JobAssumption DEF Shape, HandlerRecords
<1>2. /\ handler'[h].len = 0
      /\ IF d + 1 = Chunks THEN handler'[h].at = "off"
         ELSE handler'[h].at = "load" /\ handler'[h].done = d + 1
      /\ \A g \in Handlers \ {h} : handler'[g] = handler[g]
  BY DEF Moved, Off
<1>3. Owing' = Owing \ {<<h, d>>}
  <2>1. ASSUME NEW k \in 0..Chunks - 1
        PROVE  (Filling(h)' /\ handler'[h].done <= k) <=> (Filling(h) /\ d <= k /\ k # d)
    BY <1>1, <1>2 DEF Filling
  <2>2. \A g \in Handlers \ {h} : /\ Filling(g)' <=> Filling(g)
                                  /\ handler'[g].done = handler[g].done
    BY <1>2 DEF Filling
  <2>. QED  BY <2>1, <2>2 DEF Owing
<1>4. <<h, d>> \in Owing
  BY <1>1 DEF Owing, Filling
<1>5. IsFiniteSet(Owing') /\ Cardinality(Owing') = c - 1
  BY <1>3, <1>4, FS_RemoveElement DEF RoomInv
<1>6. /\ handler[h].len + c <= Chunks * begun
      /\ \A g \in Handlers : handler[g].len + c <= Chunks * begun
  BY DEF RoomInv
<1>. HIDE DEF c
<1>7. ballast' + Cardinality(Owing') <= Chunks * begun'
  BY <1>1, <1>5, <1>6
<1>8. \A g \in Handlers : handler'[g].len + Cardinality(Owing') <= Chunks * begun'
  BY <1>1, <1>2, <1>5, <1>6
<1>. QED  BY <1>5, <1>7, <1>8 DEF RoomInv

(***************************************************************************)
(* Every step keeps the invariant.                                         *)
(***************************************************************************)
\* What the fields of a handler may be.
LEMMA Fields ==
  ASSUME Shape, StageInv, NEW h \in Handlers
  PROVE  /\ handler[h] = [at |-> handler[h].at, done |-> handler[h].done, len |-> handler[h].len]
         /\ handler[h].at \in Stages /\ handler[h].done \in 0..Chunks - 1 /\ handler[h].len \in Nat
         /\ handler[h].at \notin {"load", "store"} => handler[h].done = 0
         /\ handler[h].at # "store" => handler[h].len = 0
         /\ handler[h].at = "off" <=> handler[h] = Off
<1>1. handler[h] \in HandlerRecords
  BY DEF Shape
<1>2. /\ handler[h].at \notin {"load", "store"} => handler[h].done = 0
      /\ handler[h].at # "store" => handler[h].len = 0
  BY DEF StageInv
<1>3. handler[h] = [at |-> handler[h].at, done |-> handler[h].done, len |-> handler[h].len]
  BY <1>1 DEF HandlerRecords
<1>4. handler[h].at = "off" <=> handler[h] = Off
  BY <1>2, <1>3 DEF Off
<1>. QED  BY <1>1, <1>2, <1>3, <1>4 DEF HandlerRecords

\* To set one field, or the whole record.
LEMMA AtMoves ==
  ASSUME Shape, StageInv, NEW h \in Handlers, NEW at \in Stages, At(h, at)
  PROVE  Moved(h, [at |-> at, done |-> handler[h].done, len |-> handler[h].len])
<1>1. handler' = [handler EXCEPT ![h] = [at |-> at, done |-> handler[h].done, len |-> handler[h].len]]
  <2>1. handler' = [handler EXCEPT ![h] = [handler[h] EXCEPT !.at = at]]
    BY DEF At, Shape
  <2>2. [handler[h] EXCEPT !.at = at]
          = [at |-> at, done |-> handler[h].done, len |-> handler[h].len]
    <3>1. handler[h] = [at |-> handler[h].at, done |-> handler[h].done, len |-> handler[h].len]
      BY Fields
    <3>. QED  BY <3>1
  <2>. QED  BY <2>1, <2>2
<1>2. [at |-> at, done |-> handler[h].done, len |-> handler[h].len] \in HandlerRecords
  BY Fields DEF HandlerRecords
<1>. QED  BY <1>1, <1>2 DEF Moved, Shape

LEMMA SetMoves ==
  ASSUME Shape, NEW h \in Handlers, NEW r \in HandlerRecords, handler' = [handler EXCEPT ![h] = r]
  PROVE  Moved(h, r)
  BY DEF Moved, Shape

\* With the others idle, a handler's step is all that AloneInv has to ask for.
LEMMA AloneMoves ==
  ASSUME AloneInv, NEW h \in Handlers, NEW r, Moved(h, r), clean' = clean, handler[h].at # "off",
         clean =>
           /\ r.at = "off" => ballast' = IF pressure' THEN Chunks ELSE 0
           /\ r.at \in {"make", "load", "store"} => pressure'
           /\ r.at \in {"load", "store"} => ballast' = r.done
           /\ r.at = "store" => r.len = r.done
           /\ r.at = "drop" => ~pressure'
  PROVE  AloneInv'
<1>1. handler'[h] = r /\ \A g \in Handlers \ {h} : handler'[g] = handler[g]
  BY DEF Moved
<1>2. ASSUME clean PROVE \A g \in Handlers \ {h} : handler[g].at = "off"
  BY <1>2 DEF AloneInv
<1>. QED  BY <1>1, <1>2 DEF AloneInv

LEMMA RequestKeeps ==
  ASSUME IInv, NEW h \in Handlers, NEW at \in {"enable", "reset"}, Request(h, at)
  PROVE  IInv'
<1>. USE DEF IInv
<1>. DEFINE r == [at |-> at, done |-> 0, len |-> 0]
<1>1. /\ handler[h] = Off /\ begun < MaxBegun /\ begun' = begun + 1 /\ At(h, at)
      /\ clean' = AllIdle /\ UNCHANGED <<pressure, ballast, scheduler, due>>
  BY DEF Request, jobs
<1>2. Moved(h, r)
  <2>1. at \in Stages /\ handler[h].done = 0 /\ handler[h].len = 0
    BY <1>1 DEF Off, Stages
  <2>. QED  BY <1>1, <2>1, AtMoves
<1>3. r.at = at /\ r.done = 0 /\ r.len = 0
  OBVIOUS
<1>. HIDE DEF r
<1>4. Shape'
  <2>1. begun \in 0..MaxBegun
    BY DEF Shape
  <2>2. begun' \in 0..MaxBegun
    BY <1>1, <2>1, JobAssumption
  <2>3. clean' \in BOOLEAN
    BY <1>1 DEF AllIdle
  <2>. QED  BY <1>1, <1>2, <2>2, <2>3 DEF Shape, Moved
<1>5. RoomInv'
  BY <1>1, <1>2, <1>3, EnableMakesRoom
<1>6. StageInv'
  BY <1>2, <1>3 DEF StageInv, Moved
<1>7. AloneInv'
  <2>. SUFFICES ASSUME clean' PROVE AloneInv'
    BY DEF AloneInv
  <2>1. \A g \in Handlers : handler[g].at = "off"
    BY <1>1, Fields DEF AllIdle
  <2>. QED  BY <1>2, <1>3, <2>1 DEF AloneInv, Moved
<1>. QED  BY <1>4, <1>5, <1>6, <1>7

\* The steps of a handler between its first and its last.
LEMMA StepKeeps ==
  ASSUME IInv, NEW h \in Handlers, Step(h)
  PROVE  IInv'
<1>. USE DEF IInv
<1>. DEFINE d == handler[h].done
            l == handler[h].len
<1>1. /\ d \in 0..Chunks - 1 /\ l \in Nat /\ 0 \in 0..Chunks - 1 /\ ballast \in Nat
      /\ handler[h].at \in Stages /\ Chunks \in Nat \ {0}
      /\ handler[h].at \notin {"load", "store"} => d = 0
      /\ handler[h].at # "store" => l = 0
  BY Fields, JobAssumption DEF Shape
<1>. HIDE DEF d, l
<1>2. ASSUME NEW r \in HandlerRecords, Moved(h, r), handler[h].at # "off",
             UNCHANGED <<begun, scheduler, due, clean>>, pressure' \in BOOLEAN, ballast' \in Nat,
             RoomInv',
             r.at \notin {"load", "store"} => r.done = 0, r.at # "store" => r.len = 0,
             clean =>
               /\ r.at = "off" => ballast' = IF pressure' THEN Chunks ELSE 0
               /\ r.at \in {"make", "load", "store"} => pressure'
               /\ r.at \in {"load", "store"} => ballast' = r.done
               /\ r.at = "store" => r.len = r.done
               /\ r.at = "drop" => ~pressure'
      PROVE  IInv'
  <2>1. Shape'
    BY <1>2 DEF Shape, Moved
  <2>2. StageInv'
    BY <1>2 DEF StageInv, Moved
  <2>3. AloneInv'
    BY <1>2, AloneMoves
  <2>. QED  BY <1>2, <2>1, <2>2, <2>3
<1>3. CASE RaiseFlag(h)
  <2>. DEFINE r == [at |-> "make", done |-> d, len |-> l]
  <2>1. /\ handler[h].at = "enable" /\ pressure' = TRUE /\ At(h, "make")
        /\ UNCHANGED <<ballast, begun, scheduler, due, clean>>
    BY <1>3 DEF RaiseFlag, jobs
  <2>2. Moved(h, r) /\ r \in HandlerRecords
    BY <1>1, <2>1, AtMoves DEF Stages, HandlerRecords, d, l
  <2>3. r.at = "make" /\ r.done = d /\ r.len = l /\ d = 0 /\ l = 0
    BY <1>1, <2>1
  <2>. HIDE DEF r
  <2>4. RoomInv'
    BY <2>1, <2>2, <2>3, RoomStays DEF Filling, d
  <2>. QED  BY <1>1, <1>2, <2>1, <2>2, <2>3, <2>4
<1>4. CASE Make(h)
  <2>. DEFINE r == [at |-> "load", done |-> d, len |-> l]
  <2>1. /\ handler[h].at = "make" /\ ballast' = 0 /\ At(h, "load")
        /\ UNCHANGED <<pressure, begun, scheduler, due, clean>>
    BY <1>4 DEF Make, jobs
  <2>2. Moved(h, r) /\ r \in HandlerRecords
    BY <1>1, <2>1, AtMoves DEF Stages, HandlerRecords, d, l
  <2>3. r.at = "load" /\ r.done = d /\ r.len = l /\ d = 0 /\ l = 0
    BY <1>1, <2>1
  <2>. HIDE DEF r
  <2>4. RoomInv'
    BY <2>1, <2>2, <2>3, RoomStays DEF Filling, d
  <2>5. clean => pressure
    BY <2>1 DEF AloneInv
  <2>. QED  BY <1>1, <1>2, <2>1, <2>2, <2>3, <2>4, <2>5 DEF Shape
<1>5. CASE LoadBallast(h)
  <2>. DEFINE r == [at |-> "store", done |-> d, len |-> ballast]
  <2>1. /\ handler[h].at = "load"
        /\ handler' = [handler EXCEPT ![h].at = "store", ![h].len = ballast]
        /\ UNCHANGED <<pressure, ballast, begun, scheduler, due, clean>>
    BY <1>5 DEF LoadBallast, jobs
  <2>2. r \in HandlerRecords /\ r.at = "store" /\ r.done = d /\ r.len = ballast
    BY <1>1 DEF Stages, HandlerRecords
  <2>3. Moved(h, r)
    <3>1. /\ handler' \in [Handlers -> HandlerRecords]
          /\ handler'[h].at = "store" /\ handler'[h].done = d /\ handler'[h].len = ballast
          /\ \A g \in Handlers \ {h} : handler'[g] = handler[g]
      BY <1>1, <2>1 DEF Shape, HandlerRecords, Stages, d
    <3>2. handler'[h] = [at |-> handler'[h].at, done |-> handler'[h].done, len |-> handler'[h].len]
      BY <3>1 DEF HandlerRecords
    <3>. QED  BY <3>1, <3>2 DEF Moved
  <2>. HIDE DEF r
  <2>4. RoomInv'
    BY <2>1, <2>2, <2>3, RoomStays DEF Filling, d
  <2>5. clean => pressure /\ ballast = d
    BY <2>1 DEF AloneInv, d
  <2>. QED  BY <1>1, <1>2, <2>1, <2>2, <2>3, <2>4, <2>5 DEF Shape
<1>6. CASE StoreBallast(h)
  <2>. DEFINE r == IF d + 1 = Chunks THEN Off ELSE [at |-> "load", done |-> d + 1, len |-> 0]
  <2>1. /\ handler[h].at = "store" /\ ballast' = l + 1
        /\ handler' = [handler EXCEPT ![h] = r]
        /\ UNCHANGED <<pressure, begun, scheduler, due, clean>>
    BY <1>6 DEF StoreBallast, jobs, d, l, Shape
  <2>2. /\ r \in HandlerRecords /\ r.len = 0
        /\ IF d + 1 = Chunks THEN r.at = "off" /\ r.done = 0 ELSE r.at = "load" /\ r.done = d + 1
    BY <1>1 DEF Stages, HandlerRecords, Off
  <2>3. Moved(h, r)
    <3>. HIDE DEF r
    <3>. QED  BY <2>1, <2>2, SetMoves
  <2>4. RoomInv'
    BY <2>1, <2>3, StorePays DEF d, l
  <2>. HIDE DEF r
  <2>5. clean => pressure /\ l = d
    BY <2>1 DEF AloneInv, d, l
  <2>. QED  BY <1>1, <1>2, <2>1, <2>2, <2>3, <2>4, <2>5 DEF Shape
<1>7. CASE ClearFlag(h)
  <2>. DEFINE r == [at |-> "drop", done |-> d, len |-> l]
  <2>1. /\ handler[h].at = "reset" /\ pressure' = FALSE /\ At(h, "drop")
        /\ UNCHANGED <<ballast, begun, scheduler, due, clean>>
    BY <1>7 DEF ClearFlag, jobs
  <2>2. Moved(h, r) /\ r \in HandlerRecords
    BY <1>1, <2>1, AtMoves DEF Stages, HandlerRecords, d, l
  <2>3. r.at = "drop" /\ r.done = d /\ r.len = l /\ d = 0 /\ l = 0
    BY <1>1, <2>1
  <2>. HIDE DEF r
  <2>4. RoomInv'
    BY <2>1, <2>2, <2>3, RoomStays DEF Filling, d
  <2>. QED  BY <1>1, <1>2, <2>1, <2>2, <2>3, <2>4
<1>8. CASE Drop(h)
  <2>1. /\ handler[h].at = "drop" /\ ballast' = 0
        /\ handler' = [handler EXCEPT ![h] = Off]
        /\ UNCHANGED <<pressure, begun, scheduler, due, clean>>
    BY <1>8 DEF Drop, jobs
  <2>2. Off \in HandlerRecords /\ Off.at = "off" /\ Off.done = 0 /\ Off.len = 0
    BY <1>1 DEF Stages, HandlerRecords, Off
  <2>3. Moved(h, Off)
    BY <2>1, <2>2, SetMoves
  <2>4. RoomInv'
    BY <2>1, <2>2, <2>3, RoomStays DEF Filling
  <2>5. clean => ~pressure
    BY <2>1 DEF AloneInv
  <2>. QED  BY <1>1, <1>2, <2>1, <2>2, <2>3, <2>4, <2>5 DEF Shape
<1>. QED  BY <1>3, <1>4, <1>5, <1>6, <1>7, <1>8 DEF Step

\* The scheduler looks at the flag and touches nothing of the fault.
LEMMA SchedulerKeeps ==
  ASSUME IInv,
         \/ \E job \in {"cleanup", "metrics"} : Tick(job)
         \/ PickCleanup \/ PickMetrics \/ Wake \/ RunCleanup \/ UNCHANGED vars
  PROVE  IInv'
<1>1. /\ UNCHANGED <<pressure, ballast, begun, handler, clean>>
      /\ scheduler' \in {"select", "sleep", "cleanup"} /\ due' \subseteq {"cleanup", "metrics"}
  BY DEF IInv, Shape, Tick, PickCleanup, PickMetrics, Wake, RunCleanup, vars
<1>2. Owing' = Owing
  BY <1>1 DEF Owing, Filling
<1>. QED  BY <1>1, <1>2 DEF IInv, Shape, RoomInv, StageInv, AloneInv

LEMMA IInvStep == IInv /\ [Next]_vars => IInv'
  BY RequestKeeps, StepKeeps, SchedulerKeeps DEF Next, Enable, Reset

LEMMA IInvAlways == Spec => []IInv
  BY IInvInit, IInvStep, PTL DEF Spec
-----------------------------------------------------------------------------
(***************************************************************************)
(* The theorems.                                                           *)
(***************************************************************************)
\* The variables stay in their domains.  The ballast of faultMemoryHandler,
\* however its appends run into each other and into resets, never has more
\* than one full ballast for each request there was.
THEOREM JobTypeCorrect == Spec => []TypeOK
  BY IInvAlways, ShapeAndRoom, PTL DEF IInv

\* faultMemoryHandler and faultResetHandler leave flag and ballast in step,
\* if no request has overlapped with another since all were idle.
THEOREM MemoryInStep == Spec => []MemoryFollowsFlag
<1>1. IInv => MemoryFollowsFlag
  BY DEF IInv, AloneInv, MemoryFollowsFlag, AllIdle, Off
<1>. QED  BY <1>1, IInvAlways, PTL
=============================================================================
