-------------------------- MODULE SloTrackerProofs --------------------------
(***************************************************************************)
(* Theorems about SloTracker, for any availability target, any window of   *)
(* the error budget and anything the polls may find.                       *)
(***************************************************************************)
EXTENDS SloTracker, CorrelatorProofs

\* A poll adds one interval to each figure it counts for.
LEMMA AccumulateEffect ==
  ASSUME TypeOK, NEW w \in Worlds, CalculateSlo(w)
  PROVE  /\ acc' \in Accumulators
         /\ acc'.polls = acc.polls + 1
         /\ acc'.critical \in {acc.critical, acc.critical + 1}
         /\ acc'.successes = acc.successes + (IF PollSuccess(Signals(w)) THEN 1 ELSE 0)
<1>. DEFINE s     == Signals(w)
            found == Correlate(s, {})
            label == ScoreToLabel(HealthScore(found, s))
            a     == Cardinality(Active(found))
            b     == Cardinality(Suppressed(found))
<1>1. a \in Nat /\ b \in Nat
  BY CorrelateResult, FilteredIncidents
<1>2. acc' = [polls      |-> acc.polls + 1,
              successes  |-> acc.successes + (IF PollSuccess(s) THEN 1 ELSE 0),
              critical   |-> acc.critical + (IF label = "CRITICAL" THEN 1 ELSE 0),
              incidents  |-> acc.incidents + a,
              suppressed |-> acc.suppressed + b]
  BY Zenon DEF CalculateSlo, Accumulate
<1>. HIDE DEF label, a, b
<1>. QED  BY <1>1, <1>2 DEF TypeOK, Accumulators

LEMMA TypeInit == Init => TypeOK
  BY DEF Init, NewAccumulators, TypeOK, Accumulators

LEMMA TypeStep == TypeOK /\ [Next]_vars => TypeOK'
<1>. SUFFICES ASSUME TypeOK, [Next]_vars PROVE TypeOK'
  OBVIOUS
<1>1. ASSUME NEW w \in Worlds, CalculateSlo(w)
      PROVE  TypeOK'
  BY <1>1, AccumulateEffect DEF TypeOK, Accumulators
<1>2. CASE UNCHANGED vars
  BY <1>2 DEF vars, TypeOK
<1>. QED  BY <1>1, <1>2 DEF Next
-----------------------------------------------------------------------------
(***************************************************************************)
(* The rounded quotients.                                                  *)
(***************************************************************************)
\* A part that falls short of q by more than half a unit is rounded below q.
LEMMA RoundedBelow ==
  ASSUME NEW part \in Nat, NEW whole \in Nat \ {0}, NEW scale \in Nat, NEW q \in Nat,
         2 * scale * part + whole < 2 * whole * q
  PROVE  Rounded(part, whole, scale) < q
<1>. DEFINE x == 2 * scale * part + whole
            d == 2 * whole
<1>1. 2 * scale \in Nat
  OBVIOUS
<1>2. x \in Nat /\ d \in Nat \ {0} /\ x < d * q
  BY <1>1
<1>3. Rounded(part, whole, scale) = x \div d
  BY DEF Rounded
<1>. HIDE DEF x, d
<1>. QED  BY <1>2, <1>3, QuotientBelow

\* A quotient of 0 means that the dividend is smaller than the divisor.
LEMMA QuotientZero ==
  ASSUME NEW x \in Nat, NEW d \in Nat \ {0}, x \div d = 0
  PROVE  x < d
  BY SMT

\* In the first window the outages that use up the budget of the whole window,
\* up to what rounding hides, take the availability under the target plus the
\* margin of at_risk.
LEMMA ExhaustedIsBelowTarget ==
  ASSUME NEW p \in Nat \ {0}, NEW c \in Nat, c <= p, p <= WindowPolls,
         20000 * (WindowPolls * (1000 - TargetPermille) - 1000 * c)
           < WindowPolls * (1000 - TargetPermille)
  PROVE  Rounded(p - c, p, 100000) < 100 * TargetPermille + 300
<1>. DEFINE k == 1000 - TargetPermille
            T == TargetPermille
<1>1. k \in 0..1000 /\ T \in Nat /\ WindowPolls \in Nat /\ k = 1000 - T
  BY SloAssumption
<1>2. 19999 * (p * k) < 20000000 * c
  <2>1. k * p <= k * WindowPolls
    BY <1>1, ProductMonotone
  <2>2. k * p = p * k /\ k * WindowPolls = WindowPolls * k
    BY <1>1
  <2>3. WindowPolls * k \in Nat /\ p * k \in Nat
    BY <1>1
  <2>4. 20000 * (WindowPolls * k - 1000 * c) < WindowPolls * k
    OBVIOUS
  <2>. HIDE DEF k
  <2>. QED  BY <2>1, <2>2, <2>3, <2>4
<1>. HIDE DEF k, T
<1>3. p * k = 1000 * p - p * T /\ p * T \in Nat /\ p * k <= 1000 * p
  BY <1>1
<1>4. 200000 * (p - c) + p < 200 * (p * T) + 600 * p
  BY <1>2, <1>3
<1>5. 2 * p * (100 * T + 300) = 200 * (p * T) + 600 * p
  BY <1>1
<1>6. 2 * 100000 * (p - c) + p < 2 * p * (100 * T + 300)
  BY <1>4, <1>5
<1>7. p - c \in Nat /\ 100 * T + 300 \in Nat
  BY <1>1
<1>8. Rounded(p - c, p, 100000) < 100 * T + 300
  BY <1>6, <1>7, RoundedBelow
<1>. QED  BY <1>8 DEF T

\* One failure among fewer than 100 polls is over 1 percent, even rounded.
LEMMA OneFailureShows ==
  ASSUME NEW p \in 1..99, NEW n \in Nat, n < p
  PROVE  Rounded(n, p, 10000) < 9900
<1>1. 2 * 10000 * n + p < 2 * p * 9900
  OBVIOUS
<1>. QED  BY <1>1, RoundedBelow
-----------------------------------------------------------------------------
(***************************************************************************)
(* The theorems.                                                           *)
(***************************************************************************)
\* The figures stay in their ranges; no part of the polls exceeds them all.
THEOREM SloTypeCorrect == Spec => []TypeOK
  BY TypeInit, TypeStep, PTL DEF Spec

\* _compute_availability_status and the error budget of calculate_slo agree
\* in the first window: a budget used up is never an availability "ok".
THEOREM ExhaustedBudgetShows == Spec => []ExhaustedBudgetIsNeverOk
<1>1. TypeOK => ExhaustedBudgetIsNeverOk
  <2>. SUFFICES ASSUME TypeOK, 0 < acc.polls, acc.polls <= WindowPolls, BudgetLeft(acc) = 0
                PROVE  AvailabilityStatus(acc) # "ok"
    BY DEF ExhaustedBudgetIsNeverOk
  <2>. DEFINE p == acc.polls
              c == acc.critical
  <2>1. p \in Nat \ {0} /\ c \in Nat /\ c <= p /\ p <= WindowPolls
    BY DEF TypeOK, Accumulators
  <2>2. 20000 * (WindowPolls * (1000 - TargetPermille) - 1000 * c)
          < WindowPolls * (1000 - TargetPermille)
    <3>. DEFINE allowed == WindowPolls * (1000 - TargetPermille)
                left == allowed - 1000 * c
    <3>1. allowed \in Nat \ {0} /\ left \in Int
      <4>1. WindowPolls \in Nat \ {0} /\ 1000 - TargetPermille \in Nat \ {0}
        BY SloAssumption
      <4>2. allowed \in Nat /\ allowed # 0
        BY <4>1
      <4>. QED  BY <2>1, <4>2
    <3>2. left > 0 => Rounded(left, allowed, 10000) = 0
      BY DEF BudgetLeft
    <3>. HIDE DEF allowed, left
    <3>3. CASE left > 0
      <4>1. (20000 * left + allowed) \div (2 * allowed) = 0
        BY <3>1, <3>2, <3>3 DEF Rounded
      <4>2. 20000 * left + allowed < 2 * allowed
        BY <3>1, <3>3, <4>1, QuotientZero
      <4>. QED  BY <3>1, <4>2 DEF allowed, left
    <3>4. CASE ~(left > 0)
      <4>1. 20000 * left < allowed
        BY <3>1, <3>4
      <4>. QED  BY <4>1 DEF allowed, left
    <3>. QED  BY <3>3, <3>4
  <2>3. Availability(acc) = Rounded(p - c, p, 100000)
    BY <2>1 DEF Availability
  <2>. HIDE DEF p, c
  <2>4. Availability(acc) < 100 * TargetPermille + 300
    BY <2>1, <2>2, <2>3, ExhaustedIsBelowTarget
  <2>. QED  BY <2>4 DEF AvailabilityStatus
<1>. QED  BY <1>1, SloTypeCorrect, PTL

\* calculate_slo does not call the figures of a poll "ok" that has missed the
\* web tier or the database, however perfect the latency 0 and the 0 percent
\* look that stand for them.
THEOREM UnreachableShows == Spec => UnreachableSourceShows
<1>1. ASSUME TypeOK, NEW w \in Worlds, CalculateSlo(w), acc'.polls < 100,
             ~HttpOk(Signals(w)) \/ ~Signals(w).pg.available
      PROVE  OverallStatus(acc', Signals(w)) # "ok"
  <2>1. ~PollSuccess(Signals(w))
    BY <1>1, Zenon DEF PollSuccess
  <2>2. /\ acc.polls \in Nat /\ acc.successes \in Nat /\ acc.successes <= acc.polls
    BY <1>1 DEF TypeOK, Accumulators
  <2>3. acc'.polls = acc.polls + 1 /\ acc'.successes = acc.successes
    BY <1>1, <2>1, <2>2, AccumulateEffect
  <2>4. acc'.polls \in 1..99 /\ acc'.successes \in Nat /\ acc'.successes < acc'.polls
    BY <1>1, <2>2, <2>3
  <2>5. Rounded(acc'.successes, acc'.polls, 10000) < 9900
    BY <2>4, OneFailureShows
  <2>6. Rounded(acc'.successes, acc'.polls, 10000) \in Int
    BY <2>4 DEF Rounded
  <2>7. PollStatus(acc') = "at_risk"
    BY <2>4, <2>5, <2>6 DEF PollStatus
  <2>. QED  BY <2>7 DEF OverallStatus
<1>2. TypeOK /\ [Next]_vars =>
        [\A w \in Worlds :
           /\ CalculateSlo(w) /\ acc'.polls < 100
           /\ (~HttpOk(Signals(w)) \/ ~Signals(w).pg.available)
           => OverallStatus(acc', Signals(w)) # "ok"]_vars
  BY <1>1
<1>. QED  BY <1>2, SloTypeCorrect, PTL DEF Spec, UnreachableSourceShows
=============================================================================
