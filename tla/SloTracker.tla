----------------------------- MODULE SloTracker -----------------------------
(***************************************************************************)
(* The SLO figures one process accumulates for one environment over more   *)
(* polls than the window of the error budget holds.                        *)
(***************************************************************************)
EXTENDS Slo

CONSTANTS
  Worlds,        \* what a poll may find
  MaxPolls       \* bound on the number of polls explored

ASSUME SloTrackerAssumption == MaxPolls \in Nat

VARIABLE acc    \* the accumulators of the process

vars == <<acc>>

Init == acc = NewAccumulators

\* calculate_slo on what the poll found; no history raises the confidence.
CalculateSlo(w) ==
  LET s     == Signals(w)
      found == Correlate(s, {})
      label == ScoreToLabel(HealthScore(found, s))
  IN  /\ acc.polls < MaxPolls
      /\ acc' = Accumulate(acc, s, found, label)

Next == \E w \in Worlds : CalculateSlo(w)

Spec == Init /\ [][Next]_vars
-----------------------------------------------------------------------------
\* The figures stay in their ranges; no part of the polls exceeds them all.
TypeOK ==
  /\ acc \in Accumulators
  /\ acc.critical <= acc.polls /\ acc.successes <= acc.polls

\* Two verdicts on the same outages agree in the first window: when the error
\* budget shows 0.00 percent left, whether it is used up or only rounded
\* down, the availability status is not "ok".
ExhaustedBudgetIsNeverOk ==
  0 < acc.polls /\ acc.polls <= WindowPolls /\ BudgetLeft(acc) = 0
    => AvailabilityStatus(acc) # "ok"

\* An unreachable source reads as latency 0 or 0 percent of the connections,
\* which looks perfect; the figures of that poll are not "ok" all the same,
\* because its poll has failed, for as long as one poll is over 1 percent.
UnreachableSourceShows ==
  [][\A w \in Worlds :
       /\ CalculateSlo(w) /\ acc'.polls < 100
       /\ (~HttpOk(Signals(w)) \/ ~Signals(w).pg.available)
       => OverallStatus(acc', Signals(w)) # "ok"]_vars
=============================================================================
