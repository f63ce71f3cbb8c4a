-------------------------------- MODULE Slo --------------------------------
(***************************************************************************)
(* SLO accounting of correlators/metrics.py.  The accumulators of one      *)
(* environment live in the process; every poll counts as one interval of   *)
(* 60 s, so seconds are counted in polls.  The 99.5% target is             *)
(* TargetPermille and the 30-day window is WindowPolls, so that a small    *)
(* window can be explored.                                                 *)
(***************************************************************************)
EXTENDS Correlator

CONSTANTS
  TargetPermille,    \* SLO_AVAILABILITY_TARGET_PCT, in tenths of a percent
  WindowPolls        \* BUDGET_WINDOW_SECONDS / 60

ASSUME SloAssumption ==
  /\ TargetPermille \in 0..999
  /\ WindowPolls \in Nat \ {0}

\* _get_env_state: what a fresh process starts from.
NewAccumulators ==
  [polls |-> 0, successes |-> 0, critical |-> 0, incidents |-> 0, suppressed |-> 0]

Accumulators ==
  [polls : Nat, successes : Nat, critical : Nat, incidents : Nat, suppressed : Nat]

HttpOk(s) == s.http # NoSnap /\ (AllReachable(s.http) \/ OverallSeverity(s.http) = "ok")

\* Mutant: the latency vouches for the web tier.
PollSuccessByLatency(s) ==
  /\ s.pg # NoSnap /\ s.pg.available
  /\ s.http # NoSnap /\ s.http[1].latency < 500
  /\ s.win # NoSnap /\ s.win.available

PollSuccess(s) ==
  /\ s.pg # NoSnap /\ s.pg.available
  /\ HttpOk(s)
  /\ s.win # NoSnap /\ s.win.available

\* Mutant: adds seconds where polls are counted.
AccumulateSeconds(acc, s, found, label) ==
  [polls      |-> acc.polls + 1,
   successes  |-> acc.successes + (IF PollSuccess(s) THEN 1 ELSE 0),
   critical   |-> acc.critical + (IF label = "CRITICAL" THEN 60 ELSE 0),
   incidents  |-> acc.incidents + Cardinality(Active(found)),
   suppressed |-> acc.suppressed + Cardinality(Suppressed(found))]

Accumulate(acc, s, found, label) ==
  [polls      |-> acc.polls + 1,
   successes  |-> acc.successes + (IF PollSuccess(s) THEN 1 ELSE 0),
   critical   |-> acc.critical + (IF label = "CRITICAL" THEN 1 ELSE 0),
   incidents  |-> acc.incidents + Cardinality(Active(found)),
   suppressed |-> acc.suppressed + Cardinality(Suppressed(found))]

\* part / whole * 100 in units of 10^-digits percent, rounded; scale is 100 * 10^digits.
Rounded(part, whole, scale) == (2 * scale * part + whole) \div (2 * whole)

\* availability_pct, in thousandths of a percent.
Availability(acc) ==
  IF acc.polls = 0 THEN 100000 ELSE Rounded(acc.polls - acc.critical, acc.polls, 100000)

\* Mutant of AvailabilityStatus: without the margin.
AvailabilityStatusNoMargin(acc) ==
  IF Availability(acc) < 100 * TargetPermille THEN "breached" ELSE "ok"

AvailabilityStatus(acc) ==
  IF Availability(acc) < 100 * TargetPermille THEN "breached"
  ELSE IF Availability(acc) < 100 * TargetPermille + 300 THEN "at_risk" ELSE "ok"

\* budget_remaining_pct, in hundredths of a percent: what is left of
\* ALLOWED_CRITICAL_SECONDS (here in thousandths of a poll), rounded.
BudgetLeft(acc) ==
  LET allowed == WindowPolls * (1000 - TargetPermille)
      left    == allowed - 1000 * acc.critical
  IN  IF left > 0 THEN Rounded(left, allowed, 10000) ELSE 0

LatencyStatus(s) ==
  LET latency == IF s.http = NoSnap THEN 0 ELSE s.http[1].latency
  IN  IF latency >= 500 THEN "breached" ELSE IF latency >= 350 THEN "at_risk" ELSE "ok"

PgStatus(s) ==
  LET pct == IF s.pg = NoSnap THEN 0 ELSE s.pg.pct
  IN  IF pct >= 75 THEN "breached" ELSE IF 100 * pct >= 75 * 85 THEN "at_risk" ELSE "ok"

PollStatus(acc) ==
  IF acc.polls = 0 \/ Rounded(acc.successes, acc.polls, 10000) >= 9900 THEN "ok" ELSE "at_risk"

OverallStatus(acc, s) ==
  LET statuses == {AvailabilityStatus(acc), LatencyStatus(s), PgStatus(s), PollStatus(acc)}
  IN  IF "breached" \in statuses THEN "breached"
      ELSE IF "at_risk" \in statuses THEN "at_risk" ELSE "ok"
=============================================================================
