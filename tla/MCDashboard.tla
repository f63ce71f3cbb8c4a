---------------------------- MODULE MCDashboard ----------------------------
(***************************************************************************)
(* One environment whose database is down in every poll, so that every     *)
(* page has an incident to show, and a page with two loads under way.      *)
(***************************************************************************)
EXTENDS Dashboard

CONSTANT e1

DbDown ==
  [db |-> [done |-> 0, pct |-> 50, queries |-> {}, blocked |-> 0],
   http |-> <<[reachable |-> TRUE, statusOk |-> TRUE, latency |-> 100]>>, win |-> NoSnap,
   jdbc |-> [ok |-> TRUE, idle |-> {}], queue |-> NoSnap, report |-> NoSnap,
   biz |-> FALSE, age |-> 60]

OneEnv == <<e1>>
OwnName == [e \in {e1} |-> e]
Outage == {DbDown}
=============================================================================
