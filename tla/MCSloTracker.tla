---------------------------- MODULE MCSloTracker ----------------------------
(***************************************************************************)
(* A healthy poll, one that loses the Windows host, an outage, a web tier  *)
(* that does not answer.                                                   *)
(***************************************************************************)
EXTENDS SloTracker

HttpFast == <<[reachable |-> TRUE, statusOk |-> TRUE, latency |-> 100]>>

Host(done) ==
  [done |-> done, total |-> 100, memPct |-> 50, procOk |-> TRUE, xmxOk |-> TRUE,
   services |-> [s \in {"platform"} |->
                  [running |-> TRUE, process |-> TRUE, memory |-> 30, xmx |-> 90]]]

World(done, host) ==
  [db |-> [done |-> done, pct |-> 50, queries |-> {}, blocked |-> 0],
   http |-> HttpFast, win |-> Host(host), jdbc |-> [ok |-> TRUE, idle |-> {}],
   queue |-> NoSnap, report |-> NoSnap, biz |-> TRUE, age |-> 60]

NoAnswer ==
  [World(5, 2) EXCEPT !.http = <<[reachable |-> FALSE, statusOk |-> FALSE, latency |-> 0]>>]

FourWorlds == {World(5, 2), World(5, 0), World(0, 2), NoAnswer}
=============================================================================
