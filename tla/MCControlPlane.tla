--------------------------- MODULE MCControlPlane ---------------------------
(***************************************************************************)
(* Two environments and the worlds that tell the files apart: nothing      *)
(* wrong, one incident, two incidents next to a suppressed one.            *)
(***************************************************************************)
EXTENDS ControlPlane

CONSTANTS e1, e2

Http(reachable, latency) == <<[reachable |-> reachable, statusOk |-> reachable, latency |-> latency]>>

World(done, http, win, age) ==
  [db |-> [done |-> done, pct |-> 50, queries |-> {}, blocked |-> 0],
   http |-> http, win |-> win, jdbc |-> [ok |-> TRUE, idle |-> {}],
   queue |-> NoSnap, report |-> NoSnap, biz |-> FALSE, age |-> age]

HostUp == [done |-> 2, total |-> 100, memPct |-> 50, procOk |-> TRUE, xmxOk |-> TRUE,
           services |-> [s \in {"platform"} |->
                         [running |-> TRUE, process |-> TRUE, memory |-> 65, xmx |-> 90]]]

Quiet == World(5, Http(TRUE, 100), HostUp, 60)
DbDown == World(0, Http(TRUE, 100), NoSnap, 60)

\* Saturated database, slow web tier and a full heap, all seen late: two active
\* incidents, and the stopped service is suppressed.
Overloaded ==
  [World(5, Http(TRUE, 3500), HostUp, 400) EXCEPT
     !.db.pct = 80,
     !.win.services = [s \in {"platform", "reporting"} |->
                         [running |-> s = "platform", process |-> s = "platform",
                          memory |-> 65, xmx |-> 90]]]

TwoEnvs == <<e1, e2>>
Distinct == [e \in {e1, e2} |-> e]

ThreeWorlds == {Quiet, DbDown, Overloaded}
=============================================================================
