------------------------ MODULE MCEnvironmentMonitor ------------------------
(***************************************************************************)
(* Small sets of worlds for EnvironmentMonitor, one per question.          *)
(***************************************************************************)
EXTENDS EnvironmentMonitor

Db(done, pct, queries, blocked) ==
  [done |-> done, pct |-> pct, queries |-> queries, blocked |-> blocked]

Check(reachable, statusOk, latency) ==
  [reachable |-> reachable, statusOk |-> statusOk, latency |-> latency]

Http(check) == <<check>>

HttpOk   == Http(Check(TRUE, TRUE, 100))
HttpSlow == Http(Check(TRUE, TRUE, 1500))
HttpBad  == Http(Check(TRUE, FALSE, 100))
HttpDown == Http(Check(FALSE, FALSE, 0))
HttpMixed == <<Check(TRUE, TRUE, 100), Check(TRUE, TRUE, 3000)>>

Service(running, memory, xmx) ==
  [running |-> running, process |-> running, memory |-> memory, xmx |-> xmx]

\* No longer Running, but its process is still there.
Stopping(memory, xmx) == [Service(FALSE, memory, xmx) EXCEPT !.process = TRUE]

Win(done, total, memPct, services, procOk, xmxOk) ==
  [done |-> done, total |-> total, memPct |-> memPct, services |-> services,
   procOk |-> procOk, xmxOk |-> xmxOk]

\* Two Qmatic services: the platform first, the agent second.
Two(platform, agent) == [n \in {"platform", "agent"} |->
                           IF n = "platform" THEN platform ELSE agent]

Jdbc(idle) == [ok |-> TRUE, idle |-> idle]

World(db, http, win, jdbc, queue, report, biz, age) ==
  [db |-> db, http |-> http, win |-> win, jdbc |-> jdbc, queue |-> queue,
   report |-> report, biz |-> biz, age |-> age]

DbUp == Db(5, 50, {}, 0)
DbDown == Db(0, 0, {}, 0)

DbWorlds ==
  {DbUp, DbDown, Db(1, 60, {}, 0), Db(3, 90, {}, 0), Db(5, 75, {}, 0), Db(5, 90, {}, 0),
   Db(5, 50, {30, 31}, 0), Db(5, 74, {61}, 1), NoSnap}

\* The database and the web tier in every combination, no Windows host.
DatabaseWorlds ==
  {World(db, http, NoSnap, Jdbc({}), NoSnap, NoSnap, biz, age) :
     db \in DbWorlds, http \in {HttpOk, HttpSlow, HttpDown, HttpMixed, NoSnap},
     biz \in BOOLEAN, age \in {120, 300, 301}}

Reporting(done, duplicates, carryover) ==
  [done |-> done, duplicates |-> duplicates, carryover |-> carryover]

WinWorlds ==
  {NoSnap,
   Win(0, 0, 0, <<>>, TRUE, TRUE),
   Win(1, 100, 95, <<>>, TRUE, TRUE),
   Win(2, 100, 50, Two(Service(TRUE, 30, 64), Service(TRUE, 30, 0)), TRUE, TRUE),
   Win(2, 100, 85, Two(Service(TRUE, 36, 40), Stopping(30, 0)), TRUE, TRUE),
   Win(2, 100, 95, Two(Service(FALSE, 0, 0), Service(FALSE, 0, 0)), TRUE, FALSE),
   Win(2, 100, 50, Two(Service(TRUE, 33, 40), Service(TRUE, 20, 0)), FALSE, TRUE)}

\* The Windows host, the web tier and the state of the database.
HostWorlds ==
  {World(db, http, win, Jdbc({"qp_app"}), NoSnap, NoSnap, FALSE, 120) :
     db \in {DbUp, DbDown, Db(5, 75, {}, 0), NoSnap}, http \in {HttpSlow, HttpBad},
     win \in WinWorlds}
  \cup {World(db, HttpSlow, win, Jdbc({"qp_app"}), NoSnap, NoSnap, FALSE, 301) :
          db \in {DbUp, DbDown}, win \in WinWorlds}
  \cup {World(Db(5, 50, {31}, 0), HttpSlow, NoSnap, Jdbc({}), NoSnap,
              Reporting(2, TRUE, FALSE), TRUE, 120)}
  \cup {World(DbUp, HttpOk, Win(2, 100, 50, Two(Service(TRUE, 30, 64), Service(TRUE, 30, 0)), TRUE, TRUE),
               Jdbc({"qp_app"}), NoSnap, NoSnap, FALSE, 300)}

Queue(done, total, delivered, branches) ==
  [done |-> done, total |-> total, delivered |-> delivered, branches |-> branches]

\* Visits and reporting, with the database slow, idle or gone.
VisitWorlds ==
  {World(db, http, NoSnap, Jdbc({}), queue, report, TRUE, age) :
     <<db, age>> \in {<<DbUp, 120>>, <<DbDown, 120>>, <<DbDown, 301>>, <<Db(5, 50, {31}, 0), 120>>},
     http \in {HttpOk, HttpDown},
     queue \in {Queue(0, 0, 0, 0), Queue(2, 3, 0, 0), Queue(2, 9, 8, 1)},
     report \in {Reporting(0, TRUE, TRUE), Reporting(2, FALSE, TRUE)}}

\* Both kinds, over one history.
SignalWorlds == HostWorlds \cup VisitWorlds
=============================================================================
