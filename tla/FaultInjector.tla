---------------------------- MODULE FaultInjector ----------------------------
(***************************************************************************)
(* orchestrator/fault_injector.py next to clients of the api-gateway: one  *)
(* post at a time, given up after five seconds while the gateway goes on   *)
(* with it, and a message for the operator.                                *)
(***************************************************************************)
EXTENDS ApiGateway

None == "none"

ASSUME InjectorAssumption == None \notin Slots

VARIABLES
  awaits,   \* the slot of the post in progress, or None
  said,     \* per fault of the gateway: what the last command about it printed
  sure      \* the faults whose last command was a trigger that no earlier post
            \* could get into the way of, with no restart of the gateway since

vars == <<gateway, awaits, said, sure>>

Faults == {"auth", "limit"}

\* The faults a command is about.
About(op) == IF op = "reset" THEN Faults ELSE {op}

\* The level and the value of the result line, and whether "... active" follows.
Nothing == [level |-> "none", value |-> 0, active |-> FALSE]

Init ==
  /\ GatewayInit /\ awaits = None
  /\ said = [f \in Faults |-> Nothing] /\ sure = {}

\* Posts that were given up, that the gateway still works on and that may still
\* change f.
Strays(f) ==
  {s \in Slots : request[s].from = "injector" /\ s # awaits /\ f \in About(request[s].op)}

Client(s) ==
  /\ Send(s, "client", [op |-> "order", value |-> 0])
  /\ UNCHANGED <<awaits, said, sure>>

\* trigger_auth_failures, trigger_rate_limiting and reset_incident.
Command(s, r) ==
  /\ awaits = None /\ r.op # "order"
  /\ Send(s, "injector", r)
  /\ awaits' = s
  /\ sure' = IF r.op # "reset" /\ Strays(r.op) = {} THEN sure \cup {r.op} ELSE sure \ About(r.op)
  /\ UNCHANGED said

\* _print_result tells an "error" from an answer, the line after it, "... active",
\* comes whatever the result; a reset logs OK whatever the result.
Report(r, failed) ==
  LET line == IF r.op = "reset" THEN [level |-> "OK", value |-> 0, active |-> FALSE]
              ELSE [level |-> IF failed THEN "ERR" ELSE "OK", value |-> r.value, active |-> TRUE]
  IN said' = [f \in Faults |-> IF f \in About(r.op) THEN line ELSE said[f]]

\* Mutant: the result of a trigger is not looked at.
ReceiveUnchecked(s) ==
  /\ awaits = s /\ Answer(s)
  /\ awaits' = None /\ Report(request[s], FALSE)
  /\ UNCHANGED sure

\* The answers 401 and 429 carry an "error".
Receive(s) ==
  /\ awaits = s /\ Answer(s)
  /\ awaits' = None /\ Report(request[s], request[s].at # "ok")
  /\ UNCHANGED sure

\* The time-out: _post makes an "error" of it.
GiveUp ==
  /\ awaits # None
  /\ awaits' = None /\ Report(request[awaits], TRUE)
  /\ UNCHANGED <<gateway, sure>>

NobodyWaits(s) == awaits # s /\ Answer(s) /\ UNCHANGED <<awaits, said, sure>>

\* The container is started again; a post in progress fails with an "error".
Restart ==
  /\ GatewayRestart
  /\ awaits' = None /\ sure' = {}
  /\ IF awaits # None THEN Report(request[awaits], TRUE) ELSE UNCHANGED said

Next ==
  \/ \E s \in Slots :
       \/ Client(s) \/ Receive(s) \/ NobodyWaits(s)
       \/ \E r \in Ops : Command(s, r)
       \/ Handle(s) /\ UNCHANGED <<awaits, said, sure>>
  \/ GiveUp \/ Restart
  \/ Tick /\ UNCHANGED <<awaits, said, sure>>

Spec == Init /\ [][Next]_vars
-----------------------------------------------------------------------------
(***************************************************************************)
(* Properties.                                                             *)
(***************************************************************************)
Lines ==
  [level : {"none", "OK", "ERR"}, value : {0} \cup Limits \cup Percents, active : BOOLEAN]

\* The variables stay in their domains.
TypeOK ==
  /\ GatewayTypeOK
  /\ awaits \in Slots \cup {None} /\ sure \subseteq Faults
  /\ said \in [Faults -> Lines]

Setting(f) == IF f = "auth" THEN authPct ELSE limit

\* Is a command about f in progress?
Disputed(f) == awaits # None /\ f \in About(request[awaits].op)

\* Where the result line of a trigger says OK, the fault is set to the value in
\* it until the next command about it, provided that no post given up earlier
\* could still change it and the gateway was not restarted.  That holds of the
\* result line alone: "... active" is printed after a failed trigger as well, and
\* the OK of a reset stands for nothing.
TriggerTellsTruth ==
  \A f \in sure : said[f].level = "OK" /\ ~Disputed(f) => Setting(f) = said[f].value

\* Once authentication fails for one request it fails for all, the reset of
\* the fault among them: nothing but a restart of the container ends it.
LockoutIsPermanent == [][LockedOut => LockedOut' \/ GatewayRestart]_vars
=============================================================================
