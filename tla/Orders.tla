------------------------------- MODULE Orders -------------------------------
(***************************************************************************)
(* An order from the gateway's ordersHandler through the queue "orders" to *)
(* the consumer of services/queue-worker, which posts it to a webhook and  *)
(* then acknowledges it.  Broker and receiver are external.                *)
(*                                                                         *)
(* The consumer has one channel for its whole life: when it closes, the    *)
(* loop over the deliveries ends and the process goes on without it.  The  *)
(* lag fault and the sleeps only take time, which any step may take here.  *)
(* http.Post has no time-out: it may end at any time, or never.            *)
(***************************************************************************)
EXTENDS Naturals, FiniteSets, SequencesExt

CONSTANTS
  OrderIds,   \* orders that may be placed
  Prefetch,   \* deliveries the channel may have unacknowledged (ch.Qos: 10)
  Attempts,   \* posts of one delivery (3)
  Rejected    \* orders the receiver of the webhook never takes

None == "none"

ASSUME OrdersAssumption ==
  /\ Prefetch \in Nat \ {0} /\ Attempts \in Nat \ {0}
  /\ None \notin OrderIds /\ Rejected \subseteq OrderIds

VARIABLES
  \* the broker
  queue,      \* orders ready in the queue
  unacked,    \* delivered on the open channel and not settled, in that order
  channel,    \* is the channel of the worker open?
  \* the worker
  pc,         \* where its consumer stands
  local,      \* deliveries that have arrived and are not taken up yet
  current,    \* the order it works on
  attempt,    \* number of the next post of it
  paused,     \* faultConsumerPaused
  failing,    \* faultWebhookFail
  \* the others
  receiver,   \* does the receiver answer at all?
  answered,   \* orders the gateway has answered "received"
  published,  \* ... and the queue has taken
  copies,     \* per order: 0, 1, or 2 (or more) copies the receiver has got
  excused     \* orders a lost answer, a closed channel or a crash may repeat

broker == <<queue, unacked, channel>>
worker == <<pc, local, current, attempt, paused, failing>>
others == <<receiver, answered, published, copies, excused>>
vars == <<broker, worker, others>>

PCs == {"dial", "idle", "deliver", "post", "ack", "nack", "ended", "dead"}

Init ==
  /\ queue = <<>> /\ unacked = <<>> /\ channel = FALSE
  /\ pc = "dial" /\ local = <<>> /\ current = None /\ attempt = 1
  /\ paused = FALSE /\ failing = FALSE
  /\ receiver \in BOOLEAN /\ answered = {} /\ published = {}
  /\ copies = [o \in OrderIds |-> 0] /\ excused = {}

\* The deliveries s without o, which is among them once if at all.
Without(s, o) ==
  IF \E k \in DOMAIN s : s[k] = o THEN RemoveAt(s, CHOOSE k \in DOMAIN s : s[k] = o) ELSE s
-----------------------------------------------------------------------------
(***************************************************************************)
(* Gateway, broker and receiver.                                           *)
(***************************************************************************)
\* ordersHandler: it answers "received" whether or not the connection, the
\* channel and the publication came about.
Place(o, sent) ==
  /\ o \notin answered
  /\ answered' = answered \cup {o}
  /\ published' = IF sent THEN published \cup {o} ELSE published
  /\ queue' = IF sent THEN Append(queue, o) ELSE queue
  /\ UNCHANGED <<unacked, channel, worker, receiver, copies, excused>>

Push ==
  /\ channel /\ queue # <<>> /\ Len(unacked) < Prefetch
  /\ unacked' = Append(unacked, Head(queue))
  /\ local' = Append(local, Head(queue))
  /\ queue' = Tail(queue)
  /\ UNCHANGED <<channel, pc, current, attempt, paused, failing, others>>

\* The broker puts what was not settled back where it was.
Requeue ==
  /\ channel' = FALSE
  /\ queue' = unacked \o queue /\ unacked' = <<>>
  /\ excused' = excused \cup {o \in Range(unacked) : copies[o] > 0}

ConnectionLost ==
  /\ channel /\ Requeue
  /\ UNCHANGED <<worker, receiver, answered, published, copies>>

BrokerRestart ==
  /\ queue \o unacked # <<>>
  /\ queue' = <<>> /\ unacked' = <<>> /\ channel' = FALSE
  /\ UNCHANGED <<worker, others>>

ReceiverChanges ==
  /\ receiver' = ~receiver
  /\ UNCHANGED <<broker, worker, answered, published, copies, excused>>
-----------------------------------------------------------------------------
(***************************************************************************)
(* The worker: connectRabbit, consume and deliverWebhook.                  *)
(***************************************************************************)
Connect ==
  /\ pc = "dial"
  /\ channel' = TRUE /\ pc' = "idle"
  /\ UNCHANGED <<queue, unacked, local, current, attempt, paused, failing, others>>

\* Settling fails silently on a channel that is closed.
Ack(o) ==
  /\ unacked' = Without(unacked, o)
  /\ UNCHANGED queue

Nack(o) ==
  /\ unacked' = Without(unacked, o)
  /\ queue' = IF o \in Range(unacked) THEN <<o>> \o queue ELSE queue

\* Mutant: the pause is a plain continue.
TakePausedSilently ==
  /\ pc = "idle" /\ local # <<>> /\ paused
  /\ local' = Tail(local)
  /\ UNCHANGED <<broker, pc, current, attempt, paused, failing, others>>

\* A paused consumer returns the delivery, then sleeps half a second.
TakePaused ==
  /\ pc = "idle" /\ local # <<>> /\ paused
  /\ local' = Tail(local)
  /\ Nack(Head(local))
  /\ UNCHANGED <<channel, pc, current, attempt, paused, failing, others>>

Take ==
  /\ pc = "idle" /\ local # <<>> /\ ~paused
  /\ local' = Tail(local) /\ current' = Head(local)
  /\ pc' = "deliver"
  /\ UNCHANGED <<broker, attempt, paused, failing, others>>

Deliver ==
  /\ pc = "deliver"
  /\ pc' = IF failing THEN "nack" ELSE "post"
  /\ attempt' = 1
  /\ UNCHANGED <<broker, local, current, paused, failing, others>>

\* Does a post end with an answer below 300?
Taken == receiver /\ current \notin Rejected

\* Mutant: one attempt too many.
PostAgain(got) ==
  /\ pc = "post"
  /\ Taken => got
  /\ copies' = IF got THEN [copies EXCEPT ![current] = IF @ = 2 THEN 2 ELSE @ + 1] ELSE copies
  /\ excused' = IF got /\ ~(Taken /\ channel) THEN excused \cup {current} ELSE excused
  /\ pc' = IF Taken THEN "ack" ELSE IF attempt <= Attempts THEN "post" ELSE "nack"
  /\ attempt' = IF ~Taken /\ attempt <= Attempts THEN attempt + 1 ELSE 1
  /\ UNCHANGED <<broker, local, current, paused, failing, receiver, answered, published>>

\* One http.Post.  The receiver gets the order and takes it, or it does not take
\* it; then it may have got it all the same.
Post(got) ==
  /\ pc = "post"
  /\ Taken => got
  /\ copies' = IF got THEN [copies EXCEPT ![current] = IF @ = 2 THEN 2 ELSE @ + 1] ELSE copies
  /\ excused' = IF got /\ ~(Taken /\ channel) THEN excused \cup {current} ELSE excused
  /\ pc' = IF Taken THEN "ack" ELSE IF attempt < Attempts THEN "post" ELSE "nack"
  /\ attempt' = IF ~Taken /\ attempt < Attempts THEN attempt + 1 ELSE 1
  /\ UNCHANGED <<broker, local, current, paused, failing, receiver, answered, published>>

\* Mutants: a delivered message is returned, a failed one is dropped or left.
SettleReturning ==
  /\ pc \in {"ack", "nack"}
  /\ Nack(current)
  /\ pc' = "idle" /\ current' = None
  /\ UNCHANGED <<channel, local, attempt, paused, failing, others>>

SettleDropping ==
  /\ pc \in {"ack", "nack"}
  /\ Ack(current)
  /\ pc' = "idle" /\ current' = None
  /\ UNCHANGED <<channel, local, attempt, paused, failing, others>>

SettleLeaving ==
  /\ pc \in {"ack", "nack"}
  /\ IF pc = "ack" THEN Ack(current) ELSE UNCHANGED <<queue, unacked>>
  /\ pc' = "idle" /\ current' = None
  /\ UNCHANGED <<channel, local, attempt, paused, failing, others>>

Settle ==
  /\ pc \in {"ack", "nack"}
  /\ IF pc = "ack" THEN Ack(current) ELSE Nack(current)
  /\ pc' = "idle" /\ current' = None
  /\ UNCHANGED <<channel, local, attempt, paused, failing, others>>

\* The channel is closed: the library may hand out some of what had arrived,
\* then the loop ends.  Nothing connects again, /health goes on saying ok.
EndConsume ==
  /\ pc = "idle" /\ ~channel
  /\ pc' = "ended" /\ local' = <<>>
  /\ UNCHANGED <<broker, current, attempt, paused, failing, others>>

\* The process dies, its connection with it; the faults are in its memory.
Die ==
  /\ pc # "dead"
  /\ pc' = "dead" /\ local' = <<>> /\ current' = None /\ attempt' = 1
  /\ paused' = FALSE /\ failing' = FALSE
  /\ Requeue
  /\ UNCHANGED <<receiver, answered, published, copies>>

\* restart: unless-stopped.
Restart ==
  /\ pc = "dead" /\ pc' = "dial"
  /\ UNCHANGED <<broker, local, current, attempt, paused, failing, others>>

\* faultPauseHandler, faultWebhookHandler, faultResetHandler.
Serving == pc \notin {"dial", "dead"}

FaultPause(on) ==
  /\ Serving /\ paused' = on
  /\ UNCHANGED <<broker, pc, local, current, attempt, failing, others>>

FaultWebhook(on) ==
  /\ Serving /\ failing' = on
  /\ UNCHANGED <<broker, pc, local, current, attempt, paused, others>>

FaultReset ==
  /\ Serving /\ paused' = FALSE /\ failing' = FALSE
  /\ UNCHANGED <<broker, pc, local, current, attempt, others>>

\* What the consumer does on its own account.
Work == TakePaused \/ Take \/ Deliver \/ Settle

Next ==
  \/ \E o \in OrderIds, sent \in BOOLEAN : Place(o, sent)
  \/ Push \/ ConnectionLost \/ BrokerRestart \/ ReceiverChanges
  \/ Connect \/ Work \/ EndConsume \/ Die \/ Restart
  \/ \E got \in BOOLEAN : Post(got)
  \/ \E on \in BOOLEAN : FaultPause(on) \/ FaultWebhook(on)
  \/ FaultReset

Spec == Init /\ [][Next]_vars

\* The consumer is scheduled, a dial succeeds in the end (connectRabbit tries for
\* ever) and a dead container is started again.  The broker delivers what stands
\* first whenever it finds room, also if the worker returns another order time
\* and again, seconds apart: hence SF.  Nothing makes a post end.
FairSpec ==
  /\ Spec
  /\ \A o \in OrderIds : SF_vars(Push /\ Head(queue) = o)
  /\ WF_vars(Connect) /\ WF_vars(Work) /\ WF_vars(EndConsume) /\ WF_vars(Restart)
-----------------------------------------------------------------------------
(***************************************************************************)
(* Properties.                                                             *)
(***************************************************************************)
\* The variables stay in their domains.
TypeOK ==
  /\ queue \in Seq(OrderIds) /\ unacked \in Seq(OrderIds) /\ local \in Seq(OrderIds)
  /\ channel \in BOOLEAN /\ paused \in BOOLEAN /\ failing \in BOOLEAN /\ receiver \in BOOLEAN
  /\ pc \in PCs /\ current \in OrderIds \cup {None} /\ attempt \in 1..Attempts
  /\ published \subseteq answered /\ answered \subseteq OrderIds
  /\ copies \in [OrderIds -> 0..2] /\ excused \subseteq OrderIds

Owed == Range(queue) \cup Range(unacked)

Busy == IF current = None THEN <<>> ELSE <<current>>

\* A delivery that is not settled is still in the worker's hands, in the order
\* of arrival: none is forgotten, which would shrink the prefetch window until
\* nothing is delivered any more; and no order is in the queue twice.
NoneForgotten ==
  /\ channel => unacked = Busy \o local
  /\ IsInjective(queue \o unacked)

\* Queue and worker keep the promise of OrderQueue, across lost connections,
\* lost answers, crashes and restarts.
Promise ==
  INSTANCE OrderQueue WITH Orders <- OrderIds, owed <- Owed,
                           handed <- {o \in OrderIds : copies[o] > 0}

PromiseKept == Promise!Spec

\* The receiver gets an order twice only if an answer was lost, or the channel
\* closed between the post and the acknowledgement.
RepeatsAreExcused == \A o \in OrderIds : copies[o] = 2 => o \in excused

Hangs == [](pc = "post")

\* Once faults, channel and receiver have settled, an order of the queue that the
\* receiver takes is acknowledged, whatever it rejects for ever, as long as that
\* does not fill the prefetch window (then what is put back in front of the queue
\* starves the rest); but one post that hangs holds up everything.
OrdersSettle ==
  Cardinality(Rejected) < Prefetch /\ <>[](channel /\ receiver /\ ~paused /\ ~failing) =>
    \A o \in OrderIds \ Rejected : o \in Owed ~> (o \notin Owed \/ Hangs)
-----------------------------------------------------------------------------
(***************************************************************************)
(* What the documents say and the code does not do.                        *)
(***************************************************************************)
\* runbooks/queue-lag.md, for the symptom "Events not being processed" and a fault
\* that is active: "Reset fault injection if active".  With the faults reset for
\* good, a process that never dies and a receiver that answers, the orders it takes
\* that were waiting under the fault are processed.
ResetDrainsQueue ==
  [](pc # "dead") /\ <>[](receiver /\ ~paused /\ ~failing) =>
    \A o \in OrderIds \ Rejected : o \in Owed /\ (paused \/ failing) ~> (o \notin Owed \/ Hangs)
=============================================================================
