----------------------------- MODULE OrderQueue -----------------------------
(***************************************************************************)
(* What queue and worker promise together: an order the queue has taken is *)
(* owed until it has been handed to the receiver of the webhook at least   *)
(* once; nothing else takes it away, but a restart of the broker takes all *)
(* orders (they are published without a delivery mode, so transient).      *)
(***************************************************************************)
CONSTANT Orders

VARIABLES
  published,  \* orders the queue has taken
  owed,       \* ... and not yet struck off
  handed      \* orders the receiver has got at least once

vars == <<published, owed, handed>>

Init == published = {} /\ owed = {} /\ handed = {}

Publish(o) ==
  /\ o \notin published
  /\ published' = published \cup {o} /\ owed' = owed \cup {o}
  /\ UNCHANGED handed

Hand(o) ==
  /\ o \in published
  /\ handed' = handed \cup {o}
  /\ UNCHANGED <<published, owed>>

StrikeOff(o) ==
  /\ o \in owed \cap handed
  /\ owed' = owed \ {o}
  /\ UNCHANGED <<published, handed>>

LoseAll ==
  /\ owed' = {}
  /\ UNCHANGED <<published, handed>>

Next == (\E o \in Orders : Publish(o) \/ Hand(o) \/ StrikeOff(o)) \/ LoseAll

Spec == Init /\ [][Next]_vars
=============================================================================
