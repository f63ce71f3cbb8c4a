--------------------------- MODULE IncidentLedger ---------------------------
(***************************************************************************)
(* What the control plane promises about an incident, whatever signals,    *)
(* crashes and restarts come in between: it is taken down in the history   *)
(* (or the loss is logged), then documented, then alerted, each at most    *)
(* once and none ever taken back; and the page on the dashboard is an      *)
(* edition that shows all the alerted incidents of one cycle and no other. *)
(***************************************************************************)
EXTENDS Naturals

CONSTANTS
  Cycles,        \* numbers of the cycles
  Occurrences    \* all incidents, tuples that begin with their cycle

VARIABLES known, documented, alerted,  \* sets of incidents
          edition,                     \* cycle of the last page written
          shown                        \* incidents on the page, none while it is rewritten

vars == <<known, documented, alerted, edition, shown>>

OfCycle(c) == {o \in alerted : o[1] = c}

Init ==
  /\ known = {} /\ documented = {} /\ alerted = {}
  /\ edition = 0 /\ shown = {}

\* Only incidents newer than the page are taken down.
Know(o) ==
  /\ o \notin known /\ o[1] > edition
  /\ known' = known \cup {o}
  /\ UNCHANGED <<documented, alerted, edition, shown>>

Document(o) ==
  /\ o \in known \ documented
  /\ documented' = documented \cup {o}
  /\ UNCHANGED <<known, alerted, edition, shown>>

Alert(o) ==
  /\ o \in documented \ alerted /\ o[1] > edition
  /\ alerted' = alerted \cup {o}
  /\ UNCHANGED <<known, documented, edition, shown>>

\* The page becomes unreadable.
Withdraw ==
  /\ shown' = {}
  /\ UNCHANGED <<known, documented, alerted, edition>>

Publish(c) ==
  /\ c > edition
  /\ edition' = c /\ shown' = OfCycle(c)
  /\ UNCHANGED <<known, documented, alerted>>

Next ==
  \/ \E o \in Occurrences : Know(o)
  \/ \E o \in known : Document(o)
  \/ \E o \in documented : Alert(o)
  \/ \E c \in Cycles : Publish(c)
  \/ Withdraw

Spec == Init /\ [][Next]_vars
=============================================================================
