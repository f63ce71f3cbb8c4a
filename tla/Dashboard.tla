----------------------------- MODULE Dashboard -----------------------------
(***************************************************************************)
(* The page dashboard/index.html, open in a browser while the control      *)
(* plane rewrites the file it shows.  loadState runs once a minute whether *)
(* the load before has been answered or not, so answers may overtake each  *)
(* other; Loads are the calls that may be under way at a time.  The web    *)
(* server is external: it is started and stopped by hand and answers with  *)
(* what the file holds at one moment.                                      *)
(***************************************************************************)
EXTENDS ControlPlane

CONSTANT Loads

VARIABLES
  load,     \* per call of loadState: where it stands and what it was given
  state,    \* the variable state of the page, a state file or Unread
  content,  \* what the content area shows: a state file, Unread or the error box
  serving   \* is the web server up?

view == <<load, state, content, serving>>
all == <<vars, view>>

\* What response.json() cannot parse, or no response at all.
Unread == [whole |-> FALSE, cycle |-> 0, page |-> <<>>]

ErrorBox == [Unread EXCEPT !.cycle = MaxCycle + 1]

Idle == [at |-> "idle", got |-> Unread]

DashboardInit ==
  /\ Init
  /\ load = [l \in Loads |-> Idle]
  /\ state = Unread /\ content = Unread
  /\ serving \in BOOLEAN
-----------------------------------------------------------------------------
\* The interval timer, or the first call.
LoadState(l) ==
  /\ load[l].at = "idle"
  /\ load' = [load EXCEPT ![l] = [at |-> "asked", got |-> Unread]]
  /\ UNCHANGED <<state, content, serving>>

\* The server reads the file; with the server down fetch rejects.
Respond(l) ==
  /\ load[l].at = "asked"
  /\ load' = [load EXCEPT ![l] =
                [at |-> "answered", got |-> IF serving /\ dash.whole THEN dash ELSE Unread]]
  /\ UNCHANGED <<state, content, serving>>

\* Mutants of Render: the timer is set again only after a success, a failed
\* load goes on showing what there was.
RenderOnce(l) ==
  /\ load[l].at = "answered"
  /\ LET file == load[l].got
     IN  IF file.whole
         THEN state' = file /\ content' = file /\ load' = [load EXCEPT ![l] = Idle]
         ELSE content' = ErrorBox /\ UNCHANGED <<state, load>>
  /\ UNCHANGED serving

\* The answer is there: a file that parses is kept and rendered, without an
\* await in between; any exception ends in the error box and the next
\* interval tries again.
Render(l) ==
  /\ load[l].at = "answered"
  /\ load' = [load EXCEPT ![l] = Idle]
  /\ LET file == load[l].got
     IN  IF file.whole THEN state' = file /\ content' = file
                       ELSE content' = ErrorBox /\ UNCHANGED state
  /\ UNCHANGED serving

\* A click in the list of environments renders the state again, also over
\* the error box.
SelectEnv ==
  /\ state.whole
  /\ content' = state
  /\ UNCHANGED <<load, state, serving>>

ServerChanges ==
  /\ serving' = ~serving
  /\ UNCHANGED <<load, state, content>>

Loading(l) == LoadState(l) \/ Respond(l) \/ Render(l)

Watch == SelectEnv \/ ServerChanges \/ \E l \in Loads : Loading(l)

DashboardNext == (Next /\ UNCHANGED view) \/ (Watch /\ UNCHANGED vars)

\* The process is scheduled until it ends, the timer fires and every fetch
\* comes back; signals, crashes, restarts, clicks and the web server are up to
\* their operators.  Nothing is assumed of a poll: psycopg2 is given a timeout
\* for the connection but none for a statement, which may wait for ever.
DashboardSpec ==
  /\ DashboardInit /\ [][DashboardNext]_all
  /\ WF_all(Proceed /\ UNCHANGED view)
  /\ \A l \in Loads : WF_all(Loading(l) /\ UNCHANGED vars)
-----------------------------------------------------------------------------
\* Whatever is on the screen is one complete cycle, with an alert for each
\* incident it shows: a load that meets a half-written file, or one that is
\* answered out of order, never shows anything else.
ScreenIsBacked ==
  \A file \in {state, content} : file.whole => PageBacked(file.page, file.cycle, Len(EnvOrder))

\* Once the file stays readable and the server up, the screen ends up with
\* the last page and stays there: no torn read is final, and no answer that
\* was overtaken is shown for ever.
ScreenCatchesUp == <>[](dash.whole /\ serving) => <>[](content = dash)
=============================================================================
