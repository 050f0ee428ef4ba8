------------------------------ MODULE Dashboard ------------------------------
(***************************************************************************)
(* The dashboard page (frontend/src/components/dashboard/Dashboard.tsx)    *)
(* composed with the stream hook: what React has rendered of its state,    *)
(* and the effect of frontend/src/hooks/useEventMetrics.ts that highlights *)
(* the rows of new events.                                                 *)
(*                                                                         *)
(* React renders some time after a state is set, once for all that was set *)
(* by then. An effect runs some time after the render, before the next     *)
(* render, and only when the events array is another one.                  *)
(*                                                                         *)
(* The page of the repository passes constant options to the hook. A page  *)
(* that pauses the hook is covered too, since the option is there.         *)
(***************************************************************************)
EXTENDS EventStream, Functions

VARIABLES
  newArray,     \* the events array was replaced since the last render
  page,         \* what the last render has shown
  due,          \* the effect on the events of the page is still to run
  seen,         \* seenUids
  fresh,        \* freshIds
  timeout,      \* the timer that ends the highlight is pending
  lit           \* history: events that a render of this page has highlighted

highlight == <<seen, fresh, timeout>>
dashboardVars == <<vars, newArray, page, due, highlight, lit>>

\* The state as the next render shows it.
State ==
  [status |-> status, error |-> error, total |-> total, events |-> events, fresh |-> fresh]

NewState ==
  [status |-> "disconnected", error |-> FALSE, total |-> 0, events |-> << >>, fresh |-> {}]

DashboardInit ==
  /\ Init
  /\ newArray = FALSE
  /\ page = NewState
  /\ due = FALSE
  /\ seen = {} /\ fresh = {} /\ timeout = FALSE
  /\ lit = {}

\* The page is opened, or left. Opening it renders the initial state and runs the
\* effects of both hooks; there are no events then. Leaving it runs the cleanups.
Open(on) == Mount(on) /\ UNCHANGED <<newArray, page, due, highlight, lit>>

Close ==
  /\ Unmount
  /\ newArray' = FALSE
  /\ page' = NewState
  /\ due' = FALSE
  /\ seen' = {} /\ fresh' = {} /\ timeout' = FALSE
  /\ lit' = {}

\* An empty message replaces the array by an equal one.
ReceiveMutant(s, size) ==
  /\ Message(s, size)
  /\ newArray' = TRUE
  /\ UNCHANGED <<page, due, highlight, lit>>

\* prependEvents returns before it sets any state if there is nothing to prepend.
Receive(s, size) ==
  /\ Message(s, size)
  /\ newArray' = (newArray \/ size > 0)
  /\ UNCHANGED <<page, due, highlight, lit>>

\* The other callbacks of the stream hook, and its effect run anew.
StreamStep ==
  /\ \/ TimerFires
     \/ \E on \in BOOLEAN : OptionsChange(on)
     \/ \E s \in Source : Opens(s) \/ Errors(s)
  /\ UNCHANGED <<newArray, page, due, highlight, lit>>

\* The rows that are shown highlighted.
Highlighted == Range(page.events) \cap page.fresh

Render ==
  /\ mounted
  /\ page # State \/ newArray
  /\ ~due
  /\ page' = State
  /\ due' = newArray
  /\ newArray' = FALSE
  /\ lit' = lit \cup Highlighted'
  /\ UNCHANGED <<vars, highlight>>

NewlySeen == Range(page.events) \ seen

\* seenUids is made anew in each render.
EffectMutant ==
  /\ due
  /\ due' = FALSE
  /\ seen' = {}
  /\ fresh' = IF NewlySeen = {} THEN fresh ELSE NewlySeen
  /\ timeout' = (NewlySeen # {})
  /\ UNCHANGED <<vars, newArray, page, lit>>

\* The cleanup of the last run clears its timeout, whatever comes next.
Effect ==
  /\ due
  /\ due' = FALSE
  /\ seen' = seen \cup NewlySeen
  /\ fresh' = IF NewlySeen = {} THEN fresh ELSE NewlySeen
  /\ timeout' = (NewlySeen # {})
  /\ UNCHANGED <<vars, newArray, page, lit>>

TimeoutFires ==
  /\ timeout
  /\ timeout' = FALSE
  /\ fresh' = {}
  /\ UNCHANGED <<vars, newArray, page, due, seen, lit>>

DashboardNext ==
  \/ \E on \in BOOLEAN : Open(on)
  \/ Close
  \/ \E s \in Source, size \in PayloadSizes : Receive(s, size)
  \/ StreamStep
  \/ Render
  \/ Effect
  \/ TimeoutFires

\* React renders and runs effects, and the browser runs a timeout that is due.
DashboardSpec ==
  /\ DashboardInit /\ [][DashboardNext]_dashboardVars
  /\ WF_dashboardVars(Render) /\ WF_dashboardVars(Effect) /\ WF_dashboardVars(TimeoutFires)

-----------------------------------------------------------------------------
(* What the page says.                                                     *)

Badge ==
  CASE page.status = "connected" -> "Connected"
    [] page.status = "connecting" -> "Connecting"
    [] page.status = "disconnected" -> "Disconnected"

HeaderError == page.error

-----------------------------------------------------------------------------
(* Properties.                                                             *)

\* The error text, which says that the connection is lost, is never left beside the
\* badge "Connected", whatever renders come between. (The text that is left beside
\* "Disconnected" is that of ErrorMeansReconnecting.)
ErrorTextTrue == HeaderError => Badge # "Connected"

\* What the user sees of a new row is one highlight: once a render has shown an event
\* highlighted and a later one has not, no render of this page highlights it again,
\* whatever messages, cuts of the buffer, timeouts and reconnects come.
HighlightedOnce == [][(Highlighted' \ Highlighted) \cap lit = {}]_dashboardVars

\* No highlight stays, though each run of the effect clears the timeout of the last.
HighlightEnds == \A n \in 1 .. MaxTotal : n \in Highlighted ~> n \notin Highlighted

=============================================================================
