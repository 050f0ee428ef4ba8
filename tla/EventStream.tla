----------------------------- MODULE EventStream -----------------------------
(***************************************************************************)
(* The React hook that feeds the dashboard                                 *)
(* (frontend/src/hooks/useEventStream.ts). It keeps one EventSource to the *)
(* stream endpoint, replaces it after an error with exponential backoff,   *)
(* and collects what arrives in a bounded buffer.                          *)
(*                                                                         *)
(* Every callback runs to completion, so that an action is a whole         *)
(* callback. The callbacks of all the sources and of the timer share the   *)
(* refs of the component, those of an earlier run of the effect included.  *)
(* As the HTML standard says, a source that was closed and a timer that    *)
(* was cleared are silent; nothing else is assumed about the order of      *)
(* events.                                                                 *)
(*                                                                         *)
(* The server sends one event in each message, so that PayloadSizes is     *)
(* {0, 1}: a message that does not decode to an event counts as empty.     *)
(***************************************************************************)
EXTENDS Integers, Sequences

CONSTANTS
  Source,         \* EventSource objects; a closed one stands for a new one
  NoSource,       \* sourceRef.current is null
  BaseDelay,      \* reconnectIntervalMs
  MaxDelay,       \* maxReconnectIntervalMs
  MaxEvents,      \* maxEvents
  PayloadSizes,   \* numbers of valid events that a message may hold
  MaxFactor,      \* bound: factor at which the delay is at its maximum
  MaxTotal        \* bound: events received by one mounted component

ASSUME EventStreamAssumption ==
  /\ NoSource \notin Source
  /\ BaseDelay \in Nat \ {0} /\ MaxDelay \in Nat \ {0}
  /\ MaxEvents \in Nat \ {0} /\ PayloadSizes \subseteq {0, 1}
  /\ MaxFactor \in Nat \ {0} /\ BaseDelay * MaxFactor >= MaxDelay

VARIABLES
  mounted,        \* the component is mounted
  enabled,        \* the option `enabled` of the latest run of the effect
  disposed,       \* disposedRef
  source,         \* sourceRef
  ready,          \* ready[s]: "connecting", "open" or "closed"
  timer,          \* the delay of the pending reconnect timer, 0 if there is none
  factor,         \* 2 ** attemptRef, which stands for the count of attempts
  status,         \* connectionStatus
  error,          \* the error text is shown
  events,         \* the buffer: the number of each event it holds
  total,          \* totalReceived, which also numbers the events
  waited          \* the last reconnect delay since a connection opened, or 0

connection == <<source, ready, timer, status>>
buffer == <<events, total>>
vars == <<mounted, enabled, disposed, connection, factor, error, buffer, waited>>

Minimum(m, n) == IF m < n THEN m ELSE n
Running == mounted /\ enabled

Init ==
  /\ mounted = FALSE
  /\ enabled = FALSE
  /\ disposed = FALSE
  /\ source = NoSource
  /\ ready = [s \in Source |-> "closed"]
  /\ timer = 0
  /\ factor = 1
  /\ status = "disconnected"
  /\ error = FALSE
  /\ events = << >>
  /\ total = 0
  /\ waited = 0

-----------------------------------------------------------------------------
(* connect and scheduleReconnect. Both clear the timer first.              *)

\* The sources after closeSource, which closes the source of the ref.
AfterClose == IF source = NoSource THEN ready ELSE [ready EXCEPT ![source] = "closed"]

\* The new source replaces the old one in the ref only.
ConnectMutant ==
  /\ timer' = 0
  /\ status' = "connecting"
  /\ \E s \in Source :
       /\ ready[s] = "closed"
       /\ source' = s
       /\ ready' = [ready EXCEPT ![s] = "connecting"]

Connect ==
  /\ timer' = 0
  /\ status' = "connecting"
  /\ \E s \in Source :
       /\ AfterClose[s] = "closed"
       /\ source' = s
       /\ ready' = [AfterClose EXCEPT ![s] = "connecting"]

\* The attempt is counted before its delay is computed.
DelayMutant == Minimum(MaxDelay, BaseDelay * (2 * factor))
Delay == Minimum(MaxDelay, BaseDelay * factor)

\* One attempt more doubles the factor. Factors beyond MaxFactor have the same
\* delay, and are not told apart.
ScheduleReconnect ==
  /\ timer' = Delay
  /\ waited' = Delay
  /\ factor' = Minimum(2 * factor, MaxFactor)
  /\ status' = "connecting"

-----------------------------------------------------------------------------
(* The effect: the component mounts, an option changes, it unmounts. The   *)
(* cleanup of the earlier run comes first; what it closes and clears is    *)
(* closed and cleared by the new run as well.                              *)

RunEffect(on) ==
  /\ disposed' = FALSE
  /\ enabled' = on
  /\ IF on THEN Connect
           ELSE /\ source' = NoSource
                /\ ready' = AfterClose
                /\ timer' = 0
                /\ status' = "disconnected"

\* A new component has state of its own.
Mount(on) ==
  /\ ~mounted
  /\ mounted' = TRUE
  /\ RunEffect(on)
  /\ factor' = 1 /\ waited' = 0
  /\ error' = FALSE
  /\ events' = << >> /\ total' = 0

\* `enabled` or another dependency of the effect changes.
OptionsChange(on) ==
  /\ mounted
  /\ RunEffect(on)
  /\ UNCHANGED <<mounted, factor, error, buffer, waited>>

\* The cleanup does not clear the timer.
UnmountMutant ==
  /\ mounted
  /\ mounted' = FALSE
  /\ disposed' = (disposed \/ enabled)
  /\ source' = NoSource
  /\ ready' = AfterClose
  /\ status' = "disconnected"
  /\ UNCHANGED <<enabled, timer, factor, error, buffer, waited>>

\* A run of the effect that was not enabled has no cleanup, and nothing to
\* clean up.
Unmount ==
  /\ mounted
  /\ mounted' = FALSE
  /\ IF enabled
       THEN /\ disposed' = TRUE
            /\ source' = NoSource
            /\ ready' = AfterClose
            /\ timer' = 0
            /\ status' = "disconnected"
       ELSE UNCHANGED <<disposed, connection>>
  /\ UNCHANGED <<enabled, factor, error, buffer, waited>>

-----------------------------------------------------------------------------
(* The callbacks. Each returns at once when disposedRef is set; no source  *)
(* and no timer is left to call one then (OneConnection).                  *)

\* The error is not cleared.
OpensMutant(s) ==
  /\ ready[s] = "connecting"
  /\ ~disposed
  /\ ready' = [ready EXCEPT ![s] = "open"]
  /\ factor' = 1
  /\ waited' = 0
  /\ status' = "connected"
  /\ UNCHANGED <<mounted, enabled, disposed, source, timer, error, buffer>>

Opens(s) ==
  /\ ready[s] = "connecting"
  /\ ~disposed
  /\ ready' = [ready EXCEPT ![s] = "open"]
  /\ factor' = 1
  /\ waited' = 0
  /\ status' = "connected"
  /\ error' = FALSE
  /\ UNCHANGED <<mounted, enabled, disposed, source, timer, buffer>>

\* The buffer is cut at the wrong end.
TruncateMutant(s) ==
  IF Len(s) > MaxEvents THEN SubSeq(s, Len(s) - MaxEvents + 1, Len(s)) ELSE s
Truncate(s) == IF Len(s) > MaxEvents THEN SubSeq(s, 1, MaxEvents) ELSE s

\* parseIncomingPayload and prependEvents.
Message(s, size) ==
  /\ ready[s] = "open"
  /\ ~disposed
  /\ total + size <= MaxTotal
  /\ LET stamped == [i \in 1 .. size |-> total + i]
     IN  events' = Truncate(stamped \o events)
  /\ total' = total + size
  /\ UNCHANGED <<mounted, enabled, disposed, connection, factor, error, waited>>

\* The source is given up, and no timer is set.
ErrorsMutant(s) ==
  /\ ready[s] # "closed"
  /\ ~disposed
  /\ ready' = AfterClose
  /\ source' = NoSource
  /\ status' = "disconnected"
  /\ error' = TRUE
  /\ UNCHANGED <<mounted, enabled, disposed, timer, factor, buffer, waited>>

\* The browser reports an error and would reconnect by itself; the source of
\* the ref is closed, and the timer takes over. (The status "disconnected" that
\* is set on the way is overwritten before React renders.)
Errors(s) ==
  /\ ready[s] # "closed"
  /\ ~disposed
  /\ ready' = AfterClose
  /\ source' = NoSource
  /\ error' = TRUE
  /\ ScheduleReconnect
  /\ UNCHANGED <<mounted, enabled, disposed, buffer>>

TimerFires ==
  /\ timer # 0
  /\ ~disposed
  /\ Connect
  /\ UNCHANGED <<mounted, enabled, disposed, factor, error, buffer, waited>>

Next ==
  \/ \E on \in BOOLEAN : Mount(on) \/ OptionsChange(on)
  \/ Unmount
  \/ \E s \in Source :
       \/ Opens(s)
       \/ Errors(s)
       \/ \E size \in PayloadSizes : Message(s, size)
  \/ TimerFires

\* The browser runs a timer that is due. Connections need not open or fail.
Fairness == WF_vars(TimerFires)

Spec == Init /\ [][Next]_vars /\ Fairness

-----------------------------------------------------------------------------
(* Properties.                                                             *)

\* There is at most one connection, it is the one of the ref, and it belongs to
\* a component that is mounted and enabled: no run of the effect, no retry and
\* no unmount leaves a connection behind that would deliver events twice.
OneConnection ==
  \A s \in Source : ready[s] # "closed" => s = source /\ Running

\* A running hook has either a source or a timer that will make one, and never
\* both; one that is paused or gone has neither.
SourceOrTimer ==
  /\ Running => (source # NoSource) # (timer # 0)
  /\ ~Running => source = NoSource /\ timer = 0

\* The status shown is the state of the connection.
StatusTrue ==
  mounted =>
    status = IF source # NoSource /\ ready[source] = "open" THEN "connected"
             ELSE IF enabled THEN "connecting"
             ELSE "disconnected"

\* The buffer holds the latest events, newest first, none twice and without a
\* gap, across reconnects and pauses, and the total counts all of them.
BufferIsNewest ==
  /\ Len(events) = Minimum(MaxEvents, total)
  /\ \A i \in DOMAIN events : events[i] = total - i + 1

\* The first delay after a connection was open is the base delay; each further
\* one doubles until it reaches the maximum, and pauses do not shorten it.
Backoff ==
  [][timer' # timer /\ timer' # 0 =>
       timer' = Minimum(MaxDelay, IF waited = 0 THEN BaseDelay ELSE 2 * waited)]_vars

\* What the error text says ("SSE connection lost ... Reconnecting with
\* exponential backoff..."): while it is shown, a reconnect is under way.
ErrorMeansReconnecting ==
  error /\ mounted =>
    timer # 0 \/ (source # NoSource /\ ready[source] = "connecting")

=============================================================================
