--------------------------- MODULE DashboardProofs ---------------------------
(***************************************************************************)
(* Proofs about modules EventStream and Dashboard: for any number of       *)
(* sources, any delays and any size of the buffer there is at most one     *)
(* connection or one timer, the delays back off, the status is true, and   *)
(* the buffer holds the newest events; all of it in the page as well,      *)
(* whose text, badge and highlights follow.                                *)
(***************************************************************************)
EXTENDS Dashboard, TLAPS

-----------------------------------------------------------------------------
(* The inductive invariant.                                                *)

TypeInv ==
  /\ mounted \in BOOLEAN /\ enabled \in BOOLEAN
  /\ source \in Source \cup {NoSource}
  /\ ready \in [Source -> {"connecting", "open", "closed"}]

Connected == TypeInv /\ SourceOrTimer /\ OneConnection /\ StatusTrue

\* The next delay is the one that follows the last: the base delay if there was
\* none since a connection opened, twice as much otherwise.
Retries ==
  /\ factor \in Nat \ {0} /\ waited \in Nat
  /\ waited = 0 => factor = 1
  /\ waited # 0 => Minimum(MaxDelay, 2 * waited) = Minimum(MaxDelay, BaseDelay * factor)

BufferInv == events \in Seq(Nat) /\ total \in Nat /\ BufferIsNewest

IInv == Connected /\ Retries /\ BufferInv

-----------------------------------------------------------------------------
(* Delays.                                                                 *)

LEMMA Product ==
  ASSUME NEW a \in Nat, NEW b \in Nat
  PROVE  /\ a * b \in Nat
         /\ a # 0 /\ b # 0 => a * b # 0
         /\ a * (2 * b) = 2 * (a * b)
OBVIOUS

LEMMA LargerFactor ==
  ASSUME NEW a \in Nat, NEW b \in Nat, NEW c \in Nat, b <= c
  PROVE  a * b <= a * c
OBVIOUS

\* After a delay the next one is twice as long, and the bound on the factor does
\* not show.
LEMMA Doubles ==
  ASSUME NEW f \in Nat \ {0}
  PROVE  Minimum(MaxDelay, 2 * Minimum(MaxDelay, BaseDelay * f))
           = Minimum(MaxDelay, BaseDelay * Minimum(2 * f, MaxFactor))
<1>1. PICK p \in Nat : p = BaseDelay * f
  BY Product, EventStreamAssumption
<1>2. BaseDelay * (2 * f) = 2 * p
  BY <1>1, Product, EventStreamAssumption
<1>3. PICK q \in Nat : q = BaseDelay * MaxFactor /\ q >= MaxDelay
  BY Product, EventStreamAssumption
<1>4. MaxDelay \in Nat /\ MaxFactor \in Nat /\ 2 * f \in Nat
  BY EventStreamAssumption
<1>5. CASE 2 * f < MaxFactor
  <2>1. BaseDelay * Minimum(2 * f, MaxFactor) = 2 * p
    BY <1>2, <1>5 DEF Minimum
  <2>. QED
    BY <1>1, <1>4, <2>1 DEF Minimum
<1>6. CASE ~(2 * f < MaxFactor)
  <2>1. BaseDelay * Minimum(2 * f, MaxFactor) = q
    BY <1>3, <1>6 DEF Minimum
  <2>2. q <= 2 * p
    BY <1>2, <1>3, <1>4, <1>6, LargerFactor, EventStreamAssumption
  <2>. QED
    BY <1>1, <1>3, <1>4, <2>1, <2>2 DEF Minimum
<1>. QED
  BY <1>5, <1>6

\* The factor and the last delay change together.
LEMMA RetriesStep == Retries /\ [Next]_vars => Retries'
<1>. SUFFICES ASSUME Retries, [Next]_vars
              PROVE  Retries'
  OBVIOUS
<1>1. CASE UNCHANGED <<factor, waited>>
  BY <1>1 DEF Retries
<1>2. CASE factor' = 1 /\ waited' = 0
  BY <1>2 DEF Retries
<1>3. CASE ScheduleReconnect
  <2>1. PICK d : d = Minimum(MaxDelay, BaseDelay * factor)
    OBVIOUS
  <2>2. waited' = d /\ factor' = Minimum(2 * factor, MaxFactor)
    BY <1>3, <2>1 DEF ScheduleReconnect, Delay
  <2>3. d \in Nat /\ factor \in Nat \ {0}
    BY <2>1, Product, EventStreamAssumption DEF Retries, Minimum
  <2>4. d # 0
    BY <2>1, <2>3, Product, EventStreamAssumption DEF Minimum
  <2>5. factor' \in Nat \ {0}
    BY <2>2, <2>3, EventStreamAssumption DEF Minimum
  <2>6. Minimum(MaxDelay, 2 * d) = Minimum(MaxDelay, BaseDelay * factor')
    BY <2>1, <2>2, <2>3, Doubles
  <2>. QED
    BY <2>2, <2>3, <2>4, <2>5, <2>6 DEF Retries
<1>4. UNCHANGED <<factor, waited>> \/ (factor' = 1 /\ waited' = 0) \/ ScheduleReconnect
  BY DEF Next, vars, Mount, OptionsChange, Unmount, Opens, Errors, Message, TimerFires
<1>. QED
  BY <1>1, <1>2, <1>3, <1>4

\* The timer is set by scheduleReconnect only; every other step clears or keeps it.
LEMMA TimerSet ==
  ASSUME Retries, [Next]_vars, timer' # timer, timer' # 0
  PROVE  timer' = Minimum(MaxDelay, IF waited = 0 THEN BaseDelay ELSE 2 * waited)
<1>1. timer' = Delay
  BY DEF Next, vars, connection, Mount, OptionsChange, RunEffect, Connect, Unmount, Opens,
         Errors, ScheduleReconnect, Message, TimerFires
<1>2. BaseDelay * 1 = BaseDelay
  BY EventStreamAssumption
<1>. QED
  BY <1>1, <1>2 DEF Retries, Delay

-----------------------------------------------------------------------------
(* Connections.                                                            *)

\* The source of the ref is the only one that may be open, so that closing it
\* closes them all.
LEMMA CloseClosesAll ==
  ASSUME Connected
  PROVE  /\ AfterClose \in [Source -> {"connecting", "open", "closed"}]
         /\ \A s \in Source : AfterClose[s] = "closed"
<1>1. /\ ready \in [Source -> {"connecting", "open", "closed"}]
      /\ source \in Source \cup {NoSource}
      /\ \A s \in Source : ready[s] # "closed" => s = source
  BY DEF Connected, TypeInv, OneConnection
<1>2. NoSource \notin Source
  BY EventStreamAssumption
<1>3. CASE source = NoSource
  BY <1>1, <1>2, <1>3 DEF AfterClose
<1>4. CASE source # NoSource
  BY <1>1, <1>4 DEF AfterClose
<1>. QED
  BY <1>3, <1>4

\* connect leaves one source, the new one, on its way to the server.
LEMMA ConnectMakesOne ==
  ASSUME Connected, Connect
  PROVE  /\ timer' = 0 /\ status' = "connecting"
         /\ source' \in Source
         /\ ready' \in [Source -> {"connecting", "open", "closed"}]
         /\ ready'[source'] = "connecting"
         /\ \A s \in Source : ready'[s] # "closed" => s = source'
<1>1. PICK s \in Source : source' = s /\ ready' = [AfterClose EXCEPT ![s] = "connecting"]
  BY DEF Connect
<1>. HIDE DEF AfterClose
<1>. QED
  BY <1>1, CloseClosesAll DEF Connect

\* What a connected hook amounts to after a step that called connect.
LEMMA ConnectStep ==
  ASSUME Connected, Connect, mounted' = TRUE, enabled' = TRUE
  PROVE  Connected'
<1>1. NoSource \notin Source
  BY EventStreamAssumption
<1>. QED
  BY <1>1, ConnectMakesOne DEF Connected, TypeInv, SourceOrTimer, Running, OneConnection, StatusTrue

\* The same for a step that closed the source and made no other.
LEMMA CloseStep ==
  ASSUME Connected, source' = NoSource, ready' = AfterClose,
         mounted' \in BOOLEAN, enabled' \in BOOLEAN,
         Running' <=> timer' # 0,
         mounted' => status' = IF enabled' THEN "connecting" ELSE "disconnected"
  PROVE  Connected'
<1>1. \A s \in Source : ready'[s] = "closed"
  BY CloseClosesAll
<1>2. TypeInv'
  BY CloseClosesAll DEF TypeInv
<1>3. SourceOrTimer' /\ OneConnection'
  BY <1>1 DEF SourceOrTimer, OneConnection
<1>4. StatusTrue'
  BY DEF StatusTrue
<1>. QED
  BY <1>2, <1>3, <1>4 DEF Connected

LEMMA EffectStep ==
  ASSUME Connected, NEW on \in BOOLEAN, RunEffect(on), mounted' = TRUE
  PROVE  Connected'
<1>1. CASE on
  BY <1>1, ConnectStep DEF RunEffect
<1>2. CASE ~on
  BY <1>2, CloseStep DEF RunEffect, Running
<1>. QED
  BY <1>1, <1>2

LEMMA UnmountStep == Connected /\ Unmount => Connected'
<1>. SUFFICES ASSUME Connected, Unmount
              PROVE  Connected'
  OBVIOUS
<1>1. mounted' = FALSE /\ enabled' = enabled /\ enabled \in BOOLEAN
  BY DEF Unmount, Connected, TypeInv
<1>2. CASE enabled
  BY <1>1, <1>2, CloseStep DEF Unmount, Running
<1>3. CASE ~enabled
  <2>1. source = NoSource /\ timer = 0
    BY <1>3 DEF Connected, SourceOrTimer, Running
  <2>2. UNCHANGED connection
    BY <1>3 DEF Unmount
  <2>3. \A s \in Source : ready[s] = "closed"
    BY <1>3 DEF Connected, OneConnection, Running
  <2>. QED
    BY <1>1, <2>1, <2>2, <2>3
       DEF connection, Connected, TypeInv, SourceOrTimer, Running, OneConnection, StatusTrue
<1>. QED
  BY <1>1, <1>2, <1>3

\* Only the source of the ref has callbacks left to run, and only in a running hook.
LEMMA CallbackOfRef ==
  ASSUME Connected, NEW s \in Source, ready[s] # "closed"
  PROVE  s = source /\ mounted /\ enabled
BY DEF Connected, OneConnection, Running

LEMMA OpensStep ==
  ASSUME Connected, NEW s \in Source, Opens(s)
  PROVE  Connected'
<1>1. s = source /\ mounted /\ enabled
  BY CallbackOfRef DEF Opens
<1>2. /\ ready' = [ready EXCEPT ![source] = "open"]
      /\ status' = "connected"
      /\ UNCHANGED <<mounted, enabled, source, timer>>
  BY <1>1 DEF Opens
<1>3. NoSource \notin Source
  BY EventStreamAssumption
<1>. QED
  BY <1>1, <1>2, <1>3 DEF Connected, TypeInv, SourceOrTimer, Running, OneConnection, StatusTrue

LEMMA DelayPositive ==
  ASSUME Retries
  PROVE  Delay \in Nat \ {0}
BY Product, EventStreamAssumption DEF Retries, Delay, Minimum

LEMMA ErrorsStep ==
  ASSUME Connected, Retries, NEW s \in Source, Errors(s)
  PROVE  Connected'
<1>1. mounted /\ enabled
  BY CallbackOfRef DEF Errors
<1>2. /\ source' = NoSource /\ ready' = AfterClose /\ status' = "connecting"
      /\ timer' # 0
      /\ UNCHANGED <<mounted, enabled>>
  BY DelayPositive DEF Errors, ScheduleReconnect
<1>3. Running' /\ mounted' \in BOOLEAN /\ enabled' \in BOOLEAN
  BY <1>1, <1>2 DEF Running, Connected, TypeInv
<1>. QED
  BY <1>1, <1>2, <1>3, CloseStep

\* A timer is set in a running hook only, so that connect is never called for
\* one that is gone.
LEMMA TimerStep == Connected /\ TimerFires => Connected'
<1>. SUFFICES ASSUME Connected, TimerFires
              PROVE  Connected'
  OBVIOUS
<1>1. mounted = TRUE /\ enabled = TRUE
  BY DEF TimerFires, Connected, TypeInv, SourceOrTimer, Running
<1>. QED
  BY <1>1, ConnectStep DEF TimerFires

LEMMA QuietStep ==
  ASSUME Connected, UNCHANGED <<mounted, enabled, connection>>
  PROVE  Connected'
BY DEF connection, Connected, TypeInv, SourceOrTimer, Running, OneConnection, StatusTrue

-----------------------------------------------------------------------------
(* The buffer.                                                             *)

LEMMA Concatenation ==
  ASSUME NEW a \in Seq(Nat), NEW b \in Seq(Nat)
  PROVE  /\ a \o b \in Seq(Nat)
         /\ Len(a \o b) = Len(a) + Len(b)
         /\ \A i \in 1 .. Len(a) + Len(b) :
              (a \o b)[i] = IF i <= Len(a) THEN a[i] ELSE b[i - Len(a)]
OBVIOUS

\* What a message puts before the buffer is newer than all of it.
LEMMA Prepended ==
  ASSUME BufferInv, NEW size \in {0, 1}, NEW s,
         s = [i \in 1 .. size |-> total + i] \o events
  PROVE  /\ s \in Seq(Nat)
         /\ Len(s) = Len(events) + size
         /\ \A i \in 1 .. Len(s) : s[i] = total + size - i + 1
<1>1. events \in Seq(Nat) /\ total \in Nat
  BY DEF BufferInv
<1>2. Len(events) \in Nat /\ DOMAIN events = 1 .. Len(events)
  BY <1>1
<1>3. \A i \in 1 .. Len(events) : events[i] = total - i + 1
  BY <1>2 DEF BufferInv, BufferIsNewest
<1>. DEFINE stamped == [i \in 1 .. size |-> total + i]
<1>4. stamped \in Seq(Nat) /\ Len(stamped) = size /\ \A i \in 1 .. size : stamped[i] = total + i
  BY <1>1
<1>. HIDE DEF stamped
<1>5. /\ stamped \o events \in Seq(Nat)
      /\ Len(stamped \o events) = size + Len(events)
      /\ \A i \in 1 .. size + Len(events) :
           (stamped \o events)[i] = IF i <= size THEN stamped[i] ELSE events[i - size]
  BY <1>1, <1>4, Concatenation
<1>6. s = stamped \o events
  BY DEF stamped
<1>7. \A i \in 1 .. size + Len(events) : s[i] = total + size - i + 1
  <2>. TAKE i \in 1 .. size + Len(events)
  <2>1. CASE i <= size
    BY <1>1, <1>4, <1>5, <1>6, <2>1
  <2>2. CASE i > size
    <3>1. i - size \in 1 .. Len(events)
      BY <1>2, <2>2
    <3>. QED
      BY <1>1, <1>2, <1>3, <1>5, <1>6, <2>2, <3>1
  <2>. QED
    BY <2>1, <2>2, <1>2
<1>8. Len(s) = size + Len(events) /\ size + Len(events) = Len(events) + size
  BY <1>2, <1>5, <1>6
<1>. QED
  BY <1>5, <1>6, <1>7, <1>8

\* The cut keeps the front, which is the newest part.
LEMMA Cut ==
  ASSUME NEW s \in Seq(Nat)
  PROVE  /\ Truncate(s) \in Seq(Nat)
         /\ Len(Truncate(s)) = Minimum(MaxEvents, Len(s))
         /\ \A i \in 1 .. Len(Truncate(s)) : i \in 1 .. Len(s) /\ Truncate(s)[i] = s[i]
<1>1. Len(s) \in Nat /\ MaxEvents \in Nat
  BY EventStreamAssumption
<1>2. CASE Len(s) > MaxEvents
  <2>1. /\ SubSeq(s, 1, MaxEvents) \in Seq(Nat)
        /\ Len(SubSeq(s, 1, MaxEvents)) = MaxEvents
        /\ \A i \in 1 .. MaxEvents : SubSeq(s, 1, MaxEvents)[i] = s[i]
    BY <1>1, <1>2
  <2>. QED
    BY <1>1, <1>2, <2>1 DEF Truncate, Minimum
<1>3. CASE ~(Len(s) > MaxEvents)
  BY <1>1, <1>3 DEF Truncate, Minimum
<1>. QED
  BY <1>2, <1>3

LEMMA MessageStep ==
  ASSUME BufferInv, NEW s \in Source, NEW size \in PayloadSizes, Message(s, size)
  PROVE  BufferInv'
<1>1. size \in {0, 1} /\ MaxEvents \in Nat /\ MaxEvents > 0
  BY EventStreamAssumption
<1>2. total \in Nat /\ Len(events) = Minimum(MaxEvents, total)
  BY DEF BufferInv, BufferIsNewest
<1>3. PICK new : new = [i \in 1 .. size |-> total + i] \o events
  OBVIOUS
<1>4. events' = Truncate(new) /\ total' = total + size
  BY <1>3 DEF Message
<1>5. /\ new \in Seq(Nat)
      /\ Len(new) = Minimum(MaxEvents, total) + size
      /\ \A i \in 1 .. Len(new) : new[i] = total + size - i + 1
  BY <1>1, <1>2, <1>3, Prepended
<1>6. /\ events' \in Seq(Nat)
      /\ Len(events') = Minimum(MaxEvents, Len(new))
      /\ \A i \in 1 .. Len(events') : i \in 1 .. Len(new) /\ events'[i] = new[i]
  BY <1>4, <1>5, Cut
<1>7. Len(events') = Minimum(MaxEvents, total')
  BY <1>1, <1>2, <1>4, <1>5, <1>6 DEF Minimum
<1>8. DOMAIN events' = 1 .. Len(events')
  BY <1>6
<1>9. total' \in Nat /\ \A i \in DOMAIN events' : events'[i] = total' - i + 1
  BY <1>1, <1>2, <1>4, <1>5, <1>6, <1>8
<1>. QED
  BY <1>6, <1>7, <1>9 DEF BufferInv, BufferIsNewest

\* An empty buffer is that of a component that has received nothing.
LEMMA EmptyBuffer ==
  /\ << >> \in Seq(Nat) /\ Len(<< >>) = 0 /\ DOMAIN << >> = {}
  /\ Minimum(MaxEvents, 0) = 0
BY EventStreamAssumption DEF Minimum

-----------------------------------------------------------------------------
(* The invariant.                                                          *)

LEMMA InitIInv == Init => IInv
<1>. SUFFICES ASSUME Init
              PROVE  IInv
  OBVIOUS
<1>1. TypeInv
  BY DEF Init, TypeInv
<1>2. SourceOrTimer /\ OneConnection /\ StatusTrue
  BY DEF Init, SourceOrTimer, Running, OneConnection, StatusTrue
<1>3. BufferInv
  BY EmptyBuffer DEF Init, BufferInv, BufferIsNewest
<1>4. Retries
  BY DEF Init, Retries
<1>. QED
  BY <1>1, <1>2, <1>3, <1>4 DEF IInv, Connected

LEMMA ConnectedStep == Connected /\ Retries /\ [Next]_vars => Connected'
<1>. SUFFICES ASSUME Connected, Retries, [Next]_vars
              PROVE  Connected'
  OBVIOUS
<1>1. ASSUME NEW on \in BOOLEAN, Mount(on) \/ OptionsChange(on)
      PROVE  Connected'
  <2>1. RunEffect(on) /\ mounted' = TRUE
    BY <1>1 DEF Mount, OptionsChange, Connected, TypeInv
  <2>. QED
    BY <2>1, EffectStep
<1>2. CASE Unmount
  BY <1>2, UnmountStep
<1>3. ASSUME NEW s \in Source, Opens(s)
      PROVE  Connected'
  BY <1>3, OpensStep
<1>4. ASSUME NEW s \in Source, Errors(s)
      PROVE  Connected'
  BY <1>4, ErrorsStep
<1>5. ASSUME NEW s \in Source, NEW size \in PayloadSizes, Message(s, size)
      PROVE  Connected'
  BY <1>5, QuietStep DEF Message
<1>6. CASE TimerFires
  BY <1>6, TimerStep
<1>7. CASE UNCHANGED vars
  BY <1>7, QuietStep DEF vars
<1>. QED
  BY <1>1, <1>2, <1>3, <1>4, <1>5, <1>6, <1>7 DEF Next

LEMMA BufferStep == BufferInv /\ [Next]_vars => BufferInv'
<1>. SUFFICES ASSUME BufferInv, [Next]_vars
              PROVE  BufferInv'
  OBVIOUS
<1>1. ASSUME NEW on \in BOOLEAN, Mount(on)
      PROVE  BufferInv'
  BY <1>1, EmptyBuffer DEF Mount, BufferInv, BufferIsNewest
<1>2. ASSUME NEW s \in Source, NEW size \in PayloadSizes, Message(s, size)
      PROVE  BufferInv'
  BY <1>2, MessageStep
<1>3. CASE UNCHANGED buffer
  BY <1>3 DEF buffer, BufferInv, BufferIsNewest
<1>4. ASSUME NEW on \in BOOLEAN, OptionsChange(on)
      PROVE  UNCHANGED buffer
  BY <1>4 DEF OptionsChange
<1>5. ASSUME NEW s \in Source, Opens(s) \/ Errors(s)
      PROVE  UNCHANGED buffer
  BY <1>5 DEF Opens, Errors
<1>6. ASSUME Unmount \/ TimerFires \/ UNCHANGED vars
      PROVE  UNCHANGED buffer
  BY <1>6 DEF Unmount, TimerFires, vars
<1>. QED
  BY <1>1, <1>2, <1>3, <1>4, <1>5, <1>6 DEF Next

LEMMA StepIInv == IInv /\ [Next]_vars => IInv'
BY ConnectedStep, RetriesStep, BufferStep DEF IInv

LEMMA IInvInvariant == Spec => []IInv
BY InitIInv, StepIInv, PTL DEF Spec

-----------------------------------------------------------------------------
(* The theorems about the hook.                                            *)

\* However options change and failures, timers and unmounts come, no connection
\* but that of the ref is alive, and it belongs to a running component.
THEOREM OneConnectionHolds == Spec => []OneConnection
<1>1. IInv => OneConnection
  BY DEF IInv, Connected
<1>. QED
  BY <1>1, IInvInvariant, PTL

\* A running hook has a source or a timer that will make one, never both, so that it
\* neither gives up nor retries twice; one that is paused or gone has neither.
THEOREM SourceOrTimerHolds == Spec => []SourceOrTimer
<1>1. IInv => SourceOrTimer
  BY DEF IInv, Connected
<1>. QED
  BY <1>1, IInvInvariant, PTL

\* Each delay is the base delay or twice the last one, up to the maximum.
THEOREM BackoffHolds == Spec => Backoff
<1>1. IInv /\ [Next]_vars => [timer' # timer /\ timer' # 0 =>
        timer' = Minimum(MaxDelay, IF waited = 0 THEN BaseDelay ELSE 2 * waited)]_vars
  BY TimerSet DEF IInv
<1>. QED
  BY <1>1, IInvInvariant, PTL DEF Spec, Backoff

\* The status that the hook returns is the state of its connection.
THEOREM StatusTrueHolds == Spec => []StatusTrue
<1>1. IInv => StatusTrue
  BY DEF IInv, Connected
<1>. QED
  BY <1>1, IInvInvariant, PTL

\* The buffer holds the newest events without a gap, for every size of it.
THEOREM BufferIsNewestHolds == Spec => []BufferIsNewest
<1>1. IInv => BufferIsNewest
  BY DEF IInv, BufferInv
<1>. QED
  BY <1>1, IInvInvariant, PTL

-----------------------------------------------------------------------------
(* The page.                                                               *)

\* A step of the page is one of the hook or leaves the hook alone.
LEMMA StepOfHook == [DashboardNext]_dashboardVars => [Next]_vars
BY DEF DashboardNext, dashboardVars, Open, Close, Receive, StreamStep, Render, Effect,
       TimeoutFires, Next

Status == {"connected", "connecting", "disconnected"}

\* No error is set beside an open connection, so that none is rendered.
NoFalseError ==
  /\ status \in Status /\ ~(error /\ status = "connected")
  /\ page.status \in Status /\ ~(page.error /\ page.status = "connected")

LEMMA StatusStep ==
  ASSUME NoFalseError, [Next]_vars
  PROVE  status' \in Status /\ ~(error' /\ status' = "connected")
<1>1. CASE UNCHANGED <<status, error>>
  BY <1>1 DEF NoFalseError
<1>2. CASE status' \in {"connecting", "disconnected"}
  BY <1>2 DEF Status
<1>3. CASE status' = "connected" /\ error' = FALSE
  BY <1>3 DEF Status
<1>4. \/ UNCHANGED <<status, error>>
      \/ status' \in {"connecting", "disconnected"}
      \/ status' = "connected" /\ error' = FALSE
  BY DEF Next, vars, connection, Mount, OptionsChange, RunEffect, Connect, Unmount, Opens,
         Errors, ScheduleReconnect, Message, TimerFires
<1>. QED
  BY <1>1, <1>2, <1>3, <1>4

LEMMA NoFalseErrorStep == NoFalseError /\ [DashboardNext]_dashboardVars => NoFalseError'
<1>. SUFFICES ASSUME NoFalseError, [DashboardNext]_dashboardVars
              PROVE  NoFalseError'
  OBVIOUS
<1>1. status' \in Status /\ ~(error' /\ status' = "connected")
  BY StepOfHook, StatusStep
<1>2. CASE page' = page
  BY <1>1, <1>2 DEF NoFalseError
<1>3. CASE page' = NewState
  BY <1>1, <1>3 DEF NoFalseError, NewState, Status
<1>4. CASE page' = State
  BY <1>1, <1>4 DEF NoFalseError, State
<1>5. page' = page \/ page' = NewState \/ page' = State
  BY DEF DashboardNext, dashboardVars, Open, Close, Receive, StreamStep, Render, Effect,
         TimeoutFires
<1>. QED
  BY <1>2, <1>3, <1>4, <1>5

LEMMA NoFalseErrorInvariant == DashboardSpec => []NoFalseError
<1>1. DashboardInit => NoFalseError
  BY DEF DashboardInit, Init, NoFalseError, NewState, Status
<1>. QED
  BY <1>1, NoFalseErrorStep, PTL DEF DashboardSpec

LEMMA HookInvariant == DashboardSpec => []IInv
<1>1. DashboardInit => IInv
  BY InitIInv DEF DashboardInit
<1>. QED
  BY <1>1, StepOfHook, StepIInv, PTL DEF DashboardSpec

-----------------------------------------------------------------------------
(* What is highlighted.                                                    *)

\* An event that was shown highlighted is shown so now, or it is not fresh any more, or
\* it has left the buffer for good, because the numbers of events only grow. Everything
\* that is or was fresh is seen. A page that is closed has none of this.
ShownOnce ==
  /\ Range(page.events) \subseteq 1 .. total /\ seen \subseteq 1 .. total
  /\ lit \subseteq seen /\ fresh \subseteq seen
  /\ fresh \cap lit \cap Range(events) \subseteq Highlighted
  /\ ~mounted => page = NewState /\ ~due /\ seen = {}

LEMMA NothingShown ==
  /\ Range(NewState.events) = {} /\ NewState.fresh = {}
  /\ page = NewState => Highlighted = {}
  /\ page' = NewState => Highlighted' = {}
BY DEF NewState, Range, Highlighted

LEMMA PageStep ==
  [DashboardNext]_dashboardVars => page' = page \/ page' = NewState \/ page' = State
BY DEF DashboardNext, dashboardVars, Open, Close, Receive, StreamStep, Render, Effect,
       TimeoutFires

\* The events of a buffer are the numbers up to the total, as many as it may hold.
LEMMA Numbers ==
  ASSUME NEW s \in Seq(Nat), NEW t \in Nat, Len(s) = Minimum(MaxEvents, t),
         \A i \in DOMAIN s : s[i] = t - i + 1
  PROVE  \A n : n \in Range(s) <=> n \in 1 .. t /\ t < n + Minimum(MaxEvents, t)
<1>1. DOMAIN s = 1 .. Minimum(MaxEvents, t)
  OBVIOUS
<1>2. Minimum(MaxEvents, t) \in Nat /\ Minimum(MaxEvents, t) <= t
  BY EventStreamAssumption DEF Minimum
<1>3. ASSUME NEW n \in Range(s)
      PROVE  n \in 1 .. t /\ t < n + Minimum(MaxEvents, t)
  BY <1>1, <1>2 DEF Range
<1>4. ASSUME NEW n \in 1 .. t, t < n + Minimum(MaxEvents, t)
      PROVE  n \in Range(s)
  <2>1. PICK k \in Nat : k = Minimum(MaxEvents, t)
    BY <1>2
  <2>2. PICK j \in 1 .. k : j = t - n + 1
    BY <1>4, <2>1
  <2>3. j \in DOMAIN s /\ s[j] = n
    BY <1>1, <2>1, <2>2
  <2>. QED
    BY <2>3 DEF Range
<1>. QED
  BY <1>3, <1>4

\* A message adds events with new numbers only.
LEMMA MessageAdds ==
  ASSUME BufferInv, BufferInv', total <= total'
  PROVE  /\ Range(events) \subseteq 1 .. total
         /\ \A n \in Range(events') : n \in 1 .. total => n \in Range(events)
<1>1. /\ events \in Seq(Nat) /\ total \in Nat /\ Len(events) = Minimum(MaxEvents, total)
      /\ \A i \in DOMAIN events : events[i] = total - i + 1
      /\ events' \in Seq(Nat) /\ total' \in Nat /\ Len(events') = Minimum(MaxEvents, total')
      /\ \A i \in DOMAIN events' : events'[i] = total' - i + 1
  BY DEF BufferInv, BufferIsNewest
<1>2. \A n : n \in Range(events) <=> n \in 1 .. total /\ total < n + Minimum(MaxEvents, total)
  BY <1>1, Numbers
<1>3. \A n : n \in Range(events')
               <=> n \in 1 .. total' /\ total' < n + Minimum(MaxEvents, total')
  <2>1. PICK s, t : s = events' /\ t = total'
    OBVIOUS
  <2>. QED
    BY <1>1, <2>1, Numbers
<1>4. ASSUME NEW n \in 1 .. total, total' < n + Minimum(MaxEvents, total')
      PROVE  total < n + Minimum(MaxEvents, total)
  <2>1. PICK t \in Nat, u \in Nat : t = total /\ u = total' /\ t <= u
    BY <1>1
  <2>2. MaxEvents \in Nat \ {0}
    BY EventStreamAssumption
  <2>3. n \in 1 .. t /\ u < n + (IF MaxEvents < u THEN MaxEvents ELSE u)
    BY <1>4, <2>1 DEF Minimum
  <2>4. CASE MaxEvents < t
    <3>1. MaxEvents < u
      BY <2>1, <2>2, <2>4
    <3>2. t < n + MaxEvents
      BY <2>1, <2>2, <2>3, <3>1
    <3>. QED
      BY <2>1, <2>4, <3>2 DEF Minimum
  <2>5. CASE ~(MaxEvents < t)
    <3>1. t < n + t
      BY <2>1, <2>3
    <3>. QED
      BY <2>1, <2>5, <3>1 DEF Minimum
  <2>. QED
    BY <2>4, <2>5
<1>. QED
  BY <1>2, <1>3, <1>4

\* A step of the hook alone: the buffer is as it was, or has newer events.
LEMMA HookStepShown ==
  ASSUME ShownOnce, BufferInv, BufferInv', total <= total',
         UNCHANGED <<mounted, page, due, highlight, lit>>
  PROVE  ShownOnce'
<1>1. 1 .. total \subseteq 1 .. total'
  BY DEF BufferInv
<1>2. fresh \cap lit \cap Range(events') \subseteq fresh \cap lit \cap Range(events)
  BY MessageAdds DEF ShownOnce
<1>3. Highlighted' = Highlighted
  BY DEF Highlighted
<1>. QED
  BY <1>1, <1>2, <1>3 DEF ShownOnce, highlight

LEMMA ShownOnceStep ==
  ASSUME ShownOnce, IInv, IInv', [DashboardNext]_dashboardVars
  PROVE  ShownOnce'
<1>1. BufferInv /\ BufferInv' /\ total \in Nat
  BY DEF IInv, BufferInv
<1>2. ASSUME NEW on \in BOOLEAN, Open(on)
      PROVE  ShownOnce'
  <2>1. /\ ~mounted /\ total' = 0 /\ events' = << >>
        /\ UNCHANGED <<page, due, seen, fresh, lit>>
    BY <1>2 DEF Open, Mount, highlight
  <2>2. page = NewState /\ ~due /\ seen = {} /\ lit = {} /\ fresh = {}
    BY <2>1 DEF ShownOnce
  <2>. QED
    BY <2>1, <2>2, NothingShown DEF ShownOnce
<1>3. CASE Close
  BY <1>3, NothingShown DEF Close, ShownOnce
<1>4. ASSUME NEW s \in Source, NEW size \in PayloadSizes, Receive(s, size)
      PROVE  ShownOnce'
  <2>1. /\ total' = total + size /\ size \in Nat
        /\ UNCHANGED <<mounted, page, due, highlight, lit>>
    BY <1>4, EventStreamAssumption DEF Receive, Message
  <2>. QED
    BY <1>1, <2>1, HookStepShown
<1>5. CASE StreamStep
  <2>1. UNCHANGED <<mounted, total, page, due, highlight, lit>>
    BY <1>5 DEF StreamStep, TimerFires, OptionsChange, Opens, Errors, buffer
  <2>. QED
    BY <1>1, <2>1, HookStepShown
<1>6. CASE Render
  <2>1. /\ mounted /\ page' = State /\ lit' = lit \cup Highlighted'
        /\ UNCHANGED <<mounted, events, total, seen, fresh>>
    BY <1>6 DEF Render, vars, buffer, highlight
  <2>2. Highlighted' = Range(events) \cap fresh /\ page'.events = events
    BY <2>1 DEF State, Highlighted
  <2>3. Range(events) \subseteq 1 .. total
    BY <1>1, <2>1, MessageAdds
  <2>. QED
    BY <2>1, <2>2, <2>3 DEF ShownOnce
<1>7. CASE Effect
  <2>1. /\ due /\ seen' = seen \cup NewlySeen
        /\ fresh' = fresh \/ fresh' = NewlySeen
        /\ ~due' /\ UNCHANGED <<mounted, events, total, page, lit>>
    BY <1>7 DEF Effect, vars, buffer
  <2>2. NewlySeen \subseteq Range(page.events) /\ NewlySeen \cap seen = {}
    BY DEF NewlySeen
  <2>3. Highlighted' = Highlighted
    BY <2>1 DEF Highlighted
  <2>. QED
    BY <2>1, <2>2, <2>3 DEF ShownOnce
<1>8. CASE TimeoutFires
  <2>1. fresh' = {} /\ UNCHANGED <<mounted, events, total, page, due, seen, lit>>
    BY <1>8 DEF TimeoutFires, vars, buffer
  <2>. QED
    BY <2>1 DEF ShownOnce, Highlighted
<1>9. CASE UNCHANGED dashboardVars
  BY <1>9 DEF dashboardVars, vars, buffer, highlight, ShownOnce, Highlighted
<1>. QED
  BY <1>2, <1>3, <1>4, <1>5, <1>6, <1>7, <1>8, <1>9 DEF DashboardNext

LEMMA ShownOnceInvariant == DashboardSpec => []ShownOnce
<1>1. DashboardInit => ShownOnce
  BY NothingShown DEF DashboardInit, ShownOnce
<1>2. ShownOnce /\ IInv /\ IInv' /\ [DashboardNext]_dashboardVars => ShownOnce'
  BY ShownOnceStep
<1>. QED
  BY <1>1, <1>2, HookInvariant, PTL DEF DashboardSpec

-----------------------------------------------------------------------------
(* The theorems about the page.                                            *)

\* What holds of the hook holds of it in the page, whatever renders and effects come
\* between its callbacks.
THEOREM PageKeepsHook ==
  DashboardSpec =>
    [](OneConnection /\ SourceOrTimer /\ StatusTrue /\ BufferIsNewest) /\ Backoff
<1>1. IInv => OneConnection /\ SourceOrTimer /\ StatusTrue /\ BufferIsNewest
  BY DEF IInv, Connected, BufferInv
<1>2. IInv /\ [DashboardNext]_dashboardVars => [timer' # timer /\ timer' # 0 =>
        timer' = Minimum(MaxDelay, IF waited = 0 THEN BaseDelay ELSE 2 * waited)]_vars
  BY StepOfHook, TimerSet DEF IInv
<1>. QED
  BY <1>1, <1>2, HookInvariant, PTL DEF DashboardSpec, Backoff

\* The error text is never shown beside the badge "Connected", however late the page
\* is rendered.
THEOREM ErrorTextTrueHolds == DashboardSpec => []ErrorTextTrue
<1>1. NoFalseError => ErrorTextTrue
  BY DEF NoFalseError, ErrorTextTrue, HeaderError, Badge, Status
<1>. QED
  BY <1>1, NoFalseErrorInvariant, PTL

\* An event is shown highlighted once while the page is open, by whatever messages, cuts
\* of the buffer, effects, timeouts and late renders.
THEOREM HighlightedOnceHolds == DashboardSpec => HighlightedOnce
<1>1. ShownOnce /\ [DashboardNext]_dashboardVars
        => [(Highlighted' \ Highlighted) \cap lit = {}]_dashboardVars
  <2>. SUFFICES ASSUME ShownOnce, [DashboardNext]_dashboardVars,
                       NEW n \in Highlighted' \ Highlighted, n \in lit
                PROVE  FALSE
    OBVIOUS
  <2>1. CASE page' = page
    BY <2>1 DEF Highlighted
  <2>2. CASE page' = NewState
    BY <2>2, NothingShown
  <2>3. CASE page' = State
    BY <2>3 DEF State, Highlighted, ShownOnce
  <2>. QED
    BY <2>1, <2>2, <2>3, PageStep
<1>. QED
  BY <1>1, ShownOnceInvariant, PTL DEF DashboardSpec, HighlightedOnce

=============================================================================
