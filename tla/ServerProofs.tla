---------------------------- MODULE ServerProofs ----------------------------
(***************************************************************************)
(* Proofs about module Server, for every set of requests and all timeouts  *)
(* that satisfy TimeoutsAssumption.                                        *)
(***************************************************************************)
EXTENDS Server, TLAPS

-----------------------------------------------------------------------------
(* Types.                                                                  *)

\* The steps of a request, by what they do to its place, deadline and reply.
LEMMA HandlerTypeStep ==
  ASSUME NEW r \in Request, TypeOK, Handler(r)
  PROVE  TypeOK'
<1>. USE ServerAssumption, TimeoutsAssumption DEF TypeOK, MoveTo, Finish, procVars, pipeVars, Timed
<1>1. CASE Arrive(r)
  BY <1>1 DEF Arrive, ReadDeadline
<1>2. CASE ReadTimesOut(r)
  BY <1>2 DEF ReadTimesOut
<1>3. CASE Refuse(r)
  BY <1>3 DEF Refuse
<1>4. CASE OpenStream(r)
  BY <1>4 DEF OpenStream
<1>5. CASE StreamEnds(r)
  BY <1>5 DEF StreamEnds
<1>6. CASE Decode(r)
  BY <1>6 DEF Decode
<1>7. CASE SubmitAccepted(r)
  BY <1>7 DEF SubmitAccepted, Pipe!Accept
<1>8. CASE SubmitFails(r)
  BY <1>8 DEF SubmitFails
<1>9. CASE Answer202(r)
  BY <1>9 DEF Answer202
<1>. QED
  BY <1>1, <1>2, <1>3, <1>4, <1>5, <1>6, <1>7, <1>8, <1>9 DEF Handler, Submit

LEMMA PipeTypeStep ==
  ASSUME TypeOK, Settle \/ DeliverSome
  PROVE  TypeOK'
<1>. USE DEF TypeOK, procVars, requestVars, Timed
<1>1. ASSUME NEW b \in Pipe!Batch, Commit(b)
      PROVE  TypeOK'
  BY <1>1 DEF Commit, Pipe!Commit, Pipe!Settle
<1>2. ASSUME NEW b \in Pipe!Batch, Lose(b)
      PROVE  TypeOK'
  BY <1>2 DEF Lose, Pipe!Lose, Pipe!Settle
<1>3. ASSUME NEW b \in pending, Deliver(b)
      PROVE  TypeOK'
  BY <1>3 DEF Deliver, Pipe!Deliver
<1>. QED
  BY <1>1, <1>2, <1>3 DEF Settle, DeliverSome

LEMMA RunTypeStep ==
  ASSUME TypeOK, Run
  PROVE  TypeOK'
<1>. USE ServerAssumption DEF TypeOK, requestVars, pipeVars, Timed
<1>1. CASE Boot \/ BootFails \/ ListenFails \/ Signal \/ CloseStore \/ Exit \/ Killed
  BY <1>1 DEF Boot, BootFails, ListenFails, Signal, CloseStore, Exit, Killed
<1>2. CASE ServerShutdownReturns
  BY <1>2 DEF ServerShutdownReturns, Pipe!Close
<1>3. CASE PoolShutdownReturns
  BY <1>3 DEF PoolShutdownReturns, Pipe!Finish
<1>. QED
  BY <1>1, <1>2, <1>3 DEF Run

LEMMA TickTypeStep ==
  ASSUME TypeOK, Tick
  PROVE  TypeOK'
<1>1. /\ UNCHANGED <<main, cause, at, reply, status, pending, delivered, phase>>
      /\ \A r \in Request : Timed(r) => left[r] > 0
      /\ left' = [r \in Request |-> IF Timed(r) THEN left[r] - 1 ELSE left[r]]
      /\ main = "stopping" => grace > 0
      /\ grace' = IF main = "stopping" THEN grace - 1 ELSE grace
  BY DEF Tick, pipeVars
<1>2. grace' \in 0 .. Grace
  BY <1>1, ServerAssumption DEF TypeOK
<1>3. left' \in [Request -> Int] /\ \A r \in Request : Timed(r)' => left'[r] >= 0
  BY <1>1 DEF TypeOK, Timed
<1>. QED
  BY <1>1, <1>2, <1>3 DEF TypeOK

\* The types hold in every state, deadlines that have been reached included.
THEOREM TypeCorrect == Spec => []TypeOK
<1>1. Init => TypeOK
  BY ServerAssumption DEF Init, TypeOK, Pipe!Init, Timed
<1>2. TypeOK /\ [Next]_vars => TypeOK'
  <2>1. TypeOK /\ UNCHANGED vars => TypeOK'
    BY DEF TypeOK, vars, procVars, requestVars, pipeVars, Timed
  <2>. QED
    BY <2>1, HandlerTypeStep, PipeTypeStep, RunTypeStep, TickTypeStep DEF Next
<1>. QED
  BY <1>1, <1>2, PTL DEF Spec

-----------------------------------------------------------------------------
(* The inductive invariant.                                                *)

\* What main does and whether the pool is open go together, and a process that
\* is on its way out after a signal has seen the pool return.
Stages ==
  /\ main \in {"boot", "serving"} => cause = "none"
  /\ main \in {"boot", "serving", "stopping"} => phase = "running"
  /\ main = "draining" => phase = "draining"
  /\ cause = "signal" /\ main \in {"closing", "leaving", "exited"} => phase = "returned"
  /\ phase = "returned" => pending = {} /\ \A r \in Request : status[r] # "accepted"

\* A request has its deadline, and while the server shuts down this lies before
\* the end of the shutdown, with the delay of its handler.
Deadlines ==
  \A r \in Request :
    /\ at[r] = "reading" =>
         left[r] <= ReadTimeout /\ (main = "stopping" => left[r] + Delay < grace)
    /\ at[r] = "decoded" =>
         left[r] <= Delay /\ (main = "stopping" => left[r] < grace)

\* Where a request stands tells whether its event is in the pipeline.
Places ==
  \A r \in Request :
    /\ at[r] \in {"outside", "reading", "decoded", "streaming"} => status[r] = "outside"
    /\ at[r] = "accepted" => status[r] # "outside"

IInv ==
  /\ TypeOK
  /\ Stages
  /\ Deadlines
  /\ Places
  /\ NoSubmitOnClosed
  /\ AnswerTrue

LEMMA InitIInv == Init => IInv
<1>1. Init => TypeOK
  BY ServerAssumption DEF Init, TypeOK, Pipe!Init, Timed
<1>. QED
  BY <1>1 DEF Init, IInv, Stages, Deadlines, Places, NoSubmitOnClosed, AnswerTrue,
     Pipe!Init

\* A step of a handler. A request arrives only while the pool is open, and one
\* that reaches Submit finds it open.
LEMMA HandlerStep ==
  ASSUME NEW r \in Request, IInv, Handler(r)
  PROVE  IInv'
<1>1. TypeOK'
  BY HandlerTypeStep DEF IInv
<1>. USE ServerAssumption, TimeoutsAssumption
     DEF IInv, TypeOK, Stages, Deadlines, Places, NoSubmitOnClosed, AnswerTrue,
         MoveTo, Finish, procVars, pipeVars
<1>2. CASE Arrive(r)
  BY <1>1, <1>2 DEF Arrive, ReadDeadline
<1>3. CASE ReadTimesOut(r) \/ Refuse(r) \/ OpenStream(r) \/ StreamEnds(r)
  BY <1>1, <1>3 DEF ReadTimesOut, Refuse, OpenStream, StreamEnds
<1>4. CASE Decode(r)
  BY <1>1, <1>4 DEF Decode, Timed
<1>5. CASE SubmitAccepted(r)
  BY <1>1, <1>5 DEF SubmitAccepted, Pipe!Accept
<1>6. CASE SubmitFails(r) \/ Answer202(r)
  BY <1>1, <1>6 DEF SubmitFails, Answer202
<1>. QED
  BY <1>2, <1>3, <1>4, <1>5, <1>6 DEF Handler, Submit

\* A step of the workers settles accepted events, of which a pool that has
\* returned has none.
LEMMA PipeStep ==
  ASSUME IInv, Settle \/ DeliverSome
  PROVE  IInv'
<1>1. TypeOK'
  BY PipeTypeStep DEF IInv
<1>. USE DEF IInv, TypeOK, Stages, Deadlines, Places, NoSubmitOnClosed, AnswerTrue,
             procVars, requestVars
<1>2. ASSUME NEW b \in Pipe!Batch, NEW how \in {"stored", "lost"}, Pipe!Settle(b, how)
      PROVE  /\ phase # "returned"
             /\ \A r \in Request : status'[r] = "outside" <=> status[r] = "outside"
  <2>1. b # {} /\ b \subseteq Request
    BY DEF Pipe!Batch
  <2>. QED
    BY <1>2, <2>1 DEF Pipe!Settle
<1>3. ASSUME NEW b \in Pipe!Batch, Commit(b)
      PROVE  IInv'
  BY <1>1, <1>2, <1>3 DEF Commit, Pipe!Commit
<1>4. ASSUME NEW b \in Pipe!Batch, Lose(b)
      PROVE  IInv'
  BY <1>1, <1>2, <1>4 DEF Lose, Pipe!Lose
<1>5. ASSUME NEW b \in pending, Deliver(b)
      PROVE  IInv'
  BY <1>1, <1>5 DEF Deliver, Pipe!Deliver
<1>. QED
  BY <1>3, <1>4, <1>5 DEF Settle, DeliverSome

\* server.Shutdown gives up only when no request can still reach Submit.
LEMMA ServerShutdownStep ==
  ASSUME IInv, ServerShutdownReturns
  PROVE  IInv'
<1>1. TypeOK'
  BY RunTypeStep DEF IInv, Run
<1>2. \A r \in Request : at[r] \notin {"reading", "decoded"}
  <2>1. CASE \A r \in Request : ~Active(r)
    BY <2>1 DEF Active
  <2>2. CASE grace = 0
    BY <2>2, ServerAssumption
       DEF IInv, TypeOK, Deadlines, Timed, ServerShutdownReturns
  <2>. QED
    BY <2>1, <2>2 DEF ServerShutdownReturns
<1>. QED
  BY <1>1, <1>2
     DEF IInv, TypeOK, Stages, Deadlines, Places, NoSubmitOnClosed, AnswerTrue,
         ServerShutdownReturns, Pipe!Close, requestVars

LEMMA RunStep ==
  ASSUME IInv, Run
  PROVE  IInv'
<1>1. TypeOK'
  BY RunTypeStep DEF IInv
<1>. USE ServerAssumption, TimeoutsAssumption
     DEF IInv, TypeOK, Stages, Deadlines, Places, NoSubmitOnClosed, AnswerTrue,
         requestVars, pipeVars
<1>2. CASE Signal
  BY <1>1, <1>2 DEF Signal
<1>3. CASE PoolShutdownReturns
  BY <1>1, <1>3 DEF PoolShutdownReturns, Pipe!Finish
<1>4. CASE Boot \/ BootFails \/ ListenFails \/ CloseStore \/ Exit \/ Killed
  BY <1>1, <1>4 DEF Boot, BootFails, ListenFails, CloseStore, Exit, Killed, Alive
<1>. QED
  BY <1>2, <1>3, <1>4, ServerShutdownStep DEF Run

\* All deadlines come nearer by one tick, that of the shutdown among them.
LEMMA TickStep ==
  ASSUME IInv, Tick
  PROVE  IInv'
<1>1. TypeOK'
  BY TickTypeStep DEF IInv
<1>2. Deadlines'
  BY ServerAssumption DEF IInv, TypeOK, Deadlines, Tick, Timed
<1>. QED
  BY <1>1, <1>2
     DEF IInv, Stages, Places, NoSubmitOnClosed, AnswerTrue, Tick, pipeVars

LEMMA IInvInvariant == Spec => []IInv
<1>1. IInv /\ [Next]_vars => IInv'
  <2>1. IInv /\ UNCHANGED vars => IInv'
    BY DEF IInv, TypeOK, Stages, Deadlines, Places, NoSubmitOnClosed, AnswerTrue,
           Timed, vars, procVars, requestVars, pipeVars
  <2>. QED
    BY <2>1, HandlerStep, PipeStep, RunStep, TickStep DEF Next
<1>. QED
  BY InitIInv, <1>1, PTL DEF Spec

-----------------------------------------------------------------------------
(* The safety properties.                                                  *)

\* Under the timeouts as they are, no handler submits to a pool that has closed
\* its channel: Submit never panics.
THEOREM NoSubmitOnClosedHolds == Spec => []NoSubmitOnClosed
<1>1. IInv => NoSubmitOnClosed
  BY DEF IInv
<1>. QED
  BY <1>1, IInvInvariant, PTL

\* After a signal the database is closed only over a pipeline that is empty.
THEOREM DrainedBeforeCloseHolds == Spec => []DrainedBeforeClose
<1>1. IInv => DrainedBeforeClose
  BY DEF IInv, Stages, DrainedBeforeClose, StoreClosed
<1>. QED
  BY <1>1, IInvInvariant, PTL

\* The status code of a response tells whether the event is in the pipeline.
THEOREM AnswerTrueHolds == Spec => []AnswerTrue
<1>1. IInv => AnswerTrue
  BY DEF IInv
<1>. QED
  BY <1>1, IInvInvariant, PTL

=============================================================================
