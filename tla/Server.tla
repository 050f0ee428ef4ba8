------------------------------- MODULE Server -------------------------------
(***************************************************************************)
(* The life of the process (backend/cmd/server/main.go, run) and of the    *)
(* requests it serves (backend/internal/handler/ingestion.go): startup,    *)
(* serving, the shutdown of the http server with its timeout, that of the  *)
(* worker pool, the deferred close of the database, and the exit.          *)
(*                                                                         *)
(* The worker pool is its abstraction, Ingestion, which module Pool        *)
(* implements; a pool whose buffer is full may refuse at any time. The     *)
(* clock advances in ticks of 5 seconds. net/http is external: how its     *)
(* connections, deadlines and Shutdown behave is taken from its use here.  *)
(***************************************************************************)
EXTENDS Integers, FiniteSets

CONSTANTS
  Request,      \* requests of clients; each posts at most one event
  BatchSize,    \* cfg.Workers.BatchSize
  ReadTimeout,  \* ticks a request may take to arrive (5 seconds)
  Delay,        \* ticks the scheduler may keep a runnable handler waiting
  Grace         \* ticks server.Shutdown waits for requests (15 seconds)

ASSUME ServerAssumption ==
  /\ BatchSize \in Nat \ {0}
  /\ ReadTimeout \in Nat \ {0}
  /\ Delay \in Nat
  /\ Grace \in Nat

\* The whole shutdown rests on this: a request that begins just before the
\* signal reaches Submit while server.Shutdown still waits for it.
ASSUME TimeoutsAssumption == ReadTimeout + Delay < Grace

VARIABLES
  main,         \* where run is: "boot", "serving", "stopping" (server.Shutdown),
                \* "draining" (pool.Shutdown), "closing" (store.Close is next),
                \* "leaving" (run has returned), "exited"
  cause,        \* what ended it: "none", "signal", "error", "killed"
  grace,        \* ticks left to server.Shutdown
  at,           \* at[r]: "outside", "reading", "decoded", "accepted",
                \* "streaming" or "done"
  left,         \* left[r]: ticks left to the deadline of r
  reply,        \* reply[r]: what the client of r has been told
  status, pending, delivered, phase     \* the pipeline (Ingestion)

procVars == <<main, cause, grace>>
requestVars == <<at, left, reply>>
pipeVars == <<status, pending, delivered, phase>>
vars == <<procVars, requestVars, pipeVars>>

Pipe == INSTANCE Ingestion WITH Event <- Request

Active(r) == at[r] \notin {"outside", "done"}
Alive == main \notin {"boot", "exited"}
StoreClosed == main \in {"leaving", "exited"}

Init ==
  /\ main = "boot"
  /\ cause = "none"
  /\ grace = 0
  /\ at = [r \in Request |-> "outside"]
  /\ left = [r \in Request |-> 0]
  /\ reply = [r \in Request |-> "none"]
  /\ Pipe!Init

-----------------------------------------------------------------------------
(* Requests.                                                               *)

MoveTo(r, place, ticks) ==
  /\ at' = [at EXCEPT ![r] = place]
  /\ left' = [left EXCEPT ![r] = ticks]

Finish(r, code) ==
  /\ MoveTo(r, "done", 0)
  /\ reply' = [reply EXCEPT ![r] = code]

\* The server reads for as long as the shutdown waits.
ReadDeadlineMutant == Grace
ReadDeadline == ReadTimeout

\* A connection is accepted, or an idle one gets its next request. The request
\* has to be read within the deadline of the server. Shutdown closes the
\* listeners and the idle connections first of all.
Arrive(r) ==
  /\ main = "serving"
  /\ at[r] = "outside"
  /\ MoveTo(r, "reading", ReadDeadline)
  /\ UNCHANGED <<procVars, reply, pipeVars>>

\* The deadline passes: net/http closes a connection without headers, and
\* Decode fails for want of the body.
ReadTimesOut(r) ==
  /\ Alive
  /\ at[r] = "reading"
  /\ left[r] = 0
  /\ \E code \in {"closed", "400"} : Finish(r, code)
  /\ UNCHANGED <<procVars, pipeVars>>

\* The return is missing after the fields have been found empty.
RefuseMutant(r) ==
  /\ Alive
  /\ phase = "running"
  /\ at[r] = "reading"
  /\ Finish(r, "400")
  /\ Pipe!Accept(r)
  /\ UNCHANGED procVars

\* HandleEvents returns early: another method, a body that is not one event, a
\* field that is missing.
Refuse(r) ==
  /\ Alive
  /\ at[r] = "reading"
  /\ \E code \in {"405", "400"} : Finish(r, code)
  /\ UNCHANGED <<procVars, pipeVars>>

\* The request is a GET of the stream, whose handler is module Stream.
OpenStream(r) ==
  /\ Alive
  /\ at[r] = "reading"
  /\ MoveTo(r, "streaming", 0)
  /\ UNCHANGED <<procVars, reply, pipeVars>>

\* The client goes, or the server cancels the context. A client that has
\* stalled, with the handler in a write, keeps its handler: no write timeout.
StreamEnds(r) ==
  /\ Alive
  /\ at[r] = "streaming"
  /\ Finish(r, "streamed")
  /\ UNCHANGED <<procVars, pipeVars>>

\* The body is one event with its required fields; the handler is about to
\* call Submit. (Defaults for the timestamp and the payload are data.)
Decode(r) ==
  /\ Alive
  /\ at[r] = "reading"
  /\ MoveTo(r, "decoded", Delay)
  /\ UNCHANGED <<procVars, reply, pipeVars>>

SubmitAccepted(r) ==
  /\ Alive
  /\ at[r] = "decoded"
  /\ Pipe!Accept(r)
  /\ MoveTo(r, "accepted", 0)
  /\ UNCHANGED <<procVars, reply>>

\* Submit returns false, for the buffer is full; or it sends on the closed
\* channel and panics, which net/http recovers.
SubmitFails(r) ==
  /\ Alive
  /\ at[r] = "decoded"
  /\ Finish(r, IF phase = "running" THEN "503" ELSE "panicked")
  /\ UNCHANGED <<procVars, pipeVars>>

Submit(r) == SubmitAccepted(r) \/ SubmitFails(r)

Answer202(r) ==
  /\ Alive
  /\ at[r] = "accepted"
  /\ Finish(r, "202")
  /\ UNCHANGED <<procVars, pipeVars>>

Handler(r) ==
  \/ Arrive(r) \/ ReadTimesOut(r) \/ Refuse(r) \/ OpenStream(r) \/ StreamEnds(r)
  \/ Decode(r) \/ Submit(r) \/ Answer202(r)

-----------------------------------------------------------------------------
(* The workers, as far as Ingestion knows them.                            *)

Commit(b) == Alive /\ Pipe!Commit(b) /\ UNCHANGED <<procVars, requestVars>>
Lose(b) == Alive /\ Pipe!Lose(b) /\ UNCHANGED <<procVars, requestVars>>
Deliver(b) == Alive /\ Pipe!Deliver(b) /\ UNCHANGED <<procVars, requestVars>>

Settle == \E b \in Pipe!Batch : Commit(b) \/ Lose(b)
DeliverSome == \E b \in pending : Deliver(b)

-----------------------------------------------------------------------------
(* run.                                                                    *)

\* The database opens, the pool starts and the server is told to listen.
Boot ==
  /\ main = "boot"
  /\ main' = "serving"
  /\ UNCHANGED <<cause, grace, requestVars, pipeVars>>

BootFails ==
  /\ main = "boot"
  /\ main' = "exited"
  /\ cause' = "error"
  /\ UNCHANGED <<grace, requestVars, pipeVars>>

\* ListenAndServe returns: the port is taken, or Accept fails later on. run
\* returns at once, past both shutdowns.
ListenFails ==
  /\ main = "serving"
  /\ main' = "closing"
  /\ cause' = "error"
  /\ UNCHANGED <<grace, requestVars, pipeVars>>

\* SIGINT or SIGTERM. Later ones find nobody who reads sigCh.
Signal ==
  /\ main = "serving"
  /\ main' = "stopping"
  /\ cause' = "signal"
  /\ grace' = Grace
  /\ UNCHANGED <<requestVars, pipeVars>>

\* Shutdown gets a context without a timeout.
ServerShutdownReturnsMutant ==
  /\ main = "stopping"
  /\ \A r \in Request : ~Active(r)
  /\ main' = "draining"
  /\ Pipe!Close
  /\ UNCHANGED <<cause, grace, requestVars>>

\* server.Shutdown has seen every connection idle, or has given up (its error
\* is only logged). pool.Shutdown closes the channel.
ServerShutdownReturns ==
  /\ main = "stopping"
  /\ (\A r \in Request : ~Active(r)) \/ grace = 0
  /\ main' = "draining"
  /\ Pipe!Close
  /\ UNCHANGED <<cause, grace, requestVars>>

\* pool.Shutdown does not wait for the workers.
PoolShutdownReturnsMutant ==
  /\ main = "draining"
  /\ main' = "closing"
  /\ UNCHANGED <<cause, grace, requestVars, pipeVars>>

PoolShutdownReturns ==
  /\ main = "draining"
  /\ Pipe!Finish
  /\ main' = "closing"
  /\ UNCHANGED <<cause, grace, requestVars>>

\* The deferred store.Close. An insert on its way may still commit; a later one
\* fails, as Lose does.
CloseStore ==
  /\ main = "closing"
  /\ main' = "leaving"
  /\ UNCHANGED <<cause, grace, requestVars, pipeVars>>

Exit ==
  /\ main = "leaving"
  /\ main' = "exited"
  /\ UNCHANGED <<cause, grace, requestVars, pipeVars>>

\* SIGKILL, a crash, or a signal before signal.Notify.
Killed ==
  /\ Alive
  /\ main' = "exited"
  /\ cause' = "killed"
  /\ UNCHANGED <<grace, requestVars, pipeVars>>

Run == \/ Boot \/ BootFails \/ ListenFails \/ Signal \/ ServerShutdownReturns
       \/ PoolShutdownReturns \/ CloseStore \/ Exit \/ Killed

-----------------------------------------------------------------------------
(* Time. A deadline that has been reached is served before time goes on.   *)

Timed(r) == at[r] \in {"reading", "decoded"}

Tick ==
  /\ Alive
  /\ main = "stopping" \/ \E r \in Request : Timed(r)
  /\ \A r \in Request : Timed(r) => left[r] > 0
  /\ main = "stopping" => grace > 0
  /\ left' = [r \in Request |-> IF Timed(r) THEN left[r] - 1 ELSE left[r]]
  /\ grace' = IF main = "stopping" THEN grace - 1 ELSE grace
  /\ UNCHANGED <<main, cause, at, reply, pipeVars>>

Next ==
  \/ \E r \in Request : Handler(r)
  \/ Settle
  \/ DeliverSome
  \/ Run
  \/ Tick

\* Goroutines that can run do, the pool settles what it has accepted and
\* delivers what it has stored (Pool: EventuallySettled), and time goes on. No
\* request has to come, to be complete or to end, and nobody has to stop the
\* process.
Fairness ==
  /\ \A r \in Request :
       WF_vars(ReadTimesOut(r)) /\ WF_vars(Submit(r)) /\ WF_vars(Answer202(r))
  /\ WF_vars(Settle) /\ WF_vars(DeliverSome)
  /\ WF_vars(ServerShutdownReturns) /\ WF_vars(PoolShutdownReturns)
  /\ WF_vars(CloseStore) /\ WF_vars(Exit)
  /\ WF_vars(Tick)

Spec == Init /\ [][Next]_vars /\ Fairness

-----------------------------------------------------------------------------
(* Properties.                                                             *)

\* Types; no deadline is passed over, and a request is over exactly when its
\* client has got an answer or an end.
TypeOK ==
  /\ main \in {"boot", "serving", "stopping", "draining", "closing", "leaving", "exited"}
  /\ cause \in {"none", "signal", "error", "killed"}
  /\ grace \in 0 .. Grace
  /\ at \in [Request -> {"outside", "reading", "decoded", "accepted",
                         "streaming", "done"}]
  /\ left \in [Request -> Int]
  /\ \A r \in Request : Timed(r) => left[r] >= 0
  /\ reply \in [Request -> {"none", "closed", "400", "405", "503", "202",
                            "panicked", "streamed"}]
  /\ \A r \in Request : at[r] = "done" <=> reply[r] # "none"
  /\ status \in [Request -> {"outside", "accepted", "stored", "lost"}]
  /\ pending \subseteq Pipe!Batch
  /\ delivered \subseteq Pipe!Batch
  /\ phase \in {"running", "draining", "returned"}

\* pool.Shutdown closes the channel only when no handler can reach Submit any
\* more, though server.Shutdown may give up on requests that are still active:
\* the read deadline is so much shorter that these are not before their Submit.
NoSubmitOnClosed ==
  /\ \A r \in Request : reply[r] # "panicked"
  /\ phase # "running" => \A r \in Request : at[r] \notin {"reading", "decoded"}

\* After a signal, the database is closed only when every event that a handler
\* has put into the pool, answered or not, is settled, and everything stored has
\* been offered to the streams. (Not so when listening fails: run then returns
\* past pool.Shutdown.)
DrainedBeforeClose ==
  StoreClosed /\ cause = "signal" =>
    pending = {} /\ \A r \in Request : status[r] # "accepted"

\* A client is told 202 exactly if its event is in the pipeline for good, and
\* what it is told otherwise means that no event of it ever is.
AnswerTrue ==
  \A r \in Request : at[r] = "done" => (reply[r] = "202" <=> status[r] # "outside")

\* The process ends after a signal, however many clients stall.
ShutdownEnds == cause = "signal" ~> main = "exited"

=============================================================================
