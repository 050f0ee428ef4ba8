-------------------------------- MODULE Pool --------------------------------
(***************************************************************************)
(* The ingestion worker pool (backend/internal/worker/pool.go): a bounded  *)
(* channel filled by the HTTP handlers and drained by a fixed set of       *)
(* worker goroutines, each of which collects a batch in memory and flushes *)
(* it when it is full, when its ticker fires, or when the channel has been *)
(* closed and drained.                                                     *)
(*                                                                         *)
(* A flush is two calls, and other workers run between them:               *)
(* store.InsertBatch, which commits the whole batch or fails (module       *)
(* SQLite shows that the SQLite strategy does so), and, after a success,   *)
(* broker.Publish.                                                         *)
(*                                                                         *)
(* Event is the set of submissions, not of event ids: a client that sends  *)
(* the same event_id twice has made two submissions (event_id is not       *)
(* unique in the events table).                                            *)
(***************************************************************************)
EXTENDS Integers, Sequences

CONSTANTS
  Event,        \* submissions the HTTP clients may make
  Worker,       \* ids of the worker goroutines (cfg.NumWorkers of them)
  BufferSize,   \* cfg.BufferSize, the capacity of the channel
  BatchSize     \* cfg.BatchSize

\* NewPool replaces every non-positive setting by a positive default.
ASSUME PoolAssumption ==
  /\ Worker # {}
  /\ BufferSize \in Nat \ {0}
  /\ BatchSize \in Nat \ {0}

VARIABLES
  events,       \* contents of the channel p.events, oldest first
  shutdown,     \* progress of Shutdown: "running", "draining", "returned"
  outcome,      \* outcome[e]: what the last Submit(e) told its caller
  ticket,       \* ticket[e]: rank of e in the order of acceptance, 0 if none
  admitted,     \* number of events accepted so far (the last ticket)
  pc,           \* pc[w]: where worker w is
  after,        \* after[w]: where w goes on when the current flush returns
  batch,        \* batch[w]: the slice local to runWorker
  tick,         \* tick[w]: a tick waits in ticker.C, whose capacity is 1
  inserts,      \* the InsertBatch calls that have returned, oldest first
  published     \* the batches handed to broker.Publish, oldest first

(***************************************************************************)
(* outcome, ticket, admitted, inserts and published are what the clients,  *)
(* the database and the broker have seen of the pool; no guard of a worker *)
(* reads them.                                                             *)
(***************************************************************************)
vars == <<events, shutdown, outcome, ticket, admitted, pc, after, batch, tick,
          inserts, published>>

clientVars == <<outcome, ticket, admitted>>
workerVars == <<pc, after, batch, tick>>
flushVars == <<inserts, published>>

Elems(s) == {s[i] : i \in DOMAIN s}
Accepted(e) == outcome[e] = "accepted"
Started == \A w \in Worker : pc[w] # "unborn"
AllExited == \A w \in Worker : pc[w] = "exited"

-----------------------------------------------------------------------------
(* NewPool, Start and Submit.                                              *)

Init ==
  /\ events = << >>
  /\ shutdown = "running"
  /\ outcome = [e \in Event |-> "unsent"]
  /\ ticket = [e \in Event |-> 0]
  /\ admitted = 0
  /\ pc = [w \in Worker |-> "unborn"]
  /\ after = [w \in Worker |-> "select"]
  /\ batch = [w \in Worker |-> << >>]
  /\ tick = [w \in Worker |-> FALSE]
  /\ inserts = << >>
  /\ published = << >>

\* Start launches every worker; p.started makes a second call a no-op.
Start ==
  /\ \A w \in Worker : pc[w] = "unborn"
  /\ pc' = [w \in Worker |-> "select"]
  /\ UNCHANGED <<events, shutdown, clientVars, after, batch, tick, flushVars>>

\* A request reaches Submit: a first attempt, or a retry of one that was
\* answered 503. main serves requests only after Start has returned.
Arrives(e) ==
  /\ Started
  /\ outcome[e] \in {"unsent", "rejected"}
  /\ UNCHANGED <<shutdown, workerVars, flushVars>>

HasRoom == Len(events) < BufferSize

Accept(e) ==
  /\ Arrives(e)
  /\ shutdown = "running"
  /\ HasRoom
  /\ events' = Append(events, e)
  /\ outcome' = [outcome EXCEPT ![e] = "accepted"]
  /\ ticket' = [ticket EXCEPT ![e] = admitted + 1]
  /\ admitted' = admitted + 1

\* The select falls through to its default case: the buffer is full.
Reject(e) ==
  /\ Arrives(e)
  /\ shutdown = "running"
  /\ ~HasRoom
  /\ outcome' = [outcome EXCEPT ![e] = "rejected"]
  /\ UNCHANGED <<events, ticket, admitted>>

\* Sending on a closed channel panics, whatever room the buffer has.
SubmitClosed(e) ==
  /\ Arrives(e)
  /\ shutdown # "running"
  /\ outcome' = [outcome EXCEPT ![e] = "panicked"]
  /\ UNCHANGED <<events, ticket, admitted>>

Submit(e) == Accept(e) \/ Reject(e) \/ SubmitClosed(e)

-----------------------------------------------------------------------------
(* runWorker: one round of the select loop, and the two calls of flush.    *)

\* Calling flush: an empty batch returns at once to `ret`.
CallFlush(w, b, ret) ==
  /\ after' = [after EXCEPT ![w] = ret]
  /\ pc' = [pc EXCEPT ![w] = IF b = << >> THEN ret ELSE "insert"]

\* The batch is not emptied, and is inserted again with what comes next.
ReturnFromFlushMutant(w) ==
  /\ pc' = [pc EXCEPT ![w] = after[w]]
  /\ UNCHANGED <<batch, after, tick>>

\* flush ends with batch = batch[:0], after a failed insert as well.
ReturnFromFlush(w) ==
  /\ batch' = [batch EXCEPT ![w] = << >>]
  /\ pc' = [pc EXCEPT ![w] = after[w]]
  /\ UNCHANGED <<after, tick>>

Full(b) == Len(b) >= BatchSize

Receive(w) ==
  /\ pc[w] = "select"
  /\ events # << >>
  /\ events' = Tail(events)
  /\ LET b == Append(batch[w], Head(events))
     IN  /\ batch' = [batch EXCEPT ![w] = b]
         /\ IF Full(b) THEN CallFlush(w, b, "select")
                       ELSE UNCHANGED <<pc, after>>
  /\ UNCHANGED <<shutdown, clientVars, tick, flushVars>>

\* The worker exits without its last flush.
ReceiveClosedNoFlushMutant(w) ==
  /\ pc[w] = "select"
  /\ shutdown # "running"
  /\ events = << >>
  /\ pc' = [pc EXCEPT ![w] = "exited"]
  /\ UNCHANGED <<events, shutdown, clientVars, after, batch, tick, flushVars>>

\* A break in the place of the return leaves the select, not the loop.
ReceiveClosedLoopsMutant(w) ==
  /\ pc[w] = "select"
  /\ shutdown # "running"
  /\ events = << >>
  /\ CallFlush(w, batch[w], "select")
  /\ UNCHANGED <<events, shutdown, clientVars, batch, tick, flushVars>>

\* The receive reports a closed channel only once the buffer is empty.
ReceiveClosed(w) ==
  /\ pc[w] = "select"
  /\ shutdown # "running"
  /\ events = << >>
  /\ CallFlush(w, batch[w], "exited")
  /\ UNCHANGED <<events, shutdown, clientVars, batch, tick, flushVars>>

\* The ticker case forgets to flush.
ReceiveTickMutant(w) ==
  /\ pc[w] = "select"
  /\ tick[w]
  /\ tick' = [tick EXCEPT ![w] = FALSE]
  /\ UNCHANGED <<events, shutdown, clientVars, pc, after, batch, flushVars>>

ReceiveTick(w) ==
  /\ pc[w] = "select"
  /\ tick[w]
  /\ tick' = [tick EXCEPT ![w] = FALSE]
  /\ CallFlush(w, batch[w], "select")
  /\ UNCHANGED <<events, shutdown, clientVars, batch, flushVars>>

InsertSucceeds(w) ==
  /\ pc[w] = "insert"
  /\ inserts' = Append(inserts, [by |-> w, batch |-> batch[w], ok |-> TRUE])
  /\ pc' = [pc EXCEPT ![w] = "publish"]
  /\ UNCHANGED <<events, shutdown, clientVars, after, batch, tick, published>>

\* The failed batch is published as well.
InsertFailsPublishesMutant(w) ==
  /\ pc[w] = "insert"
  /\ inserts' = Append(inserts, [by |-> w, batch |-> batch[w], ok |-> FALSE])
  /\ pc' = [pc EXCEPT ![w] = "publish"]
  /\ UNCHANGED <<events, shutdown, clientVars, after, batch, tick, published>>

\* The failed batch is put back at the end of the channel.
InsertFailsRequeuesMutant(w) ==
  /\ pc[w] = "insert"
  /\ events' = events \o batch[w]
  /\ ReturnFromFlush(w)
  /\ UNCHANGED <<shutdown, clientVars, flushVars>>

\* The error is logged and the batch is given up: there is no retry.
InsertFails(w) ==
  /\ pc[w] = "insert"
  /\ inserts' = Append(inserts, [by |-> w, batch |-> batch[w], ok |-> FALSE])
  /\ ReturnFromFlush(w)
  /\ UNCHANGED <<events, shutdown, clientVars, published>>

Publish(w) ==
  /\ pc[w] = "publish"
  /\ published' = Append(published, batch[w])
  /\ ReturnFromFlush(w)
  /\ UNCHANGED <<events, shutdown, clientVars, inserts>>

WorkerStep(w) ==
  \/ Receive(w)
  \/ ReceiveClosed(w)
  \/ ReceiveTick(w)
  \/ InsertSucceeds(w)
  \/ InsertFails(w)
  \/ Publish(w)

\* cfg.FlushEvery elapses. A tick that finds one waiting is dropped.
TickerFires(w) ==
  /\ pc[w] \notin {"unborn", "exited"}
  /\ ~tick[w]
  /\ tick' = [tick EXCEPT ![w] = TRUE]
  /\ UNCHANGED <<events, shutdown, clientVars, pc, after, batch, flushVars>>

-----------------------------------------------------------------------------
(* Shutdown closes the channel, then waits for p.wg.                       *)

CloseEvents ==
  /\ Started
  /\ shutdown = "running"
  /\ shutdown' = "draining"
  /\ UNCHANGED <<events, clientVars, workerVars, flushVars>>

WaitReturns ==
  /\ shutdown = "draining"
  /\ AllExited
  /\ shutdown' = "returned"
  /\ UNCHANGED <<events, clientVars, workerVars, flushVars>>

Next ==
  \/ Start
  \/ \E e \in Event : Submit(e)
  \/ \E w \in Worker : WorkerStep(w) \/ TickerFires(w)
  \/ CloseEvents
  \/ WaitReturns

\* The Go scheduler runs every runnable goroutine, InsertBatch returns (its
\* context expires after 5 seconds), and tickers fire. A select takes one of its
\* ready cases at random, so that a case that is ready again and again is taken:
\* weak fairness of the loop would let an idle worker serve its ticker forever
\* while events wait. Nobody has to submit an event or to shut the pool down.
Fairness ==
  /\ \A w \in Worker :
       /\ SF_vars(Receive(w)) /\ SF_vars(ReceiveClosed(w)) /\ SF_vars(ReceiveTick(w))
       /\ WF_vars(InsertSucceeds(w) \/ InsertFails(w))
       /\ WF_vars(Publish(w))
       /\ WF_vars(TickerFires(w))
  /\ WF_vars(WaitReturns)

Spec == Init /\ [][Next]_vars /\ Fairness

-----------------------------------------------------------------------------
(* Properties.                                                             *)

\* Types, and the two capacities: the channel never holds more than
\* BufferSize events and a batch never more than BatchSize, so append never
\* outgrows the slice allocated by runWorker.
TypeOK ==
  /\ events \in Seq(Event) /\ Len(events) <= BufferSize
  /\ shutdown \in {"running", "draining", "returned"}
  /\ outcome \in [Event -> {"unsent", "accepted", "rejected", "panicked"}]
  /\ ticket \in [Event -> Nat]
  /\ admitted \in Nat
  /\ pc \in [Worker -> {"unborn", "select", "insert", "publish", "exited"}]
  /\ after \in [Worker -> {"select", "exited"}]
  /\ batch \in [Worker -> Seq(Event)]
  /\ \A w \in Worker : Len(batch[w]) <= BatchSize
  /\ tick \in [Worker -> BOOLEAN]
  /\ inserts \in Seq([by : Worker, batch : Seq(Event), ok : BOOLEAN])
  /\ published \in Seq(Seq(Event))

Queued(e) == e \in Elems(events)
\* While a worker publishes, its batch has already left its responsibility.
InHand(w, e) == pc[w] # "publish" /\ e \in Elems(batch[w])
InsertedBy(n, e) == e \in Elems(inserts[n].batch)
Settled(e) == \E n \in DOMAIN inserts : InsertedBy(n, e)

\* An accepted event (202) is in exactly one place: waiting in the channel, in
\* the batch of one worker, or in one finished InsertBatch call. No event is
\* lost, duplicated or invented between them, however the handlers, the
\* workers and Shutdown interleave.
Conservation ==
  \A e \in Event :
    /\ Accepted(e) <=> \/ Queued(e)
                       \/ \E w \in Worker : InHand(w, e)
                       \/ Settled(e)
    /\ Queued(e) => ~Settled(e) /\ \A w \in Worker : ~InHand(w, e)
    /\ \A v, w \in Worker : InHand(v, e) => ~Settled(e) /\ (InHand(w, e) => v = w)
    /\ \A m, n \in DOMAIN inserts : InsertedBy(m, e) /\ InsertedBy(n, e) => m = n

\* With r the ranks: s is in order of rank; all of s ranks below all of t.
Increasing(r, s) == \A i, j \in DOMAIN s : i < j => r[s[i]] < r[s[j]]
Below(r, s, t) == \A e \in Elems(s), f \in Elems(t) : r[e] < r[f]

\* Events keep their order of acceptance in the channel, in every batch, and
\* from one flush of a worker to its next. (Two workers may well commit their
\* batches in the other order.)
WorkerOrder ==
  /\ Increasing(ticket, events)
  /\ \A w \in Worker : Increasing(ticket, batch[w]) /\ Below(ticket, batch[w], events)
  /\ \A n \in DOMAIN inserts : Increasing(ticket, inserts[n].batch)
  /\ \A m, n \in DOMAIN inserts :
       m < n /\ inserts[m].by = inserts[n].by
         => Below(ticket, inserts[m].batch, inserts[n].batch)

\* The broker gets committed batches only, each of them whole, and a committed
\* batch that it did not get is in the hands of the worker about to publish it.
PublishedCommitted ==
  /\ \A k \in DOMAIN published :
       \E n \in DOMAIN inserts : inserts[n].ok /\ inserts[n].batch = published[k]
  /\ \A n \in DOMAIN inserts : inserts[n].ok =>
       \/ \E k \in DOMAIN published : published[k] = inserts[n].batch
       \/ /\ pc[inserts[n].by] = "publish"
          /\ batch[inserts[n].by] = inserts[n].batch

\* When Shutdown returns (main then closes the database and exits), nothing is
\* left behind: every accepted event went through InsertBatch and every
\* committed batch was published.
DrainedOnReturn ==
  shutdown = "returned" =>
    /\ \A e \in Event : Accepted(e) => Settled(e)
    /\ \A n \in DOMAIN inserts : inserts[n].ok =>
         \E k \in DOMAIN published : published[k] = inserts[n].batch

\* Every accepted event reaches the store, without a shutdown and without
\* further traffic to fill its batch: the ticker flushes what is there.
EventuallySettled == \A e \in Event : Accepted(e) ~> Settled(e)

\* Once the channel is closed, p.wg.Wait returns: no worker waits for another.
ShutdownReturns == shutdown = "draining" ~> shutdown = "returned"

-----------------------------------------------------------------------------
(* The pool implements the abstract pipeline.                              *)

Status(e) ==
  IF \E n \in DOMAIN inserts : InsertedBy(n, e) /\ inserts[n].ok THEN "stored"
  ELSE IF Settled(e) THEN "lost"
  ELSE IF Accepted(e) THEN "accepted"
  ELSE "outside"

Pipeline == INSTANCE Ingestion WITH
  status <- [e \in Event |-> Status(e)],
  pending <- {Elems(batch[w]) : w \in {v \in Worker : pc[v] = "publish"}},
  delivered <- {Elems(published[k]) : k \in DOMAIN published},
  phase <- shutdown

\* The pool settles every accepted event once, commits and delivers whole
\* batches of at most BatchSize events, and stops empty (module Ingestion).
ImplementsPipeline == Pipeline!Spec

=============================================================================
