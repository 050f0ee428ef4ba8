# A TLA+ model of PulseEngine

PulseEngine is an analytics ingestion server in Go (`src/backend`) and a Next.js
dashboard (`src/frontend`). An HTTP client posts events; the server queues them
in memory, stores them in SQLite in batches and streams each stored batch to the
dashboards that are connected. This directory models that system in TLA+,
checks the model with TLC, and proves facts about it with TLAPS.

    tlc -workers 2 -config MCPool.cfg MCPool       # one of the runs below
    tlapm PoolProofs.tla                            # the proofs

## 1. The system

| Part | Source | State it keeps | Operations | Talks to |
|---|---|---|---|---|
| HTTP ingestion | `handler/ingestion.go` | none | `HandleEvents`: 405, 400, 503 or 202 | calls `Pool.Submit` |
| Worker pool | `worker/pool.go` | a buffered channel; in each worker a batch and a ticker | `Start`, `Submit`, `Shutdown`; the workers' receive and flush | calls `Strategy.InsertBatch`, `Broker.Publish` |
| Storage | `storage/sqlite.go` | the table; one connection; an open transaction | `NewSQLiteDatabase`, `InsertBatch`, `Close` | called by the workers |
| Broker | `broker/broker.go` | the map of subscriber channels, under an RWMutex | `Subscribe`, `Unsubscribe`, `SubscriberCount`, `Publish` | workers publish, stream handlers subscribe |
| Stream handler | `handler/stream.go` | one goroutine for each connection | `HandleStream` | receives from its channel, writes to the network |
| Process | `cmd/server/main.go`, `config/`, `middleware/`, `logging/` | where startup or shutdown is | `run` | starts and stops all of the above |
| Stream hook | `hooks/useEventStream.ts` | one EventSource, one timer, a bounded buffer | the effect, its cleanup, `onopen`, messages, `onerror`, the timer | the stream endpoint, React |
| Metrics hook | `hooks/useEventMetrics.ts` | arrival times, seen and fresh row ids, a timer | a 500 ms tick, an effect on new events, the most common type | reads the refs of the stream hook |
| Page | `components/dashboard/Dashboard.tsx`, header, badge, cards | what was rendered last | rendering | the hooks' results |
| Volume chart | `components/dashboard/VolumeChart.tsx` | the hovered bucket | scale, axis, `onMove`, `onMouseLeave` | the buckets of the metrics hook |
| Event feed | `EventFeed.tsx`, `EventRow.tsx`, `ui/JsonTree.tsx` | which rows and nodes are open | inspect, hide, open, close | the buffer of the stream hook |

What is hard in it, and what makes each part correct:

* **Pool.** Handlers, workers, tickers and `Shutdown` interleave over one channel.
  An accepted event must be in exactly one place, must be stored in its worker's
  order, must not wait for traffic that never comes, and must not be left behind
  by a shutdown. A flush is two calls, and one may fail.
* **Storage.** All workers wait for one connection under a timeout that may
  expire between any two statements, and `database/sql` then rolls the
  transaction back on its own. A batch must be stored as a whole or not at all,
  the reply must be true, and the connection must come back.
* **Broker.** Clients come and go in the middle of a `Publish`. No send may meet a
  closed channel, no slow client may hold up a worker, and each subscriber must be
  offered each batch once.
* **Stream handler.** Connections stall, break and are cancelled. A handler must
  leave no channel behind, and a batch must not have a hole.
* **Process.** A signal meets requests that are still being read, events that are
  queued, streams that never end. Listener, handlers, workers and database have
  to stop in this order, and the process has to end.
* **Stream hook.** Option changes, unmounts, failures and timers come in any order
  over refs that all runs of the effect share. There must be one connection at
  most, and a retry pending whenever there is none.
* **Whole server.** A batch is one array that the worker fills again while the
  streams still read what was published from it; a crash takes everything that
  was only in memory. A page must be shown stored events only, and none twice.
* **Metrics.** Each tick prunes the history that later ticks count, and browsers
  delay ticks. The windows must be exact all the same, and each event in one
  bucket only.
* **Page.** React renders later than state changes, and effects run later still.
  Error text and badge must not contradict each other, a row must be highlighted
  once and not for ever, and an open payload must stay with its event while rows
  move. In the chart two mappings from pixels to buckets, the browser's and the
  code's, must agree.

`PROJECT.json` lists the hazards line by line, with the properties that cover
them.

## 2. The modules

| Module | Models | Checked by | Proved in |
|---|---|---|---|
| `Pool` | `worker/pool.go`, and what `HandleEvents` does with it | `MCPool`: `pool` | `PoolProofs` |
| `Ingestion` | abstract: what the pipeline promises | implemented by `Pool` (`ImplementsPipeline`) | `PoolProofs` |
| `SQLite` | `storage/sqlite.go` over `database/sql` | `MCSQLite`: `sqlite` | `SQLiteProofs` |
| `AtomicStore` | abstract: what the pool expects of `InsertBatch` | implemented by `SQLite` (`ImplementsStore`) | `SQLiteProofs` |
| `Broker` | `broker/broker.go` and its RWMutex | `MCBroker`: `broker` | `BrokerProofs` |
| `Stream` | `handler/stream.go`, composed with `Broker` | `MCStream`: `stream` | `StreamProofs` |
| `Server` | `cmd/server/main.go` and `handler/ingestion.go`, over `Ingestion` | `MCServer`: `server` | `ServerProofs` |
| `Pipeline` | all of the server from `Submit` to the page, over shared memory, with crash and restart | `MCPipeline`: `pipeline` | `PipelineProofs` |
| `EventStream` | `hooks/useEventStream.ts` | `event_stream_error`, and within `Dashboard` | `DashboardProofs` |
| `Dashboard` | the page over `EventStream`: renders, and the highlight of `hooks/useEventMetrics.ts` | `dashboard_page` | `DashboardProofs` |
| `Metrics` | the tick of `hooks/useEventMetrics.ts` | `metrics_tick` | `PageProofs` |
| `Feed` | the feed with its payload trees, and the most common type | `MCFeed`: `feed` | `PageProofs` |
| `Chart` | `VolumeChart.tsx` | `MCChart`: `chart`, `chart_wide` | `PageProofs` |

A definition whose name ends in `Mutant` stands before the definition it spoils,
and is not part of the model: it is a mistake somebody could have made there, and
shows that a property would notice.

### Pool

`events` is the channel, `pc[w]` the place of worker `w` (`unborn`, `select`,
`insert`, `publish`, `exited`), `batch[w]` its slice, `tick[w]` the one-place
channel of its ticker, `after[w]` where the flush returns to (the loop, or the
exit). `Submit` is `Accept`, `Reject` (the channel is full: 503) or
`SubmitClosed` (a panic). `Receive`, `ReceiveClosed` and `ReceiveTick` are the
three cases of the select together with the first test of `flush`;
`InsertSucceeds`, `InsertFails` and `Publish` are its two calls, and the emptying
of the batch belongs to the step after which `flush` returns. `Shutdown` is
`CloseEvents` and `WaitReturns`. `ticket`, `inserts` and `published` record what
happened; no guard of a worker reads them.

`TypeOK` is proved, so that no run checks it (the same in `Broker`, `Server` and
`Metrics`, and for `OpenIsMounted` of `Feed`).

`Event` is the set of submissions. A client that repeats an `event_id` makes a
second submission, which is stored as a second row: the column is not unique.

What is checked: every accepted event is in exactly one place (`Conservation`);
each worker keeps the order of acceptance (`WorkerOrder`; two workers may commit
in the other order); the broker gets exactly the committed batches
(`PublishedCommitted`); nothing is left when `Shutdown` returns
(`DrainedOnReturn`); accepted events are stored or given up without further
traffic (`EventuallySettled`); `Shutdown` returns (`ShutdownReturns`); and the
pool implements `Ingestion`, in which a batch is settled at one instant.

### SQLite

`conn` is the holder of the only connection, `tx` the rows of the open
transaction, `pc[w]` and `left[w]` where `w` is in `InsertBatch`, `ctxDone` the
workers whose context is done. `AutoRollback` is the goroutine that
`database/sql` starts for each transaction: once the context is done it rolls
back and releases the connection, at any moment between two statements. Commit
and this rollback exclude each other, because both first claim the transaction
(`Tx.done`). `ReturnNil` is apart from `Commit`, so that the process can crash,
or the context expire, when the rows are stored and the call has not returned.
An I/O error in the COMMIT is taken to store nothing.

What is checked: the table is a sequence of whole batches (`AllOrNothing`); the only
connection, once taken, belongs to a call that is still to commit or roll back, so that no path out of
`InsertBatch` keeps it from the others (`ConnectionGivenBack`; calls that wait for it
would time out and return all the same); every call returns (`CallReturns`); and across
crashes the module implements `AtomicStore` (`ImplementsStore`), in which a call
stores its batch and says so, or stores nothing and says that. This is what `Pool` rests on when it takes
`InsertBatch` as one step.

### Broker and Stream

`Broker` models the RWMutex: a writer announces itself (`Lock`), which holds new
readers back, and runs when the readers inside are gone. What a writer does inside
is one step, for nobody can look; what a publisher does inside (`Send`, `Drop`) is
one step for each subscriber, because other publishers and the receiving clients
run between. A channel is that of its client, and a batch is named by its
publisher and the number of the call. `Broker` leaves its callers free: they
may unsubscribe twice or count at any time.

`Stream` adds the handler as the caller. `pos[c]` is its place, `left[c]` the part
of the batch that is still to be written, `wire[c]` what was written. The network
can stall (the write blocks: there is no write timeout), recover or break. A
context can be cancelled at any time: besides a broken connection, the server's
`ReadTimeout` cancels it too. The receive never finds the channel closed, because
only the handler closes it, on its way out (`NoLeak`), so that case of the select
is not in the model.

What is checked: no panic, neither by a send on a closed channel nor by a second
close (`NoPanic`); each client gets the batches of each publisher in order and
once (`PublisherOrder`, checked in the run `stream`, where two publishers interleave,
and proved for `Broker` and for `Stream`; two clients
may see two publishers in different orders);
when `Publish` returns each subscriber has the batch or has missed it, and nobody
else has, and a batch is missed only at a channel that is full (`FanOut`); every call returns though nobody receives (`CallsReturn`:
"publishers never stall", `broker.go:11`); handlers leave nothing behind (`NoLeak`) and leave when their connection breaks
(`BrokenConnectionLeaves`); what is on the wire is whole batches in order, the
last perhaps cut (`WireComplete`); a client that drains its connection is served
(`DrainedConnectionServed`).

### Server

`main` is the place of `run`, `cause` what ended it, `at[r]` and `left[r]` the
place of a request and the ticks left to its deadline, `reply[r]` what its client
was told. The pool is `Ingestion`, instantiated as `Pipe`: `SubmitAccepted` is its
`Accept`, `ServerShutdownReturns` its `Close` (the first thing `pool.Shutdown`
does), `PoolShutdownReturns` its `Finish`, and the workers are its `Commit`,
`Lose` and `Deliver`. `Ingestion` has no buffer, so `SubmitFails` (503) may happen
whenever the pool is open.

A tick is 5 seconds, the `ReadTimeout`; `server.Shutdown` waits for three. A
request has from its arrival to its deadline to be read (`reading`); its handler
may then be kept waiting by the scheduler for up to `Delay` ticks before it is in
`Submit` (`decoded`). Whatever is due happens before the next tick. From
`net/http`: a request that is not read in time ends without headers, or as a
failed `Decode`; `Shutdown` first closes listeners and idle connections and then
waits for the active ones, streams included; a panic in a handler is recovered.
The paths and methods of `mux` and the middleware are outside: `OpenStream` is any
request for the stream, and a preflight is like a request that is refused.

What is checked: no handler is before its `Submit` when the pool closes its
channel, though `Shutdown` may have given up on it (`NoSubmitOnClosed`); after a
signal the database is closed over an empty pipeline (`DrainedBeforeClose`); the
status code says what became of the event (`AnswerTrue`); the process ends after a
signal, stalled streams or not (`ShutdownEnds`). When listening fails, `run` returns
past both shutdowns (`ListenFails`), and what is queued is lost: the model has
it, no property denies it, and nothing in the repository promises otherwise.

### EventStream

One action is one callback, since JavaScript runs each to its end. `source`,
`timer` and `disposed` are the refs, `factor` is `2 ** attemptRef`, the only use that
the code makes of the count of attempts; `ready[s]` is the state of each
EventSource in the browser, those no ref points to included. `OptionsChange` is a
cleanup followed by a run of the effect (also what StrictMode does after a mount).
From the HTML standard: a closed source and a cleared timer are silent. The
server sends one event in a message, so `PayloadSizes` is {0, 1}; the hook also
takes arrays, which would have to be newest first for the buffer to be.

What is checked: at most one connection, that of a running component
(`OneConnection`); either a source or a timer while running, neither otherwise
(`SourceOrTimer`); the status shown is the state of the connection
(`StatusTrue`); the buffer holds the newest events without a gap
(`BufferIsNewest`); delays double up to the maximum and start over when a
connection opens (`Backoff`). All of this is checked in the run `dashboard_page`,
where React renders and other effects come between the callbacks.

A finding (`event_stream_error`): when the hook is paused after a failure, the
text "SSE connection lost ... Reconnecting with exponential backoff..." stays,
though nothing reconnects (`useEventStream.ts:171-176`). The dashboard never
pauses the hook; a user of the option would see it.

### Pipeline

The parts above, coarser and together: an `InsertBatch` or a `Publish` is one
step. What is new is the memory. A slice is an array and a length; `memory[w]` is
the array that worker `w` fills again and again (`batch = batch[:0]` keeps it), and
`Publish` copies the batch into a free array, which lives until no channel and no
handler refers to it. (The guard `Free # {}` is the allocator's; `MCPipeline` has
so many arrays that it never binds.) `WriteEvent` reads the memory as it is when the stream gets
to it. `Crash` empties all memory and leaves the table, `Restart` starts the
process anew, and pages connect again.

What is checked: what a page has received is in the table, and nothing came twice
(`StreamedTrue`; without the copy, both fail). Nothing that was accepted is lost but in
a crash, and each crash loses at most what channel and batches can hold, so that what
was stored is there after the restart (`BoundedLoss`). An event answered 202 may be lost in a
crash: the code queues it in memory only. A page also misses what is published
between its headers and its `Subscribe`; the code promises no more.

### Dashboard

The page over `EventStream`. `page` is what the last render has shown, `newArray`
that the events array was replaced since, `due` that the effect on it is still to
run; `seen`, `fresh` and `timeout` are `seenUids`, `freshIds` and the timer that
ends a highlight. `Render` shows all that was set by then; the next render
waits for the effect of the last, as React's do. `lit` is a history variable: the
events that a render of this page has shown highlighted; no action reads it. `Effect` is the cleanup of its
last run (the timer is cleared) and the run. The server's `PayloadSizes` stand;
the page passes constant options, and a page that pauses the hook is covered too.

What is checked, besides the properties of `EventStream`: what header and badge
show never contradict each other (`ErrorTextTrue`); a row is highlighted for one
stretch of renders and not for ever (`HighlightEnds`). `HighlightedOnce` is about what renders have shown, and
not about `seenUids`: once a highlighted row has been rendered without its highlight,
no later message, cut of the buffer or late effect brings it back.

### Metrics

`stamp[n]` is when event `n` arrived, `arrivals` what the ref still holds, `at` and
`ticked` the time and the number of events at the last tick. `ComputeTick` prunes
by the longer window, counts the velocity window and fills the buckets. A tick
comes at any time, for browsers delay and throttle intervals. The conversion of
the velocity to events per second is a format, and left out.

What is checked and proved: the velocity (`VelocityExact`) and each bucket
(`BucketsExact`) are what they would be if nothing had been pruned. Buckets are half
open, so that an event of the very instant of the tick waits for the next; that is
in the formula.

### Feed

`rows[k]` is the state React keeps for the row with key `k`, as long as the key is
rendered. `open` are the nodes of the payload that are unfolded; closing a node
unmounts what is below and forgets it. A key is the event's uid without the time
in it, which only helps to keep keys apart.

What is checked and proved: a payload is on display exactly for the events that the user has
opened (`InspectionFollowsEvent`); the most common type is that, with the tie going to the type that
came last (`MostCommonTrue`). Only proved: no closed node leaves something open below
(`OpenIsMounted`).

### Chart

`NiceMax`, `TickValue` and `YTicks` are the scale and the axis, `IndexAt` is `onMove`;
ticks replace the buckets under a pointer that rests. `ScreenLeft` is where the
browser draws the hit targets: an `svg` with a `viewBox` and without
`preserveAspectRatio` is scaled to fit and centred (from the SVG standard). The
padding inside the element's box and the rounding of floating point are left out.
`MaxCount` bounds the counts, so that the powers of ten up to 10^8 are enough.

What is checked and proved: the scale is the least step that holds every count (`ScaleFits`);
on every scale the labels grow from zero to the scale, none stands twice, and none
is off its height by more than half a count (`LabelsNear`); the tooltip is the one of the bucket under the pointer
(`TooltipAtPointer`), as long as the element is not wider than its drawing.

A finding (`chart_wide`): in a wider element, which the page has on most screens,
the drawing is centred between margins that `onMove` does not know
(`VolumeChart.tsx:89-94`), and the "invisible hit targets per bucket" (line 189)
are not where buckets are selected.

Seen while modelling, and not runs, since nothing in the repository says
otherwise: of ticks with one rounded value the lowest is kept
(`VolumeChart.tsx:62-68`), and half a count is much on a small scale. On a scale of 1
the label 1 stands at half the height, and on a scale of 2 the labels 1 and 2 at a
quarter and three quarters, while the buckets with these counts are drawn at their
true heights; `LabelsNear` allows for that.
`RawMax` is at least 1, so that the chip "Peak" says 1 when there were no events
(`VolumeChart.tsx:42`, `265`).

## 3. The runs and their bounds

| Run | Bounds | Why they are enough |
|---|---|---|
| `pool` | 2 events, 2 workers, channel 1, batch 2 | both workers hold events at once, the channel is full, a batch fills up or is cut by a tick or the close; one event alone never fills a batch. Larger pools are covered by the proofs, which hold for all sizes |
| `broker` | 2 publishers with a call each, 2 clients, channels of 1 | two walks overlap, the second meets a channel that is full while the other is not, clients come and go in the middle; two writers and two readers contend |
| `stream` | 2 publishers with 2 calls each, 1 client, batches of 2, channel 2 | two walks overlap, the channel holds a batch of each publisher or two of one, a write fails in the middle of a batch while others wait, a batch is dropped, and the handler subscribes and leaves in the middle of the walks |
| `sqlite` | 2 workers with 2 calls each, batches of 2, a crash | a transaction is cut in its middle while another call waits; calls come after the failure and after the restart |
| `server` | 3 requests, deadline 1, delay 1, grace 3, batches of 2 | one request is read, one is late and one streams when the signal comes; the shutdown gives up |
| `pipeline` | 4 events, 1 worker, 2 pages, batches of 2, channels of 1, a crash, 5 arrays | the array is filled again while a page reads the last batch, has one waiting, and has missed one; a crash may lose three events, so that the loss of what was stored before it shows. Five arrays are one more than two pages can hold |
| `metrics_tick` | windows of 3 and 6, buckets of 2, 10 instants, 4 events | the windows differ in both boundaries, a bucket has an inside, events leave the longer window before time ends |
| `dashboard_page` | 3 sources, delays 1 to 5, buffer 2, 4 events | an orphan could live beside the current source; the backoff saturates; highlighted rows fall out of the buffer before the timer fires |
| `feed` | 2 ids, 2 types, buffer 3, 4 events, an object in an object | ids repeat in the buffer, types tie, a row falls out while it is open, a node is closed two levels above an open one |
| `chart` | 3 buckets, counts on both sides of the steps 1, 2, 5, 10, 100 and in between, an element of 300 by 192 | the pointer stands at both sides of each edge, inside the padding, and at the ends |
| `chart_wide` | 30 buckets, 480 by 192, every pixel | the size of a common screen |
| `event_stream_error` | 3 sources, buffer 3, 5 events | mount, failure, pause |

Deadlock is not checked where the system may stop: a pool that was shut down, a
connection that has gone, workers that have made their calls, a feed whose last
event has come (`MaxCalls`, `MaxPublish`, `MaxCrashes`, `MaxTotal`,
`MaxReceived`, `MaxTime` and `MaxFactor` are bounds of the model). The bounds are in guards, never in a
constraint, so that the liveness properties see whole behaviours. Only `pipeline`,
which has safety properties only, uses symmetry.

Fairness, and why the code justifies it:

* A goroutine that can go on does: weak fairness of inserts, publishes, unlocks,
  sends and returns. `InsertBatch` always returns, because its context expires
  (`CallReturns`).
* A select picks at random among its ready cases, so a case that is ready again
  and again is taken: strong fairness of each case. With weak fairness only, an
  idle worker could serve its ticker for ever while an event waits.
* `sync.RWMutex` and `sync.Mutex` starve nobody: `Unlock` admits the waiting
  readers before the next writer, and a waiting writer is handed the lock. That is
  strong fairness of `RLock` and `Lock`.
* Tickers, contexts and timers fire, and time goes on.
* React renders after a change of state and runs the effects of a render: weak
  fairness of `Render` and `Effect`, and of the timeout that ends a highlight.
* Nothing is assumed of the outside: nobody has to submit, subscribe, receive,
  drain, connect, unmount or shut down. `Write` is strongly fair only for a
  connection that is up again and again. In `Pipeline`, `Metrics`, `Feed` and
  `Chart` nothing is assumed at all.

## 4. What is proved

`PoolProofs` proves, for every set of events, every nonempty set of workers and
all positive sizes, that `Spec` implies `[]TypeOK`, `[]Conservation`,
`[]WorkerOrder`, `[]PublishedCommitted` and `[]DrainedOnReturn`. The assumption is
`PoolAssumption`; `NewPool` establishes it by its defaults, and `DrainedOnReturn`
needs the workers: a pool without any would return with its channel full.

The argument has two inductive invariants.

* `TypeFlow` is `TypeOK` with `Flow`, which says what the place of a worker means:
  a worker in the select holds fewer than `BatchSize` events (without it the bound
  on a batch is not inductive), one in a flush holds some, one that is out holds
  none, and a worker is on its way out only if the channel is closed and empty.
* `IInv` adds what the safety properties need of each other. `Tickets`: ranks are
  given in order and to accepted events only. `FlushedFirst`: what a worker has
  flushed ranks below what it holds and below what waits; this is how
  `WorkerOrder` survives the next flush. `OneHolder` and `Handover`: a batch that
  is being published is that of the last insert and belongs to one worker, so
  that `Conservation`, which no longer counts it as held, still excludes that one
  of its events turns up elsewhere. `AcceptStep`, `ReceiveStep`, `InsertStep`
  and `PublishStep` are the steps that move events; all other steps are `Quiet`.

`BrokerProofs` proves, for every set of publishers and clients, every capacity and
any number of calls, that `Spec` implies `[]TypeOK`, `[]NoPanic`,
`[]PublisherOrder` and `FanOut`, from `BrokerAssumption`. `Walks` is why nothing
panics: a publisher with subscribers still to visit holds the read lock, so a
writer that runs finds no walk in progress, and what a walk visits is in the map and
open. `Rounds` is why the order holds: a publisher that has still to offer its batch
to a client is ahead of everything of its own in that client's feed. `Offers` is why
the fan-out is complete: during a walk the subscribers that were visited have got
the batch or missed it, and all other clients neither; what is added to the missed is a
step of `Drop`, whose guard is the full channel. A receive does not change the
feed (`TakeKeepsFeed`), a send appends to it (`SendExtendsFeed`), and every other
step leaves all feeds alone (`QuietStep`, `NothingOffered`).

`StreamProofs` proves, for any length of a batch and the constants of `Broker`, that
`Spec` of `Stream` implies `[]PublisherOrder`, `[]NoLeak` and `[]WireComplete`, from
`StreamAssumption`. Every step of a handler is a step of the broker or leaves it
alone, so that the invariant of `BrokerProofs` holds here too (`BusKeeps`). `Place`
says for each point of the handler which call it is in and whether its channel is in
the map; the deferred calls can go wrong only where `Place` has a choice. `Follows`
relates what was received to what was written and what is left, by quotient and
remainder: `TakeFollows` and `WriteFollows` are the two steps that touch it, and
`BatchOf` and `Quotient` the arithmetic.

`ServerProofs` proves, for every set of requests, that `Spec` implies `[]TypeOK`,
`[]NoSubmitOnClosed`, `[]DrainedBeforeClose` and `[]AnswerTrue`. It rests on
`TimeoutsAssumption`: the read deadline and the delay of a handler are together
shorter than the grace of the shutdown. In the code that is 5 s against 15 s, which
leaves a handler 10 s between the last byte of its body and `Submit`. The inductive
invariant `IInv` says that while the server shuts down each request that is still
to reach `Submit` has its deadline before that of the shutdown (`Deadlines`), that
`main` and the pool are in step (`Stages`), and that the place of a request tells
whether its event is in the pipeline (`Places`).

`PoolProofs` also proves that `Spec` implies `ImplementsPipeline`: the pool implements `Ingestion`, on which `Server` is built.
The mapping is that of `Pool`: an event's status is read from the history of
inserts, and a batch is pending from its insert to its `Publish`. `IInv` gives what
a step needs: a worker in `insert` holds a batch of accepted events that nobody
has settled and nobody else holds (`InHandIsAccepted`), so its insert is one
`Commit` or `Lose` (`InsertSettles`); at the return of `Shutdown` nothing is
unsettled or pending. Steps that only move events between channel and batches
map to stutters.

`PageProofs` is about what the page shows. It proves, for all windows and all bucket widths that divide the
chart's window, that `Spec` implies `[]TypeOK`, `[]VelocityExact` and
`[]BucketsExact`, from `MetricsAssumption`. A tick counts what is left of the
history; the inductive invariant says why nothing is missing. `Held`: what was
pruned is older than both windows, and time only goes on. `Stamped`: no event is
from the future, and what came after the last tick is not older than it, so that it
is in none of its windows. `BucketOfAge` turns the two comparisons of the code
into the quotient of `BucketsExact`, through the lemmas on `\div`.

For `Feed` it proves, for every size of the buffer, any ids, any number of events and
payloads of any shape (`FeedAssumption`), that `FeedSpec` implies
`[]InspectionFollowsEvent`, `[]OpenIsMounted` and `[]MostCommonTrue`. In the
inductive invariant `Buffered` says that no two events in the buffer have one
number, so that no two rows have one key whatever ids senders choose, and
`Rendered` that there are rows for the buffer's events only and that nothing of an
event still to come is inspected: the row of a new event is a new row
(`ArrivesStep`). `PrefixOfPrefix` is why closing a node closes what is below and
leaves the ancestors of all else open (`NodeToggled`). The scan of `mostCommon`
is a recursive function over the buffer. That it has a value for every buffer
(`ScanExists`) and what it has found after `i` events (`Winner`, `ScanFinds`) are
inductions. The library's induction theorems cannot be applied to such formulas,
and `LeastOf` and `UpTo` stand for them: that the naturals are well-founded
(`WFMin`) gives every set of numbers a least member, hence induction over a set.

For `Chart` it proves, for any number of buckets and all counts up to `MaxCount`
(`ChartAssumption`), that `ChartSpec` implies `[]ScaleFits` and `[]LabelsNear`, and
`[]TooltipAtPointer` if the element is no wider than its drawing; in wider ones it
does not hold, as `chart_wide` shows. `HitIsSelected` is the arithmetic: without
margins the edges of a hit target are those between which the quotient of
`onMove` is the bucket's index. `NiceMaxIsLeast` compares a step with the power of
ten below the count, the one above and its own. `TicksRise` is the rounding, for every
scale: the ticks begin with zero, end with the scale, never fall, and are half a
count off at most. `NumberKept` is the deduplication: for each number the lowest
tick that has it stays, so that none is lost.

`SQLiteProofs` proves, for every set of workers, every length of a batch and any
number of calls and crashes, that `Spec` implies `[]AllOrNothing`,
`[]ConnectionGivenBack` and `ImplementsStore`, from `SQLiteAssumption`. The inductive invariant has four parts.
`OpenTx`: whoever holds the connection has inserted exactly the first rows of its
batch, and without a holder nothing is open; this is where a rollback between two
statements would do harm. `Blocks`: the table is divided into blocks of
`BatchLen` rows, and two rows are of one batch exactly if they are in one block.
`Calls`: a call that has not committed has nothing in the table, one that has
committed has, and neither holds of a call still to come, so that no retry or late
failure can store a batch twice or deny one that is stored. `CommitStep` appends one
block; every other step leaves the table alone (`TableKept`). `StepIInv` also sums
up what a step does to the table and the replies, in the words of `AtomicStore`: a
commit is its `Store`, a return its `Ack` or `Fail`, all else a stutter.

`DashboardProofs` proves, for every set of sources, all delays and every size of
the buffer, that `Spec` of `EventStream` implies `[]OneConnection`,
`[]SourceOrTimer`, `[]StatusTrue`, `[]BufferIsNewest` and `Backoff`, from
`EventStreamAssumption` (a message holds at most one event; with more, they would
have to come newest first). `SourceOrTimer` is what makes `OneConnection` inductive: a
hook that is paused or gone has no timer, so that `connect` is called for a
running one only. `CloseClosesAll` says that closing the source of the ref closes
every source, so that `connect` leaves exactly one. `Retries` ties `factor` to the
last delay; `Doubles` is the arithmetic of the two minima, and shows that the
bound `MaxFactor` changes no delay. `StepOfHook` carries all of this over to
`DashboardSpec` (`PageKeepsHook`): the page makes no step of the hook that the hook
would not make. `NoFalseError` gives `[]ErrorTextTrue`, because what was rendered was
the state at some moment.
`HighlightedOnce` needs more, `ShownOnce`: whatever was shown highlighted has been
seen, so that no later run of the effect makes it fresh, and as long as it is fresh
and in the buffer the page shows it highlighted. The second half has one way to
fail, an event that leaves the buffer and returns, and `MessageAdds` excludes it:
the buffer holds the newest numbers (`BufferIsNewest`), so that a message adds
only numbers above the total.

`PipelineProofs` proves, for any numbers of events, pages, arrays and crashes, any
sizes and finitely many workers (`PipelineAssumption`), that `Spec` implies
`[]StreamedTrue` and `[]BoundedLoss`. The inductive invariant follows an event on its
way. `Unpublished`: until it is published it is in one cell only, of the channel or
of a worker's array. `Flushes`: a batch is within its array and its bound, and
stored before it is published. `Streams`: what a page has got, the rest of the
slice that is being written and the slices that wait for it together hold no event
twice (`Distinct`), only stored ones, and none that is still unpublished. The lemmas
about `Distinct` and `SeenBy` speak of any memory and any slices: `TakeKeeps`,
`WriteKeeps`, `OfferKeeps` and `ResetKeeps` for what a handler does, and
`MemoryAgrees` for a worker that writes where no slice points; with `FreeArray` and
the separation of workers' arrays from published ones, that is why the copy in
`Publish` is enough. `Losses` is `BoundedLoss` over a finite set, and `MemoryBound` says what one crash
can take.

Only model-checked, and out of the prover's reach: the liveness properties
(fairness and ENABLED). Every other property of a passing run has a theorem.

## 5. What is not modelled, and the plan

Next, in this order:

1. `Config`: what the environment can make of the pool's settings, and that
   `NewPool` turns all of it into `PoolAssumption`.
2. What liveness rests on, as safety: that a step of the worker, of `Shutdown` or of
   a call is possible whenever one is due, with the `ENABLED` of the fairness
   conditions spelled out as a state formula.

### Not modelled

* Wording, number and date formats, colours and layout (`lib/format.ts`,
  `lib/eventStyles.ts`, `ui/MetricCard.tsx`, `ui/Panel.tsx`, `app/`, the text of a
  leaf in `JsonTree.tsx`): no state and no decision.
* `logging/` builds a logger, `middleware/` sets headers and logs one request at a
  time; neither keeps state. `storage/mock.go` is wired in nowhere.
* The decoding of JSON, beyond whether it yields an event, and the parsing of the
  environment.
* The tooltip's share in percent, and the rounding of floating point in the chart.

Assumptions about the surroundings, each where it is used: `Date.now()` never goes
back (`Metrics`); React renders, keys and runs effects as documented (`Dashboard`,
`Feed`); a browser scales an `svg` as the standard says (`Chart`); `database/sql`,
`net/http` and `sync` do what their documentation says.
