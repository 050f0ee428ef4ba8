------------------------------ MODULE Pipeline -------------------------------
(***************************************************************************)
(* The server from end to end: Submit, the workers, the table, the broker  *)
(* and the streams to the browsers, over memory that slices share, and     *)
(* with a process that may crash and start again. The parts are coarser    *)
(* than in Pool, SQLite, Broker and Stream: an InsertBatch or a Publish is *)
(* one step.                                                               *)
(*                                                                         *)
(* A slice is an array and a length. runWorker fills the same array again  *)
(* and again, while the streams read what was published at their own pace. *)
(***************************************************************************)
EXTENDS Integers, Sequences, FiniteSets, SequencesExt

CONSTANTS
  Event,        \* submissions
  Worker,       \* workers; each is also the name of its batch's array
  Client,       \* pages in a browser, which connect again after a failure
  Array,        \* other arrays: as many as can be in use at once
  BufferSize,   \* cfg.BufferSize
  BatchSize,    \* cfg.BatchSize
  ChannelSize,  \* capacity of a subscriber's channel
  MaxCrashes    \* bound: crashes of the process

ASSUME PipelineAssumption ==
  /\ Worker \cap Array = {}
  /\ BufferSize \in Nat \ {0} /\ BatchSize \in Nat \ {0} /\ ChannelSize \in Nat \ {0}
  /\ MaxCrashes \in Nat
  /\ IsFiniteSet(Worker)

VARIABLES
  up,           \* the process runs
  crashes,      \* crashes so far
  accepted,     \* the events that were answered 202
  queue,        \* p.events
  memory,       \* memory[a]: what was written into array a
  size,         \* size[w]: len(batch) of worker w
  pc,           \* pc[w]: "select", "insert" or "publish"
  table,        \* rows of the events table
  failed,       \* events of InsertBatch calls that returned an error
  place,        \* place[c]: "away", "open" (headers sent) or "subscribed"
  channel,      \* channel[c]: the slices that wait for c's handler
  writing,      \* writing[c]: the slice being written and the next index, or none
  got           \* got[c]: the events that page c has received

workers == <<queue, memory, size, pc>>
streams == <<place, channel, writing, got>>
vars == <<up, crashes, accepted, workers, table, failed, streams>>

Batch(w) == SubSeq(memory[w], 1, size[w])
NoSlice == << >>

\* The slices that a handler or a channel still refers to.
Slices ==
  (UNION {Range(channel[c]) : c \in Client}) \cup
  {writing[c][1] : c \in {d \in Client : writing[d] # NoSlice}}
Free == Array \ {s.array : s \in Slices}

Init ==
  /\ up = TRUE
  /\ crashes = 0
  /\ accepted = {}
  /\ queue = << >>
  /\ memory = [a \in Worker \cup Array |-> << >>]
  /\ size = [w \in Worker |-> 0]
  /\ pc = [w \in Worker |-> "select"]
  /\ table = {} /\ failed = {}
  /\ place = [c \in Client |-> "away"]
  /\ channel = [c \in Client |-> << >>]
  /\ writing = [c \in Client |-> NoSlice]
  /\ got = [c \in Client |-> << >>]

-----------------------------------------------------------------------------
(* Ingestion.                                                              *)

Submit(e) ==
  /\ up
  /\ e \notin accepted
  /\ Len(queue) < BufferSize
  /\ queue' = Append(queue, e)
  /\ accepted' = accepted \cup {e}
  /\ UNCHANGED <<up, crashes, memory, size, pc, table, failed, streams>>

\* append writes behind the batch, over what an earlier batch has left there.
Write(array, n, e) == SubSeq(array, 1, n) \o <<e>> \o SubSeq(array, n + 2, Len(array))

Receive(w) ==
  /\ up
  /\ pc[w] = "select"
  /\ queue # << >>
  /\ queue' = Tail(queue)
  /\ memory' = [memory EXCEPT ![w] = Write(memory[w], size[w], Head(queue))]
  /\ size' = [size EXCEPT ![w] = size[w] + 1]
  /\ pc' = [pc EXCEPT ![w] = IF size[w] + 1 >= BatchSize THEN "insert" ELSE "select"]
  /\ UNCHANGED <<up, crashes, accepted, table, failed, streams>>

\* The ticker, with something to flush.
ReceiveTick(w) ==
  /\ up
  /\ pc[w] = "select"
  /\ size[w] > 0
  /\ pc' = [pc EXCEPT ![w] = "insert"]
  /\ UNCHANGED <<up, crashes, accepted, queue, memory, size, table, failed, streams>>

InsertSucceeds(w) ==
  /\ up
  /\ pc[w] = "insert"
  /\ table' = table \cup Range(Batch(w))
  /\ pc' = [pc EXCEPT ![w] = "publish"]
  /\ UNCHANGED <<up, crashes, accepted, queue, memory, size, failed, streams>>

\* batch = batch[:0] keeps the array and what is in it.
ReturnFromFlush(w) ==
  /\ size' = [size EXCEPT ![w] = 0]
  /\ pc' = [pc EXCEPT ![w] = "select"]

InsertFails(w) ==
  /\ up
  /\ pc[w] = "insert"
  /\ failed' = failed \cup Range(Batch(w))
  /\ ReturnFromFlush(w)
  /\ UNCHANGED <<up, crashes, accepted, queue, memory, table, streams>>

\* Each subscriber whose channel has room gets the slice.
Offer(slice) ==
  channel' = [c \in Client |->
                IF place[c] = "subscribed" /\ Len(channel[c]) < ChannelSize
                THEN Append(channel[c], slice) ELSE channel[c]]

\* The batch itself is published, without the copy.
PublishMutant(w) ==
  /\ up
  /\ pc[w] = "publish"
  /\ Offer([array |-> w, size |-> size[w]])
  /\ ReturnFromFlush(w)
  /\ UNCHANGED <<up, crashes, accepted, queue, memory, table, failed, place, writing, got>>

\* The batch is copied into an array of its own, which is published. (There is
\* always a free array in the code; Array has to be large enough for the guard
\* never to bind.)
Publish(w) ==
  /\ up
  /\ pc[w] = "publish"
  /\ Free # {}
  /\ LET out == CHOOSE a \in Free : TRUE
     IN  /\ memory' = [memory EXCEPT ![out] = Batch(w)]
         /\ Offer([array |-> out, size |-> size[w]])
  /\ ReturnFromFlush(w)
  /\ UNCHANGED <<up, crashes, accepted, queue, table, failed, place, writing, got>>

-----------------------------------------------------------------------------
(* HandleStream, and the page at the other end.                            *)

StreamKeeps == UNCHANGED <<up, crashes, accepted, workers, table, failed>>

\* The headers are out, and the page says "Connected"; then the handler subscribes.
Connect(c) ==
  /\ up
  /\ place[c] = "away"
  /\ place' = [place EXCEPT ![c] = "open"]
  /\ UNCHANGED <<channel, writing, got>> /\ StreamKeeps

Subscribe(c) ==
  /\ up
  /\ place[c] = "open"
  /\ place' = [place EXCEPT ![c] = "subscribed"]
  /\ UNCHANGED <<channel, writing, got>> /\ StreamKeeps

Take(c) ==
  /\ writing[c] = NoSlice
  /\ channel[c] # << >>
  /\ channel' = [channel EXCEPT ![c] = Tail(channel[c])]
  /\ writing' = [writing EXCEPT ![c] = <<Head(channel[c]), 1>>]
  /\ UNCHANGED <<place, got>> /\ StreamKeeps

\* One event of the slice, as it is in memory now, reaches the page.
WriteEvent(c) ==
  /\ writing[c] # NoSlice
  /\ LET slice == writing[c][1]
         i == writing[c][2]
     IN  /\ got' = [got EXCEPT ![c] = Append(got[c], memory[slice.array][i])]
         /\ writing' = [writing EXCEPT ![c] =
                          IF i = slice.size THEN NoSlice ELSE <<slice, i + 1>>]
  /\ UNCHANGED <<place, channel>> /\ StreamKeeps

\* The connection fails: the handler unsubscribes. The page keeps what it has.
Disconnect(c) ==
  /\ place[c] # "away"
  /\ place' = [place EXCEPT ![c] = "away"]
  /\ channel' = [channel EXCEPT ![c] = << >>]
  /\ writing' = [writing EXCEPT ![c] = NoSlice]
  /\ UNCHANGED got /\ StreamKeeps

-----------------------------------------------------------------------------
(* The process dies, and all its memory with it; the table stays.          *)

Crash ==
  /\ up
  /\ crashes < MaxCrashes
  /\ up' = FALSE
  /\ crashes' = crashes + 1
  /\ queue' = << >>
  /\ memory' = [a \in Worker \cup Array |-> << >>]
  /\ size' = [w \in Worker |-> 0]
  /\ pc' = [w \in Worker |-> "select"]
  /\ place' = [c \in Client |-> "away"]
  /\ channel' = [c \in Client |-> << >>]
  /\ writing' = [c \in Client |-> NoSlice]
  /\ UNCHANGED <<accepted, table, failed, got>>

\* migrate starts from an empty table.
RestartMutant ==
  /\ ~up
  /\ up' = TRUE
  /\ table' = {}
  /\ UNCHANGED <<crashes, accepted, workers, failed, streams>>

Restart ==
  /\ ~up
  /\ up' = TRUE
  /\ UNCHANGED <<crashes, accepted, workers, table, failed, streams>>

Next ==
  \/ \E e \in Event : Submit(e)
  \/ \E w \in Worker :
       \/ Receive(w) \/ ReceiveTick(w)
       \/ InsertSucceeds(w) \/ InsertFails(w) \/ Publish(w)
  \/ \E c \in Client :
       \/ Connect(c) \/ Subscribe(c) \/ Take(c) \/ WriteEvent(c) \/ Disconnect(c)
  \/ Crash
  \/ Restart

Spec == Init /\ [][Next]_vars

-----------------------------------------------------------------------------
(* Properties.                                                             *)

\* What a page receives is stored, and it receives no event twice, although the
\* worker fills its array again while streams read what was published, and the
\* page connects again after failures and crashes.
StreamedTrue ==
  \A c \in Client : Range(got[c]) \subseteq table /\ IsInjective(got[c])

\* The events in a worker's batch, and all that are in memory and not published.
InBatch(w) == {memory[w][i] : i \in 1 .. size[w]}
InMemory == Range(queue) \cup UNION {InBatch(w) : w \in Worker}

\* Accepted events that are nowhere any more, and did not fail.
Lost == accepted \ (table \cup failed \cup InMemory)
Capacity == BufferSize + BatchSize * Cardinality(Worker)

\* Nothing is lost but in a crash, and each crash loses no more than fits in the channel
\* and a batch of each worker: what was stored before it is there after the restart,
\* and what is accepted after it is not lost with it.
BoundedLoss == Cardinality(Lost) <= crashes * Capacity

=============================================================================
