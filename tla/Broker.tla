------------------------------- MODULE Broker -------------------------------
(***************************************************************************)
(* The fan-out of committed batches (backend/internal/broker/broker.go).   *)
(* Publishers (the pool's workers) walk the subscriber map under the read  *)
(* lock and offer the batch to one channel after the other without         *)
(* blocking; Subscribe and Unsubscribe change the map under the write      *)
(* lock. Several publishers walk the map at once, and clients receive from *)
(* their channels meanwhile, so that two clients may well see the batches  *)
(* of two publishers in different orders.                                  *)
(*                                                                         *)
(* The lock is a sync.RWMutex: a writer first announces itself, which      *)
(* holds back new readers, and then waits for the readers inside. What a   *)
(* writer does under the lock is one step, for nobody can look inside.     *)
(*                                                                         *)
(* This module leaves the callers free: a client may call Unsubscribe      *)
(* twice, or count the subscribers at any time. Module Stream adds the     *)
(* handler that is the only client in the program.                         *)
(***************************************************************************)
EXTENDS Naturals, Sequences

CONSTANTS
  Publisher,    \* goroutines that call Publish
  Client,       \* connections: each subscribes once, and owns one channel
  Capacity,     \* capacity of a subscriber channel (32 in the code)
  NoOne,        \* no writer
  MaxPublish    \* bound: calls of Publish by each publisher

ASSUME BrokerAssumption ==
  /\ Capacity \in Nat \ {0}
  /\ MaxPublish \in Nat
  /\ Publisher \cap Client = {}
  /\ NoOne \notin Client

VARIABLES
  call,         \* call[p]: the method p is in, or "none"
  readers,      \* who holds b.mu for reading
  writer,       \* who holds b.mu for writing, or waits for the readers inside
  subs,         \* clients whose channel is in b.subs
  chan,         \* chan[c]: contents of the channel of c
  closes,       \* closes[c]: how often the channel of c was closed
  joined,       \* clients whose Subscribe has returned
  round,        \* round[p]: number of Publish calls of p; names its batches
  todo,         \* todo[p]: subscribers that the range loop has still to visit
  received,     \* received[c]: batches c took from its channel, oldest first
  missed        \* missed[c]: batches dropped because the channel of c was full

vars == <<call, readers, writer, subs, chan, closes, joined, round, todo,
          received, missed>>

lockVars == <<readers, writer>>
clientVars == <<subs, chan, closes, joined, received, missed>>

Caller == Publisher \cup Client
Batch == [by : Publisher, round : Nat]
Current(p) == [by |-> p, round |-> round[p]]

\* What has entered the channel of c, oldest first.
Feed(c) == received[c] \o chan[c]

Init ==
  /\ call = [p \in Caller |-> "none"]
  /\ readers = {}
  /\ writer = NoOne
  /\ subs = {}
  /\ chan = [c \in Client |-> << >>]
  /\ closes = [c \in Client |-> 0]
  /\ joined = {}
  /\ round = [p \in Publisher |-> 0]
  /\ todo = [p \in Publisher |-> {}]
  /\ received = [c \in Client |-> << >>]
  /\ missed = [c \in Client |-> {}]

Enter(p, method) ==
  /\ call[p] = "none"
  /\ call' = [call EXCEPT ![p] = method]

-----------------------------------------------------------------------------
(* Publish and SubscriberCount, under the read lock. (Publish of an empty  *)
(* batch returns before it locks; the pool never does that.)               *)

CallPublish(p) ==
  /\ round[p] < MaxPublish
  /\ Enter(p, "publish")
  /\ round' = [round EXCEPT ![p] = @ + 1]
  /\ UNCHANGED <<lockVars, todo, clientVars>>

CallCount(c) ==
  /\ Enter(c, "count")
  /\ UNCHANGED <<lockVars, round, todo, clientVars>>

RLock(p) ==
  /\ call[p] \in {"publish", "count"}
  /\ p \notin readers
  /\ writer = NoOne
  /\ readers' = readers \cup {p}
  /\ IF call[p] = "publish" THEN todo' = [todo EXCEPT ![p] = subs]
                            ELSE UNCHANGED todo
  /\ UNCHANGED <<call, writer, round, clientVars>>

HasRoom(c) == Len(chan[c]) < Capacity

\* The loop does not advance: the client may be offered the batch again.
SendMutant(p, c) ==
  /\ c \in todo[p]
  /\ HasRoom(c)
  /\ chan' = [chan EXCEPT ![c] = Append(@, Current(p))]
  /\ UNCHANGED <<call, lockVars, round, todo, subs, closes, joined, received, missed>>

Send(p, c) ==
  /\ c \in todo[p]
  /\ HasRoom(c)
  /\ chan' = [chan EXCEPT ![c] = Append(@, Current(p))]
  /\ todo' = [todo EXCEPT ![p] = @ \ {c}]
  /\ UNCHANGED <<call, lockVars, round, subs, closes, joined, received, missed>>

\* The loop is left at the first full channel.
DropBreaksMutant(p, c) ==
  /\ c \in todo[p]
  /\ ~HasRoom(c)
  /\ missed' = [missed EXCEPT ![c] = @ \cup {Current(p)}]
  /\ todo' = [todo EXCEPT ![p] = {}]
  /\ UNCHANGED <<call, lockVars, round, subs, chan, closes, joined, received>>

Drop(p, c) ==
  /\ c \in todo[p]
  /\ ~HasRoom(c)
  /\ missed' = [missed EXCEPT ![c] = @ \cup {Current(p)}]
  /\ todo' = [todo EXCEPT ![p] = @ \ {c}]
  /\ UNCHANGED <<call, lockVars, round, subs, chan, closes, joined, received>>

\* The deferred RUnlock, when the loop is over.
RUnlock(p) ==
  /\ p \in readers
  /\ p \in Publisher => todo[p] = {}
  /\ readers' = readers \ {p}
  /\ call' = [call EXCEPT ![p] = "none"]
  /\ UNCHANGED <<writer, round, todo, clientVars>>

-----------------------------------------------------------------------------
(* Subscribe and Unsubscribe, under the write lock.                        *)

CallSubscribe(c) ==
  /\ c \notin joined
  /\ Enter(c, "subscribe")
  /\ UNCHANGED <<lockVars, round, todo, clientVars>>

CallUnsubscribe(c) ==
  /\ c \in joined
  /\ Enter(c, "unsubscribe")
  /\ UNCHANGED <<lockVars, round, todo, clientVars>>

\* Lock announces the writer; it waits for the readers that are inside.
Lock(c) ==
  /\ call[c] \in {"subscribe", "unsubscribe"}
  /\ writer = NoOne
  /\ writer' = c
  /\ UNCHANGED <<call, readers, round, todo, clientVars>>

Locked(c) == writer = c /\ readers = {}

Unlock(c) ==
  /\ writer' = NoOne
  /\ call' = [call EXCEPT ![c] = "none"]
  /\ UNCHANGED <<readers, round, todo, chan, received, missed>>

Subscribe(c) ==
  /\ call[c] = "subscribe"
  /\ Locked(c)
  /\ subs' = subs \cup {c}
  /\ joined' = joined \cup {c}
  /\ Unlock(c)
  /\ UNCHANGED closes

\* The channel is closed whether or not it is still in the map.
UnsubscribeMutant(c) ==
  /\ call[c] = "unsubscribe"
  /\ Locked(c)
  /\ subs' = subs \ {c}
  /\ closes' = [closes EXCEPT ![c] = @ + 1]
  /\ Unlock(c)
  /\ UNCHANGED joined

\* The early return keeps the lock.
UnsubscribeKeepsLockMutant(c) ==
  /\ call[c] = "unsubscribe"
  /\ Locked(c)
  /\ UNCHANGED <<joined, readers, round, todo, chan, received, missed>>
  /\ call' = [call EXCEPT ![c] = "none"]
  /\ IF c \in subs
       THEN /\ subs' = subs \ {c}
            /\ closes' = [closes EXCEPT ![c] = @ + 1]
            /\ writer' = NoOne
       ELSE UNCHANGED <<subs, closes, writer>>

\* A channel that is no longer in the map was closed before.
Unsubscribe(c) ==
  /\ call[c] = "unsubscribe"
  /\ Locked(c)
  /\ IF c \in subs
       THEN /\ subs' = subs \ {c}
            /\ closes' = [closes EXCEPT ![c] = @ + 1]
       ELSE UNCHANGED <<subs, closes>>
  /\ Unlock(c)
  /\ UNCHANGED joined

-----------------------------------------------------------------------------
(* The client's side of its channel. No lock is taken.                     *)

Receive(c) ==
  /\ call[c] = "none"
  /\ c \in joined
  /\ chan[c] # << >>
  /\ chan' = [chan EXCEPT ![c] = Tail(@)]
  /\ received' = [received EXCEPT ![c] = Append(@, Head(chan[c]))]
  /\ UNCHANGED <<call, lockVars, round, todo, subs, closes, joined, missed>>

-----------------------------------------------------------------------------

PublisherStep(p) == RLock(p) \/ RUnlock(p) \/ \E c \in Client : Send(p, c) \/ Drop(p, c)
ClientStep(c) == RLock(c) \/ RUnlock(c) \/ Lock(c) \/ Subscribe(c) \/ Unsubscribe(c)

Next ==
  \/ \E p \in Publisher : CallPublish(p) \/ PublisherStep(p)
  \/ \E c \in Client :
       \/ CallCount(c) \/ CallSubscribe(c) \/ CallUnsubscribe(c)
       \/ ClientStep(c) \/ Receive(c)

\* A call that can go on does so. Unlock admits the readers that wait, and a
\* sync.Mutex the writer that waits longest, before others get the lock again:
\* that is strong fairness of both. No client has to receive or to call anything.
Fairness ==
  /\ \A p \in Caller : SF_vars(RLock(p)) /\ WF_vars(RUnlock(p))
  /\ \A p \in Publisher : WF_vars(\E c \in Client : Send(p, c) \/ Drop(p, c))
  /\ \A c \in Client : SF_vars(Lock(c)) /\ WF_vars(Subscribe(c) \/ Unsubscribe(c))

Spec == Init /\ [][Next]_vars /\ Fairness

-----------------------------------------------------------------------------
(* Properties.                                                             *)

\* Types, the capacity of the channels, and the lock: who is inside, or has
\* announced itself, is in a method that locks this way.
TypeOK ==
  /\ call \in [Caller -> {"none", "publish", "count", "subscribe", "unsubscribe"}]
  /\ readers \subseteq Caller
  /\ \A p \in readers : call[p] \in {"publish", "count"}
  /\ writer \in Client \cup {NoOne}
  /\ writer # NoOne => call[writer] \in {"subscribe", "unsubscribe"}
  /\ subs \subseteq Client
  /\ chan \in [Client -> Seq(Batch)]
  /\ \A c \in Client : Len(chan[c]) <= Capacity
  /\ closes \in [Client -> Nat]
  /\ joined \subseteq Client
  /\ round \in [Publisher -> Nat]
  /\ todo \in [Publisher -> SUBSET Client]
  /\ received \in [Client -> Seq(Batch)]
  /\ missed \in [Client -> SUBSET Batch]

\* Nothing panics: no publisher is about to send on a closed channel (a client
\* may unsubscribe in the middle of a Publish), and no channel is closed twice
\* (a client may unsubscribe twice).
NoPanic ==
  /\ \A p \in Publisher : \A c \in todo[p] : c \in subs /\ closes[c] = 0
  /\ \A c \in Client : closes[c] <= 1

\* A client receives the batches of one publisher in the order in which they
\* were published, and none twice, however the publishers interleave.
PublisherOrder ==
  \A c \in Client : \A i, j \in DOMAIN Feed(c) :
    i < j /\ Feed(c)[i].by = Feed(c)[j].by => Feed(c)[i].round < Feed(c)[j].round

\* When Publish returns, every subscriber has the batch in its channel, has
\* already received it, or has missed it, and nobody else got it: no client can
\* come or go in the middle of a Publish. A client misses a batch only when it is a
\* full channel behind.
FanOut ==
  [][/\ \A p \in Publisher : RUnlock(p) =>
          \A c \in Client :
            LET got == \E i \in DOMAIN Feed(c) : Feed(c)[i] = Current(p)
                lost == Current(p) \in missed[c]
            IN  IF c \in subs THEN got # lost ELSE ~got /\ ~lost
     /\ \A c \in Client : missed'[c] # missed[c] => Len(chan[c]) = Capacity]_vars

\* Every call of the broker returns. In particular publishers never stall,
\* whatever the clients do with their channels: no fairness of Receive is assumed.
CallsReturn == \A p \in Caller : call[p] # "none" ~> call[p] = "none"

=============================================================================
