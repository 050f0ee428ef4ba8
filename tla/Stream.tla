------------------------------- MODULE Stream -------------------------------
(***************************************************************************)
(* The Server-Sent-Events handler (backend/internal/handler/stream.go)     *)
(* over the broker: one goroutine per connection, which answers 200,       *)
(* subscribes, forwards batches until its request context is cancelled or  *)
(* a write fails, and unsubscribes. A batch goes out event by event, so a  *)
(* write that fails in its middle leaves a part of it with the client.     *)
(*                                                                         *)
(* The calls of the broker are those of module Broker, whose variables     *)
(* this module shares; a handler goes on when the call it made is over.    *)
(* The network is an environment: it may stop draining the connection (the *)
(* handler then blocks in a write: the server has no write timeout), drain *)
(* it again, or break.                                                     *)
(***************************************************************************)
EXTENDS Naturals, Sequences

CONSTANTS
  Publisher, Client, Capacity, NoOne, MaxPublish,   \* see module Broker
  BatchLen      \* number of events in a batch

VARIABLES
  call, readers, writer, subs, chan, closes, joined, round, todo, received,
  missed,       \* the broker
  pos,          \* pos[c]: how far the handler of connection c has come
  left,         \* left[c]: events of the current batch still to be written
  wire,         \* wire[c]: events written to connection c, oldest first
  net,          \* net[c]: "up", "stalled" or "broken"
  cancelled     \* connections whose request context is done

brokerVars == <<call, readers, writer, subs, chan, closes, joined, round, todo,
                received, missed>>
handlerVars == <<pos, left, wire>>
netVars == <<net, cancelled>>
vars == <<brokerVars, handlerVars, netVars>>

Bus == INSTANCE Broker

ASSUME StreamAssumption == BatchLen \in Nat \ {0} /\ Bus!BrokerAssumption

Init ==
  /\ Bus!Init
  /\ pos = [c \in Client |-> "away"]
  /\ left = [c \in Client |-> << >>]
  /\ wire = [c \in Client |-> << >>]
  /\ net = [c \in Client |-> "up"]
  /\ cancelled = {}

\* The handler of c is at `from`, outside the broker, and goes on to `to`.
Goes(c, from, to) ==
  /\ pos[c] = from
  /\ call[c] = "none"
  /\ pos' = [pos EXCEPT ![c] = to]
  /\ UNCHANGED netVars

-----------------------------------------------------------------------------
(* Before the loop.                                                        *)

\* The headers are sent: the client sees an open stream from here on.
Open(c) ==
  /\ Goes(c, "away", "open")
  /\ UNCHANGED <<brokerVars, left, wire>>

Join(c) ==
  /\ Goes(c, "open", "joined")
  /\ Bus!CallSubscribe(c)
  /\ UNCHANGED <<left, wire>>

LogJoined(c) ==
  /\ Goes(c, "joined", "loop")
  /\ Bus!CallCount(c)
  /\ UNCHANGED <<left, wire>>

-----------------------------------------------------------------------------
(* The loop. (The handler alone closes its channel, and it does so on its  *)
(* way out, so that a receive never finds the channel closed.)             *)

EventsOf(b) == [k \in 1 .. BatchLen |-> [by |-> b.by, round |-> b.round, nth |-> k]]

Take(c) ==
  /\ Goes(c, "loop", "writing")
  /\ Bus!Receive(c)
  /\ left' = [left EXCEPT ![c] = EventsOf(Head(chan[c]))]
  /\ UNCHANGED wire

\* The batch is left after its first event.
WriteMutant(c) ==
  /\ Goes(c, "writing", "loop")
  /\ net[c] = "up"
  /\ wire' = [wire EXCEPT ![c] = Append(@, Head(left[c]))]
  /\ left' = [left EXCEPT ![c] = Tail(@)]
  /\ UNCHANGED brokerVars

Write(c) ==
  /\ Goes(c, "writing", IF Len(left[c]) = 1 THEN "loop" ELSE "writing")
  /\ net[c] = "up"
  /\ wire' = [wire EXCEPT ![c] = Append(@, Head(left[c]))]
  /\ left' = [left EXCEPT ![c] = Tail(@)]
  /\ UNCHANGED brokerVars

\* The deferred Unsubscribe, on every way out of the loop.
Leave(c, from) ==
  /\ Goes(c, from, "leaving")
  /\ Bus!CallUnsubscribe(c)
  /\ UNCHANGED <<left, wire>>

\* A write that fails is logged, and the loop goes on with the next event.
WriteFailsMutant(c) ==
  /\ Goes(c, "writing", IF Len(left[c]) = 1 THEN "loop" ELSE "writing")
  /\ net[c] # "up"
  /\ left' = [left EXCEPT ![c] = Tail(@)]
  /\ UNCHANGED <<brokerVars, wire>>

\* A write that fails is tried again for ever.
WriteFailsRetriesMutant(c) ==
  /\ net[c] = "broken"
  /\ Goes(c, "writing", "writing")
  /\ UNCHANGED <<brokerVars, left, wire>>

WriteFails(c) ==
  /\ net[c] = "broken"
  /\ Leave(c, "writing")

\* The ping on an idle connection; one that succeeds changes nothing here.
PingFails(c) ==
  /\ net[c] = "broken"
  /\ Leave(c, "loop")

\* The handler returns without the deferred calls.
ContextDoneMutant(c) ==
  /\ c \in cancelled
  /\ Goes(c, "loop", "gone")
  /\ UNCHANGED <<brokerVars, left, wire>>

ContextDone(c) ==
  /\ c \in cancelled
  /\ Leave(c, "loop")

LogLeft(c) ==
  /\ Goes(c, "leaving", "gone")
  /\ Bus!CallCount(c)
  /\ UNCHANGED <<left, wire>>

-----------------------------------------------------------------------------
(* The environment: the network, and the context of the request. It is     *)
(* cancelled when the connection breaks, but also when the server's        *)
(* ReadTimeout expires.                                                    *)

Network(c, from, to) ==
  /\ pos[c] # "away"
  /\ net[c] \in from
  /\ net' = [net EXCEPT ![c] = to]
  /\ UNCHANGED <<brokerVars, handlerVars, cancelled>>

Cancel(c) ==
  /\ pos[c] # "away"
  /\ c \notin cancelled
  /\ cancelled' = cancelled \cup {c}
  /\ UNCHANGED <<brokerVars, handlerVars, net>>

\* A step inside a method of the broker.
InBroker(A) == A /\ UNCHANGED <<handlerVars, netVars>>

Publish(p) == InBroker(Bus!CallPublish(p) \/ Bus!PublisherStep(p))
CallGoesOn(c) == InBroker(Bus!ClientStep(c))

Handler(c) ==
  \/ Open(c) \/ Join(c) \/ LogJoined(c)
  \/ Take(c) \/ Write(c) \/ WriteFails(c) \/ PingFails(c)
  \/ ContextDone(c) \/ LogLeft(c)

Environment(c) ==
  \/ Network(c, {"up"}, "stalled")
  \/ Network(c, {"stalled"}, "up")
  \/ Network(c, {"up", "stalled"}, "broken")
  \/ Cancel(c)

Next ==
  \/ \E p \in Publisher : Publish(p)
  \/ \E c \in Client : Handler(c) \/ CallGoesOn(c) \/ Environment(c)

\* Handlers and broker calls that can go on do so (see Broker for the lock);
\* the select of the loop does not pass over a context that is done, nor over a
\* channel that has a batch, for ever. The http server notices a broken
\* connection and cancels the request. Connections need not come, break or be
\* drained, and publishers need not publish.
Fairness ==
  /\ \A p \in Publisher \cup Client :
       SF_vars(InBroker(Bus!RLock(p))) /\ WF_vars(InBroker(Bus!RUnlock(p)))
  /\ \A p \in Publisher :
       WF_vars(InBroker(\E c \in Client : Bus!Send(p, c) \/ Bus!Drop(p, c)))
  /\ \A c \in Client :
       /\ SF_vars(InBroker(Bus!Lock(c)))
       /\ WF_vars(InBroker(Bus!Subscribe(c) \/ Bus!Unsubscribe(c)))
       /\ WF_vars(Join(c) \/ LogJoined(c) \/ LogLeft(c))
       /\ SF_vars(ContextDone(c)) /\ SF_vars(Take(c)) /\ SF_vars(Write(c))
       /\ WF_vars(WriteFails(c) \/ PingFails(c))
       /\ WF_vars(net[c] = "broken" /\ Cancel(c))

Spec == Init /\ [][Next]_vars /\ Fairness

-----------------------------------------------------------------------------
(* Properties.                                                             *)

\* What the broker promises each subscriber (see Broker) holds with handlers that
\* take batches at the pace of their connections, come and go.
PublisherOrder == Bus!PublisherOrder

\* A handler forwards batches only while it is subscribed, and a handler that
\* is gone has left nothing behind: its channel is out of the map and closed
\* once, whichever way it went.
NoLeak ==
  \A c \in Client :
    /\ pos[c] \in {"loop", "writing"} => c \in subs /\ closes[c] = 0
    /\ pos[c] = "gone" => c \notin subs /\ closes[c] = 1

\* The events a client was sent, followed by those still in hand, are the events
\* of the batches taken from the channel: whole batches, in order, none skipped
\* and none twice. Only the last one may be incomplete, and only while it is
\* being written or after the connection broke.
WireComplete ==
  \A c \in Client :
    /\ Len(wire[c]) + Len(left[c]) = BatchLen * Len(received[c])
    /\ \A i \in DOMAIN wire[c] :
         wire[c][i] = EventsOf(received[c][1 + ((i - 1) \div BatchLen)])[1 + ((i - 1) % BatchLen)]
    /\ left[c] # << >> => pos[c] = "writing" \/ net[c] = "broken"

\* A connection that breaks does not keep its channel: its handler unsubscribes
\* and ends, wherever it was, also when it was blocked in a write.
BrokenConnectionLeaves ==
  \A c \in Client : net[c] = "broken" ~> pos[c] = "gone" /\ call[c] = "none"

\* A client that stays connected and drains its connection gets every event of
\* every batch that enters its channel; the handler does not sit on a part of it.
DrainedConnectionServed ==
  \A c \in Client :
    chan[c] # << >> ~> \/ chan[c] = << >> /\ left[c] = << >>
                       \/ net[c] # "up"
                       \/ c \in cancelled

=============================================================================
