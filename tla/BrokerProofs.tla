---------------------------- MODULE BrokerProofs ----------------------------
(***************************************************************************)
(* Proofs about module Broker, for every set of publishers and clients,    *)
(* every capacity and any number of calls.                                 *)
(***************************************************************************)
EXTENDS Broker, TLAPS

-----------------------------------------------------------------------------
(* Facts about sequences.                                                  *)

LEMMA AppendType ==
  ASSUME NEW S, NEW s \in Seq(S), NEW x \in S
  PROVE  /\ Append(s, x) \in Seq(S)
         /\ Len(s) \in Nat
         /\ Len(Append(s, x)) = Len(s) + 1
OBVIOUS

LEMMA HeadTailType ==
  ASSUME NEW S, NEW s \in Seq(S), s # << >>
  PROVE  /\ Head(s) \in S
         /\ Tail(s) \in Seq(S)
         /\ Len(s) \in Nat \ {0}
         /\ Len(Tail(s)) = Len(s) - 1
OBVIOUS

\* Taking the oldest batch from the channel does not change the feed.
LEMMA TakeKeepsFeed ==
  ASSUME NEW S, NEW r \in Seq(S), NEW s \in Seq(S), s # << >>
  PROVE  Append(r, Head(s)) \o Tail(s) = r \o s
<1>1. /\ Append(r, Head(s)) \o Tail(s) \in Seq(S)
      /\ r \o s \in Seq(S)
      /\ Len(Append(r, Head(s)) \o Tail(s)) = Len(r \o s)
  OBVIOUS
<1>2. \A i \in 1 .. Len(r \o s) : (Append(r, Head(s)) \o Tail(s))[i] = (r \o s)[i]
  OBVIOUS
<1>. QED
  BY <1>1, <1>2

\* Sending a batch appends it to the feed.
LEMMA SendExtendsFeed ==
  ASSUME NEW S, NEW r \in Seq(S), NEW s \in Seq(S), NEW x \in S
  PROVE  r \o Append(s, x) = Append(r \o s, x)
<1>1. /\ r \o Append(s, x) \in Seq(S)
      /\ Append(r \o s, x) \in Seq(S)
      /\ Len(r \o Append(s, x)) = Len(Append(r \o s, x))
  OBVIOUS
<1>2. \A i \in 1 .. Len(Append(r \o s, x)) :
        (r \o Append(s, x))[i] = Append(r \o s, x)[i]
  OBVIOUS
<1>. QED
  BY <1>1, <1>2

-----------------------------------------------------------------------------
(* Types.                                                                  *)

\* A step under the read lock, or towards it.
LEMMA ReaderTypeStep ==
  ASSUME TypeOK, NEW p \in Caller,
         \/ RLock(p)
         \/ RUnlock(p)
         \/ p \in Publisher /\ (CallPublish(p) \/ \E c \in Client : Send(p, c) \/ Drop(p, c))
         \/ p \in Client /\ CallCount(p)
  PROVE  TypeOK'
<1>. USE BrokerAssumption DEF TypeOK, lockVars, clientVars, Caller, Enter
<1>1. CASE p \in Publisher /\ CallPublish(p)
  BY <1>1 DEF CallPublish
<1>2. CASE p \in Client /\ CallCount(p)
  BY <1>2 DEF CallCount
<1>3. CASE RLock(p)
  <2>1. todo' \in [Publisher -> SUBSET Client]
    <3>1. CASE call[p] = "publish"
      <4>1. todo' = [todo EXCEPT ![p] = subs]
        BY <1>3, <3>1 DEF RLock
      <4>2. todo \in [Publisher -> SUBSET Client] /\ subs \in SUBSET Client
        OBVIOUS
      <4>. HIDE DEF TypeOK
      <4>. QED
        BY <4>1, <4>2
    <3>2. CASE call[p] # "publish"
      BY <1>3, <3>2 DEF RLock
    <3>. QED
      BY <3>1, <3>2
  <2>. QED
    BY <1>3, <2>1 DEF RLock
<1>4. CASE RUnlock(p)
  BY <1>4 DEF RUnlock
<1>5. ASSUME p \in Publisher, NEW c \in Client, Send(p, c)
      PROVE  TypeOK'
  <2>1. Current(p) \in Batch
    BY <1>5 DEF Current, Batch
  <2>2. /\ Append(chan[c], Current(p)) \in Seq(Batch)
        /\ Len(Append(chan[c], Current(p))) <= Capacity
    BY <1>5, <2>1, AppendType DEF Send, HasRoom
  <2>3. chan' \in [Client -> Seq(Batch)] /\ \A d \in Client : Len(chan'[d]) <= Capacity
    BY <1>5, <2>2 DEF Send
  <2>. QED
    BY <1>5, <2>3 DEF Send
<1>6. ASSUME p \in Publisher, NEW c \in Client, Drop(p, c)
      PROVE  TypeOK'
  <2>1. Current(p) \in Batch
    BY <1>6 DEF Current, Batch
  <2>. QED
    BY <1>6, <2>1 DEF Drop
<1>. QED
  BY <1>1, <1>2, <1>3, <1>4, <1>5, <1>6

\* A step of a client, but for those of a reader.
LEMMA ClientTypeStep ==
  ASSUME TypeOK, NEW c \in Client,
         \/ CallSubscribe(c) \/ CallUnsubscribe(c) \/ Lock(c)
         \/ Subscribe(c) \/ Unsubscribe(c) \/ Receive(c)
  PROVE  TypeOK'
<1>. USE BrokerAssumption DEF TypeOK, lockVars, clientVars, Caller, Enter, Unlock, Locked
<1>1. CASE CallSubscribe(c)
  BY <1>1 DEF CallSubscribe
<1>2. CASE CallUnsubscribe(c)
  BY <1>2 DEF CallUnsubscribe
<1>3. CASE Lock(c)
  BY <1>3 DEF Lock
<1>4. CASE Subscribe(c)
  BY <1>4 DEF Subscribe
<1>5. CASE Unsubscribe(c)
  <2>1. CASE c \in subs
    <3>1. closes' \in [Client -> Nat]
      <4>1. closes' = [closes EXCEPT ![c] = closes[c] + 1]
        BY <1>5, <2>1 DEF Unsubscribe
      <4>2. closes \in [Client -> Nat] /\ closes[c] + 1 \in Nat
        OBVIOUS
      <4>. HIDE DEF TypeOK
      <4>. QED
        BY <4>1, <4>2
    <3>2. /\ subs' \subseteq Client
          /\ readers' = {} /\ writer' = NoOne
          /\ UNCHANGED <<joined, round, todo, chan, received, missed>>
      BY <1>5, <2>1 DEF Unsubscribe
    <3>3. call' = [call EXCEPT ![c] = "none"]
      BY <1>5 DEF Unsubscribe
    <3>. QED
      BY <3>1, <3>2, <3>3
  <2>2. CASE c \notin subs
    BY <1>5, <2>2 DEF Unsubscribe
  <2>. QED
    BY <2>1, <2>2
<1>6. CASE Receive(c)
  <2>1. /\ Tail(chan[c]) \in Seq(Batch)
        /\ Len(Tail(chan[c])) <= Capacity
        /\ Append(received[c], Head(chan[c])) \in Seq(Batch)
    BY <1>6, HeadTailType, AppendType DEF Receive
  <2>2. /\ chan' \in [Client -> Seq(Batch)]
        /\ \A d \in Client : Len(chan'[d]) <= Capacity
        /\ received' \in [Client -> Seq(Batch)]
    BY <1>6, <2>1 DEF Receive
  <2>. QED
    BY <1>6, <2>2 DEF Receive
<1>. QED
  BY <1>1, <1>2, <1>3, <1>4, <1>5, <1>6

LEMMA TypeStep ==
  ASSUME TypeOK, [Next]_vars
  PROVE  TypeOK'
<1>1. CASE UNCHANGED vars
  BY <1>1 DEF vars, TypeOK
<1>. QED
  BY <1>1, ReaderTypeStep, ClientTypeStep DEF Next, PublisherStep, ClientStep, Caller

\* The types hold, and no channel exceeds its capacity.
THEOREM TypeCorrect == Spec => []TypeOK
<1>1. Init => TypeOK
  BY BrokerAssumption DEF Init, TypeOK, Caller
<1>. QED
  BY <1>1, TypeStep, PTL DEF Spec

-----------------------------------------------------------------------------
(* Nothing panics.                                                         *)

\* Who walks the map holds the read lock, so the map is as it was at the start
\* of the walk; a channel in the map is open, and enters it once.
Walks ==
  /\ \A p \in Publisher : todo[p] \subseteq subs /\ (todo[p] # {} => p \in readers)
  /\ \A c \in Client :
       /\ c \in subs => closes[c] = 0 /\ c \in joined
       /\ c \notin joined => closes[c] = 0
       /\ closes[c] <= 1
       /\ call[c] = "subscribe" => c \notin joined

LEMMA WalksStep ==
  ASSUME TypeOK, Walks, [Next]_vars
  PROVE  Walks'
<1>. USE BrokerAssumption DEF TypeOK, Walks, lockVars, clientVars, Caller, Enter, Unlock, Locked
<1>1. ASSUME NEW p \in Publisher, CallPublish(p)
      PROVE  Walks'
  BY <1>1 DEF CallPublish
<1>2. ASSUME NEW p \in Caller, RLock(p)
      PROVE  Walks'
  BY <1>2 DEF RLock
<1>3. ASSUME NEW p \in Caller, RUnlock(p)
      PROVE  Walks'
  BY <1>3 DEF RUnlock
<1>4. ASSUME NEW p \in Publisher, NEW c \in Client, Send(p, c) \/ Drop(p, c)
      PROVE  Walks'
  <2>1. /\ UNCHANGED <<call, readers, subs, closes, joined>>
        /\ todo' = [todo EXCEPT ![p] = @ \ {c}]
    BY <1>4 DEF Send, Drop
  <2>2. \A q \in Publisher : todo'[q] \subseteq todo[q]
    BY <2>1
  <2>. QED
    BY <2>1, <2>2
<1>5. ASSUME NEW c \in Client, CallCount(c) \/ CallSubscribe(c) \/ CallUnsubscribe(c)
      PROVE  Walks'
  BY <1>5 DEF CallCount, CallSubscribe, CallUnsubscribe
<1>6. ASSUME NEW c \in Client, Lock(c) \/ Receive(c)
      PROVE  Walks'
  BY <1>6 DEF Lock, Receive
<1>7. ASSUME NEW c \in Client, Subscribe(c)
      PROVE  Walks'
  BY <1>7 DEF Subscribe
<1>8. ASSUME NEW c \in Client, Unsubscribe(c)
      PROVE  Walks'
  BY <1>8 DEF Unsubscribe
<1>9. CASE UNCHANGED vars
  BY <1>9 DEF vars
<1>. QED
  BY <1>1, <1>2, <1>3, <1>4, <1>5, <1>6, <1>7, <1>8, <1>9
     DEF Next, PublisherStep, ClientStep

LEMMA WalksInvariant == Spec => [](TypeOK /\ Walks)
<1>1. Init => TypeOK /\ Walks
  BY BrokerAssumption DEF Init, TypeOK, Walks, Caller
<1>2. TypeOK /\ Walks /\ [Next]_vars => (TypeOK /\ Walks)'
  BY TypeStep, WalksStep
<1>. QED
  BY <1>1, <1>2, PTL DEF Spec

\* No publisher sends on a closed channel, and none is closed twice, whenever
\* clients come and go.
THEOREM NoPanicHolds == Spec => []NoPanic
<1>1. TypeOK /\ Walks => NoPanic
  BY DEF TypeOK, Walks, NoPanic
<1>. QED
  BY <1>1, WalksInvariant, PTL

-----------------------------------------------------------------------------
(* Each client gets the batches of a publisher in order and once.          *)

\* No feed is ahead of its publishers, and a publisher that has still to offer
\* its batch to a client is ahead of that client's feed.
Rounds ==
  /\ \A p \in Publisher : call[p] \in {"none", "publish"}
  /\ \A c \in Client : \A i \in DOMAIN Feed(c) : Feed(c)[i].round <= round[Feed(c)[i].by]
  /\ \A p \in Publisher, c \in Client :
       call[p] = "publish" /\ (p \notin readers \/ c \in todo[p]) =>
         \A i \in DOMAIN Feed(c) : Feed(c)[i].by = p => Feed(c)[i].round < round[p]

OrderInv == TypeOK /\ Walks /\ Rounds /\ PublisherOrder

LEMMA FeedType ==
  ASSUME TypeOK, NEW c \in Client
  PROVE  /\ Feed(c) \in Seq(Batch)
         /\ \A i \in DOMAIN Feed(c) :
              Feed(c)[i].by \in Publisher /\ Feed(c)[i].round \in Nat
<1>1. Feed(c) \in Seq(Batch)
  BY DEF TypeOK, Feed
<1>2. \A i \in DOMAIN Feed(c) : Feed(c)[i] \in Batch
  BY <1>1
<1>. QED
  BY <1>1, <1>2 DEF Batch

\* A send appends the batch to one feed.
LEMMA SendFeed ==
  ASSUME TypeOK, NEW p \in Publisher, NEW c \in Client, Send(p, c)
  PROVE  /\ Current(p) \in Batch
         /\ Feed(c)' = Append(Feed(c), Current(p))
         /\ \A d \in Client \ {c} : Feed(d)' = Feed(d)
<1>. DEFINE b == Current(p)
<1>1. b \in Batch
  BY DEF Current, Batch, TypeOK
<1>2. chan' = [chan EXCEPT ![c] = Append(@, b)] /\ received' = received
  BY DEF Send
<1>3. Feed(c)' = received[c] \o Append(chan[c], b)
  BY <1>2 DEF Feed, TypeOK
<1>4. received[c] \in Seq(Batch) /\ chan[c] \in Seq(Batch)
  BY DEF TypeOK
<1>5. \A r, t \in Seq(Batch) : \A x \in Batch : r \o Append(t, x) = Append(r \o t, x)
  BY SendExtendsFeed
<1>6. received[c] \o Append(chan[c], b) = Append(received[c] \o chan[c], b)
  BY <1>1, <1>4, <1>5
<1>7. Feed(c) = received[c] \o chan[c]
  BY DEF Feed
<1>8. \A d \in Client \ {c} : Feed(d)' = Feed(d)
  BY <1>2 DEF Feed, TypeOK
<1>. QED
  BY <1>1, <1>3, <1>6, <1>7, <1>8

\* A receive changes none.
LEMMA ReceiveFeed ==
  ASSUME TypeOK, NEW c \in Client, Receive(c)
  PROVE  \A d \in Client : Feed(d)' = Feed(d)
<1>1. Feed(c)' = Append(received[c], Head(chan[c])) \o Tail(chan[c])
  BY DEF Receive, Feed, TypeOK
<1>2. Feed(c)' = Feed(c)
  BY <1>1, TakeKeepsFeed DEF Receive, Feed, TypeOK
<1>3. \A d \in Client \ {c} : Feed(d)' = Feed(d)
  BY DEF Receive, Feed, TypeOK
<1>. QED
  BY <1>2, <1>3

\* Steps after which every feed is as it was: calls, locks, and publishers that
\* pass over a client.
LEMMA QuietStep ==
  ASSUME OrderInv,
         \A c \in Client : Feed(c)' = Feed(c),
         \A p \in Publisher :
           \/ /\ round'[p] = round[p]
              /\ \/ call'[p] = "none"
                 \/ /\ call'[p] = call[p]
                    /\ p \notin readers' => p \notin readers
                    /\ p \in readers' /\ p \in readers => todo'[p] \subseteq todo[p]
           \/ call[p] = "none" /\ call'[p] = "publish" /\ round'[p] = round[p] + 1
  PROVE  Rounds' /\ PublisherOrder'
<1>. USE DEF OrderInv
<1>1. \A p \in Publisher : round[p] \in Nat /\ round[p] <= round'[p]
  <2>1. \A p \in Publisher : round[p] \in Nat
    BY DEF TypeOK
  <2>2. \A p \in Publisher : round'[p] = round[p] \/ round'[p] = round[p] + 1
    OBVIOUS
  <2>. QED
    BY <2>1, <2>2
<1>2. \A p \in Publisher : call'[p] \in {"none", "publish"}
  BY DEF Rounds
<1>3. ASSUME NEW c \in Client, NEW i \in DOMAIN Feed(c)
      PROVE  Feed(c)[i].round <= round'[Feed(c)[i].by]
  <2>. DEFINE p == Feed(c)[i].by
  <2>1. p \in Publisher /\ Feed(c)[i].round \in Nat
    BY FeedType
  <2>2. Feed(c)[i].round <= round[p]
    BY DEF Rounds
  <2>. QED
    BY <1>1, <2>1, <2>2
<1>4. ASSUME NEW p \in Publisher, NEW c \in Client,
             call'[p] = "publish", p \notin readers' \/ c \in todo'[p],
             NEW i \in DOMAIN Feed(c), Feed(c)[i].by = p
      PROVE  Feed(c)[i].round < round'[p]
  <2>1. Feed(c)[i].round \in Nat /\ Feed(c)[i].round <= round[p]
    BY <1>4, FeedType DEF Rounds
  <2>2. CASE round'[p] = round[p] + 1
    BY <1>1, <2>1, <2>2
  <2>3. CASE round'[p] # round[p] + 1
    BY <1>4, <2>3 DEF Rounds
  <2>. QED
    BY <2>2, <2>3
<1>5. Rounds'
  BY <1>2, <1>3, <1>4 DEF Rounds
<1>6. PublisherOrder'
  BY DEF PublisherOrder
<1>. QED
  BY <1>5, <1>6

\* A publisher offers each client its current batch once, when all that the
\* client has of it is older.
LEMMA SendStep ==
  ASSUME OrderInv, NEW p \in Publisher, NEW c \in Client, Send(p, c)
  PROVE  Rounds' /\ PublisherOrder'
<1>. USE DEF OrderInv
<1>. DEFINE f == Feed(c)
            b == Current(p)
<1>1. /\ b \in Batch /\ b.by = p /\ b.round = round[p] /\ round[p] \in Nat
      /\ f \in Seq(Batch) /\ Len(f) \in Nat
  <2>1. round[p] \in Nat
    BY DEF TypeOK
  <2>2. b \in Batch /\ b.by = p /\ b.round = round[p]
    BY <2>1 DEF Current, Batch
  <2>3. f \in Seq(Batch)
    BY FeedType
  <2>4. Len(f) \in Nat
    BY <2>3
  <2>. QED
    BY <2>1, <2>2, <2>3, <2>4
<1>2. /\ chan' = [chan EXCEPT ![c] = Append(@, b)]
      /\ todo' = [todo EXCEPT ![p] = @ \ {c}]
      /\ UNCHANGED <<call, readers, round, received>>
      /\ c \in todo[p]
  BY DEF Send, lockVars
<1>3. Feed(c)' = Append(f, b)
  BY SendFeed
<1>4. \A d \in Client \ {c} : Feed(d)' = Feed(d)
  BY SendFeed
<1>5. p \in readers /\ call[p] = "publish"
  BY <1>2 DEF Walks, TypeOK, Rounds
<1>6. \A i \in 1 .. Len(f) :
        /\ f[i].round <= round[f[i].by]
        /\ f[i].by = p => f[i].round < round[p]
  <2>. SUFFICES ASSUME NEW i \in DOMAIN Feed(c)
                PROVE  /\ Feed(c)[i].round <= round[Feed(c)[i].by]
                       /\ Feed(c)[i].by = p => Feed(c)[i].round < round[p]
    <3>1. DOMAIN Feed(c) = 1 .. Len(Feed(c))
      BY <1>1
    <3>. QED
      BY <3>1
  <2>. QED
    BY <1>2, <1>5 DEF Rounds
<1>7. /\ DOMAIN f = 1 .. Len(f)
      /\ DOMAIN Append(f, b) = 1 .. Len(f) + 1
      /\ \A i \in 1 .. Len(f) : Append(f, b)[i] = f[i]
      /\ Append(f, b)[Len(f) + 1] = b
  BY <1>1
<1>8. PublisherOrder'
  <2>. SUFFICES ASSUME NEW d \in Client,
                       NEW i \in DOMAIN Feed(d)', NEW j \in DOMAIN Feed(d)',
                       i < j, Feed(d)'[i].by = Feed(d)'[j].by
                PROVE  Feed(d)'[i].round < Feed(d)'[j].round
    BY DEF PublisherOrder
  <2>1. CASE d # c
    BY <1>4, <2>1 DEF PublisherOrder
  <2>2. CASE d = c
    <3>. HIDE DEF f, b
    <3>1. i \in 1 .. Len(f) /\ Feed(c)'[i] = f[i]
      BY <1>1, <1>3, <1>7, <2>2
    <3>2. CASE j \in 1 .. Len(f)
      <4>1. Feed(c)'[j] = f[j]
        BY <1>3, <1>7, <3>2
      <4>. QED
        BY <1>7, <2>2, <3>1, <3>2, <4>1 DEF PublisherOrder, f
    <3>3. CASE j \notin 1 .. Len(f)
      <4>1. Feed(c)'[j] = b
        BY <1>1, <1>3, <1>7, <2>2, <3>3
      <4>2. f[i].by = p
        BY <1>1, <2>2, <3>1, <4>1
      <4>3. f[i].round < round[p]
        BY <1>6, <3>1, <4>2
      <4>. QED
        BY <1>1, <2>2, <3>1, <4>1, <4>3
    <3>. QED
      BY <3>2, <3>3
  <2>. QED
    BY <2>1, <2>2
<1>9. Rounds'
  <2>1. \A q \in Publisher : call'[q] \in {"none", "publish"}
    BY <1>2 DEF Rounds
  <2>2. ASSUME NEW d \in Client, NEW i \in DOMAIN Feed(d)'
        PROVE  Feed(d)'[i].round <= round'[Feed(d)'[i].by]
    <3>1. CASE d # c
      BY <1>2, <1>4, <3>1 DEF Rounds
    <3>2. CASE d = c /\ i \in 1 .. Len(f)
      <4>. HIDE DEF f, b
      <4>1. Feed(c)'[i] = f[i]
        BY <1>3, <1>7, <3>2
      <4>2. f[i].round <= round[f[i].by]
        BY <1>6, <3>2
      <4>. QED
        BY <1>2, <3>2, <4>1, <4>2
    <3>3. CASE d = c /\ i \notin 1 .. Len(f)
      <4>. HIDE DEF f, b
      <4>1. Feed(c)'[i] = b
        BY <1>1, <1>3, <1>7, <2>2, <3>3
      <4>. QED
        BY <1>1, <1>2, <3>3, <4>1
    <3>. QED
      BY <3>1, <3>2, <3>3
  <2>3. ASSUME NEW q \in Publisher, NEW d \in Client, call[q] = "publish",
               q \notin readers \/ d \in todo'[q],
               NEW i \in DOMAIN Feed(d)', Feed(d)'[i].by = q
        PROVE  Feed(d)'[i].round < round[q]
    <3>1. q \notin readers \/ d \in todo[q]
      BY <1>2, <2>3 DEF TypeOK
    <3>2. ~(q = p /\ d = c)
      BY <1>2, <1>5, <2>3 DEF TypeOK
    <3>3. CASE d # c
      BY <1>4, <2>3, <3>1, <3>3 DEF Rounds
    <3>4. CASE d = c
      <4>. HIDE DEF b
      <4>1. i \in 1 .. Len(f) /\ Feed(c)'[i] = f[i]
        BY <1>1, <1>3, <1>7, <2>3, <3>2, <3>4
      <4>. QED
        BY <1>7, <2>3, <3>1, <3>4, <4>1 DEF Rounds
    <3>. QED
      BY <3>3, <3>4
  <2>. QED
    BY <1>2, <2>1, <2>2, <2>3 DEF Rounds
<1>. QED
  BY <1>8, <1>9

LEMMA OrderStep ==
  ASSUME OrderInv, [Next]_vars
  PROVE  OrderInv'
<1>1. TypeOK' /\ Walks'
  BY TypeStep, WalksStep DEF OrderInv
<1>. USE BrokerAssumption
     DEF TypeOK, Rounds, lockVars, clientVars, Caller, Enter, Unlock, Locked, Feed
<1>2. ASSUME NEW p \in Publisher, CallPublish(p)
      PROVE  Rounds' /\ PublisherOrder'
  <2>1. \A q \in Publisher :
          \/ round'[q] = round[q] /\ call'[q] = call[q]
          \/ call[q] = "none" /\ call'[q] = "publish" /\ round'[q] = round[q] + 1
    BY <1>2 DEF CallPublish, OrderInv
  <2>2. UNCHANGED <<readers, todo, chan, received>>
    BY <1>2 DEF CallPublish
  <2>. QED
    BY <2>1, <2>2, QuietStep
<1>3. ASSUME NEW p \in Caller, RLock(p)
      PROVE  Rounds' /\ PublisherOrder'
  <2>1. /\ UNCHANGED <<call, round, chan, received>>
        /\ readers' = readers \cup {p} /\ p \notin readers
        /\ \A q \in Publisher \ {p} : todo'[q] = todo[q]
    BY <1>3 DEF RLock, OrderInv
  <2>. QED
    BY <2>1, QuietStep
<1>4. ASSUME NEW p \in Caller, RUnlock(p)
      PROVE  Rounds' /\ PublisherOrder'
  <2>1. /\ UNCHANGED <<round, todo, chan, received>>
        /\ readers' = readers \ {p}
        /\ \A q \in Publisher : IF q = p THEN call'[q] = "none" ELSE call'[q] = call[q]
    BY <1>4 DEF RUnlock, OrderInv
  <2>. QED
    BY <2>1, QuietStep
<1>5. ASSUME NEW p \in Publisher, NEW c \in Client, Drop(p, c)
      PROVE  Rounds' /\ PublisherOrder'
  <2>1. /\ UNCHANGED <<call, readers, round, chan, received>>
        /\ \A q \in Publisher : todo'[q] \subseteq todo[q]
    BY <1>5 DEF Drop, OrderInv
  <2>. QED
    BY <2>1, QuietStep
<1>6. ASSUME NEW c \in Client,
             \/ CallCount(c) \/ CallSubscribe(c) \/ CallUnsubscribe(c)
             \/ Lock(c) \/ Subscribe(c) \/ Unsubscribe(c)
      PROVE  Rounds' /\ PublisherOrder'
  <2>1. UNCHANGED <<readers, round, todo, chan, received>>
    BY <1>6 DEF CallCount, CallSubscribe, CallUnsubscribe, Lock, Subscribe, Unsubscribe
  <2>2. \A q \in Publisher : call'[q] = call[q]
    BY <1>6 DEF CallCount, CallSubscribe, CallUnsubscribe, Lock, Subscribe, Unsubscribe,
                OrderInv
  <2>. QED
    BY <2>1, <2>2, QuietStep
<1>7. ASSUME NEW c \in Client, Receive(c)
      PROVE  Rounds' /\ PublisherOrder'
  <2>1. UNCHANGED <<call, readers, round, todo>>
    BY <1>7 DEF Receive
  <2>2. \A d \in Client : Feed(d)' = Feed(d)
    BY <1>7, ReceiveFeed DEF OrderInv
  <2>. HIDE DEF Feed
  <2>. QED
    BY <2>1, <2>2, QuietStep
<1>8. CASE UNCHANGED vars
  <2>1. UNCHANGED <<call, readers, round, todo, chan, received>>
    BY <1>8 DEF vars
  <2>. QED
    BY <2>1, QuietStep, <1>1 DEF OrderInv
<1>. HIDE DEF TypeOK, Rounds, Feed
<1>. QED
  BY <1>1, <1>2, <1>3, <1>4, <1>5, <1>6, <1>7, <1>8, SendStep
     DEF Next, PublisherStep, ClientStep, OrderInv

LEMMA InitOrderInv == Init => OrderInv
<1>1. Init => TypeOK /\ Walks
  BY BrokerAssumption DEF Init, TypeOK, Walks, Caller
<1>2. Init => \A c \in Client : Feed(c) = << >>
  BY DEF Init, Feed
<1>3. Init => Rounds /\ PublisherOrder
  BY <1>2 DEF Init, Rounds, PublisherOrder, Caller
<1>. QED
  BY <1>1, <1>3 DEF OrderInv

LEMMA OrderInvariant == Spec => []OrderInv
<1>1. OrderInv /\ [Next]_vars => OrderInv'
  BY OrderStep
<1>. QED
  BY <1>1, InitOrderInv, PTL DEF Spec

\* However publishers interleave, a client receives the batches of each of them
\* in order and none twice.
THEOREM PublisherOrderHolds == Spec => []PublisherOrder
<1>1. OrderInv => PublisherOrder
  BY DEF OrderInv
<1>. QED
  BY <1>1, OrderInvariant, PTL

-----------------------------------------------------------------------------
(* Every subscriber is offered every batch, and nobody else.               *)

Got(p, c) == \E i \in DOMAIN Feed(c) : Feed(c)[i] = Current(p)
Lost(p, c) == Current(p) \in missed[c]

\* p has offered its batch to c.
Visited(p, c) == p \in readers /\ c \in subs /\ c \notin todo[p]

\* A visited subscriber has got the batch or missed it, and everybody else
\* neither; nobody has missed a batch of a later call.
Offer(p, c) ==
  /\ \A b \in missed[c] : b.by = p => b.round <= round[p]
  /\ call[p] = "publish" /\ Visited(p, c) => (Got(p, c) <=> ~Lost(p, c))
  /\ call[p] = "publish" /\ ~Visited(p, c) => ~Got(p, c) /\ ~Lost(p, c)

Offers == \A p \in Publisher, c \in Client : Offer(p, c)

FanInv == OrderInv /\ Offers

\* What p has offered to c is as it was.
LEMMA OfferKept ==
  ASSUME NEW p \in Publisher, NEW c \in Client, Offer(p, c),
         Feed(c)' = Feed(c), missed'[c] = missed[c], round'[p] = round[p],
         call'[p] = "publish" => call[p] = "publish" /\ (Visited(p, c)' <=> Visited(p, c))
  PROVE  Offer(p, c)'
<1>1. Got(p, c)' <=> Got(p, c)
  BY DEF Got, Current
<1>2. Lost(p, c)' <=> Lost(p, c)
  BY DEF Lost, Current
<1>. QED
  BY <1>1, <1>2 DEF Offer

\* A new batch is nobody's yet.
LEMMA CallPublishOffers ==
  ASSUME FanInv, NEW p \in Publisher, CallPublish(p)
  PROVE  Offers'
<1>1. /\ TypeOK /\ Rounds /\ Offers
      /\ call[p] = "none" /\ call' = [call EXCEPT ![p] = "publish"]
      /\ round' = [round EXCEPT ![p] = round[p] + 1]
      /\ UNCHANGED <<readers, todo, subs, chan, received, missed>>
  BY DEF FanInv, OrderInv, CallPublish, Enter, lockVars, clientVars
<1>2. \A c \in Client : Feed(c)' = Feed(c)
  BY <1>1 DEF Feed
<1>3. round[p] \in Nat /\ round'[p] = round[p] + 1
  BY <1>1 DEF TypeOK
<1>4. \A q \in Publisher \ {p} : round'[q] = round[q] /\ call'[q] = call[q]
  BY <1>1 DEF TypeOK
<1>5. p \notin readers
  BY <1>1 DEF TypeOK
<1>6. ASSUME NEW c \in Client
      PROVE  Offer(p, c)'
  <2>1. \A b \in missed[c] : b.by = p => b.round \in Nat /\ b.round <= round[p]
    BY <1>1 DEF Offers, Offer, TypeOK, Batch
  <2>2. \A b \in missed'[c] : b.by = p => b.round <= round'[p]
    BY <1>1, <1>3, <2>1
  <2>3. Current(p)'.by = p /\ Current(p)'.round = round[p] + 1
    BY <1>3 DEF Current
  <2>4. ~Lost(p, c)'
    BY <1>1, <1>3, <2>1, <2>3 DEF Lost
  <2>5. \A i \in DOMAIN Feed(c) :
          Feed(c)[i].by = p => Feed(c)[i].round \in Nat /\ Feed(c)[i].round <= round[p]
    BY <1>1, FeedType DEF Rounds
  <2>6. ~Got(p, c)'
    BY <1>2, <1>3, <2>3, <2>5 DEF Got
  <2>7. ~Visited(p, c)'
    BY <1>1, <1>5 DEF Visited
  <2>. QED
    BY <2>2, <2>4, <2>6, <2>7 DEF Offer
<1>7. ASSUME NEW q \in Publisher \ {p}, NEW c \in Client
      PROVE  Offer(q, c)'
  <2>1. Visited(q, c)' <=> Visited(q, c)
    BY <1>1 DEF Visited
  <2>2. Offer(q, c)
    BY <1>1 DEF Offers
  <2>. QED
    BY <1>1, <1>2, <1>4, <2>1, <2>2, OfferKept
<1>. QED
  BY <1>6, <1>7 DEF Offers

\* The batch is offered to one subscriber, who gets it or misses it.
LEMMA VisitOffers ==
  ASSUME FanInv, NEW p \in Publisher, NEW c \in Client, Send(p, c) \/ Drop(p, c)
  PROVE  Offers'
<1>1. /\ TypeOK /\ Walks /\ Rounds /\ Offers
      /\ c \in todo[p] /\ todo' = [todo EXCEPT ![p] = todo[p] \ {c}]
      /\ UNCHANGED <<call, readers, subs, round, received>>
  BY DEF FanInv, OrderInv, Send, Drop, lockVars
<1>2. p \in readers /\ c \in subs /\ call[p] = "publish"
  BY <1>1 DEF Walks, TypeOK, Rounds
<1>3. ~Got(p, c) /\ ~Lost(p, c)
  BY <1>1, <1>2 DEF Offers, Offer, Visited
<1>4. Visited(p, c)'
  BY <1>1, <1>2 DEF Visited, TypeOK
<1>5. \A q \in Publisher, d \in Client :
        q # p \/ d # c => (Visited(q, d)' <=> Visited(q, d))
  BY <1>1 DEF Visited, TypeOK
<1>6. /\ \A q \in Publisher : Current(q)' = Current(q) /\ Current(q).by = q /\ Current(q).round = round[q]
      /\ \A d \in Client : \A q \in Publisher : Offer(q, d)
      /\ round[p] \in Nat
  BY <1>1 DEF Current, Offers, TypeOK
<1>7. CASE Send(p, c)
  <2>1. missed' = missed
    BY <1>7 DEF Send
  <2>2. /\ Current(p) \in Batch /\ Feed(c)' = Append(Feed(c), Current(p))
        /\ \A d \in Client \ {c} : Feed(d)' = Feed(d)
    BY <1>1, <1>7, SendFeed
  <2>3. PICK f \in Seq(Batch) : f = Feed(c)
    BY <1>1, FeedType
  <2>4. PICK g : g = Append(f, Current(p))
    OBVIOUS
  <2>5. /\ DOMAIN f = 1 .. Len(f) /\ DOMAIN g = 1 .. Len(f) + 1 /\ Len(f) \in Nat
        /\ g[Len(f) + 1] = Current(p) /\ \A i \in 1 .. Len(f) : g[i] = f[i]
    BY <2>2, <2>4
  <2>6. \A x : (\E i \in DOMAIN g : g[i] = x) <=> x = Current(p) \/ \E i \in DOMAIN f : f[i] = x
    BY <2>5
  <2>7. Feed(c)' = g
    BY <2>2, <2>3, <2>4
  <2>8. \A q \in Publisher : Got(q, c)' <=> Current(q) = Current(p) \/ Got(q, c)
    <3>1. ASSUME NEW q \in Publisher
          PROVE  Got(q, c)' <=> \E i \in DOMAIN g : g[i] = Current(q)
      BY <1>6, <2>7 DEF Got
    <3>2. ASSUME NEW q \in Publisher
          PROVE  Got(q, c) <=> \E i \in DOMAIN f : f[i] = Current(q)
      BY <2>3 DEF Got
    <3>. QED
      BY <2>6, <3>1, <3>2
  <2>9. \A q \in Publisher, d \in Client : Lost(q, d)' <=> Lost(q, d)
    BY <1>6, <2>1 DEF Lost
  <2>10. Offer(p, c)'
    BY <1>1, <1>3, <1>4, <1>6, <2>1, <2>8, <2>9 DEF Offer
  <2>11. ASSUME NEW q \in Publisher \ {p}
         PROVE  Offer(q, c)'
    <3>1. (Got(q, c)' <=> Got(q, c)) /\ (Lost(q, c)' <=> Lost(q, c)) /\ (Visited(q, c)' <=> Visited(q, c))
      BY <1>5, <1>6, <2>8, <2>9
    <3>. QED
      BY <1>1, <1>6, <2>1, <3>1 DEF Offer
  <2>12. ASSUME NEW q \in Publisher, NEW d \in Client \ {c}
         PROVE  Offer(q, d)'
    BY <1>1, <1>5, <1>6, <2>1, <2>2, OfferKept
  <2>. QED
    BY <2>10, <2>11, <2>12 DEF Offers
<1>8. CASE Drop(p, c)
  <2>1. missed' = [missed EXCEPT ![c] = missed[c] \cup {Current(p)}] /\ chan' = chan
    BY <1>8 DEF Drop
  <2>2. \A d \in Client : Feed(d)' = Feed(d)
    BY <1>1, <2>1 DEF Feed
  <2>3. /\ missed'[c] = missed[c] \cup {Current(p)}
        /\ \A d \in Client \ {c} : missed'[d] = missed[d]
    BY <1>1, <2>1 DEF TypeOK
  <2>4. \A q \in Publisher, d \in Client : Got(q, d)' <=> Got(q, d)
    BY <1>6, <2>2 DEF Got
  <2>5. \A q \in Publisher : Lost(q, c)' <=> Current(q) = Current(p) \/ Lost(q, c)
    BY <1>6, <2>3 DEF Lost
  <2>6. Offer(p, c)'
    BY <1>1, <1>3, <1>4, <1>6, <2>3, <2>4, <2>5 DEF Offer
  <2>7. ASSUME NEW q \in Publisher \ {p}
        PROVE  Offer(q, c)'
    <3>1. (Got(q, c)' <=> Got(q, c)) /\ (Lost(q, c)' <=> Lost(q, c)) /\ (Visited(q, c)' <=> Visited(q, c))
      BY <1>5, <1>6, <2>4, <2>5
    <3>2. \A b \in missed'[c] : b.by = q => b \in missed[c]
      BY <1>6, <2>3
    <3>. QED
      BY <1>1, <1>6, <3>1, <3>2 DEF Offer
  <2>8. ASSUME NEW q \in Publisher, NEW d \in Client \ {c}
        PROVE  Offer(q, d)'
    BY <1>1, <1>5, <1>6, <2>2, <2>3, OfferKept
  <2>. QED
    BY <2>6, <2>7, <2>8 DEF Offers
<1>. QED
  BY <1>7, <1>8

\* No other step offers a batch. Clients come and go while nobody walks the map.
LEMMA NothingOffered ==
  ASSUME Offers, UNCHANGED <<round, missed>>,
         \A c \in Client : Feed(c)' = Feed(c),
         \A p \in Publisher :
           call'[p] = "publish" =>
             /\ call[p] = "publish"
             /\ \A c \in Client : Visited(p, c)' <=> Visited(p, c)
  PROVE  Offers'
<1>1. ASSUME NEW p \in Publisher, NEW c \in Client
      PROVE  Offer(p, c)'
  <2>1. Offer(p, c)
    BY DEF Offers
  <2>. QED
    BY <2>1, OfferKept
<1>. QED
  BY <1>1 DEF Offers

LEMMA FanStep ==
  ASSUME FanInv, [Next]_vars
  PROVE  FanInv'
<1>1. OrderInv' /\ TypeOK /\ Offers
  BY OrderStep DEF FanInv, OrderInv
<1>2. ASSUME NEW p \in Caller, RLock(p)
      PROVE  Offers'
  <2>1. /\ UNCHANGED <<call, round, chan, received, missed, subs>>
        /\ readers' = readers \cup {p} /\ p \notin readers
        /\ IF call[p] = "publish" THEN todo' = [todo EXCEPT ![p] = subs] ELSE todo' = todo
    BY <1>2 DEF RLock, clientVars
  <2>2. ASSUME NEW q \in Publisher, NEW c \in Client, call'[q] = "publish"
        PROVE  Visited(q, c)' <=> Visited(q, c)
    <3>1. CASE q = p
      BY <1>1, <2>1, <2>2, <3>1 DEF Visited, TypeOK
    <3>2. CASE q # p
      BY <1>1, <2>1, <3>2 DEF Visited, TypeOK
    <3>. QED
      BY <3>1, <3>2
  <2>3. \A c \in Client : Feed(c)' = Feed(c)
    BY <2>1 DEF Feed
  <2>. QED
    BY <1>1, <2>1, <2>2, <2>3, NothingOffered
<1>3. ASSUME NEW p \in Caller, RUnlock(p)
      PROVE  Offers'
  <2>1. /\ UNCHANGED <<round, todo, chan, received, missed, subs>>
        /\ readers' = readers \ {p} /\ call' = [call EXCEPT ![p] = "none"]
    BY <1>3 DEF RUnlock, clientVars
  <2>2. \A q \in Publisher :
          call'[q] = "publish" =>
            /\ call[q] = "publish"
            /\ \A c \in Client : Visited(q, c)' <=> Visited(q, c)
    BY <1>1, <2>1 DEF Visited, TypeOK, Caller
  <2>3. \A c \in Client : Feed(c)' = Feed(c)
    BY <2>1 DEF Feed
  <2>. QED
    BY <1>1, <2>1, <2>2, <2>3, NothingOffered
<1>4. ASSUME NEW c \in Client,
             CallCount(c) \/ CallSubscribe(c) \/ CallUnsubscribe(c) \/ Lock(c)
      PROVE  Offers'
  <2>1. UNCHANGED <<readers, round, todo, chan, received, missed, subs>>
    BY <1>4 DEF CallCount, CallSubscribe, CallUnsubscribe, Lock, lockVars, clientVars
  <2>2. \A q \in Publisher : call'[q] = call[q]
    BY <1>1, <1>4, BrokerAssumption
       DEF CallCount, CallSubscribe, CallUnsubscribe, Lock, Enter, TypeOK, Caller
  <2>3. \A q \in Publisher, d \in Client : Feed(d)' = Feed(d) /\ (Visited(q, d)' <=> Visited(q, d))
    BY <2>1 DEF Feed, Visited
  <2>4. \A d \in Client : Feed(d)' = Feed(d)
    BY <2>1 DEF Feed
  <2>. QED
    BY <1>1, <2>1, <2>2, <2>3, <2>4, NothingOffered
<1>5. ASSUME NEW c \in Client, Subscribe(c) \/ Unsubscribe(c)
      PROVE  Offers'
  <2>1. readers = {} /\ UNCHANGED <<readers, round, todo, chan, received, missed>>
    BY <1>5 DEF Subscribe, Unsubscribe, Locked, Unlock
  <2>2. \A q \in Publisher : call'[q] = call[q]
    BY <1>1, <1>5, BrokerAssumption DEF Subscribe, Unsubscribe, Unlock, TypeOK, Caller
  <2>3. \A q \in Publisher, d \in Client : Visited(q, d)' <=> Visited(q, d)
    BY <2>1 DEF Visited
  <2>4. \A d \in Client : Feed(d)' = Feed(d)
    BY <2>1 DEF Feed
  <2>. QED
    BY <1>1, <2>1, <2>2, <2>3, <2>4, NothingOffered
<1>6. ASSUME NEW c \in Client, Receive(c)
      PROVE  Offers'
  <2>1. UNCHANGED <<call, readers, round, todo, missed, subs>>
    BY <1>6 DEF Receive, lockVars
  <2>2. \A q \in Publisher, d \in Client : Visited(q, d)' <=> Visited(q, d)
    BY <2>1 DEF Visited
  <2>3. \A d \in Client : Feed(d)' = Feed(d)
    BY <1>1, <1>6, ReceiveFeed
  <2>. QED
    BY <1>1, <2>1, <2>2, <2>3, NothingOffered
<1>7. ASSUME UNCHANGED vars
      PROVE  Offers'
  <2>1. UNCHANGED <<call, readers, round, todo, chan, received, missed, subs>>
    BY <1>7 DEF vars
  <2>2. \A q \in Publisher, d \in Client : Visited(q, d)' <=> Visited(q, d)
    BY <2>1 DEF Visited
  <2>3. \A d \in Client : Feed(d)' = Feed(d)
    BY <2>1 DEF Feed
  <2>. QED
    BY <1>1, <2>1, <2>2, <2>3, NothingOffered
<1>8. Offers'
  BY <1>2, <1>3, <1>4, <1>5, <1>6, <1>7, CallPublishOffers, VisitOffers
     DEF Next, PublisherStep, ClientStep, Caller
<1>. QED
  BY <1>1, <1>8 DEF FanInv

\* When Publish returns, each subscriber has got the batch or missed it, and
\* nobody else has; and who misses a batch has a full channel.
THEOREM FanOutHolds == Spec => FanOut
<1>1. Init => Offers
  <2>1. Init => \A c \in Client : Feed(c) = << >>
    BY DEF Init, Feed
  <2>. QED
    BY <2>1 DEF Init, Offers, Offer, Got, Lost, Caller
<1>2. FanInv /\ [Next]_vars => FanInv'
  BY FanStep
<1>3. ASSUME FanInv, NEW p \in Publisher, RUnlock(p), NEW c \in Client
      PROVE  LET got == \E i \in DOMAIN Feed(c) : Feed(c)[i] = Current(p)
                 lost == Current(p) \in missed[c]
             IN  IF c \in subs THEN got # lost ELSE ~got /\ ~lost
  <2>1. p \in readers /\ todo[p] = {} /\ call[p] = "publish"
    BY <1>3 DEF RUnlock, FanInv, OrderInv, TypeOK, Rounds
  <2>2. IF c \in subs THEN Got(p, c) <=> ~Lost(p, c) ELSE ~Got(p, c) /\ ~Lost(p, c)
    BY <1>3, <2>1 DEF FanInv, Offers, Offer, Visited
  <2>. QED
    BY <2>2 DEF Got, Lost
<1>4. ASSUME OrderInv, [Next]_vars, NEW c \in Client, missed'[c] # missed[c]
      PROVE  Len(chan[c]) = Capacity
  <2>1. PICK p \in Publisher, d \in Client : Drop(p, d)
    BY <1>4 DEF Next, vars, clientVars, PublisherStep, ClientStep, CallPublish, CallCount,
                RLock, RUnlock, Send, CallSubscribe, CallUnsubscribe, Lock, Subscribe,
                Unsubscribe, Unlock, Receive
  <2>2. d = c
    BY <1>4, <2>1 DEF Drop, OrderInv, TypeOK
  <2>. QED
    BY <1>4, <2>1, <2>2, BrokerAssumption DEF Drop, HasRoom, OrderInv, TypeOK
<1>. DEFINE Returned ==
       /\ \A p \in Publisher : RUnlock(p) =>
            \A c \in Client :
              LET got == \E i \in DOMAIN Feed(c) : Feed(c)[i] = Current(p)
                  lost == Current(p) \in missed[c]
              IN  IF c \in subs THEN got # lost ELSE ~got /\ ~lost
       /\ \A c \in Client : missed'[c] # missed[c] => Len(chan[c]) = Capacity
<1>5. FanInv /\ [Next]_vars => [Returned]_vars
  BY <1>3, <1>4 DEF FanInv
<1>6. Init /\ OrderInv => FanInv
  BY <1>1 DEF FanInv
<1>7. FanOut <=> [][Returned]_vars
  BY DEF FanOut
<1>. QED
  BY <1>2, <1>5, <1>6, <1>7, OrderInvariant, PTL DEF Spec

=============================================================================
