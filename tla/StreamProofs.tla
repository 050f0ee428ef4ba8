---------------------------- MODULE StreamProofs ----------------------------
(***************************************************************************)
(* Proofs about module Stream, for any publishers and connections, any     *)
(* capacity of the channels, any length of a batch and any number of       *)
(* calls. What BrokerProofs proves of the broker's steps is carried over:  *)
(* a step of a handler is a step of the broker, or none of the broker's.   *)
(***************************************************************************)
EXTENDS Stream, Integers, TLAPS

BusFacts == INSTANCE BrokerProofs

LEMMA Sizes == BatchLen \in Nat \ {0} /\ Publisher \cap Client = {} /\ NoOne \notin Client
BY StreamAssumption DEF Bus!BrokerAssumption

LEMMA BusAssumption == BusFacts!BrokerAssumption
BY StreamAssumption DEF Bus!BrokerAssumption, BusFacts!BrokerAssumption

-----------------------------------------------------------------------------
(* The events of the batches, in the order in which they are written.      *)

\* The i-th event of the batches r.
EventAt(r, i) == EventsOf(r[1 + ((i - 1) \div BatchLen)])[1 + ((i - 1) % BatchLen)]

\* w and then l are the events of r, in order; l is of the last batch.
Follows(r, w, l) ==
  /\ Len(l) <= BatchLen
  /\ Len(w) + Len(l) = BatchLen * Len(r)
  /\ \A i \in 1 .. Len(w) : w[i] = EventAt(r, i)
  /\ \A k \in 1 .. Len(l) : l[k] = EventsOf(r[Len(r)])[BatchLen - Len(l) + k]

\* Quotient and remainder are what they should be.
LEMMA Division ==
  ASSUME NEW a \in Nat, NEW d \in Nat \ {0}
  PROVE  /\ a \div d \in Nat /\ a % d \in 0 .. d - 1
         /\ a - d * (a \div d) = a % d
OBVIOUS

LEMMA Multiples ==
  ASSUME NEW i \in Nat, NEW j \in Nat, NEW d \in Nat \ {0}, i < j
  PROVE  d * i + d <= d * j /\ d * i \in Nat /\ d * j \in Nat
OBVIOUS

LEMMA Quotient ==
  ASSUME NEW d \in Nat \ {0}, NEW q \in Nat, NEW x \in 0 .. d - 1
  PROVE  (d * q + x) \div d = q /\ (d * q + x) % d = x
<1>1. PICK a \in Nat : a = d * q + x
  <2>1. d * q \in Nat
    OBVIOUS
  <2>. QED
    BY <2>1
<1>2. PICK p \in Nat, y \in 0 .. d - 1 : p = a \div d /\ y = a % d /\ a - d * p = y
  BY Division
<1>3. PICK dq \in Nat, dp \in Nat : dq = d * q /\ dp = d * p
  OBVIOUS
<1>4. q < p => dq + d <= dp
  BY <1>3, Multiples
<1>5. p < q => dp + d <= dq
  BY <1>3, Multiples
<1>6. a = dq + x /\ a = dp + y
  BY <1>1, <1>2, <1>3
<1>7. p = q
  BY <1>4, <1>5, <1>6
<1>8. y = x
  BY <1>3, <1>6, <1>7
<1>. QED
  BY <1>1, <1>2, <1>7, <1>8

\* The events up to the n-th batch's last are of the first n batches.
LEMMA BatchOf ==
  ASSUME NEW d \in Nat \ {0}, NEW n \in Nat, NEW i \in 1 .. d * n
  PROVE  1 + ((i - 1) \div d) \in 1 .. n
<1>1. PICK dn \in Nat : dn = d * n
  OBVIOUS
<1>2. i - 1 \in Nat /\ i - 1 < dn
  BY <1>1
<1>3. PICK p \in Nat, y \in 0 .. d - 1 : p = (i - 1) \div d /\ (i - 1) - d * p = y
  BY <1>2, Division
<1>4. PICK dp \in Nat : dp = d * p
  OBVIOUS
<1>5. n < p => dn + d <= dp
  BY <1>1, <1>4, Multiples
<1>6. n = p => dn = dp
  BY <1>1, <1>4
<1>7. i - 1 = dp + y
  BY <1>3, <1>4
<1>8. p < n
  BY <1>2, <1>5, <1>6, <1>7
<1>. QED
  BY <1>3, <1>8

LEMMA SequenceFacts ==
  ASSUME NEW S, NEW q \in Seq(S)
  PROVE  /\ Len(q) \in Nat /\ DOMAIN q = 1 .. Len(q)
         /\ \A i \in 1 .. Len(q) : q[i] \in S
         /\ q # << >> =>
              /\ Head(q) \in S /\ Head(q) = q[1] /\ Len(q) >= 1
              /\ Tail(q) \in Seq(S) /\ Len(Tail(q)) = Len(q) - 1
              /\ \A i \in 1 .. Len(q) - 1 : Tail(q)[i] = q[i + 1]
         /\ \A x \in S :
              /\ Append(q, x) \in Seq(S) /\ Len(Append(q, x)) = Len(q) + 1
              /\ Append(q, x)[Len(q) + 1] = x
              /\ \A i \in 1 .. Len(q) : Append(q, x)[i] = q[i]
OBVIOUS

\* A batch is taken when nothing is left of the last one.
LEMMA TakeFollows ==
  ASSUME NEW S, NEW r \in Seq(S), NEW b \in S, NEW T, NEW w \in Seq(T), Follows(r, w, << >>)
  PROVE  Follows(Append(r, b), w, EventsOf(b))
<1>1. PICK n \in Nat : n = Len(r)
  BY SequenceFacts
<1>2. PICK s : s = Append(r, b)
  OBVIOUS
<1>3. Len(s) = n + 1 /\ s[n + 1] = b /\ \A j \in 1 .. n : s[j] = r[j]
  BY <1>1, <1>2, SequenceFacts
<1>4. PICK l : l = EventsOf(b)
  OBVIOUS
<1>5. Len(l) = BatchLen
  BY <1>4, Sizes DEF EventsOf
<1>6. Len(w) \in Nat /\ Len(w) = BatchLen * n /\ \A i \in 1 .. Len(w) : w[i] = EventAt(r, i)
  <2>1. Len(<< >>) = 0
    OBVIOUS
  <2>2. Len(w) \in Nat
    BY SequenceFacts
  <2>. QED
    BY <1>1, <2>1, <2>2 DEF Follows
<1>7. ASSUME NEW i \in 1 .. Len(w)
      PROVE  w[i] = EventAt(s, i)
  <2>1. 1 + ((i - 1) \div BatchLen) \in 1 .. n
    BY <1>6, Sizes, BatchOf
  <2>. QED
    BY <1>3, <1>6, <2>1 DEF EventAt
<1>8. Len(w) + Len(l) = BatchLen * Len(s)
  <2>1. BatchLen * (n + 1) = BatchLen * n + BatchLen
    BY Sizes
  <2>. QED
    BY <1>3, <1>5, <1>6, <2>1
<1>9. ASSUME NEW k \in 1 .. Len(l)
      PROVE  l[k] = EventsOf(s[Len(s)])[BatchLen - Len(l) + k]
  <2>1. BatchLen - Len(l) + k = k
    BY <1>5, Sizes
  <2>. QED
    BY <1>3, <1>4, <2>1
<1>. QED
  BY <1>2, <1>4, <1>5, <1>7, <1>8, <1>9, Sizes DEF Follows

\* The next event goes out.
LEMMA WriteFollows ==
  ASSUME NEW S, NEW r \in Seq(S), NEW T, NEW w \in Seq(T), NEW l \in Seq(T),
         Follows(r, w, l), l # << >>
  PROVE  Follows(r, Append(w, Head(l)), Tail(l))
<1>1. PICK n \in Nat, m \in Nat, v \in Nat : n = Len(r) /\ m = Len(l) /\ v = Len(w)
  BY SequenceFacts
<1>2. PICK x, t, u : x = Head(l) /\ t = Tail(l) /\ u = Append(w, x)
  OBVIOUS
<1>3. /\ x = l[1] /\ m >= 1 /\ x \in T /\ t \in Seq(T) /\ Len(t) = m - 1
      /\ \A k \in 1 .. m - 1 : t[k] = l[k + 1]
  BY <1>1, <1>2, SequenceFacts
<1>4. Len(u) = v + 1 /\ u[v + 1] = x /\ \A i \in 1 .. v : u[i] = w[i]
  BY <1>1, <1>2, <1>3, SequenceFacts
<1>5. PICK all \in Nat : all = BatchLen * n
  BY Sizes
<1>6. m <= BatchLen /\ v + m = all
  BY <1>1, <1>5 DEF Follows
<1>7. n >= 1
  <2>1. n = 0 => all = 0
    BY <1>5, Sizes
  <2>. QED
    BY <1>3, <1>6, <2>1
<1>8. x = EventAt(r, v + 1)
  <2>1. x = EventsOf(r[n])[BatchLen - m + 1]
    BY <1>1, <1>3, <1>6 DEF Follows
  <2>2. BatchLen * (n - 1) + BatchLen = all
    BY <1>5, Sizes
  <2>3. PICK less \in Int : less = BatchLen * (n - 1)
    BY Sizes
  <2>4. v = less + (BatchLen - m)
    BY <1>6, <2>2, <2>3, Sizes
  <2>5. n - 1 \in Nat /\ BatchLen - m \in 0 .. BatchLen - 1
    BY <1>3, <1>6, <1>7, Sizes
  <2>6. v \div BatchLen = n - 1 /\ v % BatchLen = BatchLen - m
    BY <2>3, <2>4, <2>5, Sizes, Quotient
  <2>7. (v + 1) - 1 = v /\ 1 + (n - 1) = n /\ 1 + (BatchLen - m) = BatchLen - m + 1
    BY Sizes
  <2>. QED
    BY <2>1, <2>6, <2>7 DEF EventAt
<1>9. ASSUME NEW i \in 1 .. Len(u)
      PROVE  u[i] = EventAt(r, i)
  <2>1. CASE i = v + 1
    BY <1>4, <1>8, <2>1
  <2>2. CASE i # v + 1
    <3>1. i \in 1 .. v
      BY <1>4, <2>2
    <3>. QED
      BY <1>1, <1>4, <3>1 DEF Follows
  <2>. QED
    BY <2>1, <2>2
<1>10. ASSUME NEW k \in 1 .. Len(t)
       PROVE  t[k] = EventsOf(r[n])[BatchLen - Len(t) + k]
  <2>1. k \in 1 .. m - 1 /\ k + 1 \in 1 .. m
    BY <1>3
  <2>2. l[k + 1] = EventsOf(r[n])[BatchLen - m + (k + 1)]
    BY <1>1, <2>1 DEF Follows
  <2>3. BatchLen - Len(t) + k = BatchLen - m + (k + 1)
    BY <1>3, <2>1, Sizes
  <2>. QED
    BY <1>3, <2>1, <2>2, <2>3
<1>11. Len(t) <= BatchLen /\ Len(u) + Len(t) = all
  BY <1>3, <1>4, <1>6, Sizes
<1>. QED
  BY <1>1, <1>2, <1>5, <1>9, <1>10, <1>11 DEF Follows

-----------------------------------------------------------------------------
(* The inductive invariant.                                                *)

Item == [by : Publisher, round : Nat, nth : 1 .. BatchLen]

TypeOK ==
  /\ pos \in [Client -> {"away", "open", "joined", "loop", "writing", "leaving", "gone"}]
  /\ left \in [Client -> Seq(Item)]
  /\ wire \in [Client -> Seq(Item)]
  /\ net \in [Client -> {"up", "stalled", "broken"}]

\* Where a handler is tells which call of the broker it is in, and whether its
\* channel is in the map.
Place(c) ==
  /\ pos[c] \in {"away", "open"} => call[c] = "none" /\ c \notin joined
  /\ pos[c] = "joined" =>
       \/ call[c] = "subscribe" /\ c \notin joined
       \/ call[c] = "none" /\ c \in subs
  /\ pos[c] \in {"loop", "writing"} => call[c] \in {"none", "count"} /\ c \in subs
  /\ pos[c] = "leaving" =>
       \/ call[c] = "unsubscribe" /\ c \in subs
       \/ call[c] = "none" /\ c \notin subs /\ closes[c] = 1
  /\ pos[c] = "gone" => call[c] \in {"none", "count"} /\ c \notin subs /\ closes[c] = 1

\* What was written, and what is left, are the events of what was received.
Writing(c) ==
  /\ Follows(received[c], wire[c], left[c])
  /\ pos[c] = "writing" => left[c] # << >>
  /\ left[c] # << >> =>
       \/ pos[c] = "writing"
       \/ net[c] = "broken" /\ pos[c] \in {"leaving", "gone"}

IInv ==
  /\ BusFacts!OrderInv
  /\ TypeOK
  /\ \A c \in Client : Place(c) /\ Writing(c)

-----------------------------------------------------------------------------
(* The broker.                                                             *)

Sent == [by : Publisher, round : Nat]
Methods == {"none", "publish", "count", "subscribe", "unsubscribe"}

\* The two instances of Broker are the same.
LEMMA BusNext == Bus!Next => BusFacts!Next
BY DEF Bus!Next, Bus!PublisherStep, Bus!ClientStep, Bus!CallPublish, Bus!CallCount,
       Bus!CallSubscribe, Bus!CallUnsubscribe, Bus!RLock, Bus!RUnlock, Bus!Send, Bus!Drop,
       Bus!Lock, Bus!Subscribe, Bus!Unsubscribe, Bus!Receive, Bus!Enter, Bus!Locked,
       Bus!Unlock, Bus!HasRoom, Bus!Current, Bus!lockVars, Bus!clientVars,
       BusFacts!Next, BusFacts!PublisherStep, BusFacts!ClientStep, BusFacts!CallPublish,
       BusFacts!CallCount, BusFacts!CallSubscribe, BusFacts!CallUnsubscribe,
       BusFacts!RLock, BusFacts!RUnlock, BusFacts!Send, BusFacts!Drop, BusFacts!Lock,
       BusFacts!Subscribe, BusFacts!Unsubscribe, BusFacts!Receive, BusFacts!Enter,
       BusFacts!Locked, BusFacts!Unlock, BusFacts!HasRoom, BusFacts!Current,
       BusFacts!lockVars, BusFacts!clientVars

\* The invariant of the broker holds with these clients as with any.
LEMMA BusKeeps ==
  ASSUME BusFacts!OrderInv, Bus!Next \/ UNCHANGED brokerVars
  PROVE  BusFacts!OrderInv'
<1>1. [BusFacts!Next]_(BusFacts!vars)
  BY BusNext DEF brokerVars, BusFacts!vars
<1>. QED
  BY <1>1, BusAssumption, BusFacts!OrderStep

LEMMA BusTypes ==
  ASSUME BusFacts!OrderInv
  PROVE  /\ call \in [Publisher \cup Client -> Methods]
         /\ \A p \in readers : p \in Publisher \cup Client /\ call[p] \in {"publish", "count"}
         /\ subs \subseteq Client /\ joined \subseteq Client /\ closes \in [Client -> Nat]
         /\ chan \in [Client -> Seq(Sent)] /\ received \in [Client -> Seq(Sent)]
         /\ \A c \in subs : closes[c] = 0 /\ c \in joined
         /\ \A c \in Client : c \notin joined => closes[c] = 0
BY DEF BusFacts!OrderInv, BusFacts!TypeOK, BusFacts!Walks, BusFacts!Caller, BusFacts!Batch,
       Sent, Methods

-----------------------------------------------------------------------------
(* Steps.                                                                  *)

\* A connection that a step does not concern.
LEMMA PlaceKept ==
  ASSUME NEW c \in Client, Place(c), pos'[c] = pos[c], call'[c] = call[c],
         c \in joined' <=> c \in joined, c \in subs' <=> c \in subs, closes'[c] = closes[c]
  PROVE  Place(c)'
BY DEF Place

LEMMA WritingKept ==
  ASSUME NEW c \in Client, Writing(c), received'[c] = received[c], wire'[c] = wire[c],
         left'[c] = left[c], pos'[c] = pos[c], net'[c] = net[c]
  PROVE  Writing(c)'
BY DEF Writing

\* A step in which no call but a count ends.
LEMMA PlacesKept ==
  ASSUME \A c \in Client : Place(c), UNCHANGED <<pos, joined, subs, closes>>,
         \A c \in Client : call'[c] = call[c] \/ (call[c] = "count" /\ call'[c] = "none")
  PROVE  \A c \in Client : Place(c)'
BY DEF Place

\* The steps inside the broker.
LEMMA BusStep ==
  ASSUME IInv, UNCHANGED <<pos, left, wire, net>>,
         \/ \E p \in Publisher : Bus!CallPublish(p) \/ Bus!PublisherStep(p)
         \/ \E c \in Client : Bus!ClientStep(c)
  PROVE  IInv'
<1>1. BusFacts!OrderInv /\ TypeOK /\ \A c \in Client : Place(c) /\ Writing(c)
  BY DEF IInv
<1>2. BusFacts!OrderInv' /\ TypeOK'
  BY <1>1, BusKeeps DEF Bus!Next, TypeOK
<1>3. received' = received
  BY DEF Bus!CallPublish, Bus!PublisherStep, Bus!ClientStep, Bus!RLock, Bus!RUnlock, Bus!Send,
         Bus!Drop, Bus!Lock, Bus!Subscribe, Bus!Unsubscribe, Bus!Unlock, Bus!clientVars
<1>4. \A c \in Client : Writing(c)'
  BY <1>1, <1>3, WritingKept
<1>6. ASSUME NEW p \in Publisher, Bus!CallPublish(p)
      PROVE  \A c \in Client : Place(c)'
  <2>1. UNCHANGED <<joined, subs, closes>> /\ \A c \in Client : call'[c] = call[c]
    BY <1>1, <1>6, BusTypes, Sizes DEF Bus!CallPublish, Bus!Enter, Bus!clientVars
  <2>. QED
    BY <1>1, <2>1, PlacesKept
<1>7. ASSUME NEW p \in Publisher \cup Client, Bus!RLock(p)
      PROVE  \A c \in Client : Place(c)'
  BY <1>1, <1>7, PlacesKept DEF Bus!RLock, Bus!clientVars
<1>8. ASSUME NEW p \in Publisher \cup Client, Bus!RUnlock(p)
      PROVE  \A c \in Client : Place(c)'
  <2>1. /\ UNCHANGED <<joined, subs, closes>> /\ p \in readers
        /\ call' = [call EXCEPT ![p] = "none"]
    BY <1>8 DEF Bus!RUnlock, Bus!clientVars
  <2>2. call[p] \in {"publish", "count"}
    BY <1>1, <2>1, BusTypes
  <2>3. ASSUME NEW c \in Client, call[c] = "publish"
        PROVE  FALSE
    BY <1>1, <2>3 DEF Place, TypeOK
  <2>4. \A c \in Client : call'[c] = call[c] \/ (call[c] = "count" /\ call'[c] = "none")
    BY <1>1, <2>1, <2>2, <2>3, BusTypes
  <2>. QED
    BY <1>1, <2>1, <2>4, PlacesKept
<1>9. ASSUME NEW p \in Publisher, NEW c \in Client, Bus!Send(p, c) \/ Bus!Drop(p, c)
      PROVE  \A d \in Client : Place(d)'
  BY <1>1, <1>9, PlacesKept DEF Bus!Send, Bus!Drop
<1>10. ASSUME NEW c \in Client, Bus!Lock(c)
       PROVE  \A d \in Client : Place(d)'
  BY <1>1, <1>10, PlacesKept DEF Bus!Lock, Bus!clientVars
<1>11. ASSUME NEW c \in Client, Bus!Subscribe(c)
       PROVE  \A d \in Client : Place(d)'
  <2>1. /\ call[c] = "subscribe" /\ call' = [call EXCEPT ![c] = "none"]
        /\ subs' = subs \cup {c} /\ joined' = joined \cup {c} /\ closes' = closes
    BY <1>11 DEF Bus!Subscribe, Bus!Unlock
  <2>2. pos[c] = "joined" /\ call'[c] = "none"
    BY <1>1, <2>1, BusTypes DEF Place, TypeOK
  <2>3. Place(c)'
    BY <2>1, <2>2 DEF Place
  <2>4. ASSUME NEW d \in Client \ {c}
        PROVE  Place(d)'
    BY <1>1, <2>1, BusTypes, PlaceKept
  <2>. QED
    BY <2>3, <2>4
<1>12. ASSUME NEW c \in Client, Bus!Unsubscribe(c)
       PROVE  \A d \in Client : Place(d)'
  <2>1. /\ call[c] = "unsubscribe" /\ call' = [call EXCEPT ![c] = "none"] /\ joined' = joined
        /\ IF c \in subs
             THEN subs' = subs \ {c} /\ closes' = [closes EXCEPT ![c] = closes[c] + 1]
             ELSE UNCHANGED <<subs, closes>>
    BY <1>12 DEF Bus!Unsubscribe, Bus!Unlock
  <2>2. pos[c] = "leaving" /\ c \in subs /\ call'[c] = "none"
    BY <1>1, <2>1, BusTypes DEF Place, TypeOK
  <2>3. closes[c] = 0 /\ closes' = [closes EXCEPT ![c] = closes[c] + 1] /\ subs' = subs \ {c}
    BY <1>1, <2>1, <2>2, BusTypes
  <2>4. closes'[c] = 1
    BY <1>1, <2>3, BusTypes
  <2>5. Place(c)'
    BY <2>2, <2>3, <2>4 DEF Place
  <2>6. ASSUME NEW d \in Client \ {c}
        PROVE  Place(d)'
    BY <1>1, <2>1, <2>3, BusTypes, PlaceKept
  <2>. QED
    BY <2>5, <2>6
<1>13. \A c \in Client : Place(c)'
  BY <1>6, <1>7, <1>8, <1>9, <1>10, <1>11, <1>12 DEF Bus!PublisherStep, Bus!ClientStep
<1>. QED
  BY <1>2, <1>4, <1>13 DEF IInv

\* A step of the handler of c, and what is to be shown of it.
LEMMA HandlerStep ==
  ASSUME IInv, NEW c \in Client,
         Bus!Next \/ UNCHANGED brokerVars, TypeOK', Place(c)', Writing(c)',
         \A d \in Client \ {c} :
           /\ pos'[d] = pos[d] /\ call'[d] = call[d] /\ closes'[d] = closes[d]
           /\ received'[d] = received[d] /\ wire'[d] = wire[d] /\ left'[d] = left[d]
           /\ net'[d] = net[d] /\ (d \in joined' <=> d \in joined) /\ (d \in subs' <=> d \in subs)
  PROVE  IInv'
<1>1. BusFacts!OrderInv'
  BY BusKeeps DEF IInv
<1>2. ASSUME NEW d \in Client
      PROVE  Place(d)' /\ Writing(d)'
  <2>1. CASE d = c
    BY <2>1
  <2>2. CASE d # c
    BY <2>2, PlaceKept, WritingKept DEF IInv
  <2>. QED
    BY <2>1, <2>2
<1>. QED
  BY <1>1, <1>2 DEF IInv

\* A step between two calls, in which nothing is written.
LEMMA CallStep ==
  ASSUME IInv, NEW c \in Client, NEW to, NEW method \in Methods,
         Bus!Next \/ UNCHANGED brokerVars,
         to \in {"open", "joined", "loop", "leaving", "gone"},
         call' = [call EXCEPT ![c] = method], pos' = [pos EXCEPT ![c] = to],
         UNCHANGED <<joined, subs, closes, received, wire, left, net>>,
         Place(c)',
         left[c] # << >> => net[c] = "broken" /\ to \in {"leaving", "gone"}
  PROVE  IInv'
<1>1. BusFacts!OrderInv /\ TypeOK /\ Place(c) /\ Writing(c)
  BY DEF IInv
<1>2. pos'[c] = to
  BY <1>1 DEF TypeOK
<1>3. TypeOK'
  BY <1>1 DEF TypeOK
<1>4. Writing(c)'
  BY <1>1, <1>2 DEF Writing
<1>5. \A d \in Client \ {c} : pos'[d] = pos[d] /\ call'[d] = call[d]
  BY <1>1, BusTypes DEF TypeOK
<1>. QED
  BY <1>3, <1>4, <1>5, HandlerStep

LEMMA JoinStep ==
  ASSUME IInv, NEW c \in Client, Open(c) \/ Join(c) \/ LogJoined(c)
  PROVE  IInv'
<1>1. BusFacts!OrderInv /\ TypeOK /\ Place(c) /\ Writing(c)
  BY DEF IInv
<1>2. CASE Open(c)
  <2>1. /\ pos[c] = "away" /\ call[c] = "none" /\ pos' = [pos EXCEPT ![c] = "open"]
        /\ UNCHANGED <<call, joined, subs, closes, received, wire, left, net>>
        /\ UNCHANGED brokerVars
    BY <1>2 DEF Open, Goes, netVars, brokerVars
  <2>2. pos'[c] = "open" /\ call' = [call EXCEPT ![c] = "none"]
    BY <1>1, <2>1, BusTypes DEF TypeOK
  <2>3. Place(c)' /\ left[c] = << >>
    BY <1>1, <2>1, <2>2 DEF Place, Writing
  <2>. QED
    BY <2>1, <2>2, <2>3, CallStep DEF Methods
<1>3. CASE Join(c)
  <2>1. /\ pos[c] = "open" /\ c \notin joined
        /\ call' = [call EXCEPT ![c] = "subscribe"] /\ pos' = [pos EXCEPT ![c] = "joined"]
        /\ UNCHANGED <<joined, subs, closes, received, wire, left, net>>
    BY <1>3 DEF Join, Goes, netVars, Bus!CallSubscribe, Bus!Enter, Bus!clientVars
  <2>2. pos'[c] = "joined" /\ call'[c] = "subscribe"
    BY <1>1, <2>1, BusTypes DEF TypeOK
  <2>3. Place(c)' /\ left[c] = << >>
    BY <1>1, <2>1, <2>2 DEF Place, Writing
  <2>4. Bus!Next
    BY <1>3 DEF Join, Bus!Next
  <2>. QED
    BY <2>1, <2>3, <2>4, CallStep DEF Methods
<1>4. CASE LogJoined(c)
  <2>1. /\ pos[c] = "joined" /\ call[c] = "none"
        /\ call' = [call EXCEPT ![c] = "count"] /\ pos' = [pos EXCEPT ![c] = "loop"]
        /\ UNCHANGED <<joined, subs, closes, received, wire, left, net>>
    BY <1>4 DEF LogJoined, Goes, netVars, Bus!CallCount, Bus!Enter, Bus!clientVars
  <2>2. pos'[c] = "loop" /\ call'[c] = "count"
    BY <1>1, <2>1, BusTypes DEF TypeOK
  <2>3. Place(c)' /\ left[c] = << >>
    BY <1>1, <2>1, <2>2 DEF Place, Writing
  <2>4. Bus!Next
    BY <1>4 DEF LogJoined, Bus!Next
  <2>. QED
    BY <2>1, <2>3, <2>4, CallStep DEF Methods
<1>. QED
  BY <1>2, <1>3, <1>4

\* A handler leaves from its loop, or from a batch when the connection is broken.
LEMMA LeaveStep ==
  ASSUME IInv, NEW c \in Client, WriteFails(c) \/ PingFails(c) \/ ContextDone(c) \/ LogLeft(c)
  PROVE  IInv'
<1>1. BusFacts!OrderInv /\ TypeOK /\ Place(c) /\ Writing(c)
  BY DEF IInv
<1>2. ASSUME NEW from \in {"loop", "writing"}, Leave(c, from), from = "writing" => net[c] = "broken"
      PROVE  IInv'
  <2>1. /\ pos[c] = from
        /\ call' = [call EXCEPT ![c] = "unsubscribe"] /\ pos' = [pos EXCEPT ![c] = "leaving"]
        /\ UNCHANGED <<joined, subs, closes, received, wire, left, net>>
    BY <1>2 DEF Leave, Goes, netVars, Bus!CallUnsubscribe, Bus!Enter, Bus!clientVars
  <2>2. pos'[c] = "leaving" /\ call'[c] = "unsubscribe"
    BY <1>1, <2>1, BusTypes DEF TypeOK
  <2>3. Place(c)' /\ (left[c] # << >> => net[c] = "broken")
    BY <1>1, <1>2, <2>1, <2>2 DEF Place, Writing
  <2>4. Bus!Next
    BY <1>2 DEF Leave, Bus!Next
  <2>. QED
    BY <2>1, <2>3, <2>4, CallStep DEF Methods
<1>3. CASE LogLeft(c)
  <2>1. /\ pos[c] = "leaving" /\ call[c] = "none"
        /\ call' = [call EXCEPT ![c] = "count"] /\ pos' = [pos EXCEPT ![c] = "gone"]
        /\ UNCHANGED <<joined, subs, closes, received, wire, left, net>>
    BY <1>3 DEF LogLeft, Goes, netVars, Bus!CallCount, Bus!Enter, Bus!clientVars
  <2>2. pos'[c] = "gone" /\ call'[c] = "count"
    BY <1>1, <2>1, BusTypes DEF TypeOK
  <2>3. Place(c)' /\ (left[c] # << >> => net[c] = "broken")
    BY <1>1, <2>1, <2>2 DEF Place, Writing
  <2>4. Bus!Next
    BY <1>3 DEF LogLeft, Bus!Next
  <2>. QED
    BY <2>1, <2>3, <2>4, CallStep DEF Methods
<1>. QED
  BY <1>2, <1>3 DEF WriteFails, PingFails, ContextDone

LEMMA TakeStep ==
  ASSUME IInv, NEW c \in Client, Take(c)
  PROVE  IInv'
<1>1. BusFacts!OrderInv /\ TypeOK /\ Place(c) /\ Writing(c)
  BY DEF IInv
<1>2. /\ pos[c] = "loop" /\ chan[c] # << >>
      /\ pos' = [pos EXCEPT ![c] = "writing"]
      /\ received' = [received EXCEPT ![c] = Append(received[c], Head(chan[c]))]
      /\ left' = [left EXCEPT ![c] = EventsOf(Head(chan[c]))]
      /\ UNCHANGED <<call, joined, subs, closes, wire, net>>
  BY DEF Take, Goes, netVars, Bus!Receive
<1>3. Bus!Next
  BY DEF Take, Bus!Next
<1>4. PICK b \in Sent : b = Head(chan[c])
  BY <1>1, <1>2, BusTypes, SequenceFacts
<1>5. EventsOf(b) \in Seq(Item) /\ EventsOf(b) # << >>
  <2>1. EventsOf(b) \in [1 .. BatchLen -> Item]
    BY DEF EventsOf, Item, Sent
  <2>2. [1 .. BatchLen -> Item] \subseteq Seq(Item)
    BY Sizes
  <2>3. DOMAIN EventsOf(b) = 1 .. BatchLen /\ 1 \in 1 .. BatchLen
    BY Sizes DEF EventsOf
  <2>4. DOMAIN << >> = {}
    OBVIOUS
  <2>5. EventsOf(b) # << >>
    BY <2>3, <2>4
  <2>6. EventsOf(b) \in Seq(Item)
    BY <2>1, <2>2
  <2>. QED
    BY <2>5, <2>6
<1>6. /\ pos'[c] = "writing" /\ left'[c] = EventsOf(b)
      /\ received'[c] = Append(received[c], b) /\ wire'[c] = wire[c]
      /\ received[c] \in Seq(Sent) /\ wire[c] \in Seq(Item)
  BY <1>1, <1>2, <1>4, BusTypes DEF TypeOK
<1>7. TypeOK'
  <2>1. left' \in [Client -> Seq(Item)]
    BY <1>1, <1>2, <1>4, <1>5 DEF TypeOK
  <2>. QED
    BY <1>1, <1>2, <2>1 DEF TypeOK
<1>8. Place(c)'
  BY <1>1, <1>2, <1>6 DEF Place
<1>9. Writing(c)'
  <2>1. left[c] = << >>
    BY <1>1, <1>2 DEF Writing
  <2>2. Follows(received[c], wire[c], << >>)
    BY <1>1, <2>1 DEF Writing
  <2>3. Follows(Append(received[c], b), wire[c], EventsOf(b))
    BY <1>6, <2>2, TakeFollows
  <2>. QED
    BY <1>5, <1>6, <2>3 DEF Writing
<1>10. \A d \in Client \ {c} :
         pos'[d] = pos[d] /\ received'[d] = received[d] /\ left'[d] = left[d]
  BY <1>1, <1>2, BusTypes DEF TypeOK
<1>. QED
  BY <1>2, <1>3, <1>7, <1>8, <1>9, <1>10, HandlerStep

LEMMA WriteStep ==
  ASSUME IInv, NEW c \in Client, Write(c)
  PROVE  IInv'
<1>1. BusFacts!OrderInv /\ TypeOK /\ Place(c) /\ Writing(c)
  BY DEF IInv
<1>2. /\ pos[c] = "writing"
      /\ pos' = [pos EXCEPT ![c] = IF Len(left[c]) = 1 THEN "loop" ELSE "writing"]
      /\ wire' = [wire EXCEPT ![c] = Append(wire[c], Head(left[c]))]
      /\ left' = [left EXCEPT ![c] = Tail(left[c])]
      /\ UNCHANGED <<call, joined, subs, closes, received, net>>
      /\ UNCHANGED brokerVars
  BY DEF Write, Goes, netVars, brokerVars
<1>3. PICK l \in Seq(Item), w \in Seq(Item), r \in Seq(Sent) :
        l = left[c] /\ w = wire[c] /\ r = received[c]
  BY <1>1, BusTypes DEF TypeOK
<1>4. l # << >> /\ Follows(r, w, l)
  BY <1>1, <1>2, <1>3 DEF Writing
<1>5. /\ Head(l) \in Item /\ Tail(l) \in Seq(Item) /\ Append(w, Head(l)) \in Seq(Item)
      /\ Len(l) \in Nat /\ Len(Tail(l)) = Len(l) - 1
  BY <1>4, SequenceFacts
<1>6. Follows(r, Append(w, Head(l)), Tail(l))
  BY <1>4, WriteFollows
<1>7. Len(l) = 1 <=> Tail(l) = << >>
  <2>1. \A t \in Seq(Item) : t = << >> <=> Len(t) = 0
    OBVIOUS
  <2>2. Len(l) = 1 <=> Len(Tail(l)) = 0
    BY <1>5
  <2>. QED
    BY <1>5, <2>1, <2>2
<1>8. /\ pos'[c] = IF Len(l) = 1 THEN "loop" ELSE "writing"
      /\ left'[c] = Tail(l) /\ wire'[c] = Append(w, Head(l)) /\ received'[c] = r
  BY <1>1, <1>2, <1>3 DEF TypeOK
<1>9. TypeOK'
  <2>1. left' \in [Client -> Seq(Item)]
    BY <1>1, <1>2, <1>3, <1>5 DEF TypeOK
  <2>2. wire' \in [Client -> Seq(Item)]
    BY <1>1, <1>2, <1>3, <1>5 DEF TypeOK
  <2>. QED
    BY <1>1, <1>2, <2>1, <2>2 DEF TypeOK
<1>10. Place(c)'
  BY <1>1, <1>2, <1>8 DEF Place
<1>11. Writing(c)'
  BY <1>6, <1>7, <1>8 DEF Writing
<1>12. \A d \in Client \ {c} : pos'[d] = pos[d] /\ wire'[d] = wire[d] /\ left'[d] = left[d]
  BY <1>1, <1>2 DEF TypeOK
<1>. QED
  BY <1>2, <1>9, <1>10, <1>11, <1>12, HandlerStep

\* A broken connection stays broken.
LEMMA EnvironmentStep ==
  ASSUME IInv, NEW c \in Client, Environment(c)
  PROVE  IInv'
<1>1. BusFacts!OrderInv /\ TypeOK /\ \A d \in Client : Place(d) /\ Writing(d)
  BY DEF IInv
<1>2. UNCHANGED <<call, joined, subs, closes, received, pos, left, wire>> /\ UNCHANGED brokerVars
  BY DEF Environment, Network, Cancel, brokerVars, handlerVars
<1>3. /\ net' \in [Client -> {"up", "stalled", "broken"}]
      /\ \A d \in Client : net[d] = "broken" => net'[d] = "broken"
  BY <1>1 DEF Environment, Network, Cancel, TypeOK
<1>4. BusFacts!OrderInv' /\ TypeOK'
  BY <1>1, <1>2, <1>3, BusKeeps DEF TypeOK
<1>5. \A d \in Client : Place(d)' /\ Writing(d)'
  BY <1>1, <1>2, <1>3 DEF Place, Writing
<1>. QED
  BY <1>4, <1>5 DEF IInv

LEMMA InitIInv == Init => IInv
<1>. SUFFICES ASSUME Init
              PROVE  IInv
  OBVIOUS
<1>1. BusFacts!Init
  BY DEF Init, Bus!Init, Bus!Caller, BusFacts!Init, BusFacts!Caller
<1>2. BusFacts!OrderInv
  BY <1>1, BusAssumption, BusFacts!InitOrderInv
<1>3. TypeOK
  BY DEF Init, TypeOK
<1>4. /\ call = [p \in Publisher \cup Client |-> "none"] /\ joined = {}
      /\ received = [c \in Client |-> << >>]
  BY DEF Init, Bus!Init, Bus!Caller
<1>5. Follows(<< >>, << >>, << >>)
  <2>1. Len(<< >>) = 0 /\ 1 .. 0 = {} /\ BatchLen * 0 = 0
    BY Sizes
  <2>. QED
    BY <2>1, Sizes DEF Follows
<1>6. \A c \in Client : Place(c) /\ Writing(c)
  BY <1>4, <1>5 DEF Init, Place, Writing
<1>. QED
  BY <1>2, <1>3, <1>6 DEF IInv

LEMMA StepIInv == IInv /\ [Next]_vars => IInv'
<1>. SUFFICES ASSUME IInv, [Next]_vars
              PROVE  IInv'
  OBVIOUS
<1>1. ASSUME NEW p \in Publisher, Publish(p)
      PROVE  IInv'
  BY <1>1, BusStep DEF Publish, InBroker, handlerVars, netVars
<1>2. ASSUME NEW c \in Client, CallGoesOn(c)
      PROVE  IInv'
  BY <1>2, BusStep DEF CallGoesOn, InBroker, handlerVars, netVars
<1>3. ASSUME NEW c \in Client, Handler(c) \/ Environment(c)
      PROVE  IInv'
  BY <1>3, JoinStep, LeaveStep, TakeStep, WriteStep, EnvironmentStep DEF Handler
<1>4. ASSUME UNCHANGED vars
      PROVE  IInv'
  <2>1. UNCHANGED brokerVars /\ UNCHANGED <<call, joined, subs, closes, received, pos, left, wire, net>>
    BY <1>4 DEF vars, brokerVars, handlerVars, netVars
  <2>. QED
    BY <2>1, BusKeeps, PlaceKept, WritingKept DEF IInv, TypeOK
<1>. QED
  BY <1>1, <1>2, <1>3, <1>4 DEF Next

LEMMA IInvInvariant == Spec => []IInv
BY InitIInv, StepIInv, PTL DEF Spec

-----------------------------------------------------------------------------
(* The theorems.                                                           *)

\* The broker's promise holds with the handlers of the program as its clients.
THEOREM PublisherOrderHolds == Spec => []PublisherOrder
<1>1. IInv => PublisherOrder
  BY DEF IInv, PublisherOrder, Bus!PublisherOrder, Bus!Feed,
         BusFacts!OrderInv, BusFacts!PublisherOrder, BusFacts!Feed
<1>. QED
  BY <1>1, IInvInvariant, PTL

\* A handler forwards while it is subscribed, and leaves nothing behind.
THEOREM NoLeakHolds == Spec => []NoLeak
<1>1. IInv => NoLeak
  BY BusTypes DEF IInv, Place, NoLeak
<1>. QED
  BY <1>1, IInvInvariant, PTL

\* What goes out, and what is in hand, are the batches that were received, whole
\* and in order.
THEOREM WireCompleteHolds == Spec => []WireComplete
<1>1. ASSUME IInv, NEW c \in Client
      PROVE  /\ Len(wire[c]) + Len(left[c]) = BatchLen * Len(received[c])
             /\ \A i \in DOMAIN wire[c] : wire[c][i] = EventAt(received[c], i)
             /\ left[c] # << >> => pos[c] = "writing" \/ net[c] = "broken"
  <2>1. DOMAIN wire[c] = 1 .. Len(wire[c])
    BY <1>1, SequenceFacts DEF IInv, TypeOK
  <2>. QED
    BY <1>1, <2>1 DEF IInv, Writing, Follows
<1>2. IInv => WireComplete
  BY <1>1 DEF WireComplete, EventAt
<1>. QED
  BY <1>2, IInvInvariant, PTL

=============================================================================
