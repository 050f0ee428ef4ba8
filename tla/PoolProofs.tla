----------------------------- MODULE PoolProofs -----------------------------
(***************************************************************************)
(* Proofs about module Pool, for every set of events and of workers, every *)
(* buffer size and every batch size.                                       *)
(***************************************************************************)
EXTENDS Pool, FiniteSetTheorems, TLAPS

-----------------------------------------------------------------------------
(* Facts about sequences.                                                  *)

LEMMA AppendType ==
  ASSUME NEW S, NEW s \in Seq(S), NEW x \in S
  PROVE  /\ Append(s, x) \in Seq(S)
         /\ Append(s, x) # << >>
         /\ Len(s) \in Nat
         /\ Len(Append(s, x)) = Len(s) + 1
OBVIOUS

LEMMA HeadTailType ==
  ASSUME NEW S, NEW s \in Seq(S), s # << >>
  PROVE  /\ Head(s) \in S
         /\ Tail(s) \in Seq(S)
         /\ Len(s) \in Nat \ {0}
         /\ Len(Tail(s)) = Len(s) - 1
OBVIOUS

\* Appending x adds x to the elements, and nothing else.
LEMMA ElemsAppend ==
  ASSUME NEW S, NEW s \in Seq(S), NEW x \in S
  PROVE  Elems(Append(s, x)) = Elems(s) \cup {x}
<1>1. /\ Append(s, x) \in Seq(S)
      /\ Len(Append(s, x)) = Len(s) + 1
      /\ \A i \in 1 .. Len(s) : Append(s, x)[i] = s[i]
      /\ Append(s, x)[Len(s) + 1] = x
  OBVIOUS
<1>2. DOMAIN s = 1 .. Len(s) /\ DOMAIN Append(s, x) = 1 .. Len(s) + 1
  BY <1>1
<1>. QED
  BY <1>1, <1>2 DEF Elems

\* A nonempty sequence has its head and the elements of its tail.
LEMMA ElemsTail ==
  ASSUME NEW S, NEW s \in Seq(S), s # << >>
  PROVE  Elems(s) = {Head(s)} \cup Elems(Tail(s))
<1>1. /\ Tail(s) \in Seq(S)
      /\ Len(s) \in Nat \ {0}
      /\ Len(Tail(s)) = Len(s) - 1
      /\ Head(s) = s[1]
      /\ \A i \in 1 .. Len(s) - 1 : Tail(s)[i] = s[i + 1]
  OBVIOUS
<1>2. DOMAIN s = 1 .. Len(s) /\ DOMAIN Tail(s) = 1 .. Len(s) - 1
  BY <1>1
<1>3. ASSUME NEW e \in Elems(s)
      PROVE  e \in {Head(s)} \cup Elems(Tail(s))
  <2>1. PICK i \in 1 .. Len(s) : e = s[i]
    BY <1>2 DEF Elems
  <2>2. CASE i = 1
    BY <1>1, <2>1, <2>2
  <2>3. CASE i # 1
    <3>1. i - 1 \in DOMAIN Tail(s) /\ e = Tail(s)[i - 1]
      BY <1>1, <1>2, <2>1, <2>3
    <3>. QED
      BY <3>1 DEF Elems
  <2>. QED
    BY <2>2, <2>3
<1>4. Head(s) \in Elems(s)
  BY <1>1, <1>2 DEF Elems
<1>5. ASSUME NEW e \in Elems(Tail(s))
      PROVE  e \in Elems(s)
  <2>1. PICK i \in 1 .. Len(s) - 1 : e = Tail(s)[i]
    BY <1>2 DEF Elems
  <2>2. i + 1 \in DOMAIN s /\ e = s[i + 1]
    BY <1>1, <1>2, <2>1
  <2>. QED
    BY <2>2 DEF Elems
<1>. QED
  BY <1>3, <1>4, <1>5

LEMMA ElemsType ==
  ASSUME NEW S, NEW s \in Seq(S)
  PROVE  /\ \A e \in Elems(s) : e \in S
         /\ s = << >> <=> Elems(s) = {}
  BY DEF Elems

\* Appending an element of higher rank keeps a sequence in order.
LEMMA IncreasingAppend ==
  ASSUME NEW S, NEW r \in [S -> Nat], NEW s \in Seq(S), NEW x \in S,
         Increasing(r, s), \A e \in Elems(s) : r[e] < r[x]
  PROVE  Increasing(r, Append(s, x))
<1>1. /\ DOMAIN s = 1 .. Len(s) /\ DOMAIN Append(s, x) = 1 .. Len(s) + 1
      /\ \A i \in 1 .. Len(s) : Append(s, x)[i] = s[i] /\ s[i] \in Elems(s)
      /\ Append(s, x)[Len(s) + 1] = x
      /\ Len(s) \in Nat
  BY DEF Elems
<1>. QED
  BY <1>1 DEF Increasing

\* The tail of an ordered sequence is in order, and ranks above its head.
LEMMA IncreasingTail ==
  ASSUME NEW S, NEW r \in [S -> Nat], NEW s \in Seq(S), s # << >>,
         Increasing(r, s)
  PROVE  /\ Increasing(r, Tail(s))
         /\ \A e \in Elems(Tail(s)) : r[Head(s)] < r[e]
<1>1. /\ Tail(s) \in Seq(S)
      /\ Len(s) \in Nat \ {0}
      /\ DOMAIN s = 1 .. Len(s)
      /\ DOMAIN Tail(s) = 1 .. Len(s) - 1
      /\ Head(s) = s[1]
      /\ \A i \in 1 .. Len(s) - 1 : Tail(s)[i] = s[i + 1]
  OBVIOUS
<1>2. Increasing(r, Tail(s))
  <2>1. SUFFICES ASSUME NEW i \in DOMAIN Tail(s), NEW j \in DOMAIN Tail(s), i < j
                 PROVE  r[Tail(s)[i]] < r[Tail(s)[j]]
    BY DEF Increasing
  <2>2. i + 1 \in DOMAIN s /\ j + 1 \in DOMAIN s /\ i + 1 < j + 1
    BY <1>1, <2>1
  <2>3. r[s[i + 1]] < r[s[j + 1]]
    BY <2>2 DEF Increasing
  <2>. QED
    BY <1>1, <2>3
<1>3. \A i \in 1 .. Len(s) - 1 : r[s[1]] < r[s[i + 1]]
  BY <1>1 DEF Increasing
<1>. QED
  BY <1>1, <1>2, <1>3 DEF Elems

-----------------------------------------------------------------------------
(* Types and capacities.                                                   *)

\* Worker w is on its way out, or out.
Leaving(w) ==
  \/ pc[w] = "exited"
  \/ pc[w] \in {"insert", "publish"} /\ after[w] = "exited"

\* What the place of a worker says about its batch and about the channel. The
\* bound on a waiting worker's batch is what makes TypeOK inductive.
Flow ==
  /\ \A w \in Worker : pc[w] \in {"unborn", "exited"} => batch[w] = << >>
  /\ \A w \in Worker : pc[w] = "select" => Len(batch[w]) < BatchSize
  /\ \A w \in Worker : pc[w] \in {"insert", "publish"} => batch[w] # << >>
  /\ \A w \in Worker : Leaving(w) => shutdown # "running" /\ events = << >>
  /\ shutdown = "returned" => AllExited

TypeFlow == TypeOK /\ Flow

LEMMA InitTypeFlow == Init => TypeFlow
BY PoolAssumption DEF Init, TypeFlow, TypeOK, Flow, Leaving, AllExited

LEMMA StepTypeFlow == TypeFlow /\ [Next]_vars => TypeFlow'
<1>. SUFFICES ASSUME TypeFlow, [Next]_vars
              PROVE  TypeFlow'
  OBVIOUS
<1>. USE PoolAssumption DEF TypeFlow
<1>1. CASE Start
  BY <1>1 DEF Start, TypeOK, Flow, Leaving, AllExited, clientVars, flushVars
<1>2. ASSUME NEW e \in Event, Accept(e)
      PROVE  TypeFlow'
  <2>1. TypeOK'
    BY <1>2 DEF Accept, Arrives, HasRoom, TypeOK, workerVars, flushVars
  <2>2. Flow'
    BY <1>2 DEF Accept, Arrives, TypeOK, Flow, Leaving, AllExited, workerVars
  <2>. QED
    BY <2>1, <2>2
<1>3. ASSUME NEW e \in Event, Reject(e) \/ SubmitClosed(e)
      PROVE  TypeFlow'
  BY <1>3 DEF Reject, SubmitClosed, Arrives, TypeOK, Flow, Leaving, AllExited,
              workerVars, flushVars
<1>4. ASSUME NEW w \in Worker, Receive(w)
      PROVE  TypeFlow'
  <2>1. /\ pc[w] = "select"
        /\ events # << >>
        /\ Head(events) \in Event
        /\ events' = Tail(events)
        /\ events' \in Seq(Event)
        /\ Len(events') <= BufferSize
    BY <1>4, HeadTailType DEF Receive, TypeOK
  <2>2. PICK b \in Seq(Event) :
          /\ b # << >>
          /\ Len(b) \in Nat /\ Len(b) <= BatchSize
          /\ batch' = [batch EXCEPT ![w] = b]
          /\ IF Len(b) >= BatchSize
               THEN after' = [after EXCEPT ![w] = "select"] /\ pc' = [pc EXCEPT ![w] = "insert"]
               ELSE UNCHANGED <<pc, after>>
    <3>. DEFINE b == Append(batch[w], Head(events))
    <3>1. /\ b \in Seq(Event) /\ b # << >>
          /\ Len(b) \in Nat /\ Len(b) <= BatchSize
      <4>1. batch[w] \in Seq(Event) /\ Len(batch[w]) < BatchSize
        BY <2>1 DEF TypeOK, Flow
      <4>2. b \in Seq(Event) /\ b # << >> /\ Len(batch[w]) \in Nat /\ Len(b) = Len(batch[w]) + 1
        BY <2>1, <4>1, AppendType
      <4>. HIDE DEF b
      <4>. QED
        BY <4>1, <4>2
    <3>. QED
      BY <1>4, <3>1 DEF Receive, CallFlush, Full
  <2>3. UNCHANGED <<shutdown, outcome, ticket, admitted, tick, inserts, published>>
    BY <1>4 DEF Receive, clientVars, flushVars
  <2>4. TypeOK'
    BY <2>1, <2>2, <2>3 DEF TypeOK
  <2>5. \A v \in Worker : ~Leaving(v)
    BY <2>1 DEF Flow
  <2>6. \A v \in Worker : ~Leaving(v)'
    BY <2>1, <2>2, <2>5 DEF Leaving, TypeOK
  <2>7. shutdown # "returned"
    BY <2>1 DEF Flow, AllExited
  <2>8. \A v \in Worker :
          /\ pc'[v] \in {"unborn", "exited"} => batch'[v] = << >>
          /\ pc'[v] = "select" => Len(batch'[v]) < BatchSize
          /\ pc'[v] \in {"insert", "publish"} => batch'[v] # << >>
    BY <2>1, <2>2 DEF TypeOK, Flow
  <2>. QED
    BY <2>3, <2>4, <2>6, <2>7, <2>8 DEF Flow
<1>5. ASSUME NEW w \in Worker, ReceiveClosed(w) \/ ReceiveTick(w)
      PROVE  TypeFlow'
  <2>1. TypeOK'
    BY <1>5 DEF ReceiveClosed, ReceiveTick, CallFlush, TypeOK, clientVars, flushVars
  <2>2. Flow'
    BY <1>5 DEF ReceiveClosed, ReceiveTick, CallFlush, TypeOK, Flow, Leaving, AllExited
  <2>. QED
    BY <2>1, <2>2
<1>6. ASSUME NEW w \in Worker, InsertSucceeds(w)
      PROVE  TypeFlow'
  BY <1>6 DEF InsertSucceeds, TypeOK, Flow, Leaving, AllExited, clientVars
<1>7. ASSUME NEW w \in Worker, InsertFails(w) \/ Publish(w)
      PROVE  TypeFlow'
  <2>1. /\ pc[w] \in {"insert", "publish"}
        /\ batch' = [batch EXCEPT ![w] = << >>]
        /\ pc' = [pc EXCEPT ![w] = after[w]]
        /\ UNCHANGED <<events, shutdown, outcome, ticket, admitted, after, tick>>
    BY <1>7 DEF InsertFails, Publish, ReturnFromFlush, clientVars
  <2>2. /\ inserts' \in Seq([by : Worker, batch : Seq(Event), ok : BOOLEAN])
        /\ published' \in Seq(Seq(Event))
    <3>1. batch[w] \in Seq(Event)
      BY DEF TypeOK
    <3>2. [by |-> w, batch |-> batch[w], ok |-> FALSE] \in [by : Worker, batch : Seq(Event), ok : BOOLEAN]
      BY <3>1
    <3>3. CASE InsertFails(w)
      BY <3>2, <3>3, AppendType DEF InsertFails, TypeOK
    <3>4. CASE Publish(w)
      BY <3>1, <3>4, AppendType DEF Publish, TypeOK
    <3>. QED
      BY <1>7, <3>3, <3>4
  <2>3. << >> \in Seq(Event) /\ Len(<< >>) = 0
    OBVIOUS
  <2>4. TypeOK'
    BY <2>1, <2>2, <2>3 DEF TypeOK
  <2>5. Flow'
    BY <2>1, <2>3 DEF TypeOK, Flow, Leaving, AllExited
  <2>. QED
    BY <2>4, <2>5
<1>8. ASSUME NEW w \in Worker, TickerFires(w)
      PROVE  TypeFlow'
  BY <1>8 DEF TickerFires, TypeOK, Flow, Leaving, AllExited, clientVars, flushVars
<1>9. CASE CloseEvents \/ WaitReturns
  BY <1>9 DEF CloseEvents, WaitReturns, TypeOK, Flow, Leaving, AllExited,
              clientVars, workerVars, flushVars
<1>10. CASE UNCHANGED vars
  BY <1>10 DEF vars, TypeOK, Flow, Leaving, AllExited
<1>. QED
  BY <1>1, <1>2, <1>3, <1>4, <1>5, <1>6, <1>7, <1>8, <1>9, <1>10
     DEF Next, Submit, WorkerStep

LEMMA TypeFlowInvariant == Spec => []TypeFlow
BY InitTypeFlow, StepTypeFlow, PTL DEF Spec

\* The channel never exceeds BufferSize, no batch ever exceeds BatchSize, and
\* every variable keeps its type.
THEOREM TypeCorrect == Spec => []TypeOK
<1>1. TypeFlow => TypeOK
  BY DEF TypeFlow
<1>. QED
  BY <1>1, TypeFlowInvariant, PTL

-----------------------------------------------------------------------------
(* The inductive invariant.                                                *)

Tickets ==
  /\ \A e \in Event : Accepted(e) <=> ticket[e] # 0
  /\ \A e \in Event : ticket[e] <= admitted

\* WorkerOrder says how the batches that are done rank among each other; what
\* keeps it true is how they rank below the events that are still to come.
FlushedFirst ==
  /\ \A n \in DOMAIN inserts : Below(ticket, inserts[n].batch, events)
  /\ \A n \in DOMAIN inserts :
       pc[inserts[n].by] # "publish" =>
         Below(ticket, inserts[n].batch, batch[inserts[n].by])

\* An event that a worker holds is held by no other one, publishing or not.
OneHolder ==
  \A v, w \in Worker, e \in Event :
    e \in Elems(batch[v]) /\ e \in Elems(batch[w]) => v = w

\* A worker publishes the batch it has just committed.
Handover ==
  \A w \in Worker : pc[w] = "publish" =>
    \E n \in DOMAIN inserts :
      inserts[n].ok /\ inserts[n].by = w /\ inserts[n].batch = batch[w]

IInv ==
  /\ TypeFlow
  /\ Tickets
  /\ WorkerOrder
  /\ FlushedFirst
  /\ OneHolder
  /\ Handover
  /\ Conservation
  /\ PublishedCommitted

\* Appending to the history of inserts keeps its entries and adds one.
LEMMA AppendEntries ==
  ASSUME NEW S, NEW s \in Seq(S), NEW x \in S
  PROVE  /\ DOMAIN Append(s, x) = DOMAIN s \cup {Len(s) + 1}
         /\ Len(s) + 1 \in Nat
         /\ \A n \in DOMAIN s : n \in Nat /\ n < Len(s) + 1 /\ Append(s, x)[n] = s[n]
         /\ Append(s, x)[Len(s) + 1] = x
OBVIOUS

LEMMA InsertType ==
  ASSUME TypeOK, NEW n \in DOMAIN inserts
  PROVE  /\ inserts[n].by \in Worker
         /\ inserts[n].batch \in Seq(Event)
         /\ inserts[n].ok \in BOOLEAN
<1>. DEFINE S == [by : Worker, batch : Seq(Event), ok : BOOLEAN]
<1>1. inserts \in Seq(S)
  BY DEF TypeOK
<1>. HIDE DEF S
<1>2. inserts[n] \in S
  BY <1>1
<1>. QED
  BY <1>2 DEF S

LEMMA InitIInv == Init => IInv
<1>. SUFFICES ASSUME Init
              PROVE  IInv
  OBVIOUS
<1>1. TypeFlow
  BY InitTypeFlow
<1>2. /\ Elems(<< >>) = {}
      /\ DOMAIN << >> = {}
  BY DEF Elems
<1>3. Tickets /\ OneHolder /\ Handover
  BY <1>2 DEF Init, Tickets, Accepted, OneHolder, Handover
<1>4. WorkerOrder /\ FlushedFirst
  BY <1>2 DEF Init, WorkerOrder, FlushedFirst, Increasing, Below
<1>5. Conservation /\ PublishedCommitted
  BY <1>2 DEF Init, Conservation, Accepted, Queued, InHand, Settled, InsertedBy,
              PublishedCommitted
<1>. QED
  BY <1>1, <1>3, <1>4, <1>5 DEF IInv

\* A step that moves no event and takes no worker into or out of publishing.
Quiet ==
  /\ UNCHANGED <<events, ticket, admitted, batch, inserts, published>>
  /\ \A e \in Event : Accepted(e)' <=> Accepted(e)
  /\ \A w \in Worker : pc'[w] = "publish" <=> pc[w] = "publish"

LEMMA QuietStep == IInv /\ TypeFlow' /\ Quiet => IInv'
<1>. SUFFICES ASSUME IInv, TypeFlow', Quiet
              PROVE  IInv'
  OBVIOUS
<1>. USE DEF IInv
<1>1. \A n \in DOMAIN inserts : inserts[n].by \in Worker
  BY InsertType DEF TypeFlow
<1>2. Tickets' /\ OneHolder' /\ Handover'
  BY DEF Quiet, Tickets, OneHolder, Handover
<1>3. WorkerOrder' /\ FlushedFirst'
  BY <1>1 DEF Quiet, WorkerOrder, FlushedFirst
<1>4. Conservation'
  <2>1. \A e \in Event : /\ Queued(e)' <=> Queued(e)
                         /\ Settled(e)' <=> Settled(e)
                         /\ \A w \in Worker : InHand(w, e)' <=> InHand(w, e)
                         /\ \A n \in DOMAIN inserts : InsertedBy(n, e)' <=> InsertedBy(n, e)
    BY DEF Quiet, Queued, InHand, Settled, InsertedBy
  <2>2. \A e \in Event : Accepted(e)' <=> Accepted(e)
    BY DEF Quiet
  <2>3. DOMAIN inserts' = DOMAIN inserts
    BY DEF Quiet
  <2>. QED
    BY <2>1, <2>2, <2>3 DEF Conservation
<1>5. PublishedCommitted'
  BY <1>1 DEF Quiet, PublishedCommitted
<1>. QED
  BY <1>2, <1>3, <1>4, <1>5

\* An event that was not accepted is nowhere in the pool.
LEMMA NotAcceptedNowhere ==
  ASSUME IInv, NEW e \in Event, ~Accepted(e)
  PROVE  /\ e \notin Elems(events)
         /\ \A w \in Worker : e \notin Elems(batch[w])
         /\ \A n \in DOMAIN inserts : e \notin Elems(inserts[n].batch)
<1>1. ~Queued(e) /\ ~Settled(e) /\ \A w \in Worker : ~InHand(w, e)
  BY DEF IInv, Conservation
<1>2. \A n \in DOMAIN inserts : e \notin Elems(inserts[n].batch)
  BY <1>1 DEF Settled, InsertedBy
<1>3. ASSUME NEW w \in Worker
      PROVE  e \notin Elems(batch[w])
  <2>1. CASE pc[w] = "publish"
    BY <1>2, <2>1 DEF IInv, Handover
  <2>2. CASE pc[w] # "publish"
    BY <1>1, <2>2 DEF InHand
  <2>. QED
    BY <2>1, <2>2
<1>. QED
  BY <1>1, <1>2, <1>3 DEF Queued

LEMMA AcceptStep ==
  ASSUME IInv, TypeFlow', NEW e \in Event, Accept(e)
  PROVE  IInv'
<1>. USE DEF IInv, TypeFlow
<1>1. /\ outcome[e] # "accepted"
      /\ events' = Append(events, e)
      /\ outcome' = [outcome EXCEPT ![e] = "accepted"]
      /\ ticket' = [ticket EXCEPT ![e] = admitted + 1]
      /\ admitted' = admitted + 1
      /\ UNCHANGED <<pc, batch, inserts, published>>
  BY DEF Accept, Arrives, workerVars, flushVars
<1>2. /\ e \notin Elems(events)
      /\ \A w \in Worker : e \notin Elems(batch[w])
      /\ \A n \in DOMAIN inserts : e \notin Elems(inserts[n].batch)
  BY <1>1, NotAcceptedNowhere DEF Accepted
<1>3. Elems(events') = Elems(events) \cup {e}
  BY <1>1, ElemsAppend DEF TypeOK
<1>4. /\ ticket'[e] = admitted + 1
      /\ \A f \in Event \ {e} : ticket'[f] = ticket[f]
      /\ \A f \in Event : ticket[f] \in Nat /\ ticket[f] < admitted + 1
      /\ admitted \in Nat
  BY <1>1 DEF TypeOK, Tickets
<1>5. \A f \in Event : Accepted(f)' <=> f = e \/ Accepted(f)
  BY <1>1 DEF Accepted, TypeOK
<1>6. Tickets'
  BY <1>1, <1>4, <1>5 DEF Tickets, TypeOK
\* The order of a sequence without e is not disturbed by the ticket of e.
<1>7. ASSUME NEW s \in Seq(Event), e \notin Elems(s)
      PROVE  /\ Increasing(ticket, s) => Increasing(ticket', s)
             /\ \A f \in Elems(s) : ticket'[f] = ticket[f] /\ ticket'[f] < ticket'[e]
  <2>1. \A f \in Elems(s) : ticket'[f] = ticket[f] /\ ticket'[f] < ticket'[e]
    BY <1>4, <1>7, ElemsType
  <2>. QED
    BY <2>1 DEF Increasing, Elems
<1>8. \A n \in DOMAIN inserts : inserts[n].by \in Worker /\ inserts[n].batch \in Seq(Event)
  BY InsertType
<1>9. WorkerOrder'
  <2>1. Increasing(ticket', events')
    BY <1>1, <1>2, <1>7, IncreasingAppend DEF WorkerOrder, TypeOK
  <2>2. ASSUME NEW w \in Worker
        PROVE  Increasing(ticket', batch[w]) /\ Below(ticket', batch[w], events')
    BY <1>2, <1>3, <1>7 DEF WorkerOrder, Below, TypeOK
  <2>3. \A n \in DOMAIN inserts : Increasing(ticket', inserts[n].batch)
    BY <1>2, <1>7, <1>8 DEF WorkerOrder
  <2>4. \A m, n \in DOMAIN inserts :
          m < n /\ inserts[m].by = inserts[n].by
            => Below(ticket', inserts[m].batch, inserts[n].batch)
    BY <1>2, <1>7, <1>8 DEF WorkerOrder, Below
  <2>. QED
    BY <1>1, <2>1, <2>2, <2>3, <2>4 DEF WorkerOrder
<1>10. FlushedFirst'
  <2>1. \A n \in DOMAIN inserts : Below(ticket', inserts[n].batch, events')
    BY <1>2, <1>3, <1>7, <1>8 DEF FlushedFirst, Below, TypeOK
  <2>2. ASSUME NEW n \in DOMAIN inserts, pc[inserts[n].by] # "publish"
        PROVE  Below(ticket', inserts[n].batch, batch[inserts[n].by])
    <3>1. batch[inserts[n].by] \in Seq(Event) /\ e \notin Elems(batch[inserts[n].by])
      BY <1>2, <1>8 DEF TypeOK
    <3>2. Below(ticket, inserts[n].batch, batch[inserts[n].by])
      BY <2>2 DEF FlushedFirst
    <3>. QED
      BY <1>2, <1>7, <1>8, <3>1, <3>2 DEF Below
  <2>. QED
    BY <1>1, <2>1, <2>2 DEF FlushedFirst
<1>11. OneHolder' /\ Handover' /\ PublishedCommitted'
  BY <1>1 DEF OneHolder, Handover, PublishedCommitted
<1>12. Conservation'
  <2>1. \A f \in Event : /\ Queued(f)' <=> Queued(f) \/ f = e
                         /\ Settled(f)' <=> Settled(f)
                         /\ \A w \in Worker : InHand(w, f)' <=> InHand(w, f)
                         /\ \A n \in DOMAIN inserts : InsertedBy(n, f)' <=> InsertedBy(n, f)
    BY <1>1, <1>3 DEF Queued, InHand, Settled, InsertedBy
  <2>2. ~Settled(e) /\ \A w \in Worker : ~InHand(w, e)
    BY <1>2 DEF Settled, InsertedBy, InHand
  <2>3. DOMAIN inserts' = DOMAIN inserts
    BY <1>1
  <2>. QED
    BY <1>5, <2>1, <2>2, <2>3 DEF Conservation
<1>. QED
  BY <1>6, <1>9, <1>10, <1>11, <1>12

LEMMA ReceiveStep ==
  ASSUME IInv, TypeFlow', NEW w \in Worker, Receive(w)
  PROVE  IInv'
<1>. USE DEF IInv, TypeFlow
<1>. DEFINE e == Head(events)
<1>1. PICK b \in Seq(Event) :
        /\ b = Append(batch[w], e)
        /\ batch' = [batch EXCEPT ![w] = b]
  BY AppendType, HeadTailType DEF Receive, TypeOK
<1>2. /\ pc[w] = "select"
      /\ \A v \in Worker : pc'[v] = "publish" <=> pc[v] = "publish"
      /\ events # << >>
      /\ events' = Tail(events)
      /\ UNCHANGED <<outcome, ticket, admitted, inserts, published>>
  BY DEF Receive, CallFlush, TypeOK, clientVars, flushVars
<1>3. /\ e \in Event
      /\ Elems(events) = {e} \cup Elems(events')
      /\ Increasing(ticket, events')
      /\ \A f \in Elems(events') : ticket[e] < ticket[f]
  BY <1>2, HeadTailType, ElemsTail, IncreasingTail DEF TypeOK, WorkerOrder
<1>4. /\ Elems(b) = Elems(batch[w]) \cup {e}
      /\ \A f \in Elems(batch[w]) : ticket[f] < ticket[e]
      /\ Increasing(ticket, b)
  <2>1. batch[w] \in Seq(Event) /\ ticket \in [Event -> Nat]
    BY DEF TypeOK
  <2>2. Increasing(ticket, batch[w]) /\ Below(ticket, batch[w], events)
    BY DEF WorkerOrder
  <2>3. \A f \in Elems(batch[w]) : ticket[f] < ticket[e]
    BY <1>3, <2>2 DEF Below
  <2>. HIDE DEF e
  <2>4. Elems(b) = Elems(batch[w]) \cup {e}
    BY <1>1, <1>3, <2>1, ElemsAppend
  <2>5. Increasing(ticket, b)
    BY <1>1, <1>3, <2>1, <2>2, <2>3, IncreasingAppend
  <2>. QED
    BY <2>3, <2>4, <2>5
<1>. HIDE DEF e
<1>5. e \notin Elems(events')
  <2>1. ticket[e] \in Nat
    BY <1>3 DEF TypeOK
  <2>. QED
    BY <1>3, <2>1
<1>6. batch'[w] = b /\ \A v \in Worker \ {w} : batch'[v] = batch[v]
  BY <1>1 DEF TypeOK
<1>7. \A n \in DOMAIN inserts : inserts[n].by \in Worker
  BY InsertType
<1>8. Tickets' /\ PublishedCommitted' /\ Handover'
  BY <1>2, <1>6, <1>7 DEF Tickets, Accepted, PublishedCommitted, Handover
<1>9. WorkerOrder'
  <2>1. ASSUME NEW v \in Worker
        PROVE  Increasing(ticket, batch'[v]) /\ Below(ticket, batch'[v], events')
    <3>1. Below(ticket, batch[v], events) /\ Increasing(ticket, batch[v])
      BY DEF WorkerOrder
    <3>. QED
      BY <1>3, <1>4, <1>6, <3>1 DEF Below
  <2>. QED
    BY <1>2, <1>3, <2>1 DEF WorkerOrder
<1>10. FlushedFirst'
  BY <1>2, <1>3, <1>4, <1>6, <1>7 DEF FlushedFirst, Below
\* What waits in the channel is in no batch, not even in one being published.
<1>11. \A v \in Worker : e \notin Elems(batch[v])
  <2>1. ~Settled(e) /\ \A v \in Worker : ~InHand(v, e)
    BY <1>3 DEF Conservation, Queued
  <2>. QED
    BY <2>1 DEF Handover, Settled, InsertedBy, InHand
<1>12. OneHolder'
  BY <1>4, <1>6, <1>11 DEF OneHolder
<1>13. Conservation'
  <2>1. \A f \in Event : /\ Accepted(f)' <=> Accepted(f)
                         /\ Queued(f)' <=> Queued(f) /\ f # e
                         /\ Settled(f)' <=> Settled(f)
                         /\ \A n \in DOMAIN inserts : InsertedBy(n, f)' <=> InsertedBy(n, f)
    BY <1>2, <1>3, <1>5 DEF Accepted, Queued, Settled, InsertedBy
  <2>2. \A f \in Event, v \in Worker :
          InHand(v, f)' <=> InHand(v, f) \/ (v = w /\ f = e)
    BY <1>2, <1>4, <1>6 DEF InHand
  <2>3. Queued(e) /\ DOMAIN inserts' = DOMAIN inserts
    BY <1>2, <1>3 DEF Queued
  <2>. QED
    BY <1>3, <2>1, <2>2, <2>3 DEF Conservation
<1>. QED
  BY <1>8, <1>9, <1>10, <1>12, <1>13

LEMMA InsertStep ==
  ASSUME IInv, TypeFlow', NEW w \in Worker, InsertSucceeds(w) \/ InsertFails(w)
  PROVE  IInv'
<1>. USE DEF IInv, TypeFlow
<1>1. PICK ok \in BOOLEAN :
        /\ inserts' = Append(inserts, [by |-> w, batch |-> batch[w], ok |-> ok])
        /\ ok => pc'[w] = "publish" /\ batch'[w] = batch[w]
        /\ ~ok => pc'[w] # "publish" /\ batch'[w] = << >>
  BY DEF InsertSucceeds, InsertFails, ReturnFromFlush, TypeOK
<1>2. /\ pc[w] = "insert"
      /\ \A v \in Worker \ {w} : pc'[v] = pc[v] /\ batch'[v] = batch[v]
      /\ UNCHANGED <<events, outcome, ticket, admitted, published>>
  BY DEF InsertSucceeds, InsertFails, ReturnFromFlush, TypeOK, clientVars
<1>3. PICK last \in Nat :
        /\ DOMAIN inserts' = DOMAIN inserts \cup {last}
        /\ \A n \in DOMAIN inserts : n \in Nat /\ n < last /\ inserts'[n] = inserts[n]
        /\ inserts'[last].by = w
        /\ inserts'[last].batch = batch[w]
        /\ inserts'[last].ok = ok
  <2>. DEFINE S == [by : Worker, batch : Seq(Event), ok : BOOLEAN]
              x == [by |-> w, batch |-> batch[w], ok |-> ok]
  <2>1. inserts \in Seq(S) /\ x \in S
    BY DEF TypeOK
  <2>2. x.by = w /\ x.batch = batch[w] /\ x.ok = ok
    OBVIOUS
  <2>3. inserts' = Append(inserts, x)
    BY <1>1
  <2>. HIDE DEF S, x
  <2>. QED
    BY <2>1, <2>2, <2>3, AppendEntries
<1>4. \A n \in DOMAIN inserts : inserts[n].by \in Worker
  BY InsertType
<1>5. Elems(<< >>) = {} /\ DOMAIN << >> = {}
  BY DEF Elems
<1>6. Tickets' /\ OneHolder'
  BY <1>1, <1>2, <1>5 DEF Tickets, Accepted, OneHolder
<1>7. WorkerOrder'
  <2>1. ASSUME NEW v \in Worker
        PROVE  Increasing(ticket, batch'[v]) /\ Below(ticket, batch'[v], events)
    <3>1. batch'[v] = batch[v] \/ batch'[v] = << >>
      BY <1>1, <1>2
    <3>. QED
      BY <1>5, <3>1 DEF WorkerOrder, Increasing, Below
  <2>2. \A n \in DOMAIN inserts' : Increasing(ticket, inserts'[n].batch)
    BY <1>3 DEF WorkerOrder
  <2>3. ASSUME NEW m \in DOMAIN inserts', NEW n \in DOMAIN inserts',
               m < n, inserts'[m].by = inserts'[n].by
        PROVE  Below(ticket, inserts'[m].batch, inserts'[n].batch)
    <3>1. m \in DOMAIN inserts
      BY <1>3, <2>3
    <3>2. CASE n = last
      BY <1>2, <1>3, <2>3, <3>1, <3>2 DEF FlushedFirst
    <3>3. CASE n # last
      BY <1>3, <2>3, <3>1, <3>3 DEF WorkerOrder
    <3>. QED
      BY <3>2, <3>3
  <2>. QED
    BY <1>2, <2>1, <2>2, <2>3 DEF WorkerOrder
<1>8. FlushedFirst'
  <2>1. \A n \in DOMAIN inserts' : Below(ticket, inserts'[n].batch, events)
    BY <1>3 DEF FlushedFirst, WorkerOrder
  <2>2. ASSUME NEW n \in DOMAIN inserts', pc'[inserts'[n].by] # "publish"
        PROVE  Below(ticket, inserts'[n].batch, batch'[inserts'[n].by])
    <3>1. CASE inserts'[n].by = w
      BY <1>1, <1>5, <2>2, <3>1 DEF Below
    <3>2. CASE inserts'[n].by # w
      BY <1>2, <1>3, <1>4, <2>2, <3>2 DEF FlushedFirst
    <3>. QED
      BY <3>1, <3>2
  <2>. QED
    BY <1>2, <2>1, <2>2 DEF FlushedFirst
<1>9. Handover'
  <2>1. SUFFICES ASSUME NEW v \in Worker, pc'[v] = "publish"
                 PROVE  \E n \in DOMAIN inserts' :
                          /\ inserts'[n].ok
                          /\ inserts'[n].by = v
                          /\ inserts'[n].batch = batch'[v]
    BY DEF Handover
  <2>2. CASE v = w
    BY <1>1, <1>3, <2>1, <2>2
  <2>3. CASE v # w
    BY <1>2, <1>3, <2>1, <2>3 DEF Handover
  <2>. QED
    BY <2>2, <2>3
<1>10. PublishedCommitted'
  <2>1. \A k \in DOMAIN published :
          \E n \in DOMAIN inserts' : inserts'[n].ok /\ inserts'[n].batch = published[k]
    BY <1>3 DEF PublishedCommitted
  <2>2. ASSUME NEW n \in DOMAIN inserts', inserts'[n].ok
        PROVE  \/ \E k \in DOMAIN published : published[k] = inserts'[n].batch
               \/ /\ pc'[inserts'[n].by] = "publish"
                  /\ batch'[inserts'[n].by] = inserts'[n].batch
    <3>1. CASE n = last
      BY <1>1, <1>3, <2>2, <3>1
    <3>2. CASE n \in DOMAIN inserts
      BY <1>2, <1>3, <1>4, <2>2, <3>2 DEF PublishedCommitted
    <3>. QED
      BY <1>3, <3>1, <3>2
  <2>. QED
    BY <1>2, <2>1, <2>2 DEF PublishedCommitted
<1>11. Conservation'
  <2>1. \A f \in Event :
          /\ Accepted(f)' <=> Accepted(f)
          /\ Queued(f)' <=> Queued(f)
          /\ \A n \in DOMAIN inserts : InsertedBy(n, f)' <=> InsertedBy(n, f)
          /\ InsertedBy(last, f)' <=> f \in Elems(batch[w])
    BY <1>2, <1>3 DEF Accepted, Queued, InsertedBy
  <2>2. \A f \in Event : Settled(f)' <=> Settled(f) \/ f \in Elems(batch[w])
    BY <1>3, <2>1 DEF Settled
  <2>3. \A f \in Event, v \in Worker : InHand(v, f)' <=> InHand(v, f) /\ v # w
    BY <1>1, <1>2, <1>5 DEF InHand
  <2>4. \A f \in Event : InHand(w, f) <=> f \in Elems(batch[w])
    BY <1>2 DEF InHand
  <2>5. \A f \in Event, n \in DOMAIN inserts : InsertedBy(n, f) => Settled(f)
    BY DEF Settled
  <2>. QED
    BY <1>3, <2>1, <2>2, <2>3, <2>4, <2>5 DEF Conservation
<1>. QED
  BY <1>6, <1>7, <1>8, <1>9, <1>10, <1>11

LEMMA PublishStep ==
  ASSUME IInv, TypeFlow', NEW w \in Worker, Publish(w)
  PROVE  IInv'
<1>. USE DEF IInv, TypeFlow
<1>. DEFINE last == Len(published) + 1
<1>1. /\ pc[w] = "publish"
      /\ published' = Append(published, batch[w])
      /\ batch'[w] = << >>
      /\ pc'[w] # "publish"
      /\ \A v \in Worker \ {w} : pc'[v] = pc[v] /\ batch'[v] = batch[v]
      /\ UNCHANGED <<events, outcome, ticket, admitted, inserts>>
  BY DEF Publish, ReturnFromFlush, TypeOK, clientVars
<1>2. /\ DOMAIN published' = DOMAIN published \cup {last}
      /\ \A k \in DOMAIN published : published'[k] = published[k]
      /\ published'[last] = batch[w]
  BY <1>1, AppendEntries DEF TypeOK
<1>. HIDE DEF last
<1>3. \A n \in DOMAIN inserts : inserts[n].by \in Worker
  BY InsertType
<1>4. Elems(<< >>) = {} /\ DOMAIN << >> = {}
  BY DEF Elems
<1>5. Tickets' /\ OneHolder' /\ Handover'
  BY <1>1, <1>4 DEF Tickets, Accepted, OneHolder, Handover
<1>6. WorkerOrder' /\ FlushedFirst'
  <2>1. \A v \in Worker : batch'[v] = batch[v] \/ batch'[v] = << >>
    BY <1>1
  <2>2. WorkerOrder'
    BY <1>1, <1>4, <2>1 DEF WorkerOrder, Increasing, Below
  <2>3. FlushedFirst'
    BY <1>1, <1>3, <1>4 DEF FlushedFirst, Below
  <2>. QED
    BY <2>2, <2>3
<1>7. PublishedCommitted'
  <2>1. \E n \in DOMAIN inserts : inserts[n].ok /\ inserts[n].batch = batch[w]
    BY <1>1 DEF Handover
  <2>2. \A k \in DOMAIN published' :
          \E n \in DOMAIN inserts : inserts[n].ok /\ inserts[n].batch = published'[k]
    BY <1>2, <2>1 DEF PublishedCommitted
  <2>3. ASSUME NEW n \in DOMAIN inserts, inserts[n].ok
        PROVE  \/ \E k \in DOMAIN published' : published'[k] = inserts[n].batch
               \/ /\ pc'[inserts[n].by] = "publish"
                  /\ batch'[inserts[n].by] = inserts[n].batch
    <3>1. CASE inserts[n].by = w
      BY <1>2, <2>3, <3>1 DEF PublishedCommitted
    <3>2. CASE inserts[n].by # w
      BY <1>1, <1>2, <1>3, <2>3, <3>2 DEF PublishedCommitted
    <3>. QED
      BY <3>1, <3>2
  <2>. QED
    BY <1>1, <2>2, <2>3 DEF PublishedCommitted
<1>8. Conservation'
  <2>1. \A f \in Event :
          /\ Accepted(f)' <=> Accepted(f)
          /\ Queued(f)' <=> Queued(f)
          /\ Settled(f)' <=> Settled(f)
          /\ \A n \in DOMAIN inserts : InsertedBy(n, f)' <=> InsertedBy(n, f)
          /\ \A v \in Worker : InHand(v, f)' <=> InHand(v, f)
    BY <1>1, <1>4 DEF Accepted, Queued, Settled, InsertedBy, InHand
  <2>2. DOMAIN inserts' = DOMAIN inserts
    BY <1>1
  <2>. QED
    BY <2>1, <2>2 DEF Conservation
<1>. QED
  BY <1>5, <1>6, <1>7, <1>8

LEMMA StepIInv == IInv /\ [Next]_vars => IInv'
<1>. SUFFICES ASSUME IInv, [Next]_vars
              PROVE  IInv'
  OBVIOUS
<1>1. TypeFlow'
  BY StepTypeFlow DEF IInv
<1>. USE DEF IInv, TypeFlow, TypeOK, Quiet
<1>2. CASE Start
  BY <1>1, <1>2, QuietStep DEF Start, Accepted, clientVars, flushVars
<1>3. ASSUME NEW e \in Event, Reject(e) \/ SubmitClosed(e)
      PROVE  IInv'
  <2>1. \A f \in Event : Accepted(f)' <=> Accepted(f)
    BY <1>3 DEF Reject, SubmitClosed, Arrives, Accepted
  <2>. QED
    BY <1>1, <1>3, <2>1, QuietStep DEF Reject, SubmitClosed, Arrives, workerVars, flushVars
<1>4. ASSUME NEW w \in Worker, ReceiveClosed(w) \/ ReceiveTick(w)
      PROVE  IInv'
  BY <1>1, <1>4, QuietStep
     DEF ReceiveClosed, ReceiveTick, CallFlush, Accepted, clientVars, flushVars
<1>5. ASSUME NEW w \in Worker, TickerFires(w)
      PROVE  IInv'
  BY <1>1, <1>5, QuietStep DEF TickerFires, Accepted, clientVars, flushVars
<1>6. CASE CloseEvents \/ WaitReturns
  BY <1>1, <1>6, QuietStep
     DEF CloseEvents, WaitReturns, Accepted, clientVars, workerVars, flushVars
<1>7. CASE UNCHANGED vars
  BY <1>1, <1>7, QuietStep DEF vars, Accepted
<1>. QED
  BY <1>1, <1>2, <1>3, <1>4, <1>5, <1>6, <1>7,
     AcceptStep, ReceiveStep, InsertStep, PublishStep
     DEF Next, Submit, WorkerStep

LEMMA IInvInvariant == Spec => []IInv
BY InitIInv, StepIInv, PTL DEF Spec

-----------------------------------------------------------------------------
(* The safety properties.                                                  *)

\* No accepted event is lost, duplicated or invented between the handlers, the
\* channel, the batches of the workers and the store.
THEOREM ConservationHolds == Spec => []Conservation
<1>1. IInv => Conservation
  BY DEF IInv
<1>. QED
  BY <1>1, IInvInvariant, PTL

\* Each worker keeps the events it handles in their order of acceptance.
THEOREM WorkerOrderHolds == Spec => []WorkerOrder
<1>1. IInv => WorkerOrder
  BY DEF IInv
<1>. QED
  BY <1>1, IInvInvariant, PTL

\* The broker gets exactly the committed batches.
THEOREM PublishedCommittedHolds == Spec => []PublishedCommitted
<1>1. IInv => PublishedCommitted
  BY DEF IInv
<1>. QED
  BY <1>1, IInvInvariant, PTL

\* Shutdown returns only when nothing is left in the channel or in a batch. It
\* needs a worker: a pool without one would return with its channel full.
THEOREM DrainedOnReturnHolds == Spec => []DrainedOnReturn
<1>1. IInv => DrainedOnReturn
  <2>. SUFFICES ASSUME IInv, shutdown = "returned"
                PROVE  /\ \A e \in Event : Accepted(e) => Settled(e)
                       /\ \A n \in DOMAIN inserts : inserts[n].ok =>
                            \E k \in DOMAIN published : published[k] = inserts[n].batch
    BY DEF DrainedOnReturn
  <2>1. /\ \A w \in Worker : pc[w] = "exited" /\ batch[w] = << >>
        /\ events = << >>
    BY PoolAssumption DEF IInv, TypeFlow, Flow, AllExited, Leaving
  <2>2. \A e \in Event : ~Queued(e) /\ \A w \in Worker : ~InHand(w, e)
    BY <2>1 DEF Queued, InHand, Elems
  <2>3. \A e \in Event : Accepted(e) => Settled(e)
    BY <2>2 DEF IInv, Conservation
  <2>4. \A n \in DOMAIN inserts : pc[inserts[n].by] # "publish"
    BY <2>1, InsertType DEF IInv, TypeFlow
  <2>. QED
    BY <2>3, <2>4 DEF IInv, PublishedCommitted
<1>. QED
  BY <1>1, IInvInvariant, PTL

-----------------------------------------------------------------------------
(* The pool implements the abstract pipeline (Ingestion): each step of     *)
(* Pool is one of Ingestion, or changes nothing that Ingestion can see.    *)

\* The abstract variables, as the refinement mapping of Pool defines them.
StatusNow == [e \in Event |-> Status(e)]
Pending == {Elems(batch[w]) : w \in {v \in Worker : pc[v] = "publish"}}
Delivered == {Elems(published[k]) : k \in DOMAIN published}

abstract == <<StatusNow, Pending, Delivered, shutdown>>

-----------------------------------------------------------------------------
(* Facts about the batches and the statuses.                               *)

\* A batch as a set is an abstract batch: nonempty, and no larger than its length.
LEMMA AbstractBatch ==
  ASSUME NEW s \in Seq(Event), s # << >>, Len(s) <= BatchSize
  PROVE  Elems(s) \in Pipeline!Batch
<1>1. Len(s) \in Nat /\ DOMAIN s = 1 .. Len(s)
  OBVIOUS
<1>2. s \in Surjection(1 .. Len(s), Elems(s))
  BY <1>1 DEF Surjection, Elems
<1>3. Cardinality(Elems(s)) <= Len(s) /\ IsFiniteSet(Elems(s))
  BY <1>1, <1>2, FS_SurjCardinalityBound, FS_NatSurjection DEF ExistsSurjection
<1>4. Cardinality(Elems(s)) \in Nat
  BY <1>3, FS_CardinalityType
<1>5. Elems(s) # {} /\ Elems(s) \in SUBSET Event
  BY ElemsType
<1>6. Pipeline!Cardinality(Elems(s)) = Cardinality(Elems(s))
  BY Zenon DEF Cardinality, Pipeline!Cardinality
<1>. QED
  BY <1>1, <1>3, <1>4, <1>5, <1>6, PoolAssumption DEF Pipeline!Batch

\* The status of an event that only one of the clauses of Status can give.
LEMMA StatusAccepted ==
  ASSUME NEW e \in Event, Accepted(e), ~Settled(e)
  PROVE  Status(e) = "accepted"
BY DEF Status, Settled

\* Events that are accepted and settled as before have the status they had.
LEMMA StatusKept ==
  ASSUME UNCHANGED inserts, \A e \in Event : Accepted(e)' <=> Accepted(e)
  PROVE  UNCHANGED StatusNow
<1>1. \A e \in Event : Status(e)' = Status(e)
  BY DEF Status, Settled, InsertedBy
<1>. QED
  BY <1>1 DEF StatusNow

\* Workers that publish what they published before leave Pending alone.
LEMMA PendingKept ==
  ASSUME \A w \in Worker : pc'[w] = "publish" <=> pc[w] = "publish",
         \A w \in Worker : pc[w] = "publish" => batch'[w] = batch[w]
  PROVE  UNCHANGED Pending
BY DEF Pending, Elems

\* A worker that inserts holds a batch, whose events are accepted and not settled.
LEMMA InHandIsAccepted ==
  ASSUME IInv, NEW w \in Worker, pc[w] = "insert"
  PROVE  /\ Elems(batch[w]) \in Pipeline!Batch
         /\ \A e \in Elems(batch[w]) : e \in Event /\ Accepted(e) /\ ~Settled(e)
<1>1. batch[w] \in Seq(Event) /\ batch[w] # << >> /\ Len(batch[w]) <= BatchSize
  BY DEF IInv, TypeFlow, TypeOK, Flow
<1>2. \A e \in Elems(batch[w]) : e \in Event /\ InHand(w, e)
  BY <1>1, ElemsType DEF InHand
<1>. QED
  BY <1>1, <1>2, AbstractBatch DEF IInv, Conservation

-----------------------------------------------------------------------------
(* The steps.                                                              *)

LEMMA AcceptRefines ==
  ASSUME IInv, NEW e \in Event, Accept(e)
  PROVE  Pipeline!Accept(e)
<1>1. /\ shutdown = "running" /\ shutdown' = "running"
      /\ ~Accepted(e)
      /\ outcome' = [outcome EXCEPT ![e] = "accepted"]
      /\ UNCHANGED <<pc, batch, inserts, published>>
  BY DEF Accept, Arrives, Accepted, workerVars, flushVars
<1>2. ~Settled(e)
  BY <1>1, NotAcceptedNowhere DEF Settled, InsertedBy
<1>3. Accepted(e)' /\ \A f \in Event \ {e} : Accepted(f)' <=> Accepted(f)
  BY <1>1 DEF Accepted, IInv, TypeFlow, TypeOK
<1>4. \A f \in Event : Settled(f)' <=> Settled(f)
  BY <1>1 DEF Settled, InsertedBy
<1>5. Status(e) = "outside" /\ Status(e)' = "accepted"
  BY <1>1, <1>2, <1>3, <1>4 DEF Status, Settled, InsertedBy
<1>6. \A f \in Event \ {e} : Status(f)' = Status(f)
  BY <1>1, <1>3, <1>4 DEF Status, InsertedBy
<1>7. UNCHANGED <<Pending, Delivered>>
  BY <1>1 DEF Pending, Delivered
<1>8. StatusNow[e] = "outside" /\ StatusNow' = [StatusNow EXCEPT ![e] = "accepted"]
  BY <1>5, <1>6 DEF StatusNow
<1>. QED
  BY <1>1, <1>7, <1>8 DEF Pipeline!Accept, StatusNow, Pending, Delivered

\* An insert settles the batch of its worker, and nothing else.
LEMMA InsertSettles ==
  ASSUME IInv, NEW w \in Worker, NEW ok \in BOOLEAN, pc[w] = "insert",
         UNCHANGED <<outcome, published, shutdown>>,
         inserts' = Append(inserts, [by |-> w, batch |-> batch[w], ok |-> ok])
  PROVE  /\ Pipeline!Settle(Elems(batch[w]), IF ok THEN "stored" ELSE "lost")
         /\ UNCHANGED Delivered
<1>. DEFINE b == Elems(batch[w])
            how == IF ok THEN "stored" ELSE "lost"
<1>1. \A e \in b : e \in Event /\ Accepted(e) /\ ~Settled(e)
  BY InHandIsAccepted
<1>2. PICK last \in Nat :
        /\ DOMAIN inserts' = DOMAIN inserts \cup {last}
        /\ \A n \in DOMAIN inserts : inserts'[n] = inserts[n]
        /\ inserts'[last].batch = batch[w]
        /\ inserts'[last].ok = ok
  <2>. DEFINE S == [by : Worker, batch : Seq(Event), ok : BOOLEAN]
              x == [by |-> w, batch |-> batch[w], ok |-> ok]
  <2>1. inserts \in Seq(S) /\ x \in S
    BY DEF IInv, TypeFlow, TypeOK
  <2>2. x.batch = batch[w] /\ x.ok = ok
    OBVIOUS
  <2>3. inserts' = Append(inserts, x)
    OBVIOUS
  <2>. HIDE DEF S, x
  <2>. QED
    BY <2>1, <2>2, <2>3, AppendEntries
<1>3. \A e \in Event : Accepted(e)' <=> Accepted(e)
  BY DEF Accepted
<1>4. \A e \in Event :
        /\ \A n \in DOMAIN inserts : InsertedBy(n, e)' <=> InsertedBy(n, e)
        /\ InsertedBy(last, e)' <=> e \in b
  BY <1>2 DEF InsertedBy
<1>. HIDE DEF b
<1>5. ASSUME NEW e \in Event
      PROVE  Status(e)' = IF e \in b THEN how ELSE Status(e)
  <2>1. CASE e \in b
    <3>1. ~ \E n \in DOMAIN inserts : InsertedBy(n, e)
      BY <1>1, <2>1 DEF Settled
    <3>2. Settled(e)'
      BY <1>2, <1>4, <2>1 DEF Settled
    <3>3. (\E n \in DOMAIN inserts : InsertedBy(n, e) /\ inserts[n].ok)' <=> ok
      BY <1>2, <1>4, <2>1, <3>1
    <3>. QED
      BY <2>1, <3>2, <3>3 DEF Status
  <2>2. CASE e \notin b
    <3>1. Settled(e)' <=> Settled(e)
      BY <1>2, <1>4, <2>2 DEF Settled
    <3>2. (\E n \in DOMAIN inserts : InsertedBy(n, e) /\ inserts[n].ok)'
            <=> \E n \in DOMAIN inserts : InsertedBy(n, e) /\ inserts[n].ok
      BY <1>2, <1>4, <2>2
    <3>. QED
      BY <1>3, <2>2, <3>1, <3>2 DEF Status
  <2>. QED
    BY <2>1, <2>2
<1>6. \A e \in b : StatusNow[e] = "accepted"
  BY <1>1, StatusAccepted DEF StatusNow
<1>7. StatusNow' = [e \in Event |-> IF e \in b THEN how ELSE StatusNow[e]]
  BY <1>5 DEF StatusNow
<1>8. UNCHANGED Delivered
  BY DEF Delivered
<1>. QED
  BY <1>6, <1>7, <1>8 DEF Pipeline!Settle, StatusNow, b

LEMMA InsertRefines ==
  ASSUME IInv, NEW w \in Worker, InsertSucceeds(w) \/ InsertFails(w)
  PROVE  \E b \in Pipeline!Batch : Pipeline!Commit(b) \/ Pipeline!Lose(b)
<1>1. /\ pc[w] = "insert"
      /\ UNCHANGED <<outcome, published, shutdown>>
  BY DEF InsertSucceeds, InsertFails, clientVars
<1>0. PICK b \in Pipeline!Batch : b = Elems(batch[w])
  BY <1>1, InHandIsAccepted
<1>2. CASE InsertSucceeds(w)
  <2>1. Pipeline!Settle(b, "stored") /\ UNCHANGED Delivered
    <3>1. inserts' = Append(inserts, [by |-> w, batch |-> batch[w], ok |-> TRUE])
      BY <1>2 DEF InsertSucceeds
    <3>. QED
      BY <1>1, <1>0, <3>1, InsertSettles
  <2>2. /\ pc'[w] = "publish" /\ UNCHANGED batch
        /\ \A v \in Worker \ {w} : pc'[v] = pc[v]
    BY <1>2 DEF InsertSucceeds, IInv, TypeFlow, TypeOK
  <2>3. Pending' = Pending \cup {b}
    BY <1>1, <1>0, <2>2 DEF Pending
  <2>4. Pipeline!Commit(b)
    BY <1>1, <2>1, <2>3 DEF Pipeline!Commit, Pending, Delivered
  <2>. QED
    BY <2>4
<1>3. CASE InsertFails(w)
  <2>1. Pipeline!Settle(b, "lost") /\ UNCHANGED Delivered
    <3>1. inserts' = Append(inserts, [by |-> w, batch |-> batch[w], ok |-> FALSE])
      BY <1>3 DEF InsertFails
    <3>. QED
      BY <1>1, <1>0, <3>1, InsertSettles
  <2>2. /\ pc'[w] # "publish"
        /\ \A v \in Worker \ {w} : pc'[v] = pc[v] /\ batch'[v] = batch[v]
    BY <1>3 DEF InsertFails, ReturnFromFlush, IInv, TypeFlow, TypeOK
  <2>3. UNCHANGED Pending
    BY <1>1, <2>2, PendingKept
  <2>4. Pipeline!Lose(b)
    BY <1>1, <2>1, <2>3 DEF Pipeline!Lose, Pending, Delivered
  <2>. QED
    BY <2>4
<1>. QED
  BY <1>2, <1>3

LEMMA PublishRefines ==
  ASSUME IInv, NEW w \in Worker, Publish(w)
  PROVE  \E b \in Pending : Pipeline!Deliver(b)
<1>. DEFINE last == Len(published) + 1
<1>0. PICK b : b = Elems(batch[w])
  OBVIOUS
<1>1. /\ pc[w] = "publish" /\ pc'[w] # "publish"
      /\ \A v \in Worker \ {w} : pc'[v] = pc[v] /\ batch'[v] = batch[v]
      /\ published' = Append(published, batch[w])
      /\ UNCHANGED <<outcome, inserts, shutdown>>
  BY DEF Publish, ReturnFromFlush, clientVars, IInv, TypeFlow, TypeOK
<1>2. b # {} /\ b \subseteq Event
  <2>1. batch[w] \in Seq(Event) /\ batch[w] # << >>
    BY <1>1 DEF IInv, TypeFlow, TypeOK, Flow
  <2>. QED
    BY <1>0, <2>1, ElemsType
<1>3. /\ DOMAIN published' = DOMAIN published \cup {last}
      /\ \A k \in DOMAIN published : published'[k] = published[k]
      /\ published'[last] = batch[w]
  BY <1>1, AppendEntries DEF IInv, TypeFlow, TypeOK
<1>. HIDE DEF last
<1>4. Delivered' = Delivered \cup {b}
  BY <1>0, <1>3 DEF Delivered
<1>5. \A v \in Worker \ {w} : Elems(batch[v]) # b
  BY <1>0, <1>2 DEF IInv, OneHolder
<1>6. b \in Pending /\ Pending' = Pending \ {b}
  <2>1. b \in Pending
    BY <1>1, <1>0 DEF Pending
  <2>2. \A v \in Worker : pc'[v] = "publish" <=> pc[v] = "publish" /\ v # w
    BY <1>1
  <2>3. \A v \in Worker \ {w} : Elems(batch[v])' = Elems(batch[v])
    BY <1>1 DEF Elems
  <2>4. Pending' = {Elems(batch[v]) : v \in {u \in Worker : pc[u] = "publish" /\ u # w}}
    BY <2>2, <2>3 DEF Pending
  <2>5. Pending = {Elems(batch[v]) : v \in {u \in Worker : pc[u] = "publish" /\ u # w}} \cup {b}
    BY <1>1, <1>0 DEF Pending
  <2>. QED
    BY <1>5, <2>1, <2>4, <2>5
<1>7. UNCHANGED StatusNow
  <2>1. \A e \in Event : Accepted(e)' <=> Accepted(e)
    BY <1>1 DEF Accepted
  <2>. QED
    BY <1>1, <2>1, StatusKept
<1>8. Pipeline!Deliver(b)
  BY <1>1, <1>4, <1>6, <1>7 DEF Pipeline!Deliver, StatusNow, Pending, Delivered
<1>. QED
  BY <1>6, <1>8

\* wg.Wait returns when every worker is gone: nothing is left to settle or deliver.
LEMMA WaitRefines ==
  ASSUME IInv, WaitReturns
  PROVE  Pipeline!Finish
<1>1. /\ shutdown = "draining" /\ shutdown' = "returned"
      /\ \A w \in Worker : pc[w] = "exited"
      /\ UNCHANGED <<events, outcome, pc, batch, inserts, published>>
  BY DEF WaitReturns, AllExited, clientVars, workerVars, flushVars
<1>2. events = << >> /\ \A w \in Worker : batch[w] = << >>
  BY <1>1, PoolAssumption DEF IInv, TypeFlow, Flow, Leaving
<1>3. \A e \in Event : ~Queued(e) /\ \A w \in Worker : ~InHand(w, e)
  BY <1>2 DEF Queued, InHand, Elems
<1>4. \A e \in Event : Accepted(e) => Settled(e)
  BY <1>3 DEF IInv, Conservation
<1>5. \A e \in Event : StatusNow[e] # "accepted"
  BY <1>4 DEF StatusNow, Status, Settled
<1>6. Pending = {} /\ UNCHANGED <<Pending, Delivered>>
  BY <1>1 DEF Pending, Delivered
<1>7. UNCHANGED StatusNow
  <2>1. \A e \in Event : Accepted(e)' <=> Accepted(e)
    BY <1>1 DEF Accepted
  <2>. QED
    BY <1>1, <2>1, StatusKept
<1>. QED
  BY <1>1, <1>5, <1>6, <1>7 DEF Pipeline!Finish, StatusNow, Pending, Delivered

LEMMA CloseRefines ==
  ASSUME IInv, CloseEvents
  PROVE  Pipeline!Close
<1>1. /\ shutdown = "running" /\ shutdown' = "draining"
      /\ UNCHANGED <<outcome, pc, batch, inserts, published>>
  BY DEF CloseEvents, clientVars, workerVars, flushVars
<1>2. UNCHANGED StatusNow
  <2>1. \A e \in Event : Accepted(e)' <=> Accepted(e)
    BY <1>1 DEF Accepted
  <2>. QED
    BY <1>1, <2>1, StatusKept
<1>3. UNCHANGED <<Pending, Delivered>>
  BY <1>1 DEF Pending, Delivered
<1>. QED
  BY <1>1, <1>2, <1>3 DEF Pipeline!Close, StatusNow, Pending, Delivered

\* A step that settles, publishes and accepts nothing is not seen from above.
Unseen ==
  /\ UNCHANGED <<inserts, published, shutdown>>
  /\ \A e \in Event : Accepted(e)' <=> Accepted(e)
  /\ \A w \in Worker : pc'[w] = "publish" <=> pc[w] = "publish"
  /\ \A w \in Worker : pc[w] = "publish" => batch'[w] = batch[w]

LEMMA UnseenStutters == Unseen => UNCHANGED abstract
<1>. SUFFICES ASSUME Unseen
              PROVE  UNCHANGED abstract
  OBVIOUS
<1>1. UNCHANGED StatusNow
  BY StatusKept DEF Unseen
<1>2. UNCHANGED Pending
  BY PendingKept DEF Unseen
<1>3. UNCHANGED Delivered
  BY DEF Unseen, Delivered
<1>. QED
  BY <1>1, <1>2, <1>3 DEF Unseen, abstract

LEMMA OtherStepsUnseen ==
  ASSUME IInv,
         \/ Start
         \/ \E e \in Event : Reject(e) \/ SubmitClosed(e)
         \/ \E w \in Worker : Receive(w) \/ ReceiveClosed(w) \/ ReceiveTick(w) \/ TickerFires(w)
         \/ UNCHANGED vars
  PROVE  Unseen
<1>. USE DEF IInv, TypeFlow, TypeOK, Unseen, Accepted
<1>1. CASE Start
  BY <1>1 DEF Start, clientVars, flushVars
<1>2. ASSUME NEW e \in Event, Reject(e) \/ SubmitClosed(e)
      PROVE  Unseen
  BY <1>2 DEF Reject, SubmitClosed, Arrives, workerVars, flushVars
<1>3. ASSUME NEW w \in Worker, Receive(w)
      PROVE  Unseen
  <2>1. /\ pc[w] = "select"
        /\ \A v \in Worker \ {w} : pc'[v] = pc[v] /\ batch'[v] = batch[v]
        /\ pc'[w] # "publish"
        /\ UNCHANGED <<outcome, inserts, published, shutdown>>
    BY <1>3 DEF Receive, CallFlush, clientVars, flushVars
  <2>. QED
    BY <2>1
<1>4. ASSUME NEW w \in Worker, ReceiveClosed(w) \/ ReceiveTick(w)
      PROVE  Unseen
  BY <1>4 DEF ReceiveClosed, ReceiveTick, CallFlush, clientVars, flushVars
<1>5. ASSUME NEW w \in Worker, TickerFires(w)
      PROVE  Unseen
  BY <1>5 DEF TickerFires, clientVars, flushVars
<1>6. CASE UNCHANGED vars
  BY <1>6 DEF vars
<1>. QED
  BY <1>1, <1>2, <1>3, <1>4, <1>5, <1>6

-----------------------------------------------------------------------------

LEMMA InitRefines == Init => Pipeline!Init
<1>. SUFFICES ASSUME Init
              PROVE  Pipeline!Init
  OBVIOUS
<1>1. \A e \in Event : Status(e) = "outside"
  <2>1. DOMAIN << >> = {}
    OBVIOUS
  <2>. QED
    BY <2>1 DEF Init, Status, Settled, InsertedBy, Accepted
<1>2. Pending = {} /\ Delivered = {}
  BY DEF Init, Pending, Delivered
<1>. QED
  BY <1>1, <1>2 DEF Init, Pipeline!Init, Pending, Delivered

LEMMA StepRefines == IInv /\ [Next]_vars => [Pipeline!Next]_(Pipeline!vars)
<1>. SUFFICES ASSUME IInv, [Next]_vars
              PROVE  Pipeline!Next \/ UNCHANGED Pipeline!vars
  OBVIOUS
<1>1. CASE \E e \in Event : Accept(e)
  BY <1>1, AcceptRefines DEF Pipeline!Next
<1>2. CASE \E w \in Worker : InsertSucceeds(w) \/ InsertFails(w)
  BY <1>2, InsertRefines DEF Pipeline!Next
<1>3. CASE \E w \in Worker : Publish(w)
  BY <1>3, PublishRefines DEF Pipeline!Next, Pending
<1>4. CASE CloseEvents
  BY <1>4, CloseRefines DEF Pipeline!Next
<1>5. CASE WaitReturns
  BY <1>5, WaitRefines DEF Pipeline!Next
<1>6. CASE \/ Start
           \/ \E e \in Event : Reject(e) \/ SubmitClosed(e)
           \/ \E w \in Worker :
                Receive(w) \/ ReceiveClosed(w) \/ ReceiveTick(w) \/ TickerFires(w)
           \/ UNCHANGED vars
  <2>1. UNCHANGED abstract
    BY <1>6, OtherStepsUnseen, UnseenStutters
  <2>. QED
    BY <2>1 DEF abstract, StatusNow, Pending, Delivered, Pipeline!vars
<1>. QED
  BY <1>1, <1>2, <1>3, <1>4, <1>5, <1>6 DEF Next, Submit, WorkerStep

\* Whatever its sizes, the pool settles every accepted event at most once, commits
\* and delivers whole batches, each once, and stops only when it is empty.
THEOREM PoolImplementsIngestion == Spec => ImplementsPipeline
<1>1. Init => Pipeline!Init
  BY InitRefines
<1>2. IInv /\ [Next]_vars => [Pipeline!Next]_(Pipeline!vars)
  BY StepRefines
<1>. QED
  BY <1>1, <1>2, IInvInvariant, PTL DEF Spec, ImplementsPipeline, Pipeline!Spec

=============================================================================
