------------------------------ MODULE Ingestion ------------------------------
(***************************************************************************)
(* What the ingestion pipeline promises, without its channel, its workers  *)
(* and its timers: an accepted event is settled exactly once, as part of   *)
(* one batch that is committed or lost as a whole; a committed batch is    *)
(* delivered to the broker exactly once and as it was committed; and the   *)
(* pipeline stops only when it holds nothing. Module Pool implements it.   *)
(***************************************************************************)
EXTENDS Naturals, FiniteSets

CONSTANTS
  Event,        \* submissions
  BatchSize     \* the largest batch

VARIABLES
  status,       \* status[e]: "outside", "accepted", "stored" or "lost"
  pending,      \* committed batches that are still to be delivered
  delivered,    \* batches delivered to the broker
  phase         \* "running", "draining", "returned"

vars == <<status, pending, delivered, phase>>

Batch == {b \in SUBSET Event : b # {} /\ Cardinality(b) <= BatchSize}

Init ==
  /\ status = [e \in Event |-> "outside"]
  /\ pending = {}
  /\ delivered = {}
  /\ phase = "running"

Accept(e) ==
  /\ phase = "running"
  /\ status[e] = "outside"
  /\ status' = [status EXCEPT ![e] = "accepted"]
  /\ UNCHANGED <<pending, delivered, phase>>

\* The events of an accepted batch are settled together.
Settle(b, how) ==
  /\ \A e \in b : status[e] = "accepted"
  /\ status' = [e \in Event |-> IF e \in b THEN how ELSE status[e]]

Commit(b) ==
  /\ Settle(b, "stored")
  /\ pending' = pending \cup {b}
  /\ UNCHANGED <<delivered, phase>>

Lose(b) ==
  /\ Settle(b, "lost")
  /\ UNCHANGED <<pending, delivered, phase>>

Deliver(b) ==
  /\ b \in pending
  /\ pending' = pending \ {b}
  /\ delivered' = delivered \cup {b}
  /\ UNCHANGED <<status, phase>>

Close ==
  /\ phase = "running"
  /\ phase' = "draining"
  /\ UNCHANGED <<status, pending, delivered>>

Finish ==
  /\ phase = "draining"
  /\ \A e \in Event : status[e] # "accepted"
  /\ pending = {}
  /\ phase' = "returned"
  /\ UNCHANGED <<status, pending, delivered>>

Next ==
  \/ \E e \in Event : Accept(e)
  \/ \E b \in Batch : Commit(b) \/ Lose(b)
  \/ \E b \in pending : Deliver(b)
  \/ Close
  \/ Finish

Spec == Init /\ [][Next]_vars

=============================================================================
