----------------------------- MODULE AtomicStore -----------------------------
(***************************************************************************)
(* What the pool expects of store.InsertBatch: a call stores its batch at  *)
(* one instant or not at all; it reports success only for what is stored   *)
(* and failure only for what is not and never will be; and what is stored  *)
(* stays, also when the process dies. A call that the process did not      *)
(* survive is never answered. Module SQLite implements it.                 *)
(***************************************************************************)
CONSTANT Batch

VARIABLES
  stored,       \* batches in the database
  acked,        \* batches whose InsertBatch returned nil
  failed        \* batches whose InsertBatch returned an error

vars == <<stored, acked, failed>>

Init == stored = {} /\ acked = {} /\ failed = {}

Store(b) ==
  /\ b \notin stored \cup failed
  /\ stored' = stored \cup {b}
  /\ UNCHANGED <<acked, failed>>

Ack(b) ==
  /\ b \in stored
  /\ acked' = acked \cup {b}
  /\ UNCHANGED <<stored, failed>>

Fail(b) ==
  /\ b \notin stored
  /\ failed' = failed \cup {b}
  /\ UNCHANGED <<stored, acked>>

Next == \E b \in Batch : Store(b) \/ Ack(b) \/ Fail(b)

Spec == Init /\ [][Next]_vars

=============================================================================
