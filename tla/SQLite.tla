------------------------------- MODULE SQLite -------------------------------
(***************************************************************************)
(* The SQLite storage strategy (backend/internal/storage/sqlite.go). The   *)
(* workers of the pool share one connection (SetMaxOpenConns(1)); a call   *)
(* of InsertBatch waits for it, begins a transaction, inserts its events   *)
(* one by one and commits, under a context that its worker created with a  *)
(* timeout and cancels when its flush is over.                             *)
(*                                                                         *)
(* database/sql watches that context: when it is done, a goroutine of its  *)
(* own rolls the transaction back and releases the connection, at any      *)
(* moment between two statements of the worker. Commit and this rollback   *)
(* exclude each other. The process may die at any moment; the database     *)
(* then holds what was committed.                                          *)
(***************************************************************************)
EXTENDS Integers, Sequences, FiniteSets

CONSTANTS
  Worker,       \* goroutines that call InsertBatch
  NoOne,        \* nobody holds the connection
  BatchLen,     \* number of events in a batch
  MaxCalls,     \* bound: calls of InsertBatch by each worker
  MaxCrashes    \* bound: crashes of the process

ASSUME SQLiteAssumption ==
  /\ BatchLen \in Nat \ {0}
  /\ MaxCalls \in Nat /\ MaxCrashes \in Nat
  /\ NoOne \notin Worker

VARIABLES
  db,           \* "open", "closed" (Close was called), "down" (no process)
  table,        \* the rows of the events table, in the order of their ids
  conn,         \* who holds the only connection
  tx,           \* rows inserted in the open transaction
  pc,           \* pc[w]: where w is in InsertBatch
  calls,        \* calls[w]: number of calls of w; names its batches
  left,         \* left[w]: number of rows w has still to insert
  ctxDone,      \* workers whose context is done: it expired or was cancelled
  acked,        \* batches whose InsertBatch returned nil
  failed,       \* batches whose InsertBatch returned an error
  crashes       \* number of crashes so far

vars == <<db, table, conn, tx, pc, calls, left, ctxDone, acked, failed, crashes>>

replies == <<acked, failed>>

Batch == [by : Worker, call : 1 .. MaxCalls]
Current(w) == [by |-> w, call |-> calls[w]]

Init ==
  /\ db = "open"
  /\ table = << >>
  /\ conn = NoOne
  /\ tx = << >>
  /\ pc = [w \in Worker |-> "idle"]
  /\ calls = [w \in Worker |-> 0]
  /\ left = [w \in Worker |-> 0]
  /\ ctxDone = {}
  /\ acked = {}
  /\ failed = {}
  /\ crashes = 0

-----------------------------------------------------------------------------
(* InsertBatch. (An empty batch returns nil at once; the pool has none.)   *)

InsertBatch(w) ==
  /\ db # "down"
  /\ pc[w] = "idle"
  /\ calls[w] < MaxCalls
  /\ pc' = [pc EXCEPT ![w] = "begin"]
  /\ calls' = [calls EXCEPT ![w] = @ + 1]
  /\ left' = [left EXCEPT ![w] = BatchLen]
  /\ ctxDone' = ctxDone \ {w}
  /\ UNCHANGED <<db, table, conn, tx, replies, crashes>>

\* The call returns, and its worker cancels the context. (It publishes first,
\* which has nothing to do with the context.)
Return(w, to) ==
  /\ pc' = [pc EXCEPT ![w] = "idle"]
  /\ ctxDone' = ctxDone \cup {w}
  /\ IF to = "ok" THEN acked' = acked \cup {Current(w)} /\ UNCHANGED failed
                  ELSE failed' = failed \cup {Current(w)} /\ UNCHANGED acked
  /\ UNCHANGED <<db, calls, left, crashes>>

\* BeginTx gets the connection when it is free, and prepares the statement.
Begin(w) ==
  /\ pc[w] = "begin"
  /\ db = "open"
  /\ conn = NoOne
  /\ w \notin ctxDone
  /\ conn' = w
  /\ tx' = << >>
  /\ pc' = [pc EXCEPT ![w] = "insert"]
  /\ UNCHANGED <<db, table, calls, left, ctxDone, replies, crashes>>

\* The context is done while the call waits for the connection, the database
\* was closed, or BEGIN itself fails.
BeginFails(w) ==
  /\ pc[w] = "begin"
  /\ w \in ctxDone \/ db = "closed" \/ conn = NoOne
  /\ Return(w, "error")
  /\ UNCHANGED <<table, conn, tx>>

\* The transaction of w is still there: nothing has rolled it back.
InTx(w) == conn = w

Exec(w) ==
  /\ pc[w] = "insert"
  /\ left[w] > 0
  /\ InTx(w) /\ w \notin ctxDone
  /\ tx' = Append(tx, [batch |-> Current(w), nth |-> BatchLen - left[w] + 1])
  /\ left' = [left EXCEPT ![w] = @ - 1]
  /\ UNCHANGED <<db, table, conn, pc, calls, ctxDone, replies, crashes>>

\* The error is logged and the loop goes on with the next event.
FailsMutant(w) ==
  /\ pc[w] = "insert"
  /\ left[w] > 0
  /\ left' = [left EXCEPT ![w] = @ - 1]
  /\ UNCHANGED <<db, table, conn, tx, pc, calls, ctxDone, replies, crashes>>

\* Preparing the statement, encoding a payload or inserting a row fails, or
\* the context is done (and the transaction perhaps gone) before the next row
\* or before the commit: the early returns.
Fails(w) ==
  /\ pc[w] = "insert"
  /\ left[w] > 0 \/ w \in ctxDone
  /\ pc' = [pc EXCEPT ![w] = "rollback"]
  /\ UNCHANGED <<db, table, conn, tx, calls, left, ctxDone, replies, crashes>>

\* tx.Commit. The rows are in the table before the call has returned.
Commit(w) ==
  /\ pc[w] = "insert"
  /\ left[w] = 0
  /\ InTx(w) /\ w \notin ctxDone
  /\ table' = table \o tx
  /\ tx' = << >>
  /\ conn' = NoOne
  /\ pc' = [pc EXCEPT ![w] = "committed"]
  /\ UNCHANGED <<db, calls, left, ctxDone, replies, crashes>>

\* The driver refuses the COMMIT; the transaction is over nevertheless.
CommitFails(w) ==
  /\ pc[w] = "insert"
  /\ left[w] = 0
  /\ InTx(w)
  /\ tx' = << >>
  /\ conn' = NoOne
  /\ pc' = [pc EXCEPT ![w] = "rollback"]
  /\ UNCHANGED <<db, table, calls, left, ctxDone, replies, crashes>>

\* The deferred Rollback finds the transaction done, and nil is returned.
ReturnNil(w) ==
  /\ pc[w] = "committed"
  /\ Return(w, "ok")
  /\ UNCHANGED <<table, conn, tx>>

\* There is no deferred Rollback.
RollbackMissingMutant(w) ==
  /\ pc[w] = "rollback"
  /\ Return(w, "error")
  /\ UNCHANGED <<table, conn, tx>>

\* Rollback waits for a transaction that was rolled back already.
RollbackWaitsMutant(w) ==
  /\ pc[w] = "rollback"
  /\ InTx(w)
  /\ conn' = NoOne /\ tx' = << >>
  /\ Return(w, "error")
  /\ UNCHANGED table

\* The deferred Rollback, unless the transaction is over.
Rollback(w) ==
  /\ pc[w] = "rollback"
  /\ IF InTx(w) THEN conn' = NoOne /\ tx' = << >>
                ELSE UNCHANGED <<conn, tx>>
  /\ Return(w, "error")
  /\ UNCHANGED table

-----------------------------------------------------------------------------
(* The context and database/sql's watch over it.                           *)

Expire(w) ==
  /\ pc[w] # "idle"
  /\ w \notin ctxDone
  /\ ctxDone' = ctxDone \cup {w}
  /\ UNCHANGED <<db, table, conn, tx, pc, calls, left, replies, crashes>>

AutoRollback(w) ==
  /\ InTx(w)
  /\ w \in ctxDone
  /\ conn' = NoOne
  /\ tx' = << >>
  /\ UNCHANGED <<db, table, pc, calls, left, ctxDone, replies, crashes>>

-----------------------------------------------------------------------------
(* Close, crashes and NewSQLiteDatabase.                                   *)

\* A transaction that is open may still be finished.
Close ==
  /\ db = "open"
  /\ db' = "closed"
  /\ UNCHANGED <<table, conn, tx, pc, calls, left, ctxDone, replies, crashes>>

Crash ==
  /\ db # "down"
  /\ crashes < MaxCrashes
  /\ crashes' = crashes + 1
  /\ db' = "down"
  /\ conn' = NoOne
  /\ tx' = << >>
  /\ pc' = [w \in Worker |-> "idle"]
  /\ ctxDone' = {}
  /\ UNCHANGED <<table, calls, left, replies>>

\* migrate starts from an empty table.
OpenMutant ==
  /\ db = "down"
  /\ db' = "open"
  /\ table' = << >>
  /\ UNCHANGED <<conn, tx, pc, calls, left, ctxDone, replies, crashes>>

\* migrate creates the table only if it does not exist. (When a step of the
\* opening fails the connection is closed and the process ends: still down.)
Open ==
  /\ db = "down"
  /\ db' = "open"
  /\ UNCHANGED <<table, conn, tx, pc, calls, left, ctxDone, replies, crashes>>

CallStep(w) ==
  \/ Begin(w) \/ BeginFails(w) \/ Exec(w) \/ Fails(w) \/ Commit(w)
  \/ CommitFails(w) \/ ReturnNil(w) \/ Rollback(w)

Next ==
  \/ \E w \in Worker :
       InsertBatch(w) \/ CallStep(w) \/ Expire(w) \/ AutoRollback(w)
  \/ Close
  \/ Crash
  \/ Open

\* A call that can go on does, contexts expire after 5 seconds, and
\* database/sql notices it. The database need not be closed, crash or come back.
Fairness ==
  \A w \in Worker : WF_vars(CallStep(w)) /\ WF_vars(Expire(w)) /\ WF_vars(AutoRollback(w))

Spec == Init /\ [][Next]_vars /\ Fairness

-----------------------------------------------------------------------------
(* Properties.                                                             *)

RowsOf(b) == {i \in DOMAIN table : table[i].batch = b}

\* The table is a sequence of whole batches, each stored once, its events next
\* to each other and in their order, whatever failed, expired or crashed.
AllOrNothing ==
  /\ \A b \in Batch : Cardinality(RowsOf(b)) \in {0, BatchLen}
  /\ \A i \in DOMAIN table :
       /\ table[i].nth = 1 + ((i - 1) % BatchLen)
       /\ i > 1 /\ table[i].nth > 1 => table[i - 1].batch = table[i].batch

\* A call that returns has given the only connection back, whichever early return it
\* took and whether it or database/sql has rolled back: nobody who waits for the
\* connection waits for a worker that is not in a transaction any more.
ConnectionGivenBack ==
  \A w \in Worker : conn = w => pc[w] \in {"insert", "rollback"}

\* Every call returns or dies with the process.
CallReturns == \A w \in Worker : pc[w] # "idle" ~> pc[w] = "idle"

Store == INSTANCE AtomicStore WITH
  stored <- {b \in Batch : RowsOf(b) # {}}

\* Each call takes effect at one instant or not at all, and what is stored
\* stays, across crashes (module AtomicStore).
ImplementsStore == Store!Spec

=============================================================================
