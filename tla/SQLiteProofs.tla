----------------------------- MODULE SQLiteProofs ----------------------------
(***************************************************************************)
(* Proofs about module SQLite: for every set of workers, every length of a *)
(* batch and any number of calls and crashes, a batch is in the table as a *)
(* whole or not at all, and the module implements AtomicStore.             *)
(***************************************************************************)
EXTENDS SQLite, FiniteSetTheorems, TLAPS

-----------------------------------------------------------------------------
(* Facts about sequences, division and cardinality.                        *)

LEMMA AppendType ==
  ASSUME NEW S, NEW s \in Seq(S), NEW x \in S
  PROVE  /\ Append(s, x) \in Seq(S)
         /\ Len(s) \in Nat /\ Len(Append(s, x)) = Len(s) + 1
         /\ DOMAIN Append(s, x) = 1 .. Len(s) + 1
         /\ \A i \in 1 .. Len(s) : Append(s, x)[i] = s[i]
         /\ Append(s, x)[Len(s) + 1] = x
OBVIOUS

LEMMA Concatenation ==
  ASSUME NEW S, NEW s \in Seq(S), NEW t \in Seq(S)
  PROVE  /\ s \o t \in Seq(S)
         /\ Len(s) \in Nat /\ Len(t) \in Nat
         /\ DOMAIN s = 1 .. Len(s) /\ DOMAIN t = 1 .. Len(t)
         /\ DOMAIN (s \o t) = 1 .. Len(s) + Len(t)
         /\ Len(s \o t) = Len(s) + Len(t)
         /\ \A i \in 1 .. Len(s) : (s \o t)[i] = s[i]
         /\ \A i \in 1 .. Len(t) : (s \o t)[Len(s) + i] = t[i]
OBVIOUS

LEMMA Division ==
  ASSUME NEW a \in Nat, NEW d \in Nat \ {0}
  PROVE  /\ a \div d \in Nat
         /\ (a \div d) * d <= a
         /\ a < (a \div d) * d + d
OBVIOUS

LEMMA Multiples ==
  ASSUME NEW i \in Nat, NEW j \in Nat, NEW d \in Nat \ {0}, i < j
  PROVE  i * d + d <= j * d
OBVIOUS

LEMMA Quotient ==
  ASSUME NEW a \in Nat, NEW d \in Nat \ {0}, NEW i \in Nat
  PROVE  a \div d = i <=> i * d <= a /\ a < i * d + d
<1>1. PICK q \in Nat : q = a \div d /\ q * d <= a /\ a < q * d + d
  BY Division
<1>2. q < i => q * d + d <= i * d
  BY <1>1, Multiples
<1>3. i < q => i * d + d <= q * d
  BY <1>1, Multiples
<1>4. q * d \in Nat /\ i * d \in Nat
  BY <1>1
<1>. QED
  BY <1>1, <1>2, <1>3, <1>4

LEMMA Remainder ==
  ASSUME NEW a \in Nat, NEW d \in Nat \ {0}
  PROVE  a % d = a - (a \div d) * d
OBVIOUS

-----------------------------------------------------------------------------
(* The inductive invariant.                                                *)

Row == [batch : Batch, nth : 1 .. BatchLen]

TypeInv ==
  /\ db \in {"open", "closed", "down"}
  /\ table \in Seq(Row)
  /\ conn \in Worker \cup {NoOne}
  /\ tx \in Seq(Row)
  /\ pc \in [Worker -> {"idle", "begin", "insert", "rollback", "committed"}]
  /\ calls \in [Worker -> 0 .. MaxCalls]
  /\ left \in [Worker -> 0 .. BatchLen]
  /\ acked \subseteq Batch /\ failed \subseteq Batch

Stored == {b \in Batch : RowsOf(b) # {}}

\* Whoever holds the connection has an open transaction, with the first rows of
\* its batch; without a holder there is none.
OpenTx ==
  /\ conn = NoOne => tx = << >>
  /\ conn # NoOne =>
       /\ pc[conn] \in {"insert", "rollback"}
       /\ Len(tx) = BatchLen - left[conn]
       /\ \A i \in DOMAIN tx : tx[i] = [batch |-> Current(conn), nth |-> i]

\* The table is divided into blocks of BatchLen rows, and two rows are of one
\* batch exactly if they are in one block.
Block(i) == (i - 1) \div BatchLen
Blocks ==
  /\ \E n \in 0 .. Len(table) : Len(table) = n * BatchLen
  /\ \A i \in DOMAIN table : table[i].nth = i - Block(i) * BatchLen
  /\ \A i, j \in DOMAIN table : table[i].batch = table[j].batch <=> Block(i) = Block(j)

\* Which replies and rows the call that w is in, and those it has still to make,
\* may have already.
Calls ==
  \A w \in Worker :
    /\ pc[w] # "idle" => calls[w] > 0 /\ Current(w) \notin failed
    /\ pc[w] = "begin" => left[w] = BatchLen
    /\ pc[w] \in {"begin", "insert", "rollback"} => Current(w) \notin Stored
    /\ pc[w] = "committed" => Current(w) \in Stored
    /\ \A b \in Stored \cup failed : b.by = w => b.call <= calls[w]

IInv == TypeInv /\ OpenTx /\ Blocks /\ Calls

-----------------------------------------------------------------------------
(* The steps.                                                              *)

LEMMA CurrentType ==
  ASSUME TypeInv, Calls, NEW w \in Worker, pc[w] # "idle"
  PROVE  Current(w) \in Batch
<1>1. calls[w] \in 0 .. MaxCalls /\ calls[w] > 0 /\ MaxCalls \in Nat
  BY SQLiteAssumption DEF TypeInv, Calls
<1>2. calls[w] \in 1 .. MaxCalls
  BY <1>1
<1>. QED
  BY <1>2 DEF Current, Batch

LEMMA EmptyTx == << >> \in Seq(Row) /\ Len(<< >>) = 0 /\ DOMAIN << >> = {}
OBVIOUS

\* A step that leaves the table alone stores nothing.
LEMMA TableKept ==
  ASSUME Blocks, UNCHANGED table
  PROVE  Blocks' /\ Stored' = Stored
BY DEF Blocks, Block, Stored, RowsOf

LEMMA InsertBatchStep ==
  ASSUME IInv, NEW w \in Worker, InsertBatch(w)
  PROVE  IInv'
<1>1. /\ pc[w] = "idle" /\ calls[w] < MaxCalls
      /\ pc' = [pc EXCEPT ![w] = "begin"]
      /\ calls' = [calls EXCEPT ![w] = calls[w] + 1]
      /\ left' = [left EXCEPT ![w] = BatchLen]
      /\ UNCHANGED <<db, table, conn, tx, acked, failed>>
  BY DEF InsertBatch, replies
<1>2. TypeInv
  BY DEF IInv
<1>3. /\ calls[w] \in Nat /\ MaxCalls \in Nat /\ BatchLen \in Nat
  BY <1>2, SQLiteAssumption DEF TypeInv
<1>4. TypeInv'
  <2>1. calls[w] + 1 \in 0 .. MaxCalls /\ BatchLen \in 0 .. BatchLen
    BY <1>1, <1>3
  <2>2. calls' \in [Worker -> 0 .. MaxCalls] /\ left' \in [Worker -> 0 .. BatchLen]
    BY <1>1, <1>2, <2>1 DEF TypeInv
  <2>3. pc' \in [Worker -> {"idle", "begin", "insert", "rollback", "committed"}]
    BY <1>1, <1>2 DEF TypeInv
  <2>. QED
    BY <1>1, <1>2, <2>2, <2>3 DEF TypeInv
<1>5. OpenTx'
  <2>1. conn # w
    BY <1>1, SQLiteAssumption DEF IInv, OpenTx
  <2>2. conn # NoOne => conn \in Worker
    BY <1>2 DEF TypeInv
  <2>3. conn # NoOne => pc'[conn] = pc[conn] /\ left'[conn] = left[conn] /\ calls'[conn] = calls[conn]
    BY <1>1, <1>2, <2>1, <2>2 DEF TypeInv
  <2>. QED
    BY <1>1, <2>3 DEF IInv, OpenTx, Current
<1>6. Blocks' /\ Stored' = Stored
  BY <1>1, TableKept DEF IInv
<1>7. Calls'
  <2>. SUFFICES ASSUME NEW v \in Worker
                PROVE  /\ pc'[v] # "idle" => calls'[v] > 0 /\ Current(v)' \notin failed
                       /\ pc'[v] = "begin" => left'[v] = BatchLen
                       /\ pc'[v] \in {"begin", "insert", "rollback"} => Current(v)' \notin Stored
                       /\ pc'[v] = "committed" => Current(v)' \in Stored
                       /\ \A b \in Stored \cup failed : b.by = v => b.call <= calls'[v]
    BY <1>1, <1>6 DEF Calls
  <2>1. CASE v = w
    <3>1. pc'[v] = "begin" /\ calls'[v] = calls[v] + 1 /\ left'[v] = BatchLen
      BY <1>1, <1>2, <2>1 DEF TypeInv
    <3>2. \A b \in Stored \cup failed : b.by = v => b.call <= calls[v] /\ b.call \in Nat
      BY <1>2 DEF IInv, Calls, TypeInv, Stored, Batch
    <3>3. Current(v)' = [by |-> v, call |-> calls[v] + 1]
      BY <3>1 DEF Current
    <3>4. Current(v)' \notin Stored \cup failed
      BY <1>3, <2>1, <3>2, <3>3
    <3>. QED
      BY <1>3, <2>1, <3>1, <3>2, <3>4
  <2>2. CASE v # w
    <3>1. pc'[v] = pc[v] /\ calls'[v] = calls[v] /\ left'[v] = left[v]
      BY <1>1, <1>2, <2>2 DEF TypeInv
    <3>2. Current(v)' = Current(v)
      BY <3>1 DEF Current
    <3>. QED
      BY <3>1, <3>2 DEF IInv, Calls
  <2>. QED
    BY <2>1, <2>2
<1>. QED
  BY <1>4, <1>5, <1>6, <1>7 DEF IInv

\* A step that stores nothing, answers nobody and starts no call leaves what Calls
\* says, as long as no call goes back to its beginning or on to its end.
LEMMA CallsKept ==
  ASSUME Calls, UNCHANGED <<table, calls, failed>>, Stored' = Stored,
         \A v \in Worker :
           /\ pc'[v] # "idle" => pc[v] # "idle"
           /\ pc'[v] = "begin" => pc[v] = "begin" /\ left'[v] = left[v]
           /\ pc'[v] \in {"insert", "rollback"} => pc[v] \in {"begin", "insert", "rollback"}
           /\ pc'[v] = "committed" => pc[v] = "committed"
  PROVE  Calls'
<1>1. \A v \in Worker : Current(v)' = Current(v)
  BY DEF Current
<1>. QED
  BY <1>1 DEF Calls

\* The steps between begin and return that keep the table.
LEMMA InCallStep ==
  ASSUME IInv, NEW w \in Worker, Begin(w) \/ Exec(w) \/ Fails(w) \/ CommitFails(w)
  PROVE  IInv'
<1>1. /\ UNCHANGED <<db, table, calls, acked, failed>>
      /\ TypeInv /\ OpenTx /\ Blocks /\ Calls
  BY DEF Begin, Exec, Fails, CommitFails, replies, IInv
<1>2. Blocks' /\ Stored' = Stored
  BY <1>1, TableKept
<1>3. BatchLen \in Nat \ {0} /\ left[w] \in 0 .. BatchLen /\ NoOne \notin Worker
  BY <1>1, SQLiteAssumption DEF TypeInv
<1>4. CASE Begin(w)
  <2>1. /\ pc[w] = "begin" /\ conn = NoOne /\ conn' = w /\ tx' = << >>
        /\ pc' = [pc EXCEPT ![w] = "insert"] /\ left' = left
    BY <1>4 DEF Begin
  <2>2. pc' \in [Worker -> {"idle", "begin", "insert", "rollback", "committed"}]
    BY <1>1, <2>1 DEF TypeInv
  <2>3. TypeInv'
    BY <1>1, <2>1, <2>2, EmptyTx DEF TypeInv
  <2>4. left[w] = BatchLen
    BY <1>1, <2>1 DEF Calls
  <2>5. pc'[w] = "insert" /\ \A v \in Worker \ {w} : pc'[v] = pc[v]
    BY <1>1, <2>1 DEF TypeInv
  <2>6. OpenTx'
    BY <1>3, <2>1, <2>4, <2>5, EmptyTx DEF OpenTx
  <2>7. Calls'
    BY <1>1, <1>2, <2>1, <2>5, CallsKept
  <2>. QED
    BY <1>2, <2>3, <2>6, <2>7 DEF IInv
<1>5. CASE Exec(w)
  <2>1. PICK row : row = [batch |-> Current(w), nth |-> BatchLen - left[w] + 1]
    OBVIOUS
  <2>2. /\ pc[w] = "insert" /\ left[w] > 0 /\ conn = w
        /\ tx' = Append(tx, row)
        /\ left' = [left EXCEPT ![w] = left[w] - 1]
        /\ UNCHANGED <<conn, pc>>
    BY <1>5, <2>1 DEF Exec, InTx
  <2>3. row \in Row
    <3>1. Current(w) \in Batch
      BY <1>1, <2>2, CurrentType
    <3>2. BatchLen - left[w] + 1 \in 1 .. BatchLen
      BY <1>3, <2>2
    <3>. QED
      BY <2>1, <3>1, <3>2 DEF Row
  <2>4. /\ tx \in Seq(Row) /\ Len(tx) = BatchLen - left[w]
        /\ \A i \in 1 .. Len(tx) : tx[i] = [batch |-> Current(w), nth |-> i]
    BY <1>1, <1>3, <2>2 DEF TypeInv, OpenTx
  <2>5. /\ tx' \in Seq(Row) /\ Len(tx) \in Nat /\ Len(tx') = Len(tx) + 1
        /\ DOMAIN tx' = 1 .. Len(tx) + 1
        /\ \A i \in 1 .. Len(tx) : tx'[i] = tx[i]
        /\ tx'[Len(tx) + 1] = row
    BY <2>2, <2>3, <2>4, AppendType
  <2>6. left' \in [Worker -> 0 .. BatchLen] /\ left'[w] = left[w] - 1
    BY <1>1, <1>3, <2>2 DEF TypeInv
  <2>7. TypeInv'
    BY <1>1, <2>2, <2>5, <2>6 DEF TypeInv
  <2>8. Current(w)' = Current(w)
    BY <1>1 DEF Current
  <2>9. \A i \in DOMAIN tx' : tx'[i] = [batch |-> Current(w), nth |-> i]
    <3>1. row = [batch |-> Current(w), nth |-> Len(tx) + 1]
      BY <2>1, <2>4
    <3>2. \A i \in DOMAIN tx' : i \in 1 .. Len(tx) \/ i = Len(tx) + 1
      BY <2>5
    <3>. QED
      BY <2>4, <2>5, <3>1, <3>2
  <2>10. Len(tx') = BatchLen - left'[w]
    BY <1>3, <2>4, <2>5, <2>6
  <2>11. OpenTx'
    <3>1. conn' = w /\ conn' # NoOne /\ pc'[w] = "insert"
      BY <1>3, <2>2
    <3>. QED
      BY <2>8, <2>9, <2>10, <3>1 DEF OpenTx, Current
  <2>12. \A v \in Worker \ {w} : left'[v] = left[v]
    BY <1>1, <2>2 DEF TypeInv
  <2>13. Calls'
    BY <1>1, <1>2, <2>2, <2>12, CallsKept
  <2>. QED
    BY <1>2, <2>7, <2>11, <2>13 DEF IInv
<1>6. CASE Fails(w) \/ CommitFails(w)
  <2>1. /\ pc[w] = "insert" /\ left' = left
        /\ pc' = [pc EXCEPT ![w] = "rollback"]
        /\ \/ UNCHANGED <<conn, tx>>
           \/ conn' = NoOne /\ tx' = << >>
    BY <1>6 DEF Fails, CommitFails
  <2>2. /\ pc' \in [Worker -> {"idle", "begin", "insert", "rollback", "committed"}]
        /\ pc'[w] = "rollback" /\ \A v \in Worker \ {w} : pc'[v] = pc[v]
    BY <1>1, <2>1 DEF TypeInv
  <2>3. TypeInv'
    BY <1>1, <2>1, <2>2, EmptyTx DEF TypeInv
  <2>4. OpenTx'
    <3>1. CASE conn' = NoOne /\ tx' = << >>
      BY <3>1 DEF OpenTx
    <3>2. CASE UNCHANGED <<conn, tx>>
      <4>1. conn # NoOne => conn \in Worker
        BY <1>1 DEF TypeInv
      <4>2. conn # NoOne => pc'[conn] \in {"insert", "rollback"}
        BY <1>1, <2>2, <4>1 DEF OpenTx
      <4>. QED
        BY <1>1, <2>1, <3>2, <4>2 DEF OpenTx, Current
    <3>. QED
      BY <2>1, <3>1, <3>2
  <2>5. Calls'
    BY <1>1, <1>2, <2>1, <2>2, CallsKept
  <2>. QED
    BY <1>2, <2>3, <2>4, <2>5 DEF IInv
<1>. QED
  BY <1>4, <1>5, <1>6

\* The context, Close, a crash and the reopening: no call makes progress.
LEMMA OutsideStep ==
  ASSUME IInv,
         \/ \E w \in Worker : Expire(w) \/ AutoRollback(w)
         \/ Close \/ Crash \/ Open
  PROVE  IInv'
<1>1. /\ UNCHANGED <<table, calls, left, acked, failed>>
      /\ db' \in {"open", "closed", "down"}
      /\ \/ UNCHANGED <<conn, tx>>
         \/ conn' = NoOne /\ tx' = << >>
      /\ \/ pc' = pc
         \/ pc' = [w \in Worker |-> "idle"] /\ conn' = NoOne /\ tx' = << >>
      /\ TypeInv /\ OpenTx /\ Blocks /\ Calls
  BY DEF Expire, AutoRollback, Close, Crash, Open, replies, IInv, TypeInv
<1>2. Blocks' /\ Stored' = Stored
  BY <1>1, TableKept
<1>3. TypeInv'
  BY <1>1, EmptyTx DEF TypeInv
<1>4. OpenTx'
  <2>1. CASE conn' = NoOne /\ tx' = << >>
    BY <2>1 DEF OpenTx
  <2>2. CASE UNCHANGED <<conn, tx, pc>>
    BY <1>1, <2>2 DEF OpenTx, Current
  <2>. QED
    BY <1>1, <2>1, <2>2
<1>5. Calls'
  <2>1. pc' = pc \/ \A v \in Worker : pc'[v] = "idle"
    BY <1>1
  <2>. QED
    BY <1>1, <1>2, <2>1, CallsKept
<1>. QED
  BY <1>2, <1>3, <1>4, <1>5 DEF IInv

\* A call that returns holds no connection any more. Its worker is answered what is
\* true: nothing stored after an error, and the batch stored otherwise.
LEMMA ReturnStep ==
  ASSUME IInv, NEW w \in Worker, BeginFails(w) \/ ReturnNil(w) \/ Rollback(w)
  PROVE  /\ IInv'
         /\ Current(w) \in Batch
         /\ UNCHANGED table
         /\ \/ /\ Current(w) \in Stored
               /\ acked' = acked \cup {Current(w)} /\ failed' = failed
            \/ /\ Current(w) \notin Stored
               /\ failed' = failed \cup {Current(w)} /\ acked' = acked
<1>1. /\ pc[w] \in {"begin", "rollback", "committed"}
      /\ pc' = [pc EXCEPT ![w] = "idle"]
      /\ UNCHANGED <<db, calls, left, table>>
      /\ \/ UNCHANGED <<conn, tx>> /\ (pc[w] = "rollback" => conn # w)
         \/ conn' = NoOne /\ tx' = << >>
      /\ IF pc[w] = "committed"
         THEN acked' = acked \cup {Current(w)} /\ failed' = failed
         ELSE failed' = failed \cup {Current(w)} /\ acked' = acked
      /\ TypeInv /\ OpenTx /\ Blocks /\ Calls
  BY DEF BeginFails, ReturnNil, Rollback, Return, InTx, IInv
<1>2. Blocks' /\ Stored' = Stored
  BY <1>1, TableKept
<1>3. Current(w) \in Batch
  BY <1>1, CurrentType
<1>4. /\ pc' \in [Worker -> {"idle", "begin", "insert", "rollback", "committed"}]
      /\ pc'[w] = "idle" /\ \A v \in Worker \ {w} : pc'[v] = pc[v]
  BY <1>1 DEF TypeInv
<1>5. acked' \subseteq Batch /\ failed' \subseteq Batch
  BY <1>1, <1>3 DEF TypeInv
<1>6. TypeInv'
  BY <1>1, <1>4, <1>5, EmptyTx DEF TypeInv
<1>7. OpenTx'
  <2>1. conn = w => pc[w] = "rollback"
    BY <1>1, SQLiteAssumption DEF OpenTx
  <2>2. CASE conn' = NoOne /\ tx' = << >>
    BY <2>2 DEF OpenTx
  <2>3. CASE conn # w /\ UNCHANGED <<conn, tx>>
    <3>1. conn # NoOne => conn \in Worker \ {w}
      BY <1>1, <2>3 DEF TypeInv
    <3>. QED
      BY <1>1, <1>4, <2>3, <3>1 DEF OpenTx, Current
  <2>. QED
    BY <1>1, <2>1, <2>2, <2>3
<1>8. Calls'
  <2>. SUFFICES ASSUME NEW v \in Worker
                PROVE  /\ pc'[v] # "idle" => calls[v] > 0 /\ Current(v) \notin failed'
                       /\ pc'[v] = "begin" => left[v] = BatchLen
                       /\ pc'[v] \in {"begin", "insert", "rollback"} => Current(v) \notin Stored
                       /\ pc'[v] = "committed" => Current(v) \in Stored
                       /\ \A b \in Stored \cup failed' : b.by = v => b.call <= calls[v]
    BY <1>1, <1>2 DEF Calls, Current
  <2>1. Current(w).by = w /\ Current(w).call = calls[w] /\ calls[w] <= calls[w]
    BY <1>1 DEF Current, TypeInv
  <2>2. \A b \in Stored \cup failed' : b.by = v => b.call <= calls[v]
    BY <1>1, <2>1 DEF Calls
  <2>3. v # w => Current(v) # Current(w)
    BY DEF Current
  <2>. QED
    BY <1>1, <1>4, <2>2, <2>3 DEF Calls
<1>9. IF pc[w] = "committed" THEN Current(w) \in Stored ELSE Current(w) \notin Stored
  BY <1>1 DEF Calls
<1>10. IInv'
  BY <1>2, <1>6, <1>7, <1>8 DEF IInv
<1>. QED
  BY <1>1, <1>3, <1>9, <1>10

\* A commit appends one block, the whole batch of the call, and nothing else.
LEMMA CommitStep ==
  ASSUME IInv, NEW w \in Worker, Commit(w)
  PROVE  /\ IInv'
         /\ Current(w) \in Batch \ (Stored \cup failed)
         /\ Stored' = Stored \cup {Current(w)}
         /\ UNCHANGED <<acked, failed>>
<1>1. /\ pc[w] = "insert" /\ left[w] = 0 /\ conn = w
      /\ table' = table \o tx /\ tx' = << >> /\ conn' = NoOne
      /\ pc' = [pc EXCEPT ![w] = "committed"]
      /\ UNCHANGED <<db, calls, left, acked, failed>>
      /\ TypeInv /\ OpenTx /\ Blocks /\ Calls
  BY DEF Commit, InTx, replies, IInv
<1>2. PICK c : c = Current(w)
  OBVIOUS
<1>3. c \in Batch /\ c \notin Stored /\ c \notin failed
  BY <1>1, <1>2, CurrentType DEF Calls
<1>4. PICK n \in Nat : Len(table) = n * BatchLen
  BY <1>1 DEF Blocks
<1>5. PICK m \in Nat : m = n * BatchLen
  BY <1>4, SQLiteAssumption
<1>6. BatchLen \in Nat \ {0} /\ NoOne \notin Worker
  BY SQLiteAssumption
<1>7. /\ table \in Seq(Row) /\ tx \in Seq(Row)
      /\ Len(tx) = BatchLen /\ Len(table) = m
  BY <1>1, <1>4, <1>5, <1>6 DEF TypeInv, OpenTx
<1>8. /\ table' \in Seq(Row) /\ DOMAIN table = 1 .. m /\ DOMAIN tx = 1 .. BatchLen
      /\ DOMAIN table' = 1 .. m + BatchLen /\ Len(table') = m + BatchLen
      /\ \A i \in 1 .. m : table'[i] = table[i]
      /\ \A k \in 1 .. BatchLen : table'[m + k] = tx[k]
  <2>1. /\ table \o tx \in Seq(Row)
        /\ Len(table) \in Nat /\ Len(tx) \in Nat
        /\ DOMAIN table = 1 .. Len(table) /\ DOMAIN tx = 1 .. Len(tx)
        /\ DOMAIN (table \o tx) = 1 .. Len(table) + Len(tx)
        /\ Len(table \o tx) = Len(table) + Len(tx)
        /\ \A i \in 1 .. Len(table) : (table \o tx)[i] = table[i]
        /\ \A i \in 1 .. Len(tx) : (table \o tx)[Len(table) + i] = tx[i]
    <3>1. PICK S : table \in Seq(S) /\ tx \in Seq(S) /\ S = Row
      BY <1>7
    <3>2. table \in Seq(S) /\ tx \in Seq(S)
      BY <3>1
    <3>3. table \o tx \in Seq(S)
      BY <3>2, Concatenation
    <3>4. /\ Len(table) \in Nat /\ Len(tx) \in Nat
          /\ DOMAIN table = 1 .. Len(table) /\ DOMAIN tx = 1 .. Len(tx)
          /\ DOMAIN (table \o tx) = 1 .. Len(table) + Len(tx)
          /\ Len(table \o tx) = Len(table) + Len(tx)
          /\ \A i \in 1 .. Len(table) : (table \o tx)[i] = table[i]
          /\ \A i \in 1 .. Len(tx) : (table \o tx)[Len(table) + i] = tx[i]
      BY <3>2, Concatenation
    <3>. QED
      BY <3>1, <3>3, <3>4
  <2>. QED
    BY <1>1, <1>7, <2>1, Zenon
<1>9. \A i \in 1 .. m : table[i] \in Row
  BY <1>7, <1>8
<1>10. \A k \in 1 .. BatchLen : tx[k] = [batch |-> c, nth |-> k]
  BY <1>1, <1>2, <1>6, <1>8 DEF OpenTx
<1>11. \A i \in m + 1 .. m + BatchLen : table'[i].batch = c /\ table'[i].nth = i - m
  <2>. SUFFICES ASSUME NEW i \in m + 1 .. m + BatchLen
                PROVE  table'[i].batch = c /\ table'[i].nth = i - m
    OBVIOUS
  <2>1. i - m \in 1 .. BatchLen /\ m + (i - m) = i
    BY <1>6
  <2>2. table'[i] = [batch |-> c, nth |-> i - m]
    BY <1>8, <1>10, <2>1
  <2>. QED
    BY <2>2
<1>12. \A i \in m + 1 .. m + BatchLen : Block(i) = n
  <2>. SUFFICES ASSUME NEW i \in m + 1 .. m + BatchLen
                PROVE  Block(i) = n
    OBVIOUS
  <2>1. i - 1 \in Nat /\ n * BatchLen <= i - 1 /\ i - 1 < n * BatchLen + BatchLen
    BY <1>5, <1>6
  <2>. QED
    BY <1>6, <2>1, Quotient DEF Block
<1>13. \A i \in 1 .. m : Block(i) # n
  <2>. SUFFICES ASSUME NEW i \in 1 .. m, Block(i) = n
                PROVE  FALSE
    OBVIOUS
  <2>1. i - 1 \in Nat /\ i - 1 < n * BatchLen
    BY <1>5
  <2>. QED
    BY <1>5, <1>6, <2>1, Quotient DEF Block
<1>14. \A i \in DOMAIN table' : i \in 1 .. m \/ i \in m + 1 .. m + BatchLen
  BY <1>6, <1>8
<1>15. \A i \in 1 .. m : table[i].batch \in Batch /\ table[i].batch # c
  <2>. SUFFICES ASSUME NEW i \in 1 .. m
                PROVE  table[i].batch \in Batch /\ table[i].batch # c
    OBVIOUS
  <2>1. table[i].batch \in Batch
    BY <1>9 DEF Row
  <2>2. i \in RowsOf(table[i].batch)
    BY <1>8 DEF RowsOf
  <2>. QED
    BY <1>3, <2>1, <2>2 DEF Stored
<1>16. Blocks'
  <2>1. Len(table') = (n + 1) * BatchLen /\ n + 1 \in 0 .. Len(table')
    <3>1. (n + 1) * BatchLen = n * BatchLen + BatchLen /\ n + 1 <= (n + 1) * BatchLen
      BY <1>6
    <3>. QED
      BY <1>5, <1>6, <1>8, <3>1
  <2>2. \A i \in DOMAIN table' : table'[i].nth = i - Block(i) * BatchLen
    <3>1. \A i \in 1 .. m : table'[i].nth = i - Block(i) * BatchLen
      BY <1>1, <1>8 DEF Blocks
    <3>2. \A i \in m + 1 .. m + BatchLen : table'[i].nth = i - m
      BY <1>11
    <3>. QED
      BY <1>5, <1>12, <1>14, <3>1, <3>2
  <2>3. \A i, j \in DOMAIN table' : table'[i].batch = table'[j].batch <=> Block(i) = Block(j)
    <3>. SUFFICES ASSUME NEW i \in DOMAIN table', NEW j \in DOMAIN table'
                  PROVE  table'[i].batch = table'[j].batch <=> Block(i) = Block(j)
      OBVIOUS
    <3>1. CASE i \in 1 .. m /\ j \in 1 .. m
      BY <1>1, <1>8, <3>1 DEF Blocks
    <3>2. CASE i \in 1 .. m /\ j \in m + 1 .. m + BatchLen
      BY <1>8, <1>11, <1>12, <1>13, <1>15, <3>2
    <3>3. CASE i \in m + 1 .. m + BatchLen /\ j \in 1 .. m
      BY <1>8, <1>11, <1>12, <1>13, <1>15, <3>3
    <3>4. CASE i \in m + 1 .. m + BatchLen /\ j \in m + 1 .. m + BatchLen
      BY <1>11, <1>12, <3>4
    <3>. QED
      BY <1>14, <3>1, <3>2, <3>3, <3>4
  <2>4. Blocks' <=> /\ \E k \in 0 .. Len(table') : Len(table') = k * BatchLen
                    /\ \A i \in DOMAIN table' : table'[i].nth = i - Block(i) * BatchLen
                    /\ \A i, j \in DOMAIN table' :
                         table'[i].batch = table'[j].batch <=> Block(i) = Block(j)
    BY DEF Blocks, Block
  <2>. QED
    BY <2>1, <2>2, <2>3, <2>4
<1>17. Stored' = Stored \cup {c}
  <2>. SUFFICES ASSUME NEW b \in Batch
                PROVE  (\E i \in DOMAIN table' : table'[i].batch = b)
                         <=> b = c \/ \E i \in DOMAIN table : table[i].batch = b
    BY <1>3 DEF Stored, RowsOf
  <2>1. m + 1 \in DOMAIN table' /\ m + 1 \in m + 1 .. m + BatchLen
    BY <1>6, <1>8
  <2>2. 1 .. m \subseteq DOMAIN table'
    BY <1>6, <1>8
  <2>3. table'[m + 1].batch = c
    BY <1>11, <2>1
  <2>4. ASSUME NEW i \in DOMAIN table', table'[i].batch = b
        PROVE  b = c \/ \E k \in DOMAIN table : table[k].batch = b
    BY <1>8, <1>11, <1>14, <2>4
  <2>. QED
    BY <1>8, <2>1, <2>2, <2>3, <2>4
<1>18. /\ pc' \in [Worker -> {"idle", "begin", "insert", "rollback", "committed"}]
       /\ pc'[w] = "committed" /\ \A v \in Worker \ {w} : pc'[v] = pc[v]
  BY <1>1 DEF TypeInv
<1>19. TypeInv'
  BY <1>1, <1>8, <1>18, EmptyTx DEF TypeInv
<1>20. OpenTx'
  BY <1>1 DEF OpenTx
<1>21. Calls'
  <2>. SUFFICES ASSUME NEW v \in Worker
                PROVE  /\ pc'[v] # "idle" => calls[v] > 0 /\ Current(v) \notin failed
                       /\ pc'[v] = "begin" => left[v] = BatchLen
                       /\ pc'[v] \in {"begin", "insert", "rollback"} => Current(v) \notin Stored'
                       /\ pc'[v] = "committed" => Current(v) \in Stored'
                       /\ \A b \in Stored' \cup failed : b.by = v => b.call <= calls[v]
    BY <1>1 DEF Calls, Current
  <2>1. c.by = w /\ c.call = calls[w] /\ calls[w] <= calls[w]
    BY <1>1, <1>2 DEF Current, TypeInv
  <2>2. \A b \in Stored' \cup failed : b.by = v => b.call <= calls[v]
    BY <1>1, <1>17, <2>1 DEF Calls
  <2>3. v # w => Current(v) # c
    BY <2>1 DEF Current
  <2>. QED
    BY <1>1, <1>2, <1>17, <1>18, <2>2, <2>3 DEF Calls
<1>. QED
  BY <1>1, <1>2, <1>3, <1>16, <1>17, <1>19, <1>20, <1>21 DEF IInv

LEMMA InitIInv == Init => IInv
<1>. SUFFICES ASSUME Init
              PROVE  IInv
  OBVIOUS
<1>1. /\ db = "open" /\ table = << >> /\ conn = NoOne /\ tx = << >>
      /\ pc = [w \in Worker |-> "idle"] /\ calls = [w \in Worker |-> 0]
      /\ left = [w \in Worker |-> 0] /\ acked = {} /\ failed = {}
  BY DEF Init
<1>2. BatchLen \in Nat /\ MaxCalls \in Nat
  BY SQLiteAssumption
<1>3. TypeInv
  BY <1>1, <1>2, EmptyTx DEF TypeInv
<1>4. OpenTx
  BY <1>1 DEF OpenTx
<1>5. Blocks
  <2>1. 0 \in 0 .. Len(table) /\ Len(table) = 0 * BatchLen /\ DOMAIN table = {}
    BY <1>1, <1>2, EmptyTx
  <2>. QED
    BY <2>1 DEF Blocks
<1>6. Stored = {}
  BY <1>1, EmptyTx DEF Stored, RowsOf
<1>7. Calls
  BY <1>1, <1>6 DEF Calls
<1>. QED
  BY <1>3, <1>4, <1>5, <1>7 DEF IInv

\* What a step may do to the table and to the replies: what AtomicStore allows.
Stores == \E b \in Batch \ (Stored \cup failed) :
  Stored' = Stored \cup {b} /\ UNCHANGED <<acked, failed>>
Replies == \E b \in Batch :
  \/ b \in Stored /\ acked' = acked \cup {b} /\ UNCHANGED failed
  \/ b \notin Stored /\ failed' = failed \cup {b} /\ UNCHANGED acked
Stutters == UNCHANGED <<acked, failed>>

LEMMA StepIInv ==
  ASSUME IInv, [Next]_vars
  PROVE  /\ IInv'
         /\ Stores \/ (Stored' = Stored /\ (Replies \/ Stutters))
<1>1. ASSUME NEW w \in Worker, InsertBatch(w)
      PROVE  IInv' /\ Stored' = Stored /\ Stutters
  <2>1. UNCHANGED <<table, acked, failed>>
    BY <1>1 DEF InsertBatch, replies
  <2>. QED
    BY <1>1, <2>1, InsertBatchStep, TableKept DEF IInv, Stutters
<1>2. ASSUME NEW w \in Worker, CallStep(w)
      PROVE  /\ IInv'
             /\ Stores \/ (Stored' = Stored /\ (Replies \/ Stutters))
  <2>1. CASE Begin(w) \/ Exec(w) \/ Fails(w) \/ CommitFails(w)
    <3>1. UNCHANGED <<table, acked, failed>>
      BY <2>1 DEF Begin, Exec, Fails, CommitFails, replies
    <3>. QED
      BY <2>1, <3>1, InCallStep, TableKept DEF IInv, Stutters
  <2>2. CASE Commit(w)
    <3>1. PICK c : c = Current(w)
      OBVIOUS
    <3>2. /\ IInv' /\ c \in Batch \ (Stored \cup failed)
          /\ Stored' = Stored \cup {c} /\ UNCHANGED <<acked, failed>>
      BY <2>2, <3>1, CommitStep
    <3>. QED
      BY <3>2 DEF Stores
  <2>3. CASE BeginFails(w) \/ ReturnNil(w) \/ Rollback(w)
    <3>1. /\ IInv' /\ Current(w) \in Batch /\ UNCHANGED table
          /\ \/ /\ Current(w) \in Stored
                /\ acked' = acked \cup {Current(w)} /\ failed' = failed
             \/ /\ Current(w) \notin Stored
                /\ failed' = failed \cup {Current(w)} /\ acked' = acked
      BY <2>3, ReturnStep
    <3>. QED
      BY <3>1, TableKept DEF IInv, Replies
  <2>. QED
    BY <1>2, <2>1, <2>2, <2>3 DEF CallStep
<1>3. ASSUME (\E w \in Worker : Expire(w) \/ AutoRollback(w)) \/ Close \/ Crash \/ Open
      PROVE  IInv' /\ Stored' = Stored /\ Stutters
  <2>1. UNCHANGED <<table, acked, failed>>
    BY <1>3 DEF Expire, AutoRollback, Close, Crash, Open, replies
  <2>. QED
    BY <1>3, <2>1, OutsideStep, TableKept DEF IInv, Stutters
<1>4. CASE UNCHANGED vars
  <2>1. UNCHANGED <<db, table, conn, tx, pc, calls, left, acked, failed>>
    BY <1>4 DEF vars
  <2>2. TypeInv' /\ OpenTx' /\ Blocks' /\ Stored' = Stored
    BY <2>1, TableKept DEF IInv, TypeInv, OpenTx, Current
  <2>3. Calls'
    BY <2>1, <2>2, CallsKept DEF IInv
  <2>. QED
    BY <2>1, <2>2, <2>3 DEF IInv, Stutters
<1>. QED
  BY <1>1, <1>2, <1>3, <1>4 DEF Next

-----------------------------------------------------------------------------
(* The theorems.                                                           *)

LEMMA BlockRange ==
  ASSUME NEW i \in Nat, i > 0
  PROVE  /\ Block(i) \in Nat
         /\ Block(i) * BatchLen <= i - 1 /\ i - 1 < Block(i) * BatchLen + BatchLen
<1>1. i - 1 \in Nat /\ BatchLen \in Nat \ {0}
  BY SQLiteAssumption
<1>. QED
  BY <1>1, Division DEF Block

\* A block of the table holds the rows of one batch, and it is complete.
LEMMA RowsOfABatch ==
  ASSUME IInv, NEW b \in Batch
  PROVE  Cardinality(RowsOf(b)) \in {0, BatchLen}
<1>1. PICK n \in Nat : Len(table) = n * BatchLen
  BY DEF IInv, Blocks
<1>2. BatchLen \in Nat \ {0} /\ DOMAIN table = 1 .. Len(table) /\ Len(table) \in Nat
  BY SQLiteAssumption DEF IInv, TypeInv
<1>3. CASE RowsOf(b) = {}
  BY <1>3, FS_EmptySet
<1>4. CASE RowsOf(b) # {}
  <2>1. PICK i \in DOMAIN table : table[i].batch = b
    BY <1>4 DEF RowsOf
  <2>2. PICK q \in Nat : q = Block(i) /\ q * BatchLen <= i - 1 /\ i - 1 < q * BatchLen + BatchLen
    <3>1. i \in Nat /\ i > 0
      BY <1>2
    <3>2. /\ Block(i) \in Nat
          /\ Block(i) * BatchLen <= i - 1 /\ i - 1 < Block(i) * BatchLen + BatchLen
      BY <3>1, BlockRange
    <3>. QED
      BY <3>2
  <2>3. PICK k \in Nat : k = q * BatchLen
    BY <1>2
  <2>4. \A j \in DOMAIN table : table[j].batch = b <=> Block(j) = q
    BY <2>1, <2>2 DEF IInv, Blocks
  <2>5. \A j \in DOMAIN table : Block(j) = q <=> j \in k + 1 .. k + BatchLen
    <3>. SUFFICES ASSUME NEW j \in DOMAIN table
                  PROVE  Block(j) = q <=> j \in k + 1 .. k + BatchLen
      OBVIOUS
    <3>1. j \in Nat /\ j - 1 \in Nat
      BY <1>2
    <3>2. Block(j) = q <=> k <= j - 1 /\ j - 1 < k + BatchLen
      BY <1>2, <2>3, <3>1, Quotient DEF Block
    <3>. QED
      BY <1>2, <3>1, <3>2
  <2>6. q < n
    <3>1. n <= q => n * BatchLen <= q * BatchLen
      <4>1. n < q => n * BatchLen + BatchLen <= q * BatchLen
        BY <1>2, Multiples
      <4>2. n * BatchLen \in Nat /\ q * BatchLen \in Nat
        BY <1>2
      <4>. QED
        BY <1>2, <4>1, <4>2
    <3>. QED
      BY <1>1, <1>2, <2>2, <2>3, <3>1
  <2>7. k + BatchLen <= Len(table)
    BY <1>1, <1>2, <2>3, <2>6, Multiples
  <2>8. k + 1 .. k + BatchLen \subseteq DOMAIN table
    BY <1>2, <2>7
  <2>9. RowsOf(b) = k + 1 .. k + BatchLen
    BY <2>4, <2>5, <2>8 DEF RowsOf
  <2>10. k + 1 \in Int /\ k + BatchLen \in Int /\ ~ (k + 1 > k + BatchLen)
         /\ (k + BatchLen) - (k + 1) + 1 = BatchLen
    BY <1>2
  <2>. QED
    BY <2>9, <2>10, FS_Interval
<1>. QED
  BY <1>3, <1>4

LEMMA IInvAllOrNothing == IInv => AllOrNothing
<1>. SUFFICES ASSUME IInv
              PROVE  AllOrNothing
  OBVIOUS
<1>1. BatchLen \in Nat \ {0} /\ DOMAIN table = 1 .. Len(table) /\ Len(table) \in Nat
  BY SQLiteAssumption DEF IInv, TypeInv
<1>. SUFFICES ASSUME NEW i \in DOMAIN table
              PROVE  /\ table[i].nth = 1 + ((i - 1) % BatchLen)
                     /\ i > 1 /\ table[i].nth > 1 => table[i - 1].batch = table[i].batch
  BY RowsOfABatch DEF AllOrNothing
<1>2. PICK q \in Nat : q = Block(i) /\ q * BatchLen <= i - 1 /\ i - 1 < q * BatchLen + BatchLen
  <2>1. i \in Nat /\ i > 0
    BY <1>1
  <2>2. /\ Block(i) \in Nat
        /\ Block(i) * BatchLen <= i - 1 /\ i - 1 < Block(i) * BatchLen + BatchLen
    BY <2>1, BlockRange
  <2>. QED
    BY <2>2
<1>3. PICK k \in Nat : k = q * BatchLen
  BY <1>1
<1>4. table[i].nth = i - k
  BY <1>2, <1>3 DEF IInv, Blocks
<1>5. table[i].nth = 1 + ((i - 1) % BatchLen)
  <2>1. i - 1 \in Nat
    BY <1>1
  <2>2. (i - 1) % BatchLen = (i - 1) - k
    BY <1>1, <1>2, <1>3, <2>1, Remainder DEF Block
  <2>. QED
    BY <1>1, <1>4, <2>2
<1>6. ASSUME i > 1, table[i].nth > 1
      PROVE  table[i - 1].batch = table[i].batch
  <2>1. i - 1 \in DOMAIN table /\ (i - 1) - 1 \in Nat
    BY <1>1, <1>6
  <2>2. k <= (i - 1) - 1 /\ (i - 1) - 1 < k + BatchLen
    BY <1>1, <1>2, <1>3, <1>4, <1>6
  <2>3. Block(i - 1) = q
    BY <1>1, <1>3, <2>1, <2>2, Quotient DEF Block
  <2>. QED
    BY <1>2, <2>1, <2>3 DEF IInv, Blocks
<1>. QED
  BY <1>5, <1>6

\* No call returns with the connection, whichever way it ends: its own Rollback, that of
\* database/sql or its Commit has given it back.
THEOREM ConnectionGivenBackHolds == Spec => []ConnectionGivenBack
<1>1. IInv => ConnectionGivenBack
  BY SQLiteAssumption DEF IInv, OpenTx, ConnectionGivenBack
<1>. QED
  BY <1>1, InitIInv, StepIInv, PTL DEF Spec

\* The table is whole batches in order at any moment, whatever failed, expired or
\* crashed: the rollbacks of InsertBatch and of database/sql see to it.
THEOREM AllOrNothingHolds == Spec => []AllOrNothing
<1>1. Init => IInv
  BY InitIInv
<1>2. IInv /\ [Next]_vars => IInv'
  BY StepIInv
<1>3. IInv => AllOrNothing
  BY IInvAllOrNothing
<1>. QED
  BY <1>1, <1>2, <1>3, PTL DEF Spec

LEMMA InitStore == Init => Store!Init
BY EmptyTx DEF Init, Store!Init, RowsOf

\* A step is a step of AtomicStore or changes nothing that AtomicStore sees.
LEMMA StepStore ==
  ASSUME IInv, [Next]_vars
  PROVE  [Store!Next]_(Store!vars)
<1>1. Stores \/ (Stored' = Stored /\ (Replies \/ Stutters))
  BY StepIInv
<1>2. CASE Stores
  <2>1. PICK b \in Batch : /\ b \notin Stored \cup failed
                           /\ Stored' = Stored \cup {b} /\ UNCHANGED <<acked, failed>>
    BY <1>2 DEF Stores
  <2>2. Store!Store(b)
    BY <2>1 DEF Store!Store, Stored
  <2>. QED
    BY <2>2 DEF Store!Next
<1>3. CASE Stored' = Stored /\ Replies
  <2>1. PICK b \in Batch :
          \/ b \in Stored /\ acked' = acked \cup {b} /\ UNCHANGED failed
          \/ b \notin Stored /\ failed' = failed \cup {b} /\ UNCHANGED acked
    BY <1>3 DEF Replies
  <2>2. Store!Ack(b) \/ Store!Fail(b)
    BY <1>3, <2>1 DEF Store!Ack, Store!Fail, Stored
  <2>. QED
    BY <2>2 DEF Store!Next
<1>4. CASE Stored' = Stored /\ Stutters
  BY <1>4 DEF Stutters, Store!vars, Stored
<1>. QED
  BY <1>1, <1>2, <1>3, <1>4

\* InsertBatch takes effect at one instant or not at all, answers what is true of it,
\* and what it stored outlives every crash: SQLite implements AtomicStore.
THEOREM StoreImplemented == Spec => ImplementsStore
<1>1. Init => IInv
  BY InitIInv
<1>2. IInv /\ [Next]_vars => IInv'
  BY StepIInv
<1>3. Init => Store!Init
  BY InitStore
<1>4. IInv /\ [Next]_vars => [Store!Next]_(Store!vars)
  BY StepStore
<1>. QED
  BY <1>1, <1>2, <1>3, <1>4, PTL DEF Spec, ImplementsStore, Store!Spec

=============================================================================
