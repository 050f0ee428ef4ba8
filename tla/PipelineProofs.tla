--------------------------- MODULE PipelineProofs ----------------------------
(***************************************************************************)
(* Proofs about module Pipeline: for any numbers of events, workers, pages *)
(* and arrays, any sizes and any crashes, a page receives stored events    *)
(* only and none twice, and a crash loses no more than memory holds.       *)
(***************************************************************************)
EXTENDS Pipeline, FiniteSetTheorems, TLAPS

-----------------------------------------------------------------------------
(* What one page has received, is receiving and will receive: from its     *)
(* past g, the slice in hand h and the channel ch, over memory m.          *)

Slice == [array : Array, size : Nat \ {0}]

InSlice(m, s) == {m[s.array][i] : i \in 1 .. s.size}

\* The indices of the slice in hand that are still to be written.
ToWrite(h) == IF h = NoSlice THEN {} ELSE h[2] .. h[1].size
InHand(m, h) == {m[h[1].array][i] : i \in ToWrite(h)}

SeenBy(m, g, h, ch) ==
  Range(g) \cup InHand(m, h) \cup UNION {InSlice(m, ch[k]) : k \in DOMAIN ch}

\* No event is there twice.
Distinct(m, g, h, ch) ==
  /\ IsInjective(g)
  /\ \A i, j \in ToWrite(h) : m[h[1].array][i] = m[h[1].array][j] => i = j
  /\ Range(g) \cap InHand(m, h) = {}
  /\ \A k \in DOMAIN ch :
       /\ \A i, j \in 1 .. ch[k].size : m[ch[k].array][i] = m[ch[k].array][j] => i = j
       /\ InSlice(m, ch[k]) \cap (Range(g) \cup InHand(m, h)) = {}
       /\ \A l \in DOMAIN ch : l # k => InSlice(m, ch[k]) \cap InSlice(m, ch[l]) = {}

\* The two parts of a slice in hand, and what differs from one in no hand.
LEMMA HandParts ==
  ASSUME NEW s \in Slice, NEW i \in Nat \ {0}
  PROVE  /\ <<s, i>> # NoSlice /\ <<s, i>>[1] = s /\ <<s, i>>[2] = i
         /\ ToWrite(<<s, i>>) = i .. s.size
BY DEF NoSlice, ToWrite

LEMMA NoHand == ToWrite(NoSlice) = {} /\ \A m : InHand(m, NoSlice) = {}
BY DEF ToWrite, InHand

LEMMA SequenceFacts ==
  ASSUME NEW S, NEW q \in Seq(S)
  PROVE  /\ Len(q) \in Nat /\ DOMAIN q = 1 .. Len(q)
         /\ \A i \in 1 .. Len(q) : q[i] \in S
         /\ q # << >> =>
              /\ Head(q) \in S /\ Head(q) = q[1] /\ Len(q) >= 1
              /\ Tail(q) \in Seq(S) /\ Len(Tail(q)) = Len(q) - 1
              /\ DOMAIN Tail(q) = 1 .. Len(q) - 1
              /\ \A i \in 1 .. Len(q) - 1 : Tail(q)[i] = q[i + 1]
         /\ \A x \in S :
              /\ Append(q, x) \in Seq(S) /\ Len(Append(q, x)) = Len(q) + 1
              /\ DOMAIN Append(q, x) = 1 .. Len(q) + 1
              /\ Append(q, x)[Len(q) + 1] = x
              /\ \A i \in 1 .. Len(q) : Append(q, x)[i] = q[i]
OBVIOUS

\* Arrays that nothing refers to do not matter.
LEMMA MemoryAgrees ==
  ASSUME NEW m, NEW n, NEW g, NEW h, NEW ch \in Seq(Slice),
         h # NoSlice => n[h[1].array] = m[h[1].array],
         \A k \in DOMAIN ch : n[ch[k].array] = m[ch[k].array]
  PROVE  /\ SeenBy(n, g, h, ch) = SeenBy(m, g, h, ch)
         /\ Distinct(m, g, h, ch) => Distinct(n, g, h, ch)
<1>1. h = NoSlice => ToWrite(h) = {}
  BY NoHand
<1>2. InHand(n, h) = InHand(m, h)
  BY <1>1 DEF InHand
<1>3. \A k \in DOMAIN ch : InSlice(n, ch[k]) = InSlice(m, ch[k])
  BY DEF InSlice
<1>4. SeenBy(n, g, h, ch) = SeenBy(m, g, h, ch)
  BY <1>2, <1>3 DEF SeenBy
<1>5. ASSUME Distinct(m, g, h, ch)
      PROVE  Distinct(n, g, h, ch)
  <2>1. \A i, j \in ToWrite(h) : n[h[1].array][i] = n[h[1].array][j] => i = j
    BY <1>1, <1>5 DEF Distinct
  <2>2. \A k \in DOMAIN ch :
          \A i, j \in 1 .. ch[k].size : n[ch[k].array][i] = n[ch[k].array][j] => i = j
    BY <1>5 DEF Distinct
  <2>. QED
    BY <1>2, <1>3, <1>5, <2>1, <2>2 DEF Distinct
<1>. QED
  BY <1>4, <1>5

\* A page that is disconnected keeps what it has.
LEMMA ResetKeeps ==
  ASSUME NEW m, NEW g, NEW h, NEW ch, IsInjective(g)
  PROVE  /\ Distinct(m, g, NoSlice, << >>)
         /\ SeenBy(m, g, NoSlice, << >>) \subseteq SeenBy(m, g, h, ch)
         /\ SeenBy(m, g, NoSlice, << >>) = Range(g)
<1>1. DOMAIN << >> = {}
  OBVIOUS
<1>. QED
  BY <1>1, NoHand DEF Distinct, SeenBy

\* The handler takes a slice from its channel.
LEMMA TakeKeeps ==
  ASSUME NEW m, NEW g, NEW ch \in Seq(Slice), ch # << >>, Distinct(m, g, NoSlice, ch)
  PROVE  /\ Distinct(m, g, <<Head(ch), 1>>, Tail(ch))
         /\ SeenBy(m, g, <<Head(ch), 1>>, Tail(ch)) \subseteq SeenBy(m, g, NoSlice, ch)
<1>1. PICK s : s = Head(ch)
  OBVIOUS
<1>2. PICK t : t = Tail(ch)
  OBVIOUS
<1>3. /\ s \in Slice /\ s = ch[1] /\ Len(ch) \in Nat /\ Len(ch) >= 1
      /\ DOMAIN ch = 1 .. Len(ch) /\ DOMAIN t = 1 .. Len(ch) - 1
      /\ \A k \in 1 .. Len(ch) - 1 : t[k] = ch[k + 1]
  BY <1>1, <1>2, SequenceFacts
<1>4. ToWrite(<<s, 1>>) = 1 .. s.size /\ <<s, 1>>[1] = s
  BY <1>3, HandParts
<1>5. InHand(m, <<s, 1>>) = InSlice(m, s)
  BY <1>4 DEF InHand, InSlice
<1>6. \A k \in DOMAIN t : k + 1 \in DOMAIN ch /\ t[k] = ch[k + 1] /\ k + 1 # 1
  BY <1>3
<1>7. 1 \in DOMAIN ch
  BY <1>3
<1>8. SeenBy(m, g, <<s, 1>>, t) \subseteq SeenBy(m, g, NoSlice, ch)
  BY <1>3, <1>5, <1>6, <1>7 DEF SeenBy
<1>9. Distinct(m, g, <<s, 1>>, t)
  <2>1. \A i, j \in ToWrite(<<s, 1>>) : m[<<s, 1>>[1].array][i] = m[<<s, 1>>[1].array][j] => i = j
    BY <1>3, <1>4, <1>7 DEF Distinct
  <2>2. Range(g) \cap InHand(m, <<s, 1>>) = {}
    BY <1>3, <1>5, <1>7 DEF Distinct
  <2>3. ASSUME NEW k \in DOMAIN t
        PROVE  /\ \A i, j \in 1 .. t[k].size : m[t[k].array][i] = m[t[k].array][j] => i = j
               /\ InSlice(m, t[k]) \cap (Range(g) \cup InHand(m, <<s, 1>>)) = {}
               /\ \A l \in DOMAIN t : l # k => InSlice(m, t[k]) \cap InSlice(m, t[l]) = {}
    <3>1. /\ \A i, j \in 1 .. t[k].size : m[t[k].array][i] = m[t[k].array][j] => i = j
          /\ InSlice(m, t[k]) \cap Range(g) = {}
          /\ InSlice(m, t[k]) \cap InSlice(m, s) = {}
      BY <1>3, <1>6, <1>7 DEF Distinct
    <3>2. \A l \in DOMAIN t : l # k => l + 1 # k + 1
      BY <1>3
    <3>3. \A l \in DOMAIN t : l # k => InSlice(m, t[k]) \cap InSlice(m, t[l]) = {}
      BY <1>6, <3>2 DEF Distinct
    <3>. QED
      BY <1>5, <3>1, <3>3
  <2>. QED
    BY <2>1, <2>2, <2>3 DEF Distinct
<1>. QED
  BY <1>1, <1>2, <1>8, <1>9

\* The handler writes the next event of the slice in hand.
LEMMA WriteKeeps ==
  ASSUME NEW m, NEW g \in Seq(Event), NEW s \in Slice, NEW i \in Nat \ {0}, NEW ch, NEW h,
         Distinct(m, g, <<s, i>>, ch), i <= s.size, m[s.array][i] \in Event,
         h = IF i = s.size THEN NoSlice ELSE <<s, i + 1>>
  PROVE  /\ Distinct(m, Append(g, m[s.array][i]), h, ch)
         /\ SeenBy(m, Append(g, m[s.array][i]), h, ch) \subseteq SeenBy(m, g, <<s, i>>, ch)
<1>1. PICK x \in Event : x = m[s.array][i]
  OBVIOUS
<1>2. PICK f : f = Append(g, x)
  OBVIOUS
<1>3. /\ Len(g) \in Nat /\ DOMAIN g = 1 .. Len(g) /\ DOMAIN f = 1 .. Len(g) + 1
      /\ f[Len(g) + 1] = x /\ \A k \in 1 .. Len(g) : f[k] = g[k]
  BY <1>1, <1>2, SequenceFacts
<1>4. Range(f) = Range(g) \cup {x}
  BY <1>3 DEF Range
<1>5. s.size \in Nat
  BY DEF Slice
<1>6. ToWrite(<<s, i>>) = i .. s.size /\ <<s, i>>[1] = s
  BY HandParts
<1>7. ToWrite(h) = i + 1 .. s.size
  <2>1. CASE i = s.size
    <3>1. i + 1 .. s.size = {} /\ h = NoSlice
      BY <1>5, <2>1
    <3>. QED
      BY <3>1, NoHand
  <2>2. CASE i # s.size
    BY <2>2, HandParts
  <2>. QED
    BY <2>1, <2>2
<1>8. ToWrite(h) \subseteq ToWrite(<<s, i>>) \ {i} /\ i \in ToWrite(<<s, i>>)
  BY <1>5, <1>6, <1>7
<1>9. ToWrite(h) # {} => h[1] = s
  <2>1. CASE i = s.size
    BY <2>1, NoHand
  <2>2. CASE i # s.size
    BY <2>2, HandParts
  <2>. QED
    BY <2>1, <2>2
<1>10. InHand(m, h) = {m[s.array][j] : j \in ToWrite(h)}
  BY <1>9 DEF InHand
<1>11. InHand(m, <<s, i>>) = {m[s.array][j] : j \in ToWrite(<<s, i>>)}
  BY <1>6 DEF InHand
<1>12. x \in InHand(m, <<s, i>>) /\ InHand(m, h) \subseteq InHand(m, <<s, i>>)
  BY <1>1, <1>8, <1>10, <1>11
<1>13. x \notin InHand(m, h)
  BY <1>1, <1>6, <1>8, <1>10 DEF Distinct
<1>14. x \notin Range(g)
  BY <1>12 DEF Distinct
<1>15. SeenBy(m, f, h, ch) \subseteq SeenBy(m, g, <<s, i>>, ch)
  BY <1>4, <1>12 DEF SeenBy
<1>16. Distinct(m, f, h, ch)
  <2>1. IsInjective(f)
    <3>1. \A k \in DOMAIN f : k \in 1 .. Len(g) \/ k = Len(g) + 1
      BY <1>3
    <3>2. \A k \in 1 .. Len(g) : g[k] # x
      BY <1>3, <1>14 DEF Range
    <3>3. \A k, l \in 1 .. Len(g) : g[k] = g[l] => k = l
      BY <1>3 DEF Distinct, IsInjective
    <3>. QED
      BY <1>3, <3>1, <3>2, <3>3 DEF IsInjective
  <2>2. \A k, l \in ToWrite(h) : m[h[1].array][k] = m[h[1].array][l] => k = l
    <3>1. \A k, l \in ToWrite(<<s, i>>) : m[s.array][k] = m[s.array][l] => k = l
      BY <1>6 DEF Distinct
    <3>. SUFFICES ASSUME NEW k \in ToWrite(h), NEW l \in ToWrite(h),
                         m[h[1].array][k] = m[h[1].array][l]
                  PROVE  k = l
      OBVIOUS
    <3>2. h[1] = s /\ k \in ToWrite(<<s, i>>) /\ l \in ToWrite(<<s, i>>)
      BY <1>8, <1>9
    <3>. QED
      BY <3>1, <3>2
  <2>3. Range(f) \cap InHand(m, h) = {}
    BY <1>4, <1>12, <1>13 DEF Distinct
  <2>4. \A k \in DOMAIN ch : InSlice(m, ch[k]) \cap (Range(f) \cup InHand(m, h)) = {}
    BY <1>4, <1>12 DEF Distinct
  <2>. QED
    BY <2>1, <2>2, <2>3, <2>4 DEF Distinct
<1>. QED
  BY <1>1, <1>2, <1>15, <1>16

\* The broker puts a slice into the channel.
LEMMA OfferKeeps ==
  ASSUME NEW m, NEW g, NEW h, NEW ch \in Seq(Slice), NEW s \in Slice,
         Distinct(m, g, h, ch), InSlice(m, s) \cap SeenBy(m, g, h, ch) = {},
         \A i, j \in 1 .. s.size : m[s.array][i] = m[s.array][j] => i = j
  PROVE  /\ Distinct(m, g, h, Append(ch, s))
         /\ SeenBy(m, g, h, Append(ch, s)) = SeenBy(m, g, h, ch) \cup InSlice(m, s)
<1>1. PICK t : t = Append(ch, s)
  OBVIOUS
<1>2. PICK n \in Nat : /\ DOMAIN ch = 1 .. n /\ DOMAIN t = 1 .. n + 1 /\ t[n + 1] = s
                       /\ \A k \in 1 .. n : t[k] = ch[k]
  BY <1>1, SequenceFacts
<1>3. /\ DOMAIN t = (DOMAIN ch) \cup {n + 1} /\ n + 1 \notin DOMAIN ch
      /\ \A k \in DOMAIN ch : t[k] = ch[k]
  BY <1>2
<1>4. SeenBy(m, g, h, t) = SeenBy(m, g, h, ch) \cup InSlice(m, s)
  BY <1>2, <1>3 DEF SeenBy
<1>5. Distinct(m, g, h, t)
  <2>1. InSlice(m, s) \cap (Range(g) \cup InHand(m, h)) = {}
    BY DEF SeenBy
  <2>2. \A k \in DOMAIN ch : InSlice(m, s) \cap InSlice(m, ch[k]) = {}
    BY DEF SeenBy
  <2>3. ASSUME NEW k \in DOMAIN t
        PROVE  /\ \A i, j \in 1 .. t[k].size : m[t[k].array][i] = m[t[k].array][j] => i = j
               /\ InSlice(m, t[k]) \cap (Range(g) \cup InHand(m, h)) = {}
               /\ \A l \in DOMAIN t : l # k => InSlice(m, t[k]) \cap InSlice(m, t[l]) = {}
    <3>1. CASE k = n + 1
      BY <1>2, <1>3, <2>1, <2>2, <3>1
    <3>2. CASE k \in DOMAIN ch
      <4>1. /\ t[k] = ch[k]
            /\ \A i, j \in 1 .. ch[k].size : m[ch[k].array][i] = m[ch[k].array][j] => i = j
            /\ InSlice(m, ch[k]) \cap (Range(g) \cup InHand(m, h)) = {}
            /\ \A l \in DOMAIN ch : l # k => InSlice(m, ch[k]) \cap InSlice(m, ch[l]) = {}
        BY <1>3, <3>2 DEF Distinct
      <4>2. InSlice(m, ch[k]) \cap InSlice(m, t[n + 1]) = {}
        BY <1>2, <2>2, <3>2
      <4>. QED
        BY <1>3, <4>1, <4>2
    <3>. QED
      BY <1>3, <3>1, <3>2
  <2>. QED
    BY <2>3 DEF Distinct
<1>. QED
  BY <1>1, <1>4, <1>5

-----------------------------------------------------------------------------
(* The inductive invariant.                                                *)

TypeInv ==
  /\ crashes \in Nat
  /\ accepted \subseteq Event
  /\ queue \in Seq(Event)
  /\ memory \in [Worker \cup Array -> Seq(Event)]
  /\ size \in [Worker -> Nat]
  /\ pc \in [Worker -> {"select", "insert", "publish"}]
  /\ table \subseteq accepted
  /\ channel \in [Client -> Seq(Slice)]
  /\ writing \in [Client -> {NoSlice} \cup Slice \X (Nat \ {0})]
  /\ got \in [Client -> Seq(Event)]

\* An accepted event that is not published is in one place, the channel or a batch.
Unpublished ==
  /\ IsInjective(queue)
  /\ \A w \in Worker :
       /\ \A i, j \in 1 .. size[w] : memory[w][i] = memory[w][j] => i = j
       /\ InBatch(w) \cap Range(queue) = {}
       /\ \A v \in Worker \ {w} : InBatch(v) \cap InBatch(w) = {}
  /\ InMemory \subseteq accepted

\* A batch is in its array, no longer than it may be, and stored before it is
\* published.
Flushes ==
  /\ Len(queue) <= BufferSize
  /\ \A w \in Worker :
       /\ size[w] <= Len(memory[w]) /\ size[w] <= BatchSize
       /\ pc[w] = "select" => size[w] < BatchSize
       /\ pc[w] # "select" => size[w] > 0
       /\ pc[w] = "publish" => InBatch(w) \subseteq table

Seen(c) == SeenBy(memory, got[c], writing[c], channel[c])

\* A page has seen, and will see, stored events only, and none twice.
Streams ==
  \A c \in Client :
    /\ writing[c] # NoSlice => writing[c][2] <= writing[c][1].size
    /\ Distinct(memory, got[c], writing[c], channel[c])
    /\ Seen(c) \subseteq table
    /\ Seen(c) \cap InMemory = {}

\* What crashes have lost.
Losses == IsFiniteSet(Lost) /\ Cardinality(Lost) <= crashes * Capacity

IInv == TypeInv /\ Unpublished /\ Flushes /\ Streams /\ Losses

-----------------------------------------------------------------------------
(* Queues, arrays and batches.                                             *)

LEMMA Appended ==
  ASSUME NEW S, NEW q \in Seq(S), NEW x \in S, x \notin Range(q), IsInjective(q)
  PROVE  /\ Append(q, x) \in Seq(S) /\ Len(Append(q, x)) = Len(q) + 1
         /\ Range(Append(q, x)) = Range(q) \cup {x}
         /\ IsInjective(Append(q, x))
<1>1. PICK t : t = Append(q, x)
  OBVIOUS
<1>2. /\ t \in Seq(S) /\ Len(t) = Len(q) + 1 /\ Len(q) \in Nat
      /\ DOMAIN q = 1 .. Len(q) /\ DOMAIN t = 1 .. Len(q) + 1
      /\ t[Len(q) + 1] = x /\ \A i \in 1 .. Len(q) : t[i] = q[i]
  BY <1>1, SequenceFacts
<1>3. DOMAIN t = (DOMAIN q) \cup {Len(q) + 1} /\ \A i \in DOMAIN q : q[i] # x /\ t[i] = q[i]
  BY <1>2 DEF Range
<1>4. Range(t) = Range(q) \cup {x}
  BY <1>2, <1>3 DEF Range
<1>5. IsInjective(t)
  BY <1>2, <1>3 DEF IsInjective
<1>. QED
  BY <1>1, <1>2, <1>4, <1>5

LEMMA Behead ==
  ASSUME NEW S, NEW q \in Seq(S), q # << >>, IsInjective(q)
  PROVE  /\ Head(q) \in S /\ Tail(q) \in Seq(S) /\ Len(Tail(q)) = Len(q) - 1 /\ Len(q) \in Nat
         /\ Range(q) = Range(Tail(q)) \cup {Head(q)} /\ Head(q) \notin Range(Tail(q))
         /\ IsInjective(Tail(q))
<1>1. PICK t : t = Tail(q)
  OBVIOUS
<1>2. PICK x : x = Head(q)
  OBVIOUS
<1>3. /\ x \in S /\ x = q[1] /\ Len(q) \in Nat /\ Len(q) >= 1
      /\ t \in Seq(S) /\ Len(t) = Len(q) - 1
      /\ DOMAIN q = 1 .. Len(q) /\ DOMAIN t = 1 .. Len(q) - 1
      /\ \A i \in 1 .. Len(q) - 1 : t[i] = q[i + 1]
  BY <1>1, <1>2, SequenceFacts
<1>4. /\ 1 \in DOMAIN q
      /\ \A i \in DOMAIN t : i + 1 \in DOMAIN q /\ i + 1 # 1 /\ t[i] = q[i + 1]
      /\ \A i \in DOMAIN q : i = 1 \/ (i - 1 \in DOMAIN t /\ t[i - 1] = q[i])
  BY <1>3
<1>5. Range(q) = Range(t) \cup {x}
  <2>1. Range(q) \subseteq Range(t) \cup {x}
    <3>. SUFFICES ASSUME NEW i \in DOMAIN q
                  PROVE  q[i] = x \/ \E j \in DOMAIN t : t[j] = q[i]
      BY DEF Range
    <3>. QED
      BY <1>3, <1>4
  <2>2. Range(t) \cup {x} \subseteq Range(q)
    BY <1>3, <1>4 DEF Range
  <2>. QED
    BY <2>1, <2>2
<1>6. x \notin Range(t)
  BY <1>3, <1>4 DEF Range, IsInjective
<1>7. IsInjective(t)
  <2>. SUFFICES ASSUME NEW i \in DOMAIN t, NEW j \in DOMAIN t, t[i] = t[j]
                PROVE  i = j
    BY DEF IsInjective
  <2>1. i + 1 = j + 1
    BY <1>4 DEF IsInjective
  <2>. QED
    BY <1>3, <2>1
<1>. QED
  BY <1>1, <1>2, <1>3, <1>5, <1>6, <1>7

LEMMA Part ==
  ASSUME NEW S, NEW q \in Seq(S), NEW n \in 0 .. Len(q)
  PROVE  /\ SubSeq(q, 1, n) \in Seq(S) /\ Len(SubSeq(q, 1, n)) = n
         /\ DOMAIN SubSeq(q, 1, n) = 1 .. n
         /\ \A i \in 1 .. n : SubSeq(q, 1, n)[i] = q[i]
OBVIOUS

LEMMA Rest ==
  ASSUME NEW S, NEW q \in Seq(S), NEW n \in 0 .. Len(q)
  PROVE  SubSeq(q, n + 2, Len(q)) \in Seq(S)
<1>1. CASE n + 2 > Len(q)
  BY <1>1
<1>2. CASE ~(n + 2 > Len(q))
  BY <1>2
<1>. QED
  BY <1>1, <1>2

LEMMA Concatenation ==
  ASSUME NEW S, NEW s \in Seq(S), NEW t \in Seq(S)
  PROVE  /\ s \o t \in Seq(S) /\ Len(s \o t) = Len(s) + Len(t)
         /\ Len(s) \in Nat /\ Len(t) \in Nat
         /\ \A i \in 1 .. Len(s) : (s \o t)[i] = s[i]
         /\ \A i \in 1 .. Len(t) : (s \o t)[Len(s) + i] = t[i]
OBVIOUS

\* append leaves the batch before it alone, and its event is behind it.
LEMMA Written ==
  ASSUME NEW q \in Seq(Event), NEW n \in 0 .. Len(q), NEW e \in Event
  PROVE  /\ Write(q, n, e) \in Seq(Event) /\ Len(Write(q, n, e)) >= n + 1
         /\ \A i \in 1 .. n : Write(q, n, e)[i] = q[i]
         /\ Write(q, n, e)[n + 1] = e
<1>1. PICK s \in Seq(Event) : /\ s = SubSeq(q, 1, n) /\ Len(s) = n
                              /\ \A i \in 1 .. n : s[i] = q[i]
  BY Part
<1>2. PICK t \in Seq(Event) : t = SubSeq(q, n + 2, Len(q))
  BY Rest
<1>3. /\ <<e>> \in Seq(Event) /\ Len(<<e>>) = 1 /\ <<e>>[1] = e /\ 1 \in 1 .. 1
  OBVIOUS
<1>4. PICK u : u = s \o <<e>>
  OBVIOUS
<1>5. /\ u \in Seq(Event) /\ Len(u) = n + 1 /\ n \in Nat
      /\ \A i \in 1 .. n : u[i] = s[i]
      /\ u[n + 1] = e
  <2>1. /\ s \o <<e>> \in Seq(Event) /\ Len(s \o <<e>>) = Len(s) + Len(<<e>>)
        /\ \A i \in 1 .. Len(s) : (s \o <<e>>)[i] = s[i]
        /\ \A i \in 1 .. Len(<<e>>) : (s \o <<e>>)[Len(s) + i] = <<e>>[i]
    BY <1>3, Concatenation
  <2>2. Len(s) = n /\ n \in Nat
    BY <1>1
  <2>. QED
    BY <1>3, <1>4, <2>1, <2>2
<1>6. PICK v : v = u \o t
  OBVIOUS
<1>7. /\ v \in Seq(Event) /\ Len(v) = n + 1 + Len(t) /\ Len(t) \in Nat
      /\ \A i \in 1 .. n + 1 : v[i] = u[i]
  <2>1. /\ u \o t \in Seq(Event) /\ Len(u \o t) = Len(u) + Len(t) /\ Len(t) \in Nat
        /\ \A i \in 1 .. Len(u) : (u \o t)[i] = u[i]
    BY <1>5, Concatenation
  <2>. QED
    BY <1>5, <1>6, <2>1
<1>8. Write(q, n, e) = v
  BY <1>1, <1>2, <1>4, <1>6 DEF Write
<1>9. \A i \in 1 .. n : i \in 1 .. n + 1
  BY <1>5
<1>. QED
  BY <1>1, <1>5, <1>7, <1>8, <1>9

LEMMA BatchFacts ==
  ASSUME TypeInv, Flushes, NEW w \in Worker
  PROVE  /\ Batch(w) \in Seq(Event)
         /\ \A i \in 1 .. size[w] : Batch(w)[i] = memory[w][i]
         /\ Range(Batch(w)) = InBatch(w)
<1>1. memory[w] \in Seq(Event) /\ size[w] \in 0 .. Len(memory[w])
  BY DEF TypeInv, Flushes
<1>2. /\ Batch(w) \in Seq(Event) /\ DOMAIN Batch(w) = 1 .. size[w]
      /\ \A i \in 1 .. size[w] : Batch(w)[i] = memory[w][i]
  BY <1>1, Part DEF Batch
<1>3. Range(Batch(w)) = InBatch(w)
  BY <1>2 DEF Range, InBatch
<1>. QED
  BY <1>2, <1>3

-----------------------------------------------------------------------------
(* Parts of the invariant that a step leaves alone.                        *)

LEMMA LossesKept ==
  ASSUME Losses, TypeInv, crashes' = crashes, Lost' \subseteq Lost
  PROVE  Losses'
<1>1. PICK old : old = Lost
  OBVIOUS
<1>2. PICK new : new = Lost'
  OBVIOUS
<1>3. IsFiniteSet(new) /\ Cardinality(new) <= Cardinality(old) /\ Cardinality(old) \in Nat
  BY <1>1, <1>2, FS_Subset, FS_CardinalityType DEF Losses
<1>4. Cardinality(old) <= crashes * Capacity /\ crashes' * Capacity' = crashes * Capacity
  BY <1>1 DEF Losses, Capacity
<1>5. crashes * Capacity \in Int /\ Cardinality(new) \in Nat
  <2>1. Cardinality(Worker) \in Nat /\ BufferSize \in Nat /\ BatchSize \in Nat
    BY FS_CardinalityType, PipelineAssumption
  <2>2. Capacity \in Nat
    BY <2>1 DEF Capacity
  <2>. QED
    BY <1>3, <2>2, FS_CardinalityType DEF TypeInv
<1>6. Cardinality(new) <= crashes' * Capacity'
  BY <1>3, <1>4, <1>5
<1>. QED
  BY <1>2, <1>3, <1>6 DEF Losses

\* A step of the server that publishes nothing, and puts into memory nothing that
\* is stored.
LEMMA StreamsKept ==
  ASSUME TypeInv, Streams, UNCHANGED <<channel, writing, got>>, table \subseteq table',
         \A a \in Array : memory'[a] = memory[a],
         InMemory' \cap table \subseteq InMemory
  PROVE  Streams'
<1>. SUFFICES ASSUME NEW c \in Client
              PROVE  /\ writing[c] # NoSlice => writing[c][2] <= writing[c][1].size
                     /\ Distinct(memory', got[c], writing[c], channel[c])
                     /\ SeenBy(memory', got[c], writing[c], channel[c]) \subseteq table'
                     /\ SeenBy(memory', got[c], writing[c], channel[c]) \cap InMemory' = {}
  BY DEF Streams, Seen
<1>1. channel[c] \in Seq(Slice) /\ \A k \in DOMAIN channel[c] : channel[c][k].array \in Array
  <2>1. channel[c] \in Seq(Slice)
    BY DEF TypeInv
  <2>2. \A k \in DOMAIN channel[c] : channel[c][k] \in Slice
    BY <2>1, SequenceFacts
  <2>. QED
    BY <2>1, <2>2 DEF Slice
<1>2. writing[c] # NoSlice => writing[c][1].array \in Array
  BY DEF TypeInv, Slice
<1>3. /\ SeenBy(memory', got[c], writing[c], channel[c])
           = SeenBy(memory, got[c], writing[c], channel[c])
      /\ Distinct(memory, got[c], writing[c], channel[c])
           => Distinct(memory', got[c], writing[c], channel[c])
  BY <1>1, <1>2, MemoryAgrees
<1>. QED
  BY <1>3 DEF Streams, Seen

\* A step of a stream: the workers go on as they were.
LEMMA WorkersKept ==
  ASSUME TypeInv, Unpublished, Flushes, Losses,
         UNCHANGED <<crashes, accepted, queue, memory, size, pc, table, failed>>
  PROVE  Unpublished' /\ Flushes' /\ Losses' /\ InMemory' = InMemory
<1>1. (\A w \in Worker : InBatch(w)' = InBatch(w)) /\ InMemory' = InMemory
  BY DEF InBatch, InMemory
<1>2. Unpublished' /\ Flushes'
  BY <1>1 DEF Unpublished, Flushes
<1>3. Lost' = Lost
  BY <1>1 DEF Lost
<1>. QED
  BY <1>1, <1>2, <1>3, LossesKept

-----------------------------------------------------------------------------
(* The steps of the workers.                                               *)

Places == {"select", "insert", "publish"}

LEMMA Sizes == BatchSize \in Nat \ {0} /\ BufferSize \in Nat /\ Worker \cap Array = {}
BY PipelineAssumption

LEMMA SubmitStep ==
  ASSUME IInv, NEW e \in Event, Submit(e)
  PROVE  IInv'
<1>1. /\ e \notin accepted /\ Len(queue) < BufferSize
      /\ queue' = Append(queue, e) /\ accepted' = accepted \cup {e}
      /\ UNCHANGED <<crashes, memory, size, pc, table, failed, channel, writing, got>>
      /\ TypeInv /\ Unpublished /\ Flushes /\ Streams /\ Losses
  BY DEF Submit, streams, IInv
<1>2. e \notin InMemory /\ e \notin table /\ e \notin Range(queue)
  BY <1>1 DEF Unpublished, TypeInv, InMemory
<1>3. /\ queue' \in Seq(Event) /\ Len(queue') = Len(queue) + 1
      /\ Range(queue') = Range(queue) \cup {e} /\ IsInjective(queue')
  BY <1>1, <1>2, Appended DEF TypeInv, Unpublished
<1>4. \A w \in Worker : InBatch(w)' = InBatch(w)
  BY <1>1 DEF InBatch
<1>5. InMemory' = InMemory \cup {e}
  BY <1>3, <1>4 DEF InMemory
<1>6. TypeInv'
  BY <1>1, <1>3 DEF TypeInv
<1>7. Unpublished'
  <2>1. \A w \in Worker : InBatch(w) \cap (Range(queue) \cup {e}) = {}
    BY <1>1, <1>2 DEF Unpublished, InMemory
  <2>2. InMemory' \subseteq accepted'
    BY <1>1, <1>5 DEF Unpublished
  <2>. QED
    BY <1>1, <1>3, <1>4, <2>1, <2>2 DEF Unpublished
<1>8. Flushes'
  <2>1. Len(queue') <= BufferSize
    BY <1>1, <1>3, Sizes, SequenceFacts DEF TypeInv
  <2>. QED
    BY <1>1, <1>4, <2>1 DEF Flushes
<1>9. Streams'
  BY <1>1, <1>2, <1>5, StreamsKept
<1>10. Losses'
  <2>1. Lost' \subseteq Lost
    BY <1>1, <1>5 DEF Lost
  <2>. QED
    BY <1>1, <2>1, LossesKept
<1>. QED
  BY <1>6, <1>7, <1>8, <1>9, <1>10 DEF IInv

LEMMA ReceiveStep ==
  ASSUME IInv, NEW w \in Worker, Receive(w)
  PROVE  IInv'
<1>1. PICK x : x = Head(queue)
  OBVIOUS
<1>2. PICK n : n = size[w]
  OBVIOUS
<1>3. /\ pc[w] = "select" /\ queue # << >> /\ queue' = Tail(queue)
      /\ memory' = [memory EXCEPT ![w] = Write(memory[w], n, x)]
      /\ size' = [size EXCEPT ![w] = n + 1]
      /\ pc' = [pc EXCEPT ![w] = IF n + 1 >= BatchSize THEN "insert" ELSE "select"]
      /\ UNCHANGED <<crashes, accepted, table, failed, channel, writing, got>>
      /\ TypeInv /\ Unpublished /\ Flushes /\ Streams /\ Losses
  BY <1>1, <1>2 DEF Receive, streams, IInv
<1>4. /\ memory[w] \in Seq(Event) /\ Len(memory[w]) \in Nat
      /\ n \in 0 .. Len(memory[w]) /\ n < BatchSize /\ n \in Nat
  BY <1>2, <1>3 DEF TypeInv, Flushes
<1>5. /\ x \in Event /\ queue' \in Seq(Event) /\ Len(queue') = Len(queue) - 1 /\ Len(queue) \in Nat
      /\ Range(queue) = Range(queue') \cup {x} /\ x \notin Range(queue') /\ IsInjective(queue')
  BY <1>1, <1>3, Behead DEF TypeInv, Unpublished
<1>6. PICK a : a = Write(memory[w], n, x)
  OBVIOUS
<1>7. /\ a \in Seq(Event) /\ Len(a) >= n + 1
      /\ \A i \in 1 .. n : a[i] = memory[w][i]
      /\ a[n + 1] = x
  <2>1. PICK q \in Seq(Event) : q = memory[w]
    BY <1>4
  <2>2. n \in 0 .. Len(q) /\ x \in Event
    BY <1>4, <1>5, <2>1
  <2>3. /\ Write(q, n, x) \in Seq(Event) /\ Len(Write(q, n, x)) >= n + 1
        /\ \A i \in 1 .. n : Write(q, n, x)[i] = q[i]
        /\ Write(q, n, x)[n + 1] = x
    BY <2>2, Written
  <2>. QED
    BY <1>6, <2>1, <2>3
<1>8. /\ memory' \in [Worker \cup Array -> Seq(Event)] /\ memory'[w] = a
      /\ \A b \in (Worker \cup Array) \ {w} : memory'[b] = memory[b]
  BY <1>3, <1>6, <1>7 DEF TypeInv
<1>9. /\ size' \in [Worker -> Nat] /\ size'[w] = n + 1
      /\ \A v \in Worker \ {w} : size'[v] = size[v]
  BY <1>3, <1>4 DEF TypeInv
<1>10. /\ pc' \in [Worker -> Places]
       /\ pc'[w] = IF n + 1 >= BatchSize THEN "insert" ELSE "select"
       /\ \A v \in Worker \ {w} : pc'[v] = pc[v]
  BY <1>3 DEF TypeInv, Places
<1>11. 1 .. n + 1 = (1 .. n) \cup {n + 1} /\ n + 1 \notin 1 .. n
  BY <1>4
<1>12. InBatch(w) = {memory[w][i] : i \in 1 .. n} /\ InBatch(w)' = {a[i] : i \in 1 .. n + 1}
  BY <1>2, <1>8, <1>9 DEF InBatch
<1>13. InBatch(w)' = InBatch(w) \cup {x}
  BY <1>7, <1>11, <1>12
<1>14. \A v \in Worker \ {w} : InBatch(v)' = InBatch(v)
  BY <1>8, <1>9 DEF InBatch
<1>15. InMemory' = InMemory
  BY <1>5, <1>13, <1>14 DEF InMemory
<1>16. TypeInv'
  BY <1>3, <1>5, <1>8, <1>9, <1>10 DEF TypeInv, Places
<1>17. Unpublished'
  <2>1. x \notin InBatch(w) /\ \A v \in Worker : x \notin InBatch(v)
    BY <1>5 DEF Unpublished, IInv
  <2>2. \A i, j \in 1 .. n + 1 : a[i] = a[j] => i = j
    <3>1. \A i, j \in 1 .. n : memory[w][i] = memory[w][j] => i = j
      BY <1>2, <1>3 DEF Unpublished
    <3>2. \A i \in 1 .. n : memory[w][i] # x
      BY <1>12, <2>1
    <3>. QED
      BY <1>7, <1>11, <3>1, <3>2
  <2>3. ASSUME NEW v \in Worker
        PROVE  /\ \A i, j \in 1 .. size'[v] : memory'[v][i] = memory'[v][j] => i = j
               /\ InBatch(v)' \cap Range(queue') = {}
    <3>1. CASE v = w
      BY <1>3, <1>5, <1>8, <1>9, <1>13, <2>2, <3>1 DEF Unpublished
    <3>2. CASE v # w
      BY <1>3, <1>5, <1>8, <1>9, <1>14, <3>2 DEF Unpublished
    <3>. QED
      BY <3>1, <3>2
  <2>4. \A v \in Worker : \A u \in Worker \ {v} : InBatch(u)' \cap InBatch(v)' = {}
    <3>. SUFFICES ASSUME NEW v \in Worker, NEW u \in Worker \ {v}
                  PROVE  InBatch(u)' \cap InBatch(v)' = {}
      OBVIOUS
    <3>1. InBatch(u) \cap InBatch(v) = {} /\ x \notin InBatch(u) /\ x \notin InBatch(v)
      BY <1>3, <2>1 DEF Unpublished
    <3>2. CASE v = w
      BY <1>13, <1>14, <3>1, <3>2
    <3>3. CASE v # w
      BY <1>13, <1>14, <3>1, <3>3
    <3>. QED
      BY <3>2, <3>3
  <2>. QED
    BY <1>3, <1>5, <1>15, <2>3, <2>4 DEF Unpublished
<1>18. Flushes'
  <2>1. Len(queue') <= BufferSize
    BY <1>3, <1>5, Sizes DEF Flushes
  <2>2. ASSUME NEW v \in Worker
        PROVE  /\ size'[v] <= Len(memory'[v]) /\ size'[v] <= BatchSize
               /\ pc'[v] = "select" => size'[v] < BatchSize
               /\ pc'[v] # "select" => size'[v] > 0
               /\ pc'[v] = "publish" => InBatch(v)' \subseteq table'
    <3>1. CASE v = w
      BY <1>4, <1>7, <1>8, <1>9, <1>10, <3>1, Sizes
    <3>2. CASE v # w
      BY <1>3, <1>8, <1>9, <1>10, <1>14, <3>2 DEF Flushes
    <3>. QED
      BY <3>1, <3>2
  <2>. QED
    BY <2>1, <2>2 DEF Flushes
<1>19. Streams'
  <2>1. \A b \in Array : memory'[b] = memory[b]
    BY <1>8, Sizes
  <2>. QED
    BY <1>3, <1>15, <2>1, StreamsKept
<1>20. Losses'
  <2>1. Lost' \subseteq Lost
    BY <1>3, <1>15 DEF Lost
  <2>. QED
    BY <1>3, <2>1, LossesKept
<1>. QED
  BY <1>16, <1>17, <1>18, <1>19, <1>20 DEF IInv

\* The tick, and the insert that stores the batch: memory stays as it is.
LEMMA InsertStep ==
  ASSUME IInv, NEW w \in Worker, ReceiveTick(w) \/ InsertSucceeds(w)
  PROVE  IInv'
<1>1. /\ \/ /\ pc[w] = "select" /\ size[w] > 0
            /\ pc' = [pc EXCEPT ![w] = "insert"] /\ table' = table
         \/ /\ pc[w] = "insert"
            /\ pc' = [pc EXCEPT ![w] = "publish"] /\ table' = table \cup Range(Batch(w))
      /\ UNCHANGED <<crashes, accepted, queue, memory, size, failed, channel, writing, got>>
      /\ TypeInv /\ Unpublished /\ Flushes /\ Streams /\ Losses
  BY DEF ReceiveTick, InsertSucceeds, streams, IInv
<1>2. Range(Batch(w)) = InBatch(w)
  BY <1>1, BatchFacts
<1>3. /\ pc' \in [Worker -> Places] /\ pc'[w] \in {"insert", "publish"} /\ size[w] > 0
      /\ pc'[w] = "publish" => InBatch(w) \subseteq table'
      /\ \A v \in Worker \ {w} : pc'[v] = pc[v]
  BY <1>1, <1>2 DEF TypeInv, Places, Flushes
<1>4. (\A v \in Worker : InBatch(v)' = InBatch(v)) /\ InMemory' = InMemory
  BY <1>1 DEF InBatch, InMemory
<1>5. table \subseteq table' /\ table' \subseteq accepted
  BY <1>1, <1>2 DEF TypeInv, Unpublished, InMemory
<1>6. TypeInv'
  BY <1>1, <1>3, <1>5 DEF TypeInv, Places
<1>7. Unpublished'
  BY <1>1, <1>4 DEF Unpublished
<1>8. Flushes'
  <2>1. ASSUME NEW v \in Worker
        PROVE  /\ size[v] <= Len(memory[v]) /\ size[v] <= BatchSize
               /\ pc'[v] = "select" => size[v] < BatchSize
               /\ pc'[v] # "select" => size[v] > 0
               /\ pc'[v] = "publish" => InBatch(v) \subseteq table'
    <3>1. CASE v = w
      BY <1>1, <1>3, <3>1 DEF Flushes
    <3>2. CASE v # w
      BY <1>1, <1>3, <1>5, <3>2 DEF Flushes
    <3>. QED
      BY <3>1, <3>2
  <2>. QED
    BY <1>1, <1>4, <2>1 DEF Flushes
<1>9. Streams'
  BY <1>1, <1>4, <1>5, StreamsKept
<1>10. Losses'
  <2>1. Lost' \subseteq Lost
    BY <1>1, <1>4, <1>5 DEF Lost
  <2>. QED
    BY <1>1, <2>1, LossesKept
<1>. QED
  BY <1>6, <1>7, <1>8, <1>9, <1>10 DEF IInv

\* The end of a flush: the batch is out of memory, and nothing else is.
LEMMA Emptied ==
  ASSUME TypeInv, Unpublished, Flushes, NEW w \in Worker, ReturnFromFlush(w),
         UNCHANGED <<accepted, queue, table>>, \A v \in Worker : memory'[v] = memory[v]
  PROVE  /\ Unpublished' /\ Flushes'
         /\ size' \in [Worker -> Nat] /\ pc' \in [Worker -> Places]
         /\ InMemory' \subseteq InMemory \ InBatch(w)
         /\ InMemory \subseteq InMemory' \cup InBatch(w)
<1>1. /\ size' \in [Worker -> Nat] /\ pc' \in [Worker -> Places]
      /\ size'[w] = 0 /\ pc'[w] = "select"
      /\ \A v \in Worker \ {w} : size'[v] = size[v] /\ pc'[v] = pc[v]
  BY DEF ReturnFromFlush, TypeInv, Places
<1>2. InBatch(w)' = {} /\ \A v \in Worker \ {w} : InBatch(v)' = InBatch(v)
  BY <1>1 DEF InBatch
<1>3. InMemory' \subseteq InMemory \ InBatch(w)
  BY <1>2 DEF InMemory, Unpublished
<1>4. InMemory \subseteq InMemory' \cup InBatch(w)
  BY <1>2 DEF InMemory
<1>5. Unpublished'
  <2>1. ASSUME NEW v \in Worker
        PROVE  /\ \A i, j \in 1 .. size'[v] : memory'[v][i] = memory'[v][j] => i = j
               /\ InBatch(v)' \cap Range(queue') = {}
               /\ \A u \in Worker \ {v} : InBatch(u)' \cap InBatch(v)' = {}
    <3>1. CASE v = w
      BY <1>1, <1>2, <3>1
    <3>2. CASE v # w
      BY <1>1, <1>2, <3>2 DEF Unpublished
    <3>. QED
      BY <3>1, <3>2
  <2>2. InMemory' \subseteq accepted'
    BY <1>3 DEF Unpublished
  <2>. QED
    BY <2>1, <2>2 DEF Unpublished
<1>6. Flushes'
  <2>1. ASSUME NEW v \in Worker
        PROVE  /\ size'[v] <= Len(memory'[v]) /\ size'[v] <= BatchSize
               /\ pc'[v] = "select" => size'[v] < BatchSize
               /\ pc'[v] # "select" => size'[v] > 0
               /\ pc'[v] = "publish" => InBatch(v)' \subseteq table'
    <3>1. CASE v = w
      <4>1. Len(memory[w]) \in Nat
        BY DEF TypeInv
      <4>. QED
        BY <1>1, <3>1, <4>1, Sizes
    <3>2. CASE v # w
      BY <1>1, <1>2, <3>2 DEF Flushes
    <3>. QED
      BY <3>1, <3>2
  <2>. QED
    BY <2>1 DEF Flushes
<1>. QED
  BY <1>1, <1>3, <1>4, <1>5, <1>6

LEMMA InsertFailsStep ==
  ASSUME IInv, NEW w \in Worker, InsertFails(w)
  PROVE  IInv'
<1>1. /\ failed' = failed \cup Range(Batch(w)) /\ ReturnFromFlush(w)
      /\ UNCHANGED <<crashes, accepted, queue, memory, table, channel, writing, got>>
      /\ TypeInv /\ Unpublished /\ Flushes /\ Streams /\ Losses
  BY DEF InsertFails, streams, IInv
<1>2. /\ Unpublished' /\ Flushes'
      /\ size' \in [Worker -> Nat] /\ pc' \in [Worker -> Places]
      /\ InMemory' \subseteq InMemory \ InBatch(w)
      /\ InMemory \subseteq InMemory' \cup InBatch(w)
  BY <1>1, Emptied
<1>3. TypeInv'
  BY <1>1, <1>2 DEF TypeInv, Places
<1>4. Streams'
  BY <1>1, <1>2, StreamsKept
<1>5. Losses'
  <2>1. Lost' \subseteq Lost
    BY <1>1, <1>2, BatchFacts DEF Lost
  <2>. QED
    BY <1>1, <2>1, LossesKept
<1>. QED
  BY <1>2, <1>3, <1>4, <1>5 DEF IInv

\* What is referred to is not in a free array.
LEMMA FreeArray ==
  ASSUME TypeInv, NEW a \in Free
  PROVE  /\ a \in Array /\ a \notin Worker
         /\ \A c \in Client :
              /\ \A k \in DOMAIN channel[c] : channel[c][k].array # a
              /\ writing[c] # NoSlice => writing[c][1].array # a
<1>1. a \in Array /\ \A s \in Slices : s.array # a
  BY DEF Free
<1>2. ASSUME NEW c \in Client, NEW k \in DOMAIN channel[c]
      PROVE  channel[c][k] \in Slices
  <2>1. channel[c][k] \in Range(channel[c])
    BY DEF Range
  <2>. QED
    BY <2>1 DEF Slices
<1>3. ASSUME NEW c \in Client, writing[c] # NoSlice
      PROVE  writing[c][1] \in Slices
  <2>. DEFINE Handed == {writing[d][1] : d \in {e \in Client : writing[e] # NoSlice}}
  <2>1. writing[c][1] \in Handed
    BY <1>3
  <2>2. Handed \subseteq Slices
    BY DEF Slices
  <2>. QED
    BY <2>1, <2>2
<1>. QED
  BY <1>1, <1>2, <1>3, Sizes

\* The copy is in an array that nobody reads, and the batch has not been seen by any
\* page before.
LEMMA PublishStep ==
  ASSUME IInv, NEW w \in Worker, Publish(w)
  PROVE  IInv'
<1>1. PICK a \in Free :
        /\ memory' = [memory EXCEPT ![a] = Batch(w)]
        /\ Offer([array |-> a, size |-> size[w]])
  BY DEF Publish
<1>2. /\ pc[w] = "publish" /\ ReturnFromFlush(w)
      /\ UNCHANGED <<crashes, accepted, queue, table, failed, writing, got>>
      /\ TypeInv /\ Unpublished /\ Flushes /\ Streams /\ Losses
  BY DEF Publish, IInv
<1>3. /\ a \in Array /\ a \notin Worker
      /\ \A c \in Client :
           /\ \A k \in DOMAIN channel[c] : channel[c][k].array # a
           /\ writing[c] # NoSlice => writing[c][1].array # a
  BY <1>2, FreeArray
<1>4. /\ Batch(w) \in Seq(Event)
      /\ \A i \in 1 .. size[w] : Batch(w)[i] = memory[w][i]
  BY <1>2, BatchFacts
<1>5. /\ memory' \in [Worker \cup Array -> Seq(Event)] /\ memory'[a] = Batch(w)
      /\ \A b \in (Worker \cup Array) \ {a} : memory'[b] = memory[b]
  BY <1>1, <1>2, <1>3, <1>4 DEF TypeInv
<1>6. \A v \in Worker : memory'[v] = memory[v]
  BY <1>3, <1>5
<1>7. /\ Unpublished' /\ Flushes'
      /\ size' \in [Worker -> Nat] /\ pc' \in [Worker -> Places]
      /\ InMemory' \subseteq InMemory \ InBatch(w)
      /\ InMemory \subseteq InMemory' \cup InBatch(w)
  BY <1>2, <1>6, Emptied
<1>8. InBatch(w) \subseteq table /\ InBatch(w) \subseteq InMemory /\ size[w] > 0 /\ size[w] \in Nat
  BY <1>2 DEF Flushes, InMemory, TypeInv
<1>9. PICK s : s = [array |-> a, size |-> size[w]]
  OBVIOUS
<1>10. s \in Slice /\ s.array = a /\ s.size = size[w]
  BY <1>3, <1>8, <1>9 DEF Slice
<1>11. InSlice(memory', s) = InBatch(w)
  BY <1>4, <1>5, <1>10 DEF InSlice, InBatch
<1>12. \A i, j \in 1 .. s.size : memory'[s.array][i] = memory'[s.array][j] => i = j
  BY <1>2, <1>4, <1>5, <1>10 DEF Unpublished
<1>13. channel' = [c \in Client |->
                     IF place[c] = "subscribed" /\ Len(channel[c]) < ChannelSize
                     THEN Append(channel[c], s) ELSE channel[c]]
  BY <1>1, <1>9 DEF Offer
<1>14. \A c \in Client : channel'[c] = Append(channel[c], s) \/ channel'[c] = channel[c]
  BY <1>13
<1>15. \A c \in Client : channel[c] \in Seq(Slice) /\ Append(channel[c], s) \in Seq(Slice)
  BY <1>2, <1>10, SequenceFacts DEF TypeInv
<1>16. TypeInv'
  <2>1. channel' \in [Client -> Seq(Slice)]
    BY <1>13, <1>15
  <2>. QED
    BY <1>2, <1>5, <1>7, <2>1 DEF TypeInv, Places
<1>17. Streams'
  <2>. SUFFICES ASSUME NEW c \in Client
                PROVE  /\ writing[c] # NoSlice => writing[c][2] <= writing[c][1].size
                       /\ Distinct(memory', got[c], writing[c], channel'[c])
                       /\ SeenBy(memory', got[c], writing[c], channel'[c]) \subseteq table
                       /\ SeenBy(memory', got[c], writing[c], channel'[c]) \cap InMemory' = {}
    BY <1>2 DEF Streams, Seen
  <2>1. channel[c] \in Seq(Slice) /\ \A k \in DOMAIN channel[c] : channel[c][k].array \in Array
    <3>1. \A k \in DOMAIN channel[c] : channel[c][k] \in Slice
      BY <1>15, SequenceFacts
    <3>. QED
      BY <1>15, <3>1 DEF Slice
  <2>2. writing[c] # NoSlice => writing[c][1].array \in Array
    BY <1>2 DEF TypeInv, Slice
  <2>3. \A k \in DOMAIN channel[c] : memory'[channel[c][k].array] = memory[channel[c][k].array]
    BY <1>3, <1>5, <2>1
  <2>4. writing[c] # NoSlice => memory'[writing[c][1].array] = memory[writing[c][1].array]
    BY <1>3, <1>5, <2>2
  <2>5. /\ Distinct(memory', got[c], writing[c], channel[c])
        /\ SeenBy(memory', got[c], writing[c], channel[c]) = Seen(c)
    <3>1. Distinct(memory, got[c], writing[c], channel[c])
      BY <1>2 DEF Streams
    <3>2. PICK m, n, g, h, ch : m = memory /\ n = memory' /\ g = got[c] /\ h = writing[c] /\ ch = channel[c]
      OBVIOUS
    <3>3. /\ ch \in Seq(Slice)
          /\ h # NoSlice => n[h[1].array] = m[h[1].array]
          /\ \A k \in DOMAIN ch : n[ch[k].array] = m[ch[k].array]
      BY <2>1, <2>3, <2>4, <3>2
    <3>4. SeenBy(n, g, h, ch) = SeenBy(m, g, h, ch) /\ (Distinct(m, g, h, ch) => Distinct(n, g, h, ch))
      BY <3>3, MemoryAgrees
    <3>. QED
      BY <3>1, <3>2, <3>4 DEF Seen
  <2>6. Seen(c) \subseteq table /\ Seen(c) \cap InMemory = {}
    BY <1>2 DEF Streams
  <2>. SUFFICES /\ Distinct(memory', got[c], writing[c], channel'[c])
                /\ SeenBy(memory', got[c], writing[c], channel'[c]) \subseteq table
                /\ SeenBy(memory', got[c], writing[c], channel'[c]) \cap InMemory' = {}
    BY <1>2 DEF Streams
  <2>7. CASE channel'[c] = channel[c]
    BY <1>7, <2>5, <2>6, <2>7
  <2>8. CASE channel'[c] = Append(channel[c], s)
    <3>1. /\ Distinct(memory', got[c], writing[c], Append(channel[c], s))
          /\ SeenBy(memory', got[c], writing[c], Append(channel[c], s))
               = SeenBy(memory', got[c], writing[c], channel[c]) \cup InSlice(memory', s)
      <4>1. InSlice(memory', s) \cap SeenBy(memory', got[c], writing[c], channel[c]) = {}
        BY <1>8, <1>11, <2>5, <2>6
      <4>. QED
        BY <1>10, <1>12, <2>1, <2>5, <4>1, OfferKeeps
    <3>. QED
      BY <1>7, <1>8, <1>11, <2>5, <2>6, <2>8, <3>1
  <2>. QED
    BY <1>14, <2>7, <2>8
<1>18. Losses'
  <2>1. Lost' \subseteq Lost
    BY <1>2, <1>7, <1>8 DEF Lost
  <2>. QED
    BY <1>2, <2>1, LossesKept
<1>. QED
  BY <1>7, <1>16, <1>17, <1>18 DEF IInv

-----------------------------------------------------------------------------
(* The steps of the streams.                                               *)

\* A step of one stream that reads a part of what was to come, and adds nothing.
LEMMA StreamStep ==
  ASSUME IInv, NEW c \in Client, StreamKeeps,
         channel' \in [Client -> Seq(Slice)], got' \in [Client -> Seq(Event)],
         writing' \in [Client -> {NoSlice} \cup Slice \X (Nat \ {0})],
         \A d \in Client \ {c} : channel'[d] = channel[d] /\ writing'[d] = writing[d]
                                   /\ got'[d] = got[d],
         writing'[c] # NoSlice => writing'[c][2] <= writing'[c][1].size,
         Distinct(memory, got'[c], writing'[c], channel'[c]),
         SeenBy(memory, got'[c], writing'[c], channel'[c]) \subseteq Seen(c)
  PROVE  IInv'
<1>1. /\ UNCHANGED <<crashes, accepted, queue, memory, size, pc, table, failed>>
      /\ TypeInv /\ Unpublished /\ Flushes /\ Streams /\ Losses
  BY DEF StreamKeeps, workers, IInv
<1>2. Unpublished' /\ Flushes' /\ Losses' /\ InMemory' = InMemory
  BY <1>1, WorkersKept
<1>3. TypeInv'
  BY <1>1 DEF TypeInv
<1>4. Streams'
  <2>. SUFFICES ASSUME NEW d \in Client
                PROVE  /\ writing'[d] # NoSlice => writing'[d][2] <= writing'[d][1].size
                       /\ Distinct(memory, got'[d], writing'[d], channel'[d])
                       /\ SeenBy(memory, got'[d], writing'[d], channel'[d]) \subseteq table
                       /\ SeenBy(memory, got'[d], writing'[d], channel'[d]) \cap InMemory = {}
    BY <1>1, <1>2 DEF Streams, Seen
  <2>1. CASE d = c
    BY <1>1, <2>1 DEF Streams
  <2>2. CASE d # c
    BY <1>1, <2>2 DEF Streams, Seen
  <2>. QED
    BY <2>1, <2>2
<1>. QED
  BY <1>2, <1>3, <1>4 DEF IInv

LEMMA TakeStep ==
  ASSUME IInv, NEW c \in Client, Take(c)
  PROVE  IInv'
<1>1. /\ writing[c] = NoSlice /\ channel[c] # << >>
      /\ channel' = [channel EXCEPT ![c] = Tail(channel[c])]
      /\ writing' = [writing EXCEPT ![c] = <<Head(channel[c]), 1>>]
      /\ got' = got /\ StreamKeeps
      /\ TypeInv /\ Streams
  BY DEF Take, IInv
<1>2. /\ channel[c] \in Seq(Slice)
      /\ Head(channel[c]) \in Slice /\ Tail(channel[c]) \in Seq(Slice)
  BY <1>1, SequenceFacts DEF TypeInv
<1>3. /\ channel' \in [Client -> Seq(Slice)] /\ channel'[c] = Tail(channel[c])
      /\ \A d \in Client \ {c} : channel'[d] = channel[d]
  BY <1>1, <1>2 DEF TypeInv
<1>4. <<Head(channel[c]), 1>> \in Slice \X (Nat \ {0})
  BY <1>2
<1>5. /\ writing' \in [Client -> {NoSlice} \cup Slice \X (Nat \ {0})]
      /\ writing'[c] = <<Head(channel[c]), 1>>
      /\ \A d \in Client \ {c} : writing'[d] = writing[d]
  BY <1>1, <1>4 DEF TypeInv
<1>6. Distinct(memory, got[c], NoSlice, channel[c])
  BY <1>1 DEF Streams
<1>7. /\ Distinct(memory, got[c], <<Head(channel[c]), 1>>, Tail(channel[c]))
      /\ SeenBy(memory, got[c], <<Head(channel[c]), 1>>, Tail(channel[c])) \subseteq Seen(c)
  BY <1>1, <1>2, <1>6, TakeKeeps DEF Seen
<1>8. got' \in [Client -> Seq(Event)]
  BY <1>1 DEF TypeInv
<1>9. <<Head(channel[c]), 1>>[2] <= <<Head(channel[c]), 1>>[1].size
  BY <1>2, HandParts DEF Slice
<1>. QED
  BY <1>1, <1>3, <1>5, <1>7, <1>8, <1>9, StreamStep

LEMMA WriteEventStep ==
  ASSUME IInv, NEW c \in Client, WriteEvent(c)
  PROVE  IInv'
<1>1. TypeInv /\ Streams /\ writing[c] # NoSlice
  BY DEF WriteEvent, IInv
<1>2. writing[c] \in Slice \X (Nat \ {0})
  BY <1>1 DEF TypeInv
<1>3. PICK s \in Slice, i \in Nat \ {0} : writing[c] = <<s, i>>
  BY <1>2
<1>4. i <= s.size /\ i \in ToWrite(<<s, i>>) /\ <<s, i>>[1] = s
  <2>1. <<s, i>>[1] = s /\ <<s, i>>[2] = i /\ ToWrite(<<s, i>>) = i .. s.size
    BY HandParts
  <2>2. i <= s.size /\ s.size \in Nat
    BY <1>1, <1>3, <2>1 DEF Streams, Slice
  <2>. QED
    BY <2>1, <2>2
<1>5. PICK x : x = memory[s.array][i]
  OBVIOUS
<1>6. PICK h : h = IF i = s.size THEN NoSlice ELSE <<s, i + 1>>
  OBVIOUS
<1>7. /\ got' = [got EXCEPT ![c] = Append(got[c], x)]
      /\ writing' = [writing EXCEPT ![c] = h]
      /\ channel' = channel /\ StreamKeeps
  BY <1>3, <1>4, <1>5, <1>6, HandParts DEF WriteEvent
<1>8. x \in Event
  <2>1. x \in InHand(memory, <<s, i>>)
    BY <1>4, <1>5 DEF InHand
  <2>2. x \in Seen(c)
    BY <1>3, <2>1 DEF Seen, SeenBy
  <2>. QED
    BY <1>1, <2>2 DEF Streams, TypeInv
<1>9. /\ Distinct(memory, Append(got[c], x), h, channel[c])
      /\ SeenBy(memory, Append(got[c], x), h, channel[c]) \subseteq Seen(c)
  <2>1. got[c] \in Seq(Event) /\ Distinct(memory, got[c], <<s, i>>, channel[c])
    BY <1>1, <1>3 DEF TypeInv, Streams
  <2>. QED
    BY <1>3, <1>4, <1>5, <1>6, <1>8, <2>1, WriteKeeps DEF Seen
<1>10. /\ got' \in [Client -> Seq(Event)] /\ got'[c] = Append(got[c], x)
       /\ \A d \in Client \ {c} : got'[d] = got[d]
  <2>1. got[c] \in Seq(Event) /\ Append(got[c], x) \in Seq(Event)
    BY <1>1, <1>8, SequenceFacts DEF TypeInv
  <2>. QED
    BY <1>1, <1>7, <2>1 DEF TypeInv
<1>11. /\ h \in {NoSlice} \cup Slice \X (Nat \ {0})
       /\ h # NoSlice => h[2] <= h[1].size
  <2>1. CASE i = s.size
    BY <1>6, <2>1
  <2>2. CASE i # s.size
    <3>1. h = <<s, i + 1>> /\ i + 1 \in Nat \ {0} /\ i + 1 <= s.size
      BY <1>4, <1>6, <2>2 DEF Slice
    <3>2. h[1] = s /\ h[2] = i + 1
      BY <3>1, HandParts
    <3>. QED
      BY <3>1, <3>2
  <2>. QED
    BY <2>1, <2>2
<1>12. /\ writing' \in [Client -> {NoSlice} \cup Slice \X (Nat \ {0})] /\ writing'[c] = h
       /\ \A d \in Client \ {c} : writing'[d] = writing[d]
  BY <1>1, <1>7, <1>11 DEF TypeInv
<1>13. channel' \in [Client -> Seq(Slice)]
  BY <1>1, <1>7 DEF TypeInv
<1>. QED
  BY <1>7, <1>9, <1>10, <1>11, <1>12, <1>13, StreamStep

LEMMA DisconnectStep ==
  ASSUME IInv, NEW c \in Client, Disconnect(c)
  PROVE  IInv'
<1>1. /\ channel' = [channel EXCEPT ![c] = << >>] /\ writing' = [writing EXCEPT ![c] = NoSlice]
      /\ got' = got /\ StreamKeeps
      /\ TypeInv /\ Streams
  BY DEF Disconnect, IInv
<1>2. << >> \in Seq(Slice)
  OBVIOUS
<1>3. /\ channel' \in [Client -> Seq(Slice)] /\ channel'[c] = << >>
      /\ writing' \in [Client -> {NoSlice} \cup Slice \X (Nat \ {0})] /\ writing'[c] = NoSlice
      /\ got' \in [Client -> Seq(Event)]
      /\ \A d \in Client \ {c} : channel'[d] = channel[d] /\ writing'[d] = writing[d]
  BY <1>1, <1>2 DEF TypeInv
<1>4. IsInjective(got[c])
  BY <1>1 DEF Streams, Distinct
<1>5. /\ Distinct(memory, got[c], NoSlice, << >>)
      /\ SeenBy(memory, got[c], NoSlice, << >>) \subseteq Seen(c)
  BY <1>4, ResetKeeps DEF Seen
<1>. QED
  BY <1>1, <1>3, <1>5, StreamStep

\* A step that no part of the invariant sees.
LEMMA QuietStep ==
  ASSUME IInv, UNCHANGED <<crashes, accepted, workers, table, failed, channel, writing, got>>
  PROVE  IInv'
<1>1. /\ UNCHANGED <<crashes, accepted, queue, memory, size, pc, table, failed, channel, writing, got>>
      /\ TypeInv /\ Unpublished /\ Flushes /\ Streams /\ Losses
  BY DEF workers, IInv
<1>2. Unpublished' /\ Flushes' /\ Losses' /\ InMemory' = InMemory
  BY <1>1, WorkersKept
<1>3. TypeInv'
  BY <1>1 DEF TypeInv
<1>4. Streams'
  BY <1>1, <1>2, StreamsKept
<1>. QED
  BY <1>2, <1>3, <1>4 DEF IInv

-----------------------------------------------------------------------------
(* Crashes.                                                                *)

\* The channel and the batches hold no more than their sizes say.
LEMMA MemoryBound ==
  ASSUME TypeInv, Flushes
  PROVE  IsFiniteSet(InMemory) /\ Cardinality(InMemory) <= Capacity
<1>. DEFINE Held == UNION {InBatch(w) : w \in Worker}
            Cells == {p \in Worker \X (1 .. BatchSize) : p[2] <= size[p[1]]}
            cell == [p \in Cells |-> memory[p[1]][p[2]]]
<1>1. IsFiniteSet(Range(queue)) /\ Cardinality(Range(queue)) <= BufferSize
  <2>1. queue \in [1 .. Len(queue) -> Range(queue)] /\ Len(queue) \in Nat
    BY SequenceFacts DEF TypeInv, Range
  <2>2. queue \in Surjection(1 .. Len(queue), Range(queue))
    BY <2>1 DEF Surjection, Range
  <2>3. IsFiniteSet(1 .. Len(queue)) /\ Cardinality(1 .. Len(queue)) = Len(queue)
    <3>1. PICK n \in Nat : n = Len(queue)
      BY <2>1
    <3>2. /\ IsFiniteSet(1 .. n)
          /\ Cardinality(1 .. n) = IF 1 > n THEN 0 ELSE n - 1 + 1
      BY FS_Interval
    <3>3. (IF 1 > n THEN 0 ELSE n - 1 + 1) = n
      OBVIOUS
    <3>. QED
      BY <3>1, <3>2, <3>3
  <2>4. IsFiniteSet(Range(queue)) /\ Cardinality(Range(queue)) <= Len(queue)
    BY <2>2, <2>3, FS_Surjection
  <2>. QED
    BY <2>1, <2>4, Sizes, FS_CardinalityType DEF Flushes
<1>2. IsFiniteSet(Held) /\ Cardinality(Held) <= BatchSize * Cardinality(Worker)
  <2>1. IsFiniteSet(1 .. BatchSize) /\ Cardinality(1 .. BatchSize) = BatchSize
    BY Sizes, FS_Interval
  <2>2. /\ IsFiniteSet(Worker \X (1 .. BatchSize))
        /\ Cardinality(Worker \X (1 .. BatchSize)) = Cardinality(Worker) * BatchSize
    BY <2>1, PipelineAssumption, FS_Product
  <2>3. Cells \subseteq Worker \X (1 .. BatchSize)
    OBVIOUS
  <2>4. IsFiniteSet(Cells) /\ Cardinality(Cells) <= Cardinality(Worker) * BatchSize
    BY <2>2, <2>3, FS_Subset
  <2>5. cell \in Surjection(Cells, Held)
    <3>1. \A p \in Cells : cell[p] \in Held
      BY DEF InBatch, TypeInv
    <3>2. ASSUME NEW e \in Held
          PROVE  \E p \in Cells : cell[p] = e
      <4>1. PICK w \in Worker : e \in InBatch(w)
        OBVIOUS
      <4>2. PICK i \in 1 .. size[w] : e = memory[w][i]
        BY <4>1 DEF InBatch
      <4>3. <<w, i>> \in Cells
        BY <4>2, Sizes DEF Flushes, TypeInv
      <4>. QED
        BY <4>2, <4>3
    <3>. QED
      BY <3>1, <3>2 DEF Surjection
  <2>6. IsFiniteSet(Held) /\ Cardinality(Held) <= Cardinality(Cells)
    BY <2>4, <2>5, FS_Surjection
  <2>7. Cardinality(Held) \in Nat /\ Cardinality(Cells) \in Nat /\ Cardinality(Worker) \in Nat
    BY <2>4, <2>6, FS_CardinalityType, PipelineAssumption
  <2>8. Cardinality(Worker) * BatchSize = BatchSize * Cardinality(Worker)
        /\ BatchSize * Cardinality(Worker) \in Nat
    BY <2>7, Sizes
  <2>. HIDE DEF Held, Cells, cell
  <2>. QED
    BY <2>4, <2>6, <2>7, <2>8
<1>. HIDE DEF Held
<1>3. /\ IsFiniteSet(Range(queue) \cup Held)
      /\ Cardinality(Range(queue) \cup Held)
           = Cardinality(Range(queue)) + Cardinality(Held) - Cardinality(Range(queue) \cap Held)
  BY <1>1, <1>2, FS_Union
<1>4. IsFiniteSet(Range(queue) \cap Held)
  BY <1>1, FS_Subset
<1>5. /\ Cardinality(Range(queue)) \in Nat /\ Cardinality(Held) \in Nat
      /\ Cardinality(Range(queue) \cap Held) \in Nat /\ Cardinality(Worker) \in Nat
  BY <1>1, <1>2, <1>4, FS_CardinalityType, PipelineAssumption
<1>6. BatchSize * Cardinality(Worker) \in Nat /\ BufferSize \in Nat
  BY <1>5, Sizes
<1>7. InMemory = Range(queue) \cup Held
  BY DEF InMemory, Held
<1>. QED
  BY <1>1, <1>2, <1>3, <1>5, <1>6, <1>7 DEF Capacity

\* Two finite sets and what their union may hold.
LEMMA UnionBound ==
  ASSUME NEW A, NEW B, NEW C, IsFiniteSet(A), IsFiniteSet(B), C \subseteq A \cup B,
         NEW a \in Nat, NEW b \in Nat, Cardinality(A) <= a, Cardinality(B) <= b
  PROVE  IsFiniteSet(C) /\ Cardinality(C) <= a + b
<1>1. IsFiniteSet(A \cup B)
      /\ Cardinality(A \cup B) = Cardinality(A) + Cardinality(B) - Cardinality(A \cap B)
  BY FS_Union
<1>2. IsFiniteSet(A \cap B)
  BY FS_Subset
<1>3. IsFiniteSet(C) /\ Cardinality(C) <= Cardinality(A \cup B)
  BY <1>1, FS_Subset
<1>4. /\ Cardinality(A) \in Nat /\ Cardinality(B) \in Nat /\ Cardinality(A \cap B) \in Nat
      /\ Cardinality(A \cup B) \in Nat /\ Cardinality(C) \in Nat
  BY <1>1, <1>2, <1>3, FS_CardinalityType
<1>. QED
  BY <1>1, <1>3, <1>4

LEMMA CapacityType == Capacity \in Nat /\ Capacity' = Capacity
<1>1. Cardinality(Worker) \in Nat /\ BufferSize \in Nat /\ BatchSize \in Nat
  BY FS_CardinalityType, PipelineAssumption
<1>. QED
  BY <1>1 DEF Capacity

LEMMA CrashStep == IInv /\ Crash => IInv'
<1>. SUFFICES ASSUME IInv, Crash
              PROVE  IInv'
  OBVIOUS
<1>1. /\ crashes' = crashes + 1 /\ queue' = << >>
      /\ memory' = [a \in Worker \cup Array |-> << >>]
      /\ size' = [w \in Worker |-> 0] /\ pc' = [w \in Worker |-> "select"]
      /\ channel' = [c \in Client |-> << >>] /\ writing' = [c \in Client |-> NoSlice]
      /\ UNCHANGED <<accepted, table, failed, got>>
      /\ TypeInv /\ Unpublished /\ Flushes /\ Streams /\ Losses
  BY DEF Crash, IInv
<1>2. << >> \in Seq(Event) /\ << >> \in Seq(Slice) /\ Len(<< >>) = 0 /\ DOMAIN << >> = {}
  OBVIOUS
<1>3. TypeInv'
  BY <1>1, <1>2 DEF TypeInv
<1>4. (\A w \in Worker : InBatch(w)' = {}) /\ Range(queue') = {} /\ InMemory' = {}
  BY <1>1, <1>2 DEF InBatch, Range, InMemory
<1>5. Unpublished'
  BY <1>1, <1>2, <1>4 DEF Unpublished, IsInjective
<1>6. Flushes'
  BY <1>1, <1>2, <1>4, Sizes DEF Flushes
<1>7. Streams'
  <2>. SUFFICES ASSUME NEW c \in Client
                PROVE  /\ Distinct(memory', got[c], NoSlice, << >>)
                       /\ SeenBy(memory', got[c], NoSlice, << >>) \subseteq table
    BY <1>1, <1>4 DEF Streams, Seen
  <2>1. IsInjective(got[c]) /\ Range(got[c]) \subseteq table
    BY <1>1 DEF Streams, Distinct, Seen, SeenBy
  <2>. QED
    BY <2>1, ResetKeeps
<1>8. Losses'
  <2>1. Lost' \subseteq Lost \cup InMemory
    BY <1>1 DEF Lost
  <2>2. IsFiniteSet(InMemory) /\ Cardinality(InMemory) <= Capacity
    BY <1>1, MemoryBound
  <2>3. PICK n \in Nat : n = crashes * Capacity
    BY <1>1, CapacityType DEF TypeInv
  <2>4. IsFiniteSet(Lost') /\ Cardinality(Lost') <= n + Capacity
    BY <1>1, <2>1, <2>2, <2>3, CapacityType, UnionBound DEF Losses
  <2>5. crashes' * Capacity = n + Capacity
    BY <1>1, <2>3, CapacityType DEF TypeInv
  <2>. QED
    BY <2>4, <2>5, CapacityType DEF Losses
<1>. QED
  BY <1>3, <1>5, <1>6, <1>7, <1>8 DEF IInv

-----------------------------------------------------------------------------
(* The theorems.                                                           *)

LEMMA InitIInv == Init => IInv
<1>. SUFFICES ASSUME Init
              PROVE  IInv
  OBVIOUS
<1>1. /\ crashes = 0 /\ accepted = {} /\ queue = << >> /\ table = {} /\ failed = {}
      /\ memory = [a \in Worker \cup Array |-> << >>]
      /\ size = [w \in Worker |-> 0] /\ pc = [w \in Worker |-> "select"]
      /\ channel = [c \in Client |-> << >>] /\ writing = [c \in Client |-> NoSlice]
      /\ got = [c \in Client |-> << >>]
  BY DEF Init
<1>2. << >> \in Seq(Event) /\ << >> \in Seq(Slice) /\ Len(<< >>) = 0 /\ DOMAIN << >> = {}
  OBVIOUS
<1>3. TypeInv
  BY <1>1, <1>2 DEF TypeInv
<1>4. (\A w \in Worker : InBatch(w) = {}) /\ Range(queue) = {} /\ InMemory = {}
  BY <1>1, <1>2 DEF InBatch, Range, InMemory
<1>5. Unpublished
  BY <1>1, <1>2, <1>4 DEF Unpublished, IsInjective
<1>6. Flushes
  BY <1>1, <1>2, <1>4, Sizes DEF Flushes
<1>7. Streams
  <2>1. IsInjective(<< >>) /\ Range(<< >>) = {}
    BY <1>2 DEF IsInjective, Range
  <2>. QED
    BY <1>1, <1>4, <2>1, ResetKeeps DEF Streams, Seen
<1>8. Losses
  <2>1. Lost = {}
    BY <1>1 DEF Lost
  <2>. QED
    BY <1>1, <2>1, FS_EmptySet, CapacityType DEF Losses
<1>. QED
  BY <1>3, <1>5, <1>6, <1>7, <1>8 DEF IInv

LEMMA StepIInv == IInv /\ [Next]_vars => IInv'
<1>. SUFFICES ASSUME IInv, [Next]_vars
              PROVE  IInv'
  OBVIOUS
<1>1. ASSUME NEW e \in Event, Submit(e)
      PROVE  IInv'
  BY <1>1, SubmitStep
<1>2. ASSUME NEW w \in Worker, Receive(w)
      PROVE  IInv'
  BY <1>2, ReceiveStep
<1>3. ASSUME NEW w \in Worker, ReceiveTick(w) \/ InsertSucceeds(w)
      PROVE  IInv'
  BY <1>3, InsertStep
<1>4. ASSUME NEW w \in Worker, InsertFails(w)
      PROVE  IInv'
  BY <1>4, InsertFailsStep
<1>5. ASSUME NEW w \in Worker, Publish(w)
      PROVE  IInv'
  BY <1>5, PublishStep
<1>6. ASSUME NEW c \in Client, Connect(c) \/ Subscribe(c)
      PROVE  IInv'
  BY <1>6, QuietStep DEF Connect, Subscribe, StreamKeeps
<1>7. ASSUME NEW c \in Client, Take(c)
      PROVE  IInv'
  BY <1>7, TakeStep
<1>8. ASSUME NEW c \in Client, WriteEvent(c)
      PROVE  IInv'
  BY <1>8, WriteEventStep
<1>9. ASSUME NEW c \in Client, Disconnect(c)
      PROVE  IInv'
  BY <1>9, DisconnectStep
<1>10. CASE Crash
  BY <1>10, CrashStep
<1>11. CASE Restart \/ UNCHANGED vars
  BY <1>11, QuietStep DEF Restart, vars, streams
<1>. QED
  BY <1>1, <1>2, <1>3, <1>4, <1>5, <1>6, <1>7, <1>8, <1>9, <1>10, <1>11 DEF Next

LEMMA IInvInvariant == Spec => []IInv
BY InitIInv, StepIInv, PTL DEF Spec

\* What a page receives is stored, and nothing comes twice, though the workers fill
\* their arrays again while streams read, and whatever fails and crashes.
THEOREM StreamedTrueHolds == Spec => []StreamedTrue
<1>1. IInv => StreamedTrue
  BY DEF IInv, Streams, Distinct, Seen, SeenBy, StreamedTrue
<1>. QED
  BY <1>1, IInvInvariant, PTL

\* Nothing is lost but in a crash, and each crash loses no more accepted events than
\* channel and batches could hold, and none that is stored (Submit, runWorker and flush
\* of pool.go).
THEOREM BoundedLossHolds == Spec => []BoundedLoss
<1>1. IInv => BoundedLoss
  BY DEF IInv, Losses, BoundedLoss
<1>. QED
  BY <1>1, IInvInvariant, PTL

=============================================================================
