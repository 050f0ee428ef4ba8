------------------------------ MODULE PageProofs ------------------------------
(***************************************************************************)
(* Proofs about what the page shows, in modules Metrics, Feed and Chart.   *)
(* The velocity and the buckets are exact for every window and every width *)
(* of bucket, however late ticks come and whatever they prune. For buffers *)
(* of any size inspected payloads stay with their events, and the most     *)
(* common type is that. For any number of buckets the chart's scale,       *)
(* labels and tooltip are right.                                           *)
(***************************************************************************)
EXTENDS Metrics, Feed, Chart, FiniteSetTheorems, WellFoundedInduction, TLAPS

-----------------------------------------------------------------------------
(* Arithmetic.                                                             *)

\* a \div d is the i with i * d <= a < (i + 1) * d.
LEMMA Division ==
  ASSUME NEW a \in Nat, NEW d \in Nat \ {0}
  PROVE  /\ a \div d \in Nat
         /\ (a \div d) * d <= a
         /\ a < (a \div d) * d + d
OBVIOUS

LEMMA Multiples ==
  ASSUME NEW i \in Nat, NEW j \in Nat, NEW d \in Nat \ {0}, i < j
  PROVE  i * d + d <= j * d
OBVIOUS

LEMMA Quotient ==
  ASSUME NEW a \in Nat, NEW d \in Nat \ {0}, NEW i \in Nat
  PROVE  a \div d = i <=> i * d <= a /\ a < i * d + d
<1>. DEFINE q == a \div d
<1>1. q \in Nat /\ q * d <= a /\ a < q * d + d
  BY Division
<1>. HIDE DEF q
<1>2. q < i => q * d + d <= i * d
  BY <1>1, Multiples
<1>3. i < q => i * d + d <= q * d
  BY <1>1, Multiples
<1>4. q * d \in Nat /\ i * d \in Nat
  BY <1>1
<1>5. q = i <=> i * d <= a /\ a < i * d + d
  BY <1>1, <1>2, <1>3, <1>4
<1>. QED
  BY <1>5 DEF q

\* A set of numbers that is not empty has a least one, which is also what stands for
\* induction below; if it has a bound it has a greatest one.
LEMMA LeastOf ==
  ASSUME NEW T, T \subseteq Nat, T # {}
  PROVE  \E x \in T : \A y \in T : x <= y
<1>. DEFINE R == OpToRel(<, Nat)
<1>1. \A x, y \in Nat : <<y, x>> \in R <=> y < x
  BY DEF OpToRel
<1>2. PICK x \in T : \A y \in T : ~(<<y, x>> \in R)
  BY NatLessThanWellFounded, WFMin
<1>. HIDE DEF R
<1>3. \A y \in T : x \in Nat /\ y \in Nat /\ ~(y < x)
  BY <1>1, <1>2
<1>. QED
  BY <1>3

LEMMA GreatestOf ==
  ASSUME NEW T, T \subseteq Nat, T # {}, NEW m \in Nat, \A x \in T : x <= m
  PROVE  Max(T) \in T /\ \A y \in T : y <= Max(T)
<1>. DEFINE U == {m - x : x \in T}
<1>1. U \subseteq Nat /\ U # {}
  <2>1. \A x \in T : m - x \in Nat
    OBVIOUS
  <2>. QED
    BY <2>1
<1>2. PICK u \in U : \A v \in U : u <= v
  BY <1>1, LeastOf
<1>3. PICK x \in T : u = m - x
  OBVIOUS
<1>4. \A y \in T : x >= y
  BY <1>2, <1>3
<1>. QED
  BY <1>4 DEF Max

\* Whatever holds of 0 and goes from each number below n to the next holds up to n.
LEMMA UpTo ==
  ASSUME NEW n \in Nat, NEW T, 0 \in T, \A i \in 0 .. n - 1 : i \in T => i + 1 \in T
  PROVE  \A i \in 0 .. n : i \in T
<1>. SUFFICES ASSUME NEW k \in 0 .. n, k \notin T
              PROVE  FALSE
  OBVIOUS
<1>. DEFINE U == {i \in 0 .. n : i \notin T}
<1>1. PICK x \in U : \A y \in U : x <= y
  <2>1. U \subseteq Nat /\ U # {}
    OBVIOUS
  <2>. HIDE DEF U
  <2>. QED
    BY <2>1, LeastOf
<1>2. x \in 1 .. n /\ x \notin T
  BY <1>1
<1>3. PICK i \in 0 .. n - 1 : i + 1 = x
  <2>1. x - 1 \in 0 .. n - 1 /\ (x - 1) + 1 = x
    BY <1>2
  <2>. QED
    BY <2>1
<1>4. i \in T
  BY <1>1, <1>3
<1>. QED
  BY <1>2, <1>3, <1>4

\* The buckets fill the window.
LEMMA BucketsFill == BucketCount \in Nat /\ BucketCount * Bucket = ChartWindow
BY MetricsAssumption DEF BucketCount

\* An event of age a is in the bucket i before the last: i is counted from the newest.
LEMMA BucketOfAge ==
  ASSUME NEW age \in Int, NEW i \in 0 .. BucketCount - 1
  PROVE  /\ i * Bucket < age /\ age <= (i + 1) * Bucket
              <=> age \in 1 .. ChartWindow /\ (age - 1) \div Bucket = i
         /\ age <= (i + 1) * Bucket => age <= ChartWindow
<1>1. BucketCount \in Nat /\ Bucket \in Nat \ {0} /\ BucketCount * Bucket = ChartWindow
  BY BucketsFill, MetricsAssumption
<1>2. i * Bucket \in Nat /\ (i + 1) * Bucket = i * Bucket + Bucket
  BY <1>1
<1>3. i * Bucket + Bucket <= ChartWindow
  BY <1>1, Multiples
<1>4. ASSUME age >= 1
      PROVE  (age - 1) \div Bucket = i <=> i * Bucket <= age - 1 /\ age - 1 < i * Bucket + Bucket
  BY <1>1, <1>4, Quotient
<1>. QED
  BY <1>1, <1>2, <1>3, <1>4

-----------------------------------------------------------------------------
(* The metrics: the inductive invariant.                                   *)

\* Events do not arrive in the future, and those that the last tick has not seen
\* did not arrive before it.
Stamped ==
  /\ \A n \in 1 .. total : stamp[n] <= now
  /\ \A n \in ticked + 1 .. total : stamp[n] >= at

\* What a tick prunes is too old for both windows, and stays so.
Held == \A n \in 1 .. total : now - stamp[n] <= Larger(VelocityWindow, ChartWindow) => n \in arrivals

\* Before the first tick there are no buckets, after it all of them.
Drawn == DOMAIN chartBuckets \in {{}, 1 .. BucketCount}

MetricsInv == TypeOK /\ Stamped /\ Held /\ Drawn /\ VelocityExact /\ BucketsExact

LEMMA InitMetrics == Init => MetricsInv
<1>. SUFFICES ASSUME Init
              PROVE  MetricsInv
  OBVIOUS
<1>1. now \in Nat /\ at = now /\ total = 0 /\ ticked = 0
  BY MetricsAssumption DEF Init
<1>2. 1 .. total = {} /\ 1 .. ticked = {} /\ ticked + 1 .. total = {}
  BY <1>1
<1>3. stamp \in [{} -> Nat] /\ DOMAIN chartBuckets = {}
  BY DEF Init
<1>4. TypeOK
  <2>1. arrivals = {} /\ ticking = FALSE
    BY DEF Init
  <2>2. stamp \in [1 .. total -> Nat]
    BY <1>2, <1>3
  <2>3. at <= now /\ ticked <= total
    BY <1>1
  <2>. QED
    BY <1>1, <2>1, <2>2, <2>3 DEF TypeOK
<1>5. Stamped /\ Held /\ Drawn /\ BucketsExact
  BY <1>2, <1>3 DEF Stamped, Held, Drawn, BucketsExact
<1>6. VelocityExact
  <2>1. {n \in 1 .. ticked : Age(n) <= VelocityWindow} = {}
    BY <1>2
  <2>2. Cardinality({}) = 0
    BY DEF Cardinality
  <2>. QED
    BY <2>1, <2>2 DEF Init, VelocityExact
<1>. QED
  BY <1>4, <1>5, <1>6 DEF MetricsInv

LEMMA PassStep == MetricsInv /\ Pass => MetricsInv'
<1>. SUFFICES ASSUME MetricsInv, Pass
              PROVE  MetricsInv'
  OBVIOUS
<1>1. /\ now \in Nat /\ now' \in Nat /\ now < now'
      /\ UNCHANGED <<total, stamp, arrivals, ticking, velocity, chartBuckets, at, ticked>>
  BY MetricsAssumption DEF Pass, shown, MetricsInv, TypeOK
<1>2. TypeOK' /\ Drawn' /\ VelocityExact' /\ BucketsExact'
  BY <1>1 DEF MetricsInv, TypeOK, Drawn, VelocityExact, BucketsExact, Age
<1>3. Larger(VelocityWindow, ChartWindow) \in Nat
  BY MetricsAssumption DEF Larger
<1>4. Stamped' /\ Held'
  BY <1>1, <1>3 DEF MetricsInv, TypeOK, Stamped, Held
<1>. QED
  BY <1>2, <1>4 DEF MetricsInv

\* A new event is younger than the last tick, and in none of its windows.
LEMMA PrependStep == MetricsInv /\ PrependEvents => MetricsInv'
<1>. SUFFICES ASSUME MetricsInv, PrependEvents
              PROVE  MetricsInv'
  OBVIOUS
<1>. USE DEF MetricsInv
<1>1. /\ total' = total + 1 /\ arrivals' = arrivals \cup {total + 1}
      /\ stamp' = [n \in 1 .. total + 1 |-> IF n = total + 1 THEN now ELSE stamp[n]]
      /\ UNCHANGED <<now, ticking, velocity, chartBuckets, at, ticked>>
  BY DEF PrependEvents, shown
<1>2. /\ total \in Nat /\ ticked \in Nat /\ ticked <= total
      /\ now \in Nat /\ at \in Nat /\ at <= now
      /\ \A n \in 1 .. total : stamp[n] \in Nat
  BY DEF TypeOK
<1>3. /\ 1 .. total' = (1 .. total) \cup {total + 1}
      /\ \A n \in 1 .. total : stamp'[n] = stamp[n]
      /\ stamp'[total + 1] = now
  BY <1>1, <1>2
<1>4. TypeOK'
  <2>1. stamp' \in [1 .. total' -> Nat]
    BY <1>1, <1>2
  <2>. QED
    BY <1>1, <1>2, <1>3, <2>1 DEF TypeOK
<1>5. Stamped'
  BY <1>1, <1>2, <1>3 DEF Stamped
<1>6. Held'
  BY <1>1, <1>3 DEF Held
<1>7. Drawn'
  BY <1>1 DEF Drawn
<1>8. VelocityExact'
  <2>1. \A n \in 1 .. ticked : Age(n)' = Age(n)
    BY <1>1, <1>2, <1>3 DEF Age
  <2>2. {n \in 1 .. ticked : Age(n) <= VelocityWindow}'
          = {n \in 1 .. ticked : Age(n) <= VelocityWindow}
    BY <1>1, <2>1
  <2>. QED
    BY <1>1, <2>2 DEF VelocityExact
<1>9. BucketsExact'
  <2>. SUFFICES ASSUME NEW b \in DOMAIN chartBuckets
                PROVE  {n \in 1 .. total' : /\ at - stamp'[n] \in 1 .. ChartWindow
                                            /\ b = BucketCount - (at - stamp'[n] - 1) \div Bucket}
                         = {n \in 1 .. total : /\ at - stamp[n] \in 1 .. ChartWindow
                                               /\ b = BucketCount - (at - stamp[n] - 1) \div Bucket}
    BY <1>1 DEF BucketsExact, Age
  <2>1. at - stamp'[total + 1] \notin 1 .. ChartWindow
    BY <1>2, <1>3
  <2>. QED
    BY <1>3, <2>1
<1>. QED
  BY <1>4, <1>5, <1>6, <1>7, <1>8, <1>9

\* The heart of the matter: what a tick keeps and counts is what it would count of
\* the full history.
LEMMA ComputeStep ==
  ASSUME MetricsInv, ComputeTick, ticking' \in BOOLEAN
  PROVE  MetricsInv'
<1>. USE DEF MetricsInv
<1>. DEFINE W == Larger(VelocityWindow, ChartWindow)
<1>1. /\ arrivals' = Kept
      /\ velocity' = Cardinality(Kept \cap Within(VelocityWindow))
      /\ chartBuckets' = [b \in 1 .. BucketCount |-> Cardinality(InBucket(BucketCount - b))]
      /\ at' = now /\ ticked' = total
      /\ UNCHANGED <<now, total, stamp>>
  BY DEF ComputeTick
<1>2. /\ total \in Nat /\ now \in Nat /\ arrivals \subseteq 1 .. total
      /\ \A n \in 1 .. total : stamp[n] \in Nat /\ stamp[n] <= now
  BY DEF TypeOK, Stamped
<1>3. W \in Nat /\ VelocityWindow <= W /\ ChartWindow <= W
  BY MetricsAssumption DEF Larger
<1>4. Kept = {n \in 1 .. total : now - stamp[n] <= W}
  BY <1>2 DEF Kept, Within, Held
<1>5. \A n \in 1 .. total : Age(n)' = now - stamp[n] /\ now - stamp[n] \in Nat
  BY <1>1, <1>2 DEF Age
<1>. HIDE DEF W
<1>6. TypeOK'
  BY <1>1, <1>2, <1>4 DEF TypeOK
<1>7. Stamped'
  BY <1>1, <1>2 DEF Stamped
<1>8. Held'
  BY <1>1, <1>4 DEF Held, W
<1>9. Drawn'
  BY <1>1 DEF Drawn
<1>10. VelocityExact'
  <2>1. Kept \cap Within(VelocityWindow) = {n \in 1 .. total : now - stamp[n] <= VelocityWindow}
    BY <1>2, <1>3, <1>4, MetricsAssumption DEF Within, Kept
  <2>2. {n \in 1 .. total : now - stamp[n] <= VelocityWindow}
          = {n \in 1 .. ticked : Age(n) <= VelocityWindow}'
    BY <1>1, <1>5
  <2>. QED
    BY <1>1, <2>1, <2>2 DEF VelocityExact
<1>11. BucketsExact'
  <2>. SUFFICES ASSUME NEW b \in 1 .. BucketCount
                PROVE  InBucket(BucketCount - b)
                         = {n \in 1 .. total : /\ Age(n) \in 1 .. ChartWindow
                                               /\ b = BucketCount - (Age(n) - 1) \div Bucket}'
    BY <1>1 DEF BucketsExact
  <2>1. PICK i \in 0 .. BucketCount - 1 : i = BucketCount - b
    BY BucketsFill
  <2>2. InBucket(i) = {n \in 1 .. total : /\ i * Bucket < now - stamp[n]
                                          /\ now - stamp[n] <= (i + 1) * Bucket}
    <3>1. i * Bucket \in Nat /\ (i + 1) * Bucket \in Nat
      BY MetricsAssumption, BucketsFill
    <3>2. ASSUME NEW n \in 1 .. total
          PROVE  n \in InBucket(i)
                   <=> i * Bucket < now - stamp[n] /\ now - stamp[n] <= (i + 1) * Bucket
      <4>1. now - stamp[n] <= (i + 1) * Bucket => now - stamp[n] <= ChartWindow
        BY <1>2, BucketOfAge
      <4>2. n \in Kept <=> now - stamp[n] <= W
        BY <1>4
      <4>3. /\ stamp[n] >= now - (i + 1) * Bucket <=> now - stamp[n] <= (i + 1) * Bucket
            /\ stamp[n] < now - i * Bucket <=> i * Bucket < now - stamp[n]
        BY <1>2, <3>1
      <4>4. now - stamp[n] <= ChartWindow => n \in Kept
        BY <1>2, <1>3, <4>2, MetricsAssumption
      <4>. QED
        BY <4>1, <4>3, <4>4 DEF InBucket
    <3>3. InBucket(i) \subseteq 1 .. total
      BY <1>4 DEF InBucket
    <3>. QED
      BY <3>2, <3>3
  <2>3. ASSUME NEW n \in 1 .. total
        PROVE  (Age(n) \in 1 .. ChartWindow /\ b = BucketCount - (Age(n) - 1) \div Bucket)'
                 <=> i * Bucket < now - stamp[n] /\ now - stamp[n] <= (i + 1) * Bucket
    <3>. DEFINE age == now - stamp[n]
    <3>1. age \in Nat /\ Age(n)' = age
      BY <1>5
    <3>. HIDE DEF age
    <3>2. i * Bucket < age /\ age <= (i + 1) * Bucket
            <=> age \in 1 .. ChartWindow /\ (age - 1) \div Bucket = i
      BY <3>1, BucketOfAge
    <3>3. age \in 1 .. ChartWindow => (age - 1) \div Bucket \in Nat
      BY <3>1, Division, MetricsAssumption
    <3>4. age \in 1 .. ChartWindow =>
            (b = BucketCount - (age - 1) \div Bucket <=> (age - 1) \div Bucket = i)
      BY <2>1, <3>3, BucketsFill
    <3>. QED
      BY <3>1, <3>2, <3>4 DEF age
  <2>. QED
    BY <1>1, <2>1, <2>2, <2>3
<1>. QED
  BY <1>6, <1>7, <1>8, <1>9, <1>10, <1>11

LEMMA StepMetrics == MetricsInv /\ [Next]_vars => MetricsInv'
<1>. SUFFICES ASSUME MetricsInv, [Next]_vars
              PROVE  MetricsInv'
  OBVIOUS
<1>1. CASE Pass
  BY <1>1, PassStep
<1>2. CASE PrependEvents
  BY <1>2, PrependStep
<1>3. CASE RunEffect \/ Tick
  <2>1. ComputeTick /\ ticking' \in BOOLEAN
    BY <1>3 DEF RunEffect, Tick, MetricsInv, TypeOK
  <2>. QED
    BY <2>1, ComputeStep
<1>4. CASE Cleanup \/ UNCHANGED vars
  <2>1. /\ UNCHANGED <<now, total, stamp, arrivals, velocity, chartBuckets, at, ticked>>
        /\ ticking' \in BOOLEAN
    BY <1>4 DEF Cleanup, vars, shown, MetricsInv, TypeOK
  <2>. QED
    BY <2>1 DEF MetricsInv, TypeOK, Stamped, Held, Drawn, VelocityExact, BucketsExact, Age
<1>. QED
  BY <1>1, <1>2, <1>3, <1>4 DEF Next

LEMMA MetricsInvHolds == Spec => []MetricsInv
BY InitMetrics, StepMetrics, PTL DEF Spec

-----------------------------------------------------------------------------
(* The metrics: the theorems.                                              *)

\* Types; the last tick is not in the future, and saw no event that had not come.
THEOREM TypeCorrect == Spec => []TypeOK
<1>1. MetricsInv => TypeOK
  BY DEF MetricsInv
<1>. QED
  BY <1>1, MetricsInvHolds, PTL

\* The velocity counts every event of its window that had arrived at the tick.
THEOREM VelocityExactHolds == Spec => []VelocityExact
<1>1. MetricsInv => VelocityExact
  BY DEF MetricsInv
<1>. QED
  BY <1>1, MetricsInvHolds, PTL

\* Every event of the chart's window is counted in one bucket, the one of its age.
THEOREM BucketsExactHolds == Spec => []BucketsExact
<1>1. MetricsInv => BucketsExact
  BY DEF MetricsInv
<1>. QED
  BY <1>1, MetricsInvHolds, PTL

-----------------------------------------------------------------------------
(* The feed: the inductive invariant.                                      *)

\* Events are numbered as they came.
Buffered ==
  /\ totalReceived \in Nat
  /\ events \in Seq([id : Id, type : Type, n : 1 .. totalReceived])
  /\ \A e, f \in Range(events) : e.n = f.n => e = f
  /\ events = << >> <=> totalReceived = 0

\* There is a row for each key, and nothing of an event still to come.
Rendered ==
  /\ rows \in [{KeyOf(event) : event \in Range(events)}
                 -> [expanded : BOOLEAN, open : SUBSET Payload]]
  /\ inspected \subseteq 1 .. totalReceived

FeedInv == Buffered /\ Rendered /\ InspectionFollowsEvent /\ OpenIsMounted

-----------------------------------------------------------------------------
(* Lemmas about sequences and payloads.                                    *)

\* The buffer holds nothing but the new event and what it held.
LEMMA CutPrepended ==
  ASSUME NEW S, NEW e \in S, NEW s \in Seq(S)
  PROVE  /\ Cut(<<e>> \o s) \in Seq(S)
         /\ Range(Cut(<<e>> \o s)) \subseteq {e} \cup Range(s)
         /\ Cut(<<e>> \o s) # << >>
<1>. DEFINE t == <<e>> \o s
            m == IF Len(t) > MaxEvents THEN MaxEvents ELSE Len(t)
<1>1. /\ t \in Seq(S) /\ Len(t) = 1 + Len(s)
      /\ \A i \in 1 .. Len(t) : t[i] = IF i = 1 THEN e ELSE s[i - 1]
  OBVIOUS
<1>2. m \in Nat \ {0} /\ m <= Len(t)
  BY <1>1, FeedAssumption
<1>. HIDE DEF t, m
<1>3. /\ SubSeq(t, 1, m) \in Seq(S) /\ Len(SubSeq(t, 1, m)) = m
      /\ \A i \in 1 .. m : SubSeq(t, 1, m)[i] = t[i]
  BY <1>1, <1>2
<1>4. ASSUME NEW i \in 1 .. m
      PROVE  t[i] \in {e} \cup Range(s)
  <2>1. i # 1 => i - 1 \in DOMAIN s
    BY <1>1, <1>2
  <2>. QED
    BY <1>1, <1>2, <2>1 DEF Range
<1>5. Range(SubSeq(t, 1, m)) \subseteq {e} \cup Range(s)
  BY <1>3, <1>4 DEF Range
<1>6. SubSeq(t, 1, m) # << >>
  BY <1>2, <1>3
<1>. QED
  BY <1>3, <1>5, <1>6 DEF Cut, t, m

LEMMA LargerSeq ==
  ASSUME NEW S, NEW T, S \subseteq T, NEW s \in Seq(S)
  PROVE  s \in Seq(T)
<1>. PICK n \in Nat : s \in [1 .. n -> S]
  OBVIOUS
<1>. s \in [1 .. n -> T]
  OBVIOUS
<1>. QED
  OBVIOUS

\* An event in the buffer has come.
LEMMA EventsNumbered ==
  ASSUME Buffered, NEW event \in Range(events)
  PROVE  event.n \in 1 .. totalReceived
<1>. DEFINE S == [id : Id, type : Type, n : 1 .. totalReceived]
<1>1. PICK i \in DOMAIN events : event = events[i]
  BY DEF Range
<1>2. events \in Seq(S)
  BY DEF Buffered
<1>3. event \in S
  <2>. HIDE DEF S
  <2>. QED
    BY <1>1, <1>2
<1>. QED
  BY <1>3

\* What begins a path's beginning begins the path.
LEMMA PrefixOfPrefix ==
  ASSUME NEW p \in Seq(Nat), NEW q \in Seq(Nat), NEW k \in 0 .. Len(q),
         IsPrefix(p, SubSeq(q, 1, k))
  PROVE  IsPrefix(p, q)
<1>1. /\ SubSeq(q, 1, k) \in Seq(Nat) /\ Len(SubSeq(q, 1, k)) = k
      /\ \A i \in 1 .. k : SubSeq(q, 1, k)[i] = q[i]
  OBVIOUS
<1>2. Len(p) <= k /\ SubSeq(p, 1, Len(p)) = SubSeq(SubSeq(q, 1, k), 1, Len(p))
  BY <1>1 DEF IsPrefix
<1>3. SubSeq(SubSeq(q, 1, k), 1, Len(p)) = SubSeq(q, 1, Len(p))
  BY <1>1, <1>2
<1>. QED
  BY <1>2, <1>3 DEF IsPrefix

\* A row whose payload is hidden, or was just mounted, is in order.
LEMMA FreshRows ==
  /\ Hidden \in [expanded : BOOLEAN, open : SUBSET Payload]
  /\ Unfolded \in [expanded : BOOLEAN, open : SUBSET Payload]
  /\ Hidden.open \subseteq Mounted(Hidden)
  /\ Unfolded.open \subseteq Mounted(Unfolded)
BY FeedAssumption DEF Hidden, Unfolded, Mounted

\* Opening a mounted node, or closing a node with all that is below it, leaves
\* what is open mounted.
LEMMA NodeToggled ==
  ASSUME NEW row \in [expanded : BOOLEAN, open : SUBSET Payload],
         row.open \subseteq Mounted(row),
         NEW p \in Mounted(row),
         NEW next \in [expanded : BOOLEAN, open : SUBSET Payload],
         next.expanded = row.expanded,
         next.open = IF p \in row.open THEN {q \in row.open : ~IsPrefix(p, q)}
                                       ELSE row.open \cup {p}
  PROVE  next.open \subseteq Mounted(next)
<1>. SUFFICES ASSUME NEW q \in next.open, NEW k \in 0 .. Len(q) - 1
              PROVE  SubSeq(q, 1, k) \in next.open
  <2>1. \A q \in next.open : q \in Payload /\ row.expanded
    BY DEF Mounted
  <2>. QED
    BY <2>1 DEF Mounted
<1>1. SubSeq(q, 1, k) \in row.open
  BY DEF Mounted
<1>2. CASE p \in row.open
  <2>1. ~IsPrefix(p, q)
    BY <1>2
  <2>2. p \in Seq(Nat) /\ q \in Seq(Nat) /\ k \in 0 .. Len(q)
    BY FeedAssumption DEF Mounted
  <2>3. ~IsPrefix(p, SubSeq(q, 1, k))
    BY <2>1, <2>2, PrefixOfPrefix
  <2>. QED
    BY <1>1, <1>2, <2>3
<1>3. CASE p \notin row.open
  BY <1>1, <1>3
<1>. QED
  BY <1>2, <1>3

-----------------------------------------------------------------------------
(* The feed: the steps.                                                    *)

LEMMA InitFeed == FeedInit => FeedInv
<1>. SUFFICES ASSUME FeedInit
              PROVE  FeedInv
  OBVIOUS
<1>1. Range(events) = {} /\ DOMAIN rows = {}
  BY DEF FeedInit, Range
<1>2. Buffered
  BY <1>1 DEF FeedInit, Buffered
<1>3. Rendered
  BY <1>1 DEF FeedInit, Rendered
<1>4. InspectionFollowsEvent /\ OpenIsMounted
  BY <1>1 DEF InspectionFollowsEvent, OpenIsMounted
<1>. QED
  BY <1>2, <1>3, <1>4 DEF FeedInv

\* The new event has a key of its own, and so a row of its own.
LEMMA ArrivesStep ==
  ASSUME FeedInv, NEW id \in Id, NEW type \in Type, Arrives(id, type)
  PROVE  FeedInv'
<1>. USE DEF FeedInv
<1>. DEFINE new == [id |-> id, type |-> type, n |-> totalReceived + 1]
            S == [id : Id, type : Type, n : 1 .. totalReceived]
            T == [id : Id, type : Type, n : 1 .. totalReceived + 1]
<1>1. /\ totalReceived' = totalReceived + 1
      /\ events' = Cut(<<new>> \o events)
      /\ rows' = [k \in {KeyOf(event) : event \in Range(events')} |->
                    IF k \in DOMAIN rows THEN rows[k] ELSE Hidden]
      /\ inspected' = inspected \cap {event.n : event \in Range(events')}
  BY DEF Arrives
<1>2. totalReceived \in Nat /\ events \in Seq(S)
  BY DEF Buffered
<1>3. events \in Seq(T) /\ new \in T
  <2>1. S \subseteq T /\ new \in T
    BY <1>2
  <2>. HIDE DEF S, T
  <2>. QED
    BY <1>2, <2>1, LargerSeq
<1>4. /\ events' \in Seq(T) /\ Range(events') \subseteq {new} \cup Range(events)
      /\ events' # << >>
  <2>. HIDE DEF new, T
  <2>1. /\ Cut(<<new>> \o events) \in Seq(T)
        /\ Range(Cut(<<new>> \o events)) \subseteq {new} \cup Range(events)
        /\ Cut(<<new>> \o events) # << >>
    BY <1>3, CutPrepended
  <2>. QED
    BY <1>1, <2>1
<1>5. \A event \in Range(events) : event.n \in 1 .. totalReceived
  BY EventsNumbered
<1>6. new.n = totalReceived + 1 /\ KeyOf(new) = <<id, totalReceived + 1>>
  BY DEF KeyOf
<1>7. KeyOf(new) \notin DOMAIN rows
  <2>1. DOMAIN rows = {KeyOf(event) : event \in Range(events)}
    BY DEF Rendered
  <2>2. \A event \in Range(events) : KeyOf(event) # KeyOf(new)
    BY <1>2, <1>5, <1>6 DEF KeyOf
  <2>. QED
    BY <2>1, <2>2
<1>. HIDE DEF new
<1>8. Buffered'
  <2>1. \A e, f \in Range(events') : e.n = f.n => e = f
    BY <1>2, <1>4, <1>5, <1>6 DEF Buffered
  <2>. QED
    BY <1>1, <1>2, <1>4, <2>1 DEF Buffered
<1>9. /\ \A k \in DOMAIN rows' : rows'[k] = IF k \in DOMAIN rows THEN rows[k] ELSE Hidden
      /\ DOMAIN rows' = {KeyOf(event) : event \in Range(events')}
  BY <1>1
<1>10. Rendered'
  <2>1. \A k \in DOMAIN rows' : rows'[k] \in [expanded : BOOLEAN, open : SUBSET Payload]
    BY <1>9, FreshRows DEF Rendered
  <2>2. rows' \in [{KeyOf(event) : event \in Range(events')}
                     -> [expanded : BOOLEAN, open : SUBSET Payload]]
    BY <1>1, <1>9, <2>1
  <2>3. inspected' \subseteq 1 .. totalReceived'
    <3>1. inspected' \subseteq inspected /\ 1 .. totalReceived \subseteq 1 .. totalReceived'
      BY <1>1, <1>2
    <3>. QED
      BY <3>1 DEF Rendered
  <2>. QED
    BY <2>2, <2>3 DEF Rendered, KeyOf, Range
<1>11. InspectionFollowsEvent'
  <2>. SUFFICES ASSUME NEW event \in Range(events')
                PROVE  rows'[KeyOf(event)].expanded <=> event.n \in inspected'
    BY DEF InspectionFollowsEvent, KeyOf
  <2>1. event.n \in inspected' <=> event.n \in inspected
    BY <1>1
  <2>2. CASE event = new
    <3>1. rows'[KeyOf(event)] = Hidden /\ ~Hidden.expanded
      BY <1>7, <1>9, <2>2 DEF Hidden
    <3>2. event.n \notin inspected
      BY <1>2, <1>6, <2>2 DEF Rendered
    <3>. QED
      BY <2>1, <3>1, <3>2
  <2>3. CASE event \in Range(events)
    <3>1. rows'[KeyOf(event)] = rows[KeyOf(event)]
      BY <1>9, <2>3 DEF Rendered
    <3>. QED
      BY <2>1, <2>3, <3>1 DEF InspectionFollowsEvent
  <2>. QED
    BY <1>4, <2>2, <2>3
<1>12. OpenIsMounted'
  <2>1. \A k \in DOMAIN rows' : rows'[k].open \subseteq Mounted(rows'[k])
    BY <1>9, FreshRows DEF OpenIsMounted
  <2>. QED
    BY <2>1 DEF OpenIsMounted, Mounted
<1>. QED
  BY <1>8, <1>10, <1>11, <1>12

\* An event's row is shown and inspected by nobody else: no other event has its
\* number.
LEMMA ToggleRowStep ==
  ASSUME FeedInv, NEW event \in Range(events), ToggleRow(event)
  PROVE  FeedInv'
<1>. USE DEF FeedInv
<1>. DEFINE key == KeyOf(event)
            next == IF rows[key].expanded THEN Hidden ELSE Unfolded
<1>1. /\ rows' = [rows EXCEPT ![key] = next]
      /\ inspected' = IF event.n \in inspected THEN inspected \ {event.n}
                                               ELSE inspected \cup {event.n}
      /\ UNCHANGED <<events, totalReceived>>
  BY DEF ToggleRow
<1>2. key \in DOMAIN rows /\ rows[key].expanded \in BOOLEAN
  BY DEF Rendered
<1>3. /\ next \in [expanded : BOOLEAN, open : SUBSET Payload]
      /\ next.open \subseteq Mounted(next)
  BY FreshRows
<1>4. next.expanded <=> ~rows[key].expanded
  BY DEF Hidden, Unfolded
<1>. HIDE DEF next
<1>5. /\ DOMAIN rows' = DOMAIN rows
      /\ \A k \in DOMAIN rows : rows'[k] = IF k = key THEN next ELSE rows[k]
  BY <1>1
<1>6. Buffered'
  BY <1>1 DEF Buffered
<1>7. Rendered'
  <2>1. rows' \in [{KeyOf(e) : e \in Range(events)}
                     -> [expanded : BOOLEAN, open : SUBSET Payload]]
    BY <1>1, <1>3 DEF Rendered
  <2>2. event.n \in 1 .. totalReceived
    BY EventsNumbered
  <2>. QED
    BY <1>1, <2>1, <2>2 DEF Rendered, KeyOf
<1>8. InspectionFollowsEvent'
  <2>. SUFFICES ASSUME NEW e \in Range(events)
                PROVE  rows'[KeyOf(e)].expanded <=> e.n \in inspected'
    BY <1>1 DEF InspectionFollowsEvent, KeyOf
  <2>1. KeyOf(e) \in DOMAIN rows
    BY DEF Rendered
  <2>2. KeyOf(e) = key <=> e.n = event.n
    BY DEF Buffered, KeyOf
  <2>3. e.n = event.n => e = event
    BY DEF Buffered
  <2>. QED
    BY <1>1, <1>4, <1>5, <2>1, <2>2, <2>3 DEF InspectionFollowsEvent
<1>9. OpenIsMounted'
  <2>1. \A k \in DOMAIN rows' : rows'[k].open \subseteq Mounted(rows'[k])
    BY <1>3, <1>5 DEF OpenIsMounted
  <2>. QED
    BY <2>1 DEF OpenIsMounted, Mounted
<1>. QED
  BY <1>6, <1>7, <1>8, <1>9

LEMMA ToggleNodeStep ==
  ASSUME FeedInv, NEW event \in Range(events), NEW p \in Payload, ToggleNode(event, p)
  PROVE  FeedInv'
<1>. USE DEF FeedInv
<1>. DEFINE key == KeyOf(event)
            row == rows[key]
            open == IF p \in row.open THEN {q \in row.open : ~IsPrefix(p, q)}
                                      ELSE row.open \cup {p}
            next == [row EXCEPT !.open = open]
<1>1. /\ p \in Mounted(row)
      /\ rows' = [rows EXCEPT ![key] = next]
      /\ UNCHANGED <<events, totalReceived, inspected>>
  BY DEF ToggleNode
<1>2. key \in DOMAIN rows /\ row \in [expanded : BOOLEAN, open : SUBSET Payload]
  BY DEF Rendered
<1>3. open \subseteq Payload
  BY <1>2
<1>4. /\ next \in [expanded : BOOLEAN, open : SUBSET Payload]
      /\ next.expanded = row.expanded /\ next.open = open
  BY <1>2, <1>3
<1>. HIDE DEF next
<1>5. next.open \subseteq Mounted(next)
  <2>1. row.open \subseteq Mounted(row)
    BY <1>2 DEF OpenIsMounted
  <2>. QED
    BY <1>1, <1>2, <1>4, <2>1, NodeToggled
<1>. HIDE DEF open
<1>6. /\ DOMAIN rows' = DOMAIN rows
      /\ \A k \in DOMAIN rows : rows'[k] = IF k = key THEN next ELSE rows[k]
  BY <1>1
<1>7. Buffered' /\ Rendered'
  <2>1. rows' \in [{KeyOf(e) : e \in Range(events)}
                     -> [expanded : BOOLEAN, open : SUBSET Payload]]
    BY <1>1, <1>4 DEF Rendered
  <2>. QED
    BY <1>1, <2>1 DEF Buffered, Rendered, KeyOf
<1>8. InspectionFollowsEvent'
  <2>. SUFFICES ASSUME NEW e \in Range(events)
                PROVE  rows'[KeyOf(e)].expanded <=> e.n \in inspected
    BY <1>1 DEF InspectionFollowsEvent, KeyOf
  <2>1. KeyOf(e) \in DOMAIN rows
    BY DEF Rendered
  <2>2. rows'[KeyOf(e)].expanded = rows[KeyOf(e)].expanded
    BY <1>4, <1>6, <2>1
  <2>. QED
    BY <2>2 DEF InspectionFollowsEvent
<1>9. OpenIsMounted'
  <2>1. \A k \in DOMAIN rows' : rows'[k].open \subseteq Mounted(rows'[k])
    BY <1>5, <1>6 DEF OpenIsMounted
  <2>. QED
    BY <2>1 DEF OpenIsMounted, Mounted
<1>. QED
  BY <1>7, <1>8, <1>9

LEMMA StepFeed == FeedInv /\ [FeedNext]_feedVars => FeedInv'
<1>. SUFFICES ASSUME FeedInv, [FeedNext]_feedVars
              PROVE  FeedInv'
  OBVIOUS
<1>1. CASE \E id \in Id, type \in Type : Arrives(id, type)
  BY <1>1, ArrivesStep
<1>2. CASE \E event \in Range(events) : ToggleRow(event)
  BY <1>2, ToggleRowStep
<1>3. CASE \E event \in Range(events), p \in Payload : ToggleNode(event, p)
  BY <1>3, ToggleNodeStep
<1>4. CASE UNCHANGED feedVars
  BY <1>4 DEF feedVars, FeedInv, Buffered, Rendered, InspectionFollowsEvent,
              OpenIsMounted, KeyOf, Mounted
<1>. QED
  BY <1>1, <1>2, <1>3, <1>4 DEF FeedNext

LEMMA FeedInvHolds == FeedSpec => []FeedInv
BY InitFeed, StepFeed, PTL DEF FeedSpec

-----------------------------------------------------------------------------
(* The feed: the theorems.                                                 *)

\* For every size of the buffer, a payload is on display exactly for the events
\* that the user has opened, although rows move down with every event, events go
\* out at the bottom and senders choose the same id again (EventFeed.tsx).
THEOREM InspectionFollowsEventHolds == FeedSpec => []InspectionFollowsEvent
<1>1. FeedInv => InspectionFollowsEvent
  BY DEF FeedInv
<1>. QED
  BY <1>1, FeedInvHolds, PTL

\* For payloads of any shape, what is closed or hidden leaves nothing open below
\* that would come back unfolded (JsonTree.tsx, EventRow.tsx).
THEOREM OpenIsMountedHolds == FeedSpec => []OpenIsMounted
<1>1. FeedInv => OpenIsMounted
  BY DEF FeedInv
<1>. QED
  BY <1>1, FeedInvHolds, PTL

-----------------------------------------------------------------------------
(* The most common type: the scan, one entry after the other.              *)

Better(b, i) ==
  IF FirstMet(i) /\ Count(events[i].type) > b.count
  THEN [type |-> events[i].type, count |-> Count(events[i].type)]
  ELSE b

\* g is the scan of the first k events.
Scans(g, k) == g = [i \in 0 .. k |-> IF i = 0 THEN NoType ELSE Better(g[i - 1], i)]

Scan == CHOOSE g : Scans(g, Len(events))

\* There is such a scan, for buffers of any length.
LEMMA ScanExists ==
  ASSUME Buffered
  PROVE  Scans(Scan, Len(events)) /\ MostCommon = Scan[Len(events)]
<1>1. Len(events) \in Nat
  BY DEF Buffered
<1>. DEFINE T == {k \in 0 .. Len(events) : \E g : Scans(g, k)}
<1>2. 0 \in T
  <2>1. Scans([i \in 0 .. 0 |-> NoType], 0)
    BY DEF Scans
  <2>. QED
    BY <1>1, <2>1
<1>3. ASSUME NEW k \in 0 .. Len(events) - 1, k \in T
      PROVE  k + 1 \in T
  <2>1. PICK g : Scans(g, k)
    BY <1>3
  <2>. DEFINE h == [i \in 0 .. k + 1 |-> IF i = k + 1 THEN Better(g[k], k + 1) ELSE g[i]]
  <2>2. k \in Nat /\ k + 1 \in 0 .. Len(events)
    BY <1>1
  <2>3. \A i \in 0 .. k : h[i] = IF i = 0 THEN NoType ELSE Better(g[i - 1], i)
    BY <2>1, <2>2 DEF Scans
  <2>4. \A i \in 1 .. k + 1 : h[i - 1] = g[i - 1]
    BY <2>2
  <2>5. ASSUME NEW i \in 0 .. k + 1
        PROVE  h[i] = IF i = 0 THEN NoType ELSE Better(h[i - 1], i)
    <3>1. CASE i = k + 1
      BY <2>2, <2>4, <3>1
    <3>2. CASE i \in 0 .. k
      BY <2>2, <2>3, <2>4, <3>2
    <3>. QED
      BY <2>2, <3>1, <3>2
  <2>6. Scans(h, k + 1)
    <3>1. h = [i \in 0 .. k + 1 |-> h[i]]
      OBVIOUS
    <3>. HIDE DEF h
    <3>. QED
      BY <2>5, <3>1 DEF Scans
  <2>. QED
    BY <2>2, <2>6
<1>4. Len(events) \in T
  <2>. HIDE DEF T
  <2>1. \A i \in 0 .. Len(events) : i \in T
    BY <1>1, <1>2, <1>3, UpTo
  <2>2. Len(events) \in 0 .. Len(events)
    BY <1>1
  <2>. QED
    BY <2>1, <2>2
<1>5. Scans(Scan, Len(events))
  BY <1>4 DEF Scan
<1>6. MostCommon = Scan[Len(events)]
  BY DEF MostCommon, Scan, Scans, Better
<1>. QED
  BY <1>5, <1>6

LEMMA Counting ==
  ASSUME Buffered
  PROVE  /\ \A type : Count(type) \in Nat
         /\ \A i \in DOMAIN events : Count(events[i].type) > 0
<1>1. DOMAIN events = 1 .. Len(events) /\ Len(events) \in Nat
  BY DEF Buffered
<1>2. IsFiniteSet(DOMAIN events)
  BY <1>1, FS_Interval
<1>3. ASSUME NEW type
      PROVE  /\ IsFiniteSet({i \in DOMAIN events : events[i].type = type})
             /\ Count(type) \in Nat
  <2>. DEFINE S == {i \in DOMAIN events : events[i].type = type}
  <2>1. S \subseteq DOMAIN events
    OBVIOUS
  <2>2. IsFiniteSet(S) /\ Cardinality(S) \in Nat
    BY <1>2, <2>1, FS_Subset, FS_CardinalityType
  <2>. QED
    BY <2>2 DEF Count
<1>4. ASSUME NEW i \in DOMAIN events
      PROVE  Count(events[i].type) > 0
  <2>. DEFINE S == {j \in DOMAIN events : events[j].type = events[i].type}
  <2>1. IsFiniteSet(S) /\ S # {} /\ Count(events[i].type) = Cardinality(S)
    BY <1>3 DEF Count
  <2>2. Cardinality(S) # 0 /\ Cardinality(S) \in Nat
    <3>. HIDE DEF S
    <3>. QED
      BY <2>1, FS_EmptySet, FS_CardinalityType
  <2>. QED
    BY <2>1, <2>2
<1>. QED
  BY <1>3, <1>4

\* What the scan holds after i events: the type of the event at j, which none of
\* those met so far outnumbers and none that came later equals.
Winner(i, j) ==
  /\ j \in 1 .. i /\ FirstMet(j)
  /\ Scan[i] = [type |-> events[j].type, count |-> Count(events[j].type)]
  /\ \A k \in 1 .. i : FirstMet(k) =>
       \/ Count(events[k].type) < Count(events[j].type)
       \/ Count(events[k].type) = Count(events[j].type) /\ j <= k

LEMMA ScanFinds ==
  ASSUME Buffered
  PROVE  \A i \in 1 .. Len(events) : \E j : Winner(i, j)
<1>. DEFINE n == Len(events)
            T == {i \in 0 .. n : i # 0 => \E j : Winner(i, j)}
<1>1. n \in Nat /\ DOMAIN events = 1 .. n
  BY DEF Buffered
<1>. HIDE DEF n
<1>2. \A i \in 0 .. n : Scan[i] = IF i = 0 THEN NoType ELSE Better(Scan[i - 1], i)
  BY ScanExists DEF Scans, n
<1>3. 0 \in T
  BY <1>1
<1>4. ASSUME NEW i \in 0 .. n - 1, i \in T
      PROVE  i + 1 \in T
  <2>1. i \in Nat /\ i + 1 \in 1 .. n /\ (i + 1) - 1 = i
    BY <1>1
  <2>. DEFINE new == [type |-> events[i + 1].type, count |-> Count(events[i + 1].type)]
  <2>2. Scan[i + 1] = IF FirstMet(i + 1) /\ Count(events[i + 1].type) > Scan[i].count
                      THEN new ELSE Scan[i]
    BY <1>2, <2>1 DEF Better
  <2>3. /\ \A type : Count(type) \in Nat
        /\ Count(events[i + 1].type) > 0
    BY <1>1, <2>1, Counting
  <2>4. \A k \in 1 .. i + 1 : k \in 1 .. i \/ k = i + 1
    BY <2>1
  <2>5. CASE i = 0
    <3>1. Scan[i].count = 0
      BY <1>1, <1>2, <2>5 DEF NoType
    <3>2. FirstMet(i + 1)
      BY <2>5 DEF FirstMet
    <3>3. Scan[i + 1] = new
      BY <2>2, <2>3, <3>1, <3>2
    <3>4. Winner(i + 1, i + 1)
      BY <2>1, <2>4, <2>5, <3>2, <3>3 DEF Winner
    <3>. QED
      BY <2>1, <3>4
  <2>6. CASE i # 0
    <3>1. PICK j : Winner(i, j)
      BY <1>4, <2>6
    <3>2. /\ j \in 1 .. i /\ FirstMet(j)
          /\ Scan[i] = [type |-> events[j].type, count |-> Count(events[j].type)]
          /\ \A k \in 1 .. i : FirstMet(k) =>
               \/ Count(events[k].type) < Count(events[j].type)
               \/ Count(events[k].type) = Count(events[j].type) /\ j <= k
      BY <3>1 DEF Winner
    <3>3. Scan[i].count = Count(events[j].type)
      BY <3>2
    <3>4. CASE FirstMet(i + 1) /\ Count(events[i + 1].type) > Count(events[j].type)
      <4>1. Scan[i + 1] = new
        BY <2>2, <3>3, <3>4
      <4>2. \A k \in 1 .. i : FirstMet(k) =>
              Count(events[k].type) < Count(events[i + 1].type)
        BY <2>3, <3>2, <3>4
      <4>3. Winner(i + 1, i + 1)
        BY <2>1, <2>3, <2>4, <3>4, <4>1, <4>2 DEF Winner
      <4>. QED
        BY <2>1, <4>3
    <3>5. CASE ~(FirstMet(i + 1) /\ Count(events[i + 1].type) > Count(events[j].type))
      <4>1. Scan[i + 1] = Scan[i]
        BY <2>2, <3>3, <3>5
      <4>2. FirstMet(i + 1) =>
              \/ Count(events[i + 1].type) < Count(events[j].type)
              \/ Count(events[i + 1].type) = Count(events[j].type) /\ j <= i + 1
        BY <2>1, <2>3, <3>2, <3>5
      <4>3. j \in 1 .. i + 1
        BY <2>1, <3>2
      <4>4. Winner(i + 1, j)
        BY <2>4, <3>2, <4>1, <4>2, <4>3 DEF Winner
      <4>. QED
        BY <2>1, <4>4
    <3>. QED
      BY <3>4, <3>5
  <2>. QED
    BY <2>5, <2>6
<1>5. \A i \in 0 .. n : i \in T
  <2>. HIDE DEF T
  <2>. QED
    BY <1>1, <1>3, <1>4, UpTo
<1>. QED
  BY <1>1, <1>5 DEF n

\* A type is first met in one place only, and in one place at least.
LEMMA OnePlace ==
  ASSUME Buffered, NEW i \in DOMAIN events, NEW k \in DOMAIN events,
         events[i].type = events[k].type, FirstMet(i), FirstMet(k)
  PROVE  i = k
<1>1. DOMAIN events = 1 .. Len(events) /\ Len(events) \in Nat
  BY DEF Buffered
<1>2. ~(i < k) /\ ~(k < i)
  BY <1>1 DEF FirstMet
<1>. QED
  BY <1>1, <1>2

LEMMA FirstPlace ==
  ASSUME Buffered, NEW i \in DOMAIN events
  PROVE  \E f \in DOMAIN events :
           /\ events[f].type = events[i].type /\ FirstMet(f)
           /\ f = CHOOSE k \in DOMAIN events : events[k].type = events[i].type /\ FirstMet(k)
<1>. DEFINE S == {k \in DOMAIN events : events[k].type = events[i].type}
<1>1. DOMAIN events = 1 .. Len(events) /\ Len(events) \in Nat
  BY DEF Buffered
<1>2. PICK f \in S : \A k \in S : f <= k
  <2>1. S \subseteq Nat /\ S # {}
    BY <1>1
  <2>. HIDE DEF S
  <2>. QED
    BY <2>1, LeastOf
<1>3. FirstMet(f)
  <2>. SUFFICES ASSUME NEW j \in 1 .. f - 1, events[j].type = events[f].type
                PROVE  FALSE
    BY DEF FirstMet
  <2>1. j \in S /\ j < f
    BY <1>1
  <2>. QED
    BY <1>1, <1>2, <2>1
<1>4. \A k \in S : FirstMet(k) => k = f
  BY <1>2, <1>3, OnePlace
<1>. QED
  BY <1>3, <1>4

\* For buffers of any size, the card shows the type that no other outnumbers, and of
\* equals the one whose newest event is the last that came (useEventMetrics.ts).
THEOREM MostCommonTrueHolds == FeedSpec => []MostCommonTrue
<1>1. ASSUME FeedInv
      PROVE  MostCommonTrue
  <2>. DEFINE n == Len(events)
              newest(type) ==
                CHOOSE i \in DOMAIN events : events[i].type = type /\ FirstMet(i)
  <2>1. Buffered /\ n \in Nat /\ DOMAIN events = 1 .. n /\ (n = 0 <=> totalReceived = 0)
    BY <1>1 DEF FeedInv, Buffered
  <2>2. totalReceived \in Nat
    BY <2>1 DEF Buffered
  <2>3. CASE n = 0
    <3>1. MostCommon = NoType
      BY <2>1, <2>3, ScanExists DEF Scans
    <3>2. ~InLiveBuffer
      BY <3>1 DEF InLiveBuffer, NoType
    <3>. QED
      BY <2>1, <2>2, <2>3, <3>2 DEF MostCommonTrue
  <2>4. CASE n # 0
    <3>1. PICK j : Winner(n, j)
      BY <2>1, <2>4, ScanFinds
    <3>2. /\ j \in DOMAIN events /\ FirstMet(j)
          /\ MostCommon.type = events[j].type
          /\ MostCommon.count = Count(events[j].type)
      BY <2>1, <3>1, ScanExists DEF Winner
    <3>3. InLiveBuffer /\ totalReceived > 0
      BY <2>1, <2>2, <2>4, <3>2, Counting DEF InLiveBuffer
    <3>4. newest(MostCommon.type) = j
      <4>1. PICK f \in DOMAIN events : /\ events[f].type = events[j].type /\ FirstMet(f)
                                       /\ f = newest(events[j].type)
        BY <2>1, <3>2, FirstPlace
      <4>2. f = j
        BY <2>1, <3>2, <4>1, OnePlace
      <4>. QED
        BY <3>2, <4>1, <4>2
    <3>5. ASSUME NEW type \in {events[i].type : i \in DOMAIN events} \ {MostCommon.type}
          PROVE  \/ Count(type) < MostCommon.count
                 \/ /\ Count(type) = MostCommon.count
                    /\ newest(MostCommon.type) < newest(type)
      <4>1. PICK i \in DOMAIN events : type = events[i].type
        OBVIOUS
      <4>2. PICK f \in DOMAIN events : /\ events[f].type = type /\ FirstMet(f)
                                       /\ f = newest(type)
        BY <2>1, <4>1, FirstPlace
      <4>3. f # j /\ f \in Nat /\ j \in Nat
        BY <2>1, <3>2, <4>2
      <4>4. \/ Count(type) < Count(events[j].type)
            \/ Count(type) = Count(events[j].type) /\ j <= f
        BY <2>1, <3>1, <4>2 DEF Winner
      <4>. HIDE DEF newest
      <4>. QED
        BY <3>2, <3>4, <4>2, <4>3, <4>4
    <3>. QED
      BY <3>2, <3>3, <3>5 DEF MostCommonTrue
  <2>. QED
    BY <2>3, <2>4
<1>. QED
  BY <1>1, FeedInvHolds, PTL

-----------------------------------------------------------------------------
(* The chart. A product of two unknowns gets a name before it is used.     *)

\* What is hovered is the bucket at the pointer; buckets come all at once.
ChartInv ==
  /\ Index \in {{}, 0 .. Points - 1} /\ \A b \in Index : buckets[b] \in Counts
  /\ hover # None => hover \in Index /\ pointer \in Pointer /\ hover = IndexAt(pointer)

LEMMA Products ==
  ASSUME NEW a \in Int, NEW b \in Int, NEW c \in Int
  PROVE  /\ a * b \in Int /\ a * b = b * a
         /\ a * (b + c) = a * b + a * c
         /\ a * (b - c) = a * b - a * c
         /\ a * (b * c) = (a * b) * c
OBVIOUS

\* The code's two comparisons keep the index in the buckets.
LEMMA IndexInRange == \A px \in Pointer : IndexAt(px) \in 0 .. Points - 1
<1>. SUFFICES ASSUME NEW px \in Pointer
              PROVE  IndexAt(px) \in 0 .. Points - 1
  OBVIOUS
<1>. DEFINE dividend == Points * (px * width - padLeft * RectWidth)
            divisor == RectWidth * innerW
<1>1. px \in Nat /\ Points \in Nat \ {0} /\ RectWidth \in Nat \ {0}
  BY ChartAssumption
<1>2. px * width - padLeft * RectWidth \in Int /\ divisor \in Nat \ {0}
  BY <1>1 DEF width, padLeft, innerW
<1>3. dividend \in Int
  BY <1>1, <1>2, Products
<1>. HIDE DEF dividend, divisor
<1>4. dividend \div divisor \in Int
  BY <1>2, <1>3
<1>5. IndexAt(px) = MathMin(Points - 1, MathMax(0, dividend \div divisor))
  BY DEF IndexAt, dividend, divisor
<1>. QED
  BY <1>1, <1>4, <1>5 DEF MathMin, MathMax

\* In an element no wider than the drawing there are no margins: the edges of a hit
\* target are those between which onMove selects the bucket.
LEMMA HitIsSelected ==
  ASSUME RectWidth * height <= RectHeight * width,
         NEW px \in Pointer, NEW i \in 0 .. Points - 1, OverTarget(Pixels(px), i)
  PROVE  IndexAt(px) = i
<1>1. /\ px \in Nat /\ i \in Nat /\ i <= Points - 1
      /\ Points \in Nat \ {0} /\ RectWidth \in Nat \ {0}
  BY ChartAssumption
<1>2. PICK a \in Int : a = Points * RectWidth
  BY <1>1, Products
<1>3. PICK b \in Int : b = RectWidth * i
  BY <1>1, Products
<1>4. PICK c \in Int : c = Points * px
  BY <1>1, Products
<1>5. num = RectWidth /\ den = 360 /\ width = 360 /\ padLeft = 36 /\ innerW = 312
  BY DEF num, den, width, padLeft, innerW
<1>6. Pixels(px) = 720 * c
  <2>1. Pixels(px) = (720 * Points) * px
    BY <1>5 DEF Pixels
  <2>. QED
    BY <1>1, <1>4, <2>1, Products
<1>7. /\ ScreenLeft(i) = 72 * a + 624 * b
      /\ ScreenLeft(i + 1) = 72 * a + 624 * b + 624 * RectWidth
  <2>1. Points * (360 * RectWidth - RectWidth * 360) = 0
    BY <1>1
  <2>2. RectWidth * HitLeft(i) = 36 * a + 312 * b
    <3>1. HitLeft(i) = Points * 36 + i * 312
      BY <1>5 DEF HitLeft
    <3>2. RectWidth * (Points * 36) = 36 * a
      BY <1>1, <1>2, Products
    <3>3. RectWidth * (i * 312) = 312 * b
      BY <1>1, <1>3, Products
    <3>. QED
      BY <1>1, <3>1, <3>2, <3>3, Products
  <2>3. RectWidth * HitLeft(i + 1) = 36 * a + 312 * b + 312 * RectWidth
    <3>1. HitLeft(i + 1) = HitLeft(i) + 312 /\ HitLeft(i) \in Int
      BY <1>1, <1>5 DEF HitLeft
    <3>2. RectWidth * (HitLeft(i) + 312) = RectWidth * HitLeft(i) + RectWidth * 312
      BY <1>1, <3>1, Products
    <3>. QED
      BY <1>1, <2>2, <3>1, <3>2
  <2>4. \A j \in Nat : HitLeft(j) \in Int /\ (2 * RectWidth) * HitLeft(j) = 2 * (RectWidth * HitLeft(j))
    <3>1. \A j \in Nat : HitLeft(j) \in Int
      BY <1>1, <1>5 DEF HitLeft
    <3>. QED
      BY <1>1, <3>1, Products
  <2>. QED
    BY <1>1, <1>5, <2>1, <2>2, <2>3, <2>4 DEF ScreenLeft
<1>8. 312 * b <= 360 * c - 36 * a /\ 360 * c - 36 * a < 312 * b + 312 * RectWidth
  BY <1>1, <1>6, <1>7 DEF OverTarget
<1>9. Points * (px * 360 - 36 * RectWidth) = 360 * c - 36 * a
  <2>1. Points * (px * 360) = 360 * c /\ Points * (36 * RectWidth) = 36 * a
    BY <1>1, <1>2, <1>4, Products
  <2>. QED
    BY <1>1, <2>1, Products
<1>10. (360 * c - 36 * a) \div (RectWidth * 312) = i
  <2>1. b \in Nat
    BY <1>1, <1>3, Products
  <2>2. i * (RectWidth * 312) = 312 * b
    BY <1>1, <1>3, Products
  <2>3. 360 * c - 36 * a \in Nat /\ RectWidth * 312 \in Nat \ {0}
    BY <1>1, <1>8, <2>1
  <2>. QED
    BY <1>1, <1>8, <2>2, <2>3, Quotient
<1>. QED
  BY <1>1, <1>5, <1>9, <1>10 DEF IndexAt, MathMin, MathMax

\* The percentage of the tooltip is the place of the marker.
LEMMA TooltipOverMarker ==
  ASSUME RectWidth * height <= RectHeight * width, hover \in Nat
  PROVE  TooltipPixels = MarkerPixels
<1>1. RectWidth \in Nat /\ Points \in Nat
  BY ChartAssumption
<1>2. num = RectWidth /\ den = width /\ width = 360
  BY DEF num, den, width
<1>3. PICK x \in Nat : x = PointX(hover)
  BY <1>1 DEF PointX, padLeft, innerW, width
<1>4. (360 * x) \div 360 = x
  BY <1>3
<1>5. Points * (360 * RectWidth - RectWidth * 360) = 0
  BY <1>1
<1>6. RectWidth * x \in Int
  BY <1>1, Products
<1>. QED
  BY <1>2, <1>3, <1>4, <1>5, <1>6 DEF TooltipPixels, MarkerPixels

LEMMA PowersAre ==
  {10 ^ e : e \in 0 .. 8}
    = {1, 10, 100, 1000, 10000, 100000, 1000000, 10000000, 100000000}
<1>1. \A e : e \in 0 .. 8 <=> e \in {0, 1, 2, 3, 4, 5, 6, 7, 8}
  BY SMT
<1>2. /\ 10 ^ 0 = 1 /\ 10 ^ 1 = 10 /\ 10 ^ 2 = 100 /\ 10 ^ 3 = 1000 /\ 10 ^ 4 = 10000
      /\ 10 ^ 5 = 100000 /\ 10 ^ 6 = 1000000 /\ 10 ^ 7 = 10000000 /\ 10 ^ 8 = 100000000
  BY SMT
<1>. QED
  BY SMT, <1>1, <1>2

\* A power of ten, the next one, and the one below a number.
LEMMA PowerFacts ==
  /\ Powers \subseteq Nat \ {0} /\ 1 \in Powers
  /\ \A p, q \in Powers : p < q => 10 * p <= q
  /\ \A p \in Powers : 10 * p \in Powers \/ 5 * p = MaxCount
  /\ \A v \in 1 .. MaxCount : \E p \in Powers : p <= v /\ v < 10 * p
<1>1. MaxCount = 500000000
  BY SMT DEF MaxCount
<1>2. Powers = {1, 10, 100, 1000, 10000, 100000, 1000000, 10000000, 100000000}
  BY SMT, PowersAre DEF Powers
<1>3. Powers \subseteq Nat \ {0} /\ 1 \in Powers
  BY SMT, <1>2
<1>4. \A p, q \in Powers : p < q => 10 * p <= q
  BY SMT, <1>2
<1>5. \A p \in Powers : 10 * p \in Powers \/ 5 * p = MaxCount
  BY SMT, <1>1, <1>2
<1>6. \A p \in Powers : p = 1 \/ \E q \in Powers : q < p /\ p = 10 * q
  BY SMT, <1>2
<1>7. ASSUME NEW v \in 1 .. MaxCount
      PROVE  \E p \in Powers : p <= v /\ v < 10 * p
  <2>. DEFINE above == {p \in Powers : v < 10 * p}
  <2>1. above \subseteq Nat /\ above # {}
    <3>1. PICK p \in Powers : 5 * p = MaxCount
      <4>1. 10 ^ 8 \in Powers
        BY DEF Powers
      <4>. QED
        BY <4>1 DEF MaxCount
    <3>2. MaxCount \in Nat /\ p \in Nat \ {0}
      BY <1>3 DEF MaxCount
    <3>3. v < 10 * p
      BY <3>1, <3>2
    <3>. QED
      BY <1>3, <3>3
  <2>2. PICK p \in above : \A q \in above : p <= q
    <3>. HIDE DEF above
    <3>. QED
      BY <2>1, LeastOf
  <2>3. ASSUME NEW q \in Powers, q < p
        PROVE  10 * q <= v
    <3>1. q \notin above /\ q \in Nat /\ p \in Nat /\ v \in Nat
      BY <1>3, <2>2, <2>3
    <3>. QED
      BY <3>1
  <2>4. p <= v
    BY <1>6, <2>3
  <2>. QED
    BY <2>2, <2>4
<1>. QED
  BY <1>3, <1>4, <1>5, <1>7

\* The steps are these multiples of the powers.
LEMMA StepsAre ==
  /\ Steps \subseteq Nat \ {0}
  /\ \A s : s \in Steps <=> \E p \in Powers : s \in {p, 2 * p, 5 * p}
<1>1. \A s : s \in Steps <=> \E p \in Powers : s \in {p, 2 * p, 5 * p}
  BY DEF Steps
<1>2. ASSUME NEW p \in Powers, NEW s \in {p, 2 * p, 5 * p}
      PROVE  s \in Nat \ {0}
  <2>1. p \in Nat \ {0}
    BY PowerFacts
  <2>. QED
    BY <2>1
<1>. QED
  BY <1>1, <1>2

\* A member that is no greater than any other is the least.
LEMMA LeastIs ==
  ASSUME NEW T, T \subseteq Nat, NEW x \in T, \A y \in T : x <= y
  PROVE  Min(T) = x
<1>. DEFINE m == Min(T)
<1>1. m \in T /\ \A y \in T : m <= y
  BY DEF Min
<1>. HIDE DEF m
<1>2. m <= x /\ x <= m /\ m \in Nat /\ x \in Nat
  BY <1>1
<1>. QED
  BY <1>2 DEF m

\* niceMax gives the least step that is enough.
LEMMA NiceMaxIsLeast ==
  ASSUME NEW v \in 1 .. MaxCount
  PROVE  /\ NiceMax(v) \in Steps /\ v <= NiceMax(v)
         /\ \A s \in Steps : v <= s => NiceMax(v) <= s
<1>. MaxCount \in Nat /\ v \in Nat
  BY DEF MaxCount
<1>1. CASE v <= 1
  <2>1. NiceMax(v) = 1 /\ v = 1
    BY <1>1 DEF NiceMax
  <2>. QED
    BY <2>1, StepsAre, PowerFacts
<1>2. CASE v > 1
  <2>. DEFINE base == CHOOSE b \in Powers : b <= v /\ v < 10 * b
              enough == {nice \in {1, 2, 5, 10} : v <= nice * base}
  <2>1. base \in Powers /\ base <= v /\ v < 10 * base
    BY PowerFacts
  <2>2. NiceMax(v) = base * Min(enough)
    BY <1>2 DEF NiceMax
  <2>. HIDE DEF base
  <2>3. base \in Nat \ {0}
    BY <2>1, PowerFacts
  <2>4. \A nice : nice \in enough <=> \/ nice = 1 /\ v <= base
                                      \/ nice = 2 /\ v <= 2 * base
                                      \/ nice = 5 /\ v <= 5 * base
                                      \/ nice = 10
    BY <2>1, <2>3
  <2>. HIDE DEF enough
  <2>5. enough \subseteq Nat /\ enough # {}
    BY <2>4
  <2>6. PICK nice \in enough : \A n \in enough : nice <= n
    BY <2>5, LeastOf
  <2>7. Min(enough) = nice
    BY <2>5, <2>6, LeastIs
  <2>8. nice \in {1, 2, 5, 10} /\ NiceMax(v) = nice * base
    BY <2>2, <2>3, <2>4, <2>7
  <2>9. /\ v <= nice * base
        /\ v <= base => nice = 1
        /\ v <= 2 * base => nice <= 2
        /\ v <= 5 * base => nice <= 5
    BY <2>1, <2>3, <2>4, <2>6, <2>8
  <2>10. NiceMax(v) \in Steps
    <3>1. CASE nice = 10
      <4>1. 5 * base # MaxCount
        BY <2>3, <2>9, <3>1
      <4>. QED
        BY <2>1, <2>8, <3>1, <4>1, PowerFacts, StepsAre
    <3>2. CASE nice \in {1, 2, 5}
      BY <2>1, <2>3, <2>8, <3>2, StepsAre
    <3>. QED
      BY <2>8, <3>1, <3>2
  <2>11. ASSUME NEW s \in Steps, v <= s
         PROVE  NiceMax(v) <= s
    <3>1. PICK p \in Powers : s \in {p, 2 * p, 5 * p}
      BY StepsAre
    <3>2. /\ p \in Nat \ {0}
          /\ p < base => 10 * p <= base
          /\ base < p => 10 * base <= p
      BY <2>1, PowerFacts
    <3>. QED
      BY <2>1, <2>3, <2>8, <2>9, <2>11, <3>1, <3>2
  <2>. QED
    BY <2>8, <2>9, <2>10, <2>11
<1>. QED
  BY <1>1, <1>2

LEMMA RawMaxIsGreatest ==
  ASSUME ChartInv
  PROVE  LET V == {1} \cup {buckets[b] : b \in Index}
         IN  RawMax \in 1 .. MaxCount /\ RawMax \in V /\ \A v \in V : v <= RawMax
<1>. DEFINE V == {1} \cup {buckets[b] : b \in Index}
<1>1. MaxCount \in Nat /\ 1 <= MaxCount
  BY DEF MaxCount
<1>2. V \subseteq 0 .. MaxCount
  <2>1. \A b \in Index : buckets[b] \in 0 .. MaxCount
    BY ChartAssumption DEF ChartInv
  <2>2. 1 \in 0 .. MaxCount
    BY <1>1
  <2>. QED
    BY <2>1, <2>2
<1>3. V # {} /\ RawMax = Max(V) /\ 1 \in V
  BY DEF RawMax
<1>. HIDE DEF V
<1>4. Max(V) \in V /\ \A v \in V : v <= Max(V)
  <2>1. V \subseteq Nat /\ \A v \in V : v <= MaxCount
    BY <1>1, <1>2
  <2>. QED
    BY <1>1, <1>3, <2>1, GreatestOf
<1>5. RawMax \in 1 .. MaxCount
  <2>1. RawMax \in 0 .. MaxCount /\ 1 <= RawMax
    BY <1>2, <1>3, <1>4
  <2>. QED
    BY <1>1, <2>1
<1>6. RawMax \in V /\ \A v \in V : v <= RawMax
  BY <1>3, <1>4
<1>. QED
  BY <1>5, <1>6 DEF V

LEMMA InitChart == ChartInit => ChartInv
BY DEF ChartInit, ChartInv, Index

LEMMA StepChart == ChartInv /\ [ChartNext]_chartVars => ChartInv'
<1>. SUFFICES ASSUME ChartInv, [ChartNext]_chartVars
              PROVE  ChartInv'
  OBVIOUS
<1>1. CASE NewBuckets
  BY <1>1 DEF NewBuckets, ChartInv, Index, IndexAt
<1>2. CASE \E px \in Pointer : OnMove(px)
  BY <1>2, IndexInRange DEF OnMove, ChartInv, Index, IndexAt
<1>3. CASE OnMouseLeave
  BY <1>3 DEF OnMouseLeave, ChartInv, Index
<1>4. CASE UNCHANGED chartVars
  BY <1>4 DEF chartVars, ChartInv, Index, IndexAt
<1>. QED
  BY <1>1, <1>2, <1>3, <1>4 DEF ChartNext

LEMMA ChartInvHolds == ChartSpec => []ChartInv
BY InitChart, StepChart, PTL DEF ChartSpec

\* For any number of buckets and any place of the pointer: in an element no wider
\* than its drawing the tooltip is that of the bucket whose hit target is under
\* the pointer, and it stands over the marker (VolumeChart.tsx).
THEOREM TooltipAtPointerHolds ==
  ASSUME RectWidth * height <= RectHeight * width
  PROVE  ChartSpec => []TooltipAtPointer
<1>1. ASSUME ChartInv
      PROVE  TooltipAtPointer
  <2>1. hover \in Index \cup {None}
    BY <1>1 DEF ChartInv
  <2>2. ASSUME NEW i \in Index, hover # None, OverTarget(Pixels(pointer), i)
        PROVE  hover = i /\ TooltipPixels = MarkerPixels
    <3>1. /\ i \in 0 .. Points - 1 /\ hover \in 0 .. Points - 1
          /\ pointer \in Pointer /\ hover = IndexAt(pointer)
      BY <1>1, <2>2 DEF ChartInv
    <3>. QED
      BY <2>2, <3>1, HitIsSelected, TooltipOverMarker
  <2>. QED
    BY <2>1, <2>2 DEF TooltipAtPointer
<1>. QED
  BY <1>1, ChartInvHolds, PTL

\* For every number of buckets, the scale of the chart is the least step that holds
\* them all (niceMax of VolumeChart.tsx).
THEOREM ScaleFitsHolds == ChartSpec => []ScaleFits
<1>1. ASSUME ChartInv
      PROVE  ScaleFits
  <2>. DEFINE V == {1} \cup {buckets[b] : b \in Index}
              fit == {s \in Steps : \A b \in Index : buckets[b] <= s}
  <2>1. RawMax \in 1 .. MaxCount /\ RawMax \in V /\ \A v \in V : v <= RawMax
    BY <1>1, RawMaxIsGreatest
  <2>2. Scale \in Steps /\ RawMax <= Scale /\ \A s \in Steps : RawMax <= s => Scale <= s
    BY <2>1, NiceMaxIsLeast DEF Scale
  <2>3. Steps \subseteq Nat \ {0} /\ MaxCount \in Nat
    BY StepsAre DEF MaxCount
  <2>4. \A b \in Index : buckets[b] \in Nat /\ buckets[b] <= RawMax
    <3>1. \A b \in Index : buckets[b] \in 0 .. MaxCount
      BY <1>1, ChartAssumption DEF ChartInv
    <3>. QED
      BY <2>1, <2>3, <3>1
  <2>5. Scale \in fit
    BY <2>1, <2>2, <2>3, <2>4
  <2>6. ASSUME NEW s \in fit
        PROVE  Scale <= s
    <3>1. 1 <= s /\ \A b \in Index : buckets[b] <= s
      BY <2>3
    <3>2. RawMax <= s
      BY <2>1, <3>1
    <3>. QED
      BY <2>2, <3>2
  <2>7. fit \subseteq Nat
    BY <2>3
  <2>8. Min(fit) = Scale
    <3>. HIDE DEF fit
    <3>. QED
      BY <2>5, <2>6, <2>7, LeastIs
  <2>. QED
    BY <2>8 DEF ScaleFits
<1>. QED
  BY <1>1, ChartInvHolds, PTL

\* A tick is its height rounded to the nearest number: ticks never fall, the lowest is
\* zero and the highest the scale.
LEMMA TicksRise ==
  ASSUME Scale \in Nat
  PROVE  /\ \A q \in 0 .. 4 : /\ TickValue(q) \in Nat
                              /\ 8 * TickValue(q) <= 2 * (Scale * q) + 4
                              /\ 2 * (Scale * q) - 4 < 8 * TickValue(q)
         /\ TickValue(0) = 0 /\ TickValue(4) = Scale
         /\ \A p, q \in 0 .. 4 : p < q => TickValue(p) <= TickValue(q)
<1>. DEFINE s == Scale
<1>1. s \in Nat
  OBVIOUS
<1>. HIDE DEF s
<1>2. TickValue(0) = 4 \div 8 /\ TickValue(1) = (2 * s + 4) \div 8
      /\ TickValue(2) = (4 * s + 4) \div 8 /\ TickValue(3) = (6 * s + 4) \div 8
      /\ TickValue(4) = (8 * s + 4) \div 8
  BY <1>1 DEF TickValue, s
<1>3. \A q \in 0 .. 4 : q \in {0, 1, 2, 3, 4}
  OBVIOUS
<1>4. /\ s * 0 = 0 /\ s * 1 = s /\ s * 2 = 2 * s
      /\ s * 3 = 3 * s /\ s * 4 = 4 * s
  BY <1>1
<1>5. \A q \in 0 .. 4 : /\ TickValue(q) \in Nat
                        /\ 8 * TickValue(q) <= 2 * (s * q) + 4
                        /\ 2 * (s * q) - 4 < 8 * TickValue(q)
  BY <1>1, <1>2, <1>3, <1>4
<1>6. TickValue(0) = 0 /\ TickValue(4) = s
  BY <1>1, <1>2
<1>7. /\ TickValue(0) <= TickValue(1) /\ TickValue(1) <= TickValue(2)
      /\ TickValue(2) <= TickValue(3) /\ TickValue(3) <= TickValue(4)
  BY <1>1, <1>2
<1>8. \A p, q \in 0 .. 4 : p < q => TickValue(p) <= TickValue(q)
  BY <1>3, <1>5, <1>7
<1>. QED
  BY <1>5, <1>6, <1>8 DEF s

\* Each number that a tick has is left in place, at the lowest tick that has it.
LEMMA NumberKept ==
  ASSUME NEW q \in 0 .. 4
  PROVE  \E p \in YTicks : TickValue(p) = TickValue(q)
<1>. DEFINE same == {p \in 0 .. 4 : TickValue(p) = TickValue(q)}
<1>1. same \subseteq Nat /\ q \in same
  OBVIOUS
<1>2. PICK p \in same : \A o \in same : p <= o
  BY <1>1, LeastOf
<1>3. \A o \in 0 .. p - 1 : o \notin same
  BY <1>1, <1>2
<1>4. p \in YTicks
  BY <1>2, <1>3 DEF YTicks
<1>. QED
  BY <1>2, <1>4

\* On every scale, the small ones included, the labels of the axis grow from zero to the
\* scale, none stands twice, and none is off its height by more than half a count (yTicks
\* of VolumeChart.tsx).
THEOREM LabelsNearHolds == ChartSpec => []LabelsNear
<1>1. ASSUME ChartInv
      PROVE  LabelsNear
  <2>1. Scale \in Nat
    BY <1>1, RawMaxIsGreatest, NiceMaxIsLeast, StepsAre DEF Scale
  <2>2. YTicks \subseteq 0 .. 4
    BY DEF YTicks
  <2>3. ASSUME NEW p \in YTicks, NEW q \in YTicks, p < q
        PROVE  TickValue(p) < TickValue(q)
    <3>1. TickValue(p) # TickValue(q)
      BY <2>2, <2>3 DEF YTicks
    <3>. QED
      BY <2>1, <2>2, <2>3, <3>1, TicksRise
  <2>4. (\E p \in YTicks : TickValue(p) = 0) /\ (\E p \in YTicks : TickValue(p) = Scale)
    <3>1. \E p \in YTicks : TickValue(p) = 0
      BY <2>1, TicksRise, NumberKept
    <3>2. \E p \in YTicks : TickValue(p) = Scale
      BY <2>1, TicksRise, NumberKept
    <3>. QED
      BY <3>1, <3>2
  <2>5. ASSUME NEW q \in YTicks
        PROVE  4 * TickValue(q) - Scale * q \in -2 .. 2
    <3>1. PICK h \in Nat : h = Scale * q
      BY <2>1, <2>2
    <3>2. /\ TickValue(q) \in Nat
          /\ 8 * TickValue(q) <= 2 * h + 4 /\ 2 * h - 4 < 8 * TickValue(q)
      BY <2>1, <2>2, <3>1, TicksRise
    <3>. QED
      BY <3>1, <3>2
  <2>6. ASSUME NEW low \in AxisLabel, NEW high \in AxisLabel, low.quarters < high.quarters
        PROVE  low.number < high.number
    BY <2>3, <2>6 DEF AxisLabel
  <2>7. ASSUME NEW q \in YTicks
        PROVE  TickValue(q) \in {label.number : label \in AxisLabel}
    <3>1. [number |-> TickValue(q), quarters |-> q] \in AxisLabel
      BY DEF AxisLabel
    <3>. QED
      BY <3>1
  <2>8. ASSUME NEW label \in AxisLabel
        PROVE  4 * label.number - Scale * label.quarters \in -2 .. 2
    BY <2>5 DEF AxisLabel
  <2>. QED
    BY <2>4, <2>6, <2>7, <2>8 DEF LabelsNear
<1>. QED
  BY <1>1, ChartInvHolds, PTL

=============================================================================
