------------------------------- MODULE Metrics -------------------------------
(***************************************************************************)
(* The tick of frontend/src/hooks/useEventMetrics.ts: velocity and volume  *)
(* buckets computed from the arrival times that useEventStream records,    *)
(* which each tick also prunes.                                            *)
(*                                                                         *)
(* The arrival times are kept as the set of the events they stand for:     *)
(* the code only filters and counts them. Browsers delay and throttle      *)
(* intervals, so that a tick may come at any time. Date.now() is taken     *)
(* never to go back.                                                       *)
(***************************************************************************)
EXTENDS Integers, FiniteSets

CONSTANTS
  VelocityWindow,  \* VELOCITY_WINDOW_MS
  Bucket,          \* CHART_BUCKET_MS
  ChartWindow,     \* CHART_WINDOW_MS
  MaxTime,         \* bound: the last instant
  MaxTotal         \* bound: events received

\* constants.ts: the buckets fill the window, none of them in part.
ASSUME MetricsAssumption ==
  /\ VelocityWindow \in Nat \ {0} /\ Bucket \in Nat \ {0} /\ ChartWindow \in Nat \ {0}
  /\ ChartWindow % Bucket = 0
  /\ MaxTime \in Nat /\ MaxTotal \in Nat

VARIABLES
  now,             \* Date.now()
  total,           \* events received so far; they are numbered from 1
  stamp,           \* stamp[n]: the time at which event n arrived
  arrivals,        \* arrivalsRef: the events whose times it still holds
  ticking,         \* the interval is set
  velocity,        \* events in the velocity window, the numerator of `velocity`
  chartBuckets,    \* the count of each bucket, the oldest first; << >> at first
  at,              \* the time of the last tick
  ticked           \* total at the last tick

shown == <<velocity, chartBuckets, at, ticked>>
vars == <<now, total, stamp, arrivals, ticking, shown>>

Larger(m, n) == IF m > n THEN m ELSE n
BucketCount == ChartWindow \div Bucket

Init ==
  /\ now \in 0 .. MaxTime
  /\ total = 0
  /\ stamp = << >>
  /\ arrivals = {}
  /\ ticking = FALSE
  /\ velocity = 0
  /\ chartBuckets = << >>
  /\ at = now
  /\ ticked = 0

\* Time passes, and a busy or sleeping browser skips over instants.
Pass ==
  /\ now' \in now + 1 .. MaxTime
  /\ UNCHANGED <<total, stamp, arrivals, ticking, shown>>

\* The arrival times are cut like the buffer of the feed, here at two.
PrependEventsMutant ==
  /\ total < MaxTotal
  /\ total' = total + 1
  /\ stamp' = [n \in 1 .. total + 1 |-> IF n = total + 1 THEN now ELSE stamp[n]]
  /\ arrivals' = {n \in arrivals : n >= total} \cup {total + 1}
  /\ UNCHANGED <<now, ticking, shown>>

\* prependEvents, as far as it concerns this hook. A message with several
\* events is several of these steps at one instant.
PrependEvents ==
  /\ total < MaxTotal
  /\ total' = total + 1
  /\ stamp' = [n \in 1 .. total + 1 |-> IF n = total + 1 THEN now ELSE stamp[n]]
  /\ arrivals' = arrivals \cup {total + 1}
  /\ UNCHANGED <<now, ticking, shown>>

Within(window) == {n \in arrivals : now - stamp[n] <= window}

Kept == Within(Larger(VelocityWindow, ChartWindow))

\* Both ends of a bucket are closed.
InBucketMutant(i) ==
  {n \in Kept : stamp[n] >= now - (i + 1) * Bucket /\ stamp[n] <= now - i * Bucket}

\* The events of [start, end), i buckets before now.
InBucket(i) ==
  {n \in Kept : stamp[n] >= now - (i + 1) * Bucket /\ stamp[n] < now - i * Bucket}

\* The loop counts i down, so that the oldest bucket comes first.
ComputeTick ==
  /\ arrivals' = Kept
  /\ velocity' = Cardinality(Kept \cap Within(VelocityWindow))
  /\ chartBuckets' = [b \in 1 .. BucketCount |-> Cardinality(InBucket(BucketCount - b))]
  /\ at' = now
  /\ ticked' = total
  /\ UNCHANGED <<now, total, stamp>>

\* The effect computes once and sets the interval.
RunEffect ==
  /\ ~ticking
  /\ ticking' = TRUE
  /\ ComputeTick

Tick ==
  /\ ticking
  /\ ComputeTick
  /\ UNCHANGED ticking

\* React runs the cleanup when the component goes, or to run the effect anew.
Cleanup ==
  /\ ticking
  /\ ticking' = FALSE
  /\ UNCHANGED <<now, total, stamp, arrivals, shown>>

Next == Pass \/ PrependEvents \/ RunEffect \/ Tick \/ Cleanup

Spec == Init /\ [][Next]_vars

-----------------------------------------------------------------------------
(* Properties.                                                             *)

TypeOK ==
  /\ now \in Nat /\ at \in Nat /\ at <= now
  /\ total \in Nat /\ ticked \in Nat /\ ticked <= total
  /\ stamp \in [1 .. total -> Nat]
  /\ arrivals \subseteq 1 .. total
  /\ ticking \in BOOLEAN

\* The age of an event at the last tick.
Age(n) == at - stamp[n]

\* "Rolling 10s velocity": it counts every event of the window that had arrived,
\* whatever earlier ticks have pruned.
VelocityExact ==
  velocity = Cardinality({n \in 1 .. ticked : Age(n) <= VelocityWindow})

\* Each event of the chart's window is in the one bucket that its age says, and
\* in no other; an event of the very instant of the tick has to wait for the next.
BucketsExact ==
  \A b \in DOMAIN chartBuckets :
    chartBuckets[b] =
      Cardinality({n \in 1 .. total : /\ Age(n) \in 1 .. ChartWindow
                                      /\ b = BucketCount - (Age(n) - 1) \div Bucket})

=============================================================================
