-------------------------------- MODULE Chart --------------------------------
(***************************************************************************)
(* frontend/src/components/dashboard/VolumeChart.tsx: the scale, the axis, *)
(* the line and the tooltip of the volume chart, under a pointer that      *)
(* moves while each tick replaces the buckets.                             *)
(*                                                                         *)
(* Lengths in the drawing are those of the code. Quotients are compared by *)
(* cross-multiplication, and the rounding of floating point is left out.   *)
(* The browser scales the drawing as SVG says for an element without       *)
(* preserveAspectRatio: as large as fits, and centred.                     *)
(***************************************************************************)
EXTENDS Integers, FiniteSets, FiniteSetsExt

CONSTANTS
  Points,        \* buckets of the metrics hook
  Counts,        \* counts that a bucket may have
  RectWidth,     \* width of the svg element on the screen, in pixels (w-full)
  RectHeight,    \* its height (h-48)
  Pointer        \* positions of the pointer, in pixels from its left edge

\* Bound: the events of one bucket.
MaxCount == 5 * 10 ^ 8

ASSUME ChartAssumption ==
  /\ Points \in Nat \ {0} /\ Counts \subseteq 0 .. MaxCount
  /\ RectWidth \in Nat \ {0} /\ RectHeight \in Nat \ {0}
  /\ Pointer \subseteq 0 .. RectWidth

VARIABLES
  buckets,       \* the counts, the oldest first; none before the first tick
  hover,         \* hover.index, or None
  pointer        \* where the pointer is, or None

chartVars == <<buckets, hover, pointer>>

None == -1
MathMin(m, n) == IF m < n THEN m ELSE n
MathMax(m, n) == IF m > n THEN m ELSE n
Index == DOMAIN buckets

-----------------------------------------------------------------------------
(* The scale and the axis.                                                 *)

\* The values of 10 ** exp.
Powers == {10 ^ e : e \in 0 .. 8}

\* A value at a step of the scale gets the next one.
NiceMaxMutant(value) ==
  LET base == CHOOSE b \in Powers : b <= value /\ value < 10 * b
  IN  IF value <= 1 THEN 1
      ELSE base * Min({nice \in {1, 2, 5, 10} : value < nice * base})

\* The least of 1, 2, 5 and 10 that is enough, times the power of ten below.
NiceMax(value) ==
  LET base == CHOOSE b \in Powers : b <= value /\ value < 10 * b
  IN  IF value <= 1 THEN 1
      ELSE base * Min({nice \in {1, 2, 5, 10} : value <= nice * base})

RawMax == Max({1} \cup {buckets[b] : b \in Index})
Scale == NiceMax(RawMax)

\* The tick at q quarters of the height; Math.round rounds a half up.
TickValue(q) == (2 * Scale * q + 4) \div 8

\* The set of values seen is forgotten: all ticks are left.
YTicksMutant == 0 .. 4

\* The ticks that are left: of those with one value the first, which is the lowest.
YTicks == {q \in 0 .. 4 : \A p \in 0 .. q - 1 : TickValue(p) # TickValue(q)}

\* What stands beside the axis: a number, and the height of its grid line.
AxisLabel == {[number |-> TickValue(q), quarters |-> q] : q \in YTicks}

-----------------------------------------------------------------------------
(* The drawing: 360 by 200, with padding.                                  *)

width == 360
height == 200
padLeft == 36
innerW == width - padLeft - 12

\* Twice the x of a point, times the number of buckets: its bucket's middle.
PointX(i) == 2 * Points * padLeft + (2 * i + 1) * innerW

\* The left edge of the hit target of bucket i in the drawing, times the number
\* of buckets. Its right edge is the left edge of the next one.
HitLeft(i) == Points * padLeft + i * innerW

\* The drawing is enlarged by num / den and has equal margins left and right.
num == IF RectWidth * height <= RectHeight * width THEN RectWidth ELSE RectHeight
den == IF RectWidth * height <= RectHeight * width THEN width ELSE height

\* On the screen: 2 * den * Points times the pixels from the left edge.
Pixels(px) == 2 * den * Points * px
ScreenLeft(i) ==
  Points * (den * RectWidth - num * width) + 2 * num * HitLeft(i)
OverTarget(pixels, i) == ScreenLeft(i) <= pixels /\ pixels < ScreenLeft(i + 1)

\* The marker is part of the drawing; the tooltip is placed beside it in percent of
\* the element's width.
MarkerPixels ==
  Points * (den * RectWidth - num * width) + num * PointX(hover)
TooltipPixels == RectWidth * ((den * PointX(hover)) \div width)

-----------------------------------------------------------------------------

ChartInit ==
  /\ buckets = << >>
  /\ hover = None
  /\ pointer = None

\* The metrics hook sets new buckets; the chart is rendered anew, and keeps its
\* state.
NewBuckets ==
  /\ buckets' \in [0 .. Points - 1 -> Counts]
  /\ UNCHANGED <<hover, pointer>>

\* The nearest edge is taken in the place of the edge to the left.
IndexAtRoundedMutant(px) ==
  MathMin(Points - 1,
    MathMax(0, (2 * Points * (px * width - padLeft * RectWidth) + RectWidth * innerW)
                \div (2 * RectWidth * innerW)))

\* The bucket at a position, as if the drawing filled the element.
IndexAt(px) ==
  MathMin(Points - 1,
    MathMax(0, (Points * (px * width - padLeft * RectWidth)) \div (RectWidth * innerW)))

OnMove(px) ==
  /\ pointer' = px
  /\ hover' = IF Index = {} THEN hover ELSE IndexAt(px)
  /\ UNCHANGED buckets

OnMouseLeave ==
  /\ pointer # None
  /\ pointer' = None
  /\ hover' = None
  /\ UNCHANGED buckets

ChartNext == NewBuckets \/ (\E px \in Pointer : OnMove(px)) \/ OnMouseLeave

ChartSpec == ChartInit /\ [][ChartNext]_chartVars

-----------------------------------------------------------------------------
(* Properties.                                                             *)

Steps == UNION {{p, 2 * p, 5 * p} : p \in Powers}

\* The scale is the least of 1, 2, 5, 10, 20, 50, ... that holds every bucket, so
\* that the line stays in the plot and is not squeezed to its bottom.
ScaleFits == Scale = Min({s \in Steps : \A b \in Index : buckets[b] <= s})

\* The axis is readable on every scale, the small ones included, where most ticks are
\* rounded to one number: going up the numbers grow, so that none stands twice; they
\* begin with zero and reach the scale, so that no tick that was needed is left out;
\* and a number is off its height by half a count at most.
LabelsNear ==
  /\ \A low, high \in AxisLabel :
       low.quarters < high.quarters => low.number < high.number
  /\ {0, Scale} \subseteq {label.number : label \in AxisLabel}
  /\ \A label \in AxisLabel :
       4 * label.number - Scale * label.quarters \in -2 .. 2

\* The tooltip is always that of a bucket; in an element no wider than the drawing it
\* is the bucket whose hit target is under the pointer, whatever ticks come, and
\* the tooltip stands over the marker.
TooltipAtPointer ==
  /\ hover \in Index \cup {None}
  /\ \A i \in Index :
       hover # None /\ OverTarget(Pixels(pointer), i) =>
         hover = i /\ TooltipPixels = MarkerPixels

\* "Invisible hit targets per bucket": moving over a bucket's target selects the
\* bucket, in an element of any width.
HitTargets ==
  \A i \in Index :
    hover # None /\ OverTarget(Pixels(pointer), i) => hover = i

=============================================================================
