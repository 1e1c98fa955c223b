------------------------------- MODULE Charts -------------------------------
(***************************************************************************)
(* The arithmetic of the two canvas charts (charts.js).  Coordinates are   *)
(* fractions of pixels in the code; here a length comes with the scale it  *)
(* is multiplied by, so that everything is an integer.  Rows are counted   *)
(* from 0, as in the code.                                                 *)
(***************************************************************************)
EXTENDS Integers, Sequences

Key == {"users", "organizations", "projects", "tasks"}

AtLeast(a, b) == IF a < b THEN b ELSE a
AtMost(a, b) == IF a < b THEN a ELSE b

\* Math.round(a / b): halves are rounded up.
Round(a, b) == (2 * a + b) \div (2 * b)

-----------------------------------------------------------------------------
(* What is drawn.  A payload has rows, from keys to counts, and series; the *)
(* lines are the series that are above zero somewhere.                     *)

normalizeGrowth(p) ==
  LET given == IF p.series = {} /\ p.rows # <<>> THEN Key ELSE p.series
  IN  [rows   |-> p.rows,
       series |-> {k \in given : \E i \in DOMAIN p.rows : p.rows[i][k] > 0}]

\* Without rows or lines there is only a sentence on the canvas.
drawEmpty(p) == p.rows = <<>> \/ p.series = {}

values(rows, series) == {rows[i][k] : i \in DOMAIN rows, k \in series}
maxValue(all) == CHOOSE m \in {1} \cup all : \A v \in {1} \cup all : v <= m

\* The numbers beside the five grid lines.
tickLabel(tick, max) == Round(tick * max, 4)

-----------------------------------------------------------------------------
(* The growth chart.                                                       *)

\* A canvas is never drawn smaller than this (getCanvasSize).
canvasWidth(w) == AtLeast(320, w)
canvasHeight(h) == AtLeast(220, h)

growthLeft == 48
growthWidth(w) == canvasWidth(w) - 48 - 18
growthTop == 34
growthHeight(h) == canvasHeight(h) - 34 - 36

\* xForIndex, times Steps(n): one row sits in the middle.
Steps(n) == IF n = 1 THEN 2 ELSE n - 1
xForIndex(i, n, w) ==
  IF n = 1 THEN 2 * growthLeft + growthWidth(w)
  ELSE growthLeft * (n - 1) + i * growthWidth(w)

\* yForValue, times the maximum; downwards, as on the canvas.
yForValue(v, max, h) == (growthTop + growthHeight(h)) * max - v * growthHeight(h)

\* The points of a line, each coordinate with its scale.
points(rows, key, max, w, h) ==
  [i \in 0 .. Len(rows) - 1 |->
     <<xForIndex(i, Len(rows), w), yForValue(rows[i + 1][key], max, h)>>]

labelStep(n) == IF n > 14 THEN (n + 6) \div 7 ELSE 1
labelled(i, n) == i % labelStep(n) = 0 \/ i = n - 1

\* Faulty variant: the fraction is cut off.
cutIndex(x, n, w) ==
  IF n = 1 THEN 0
  ELSE AtLeast(0, AtMost(n - 1, ((x - growthLeft) * (n - 1)) \div growthWidth(w)))

\* The row a mouse at x points to.
nearestIndex(x, n, w) ==
  IF n = 1 THEN 0
  ELSE AtLeast(0, AtMost(n - 1, Round((x - growthLeft) * (n - 1), growthWidth(w))))

-----------------------------------------------------------------------------
(* The distribution chart: n bars, lengths times 4 * n * n.                *)

barScale(n) == 4 * n * n
barLeft == 42
barPlot(w) == canvasWidth(w) - 42 - 18

barGap(n, w) == AtMost(18 * barScale(n), n * barPlot(w))

\* Faulty variant: the gaps are not taken off.
wideBar(n, w) == AtLeast(16 * barScale(n), 4 * n * barPlot(w))

barWidth(n, w) ==
  AtLeast(16 * barScale(n), 4 * n * barPlot(w) - (barGap(n, w) \div n) * (n - 1))

barX(i, n, w) == barLeft * barScale(n) + i * (barWidth(n, w) + barGap(n, w))

\* Faulty variant: only the left edges are compared.
barsFrom(x, n, w) == {i \in 0 .. n - 1 : x * barScale(n) >= barX(i, n, w)}

\* The bars, if any, under a mouse at x (within the height of the bar).
barsAt(x, n, w) ==
  {i \in 0 .. n - 1 : /\ x * barScale(n) >= barX(i, n, w)
                      /\ x * barScale(n) <= barX(i, n, w) + barWidth(n, w)}

-----------------------------------------------------------------------------
(* The tooltip, tw by th, in a wrapper ww by wh, about the point x, y.      *)

\* Faulty variant: the right edge is forgotten.
tipBeside(x, tw, ww) == AtLeast(8, x + 12)

tipLeft(x, tw, ww) == AtMost(AtLeast(8, x + 12), AtLeast(8, ww - tw - 8))
tipTop(y, th, wh) == AtMost(AtLeast(8, y - th - 10), AtLeast(8, wh - th - 8))

\* Over a bar it is kept from the right edge and from the top only.
barTipLeft(x, tw, ww) == AtMost(x + 12, ww - tw - 8)
barTipTop(y, th) == AtLeast(8, y - th - 10)

-----------------------------------------------------------------------------
(* What the drawing must come to.                                          *)

Distance(a, b) == IF a < b THEN b - a ELSE a - b

\* Row i of n is one of those horizontally nearest to x.
IsNearest(i, x, n, w) ==
  /\ i \in 0 .. n - 1
  /\ \A j \in 0 .. n - 1 :
       Distance(x * Steps(n), xForIndex(i, n, w)) <= Distance(x * Steps(n), xForIndex(j, n, w))

\* The middle of bar i of n is one of those nearest to x (times twice the scale).
IsNearestBar(i, x, n, w) ==
  LET middle(j) == 2 * barX(j, n, w) + barWidth(n, w)
      mouse     == 2 * x * barScale(n)
  IN  i \in 0 .. n - 1 /\ \A j \in 0 .. n - 1 : Distance(mouse, middle(i)) <= Distance(mouse, middle(j))

\* Grid lines are numbered upwards from 0 to the maximum, each within a half of
\* its exact value.
TicksAreRight(max) ==
  /\ tickLabel(0, max) = 0 /\ tickLabel(4, max) = max
  /\ \A t \in 0 .. 3 : tickLabel(t, max) <= tickLabel(t + 1, max)
  /\ \A t \in 0 .. 4 : Distance(4 * tickLabel(t, max), t * max) <= 2

\* Lines run from left to right inside the plot, and a larger count is higher.
LinesFit(rows, series, max, w, h) ==
  LET n == Len(rows) IN
  \A k \in series :
    LET line == points(rows, k, max, w, h) IN
    /\ \A i \in 0 .. n - 1 :
         /\ line[i][1] \in growthLeft * Steps(n) .. (growthLeft + growthWidth(w)) * Steps(n)
         /\ line[i][2] \in growthTop * max .. (growthTop + growthHeight(h)) * max
    /\ \A i \in 0 .. n - 2 :
         /\ line[i][1] < line[i + 1][1]
         /\ (rows[i + 1][k] < rows[i + 2][k]) = (line[i][2] > line[i + 1][2])

\* A tooltip that fits into the wrapper stays inside it.
TipFits(left, top, tw, th, ww, wh) ==
  /\ tw + 16 <= ww => 8 <= left /\ left + tw <= ww - 8
  /\ th + 16 <= wh => 8 <= top /\ top + th <= wh - 8

\* Bars keep apart and inside the plot.
BarsFit(n, w) ==
  /\ \A i \in 0 .. n - 2 : barX(i, n, w) + barWidth(n, w) < barX(i + 1, n, w)
  /\ barX(n - 1, n, w) + barWidth(n, w) <= (barLeft + barPlot(w)) * barScale(n)
=============================================================================
