------------------------------ MODULE Dashboard -----------------------------
(***************************************************************************)
(* dashboard.js with the charts of charts.js: two charts, each with        *)
(* buttons that choose what it shows, and two boxes filled once.  A chart  *)
(* is redrawn from what charts.js remembers of it when the theme changes.  *)
(***************************************************************************)
EXTENDS Shell

CONSTANTS
  History,      \* History[k][d]: how many records of kind k are older than d days
  RowCount,     \* RowCount[r]: how many rows the API returns for range r
  Breakdown,    \* Breakdown[t]: the counts of distribution t, by label
  ChartSize,    \* the sizes <<w, h>> the style sheet may give a canvas
  Mouse,        \* the places <<x, y>> of the mouse over a canvas
  TipSize       \* the size <<w, h>> of a tooltip

Chart == INSTANCE Charts

Panel == {"growth", "dist"}

\* The buttons of the two toggles; normalizeGrowthRangeButtons would turn an
\* old 1m into 3m.
Buttons == [growth |-> {"7d", "30d", "6m", "1y"}, dist |-> {"projects", "tasks", "clients"}]

\* Every range has its rows, and every distribution a bar for each status: the
\* enumerations have two or five, and more than twelve bars would not fit.
ASSUME DashboardAssumption ==
  /\ \A k \in Chart!Key : History[k] \in Seq(Nat)
  /\ RowCount \in [Buttons.growth -> Nat \ {0}]
  /\ DOMAIN Breakdown = Buttons.dist
  /\ \A t \in Buttons.dist :
       /\ IsFiniteSet(DOMAIN Breakdown[t]) /\ Cardinality(DOMAIN Breakdown[t]) \in 1 .. 12
       /\ \A l \in DOMAIN Breakdown[t] : Breakdown[t][l] \in Nat
  /\ ChartSize \subseteq Nat \X Nat /\ Mouse \subseteq Nat \X Nat /\ TipSize \in Nat \X Nat

\* The API falls back to 30 days for a range it does not know.
Effective(button) == IF button = "6m" THEN "30d" ELSE button

\* growth.py: the running totals, one row for each day, or each month.
GrowthRows(range) ==
  LET days == IF range \in {"7d", "30d"} THEN 1 ELSE 30 IN
  [i \in 1 .. RowCount[range] |->
     [k \in Chart!Key |-> Cardinality({c \in DOMAIN History[k] : History[k][c] >= (RowCount[range] - i) * days})]]

\* The data of the answers, as normalizeGrowth leaves them.
Growth ==
  [r \in DOMAIN RowCount |->
     Chart!normalizeGrowth([rows |-> GrowthRows(r), series |-> Chart!Key])]

Blank == [message |-> "none", data |-> "nothing", theme |-> "none", size |-> <<320, 220>>]

DashboardBody ==
  [lit |-> [growth |-> "30d", dist |-> "projects"],
   chart |-> [p \in Panel |-> Blank],
   breakdown |-> "nothing",
   tip |-> [on |-> FALSE, panel |-> "growth", at |-> <<0, 0>>, drawn |-> <<320, 220>>,
            size |-> <<320, 220>>, row |-> 0, of |-> "nothing", left |-> 0, top |-> 0],
   cards |-> "empty", feed |-> "empty"]

-----------------------------------------------------------------------------
\* initializeDashboard, once Layout.init has resolved: four requests at once.
DashboardStart(b) ==
  [b EXCEPT !.cards = "loading", !.feed = "loading",
            !.chart = [p \in Panel |-> [Blank EXCEPT !.message = "loading"]]]

DashboardCalls(b) ==
  <<Call("overview", ""), Call("growth", b.lit.growth), Call("dist", b.lit.dist), Call("activity", "")>>

Ready == page = "dashboard" /\ gate = "open"
Rest == <<user, frame, bell, notes>>

\* bindGrowthControls, loadGrowth up to its await.
PickRange ==
  /\ Event /\ Ready
  /\ \E r \in Buttons.growth :
       /\ body' = [body EXCEPT !.lit.growth = r, !.chart.growth.message = "loading"]
       /\ Turn(0, <<Call("growth", r)>>)
  /\ ClickReachesDocument
  /\ UNCHANGED <<Rest, theme, missed>>

\* bindDistributionControls, loadDistribution up to its await.
PickType ==
  /\ Event /\ Ready
  /\ \E t \in Buttons.dist :
       /\ body' = [body EXCEPT !.lit.dist = t, !.chart.dist.message = "loading"]
       /\ Turn(0, <<Call("dist", t)>>)
  /\ ClickReachesDocument
  /\ UNCHANGED <<Rest, theme, missed>>

\* Faulty variant: an error uncovers what was drawn before.
FailedQuietly(p) == [body EXCEPT !.chart[p].message = "none"]

\* showChartMessage: the canvas is hidden under the sentence.
Failed(p) == [body EXCEPT !.chart[p].message = "failed"]

(* A canvas has the size of its wrapper, and keeps the size of the picture  *)
(* that was drawn on it last: the style sheet stretches the picture, and no  *)
(* script hears of a resized window.  So wherever a canvas is measured, it   *)
(* may have any size.                                                       *)

\* getCanvasSize, measured when a chart is drawn.
Picture(size) == <<Chart!canvasWidth(size[1]), Chart!canvasHeight(size[2])>>

\* drawGrowth: the data is remembered for the next redrawing.
renderGrowth(button, size) ==
  [body EXCEPT !.chart.growth =
     [message |-> "none", data |-> Effective(button), theme |-> theme, size |-> Picture(size)]]

GrowthAnswered(n) ==
  /\ Answered(n, "growth")
  /\ IF calls[n].phase = "lost" THEN body' = Failed("growth")
     ELSE \E size \in ChartSize : body' = renderGrowth(calls[n].what, size)
  /\ missed' = missed \cup Overtaking(n, "growth")
  /\ Turn(n, <<>>)
  /\ UNCHANGED <<Rest, menus, theme, events>>

\* Faulty variant: the list beside the chart is about the button that is lit.
BreakdownOfButton(type, size) ==
  [body EXCEPT !.chart.dist =
                 [message |-> "none", data |-> type, theme |-> theme, size |-> Picture(size)],
               !.breakdown = body.lit.dist]

\* drawDistribution, and renderDistributionBreakdown beside it.
renderDistribution(type, size) ==
  [body EXCEPT !.chart.dist =
                 [message |-> "none", data |-> type, theme |-> theme, size |-> Picture(size)],
               !.breakdown = type]

DistributionAnswered(n) ==
  /\ Answered(n, "dist")
  /\ IF calls[n].phase = "lost" THEN body' = Failed("dist")
     ELSE \E size \in ChartSize : body' = renderDistribution(calls[n].what, size)
  /\ missed' = missed \cup Overtaking(n, "dist")
  /\ Turn(n, <<>>)
  /\ UNCHANGED <<Rest, menus, theme, events>>

\* The cards, or a sentence and a toast.
OverviewAnswered(n) ==
  /\ Answered(n, "overview")
  /\ body' = [body EXCEPT !.cards = IF calls[n].phase = "lost" THEN "failed" ELSE "shown"]
  /\ Turn(n, <<>>)
  /\ UNCHANGED <<Rest, menus, theme, events, missed>>

ActivityAnswered(n) ==
  /\ Answered(n, "activity")
  /\ body' = [body EXCEPT !.feed = IF calls[n].phase = "lost" THEN "failed" ELSE "shown"]
  /\ Turn(n, <<>>)
  /\ UNCHANGED <<Rest, menus, theme, events, missed>>

-----------------------------------------------------------------------------
(* The theme, and the mouse.                                               *)

Other(t) == IF t = "dark" THEN "light" ELSE "dark"

\* Faulty variant: only the growth chart is redrawn.
RefreshGrowth(b, t, sizes) ==
  IF b.chart.growth.data = "nothing" THEN b
  ELSE [b EXCEPT !.chart.growth.message = "none", !.chart.growth.theme = t,
                 !.chart.growth.size = Picture(sizes.growth)]

\* Every chart that was drawn once is drawn again, over any message.
refreshTheme(b, t, sizes) ==
  [b EXCEPT !.chart = [p \in Panel |->
     IF b.chart[p].data = "nothing" THEN b.chart[p]
     ELSE [b.chart[p] EXCEPT !.message = "none", !.theme = t, !.size = Picture(sizes[p])]]]

\* Redrawing uncovers a chart whose newer data is still on the way, or lost.
Uncovers(b) == {p \in Panel : b.chart[p].data # "nothing" /\ b.chart[p].message # "none"}

ToggleTheme ==
  /\ Event /\ gate # "left"
  /\ theme' = Other(theme)
  /\ IF page = "dashboard"
     THEN /\ \E sizes \in [Panel -> ChartSize] : body' = refreshTheme(body, theme', sizes)
          /\ missed' = missed \cup Uncovers(body)
     ELSE UNCHANGED <<body, missed>>
  /\ UNCHANGED <<Rest, menus, calls>>

Visible(p) == body.chart[p].message = "none" /\ body.chart[p].data # "nothing"

\* mousemove: the tooltip says which row the mouse is on, beside the point of the
\* line that is nearest to it.  Rows and lines are where they were drawn; the mouse
\* and the wrapper are measured now.
growthTip(button, drawn, size, at) ==
  LET w     == drawn[1]
      h     == drawn[2]
      data  == Growth[button]
      n     == Len(data.rows)
      max   == Chart!maxValue(Chart!values(data.rows, data.series))
      row   == Chart!nearestIndex(at[1], n, w)
      ys    == {Chart!yForValue(data.rows[row + 1][k], max, h) : k \in data.series}
      lineY == CHOOSE a \in ys : \A b \in ys : Chart!Distance(a, at[2] * max) <= Chart!Distance(b, at[2] * max)
  IN  [on |-> TRUE, panel |-> "growth", at |-> at, drawn |-> drawn, size |-> size, row |-> row,
       of |-> button,
       left |-> Chart!tipLeft(Chart!xForIndex(row, n, w) \div Chart!Steps(n), TipSize[1], size[1]),
       top |-> Chart!tipTop(lineY \div max, TipSize[2], size[2])]

HoverGrowth ==
  /\ Event /\ Ready /\ Visible("growth")
  /\ ~Chart!drawEmpty(Growth[body.chart.growth.data])
  /\ \E size \in ChartSize, at \in Mouse :
       /\ at[1] < size[1] /\ at[2] < size[2]
       /\ body' = [body EXCEPT !.tip = growthTip(body.chart.growth.data, body.chart.growth.size, size, at)]
  /\ UNCHANGED <<Rest, menus, theme, calls, missed>>

\* Between the bars the tooltip goes away (the mouse is as high as the bar).
barTip(tip, type, drawn, size, at) ==
  LET hits == Chart!barsAt(at[1], Cardinality(DOMAIN Breakdown[type]), drawn[1]) IN
  IF hits = {} THEN [tip EXCEPT !.on = (@ /\ tip.panel # "dist")]
  ELSE [on |-> TRUE, panel |-> "dist", at |-> at, drawn |-> drawn, size |-> size,
        row |-> CHOOSE i \in hits : \A j \in hits : i <= j, of |-> type,
        left |-> Chart!barTipLeft(at[1], TipSize[1], size[1]),
        top |-> Chart!barTipTop(at[2], TipSize[2])]

HoverDistribution ==
  /\ Event /\ Ready /\ Visible("dist")
  /\ \E size \in ChartSize, at \in Mouse :
       /\ at[1] < size[1] /\ at[2] < size[2]
       /\ body' = [body EXCEPT !.tip = barTip(body.tip, body.chart.dist.data, body.chart.dist.size, size, at)]
  /\ UNCHANGED <<Rest, menus, theme, calls, missed>>

-----------------------------------------------------------------------------
\* A chart that is visible when nothing is asked for shows what its lit button
\* stands for, unless answers came in another order or the theme was changed under
\* a message (loadGrowth and loadDistribution do not look at what is lit by then).
ChartIsLit ==
  page = "dashboard" =>
    \A p \in Panel :
      (Visible(p) /\ ~Waiting({p}) /\ p \notin missed)
        => body.chart[p].data = (IF p = "growth" THEN Effective(body.lit[p]) ELSE body.lit[p])

\* In whatever order answers, clicks and the theme button come: the list beside
\* the distribution chart is about the data of that chart (one handler draws both)
\* and what is visible wears the theme of the document (applyTheme redraws all).
ChartIsWhole ==
  page = "dashboard" =>
    /\ body.breakdown = body.chart.dist.data
    /\ \A p \in Panel : Visible(p) => body.chart[p].theme = theme

\* A tooltip stays inside the wrapper as it is then, if it fits there; and if the
\* picture has not been stretched since it was drawn, it is about a row, or about
\* the bar with a middle, nearest to the mouse (the two mousemove handlers).
TipIsNearest ==
  (page = "dashboard" /\ body.tip.on) =>
    LET tip == body.tip
        n   == IF tip.panel = "growth" THEN RowCount[tip.of] ELSE Cardinality(DOMAIN Breakdown[tip.of])
    IN
    /\ Chart!TipFits(tip.left, tip.top, TipSize[1], TipSize[2], tip.size[1], tip.size[2])
    /\ tip.drawn = tip.size =>
         IF tip.panel = "growth" THEN Chart!IsNearest(tip.row, tip.at[1], n, tip.drawn[1])
         ELSE Chart!IsNearestBar(tip.row, tip.at[1], n, tip.drawn[1])

\* The same of the picture as it is seen, stretched or not.  It does not hold: the
\* mouse is compared with the places at which the rows were drawn, whatever became
\* of the canvas since (charts.js keeps xForIndex and bars, and nothing redraws).
TipFollowsPicture ==
  (page = "dashboard" /\ body.tip.on /\ body.tip.panel = "growth") =>
    LET tip     == body.tip
        n       == RowCount[tip.of]
        seen(i) == Chart!xForIndex(i, n, tip.drawn[1]) * tip.size[1]
        mouse   == tip.at[1] * Chart!Steps(n) * tip.drawn[1]
    IN  \A i \in 0 .. n - 1 : Chart!Distance(mouse, seen(tip.row)) <= Chart!Distance(mouse, seen(i))

\* The first and the last row have a label, and of many rows at most eight have.
LabelsAreFew(n) ==
  /\ Chart!labelled(0, n) /\ Chart!labelled(n - 1, n)
  /\ n > 14 => Cardinality({i \in 0 .. n - 1 : Chart!labelled(i, n)}) <= 8

LinesAreReadable ==
  [r \in DOMAIN RowCount |->
     LET rows   == Growth[r].rows
         series == Growth[r].series
         max    == Chart!maxValue(Chart!values(rows, series))
     IN
     /\ LabelsAreFew(Len(rows))
     /\ \A size \in ChartSize : Chart!LinesFit(rows, series, max, size[1], size[2])
     /\ Chart!TicksAreRight(max)]

BarsAreReadable ==
  [t \in DOMAIN Breakdown |->
     LET labels == DOMAIN Breakdown[t] IN
     /\ Chart!TicksAreRight(Chart!maxValue({Breakdown[t][l] : l \in labels}))
     /\ \A size \in ChartSize : Chart!BarsFit(Cardinality(labels), size[1])]

\* Whatever is drawn, the grid is numbered truly, both ends of the time axis are
\* labelled, lines rise and fall with their counts, and lines and bars keep inside
\* the plot, the bars apart.
ChartIsReadable ==
  page = "dashboard" => /\ Visible("growth") => LinesAreReadable[body.chart.growth.data]
                        /\ Visible("dist") => BarsAreReadable[body.chart.dist.data]
=============================================================================
