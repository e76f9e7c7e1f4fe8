-------------------------------- MODULE Chart --------------------------------
(***************************************************************************)
(* The chart of an Amphora's signals (tsi.js).  Moving the brush and       *)
(* changing a filter each ask for the data anew and draw it when it comes; *)
(* a request reads the range and the filters when it is sent.  The library *)
(* tsiclient is external; the page's loader is left out.                   *)
(***************************************************************************)
EXTENDS Browser

CONSTANTS
  Ranges,        \* the ranges the brush selects
  FirstRange,    \* the default one
  FilterKeys     \* the properties that can be filtered

ASSUME ChartAssumption == FirstRange \in Ranges

VARIABLES
  chart,        \* [range, filters], or Off
  graph,        \* what the chart shows: its range and its filters
  chartAsked,   \* the requests under way, oldest first
  late          \* whether a request failed or was overtaken since the last one was sent

chartVars == <<chart, graph, chartAsked, late>>

NoGraph == [range |-> Off, filter |-> {}]

\* (mutant of getLineChartExpressions)
getLineChartUnfiltered(c) == [range |-> c.range, filter |-> {}]
\* getLineChartExpressions: the filters that have a value, joined by AND.
getLineChartExpressions(c) ==
  [range |-> c.range, filter |-> {k \in FilterKeys : c.filters[k] = "set"}]

CanDraw == Len(chartAsked) < MaxRequests

\* renderLineGraph, up to its first request: it reads the range and the filters.
renderLineGraph(c) ==
  /\ CanDraw
  /\ chart' = c
  /\ chartAsked' = Append(chartAsked, getLineChartExpressions(c))
  /\ late' = (late /\ chartAsked # <<>>)

NewChart == [range |-> FirstRange, filters |-> [k \in FilterKeys |-> "none"]]

\* tsi: the chart is asked for, and once more by the brush that is set.
OpenChart ==
  /\ chart = Off
  /\ MaxRequests >= 2
  /\ chart' = NewChart
  /\ chartAsked' = [i \in 1 .. 2 |-> getLineChartExpressions(NewChart)]
  /\ graph' = NoGraph
  /\ late' = FALSE

CloseChart ==
  /\ chart # Off
  /\ chart' = Off
  /\ chartAsked' = <<>> /\ graph' = NoGraph /\ late' = FALSE

\* brushMoveEndAction
MoveBrush(range) ==
  /\ chart # Off
  /\ renderLineGraph([chart EXCEPT !.range = range])
  /\ UNCHANGED graph

\* A filter is set or deleted, and the chart asked for with the range it has.
setFilterValue(k, value) ==
  /\ chart # Off
  /\ chart.filters[k] # value
  /\ renderLineGraph([chart EXCEPT !.filters[k] = value])
  /\ UNCHANGED graph

\* renderLineGraph, after its request.
DrawGraph(i) ==
  /\ chart # Off
  /\ graph' = chartAsked[i]
  /\ chartAsked' = Without(chartAsked, i)
  /\ late' = (late \/ i # 1)
  /\ UNCHANGED chart

\* Nothing catches the failure: the chart stays as it is.
FailGraph(i) ==
  /\ chart # Off
  /\ chartAsked' = Without(chartAsked, i)
  /\ late' = TRUE
  /\ UNCHANGED <<chart, graph>>

ChartUser ==
  \/ OpenChart \/ CloseChart
  \/ \E range \in Ranges : MoveBrush(range)
  \/ \E k \in FilterKeys, value \in {"none", "set"} : setFilterValue(k, value)

ChartAnswers == \E i \in DOMAIN chartAsked : DrawGraph(i) \/ FailGraph(i)

ChartNext == ChartUser \/ ChartAnswers

ChartInit ==
  /\ chart = Off
  /\ graph = NoGraph
  /\ chartAsked = <<>>
  /\ late = FALSE

------------------------------------------------------------------------------
(* What the chart promises *)

\* With no request under way the chart shows the range of the brush under the
\* filters that are set, unless a request failed or was overtaken.
GraphIsSelected ==
  chart # Off /\ chartAsked = <<>> /\ ~late =>
    /\ graph.range = chart.range
    /\ graph.filter = {k \in FilterKeys : chart.filters[k] = "set"}
==============================================================================
