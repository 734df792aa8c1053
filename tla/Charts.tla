------------------------------- MODULE Charts -------------------------------
(***************************************************************************)
(* Charts without a fixed range (app/ui/widgets/chart.py): those of a page *)
(* with one series (battery) or two (network, storage), which are drawn    *)
(* from the ring buffers of the history service at every snapshot, and the *)
(* metric browser of the history page, drawn from the stored rows or, if   *)
(* there are none, from the ring buffers, with a table of what is drawn.   *)
(*                                                                         *)
(* Values and the ceiling of the axis are in thousandths; a ceiling that   *)
(* decays is rounded down to one.  Stored rows are those of the window     *)
(* chosen in the browser.                                                  *)
(***************************************************************************)
EXTENDS Integers, SequencesExt

CONSTANTS
  Metrics,   \* the metrics drawn, in the order a page draws them
  Peaks,     \* the values of samples
  Capacity,  \* length of a ring buffer, and bound on the stored rows
  Missing    \* a metric that a snapshot does not have

Keys == Range(Metrics)
Kinds == {"alone", "pair", "browser"}

\* Assumed by Pages.
ChartsAssumption ==
  /\ Metrics \in Seq(Keys) \ {<<>>}
  /\ Peaks \subseteq {1000 * n : n \in 0..100}
  /\ Capacity \in Nat \ {0}
  /\ Missing \notin Peaks

VARIABLES
  chart,       \* which chart
  persisting,  \* samples are stored
  buffer,      \* HistoryService._series
  stored,      \* the rows in the database
  chosen,      \* the selected items of the metric list
  curves,      \* LiveChart._series, as the data each of them was given
  ceiling,     \* LiveChart._auto_ceiling
  summary      \* the rows of the summary table, as the data they describe

vars == <<chart, persisting, buffer, stored, chosen, curves, ceiling, summary>>

\* clear_series; the ceiling is not part of it.
Nothing == [k \in {} |-> <<>>]
Samples == BoundedSeq(Peaks, Capacity)

TypeOK ==
  /\ chart \in Kinds
  /\ persisting \in BOOLEAN
  /\ buffer \in [Keys -> Samples]
  /\ stored \in [Keys -> Samples]
  /\ chosen \subseteq Keys
  /\ DOMAIN curves \subseteq Keys
  /\ DOMAIN summary \subseteq Keys
  /\ ceiling \in Nat

Init ==
  /\ chart \in Kinds
  /\ persisting \in BOOLEAN
  /\ buffer = [k \in Keys |-> <<>>]
  /\ stored = [k \in Keys |-> <<>>]
  /\ chosen = {}
  /\ curves = Nothing
  /\ ceiling = 1000
  /\ summary = Nothing

-----------------------------------------------------------------------------
(* The axis *)

\* _round_up: to 1, 2, 2.5 or 5 times a power of ten.
Steps == {1000 * n : n \in {1, 10, 100}} \cup {2000 * n : n \in {1, 10, 100}}
         \cup {2500 * n : n \in {1, 10, 100}} \cup {5000 * n : n \in {1, 10, 100}}
RoundUp(v) == Min({s \in Steps : s >= v})

Larger(v, w) == IF v >= w THEN v ELSE w
Peak(values) == Max(Range(values))

\* The axis grows as gradually as it shrinks.
MutantGrow(c, peak) ==
  CASE peak > c             -> (c * 5) \div 3
    [] 100 * peak < 35 * c  -> Larger(RoundUp(Larger((3 * peak) \div 2, 1000)), (3 * c) \div 5)
    [] OTHER                -> c

\* _grow_range
Grow(c, peak) ==
  CASE peak > c             -> RoundUp((115 * peak) \div 100)
    [] 100 * peak < 35 * c  -> Larger(RoundUp(Larger((3 * peak) \div 2, 1000)), (3 * c) \div 5)
    [] OTHER                -> c

-----------------------------------------------------------------------------
(* Drawing *)

\* The chart that is given the data of these metrics one after the other.
Draw(c, order, data) ==
  LET axis[n \in 0..Len(order)] ==
        IF n = 0 THEN c
        ELSE IF data[order[n]] = <<>> THEN axis[n - 1]
        ELSE Grow(axis[n - 1], Peak(data[order[n]]))
  IN  axis[Len(order)]
Drawn(order, data) == [k \in {k \in Range(order) : data[k] # <<>>} |-> data[k]]

\* A curve is added when its first data come.
Filled(drawn, new) ==
  [k \in DOMAIN drawn \cup DOMAIN new |-> IF k \in DOMAIN new THEN new[k] ELSE drawn[k]]

\* update_series leaves a curve alone while its buffer is empty.
UpdateSeries(order, data) ==
  /\ curves' = Filled(curves, Drawn(order, data))
  /\ ceiling' = Draw(ceiling, order, data)

\* Of the selected metrics _plot takes the first six, and these data of each.
Plotted(order) == SubSeq(order, 1, IF Len(order) < 6 THEN Len(order) ELSE 6)
PlotData == [k \in Keys |-> IF stored[k] # <<>> THEN stored[k] ELSE buffer[k]]

\* _update_summary: rows are added and updated, and stay.
Summarise(data) == Filled(summary, data)

\* _plot clears the chart, which keeps its ceiling, and draws what is selected.
Plot(order, before) ==
  /\ chosen' = Range(order)
  /\ curves' = Filled(Nothing, Drawn(Plotted(order), PlotData))
  /\ summary' = Summarise(Drawn(Plotted(order), PlotData))
  /\ ceiling' = Draw(before, Plotted(order), PlotData)

\* In the order in which the list returns them.
SelectionOrders(S) == SetToSeqs(S)

\* An item is selected or deselected.
Select(S) ==
  /\ chart = "browser"
  /\ S # chosen
  /\ \E order \in SelectionOrders(S) : Plot(order, ceiling)
  /\ UNCHANGED <<chart, persisting, buffer, stored>>

\* What the axis has become when the items of a list are selected one by one, and
\* each plots those selected so far.
AxisAfter(order) ==
  LET axis[n \in 0..Len(order)] ==
        IF n = 0 THEN ceiling ELSE Draw(axis[n - 1], Plotted(SubSeq(order, 1, n)), PlotData)
  IN  axis[Len(order)]

\* _reload, when the page is shown and on the button: the list is made anew and
\* the items selected again, and then all are plotted.
Reload ==
  /\ chart = "browser"
  /\ \E order \in SelectionOrders(IF chosen = {} THEN {Metrics[1]} ELSE chosen) :
       Plot(order, AxisAfter(order))
  /\ UNCHANGED <<chart, persisting, buffer, stored>>

-----------------------------------------------------------------------------
(* Samples *)

\* A deque with a maximal length.
Push(s, v) ==
  IF v = Missing THEN s
  ELSE IF Len(s) = Capacity THEN Append(Tail(s), v) ELSE Append(s, v)

\* A group of series, one for each metric.
Recorded(group, values) == [k \in Keys |-> Push(group[k], values[k])]

OnPage == IF chart = "alone" THEN <<Metrics[1]>> ELSE Metrics

\* HistoryService.record, then on_snapshot of a page that is built.
OnSnapshot(values) ==
  /\ buffer' = Recorded(buffer, values)
  /\ stored' = IF persisting THEN Recorded(stored, values) ELSE stored
  /\ IF chart = "browser" THEN UNCHANGED <<curves, ceiling>> ELSE UpdateSeries(OnPage, buffer')
  /\ UNCHANGED <<chart, persisting, chosen, summary>>

\* charts.history_seconds changes.
ReallocateBuffers ==
  /\ buffer' = [k \in Keys |-> <<>>]
  /\ UNCHANGED <<chart, persisting, stored, chosen, curves, ceiling, summary>>

Next ==
  \/ \E values \in [Keys -> Peaks \cup {Missing}] : OnSnapshot(values)
  \/ \E S \in SUBSET Keys : Select(S)
  \/ Reload
  \/ ReallocateBuffers

Spec == Init /\ [][Next]_vars

-----------------------------------------------------------------------------
(* Properties *)

Fits(k) == \A i \in DOMAIN curves[k] : curves[k][i] <= ceiling

\* A single curve lies below the top of the axis, however the axis has decayed
\* and whatever was drawn on the chart before; and the browser's summary
\* describes each curve that is drawn, not an earlier one of the same metric
\* (widgets/chart.py:248-263, pages/history.py:229-286).  Every variable keeps its
\* type.
ChartShowsItsData ==
  /\ TypeOK
  /\ \A k \in DOMAIN curves : DOMAIN curves = {k} => Fits(k)
  /\ chart = "browser" =>
       \A k \in DOMAIN curves : k \in chosen /\ k \in DOMAIN summary /\ summary[k] = curves[k]
=============================================================================
