------------------------------- MODULE Pages --------------------------------
(***************************************************************************)
(* The parts of pages that do more than display the last snapshot: the     *)
(* tables with their menus (Selection), the work in the background (Tasks) *)
(* and the charts (Charts).  They share no state: the services page only   *)
(* hands a unit's name to the log viewer, which Tasks has as an event.  A  *)
(* behaviour therefore explores one of them, chosen at the start, and the  *)
(* others rest in one of their initial states.                             *)
(***************************************************************************)
EXTENDS Naturals, FiniteSets

CONSTANTS Ids, Refused, NoId, NoEntry, MaxStarts,
          Filters, UnitFilters, NoFilter, Texts, MaxProbes,
          Metrics, Peaks, Capacity, Missing

VARIABLES
  explored,
  kind, starts, alive, snapshot, rows, accepted, current, row, tree, items, item,
  selected, panel, stage, named, jobs, victim,
  page, readable, filter, loading, queries, dropped, loaded, found, optIn, button,
  probes, editor, notes, saving,
  chart, persisting, buffer, stored, chosen, curves, ceiling, summary

tableVars == <<kind, starts, alive, snapshot, rows, accepted, current, row, tree, items, item,
               selected, panel, stage, named, jobs, victim>>
workVars == <<page, readable, filter, loading, queries, dropped, loaded, found, optIn, button,
              probes, editor, notes, saving>>
chartVars == <<chart, persisting, buffer, stored, chosen, curves, ceiling, summary>>
vars == <<explored, tableVars, workVars, chartVars>>

Tables == INSTANCE Selection
Work == INSTANCE Tasks
Plots == INSTANCE Charts

ASSUME PagesAssumption ==
  Tables!SelectionAssumption /\ Work!TasksAssumption /\ Plots!ChartsAssumption

Init ==
  /\ explored \in {"tables", "work", "charts"}
  /\ Tables!Init
  /\ Work!Init
  /\ Plots!Init
  /\ explored # "tables" => kind = "processes"
  /\ explored # "charts" => chart = "alone" /\ persisting
  /\ explored # "work" =>
       /\ page = "dashboard"
       /\ readable
       /\ filter = CHOOSE f \in Filters \ UnitFilters : TRUE
       /\ optIn
       /\ notes = CHOOSE t \in Texts : TRUE

Next ==
  /\ UNCHANGED explored
  /\ \/ explored = "tables" /\ Tables!Next /\ UNCHANGED <<workVars, chartVars>>
     \/ explored = "work" /\ Work!Next /\ UNCHANGED <<tableVars, chartVars>>
     \/ explored = "charts" /\ Plots!Next /\ UNCHANGED <<tableVars, workVars>>

Spec == Init /\ [][Next]_vars /\ Work!Fairness

-----------------------------------------------------------------------------
(* The properties of the parts, stated where they are checked. *)

\* Every variable of the tables and of the work in the background keeps its type.
TypeOK == Tables!TypeOK /\ Work!TypeOK

\* Selection.tla: what is acted upon is what the menu and the dialog named
\* (pages/processes.py:406-502, pages/services.py:194-260).
NamedIsHit == Tables!NamedIsHit

\* Selection.tla: what the page follows is replaced by the user, or where the filter
\* took a row away (pages/processes.py:235-260, 384-396).
SelectionIsTheUsers == Tables!SelectionIsTheUsers

\* Selection.tla: a refresh of the table never makes the page follow another process,
\* as widgets/table.py:9-10 has it.
SelectionSurvives == Tables!SelectionSurvives

\* Tasks.tla: entries answer the filter shown, unless a change of it was dropped
\* (pages/logs.py:170-216, 296-306).
EntriesAnswerTheFilter == Work!EntriesAnswerTheFilter

\* Tasks.tla: no page waits for ever for its background work (pages/logs.py:337-342,
\* pages/network.py:287-290, pages/dashboard.py:570-582).
TasksEnd == Work!TasksEnd

\* Charts.tla: a single curve is below the top of its axis, and the summary is
\* that of the curves (widgets/chart.py:248-263, pages/history.py:229-286).
ChartShowsItsData == Plots!ChartShowsItsData
=============================================================================
