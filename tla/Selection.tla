----------------------------- MODULE Selection ------------------------------
(***************************************************************************)
(* The two pages on which the user acts on the system: a table of          *)
(* processes (app/ui/pages/processes.py) or of systemd units (services.py),*)
(* a panel about the selected entry, and a menu whose actions signal the   *)
(* process or control the unit.  Menus and dialogs run an event loop of    *)
(* their own: snapshots go on arriving under them.                         *)
(*                                                                         *)
(* The table (app/ui/widgets/table.py) keeps its selection by row number   *)
(* as long as the number of rows stays the same; when it changes, the      *)
(* selection goes without a signal.  It is a QTableView for the selection  *)
(* of one row: when the filter takes its current row away, Qt makes a      *)
(* neighbour that stays the current row and selects it, with a signal.     *)
(* Which one depends on how the user sorted the table: any.  The process   *)
(* page follows the pid of its last signal, the unit page the row.         *)
(*                                                                         *)
(* An entry is a pid or unit name and the process or state behind it: gen  *)
(* counts the processes that had the pid.  Rows are in the order of Ids.   *)
(***************************************************************************)
EXTENDS Naturals, FiniteSets

CONSTANTS
  Ids,          \* pids, or units by name
  Refused,      \* the program itself and init
  NoId,         \* _selected_pid is None
  NoEntry,      \* no entry
  MaxStarts     \* bound on the processes that are given the same pid

\* Assumed by Pages.
SelectionAssumption ==
  /\ Ids \subseteq Nat
  /\ IsFiniteSet(Ids)
  /\ Refused \subseteq Ids
  /\ NoId \notin Ids
  /\ MaxStarts \in Nat
  /\ NoEntry \notin [id : Ids, gen : 1..MaxStarts]

VARIABLES
  kind,       \* "processes" or "services": the page that is explored
  starts,     \* starts[i]: how often i was given to a process
  alive,      \* ids in use
  snapshot,   \* Page._snapshot
  rows,       \* the rows of the table
  accepted,   \* ids the filter of the table lets through
  current,    \* the current row of the view, 0 for none
  row,        \* the selected row, the current one or 0 for none
  tree,       \* the process page shows its tree
  items,      \* ids in the tree
  item,       \* the selected item of the tree
  selected,   \* ProcessesPage._selected_pid
  panel,      \* the entry whose values the panel shows
  stage,      \* "page", "menu" or "prompt": the event loop that runs
  named,      \* the entry the menu or prompt is about
  jobs,       \* units with a _UnitActionTask under way
  victim      \* history: the process that was signalled by the last step

world == <<starts, alive>>
table == <<rows, accepted, current, row>>
view == <<tree, items, item, selected, panel>>
vars == <<kind, world, snapshot, table, view, stage, named, jobs, victim>>

Entries == [id : Ids, gen : 1..MaxStarts]

TypeOK ==
  /\ kind \in {"processes", "services"}
  /\ starts \in [Ids -> 0..MaxStarts]
  /\ alive \subseteq Ids
  /\ \A i \in alive : starts[i] > 0
  /\ snapshot \subseteq Entries
  /\ rows \subseteq Entries
  /\ accepted \subseteq Ids
  /\ current \in 0..Cardinality(rows)
  /\ row \in {0, current}
  /\ tree \in BOOLEAN
  /\ items \subseteq Ids
  /\ item \in items \cup {NoId}
  /\ selected \in Ids \cup {NoId}
  /\ panel \in Entries \cup {NoEntry}
  /\ stage \in {"page", "menu", "prompt"}
  /\ named \in Entries \cup {NoEntry}
  /\ jobs \subseteq Ids
  /\ victim \in Entries \cup {NoEntry}

Init ==
  /\ kind \in {"processes", "services"}
  /\ starts = [i \in Ids |-> 0]
  /\ alive = {}
  /\ snapshot = {}
  /\ rows = {}
  /\ accepted = Ids
  /\ current = 0
  /\ row = 0
  /\ tree = FALSE
  /\ items = {}
  /\ item = NoId
  /\ selected = NoId
  /\ panel = NoEntry
  /\ stage = "page"
  /\ named = NoEntry
  /\ jobs = {}
  /\ victim = NoEntry

-----------------------------------------------------------------------------
(* The system *)

Entry(i) == [id |-> i, gen |-> starts[i]]

\* A process starts, under a pid that may have been used before; a unit is loaded.
Appear(i) ==
  /\ i \notin alive
  /\ starts[i] < MaxStarts
  /\ starts' = [starts EXCEPT ![i] = @ + 1]
  /\ alive' = alive \cup {i}
  /\ victim' = NoEntry
  /\ UNCHANGED <<kind, snapshot, table, view, stage, named, jobs>>

Disappear(i) ==
  /\ i \in alive
  /\ alive' = alive \ {i}
  /\ victim' = NoEntry
  /\ UNCHANGED <<kind, starts, snapshot, table, view, stage, named, jobs>>

-----------------------------------------------------------------------------
(* The table and the tree *)

IdsOf(entries) == {e.id : e \in entries}
RowOf(entries, e) == Cardinality({f \in entries : f.id <= e.id})
At(entries, k) == CHOOSE e \in entries : RowOf(entries, e) = k

\* The rows the filter lets through.
Shown(entries, passed) == {RowOf(entries, e) : e \in {f \in entries : f.id \in passed}}

\* The filter takes the current row away from a table that is updated in place.
TakenAway(new, passed) ==
  /\ current # 0
  /\ Cardinality(new) = Cardinality(rows)
  /\ current \notin Shown(new, passed)

\* The rows that stay: others appear only after those that go have gone.
Neighbours(new, passed) ==
  LET left == Shown(rows, accepted) \cap Shown(new, passed)
  IN  IF left = {} THEN {0} ELSE left

SetRows(new, passed) ==
  /\ rows' = new
  /\ accepted' = passed
  /\ IF Cardinality(new) # Cardinality(rows) THEN current' = 0 /\ row' = 0
     ELSE IF TakenAway(new, passed)
     THEN current' \in Neighbours(new, passed) /\ row' = current'
     ELSE UNCHANGED <<current, row>>

\* selectionChanged, and what selected_object is then, by its id.
Signals(new, passed) == TakenAway(new, passed) /\ (row # 0 \/ row' # 0)
IdAt(new, k) == IF k = 0 THEN NoId ELSE At(new, k).id

\* _on_selection of the two pages, if the table signals.
Tracked(new, passed) == IF Signals(new, passed) THEN IdAt(new, row') ELSE selected
Detailed(new, passed) ==
  IF ~Signals(new, passed) THEN panel ELSE IF row' = 0 THEN NoEntry ELSE At(new, row')

\* _Inspector.refresh reads the process afresh; of one that has exited only the
\* title says so.
Inspected(i) == IF i \in alive THEN Entry(i) ELSE panel

\* The process page and its inspector follow i.
Follow(i) == selected' = i /\ panel' = Inspected(i)

\* _UnitDetail.set_unit
SetUnit(e) == panel' = e

\* _refresh_tree: clearing the tree signals a selection if there was one, when
\* its item is still the current one; the new tree selects what is followed.
Rebuild(new, passed, followed) ==
  LET subject == IF item # NoId THEN item ELSE followed
  IN  /\ items' = IdsOf(new) \cap passed
      /\ item' = IF subject \in items' THEN subject ELSE NoId
      /\ Follow(subject)

KeepTree == UNCHANGED <<items, item>>

\* The table tells the page about its selection after every refresh.
MutantRefreshProcesses(new, passed) ==
  IF tree
  THEN Rebuild(new, passed, selected) /\ UNCHANGED table
  ELSE SetRows(new, passed) /\ KeepTree /\ Follow(IdAt(new, row'))

\* ProcessesPage.on_snapshot updates the view that is shown.
RefreshProcesses(new, passed) ==
  IF tree
  THEN Rebuild(new, passed, selected) /\ UNCHANGED table
  ELSE SetRows(new, passed) /\ KeepTree /\ Follow(Tracked(new, passed))

\* ServicesPage.on_snapshot: the panel goes on showing the entry it was given;
\* without units and with a note the table is left as it is.
RefreshServices(new, passed) ==
  /\ \/ SetRows(new, passed) /\ SetUnit(Detailed(new, passed))
     \/ new = {} /\ UNCHANGED <<table, panel>>
  /\ KeepTree
  /\ UNCHANGED selected

\* What passes the filter depends on the entries' own values.
OnSnapshot(passed) ==
  LET new == {Entry(i) : i \in alive}
  IN  /\ snapshot' = new
      /\ IF kind = "processes" THEN RefreshProcesses(new, passed) ELSE RefreshServices(new, passed)
      /\ victim' = NoEntry
      /\ UNCHANGED <<kind, world, tree, stage, named, jobs>>

-----------------------------------------------------------------------------
(* The user at the page *)

\* The search field and the preset filters; the hierarchy is made anew, the table
\* behind it filtered.
ApplyFilter(passed) ==
  /\ stage = "page"
  /\ SetRows(rows, passed)
  /\ IF kind = "services"
     THEN SetUnit(Detailed(rows, passed)) /\ KeepTree /\ UNCHANGED selected
     ELSE IF tree THEN Rebuild(snapshot, passed, Tracked(rows, passed))
     ELSE /\ KeepTree
          /\ IF Signals(rows, passed) THEN Follow(Tracked(rows, passed))
             ELSE UNCHANGED <<selected, panel>>
  /\ victim' = NoEntry
  /\ UNCHANGED <<kind, world, snapshot, tree, stage, named, jobs>>

\* _on_view_toggled brings the view that appears up to date.
ToggleView(passed) ==
  /\ stage = "page"
  /\ kind = "processes"
  /\ tree' = ~tree
  /\ IF tree
     THEN /\ SetRows(snapshot, passed)
          /\ KeepTree
          /\ IF Signals(snapshot, passed) THEN Follow(Tracked(snapshot, passed))
             ELSE UNCHANGED <<selected, panel>>
     ELSE Rebuild(snapshot, passed, selected) /\ UNCHANGED table
  /\ victim' = NoEntry
  /\ UNCHANGED <<kind, world, snapshot, stage, named, jobs>>

\* A click on a row; one that is selected already gives no signal.
SelectRow(e) ==
  /\ stage = "page"
  /\ ~tree
  /\ e \in rows
  /\ e.id \in accepted
  /\ row # RowOf(rows, e)
  /\ row' = RowOf(rows, e)
  /\ current' = row'
  /\ IF kind = "processes" THEN Follow(e.id) ELSE SetUnit(e) /\ UNCHANGED selected
  /\ KeepTree
  /\ victim' = NoEntry
  /\ UNCHANGED <<kind, world, snapshot, rows, accepted, tree, stage, named, jobs>>

\* A click with Ctrl takes the selection back; the row stays the current one.
Deselect ==
  /\ stage = "page"
  /\ ~tree
  /\ row # 0
  /\ row' = 0
  /\ IF kind = "processes" THEN Follow(NoId) ELSE SetUnit(NoEntry) /\ UNCHANGED selected
  /\ KeepTree
  /\ victim' = NoEntry
  /\ UNCHANGED <<kind, world, snapshot, rows, accepted, current, tree, stage, named, jobs>>

\* The keyboard focus comes to the table: a row becomes the current one, unselected.
Focus(e) ==
  /\ stage = "page"
  /\ ~tree
  /\ current = 0
  /\ e \in rows
  /\ e.id \in accepted
  /\ current' = RowOf(rows, e)
  /\ victim' = NoEntry
  /\ UNCHANGED <<kind, world, snapshot, rows, accepted, row, view, stage, named, jobs>>

SelectItem(i) ==
  /\ stage = "page"
  /\ tree
  /\ i \in items
  /\ item' = i
  /\ Follow(i)
  /\ victim' = NoEntry
  /\ UNCHANGED <<kind, world, snapshot, table, tree, items, stage, named, jobs>>

-----------------------------------------------------------------------------
(* Menus and dialogs *)

\* _current_process: by pid, in the last snapshot.
CurrentProcess == {e \in snapshot : e.id = selected}

\* selected_object of the unit table.
SelectedObject == {e \in rows : RowOf(rows, e) = row}

\* The one the menu names; each of its actions keeps it.
Subject == IF kind = "processes" THEN CurrentProcess ELSE SelectedObject

ShowContextMenu ==
  /\ stage = "page"
  /\ \E e \in Subject : named' = e
  /\ stage' = "menu"
  /\ victim' = NoEntry
  /\ UNCHANGED <<kind, world, snapshot, table, view, jobs>>

\* Terminate, kill, nice value, affinity; every action on a unit.
Ask ==
  /\ stage = "menu"
  /\ stage' = "prompt"
  /\ victim' = NoEntry
  /\ UNCHANGED <<kind, world, snapshot, table, view, named, jobs>>

Dismiss ==
  /\ stage # "page"
  /\ stage' = "page"
  /\ named' = NoEntry
  /\ victim' = NoEntry
  /\ UNCHANGED <<kind, world, snapshot, table, view, jobs>>

\* The collector makes a new handle from the pid: it reaches the process that
\* has the pid now, if it may.
Reached(e) == {f \in {Entry(i) : i \in alive} : f.id = e.id}

\* A signal is refused to the program itself and to init, a nice value or
\* affinity is not.
Struck(e) == {f \in Reached(e) : stage = "prompt" \/ e.id \notin Refused}

\* _act, at once from the menu (suspend, resume) or after a prompt.
Signal ==
  /\ kind = "processes"
  /\ stage # "page"
  /\ stage' = "page"
  /\ named' = NoEntry
  /\ victim' \in {NoEntry} \cup Struck(named)
  /\ UNCHANGED <<kind, world, snapshot, table, view, jobs>>

\* _UnitActionTask: systemctl on a thread of the global pool.
StartAction(i) == jobs' = jobs \cup {i}

\* The unit that is selected when the dialog is answered.
MutantControl ==
  /\ kind = "services"
  /\ stage = "prompt"
  /\ stage' = "page"
  /\ named' = NoEntry
  /\ jobs' = jobs \cup IdsOf(Subject)
  /\ victim' = NoEntry
  /\ UNCHANGED <<kind, world, snapshot, table, view>>

\* _confirm starts a task with the name of the unit.
Control ==
  /\ kind = "services"
  /\ stage = "prompt"
  /\ stage' = "page"
  /\ named' = NoEntry
  /\ StartAction(named.id)
  /\ victim' = NoEntry
  /\ UNCHANGED <<kind, world, snapshot, table, view>>

\* systemctl has ended, by itself or at its time limit.
OnActionFinished(i) ==
  /\ i \in jobs
  /\ jobs' = jobs \ {i}
  /\ victim' = NoEntry
  /\ UNCHANGED <<kind, world, snapshot, table, view, stage, named>>

Next ==
  \/ \E i \in Ids : Appear(i) \/ Disappear(i) \/ SelectItem(i) \/ OnActionFinished(i)
  \/ \E passed \in SUBSET Ids : OnSnapshot(passed) \/ ApplyFilter(passed) \/ ToggleView(passed)
  \/ \E e \in rows : SelectRow(e) \/ Focus(e)
  \/ Deselect
  \/ ShowContextMenu
  \/ Ask
  \/ Dismiss
  \/ Signal
  \/ Control

Spec == Init /\ [][Next]_vars

-----------------------------------------------------------------------------
(* Properties *)

\* What is acted upon is what the menu and the dialog named, although snapshots
\* move other processes and units under the selection while they are open; only
\* a pid that was given again since leads to another process
\* (pages/processes.py:406-502, pages/services.py:194-260).
NamedIsHit ==
  [][/\ victim' # NoEntry => victim'.id = named.id /\ victim'.gen >= named.gen
     /\ \A i \in jobs' \ jobs : i = named.id]_vars

\* The process the page follows changes by a choice of the user in the table or the
\* tree, back to what the tree has selected, or because the filter took its row away
\* and the view selected another.  Processes that come, end and change their places in
\* the table never put one where another was (pages/processes.py:235-260, 384-396,
\* widgets/table.py:156-176).
SelectionIsTheUsers ==
  [][\/ selected' \in {selected, item, NoId}
     \/ \E e \in rows : SelectRow(e)
     \/ \E i \in items : SelectItem(i)
     \/ TakenAway(rows', accepted') /\ selected' = IdAt(rows', row')]_vars

\* "The selection survives the update": of widgets/table.py:9-10.  A refresh of the
\* table may lose the process the page follows, but never follows another.
SelectionSurvives ==
  [][\A passed \in SUBSET Ids : ~tree /\ OnSnapshot(passed) => selected' \in {selected, NoId}]_vars
=============================================================================
