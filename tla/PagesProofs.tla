----------------------------- MODULE PagesProofs -----------------------------
(***************************************************************************)
(* Proofs about Pages, for any number of entries, filters, probes, metrics *)
(* and samples: what a menu names is what is hit, no refresh moves the     *)
(* selection of the process page, answers of the journal are never mixed   *)
(* up, and charts show their data.  Then the bodies of Panels, for any     *)
(* names, devices and number of things; and the verdicts of Diagnostics,   *)
(* for any readings of any number of sensors, disks, adapters and units.   *)
(***************************************************************************)
EXTENDS Pages, Views, FiniteSetTheorems, SequenceTheorems, WellFoundedInduction, TLAPS

\* What is assumed of identifiers, entries, filters and probes.
LEMMA PagesFacts ==
  /\ Ids \subseteq Nat
  /\ IsFiniteSet(Ids)
  /\ Refused \subseteq Ids
  /\ NoId \notin Ids
  /\ MaxStarts \in Nat
  /\ UnitFilters \subseteq Filters
  /\ NoFilter \notin Filters
  /\ MaxProbes \in Nat \ {0}
<1>1. Tables!IsFiniteSet(Ids) => IsFiniteSet(Ids)
  BY DEF Tables!IsFiniteSet, IsFiniteSet
<1> QED
  BY <1>1, PagesAssumption DEF Tables!SelectionAssumption, Work!TasksAssumption

-----------------------------------------------------------------------------
(* The tables *)

\* A pid or unit as it is or was: with a count of starts that was reached.
Known(e) == e \in [id : Ids, gen : Nat] /\ e.gen <= starts[e.id]

\* The strengthening of NamedIsHit: all that the page holds was there once.
EntriesInv ==
  /\ starts \in [Ids -> Nat]
  /\ alive \subseteq Ids
  /\ \A e \in snapshot \cup rows : Known(e)
  /\ stage # "page" => Known(named)

\* A snapshot holds entries that are there.
LEMMA SnapshotIsKnown ==
  ASSUME EntriesInv
  PROVE  \A e \in {Tables!Entry(i) : i \in alive} : Known(e)
BY DEF EntriesInv, Known, Tables!Entry

\* What is named when a menu opens is in the snapshot or in the table.
LEMMA SubjectIsListed == Tables!Subject \subseteq snapshot \cup rows
BY DEF Tables!Subject, Tables!CurrentProcess, Tables!SelectedObject

\* Snapshots and filters replace the rows by those of a snapshot, if at all.
LEMMA SnapshotReplacesRows ==
  ASSUME NEW passed, Tables!OnSnapshot(passed)
  PROVE  /\ snapshot' = {Tables!Entry(i) : i \in alive}
         /\ rows' \in {rows, snapshot'}
         /\ UNCHANGED <<starts, alive, stage, named, jobs>>
         /\ victim' = NoEntry
<1> DEFINE new == {Tables!Entry(i) : i \in alive}
<1>1. snapshot' = new /\ UNCHANGED <<starts, alive, stage, named, jobs>> /\ victim' = NoEntry
  BY DEF Tables!OnSnapshot, Tables!world
<1>2. CASE kind = "processes"
  <2>1. Tables!RefreshProcesses(new, passed)
    BY <1>2 DEF Tables!OnSnapshot
  <2> QED
    BY <1>1, <2>1 DEF Tables!RefreshProcesses, Tables!SetRows, Tables!table
<1>3. CASE kind # "processes"
  <2>1. Tables!RefreshServices(new, passed)
    BY <1>3 DEF Tables!OnSnapshot
  <2> QED
    BY <1>1, <2>1 DEF Tables!RefreshServices, Tables!SetRows, Tables!table, Tables!SetUnit
<1> QED
  BY <1>1, <1>2, <1>3

\* The strengthening holds at the start.
LEMMA EntriesStart == Init => EntriesInv
BY DEF Init, Tables!Init, EntriesInv

\* Starts are only counted up, so that what is known stays known.
LEMMA KnownStays ==
  ASSUME starts \in [Ids -> Nat], starts' \in [Ids -> Nat],
         \A i \in Ids : starts[i] <= starts'[i],
         NEW e, Known(e)
  PROVE  Known(e)'
BY DEF Known

\* Every step of a table keeps the strengthening.
LEMMA EntriesStep == EntriesInv /\ Tables!Next => EntriesInv'
<1> SUFFICES ASSUME EntriesInv, Tables!Next
             PROVE  EntriesInv'
  OBVIOUS
<1> USE DEF EntriesInv
<1>0. ASSUME UNCHANGED <<starts, alive>>,
             snapshot' \cup rows' \subseteq snapshot \cup rows \cup {Tables!Entry(i) : i \in alive},
             stage' # "page" => \/ named' \in snapshot \cup rows
                                \/ stage # "page" /\ named' = named
      PROVE  EntriesInv'
  BY <1>0, SnapshotIsKnown DEF Known
<1>1. ASSUME NEW i \in Ids, Tables!Appear(i)
      PROVE  EntriesInv'
  <2>1. /\ starts' = [starts EXCEPT ![i] = @ + 1] /\ alive' = alive \cup {i}
        /\ UNCHANGED <<snapshot, rows, stage, named>>
    BY <1>1 DEF Tables!Appear, Tables!table
  <2>2. starts' \in [Ids -> Nat] /\ \A j \in Ids : starts[j] <= starts'[j]
    BY <2>1
  <2>3. \A e : Known(e) => Known(e)'
    BY <2>2, KnownStays
  <2> QED
    BY <2>1, <2>2, <2>3 DEF Known
<1>2. ASSUME NEW i \in Ids, Tables!Disappear(i)
      PROVE  EntriesInv'
  <2>1. /\ UNCHANGED <<starts, snapshot, rows, stage, named>> /\ alive' \subseteq alive
    BY <1>2 DEF Tables!Disappear, Tables!table
  <2> QED
    BY <2>1 DEF Known
<1>3. ASSUME NEW passed \in SUBSET Ids, Tables!OnSnapshot(passed)
      PROVE  EntriesInv'
  BY <1>0, <1>3, SnapshotReplacesRows
<1>4. ASSUME NEW passed \in SUBSET Ids, Tables!ApplyFilter(passed)
      PROVE  EntriesInv'
  BY <1>0, <1>4 DEF Tables!ApplyFilter, Tables!world, Tables!SetRows
<1>5. ASSUME NEW passed \in SUBSET Ids, Tables!ToggleView(passed)
      PROVE  EntriesInv'
  <2>1. UNCHANGED <<starts, alive, snapshot, stage, named>> /\ rows' \in {rows, snapshot}
    BY <1>5 DEF Tables!ToggleView, Tables!world, Tables!table, Tables!SetRows
  <2> QED
    BY <1>0, <2>1
<1>6. ASSUME NEW i \in Ids, Tables!SelectItem(i) \/ Tables!OnActionFinished(i)
      PROVE  EntriesInv'
  BY <1>0, <1>6 DEF Tables!SelectItem, Tables!OnActionFinished, Tables!world, Tables!table
<1>7. ASSUME NEW e \in rows, Tables!SelectRow(e) \/ Tables!Focus(e)
      PROVE  EntriesInv'
  BY <1>0, <1>7 DEF Tables!SelectRow, Tables!Focus, Tables!world, Tables!SetUnit
<1>11. CASE Tables!Deselect
  BY <1>0, <1>11 DEF Tables!Deselect, Tables!world, Tables!SetUnit
<1>8. CASE Tables!ShowContextMenu
  <2>1. UNCHANGED <<starts, alive, snapshot, rows>> /\ named' \in Tables!Subject
    BY <1>8 DEF Tables!ShowContextMenu, Tables!world, Tables!table
  <2>2. named' \in snapshot \cup rows
    BY <2>1, SubjectIsListed
  <2>3. snapshot' \cup rows' \subseteq snapshot \cup rows
    BY <2>1
  <2> QED
    BY <1>0, <2>1, <2>2, <2>3
<1>9. CASE Tables!Ask
  BY <1>0, <1>9 DEF Tables!Ask, Tables!world, Tables!table
<1>10. CASE Tables!Dismiss \/ Tables!Signal \/ Tables!Control
  BY <1>0, <1>10 DEF Tables!Dismiss, Tables!Signal, Tables!Control, Tables!world, Tables!table,
     Tables!Struck, Tables!StartAction
<1> QED
  BY <1>1, <1>2, <1>3, <1>4, <1>5, <1>6, <1>7, <1>8, <1>9, <1>10, <1>11 DEF Tables!Next

\* What NamedIsHit says of a step.
Hit ==
  /\ victim' # NoEntry => victim'.id = named.id /\ victim'.gen >= named.gen
  /\ \A i \in jobs' \ jobs : i = named.id

\* Only the answer to a menu or prompt signals or controls anything, and both
\* take the name from there.
LEMMA HitStep == EntriesInv /\ Tables!Next => Hit
<1> SUFFICES ASSUME EntriesInv, Tables!Next
             PROVE  Hit
  OBVIOUS
<1> USE DEF Hit
<1>1. ASSUME NEW i \in Ids,
             Tables!Appear(i) \/ Tables!Disappear(i) \/ Tables!SelectItem(i) \/ Tables!OnActionFinished(i)
      PROVE  Hit
  BY <1>1 DEF Tables!Appear, Tables!Disappear, Tables!SelectItem, Tables!OnActionFinished
<1>2. ASSUME NEW passed \in SUBSET Ids,
             Tables!OnSnapshot(passed) \/ Tables!ApplyFilter(passed) \/ Tables!ToggleView(passed)
      PROVE  Hit
  BY <1>2 DEF Tables!OnSnapshot, Tables!ApplyFilter, Tables!ToggleView, Tables!SetUnit
<1>3. ASSUME NEW e \in rows, Tables!SelectRow(e) \/ Tables!Focus(e)
      PROVE  Hit
  BY <1>3 DEF Tables!SelectRow, Tables!Focus, Tables!SetUnit
<1>4. CASE Tables!ShowContextMenu \/ Tables!Ask \/ Tables!Dismiss \/ Tables!Deselect
  BY <1>4 DEF Tables!ShowContextMenu, Tables!Ask, Tables!Dismiss, Tables!Deselect
<1>5. CASE Tables!Signal
  <2>1. Known(named) /\ jobs' = jobs
    BY <1>5 DEF Tables!Signal, EntriesInv, Tables!Struck
  <2>2. ASSUME victim' # NoEntry
        PROVE  victim'.id = named.id /\ victim'.gen = starts[named.id]
    BY <1>5, <2>2 DEF Tables!Signal, Tables!Reached, Tables!Entry, Tables!Struck
  <2> QED
    BY <2>1, <2>2 DEF Known, EntriesInv
<1>6. CASE Tables!Control
  BY <1>6 DEF Tables!Control, Tables!StartAction
<1> QED
  BY <1>1, <1>2, <1>3, <1>4, <1>5, <1>6 DEF Tables!Next

\* What SelectionIsTheUsers says of a step.
Chosen ==
  \/ selected' \in {selected, item, NoId}
  \/ \E e \in rows : Tables!SelectRow(e)
  \/ \E i \in items : Tables!SelectItem(i)
  \/ Tables!TakenAway(rows', accepted') /\ selected' = Tables!IdAt(rows', row')

\* A new tree follows the item that was selected in the old one, or what the page
\* followed.
LEMMA RebuildFollows ==
  ASSUME NEW new, NEW passed, NEW followed, Tables!Rebuild(new, passed, followed)
  PROVE  selected' \in {item, followed}
BY DEF Tables!Rebuild, Tables!Follow

\* A signal of the table is followed to the row the view has selected.
LEMMA TrackedIsChosen ==
  ASSUME NEW new, NEW passed, Tables!SetRows(new, passed),
         selected' \in {selected, item, Tables!Tracked(new, passed)}
  PROVE  Chosen
<1>1. rows' = new /\ accepted' = passed
  BY DEF Tables!SetRows
<1>2. CASE Tables!Signals(new, passed)
  BY <1>1, <1>2 DEF Chosen, Tables!Tracked, Tables!Signals
<1>3. CASE ~Tables!Signals(new, passed)
  BY <1>3 DEF Chosen, Tables!Tracked
<1> QED
  BY <1>2, <1>3

\* Snapshots, filters and switches of the view choose nothing new, but where the
\* filter takes a row away.
LEMMA ChosenStep == Tables!Next => Chosen
<1> SUFFICES ASSUME Tables!Next
             PROVE  Chosen
  OBVIOUS
<1> USE DEF Chosen
<1>1. ASSUME NEW i \in Ids,
             Tables!Appear(i) \/ Tables!Disappear(i) \/ Tables!OnActionFinished(i)
      PROVE  Chosen
  BY <1>1 DEF Tables!Appear, Tables!Disappear, Tables!OnActionFinished, Tables!view
<1>2. ASSUME NEW i \in Ids, Tables!SelectItem(i)
      PROVE  Chosen
  <2>1. i \in items
    BY <1>2 DEF Tables!SelectItem
  <2> QED
    BY <1>2, <2>1
<1>3. ASSUME NEW passed \in SUBSET Ids, Tables!OnSnapshot(passed)
      PROVE  Chosen
  <2> DEFINE new == {Tables!Entry(i) : i \in alive}
  <2>1. CASE kind = "processes"
    <3>1. Tables!RefreshProcesses(new, passed)
      BY <1>3, <2>1 DEF Tables!OnSnapshot
    <3> HIDE DEF new
    <3>2. CASE tree
      BY <3>1, <3>2, RebuildFollows DEF Tables!RefreshProcesses
    <3>3. CASE ~tree
      BY <3>1, <3>3, TrackedIsChosen DEF Tables!RefreshProcesses, Tables!Follow
    <3> QED
      BY <3>2, <3>3
  <2>2. CASE kind # "processes"
    BY <1>3, <2>2 DEF Tables!OnSnapshot, Tables!RefreshServices, Tables!SetUnit
  <2> QED
    BY <2>1, <2>2
<1>4. ASSUME NEW passed \in SUBSET Ids, Tables!ApplyFilter(passed)
      PROVE  Chosen
  <2> DEFINE kept == Tables!Tracked(rows, passed)
  <2>1. /\ Tables!SetRows(rows, passed)
        /\ \/ selected' = selected
           \/ Tables!Rebuild(snapshot, passed, kept)
           \/ Tables!Follow(kept)
    BY <1>4 DEF Tables!ApplyFilter, Tables!SetUnit
  <2> HIDE DEF kept
  <2>2. selected' \in {selected, item, kept}
    BY <2>1, RebuildFollows DEF Tables!Follow
  <2> QED
    BY <2>1, <2>2, TrackedIsChosen DEF kept
<1>5. ASSUME NEW passed \in SUBSET Ids, Tables!ToggleView(passed)
      PROVE  Chosen
  <2>1. \/ selected' = selected
        \/ Tables!Rebuild(snapshot, passed, selected)
        \/ Tables!SetRows(snapshot, passed) /\ Tables!Follow(Tables!Tracked(snapshot, passed))
    BY <1>5 DEF Tables!ToggleView
  <2> QED
    BY <2>1, RebuildFollows, TrackedIsChosen DEF Tables!Follow
<1>6. ASSUME NEW e \in rows, Tables!SelectRow(e) \/ Tables!Focus(e)
      PROVE  Chosen
  BY <1>6 DEF Tables!Focus, Tables!view
<1>8. CASE Tables!Deselect
  BY <1>8 DEF Tables!Deselect, Tables!Follow
<1>7. CASE Tables!ShowContextMenu \/ Tables!Ask \/ Tables!Dismiss \/ Tables!Signal \/ Tables!Control
  BY <1>7 DEF Tables!ShowContextMenu, Tables!Ask, Tables!Dismiss, Tables!Signal, Tables!Control,
              Tables!view, Tables!Struck, Tables!StartAction
<1> QED
  BY <1>1, <1>2, <1>3, <1>4, <1>5, <1>6, <1>7, <1>8 DEF Tables!Next

\* Every step of the program is one of the tables, or leaves them alone.
LEMMA NextOfTables == [Next]_vars => Tables!Next \/ UNCHANGED tableVars
BY DEF Next, vars

\* All that the page holds was there once, in every state.
LEMMA EntriesCorrect == Spec => []EntriesInv
<1>1. EntriesInv /\ UNCHANGED tableVars => EntriesInv'
  BY DEF EntriesInv, Known, tableVars
<1>2. EntriesInv /\ [Next]_vars => EntriesInv'
  BY <1>1, EntriesStep, NextOfTables
<1> QED
  BY <1>2, EntriesStart, PTL DEF Spec

\* For any number of processes and units, however often names are given again:
\* only what a menu named is signalled or controlled (pages/processes.py:406-502,
\* pages/services.py:194-260).
THEOREM MenusHitWhatTheyName == Spec => NamedIsHit
<1>1. EntriesInv /\ [Next]_vars => [Hit]_(Tables!vars)
  BY HitStep, NextOfTables DEF tableVars, Tables!vars, Tables!world, Tables!table, Tables!view
<1> QED
  BY <1>1, EntriesCorrect, PTL DEF Spec, NamedIsHit, Tables!NamedIsHit, Hit

\* For any number of processes: what the page follows is replaced by the user's
\* choice, or by a row that stays where the filter took the current one away; by
\* nothing else, in particular not by processes that change places in the table
\* (pages/processes.py:235-260, 384-396, widgets/table.py:156-176).
THEOREM SelectionIsKept == Spec => SelectionIsTheUsers
<1>1. [Next]_vars => [Chosen]_(Tables!vars)
  BY ChosenStep, NextOfTables DEF tableVars, Tables!vars, Tables!world, Tables!table, Tables!view
<1> QED
  BY <1>1, PTL DEF Spec, SelectionIsTheUsers, Tables!SelectionIsTheUsers, Chosen

-----------------------------------------------------------------------------
(* The log viewer *)

\* The strengthening of EntriesAnswerTheFilter: one query at most is under way,
\* exactly while the page is loading, and it is for the filter shown or a change
\* was dropped.
QueryInv ==
  /\ \A f \in queries : loading /\ (f = filter \/ dropped)
  /\ \A f, g \in queries : f = g
  /\ Work!EntriesAnswerTheFilter

\* Asking again keeps it.
LEMMA ReloadKeepsOneQuery ==
  ASSUME QueryInv, NEW f, Work!Reload(f), filter' = f, loaded' = loaded
  PROVE  QueryInv'
BY DEF QueryInv, Work!Reload, Work!EntriesAnswerTheFilter

\* Every step of the work in the background keeps it.
LEMMA QueryStep == QueryInv /\ Work!Next => QueryInv'
<1> SUFFICES ASSUME QueryInv, Work!Next
             PROVE  QueryInv'
  OBVIOUS
<1>0. ASSUME UNCHANGED <<filter, loading, queries, dropped, loaded>>
      PROVE  QueryInv'
  BY <1>0 DEF QueryInv, Work!EntriesAnswerTheFilter
<1>1. ASSUME NEW f \in Filters, Work!ChangeFilter(f)
      PROVE  QueryInv'
  BY <1>1, ReloadKeepsOneQuery DEF Work!ChangeFilter
<1>2. ASSUME NEW f \in Filters, Work!TypeFilter(f)
      PROVE  QueryInv'
  BY <1>2 DEF Work!TypeFilter, QueryInv, Work!EntriesAnswerTheFilter
<1>3. ASSUME NEW f \in Filters, Work!Answer(f)
      PROVE  QueryInv'
  BY <1>3 DEF Work!Answer, QueryInv, Work!EntriesAnswerTheFilter, Work!EndQuery, Work!Results
<1>4. ASSUME NEW f \in Filters, Work!OpenLogsForUnit(f)
      PROVE  QueryInv'
  <2>1. CASE found \/ loading \/ ~readable
    BY <1>4, <2>1, ReloadKeepsOneQuery DEF Work!OpenLogsForUnit
  <2>2. CASE ~(found \/ loading \/ ~readable)
    BY <1>4, <2>2 DEF Work!OpenLogsForUnit, QueryInv, Work!EntriesAnswerTheFilter
  <2> QED
    BY <2>1, <2>2
<1>5. ASSUME NEW p \in Work!PageNames, Work!Navigate(p)
      PROVE  QueryInv'
  <2>1. UNCHANGED <<filter, loaded>>
    BY <1>5 DEF Work!Navigate
  <2>2. Work!Reload(filter) \/ UNCHANGED <<loading, queries, dropped>>
    BY <1>5 DEF Work!Navigate, Work!Shown, Work!SyncProbeAvailability
  <2> QED
    BY <1>0, <2>1, <2>2, ReloadKeepsOneQuery
<1>6. ASSUME NEW p \in Work!PageNames, Work!Restart(p)
      PROVE  QueryInv'
  BY <1>6 DEF Work!Restart, QueryInv, Work!EntriesAnswerTheFilter, Work!Offered, Work!SyncProbeAvailability
<1>7. CASE \/ Work!SetOptIn \/ Work!RunProbe \/ Work!OnProbeFinished \/ Work!SaveNotes \/ Work!Rebuild
           \/ \E t \in Texts : Work!Type(t)
  BY <1>0, <1>7 DEF Work!SetOptIn, Work!RunProbe, Work!OnProbeFinished, Work!SaveNotes, Work!Rebuild,
                    Work!Type, Work!journal, Work!EndProbe
<1> QED
  BY <1>1, <1>2, <1>3, <1>4, <1>5, <1>6, <1>7 DEF Work!Next

\* For any filters: the log viewer shows the answer to its filter, unless a change
\* of it was dropped while a query was under way (pages/logs.py:170-216, 296-306).
THEOREM AnswersAreNotMixedUp == Spec => []EntriesAnswerTheFilter
<1>1. Init => QueryInv
  BY DEF Init, Work!Init, QueryInv, Work!EntriesAnswerTheFilter, Work!Offered
<1>2. QueryInv /\ UNCHANGED workVars => QueryInv'
  BY DEF QueryInv, Work!EntriesAnswerTheFilter, workVars
<1>3. [Next]_vars => Work!Next \/ UNCHANGED workVars
  BY DEF Next, vars
<1>4. QueryInv /\ [Next]_vars => QueryInv'
  BY <1>2, <1>3, QueryStep
<1>5. QueryInv => EntriesAnswerTheFilter
  BY DEF QueryInv, EntriesAnswerTheFilter
<1> QED
  BY <1>1, <1>4, <1>5, PTL DEF Spec

-----------------------------------------------------------------------------
(* Types *)

\* Selection counts as this module does.
LEMMA SameCardinality == \A S : Tables!Cardinality(S) = Cardinality(S)
BY DEF Tables!Cardinality, Cardinality

\* What is left of a finite set of entries is no larger.
LEMMA RowInRange ==
  ASSUME NEW entries, IsFiniteSet(entries), NEW e
  PROVE  Tables!RowOf(entries, e) \in 0..Cardinality(entries)
<1> DEFINE above == {f \in entries : f.id <= e.id}
<1>1. IsFiniteSet(above) /\ Cardinality(above) <= Cardinality(entries)
  BY FS_Subset
<1>2. Cardinality(above) \in Nat /\ Cardinality(entries) \in Nat
  BY <1>1, FS_CardinalityType
<1> QED
  BY <1>1, <1>2, SameCardinality DEF Tables!RowOf

\* The strengthening of the types of the tables.
TablesInv ==
  /\ Tables!TypeOK
  /\ IsFiniteSet(snapshot) /\ IsFiniteSet(rows)
  /\ stage # "page" => named \in Tables!Entries

\* The entry of an identifier in use is of its type.
LEMMA EntryType ==
  ASSUME Tables!TypeOK, NEW i \in alive
  PROVE  Tables!Entry(i) \in Tables!Entries
<1>1. starts[i] \in 1..MaxStarts
  BY PagesFacts DEF Tables!TypeOK
<1> QED
  BY <1>1 DEF Tables!TypeOK, Tables!Entry, Tables!Entries

\* A snapshot lists finitely many entries, of their type.
LEMMA SnapshotType ==
  ASSUME Tables!TypeOK
  PROVE  /\ {Tables!Entry(i) : i \in alive} \subseteq Tables!Entries
         /\ IsFiniteSet({Tables!Entry(i) : i \in alive})
<1> DEFINE T == {Tables!Entry(i) : i \in alive}
           f == [i \in alive |-> Tables!Entry(i)]
<1>1. IsFiniteSet(alive)
  BY PagesFacts, FS_Subset DEF Tables!TypeOK
<1>2. f \in Surjection(alive, T)
  BY DEF Surjection
<1>3. IsFiniteSet(T)
  BY <1>1, <1>2, FS_Surjection
<1>4. T \subseteq Tables!Entries
  BY EntryType
<1> QED
  BY <1>3, <1>4

\* A row the filter lets through is a row, and its entry is one of the table.
LEMMA ShownRow ==
  ASSUME NEW entries, IsFiniteSet(entries), NEW passed, NEW k \in Tables!Shown(entries, passed)
  PROVE  /\ k \in 0..Cardinality(entries)
         /\ Tables!At(entries, k) \in entries
<1>1. PICK e \in entries : k = Tables!RowOf(entries, e)
  BY DEF Tables!Shown
<1>2. \E f \in entries : Tables!RowOf(entries, f) = k
  BY <1>1
<1>3. Tables!At(entries, k) \in entries
  BY <1>2 DEF Tables!At
<1> QED
  BY <1>1, <1>3, RowInRange

\* New rows keep the selection in range, and what the pages hear of it is of its type.
LEMMA SetRowsType ==
  ASSUME TablesInv, NEW new, new \subseteq Tables!Entries, IsFiniteSet(new),
         NEW passed \in SUBSET Ids, Tables!SetRows(new, passed)
  PROVE  /\ rows' \subseteq Tables!Entries /\ IsFiniteSet(rows')
         /\ accepted' \subseteq Ids
         /\ current' \in 0..Cardinality(rows') /\ row' \in {0, current'}
         /\ Tables!Tracked(new, passed) \in Ids \cup {NoId}
         /\ Tables!Detailed(new, passed) \in Tables!Entries \cup {NoEntry}
<1>1. Cardinality(new) \in Nat /\ rows' = new /\ accepted' = passed
  BY FS_CardinalityType DEF Tables!SetRows
<1>2. /\ IsFiniteSet(rows) /\ current \in 0..Cardinality(rows) /\ row \in {0, current}
      /\ selected \in Ids \cup {NoId} /\ panel \in Tables!Entries \cup {NoEntry}
  BY SameCardinality DEF TablesInv, Tables!TypeOK
<1>3. CASE Tables!Cardinality(new) # Tables!Cardinality(rows)
  <2>1. current' = 0 /\ row' = 0 /\ ~Tables!Signals(new, passed)
    BY <1>3 DEF Tables!SetRows, Tables!Signals, Tables!TakenAway
  <2> QED
    BY <1>1, <1>2, <2>1 DEF Tables!Tracked, Tables!Detailed
<1>4. CASE /\ Tables!Cardinality(new) = Tables!Cardinality(rows)
           /\ ~Tables!TakenAway(new, passed)
  <2>1. current' = current /\ row' = row /\ ~Tables!Signals(new, passed)
    BY <1>4 DEF Tables!SetRows, Tables!Signals
  <2>2. Cardinality(new) = Cardinality(rows)
    BY <1>4, SameCardinality
  <2> QED
    BY <1>1, <1>2, <2>1, <2>2 DEF Tables!Tracked, Tables!Detailed
<1>5. CASE /\ Tables!Cardinality(new) = Tables!Cardinality(rows)
           /\ Tables!TakenAway(new, passed)
  <2>1. row' = current' /\ current' \in Tables!Neighbours(new, passed)
    BY <1>5 DEF Tables!SetRows
  <2>2. current' = 0 \/ current' \in Tables!Shown(new, passed)
    BY <2>1 DEF Tables!Neighbours
  <2>3. current' \in 0..Cardinality(new)
    BY <1>1, <2>2, ShownRow
  <2>4. row' # 0 => Tables!At(new, row') \in Tables!Entries
    BY <2>1, <2>2, ShownRow
  <2>5. row' # 0 => Tables!At(new, row').id \in Ids
    BY <2>4 DEF Tables!Entries
  <2> QED
    BY <1>1, <1>2, <2>1, <2>3, <2>4, <2>5 DEF Tables!Tracked, Tables!Detailed, Tables!IdAt
<1> QED
  BY <1>3, <1>4, <1>5

\* What the page follows is an identifier or nothing, and the panel keeps its type.
LEMMA FollowType ==
  ASSUME TablesInv, NEW i \in Ids \cup {NoId}, Tables!Follow(i)
  PROVE  selected' \in Ids \cup {NoId} /\ panel' \in Tables!Entries \cup {NoEntry}
BY EntryType DEF TablesInv, Tables!TypeOK, Tables!Follow, Tables!Inspected

\* A new tree is of its type.
LEMMA RebuildType ==
  ASSUME TablesInv, NEW new, NEW passed \in SUBSET Ids, NEW followed \in Ids \cup {NoId},
         Tables!Rebuild(new, passed, followed)
  PROVE  /\ items' \subseteq Ids
         /\ item' \in items' \cup {NoId}
         /\ selected' \in Ids \cup {NoId} /\ panel' \in Tables!Entries \cup {NoEntry}
<1> DEFINE subject == IF item # NoId THEN item ELSE followed
<1>1. subject \in Ids \cup {NoId}
  BY DEF TablesInv, Tables!TypeOK
<1>2. /\ items' = Tables!IdsOf(new) \cap passed
      /\ item' = IF subject \in items' THEN subject ELSE NoId
      /\ Tables!Follow(subject)
  BY DEF Tables!Rebuild
<1> HIDE DEF subject
<1> QED
  BY <1>1, <1>2, FollowType

\* The types of what a snapshot, filter or switch of the view changes.
Viewed ==
  /\ rows' \subseteq Tables!Entries /\ IsFiniteSet(rows')
  /\ accepted' \subseteq Ids
  /\ current' \in 0..Cardinality(rows') /\ row' \in {0, current'}
  /\ items' \subseteq Ids
  /\ item' \in items' \cup {NoId}
  /\ selected' \in Ids \cup {NoId} /\ panel' \in Tables!Entries \cup {NoEntry}

\* A snapshot keeps the types.
LEMMA SnapshotStep ==
  ASSUME TablesInv, NEW passed \in SUBSET Ids, Tables!OnSnapshot(passed)
  PROVE  TablesInv'
<1> DEFINE new == {Tables!Entry(i) : i \in alive}
<1> USE DEF TablesInv
<1>1. new \subseteq Tables!Entries /\ IsFiniteSet(new)
  BY SnapshotType
<1>2. /\ snapshot' = new
      /\ IF kind = "processes" THEN Tables!RefreshProcesses(new, passed)
         ELSE Tables!RefreshServices(new, passed)
      /\ victim' = NoEntry
      /\ UNCHANGED <<kind, starts, alive, tree, stage, named, jobs>>
  BY DEF Tables!OnSnapshot, Tables!world
<1> HIDE DEF new
<1>3. CASE kind = "processes" /\ tree
  <2>1. Tables!Rebuild(new, passed, selected) /\ UNCHANGED <<rows, accepted, current, row>>
    BY <1>2, <1>3 DEF Tables!RefreshProcesses, Tables!table
  <2>2. selected \in Ids \cup {NoId}
    BY DEF Tables!TypeOK
  <2>3. Viewed
    BY <2>1, <2>2, RebuildType, SameCardinality DEF Viewed, Tables!TypeOK
  <2> QED
    BY <1>1, <1>2, <2>3, SameCardinality DEF Viewed, Tables!TypeOK, Tables!Entries
<1>4. CASE kind = "processes" /\ ~tree
  <2>1. Tables!SetRows(new, passed) /\ UNCHANGED <<items, item>>
    BY <1>2, <1>4 DEF Tables!RefreshProcesses, Tables!KeepTree
  <2>2. Tables!Follow(Tables!Tracked(new, passed))
    BY <1>2, <1>4 DEF Tables!RefreshProcesses
  <2>3. Tables!Tracked(new, passed) \in Ids \cup {NoId}
    BY <1>1, <2>1, SetRowsType
  <2>4. selected' \in Ids \cup {NoId} /\ panel' \in Tables!Entries \cup {NoEntry}
    BY <2>2, <2>3, FollowType
  <2>5. Viewed
    BY <1>1, <2>1, <2>4, SetRowsType DEF Viewed, Tables!TypeOK
  <2> QED
    BY <1>1, <1>2, <2>5, SameCardinality DEF Viewed, Tables!TypeOK, Tables!Entries
<1>5. CASE kind # "processes"
  <2>1. /\ UNCHANGED <<items, item, selected>>
        /\ \/ Tables!SetRows(new, passed) /\ panel' = Tables!Detailed(new, passed)
           \/ UNCHANGED <<rows, accepted, current, row, panel>>
    BY <1>2, <1>5 DEF Tables!RefreshServices, Tables!KeepTree, Tables!table, Tables!SetUnit
  <2>2. Viewed
    BY <1>1, <2>1, SetRowsType, SameCardinality DEF Viewed, Tables!TypeOK
  <2> QED
    BY <1>1, <1>2, <2>2, SameCardinality DEF Viewed, Tables!TypeOK, Tables!Entries
<1> QED
  BY <1>3, <1>4, <1>5

\* A filter or a switch of the view keeps the types.
LEMMA ViewStep ==
  ASSUME TablesInv, NEW passed \in SUBSET Ids,
         Tables!ApplyFilter(passed) \/ Tables!ToggleView(passed)
  PROVE  TablesInv'
<1> USE DEF TablesInv
<1>1. UNCHANGED <<kind, starts, alive, snapshot, stage, named, jobs>> /\ victim' = NoEntry
  BY DEF Tables!ApplyFilter, Tables!ToggleView, Tables!world, Tables!SetUnit
<1>2. tree' \in BOOLEAN
  BY DEF Tables!ApplyFilter, Tables!ToggleView, Tables!TypeOK, Tables!SetUnit
<1>3. SUFFICES Viewed
  BY <1>1, <1>2, <1>3, SameCardinality DEF Viewed, Tables!TypeOK, Tables!Entries
<1>4. selected \in Ids \cup {NoId} /\ NoId \in Ids \cup {NoId}
  BY DEF Tables!TypeOK
<1>5. CASE Tables!ApplyFilter(passed)
  <2> DEFINE kept == Tables!Tracked(rows, passed)
             detail == Tables!Detailed(rows, passed)
  <2>1. /\ Tables!SetRows(rows, passed)
        /\ \/ UNCHANGED <<items, item, selected>> /\ panel' \in {detail, panel}
           \/ UNCHANGED <<items, item>> /\ Tables!Follow(kept)
           \/ Tables!Rebuild(snapshot, passed, kept)
    BY <1>5 DEF Tables!ApplyFilter, Tables!KeepTree, Tables!SetUnit
  <2>2. /\ rows' \subseteq Tables!Entries /\ IsFiniteSet(rows')
        /\ accepted' \subseteq Ids
        /\ current' \in 0..Cardinality(rows') /\ row' \in {0, current'}
        /\ kept \in Ids \cup {NoId} /\ detail \in Tables!Entries \cup {NoEntry}
    BY <2>1, SetRowsType DEF Tables!TypeOK
  <2> HIDE DEF kept, detail
  <2>3. /\ items' \subseteq Ids
        /\ item' \in items' \cup {NoId}
        /\ selected' \in Ids \cup {NoId} /\ panel' \in Tables!Entries \cup {NoEntry}
    BY <2>1, <2>2, FollowType, RebuildType DEF Tables!TypeOK
  <2> QED
    BY <2>2, <2>3 DEF Viewed
<1>6. CASE Tables!ToggleView(passed) /\ tree
  <2>1. /\ Tables!SetRows(snapshot, passed)
        /\ UNCHANGED <<items, item>>
        /\ \/ Tables!Follow(Tables!Tracked(snapshot, passed))
           \/ UNCHANGED <<selected, panel>>
    BY <1>6 DEF Tables!ToggleView, Tables!KeepTree
  <2>2. snapshot \subseteq Tables!Entries
    BY DEF Tables!TypeOK
  <2>3. selected' \in Ids \cup {NoId} /\ panel' \in Tables!Entries \cup {NoEntry}
    BY <1>4, <2>1, <2>2, FollowType, SetRowsType DEF Tables!TypeOK
  <2> QED
    BY <2>1, <2>2, <2>3, SetRowsType, SameCardinality DEF Viewed, Tables!TypeOK
<1>7. CASE Tables!ToggleView(passed) /\ ~tree
  <2>1. Tables!Rebuild(snapshot, passed, selected) /\ UNCHANGED <<rows, accepted, current, row>>
    BY <1>7 DEF Tables!ToggleView, Tables!table
  <2> QED
    BY <1>4, <2>1, RebuildType, SameCardinality DEF Viewed, Tables!TypeOK
<1> QED
  BY <1>5, <1>6, <1>7

\* Every step of a table keeps the types.
LEMMA TablesStep == TablesInv /\ Tables!Next => TablesInv'
<1> SUFFICES ASSUME TablesInv, Tables!Next
             PROVE  TablesInv'
  OBVIOUS
<1> USE DEF TablesInv
<1>1. ASSUME NEW i \in Ids, Tables!Appear(i)
      PROVE  TablesInv'
  <2>1. /\ starts' = [starts EXCEPT ![i] = @ + 1] /\ starts[i] < MaxStarts
        /\ alive' = alive \cup {i} /\ victim' = NoEntry
        /\ UNCHANGED <<kind, snapshot, rows, accepted, current, row, tree, items, item, selected, panel, stage,
                       named, jobs>>
    BY <1>1 DEF Tables!Appear, Tables!table, Tables!view
  <2>2. starts' \in [Ids -> 0..MaxStarts] /\ \A j \in alive' : starts'[j] > 0
    BY <2>1, PagesFacts DEF Tables!TypeOK
  <2> QED
    BY <2>1, <2>2, SameCardinality DEF Tables!TypeOK, Tables!Entries
<1>2. ASSUME NEW i \in Ids, Tables!Disappear(i)
      PROVE  TablesInv'
  BY <1>2, SameCardinality
     DEF Tables!Disappear, Tables!table, Tables!view, Tables!TypeOK, Tables!Entries
<1>3. ASSUME NEW passed \in SUBSET Ids,
             Tables!OnSnapshot(passed) \/ Tables!ApplyFilter(passed) \/ Tables!ToggleView(passed)
      PROVE  TablesInv'
  BY <1>3, SnapshotStep, ViewStep
<1>4. ASSUME NEW i \in Ids, Tables!SelectItem(i)
      PROVE  TablesInv'
  <2>1. /\ UNCHANGED <<kind, starts, alive, snapshot, rows, accepted, current, row, tree, items, stage, named, jobs>>
        /\ i \in items /\ item' = i /\ Tables!Follow(i) /\ victim' = NoEntry
    BY <1>4 DEF Tables!SelectItem, Tables!world, Tables!table
  <2>2. selected' \in Ids \cup {NoId} /\ panel' \in Tables!Entries \cup {NoEntry}
    BY <2>1, FollowType
  <2> QED
    BY <2>1, <2>2, SameCardinality DEF Tables!TypeOK, Tables!Entries
<1>5. ASSUME NEW e \in rows, Tables!SelectRow(e)
      PROVE  TablesInv'
  <2>1. /\ UNCHANGED <<kind, starts, alive, snapshot, rows, accepted, tree, items, item, stage, named, jobs>>
        /\ row' = Tables!RowOf(rows, e) /\ current' = row' /\ victim' = NoEntry
        /\ \/ Tables!Follow(e.id)
           \/ panel' = e /\ UNCHANGED selected
    BY <1>5 DEF Tables!SelectRow, Tables!world, Tables!KeepTree, Tables!SetUnit
  <2>2. e \in Tables!Entries /\ e.id \in Ids
    BY DEF Tables!TypeOK, Tables!Entries
  <2>3. selected' \in Ids \cup {NoId} /\ panel' \in Tables!Entries \cup {NoEntry}
    BY <2>1, <2>2, FollowType DEF Tables!TypeOK
  <2>4. current' \in 0..Cardinality(rows')
    BY <2>1, RowInRange
  <2> QED
    BY <2>1, <2>3, <2>4, SameCardinality DEF Tables!TypeOK, Tables!Entries
<1>11. ASSUME NEW e \in rows, Tables!Focus(e)
      PROVE  TablesInv'
  <2>1. /\ UNCHANGED <<kind, starts, alive, snapshot, rows, accepted, row, tree, items, item,
                       selected, panel, stage, named, jobs>>
        /\ current = 0 /\ current' = Tables!RowOf(rows, e) /\ victim' = NoEntry
    BY <1>11 DEF Tables!Focus, Tables!world, Tables!view
  <2>2. current' \in 0..Cardinality(rows') /\ row' = 0
    BY <2>1, RowInRange DEF Tables!TypeOK
  <2> QED
    BY <2>1, <2>2, SameCardinality DEF Tables!TypeOK, Tables!Entries
<1>12. CASE Tables!Deselect
  <2>1. /\ UNCHANGED <<kind, starts, alive, snapshot, rows, accepted, current, tree, items, item,
                       stage, named, jobs>>
        /\ row' = 0 /\ victim' = NoEntry
        /\ \/ Tables!Follow(NoId)
           \/ panel' = NoEntry /\ UNCHANGED selected
    BY <1>12 DEF Tables!Deselect, Tables!world, Tables!KeepTree, Tables!SetUnit
  <2>2. selected' \in Ids \cup {NoId} /\ panel' \in Tables!Entries \cup {NoEntry}
    BY <2>1, FollowType DEF Tables!TypeOK
  <2> QED
    BY <2>1, <2>2, SameCardinality DEF Tables!TypeOK, Tables!Entries
<1>6. ASSUME NEW i \in Ids, Tables!OnActionFinished(i)
      PROVE  TablesInv'
  BY <1>6, SameCardinality
     DEF Tables!OnActionFinished, Tables!world, Tables!table, Tables!view, Tables!TypeOK, Tables!Entries
<1>7. CASE Tables!ShowContextMenu
  <2>1. /\ UNCHANGED <<kind, starts, alive, snapshot, rows, accepted, current, row, tree, items, item, selected,
                       panel, jobs>>
        /\ stage' = "menu" /\ named' \in Tables!Subject /\ victim' = NoEntry
    BY <1>7 DEF Tables!ShowContextMenu, Tables!world, Tables!table, Tables!view
  <2>2. named' \in Tables!Entries
    BY <2>1, SubjectIsListed DEF Tables!TypeOK
  <2> QED
    BY <2>1, <2>2, SameCardinality DEF Tables!TypeOK, Tables!Entries
<1>8. CASE Tables!Ask \/ Tables!Dismiss
  BY <1>8, SameCardinality
     DEF Tables!Ask, Tables!Dismiss, Tables!world, Tables!table, Tables!view, Tables!TypeOK, Tables!Entries
<1>9. CASE Tables!Signal
  <2>1. /\ UNCHANGED <<kind, starts, alive, snapshot, rows, accepted, current, row, tree, items, item, selected,
                       panel, jobs>>
        /\ stage' = "page" /\ named' = NoEntry
        /\ victim' = NoEntry \/ \E i \in alive : victim' = Tables!Entry(i)
    BY <1>9 DEF Tables!Signal, Tables!Reached, Tables!world, Tables!table, Tables!view, Tables!Struck
  <2>2. victim' \in Tables!Entries \cup {NoEntry}
    BY <2>1, EntryType
  <2> QED
    BY <2>1, <2>2, SameCardinality DEF Tables!TypeOK, Tables!Entries
<1>10. CASE Tables!Control
  <2>1. /\ UNCHANGED <<kind, starts, alive, snapshot, rows, accepted, current, row, tree, items, item, selected,
                       panel>>
        /\ stage = "prompt" /\ stage' = "page" /\ named' = NoEntry /\ victim' = NoEntry
        /\ jobs' = jobs \cup {named.id}
    BY <1>10 DEF Tables!Control, Tables!world, Tables!table, Tables!view, Tables!StartAction
  <2>2. named.id \in Ids
    BY <2>1 DEF Tables!Entries
  <2> QED
    BY <2>1, <2>2, SameCardinality DEF Tables!TypeOK, Tables!Entries
<1> QED
  BY <1>1, <1>2, <1>3, <1>4, <1>5, <1>6, <1>7, <1>8, <1>9, <1>10, <1>11, <1>12 DEF Tables!Next

\* Every step of the work in the background keeps its types.
LEMMA WorkStep == Work!TypeOK /\ Work!Next => Work!TypeOK'
<1> SUFFICES ASSUME Work!TypeOK, Work!Next
             PROVE  Work!TypeOK'
  OBVIOUS
<1> USE DEF Work!TypeOK
<1>1. ASSUME NEW f \in Filters, Work!ChangeFilter(f) \/ Work!TypeFilter(f)
      PROVE  Work!TypeOK'
  BY <1>1 DEF Work!ChangeFilter, Work!TypeFilter, Work!Reload, Work!probing, Work!writing
<1>2. ASSUME NEW f \in Filters, Work!Answer(f)
      PROVE  Work!TypeOK'
  BY <1>2 DEF Work!Answer, Work!probing, Work!writing, Work!EndQuery, Work!Results
<1>3. ASSUME NEW f \in Filters, Work!OpenLogsForUnit(f)
      PROVE  Work!TypeOK'
  BY <1>3 DEF Work!OpenLogsForUnit, Work!Reload, Work!probing, Work!writing, Work!PageNames
<1>4. ASSUME NEW p \in Work!PageNames, Work!Navigate(p)
      PROVE  Work!TypeOK'
  BY <1>4 DEF Work!Navigate, Work!Shown, Work!Reload, Work!writing, Work!SyncProbeAvailability
<1>5. ASSUME NEW p \in Work!PageNames, Work!Restart(p)
      PROVE  Work!TypeOK'
  <2>1. probes' \in 0..MaxProbes
    BY <1>5, PagesFacts DEF Work!Restart, Work!Offered, Work!SyncProbeAvailability
  <2> QED
    BY <1>5, <2>1, Zenon DEF Work!Restart, Work!Offered, Work!SyncProbeAvailability
<1>6. CASE Work!SetOptIn \/ Work!RunProbe \/ Work!OnProbeFinished
  <2>1. probes' \in 0..MaxProbes
    BY <1>6, PagesFacts DEF Work!SetOptIn, Work!RunProbe, Work!OnProbeFinished, Work!probing, Work!EndProbe
  <2>2. optIn' \in BOOLEAN /\ button' \in BOOLEAN
    BY <1>6, Zenon DEF Work!SetOptIn, Work!RunProbe, Work!OnProbeFinished, Work!probing, Work!EndProbe
  <2>3. UNCHANGED <<page, readable, filter, loading, queries, dropped, loaded, found, editor, notes, saving>>
    BY <1>6 DEF Work!SetOptIn, Work!RunProbe, Work!OnProbeFinished, Work!journal, Work!writing, Work!EndProbe
  <2> QED
    BY <2>1, <2>2, <2>3
<1>7. CASE Work!SaveNotes \/ Work!Rebuild \/ \E t \in Texts : Work!Type(t)
  BY <1>7 DEF Work!SaveNotes, Work!Rebuild, Work!Type, Work!journal, Work!probing
<1> QED
  BY <1>1, <1>2, <1>3, <1>4, <1>5, <1>6, <1>7 DEF Work!Next

\* Every variable of the tables and of the background work keeps its type, for any
\* entries, filters and bounds: in particular the selected row is a row of the table
\* (app/ui/widgets/table.py, pages/processes.py, services.py, logs.py, network.py).
THEOREM TypeCorrect == Spec => []TypeOK
<1>1. ASSUME Init
      PROVE  TablesInv
  <2>1. Tables!Init
    BY <1>1 DEF Init
  <2>2. rows = {} /\ snapshot = {} /\ current = 0 /\ row = 0 /\ IsFiniteSet({}) /\ Cardinality({}) = 0
    BY <2>1, FS_EmptySet DEF Tables!Init
  <2>3. current \in 0..Tables!Cardinality(rows) /\ row \in {0, current}
    BY <2>2, SameCardinality
  <2>4. starts \in [Ids -> 0..MaxStarts]
    BY <2>1, PagesFacts DEF Tables!Init
  <2> QED
    BY <2>1, <2>2, <2>3, <2>4 DEF Tables!Init, TablesInv, Tables!TypeOK
<1>2. ASSUME Init
      PROVE  Work!TypeOK
  <2>1. probes \in 0..MaxProbes
    BY <1>2, PagesFacts DEF Init, Work!Init, Work!Offered
  <2>2. Work!Init
    BY <1>2 DEF Init
  <2> QED
    BY <2>1, <2>2, Zenon DEF Work!Init, Work!TypeOK, Work!Offered
<1>3. TablesInv /\ UNCHANGED tableVars => TablesInv'
  BY SameCardinality DEF TablesInv, Tables!TypeOK, Tables!Entries, tableVars
<1>4. Work!TypeOK /\ UNCHANGED workVars => Work!TypeOK'
  BY DEF Work!TypeOK, workVars
<1>5. [Next]_vars => (Tables!Next \/ UNCHANGED tableVars) /\ (Work!Next \/ UNCHANGED workVars)
  BY DEF Next, vars
<1>6. TablesInv /\ Work!TypeOK /\ [Next]_vars => TablesInv' /\ Work!TypeOK'
  BY <1>3, <1>4, <1>5, TablesStep, WorkStep
<1>7. TablesInv /\ Work!TypeOK => TypeOK
  BY DEF TablesInv, TypeOK
<1> QED
  BY <1>1, <1>2, <1>6, <1>7, PTL DEF Spec

-----------------------------------------------------------------------------
(* Least numbers, counting and iteration *)

\* A set of natural numbers that is not empty has a least one.
LEMMA LeastNatural ==
  ASSUME NEW T \in SUBSET Nat, T # {}
  PROVE  \E m \in T : \A k \in T : m <= k
<1>1. PICK m \in T : \A k \in T : ~ (<<k, m>> \in OpToRel(<, Nat))
  BY NatLessThanWellFounded, WFMin
<1>2. \A k \in T : ~(k < m)
  BY <1>1 DEF OpToRel
<1> QED
  BY <1>2


\* Induction up to a number, with a set for the predicate.
LEMMA Counting ==
  ASSUME NEW N \in Nat, NEW S, 0 \in S, \A n \in 0..(N - 1) : n \in S => n + 1 \in S
  PROVE  0..N \subseteq S
<1> DEFINE T == 0..N \ S
<1>1. ASSUME T # {}
      PROVE  FALSE
  <2>1. T \in SUBSET Nat
    OBVIOUS
  <2>2. PICK m \in T : \A k \in T : m <= k
    <3> HIDE DEF T
    <3> QED
      BY <1>1, <2>1, LeastNatural
  <2>3. m \in 1..N /\ m \notin S
    BY <2>2
  <2>4. m - 1 \in 0..(N - 1) /\ ~(m <= m - 1)
    BY <2>3
  <2>5. m - 1 \in S
    BY <2>2, <2>4
  <2> QED
    BY <2>3, <2>4, <2>5
<1> QED
  BY <1>1

\* A value of V is changed N times, step[n] being the n-th change: f is what becomes
\* of it.
Changes(N, V, step) == \A n \in 1..N : \A v \in V : step[n][v] \in V
Becomes(N, c, step, f) == \A n \in 0..N : f[n] = IF n = 0 THEN c ELSE step[n][f[n - 1]]

\* There is such a function.
LEMMA Iteration ==
  ASSUME NEW N \in Nat, NEW V, NEW c \in V, NEW step, Changes(N, V, step)
  PROVE  \E f \in [0..N -> V] : Becomes(N, c, step, f)
<1> USE DEF Changes, Becomes
<1> DEFINE Upto(m) == \E f \in [0..m -> V] :
                        \A n \in 0..m : f[n] = IF n = 0 THEN c ELSE step[n][f[n - 1]]
           S == {m \in 0..N : Upto(m)}
<1>1. 0 \in S
  <2> DEFINE g == [n \in 0..0 |-> c]
  <2>1. g \in [0..0 -> V]
    OBVIOUS
  <2>2. \A n \in 0..0 : n = 0
    OBVIOUS
  <2>3. \A n \in 0..0 : g[n] = IF n = 0 THEN c ELSE step[n][g[n - 1]]
    BY <2>2
  <2> HIDE DEF g
  <2>4. Upto(0)
    BY <2>1, <2>3
  <2> QED
    BY <2>4
<1>2. ASSUME NEW k \in 0..(N - 1), k \in S
      PROVE  k + 1 \in S
  <2> DEFINE m == k + 1
  <2>1. m \in 1..N /\ m \in 0..N /\ m - 1 = k
    OBVIOUS
  <2>2. PICK f \in [0..k -> V] :
          \A n \in 0..k : f[n] = IF n = 0 THEN c ELSE step[n][f[n - 1]]
    BY <1>2
  <2> HIDE DEF m
  <2> DEFINE g == [n \in 0..m |-> IF n < m THEN f[n] ELSE step[m][f[k]]]
  <2>3. f[k] \in V /\ step[m][f[k]] \in V
    BY <2>1, <2>2
  <2>4. g \in [0..m -> V]
    BY <2>1, <2>2, <2>3
  <2>5. ASSUME NEW n \in 0..m
        PROVE  g[n] = IF n = 0 THEN c ELSE step[n][g[n - 1]]
    <3>1. CASE n = m
      BY <3>1, <2>1
    <3>2. CASE n < m
      <4>1. n \in 0..k /\ (n # 0 => n - 1 \in 0..k /\ n - 1 < m)
        BY <3>2, <2>1
      <4>2. f[n] = IF n = 0 THEN c ELSE step[n][f[n - 1]]
        BY <4>1, <2>2
      <4> QED
        BY <4>1, <4>2, <3>2, <2>1
    <3> QED
      BY <3>1, <3>2, <2>1
  <2> HIDE DEF g
  <2>6. Upto(m)
    BY <2>4, <2>5
  <2> QED
    BY <2>1, <2>6 DEF m
<1> HIDE DEF S
<1>3. 0..N \subseteq S
  BY <1>1, <1>2, Counting
<1>4. N \in S
  BY <1>3
<1> QED
  BY <1>4 DEF S

-----------------------------------------------------------------------------
(* Charts *)

\* What is assumed of the metrics and of the values of samples.
LEMMA ChartsFacts ==
  /\ Metrics \in Seq(Plots!Keys) /\ Metrics # <<>>
  /\ \A p \in Peaks : p \in Nat /\ p <= 100000
  /\ Capacity \in Nat \ {0}
  /\ Missing \notin Peaks
<1>1. \A p \in {1000 * n : n \in 0..100} : p \in Nat /\ p <= 100000
  OBVIOUS
<1>2. Plots!ChartsAssumption
  BY PagesAssumption
<1>3. Peaks \subseteq {1000 * n : n \in 0..100}
  BY <1>2 DEF Plots!ChartsAssumption
<1> QED
  BY <1>1, <1>2, <1>3 DEF Plots!ChartsAssumption

\* A ring buffer or the stored rows of a metric are a sequence of bounded length.
LEMMA SamplesAre ==
  \A s : s \in Plots!Samples <=> s \in Seq(Peaks) /\ Len(s) <= Capacity
<1>1. ASSUME NEW s \in Plots!Samples
      PROVE  s \in Seq(Peaks) /\ Len(s) <= Capacity
  <2>1. PICK n \in 0..Capacity : s \in [1..n -> Peaks]
    BY DEF Plots!Samples, Plots!BoundedSeq, Plots!SeqOf
  <2>2. s \in Seq(Peaks)
    BY <2>1, SeqDef
  <2> QED
    BY <2>1, <2>2, LenProperties, ChartsFacts
<1>2. ASSUME NEW s \in Seq(Peaks), Len(s) <= Capacity
      PROVE  s \in Plots!Samples
  <2>1. s \in [1..Len(s) -> Peaks] /\ Len(s) \in 0..Capacity
    BY <1>2, LenProperties, ChartsFacts
  <2>2. PICK n \in 0..Capacity : s \in [1..n -> Peaks]
    BY <2>1
  <2> QED
    BY <2>2 DEF Plots!Samples, Plots!BoundedSeq, Plots!SeqOf
<1> QED
  BY <1>1, <1>2

\* Rounding up to a step of the axis does so, as far as the steps go.
LEMMA RoundUpFacts ==
  ASSUME NEW v \in Nat, v <= 500000
  PROVE  Plots!RoundUp(v) \in Nat /\ Plots!RoundUp(v) >= v
<1> DEFINE T == {s \in Plots!Steps : s >= v}
<1>1. T \subseteq Nat
  BY DEF Plots!Steps
<1>2. T # {}
  <2>1. 5000 * 100 \in Plots!Steps
    BY DEF Plots!Steps
  <2> QED
    BY <2>1
<1>3. \E m \in T : \A k \in T : m <= k
  <2> HIDE DEF T
  <2> QED
    BY <1>1, <1>2, LeastNatural
<1>4. Plots!RoundUp(v) \in T
  <2>1. Plots!RoundUp(v) = CHOOSE x \in T : \A y \in T : x =< y
    BY DEF Plots!RoundUp, Plots!Min
  <2> HIDE DEF T
  <2> QED
    BY <1>3, <2>1
<1> QED
  BY <1>1, <1>4

\* The peak of samples is one of them, and none is higher.
LEMMA PeakFacts ==
  ASSUME NEW s \in Plots!Samples, s # <<>>
  PROVE  /\ Plots!Peak(s) \in Peaks
         /\ \A i \in DOMAIN s : s[i] <= Plots!Peak(s)
<1> DEFINE R == Plots!Range(s)
           T == {100000 - p : p \in R}
<1>1. s \in Seq(Peaks) /\ Len(s) \in Nat \ {0}
  BY SamplesAre, EmptySeq
<1>2. R = {s[i] : i \in DOMAIN s} /\ R \subseteq Peaks /\ R # {}
  <2>1. DOMAIN s = 1..Len(s) /\ \A i \in DOMAIN s : s[i] \in Peaks
    BY <1>1, LenProperties
  <2>2. 1 \in DOMAIN s
    BY <1>1, <2>1
  <2> QED
    BY <2>1, <2>2 DEF Plots!Range
<1> HIDE DEF R
<1>3. T \in SUBSET Nat /\ T # {}
  <2>1. \A p \in R : p \in Nat /\ 100000 - p \in Nat
    BY <1>2, ChartsFacts
  <2>2. R # {}
    BY <1>2
  <2> QED
    BY <2>1, <2>2
<1>4. \E m \in R : \A k \in R : m >= k
  <2>1. PICK t \in T : \A u \in T : t <= u
    <3> HIDE DEF T
    <3> QED
      BY <1>3, LeastNatural
  <2>2. PICK m \in R : t = 100000 - m
    BY <2>1
  <2>3. \A k \in R : 100000 - m <= 100000 - k
    BY <2>1, <2>2
  <2>4. \A k \in R : k \in Nat
    BY <1>2, ChartsFacts
  <2>5. \A k \in R : m >= k
    BY <2>3, <2>4
  <2> QED
    BY <2>5
<1>5. Plots!Peak(s) = CHOOSE x \in R : \A y \in R : x >= y
  BY DEF Plots!Peak, Plots!Max, R
<1>6. Plots!Peak(s) \in R /\ \A y \in R : Plots!Peak(s) >= y
  BY <1>4, <1>5
<1> QED
  BY <1>2, <1>6, ChartsFacts

\* However high or low the axis is, after data are drawn it reaches their peak.
LEMMA GrowFacts ==
  ASSUME NEW c \in Nat, NEW p \in Peaks
  PROVE  Plots!Grow(c, p) \in Nat /\ Plots!Grow(c, p) >= p
<1>1. p \in Nat /\ p <= 100000
  BY ChartsFacts
<1>2. CASE p > c
  <2> DEFINE v == (115 * p) \div 100
  <2>1. v \in Nat /\ v >= p /\ v <= 500000
    BY <1>1
  <2>2. Plots!Grow(c, p) = Plots!RoundUp(v)
    <3>1. ~(100 * p < 35 * c)
      BY <1>1, <1>2
    <3> QED
      BY <1>2, <3>1 DEF Plots!Grow
  <2> HIDE DEF v
  <2> QED
    BY <1>1, <2>1, <2>2, RoundUpFacts
<1>3. CASE ~(p > c) /\ 100 * p < 35 * c
  <2> DEFINE w == Plots!Larger((3 * p) \div 2, 1000)
             d == (3 * c) \div 5
  <2>1. w \in Nat /\ w >= p /\ w <= 500000
    BY <1>1 DEF Plots!Larger
  <2>2. d \in Nat
    OBVIOUS
  <2>3. Plots!Grow(c, p) = Plots!Larger(Plots!RoundUp(w), d)
    BY <1>1, <1>3 DEF Plots!Grow
  <2> HIDE DEF w, d
  <2>4. Plots!RoundUp(w) \in Nat /\ Plots!RoundUp(w) >= w
    BY <2>1, RoundUpFacts
  <2> QED
    BY <1>1, <2>1, <2>2, <2>3, <2>4 DEF Plots!Larger
<1>4. CASE ~(p > c) /\ ~(100 * p < 35 * c)
  <2>1. Plots!Grow(c, p) = c
    BY <1>4 DEF Plots!Grow
  <2> QED
    BY <1>1, <1>4, <2>1
<1> QED
  BY <1>2, <1>3, <1>4

\* Data that are drawn one after the other change the axis like this.
Axis(c, order, data, a) ==
  a = [n \in 0..Len(order) |->
         IF n = 0 THEN c
         ELSE IF data[order[n]] = <<>> THEN a[n - 1]
         ELSE Plots!Grow(a[n - 1], Plots!Peak(data[order[n]]))]

\* There is such an axis, and it is what is drawn.
LEMMA DrawIsAxis ==
  ASSUME NEW c \in Nat, NEW order \in Seq(Plots!Keys), NEW data \in [Plots!Keys -> Plots!Samples]
  PROVE  \E a : Axis(c, order, data, a) /\ Plots!Draw(c, order, data) = a[Len(order)]
<1> DEFINE N == Len(order)
           step == [n \in 1..N |-> [d \in Nat |->
                      IF data[order[n]] = <<>> THEN d
                      ELSE Plots!Grow(d, Plots!Peak(data[order[n]]))]]
           axis == CHOOSE a : Axis(c, order, data, a)
<1>1. N \in Nat /\ \A n \in 1..N : data[order[n]] \in Plots!Samples
  BY LenProperties
<1>2. \A n \in 1..N : data[order[n]] # <<>> => Plots!Peak(data[order[n]]) \in Peaks
  BY <1>1, PeakFacts
<1>3. step \in [1..N -> [Nat -> Nat]]
  BY <1>2, GrowFacts
<1>4. PICK f \in [0..N -> Nat] : \A n \in 0..N : f[n] = IF n = 0 THEN c ELSE step[n][f[n - 1]]
  <2> DEFINE V == Nat
  <2>1. N \in Nat /\ c \in V /\ Changes(N, V, step)
    BY <1>1, <1>3 DEF Changes
  <2> HIDE DEF N, step, V
  <2>2. \E f \in [0..N -> V] : Becomes(N, c, step, f)
    BY <2>1, Iteration
  <2> QED
    BY <2>2 DEF V, Becomes
<1>5. \A n \in 0..N : n # 0 => n \in 1..N /\ f[n - 1] \in Nat
  <2>1. \A n \in 0..N : n # 0 => n \in 1..N /\ n - 1 \in 0..N
    BY <1>1
  <2>2. \A n \in 0..N : f[n] \in Nat
    BY <1>4
  <2> QED
    BY <2>1, <2>2
<1>6. Axis(c, order, data, f)
  <2>1. \A n \in 0..N : f[n] = IF n = 0 THEN c
                              ELSE IF data[order[n]] = <<>> THEN f[n - 1]
                              ELSE Plots!Grow(f[n - 1], Plots!Peak(data[order[n]]))
    BY <1>4, <1>5
  <2> QED
    BY <1>4, <2>1 DEF Axis
<1>7. Axis(c, order, data, axis)
  BY <1>6
<1>8. Plots!Draw(c, order, data) = axis[N]
  BY DEF Plots!Draw, Axis
<1> QED
  BY <1>7, <1>8

\* What drawing makes of the axis: nothing if there are no data, and if they are of
\* one metric only, an axis that reaches their peak, however often it is drawn.
LEMMA DrawFacts ==
  ASSUME NEW c \in Nat, NEW order \in Seq(Plots!Keys), NEW data \in [Plots!Keys -> Plots!Samples]
  PROVE  /\ Plots!Draw(c, order, data) \in Nat
         /\ (\A k \in Plots!Range(order) : data[k] = <<>>) => Plots!Draw(c, order, data) = c
         /\ \A k \in Plots!Range(order) :
              data[k] # <<>> /\ (\A j \in Plots!Range(order) : data[j] # <<>> => j = k)
                => Plots!Draw(c, order, data) >= Plots!Peak(data[k])
<1> DEFINE N == Len(order)
<1>1. PICK a : Axis(c, order, data, a) /\ Plots!Draw(c, order, data) = a[N]
  BY DrawIsAxis
<1>2. /\ N \in Nat /\ DOMAIN order = 1..N
      /\ \A n \in 1..N : order[n] \in Plots!Keys /\ data[order[n]] \in Plots!Samples
  BY LenProperties
<1>3. \A n \in 1..N : data[order[n]] # <<>> => Plots!Peak(data[order[n]]) \in Peaks
  BY <1>2, PeakFacts
<1>4. a[0] = c
  BY <1>1, <1>2 DEF Axis
<1>5. \A n \in 0..(N - 1) :
        a[n + 1] = IF data[order[n + 1]] = <<>> THEN a[n]
                   ELSE Plots!Grow(a[n], Plots!Peak(data[order[n + 1]]))
  <2>1. \A n \in 0..(N - 1) : n + 1 \in 0..N /\ n + 1 # 0 /\ (n + 1) - 1 = n
    BY <1>2
  <2>2. \A m \in 0..N : m # 0 => a[m] = IF data[order[m]] = <<>> THEN a[m - 1]
                                        ELSE Plots!Grow(a[m - 1], Plots!Peak(data[order[m]]))
    BY <1>1 DEF Axis
  <2> QED
    BY <2>1, <2>2
<1>6. \A n \in 0..(N - 1) : n + 1 \in 1..N
  BY <1>2
<1> HIDE DEF N
<1>7. \A n \in 0..N : a[n] \in Nat
  <2> DEFINE S == {n \in 0..N : a[n] \in Nat}
  <2>1. 0 \in S
    BY <1>2, <1>4
  <2>2. ASSUME NEW n \in 0..(N - 1), n \in S
        PROVE  n + 1 \in S
    <3>1. n + 1 \in 1..N /\ n + 1 \in 0..N /\ a[n] \in Nat
      BY <1>2, <1>6, <2>2
    <3>2. a[n + 1] \in Nat
      BY <3>1, <1>3, <1>5, GrowFacts
    <3> QED
      BY <3>1, <3>2
  <2> HIDE DEF S
  <2>3. 0..N \subseteq S
    BY <1>2, <2>1, <2>2, Counting
  <2> QED
    BY <2>3 DEF S
<1>8. ASSUME \A k \in Plots!Range(order) : data[k] = <<>>
      PROVE  a[N] = c
  <2> DEFINE S == {n \in 0..N : a[n] = c}
  <2>1. \A n \in 1..N : data[order[n]] = <<>>
    BY <1>2, <1>8 DEF Plots!Range
  <2>2. 0 \in S
    BY <1>2, <1>4
  <2>3. ASSUME NEW n \in 0..(N - 1), n \in S
        PROVE  n + 1 \in S
    BY <2>1, <2>3, <1>2, <1>5, <1>6
  <2> HIDE DEF S
  <2>4. 0..N \subseteq S
    BY <1>2, <2>2, <2>3, Counting
  <2>5. N \in S
    BY <1>2, <2>4
  <2> QED
    BY <2>5 DEF S
<1>9. ASSUME NEW k \in Plots!Range(order), data[k] # <<>>,
             \A j \in Plots!Range(order) : data[j] # <<>> => j = k
      PROVE  a[N] >= Plots!Peak(data[k])
  <2> DEFINE p == Plots!Peak(data[k])
             S == {n \in 0..N : (\E i \in 1..n : order[i] = k) => a[n] >= p}
  <2>1. \A n \in 1..N : order[n] = k \/ data[order[n]] = <<>>
    BY <1>2, <1>9 DEF Plots!Range
  <2>2. PICK i \in 1..N : order[i] = k
    BY <1>2 DEF Plots!Range
  <2>3. p \in Peaks
    BY <2>2, <1>3, <1>9
  <2>4. 0 \in S
    BY <1>2
  <2>5. ASSUME NEW n \in 0..(N - 1), n \in S
        PROVE  n + 1 \in S
    <3>1. n \in 0..N /\ n + 1 \in 0..N /\ n + 1 \in 1..N /\ a[n] \in Nat
      BY <1>2, <1>6, <1>7
    <3>2. CASE order[n + 1] = k
      <4>1. a[n + 1] = Plots!Grow(a[n], p)
        BY <3>2, <1>5, <1>9
      <4>2. a[n + 1] >= p
        BY <4>1, <3>1, <2>3, GrowFacts
      <4> QED
        BY <3>1, <4>2
    <3>3. CASE order[n + 1] # k
      <4>1. a[n + 1] = a[n]
        BY <3>1, <3>3, <2>1, <1>5
      <4>2. \A m \in 1..(n + 1) : order[m] = k => m \in 1..n
        BY <3>1, <3>3
      <4> QED
        BY <2>5, <3>1, <4>1, <4>2
    <3> QED
      BY <3>2, <3>3
  <2> HIDE DEF S, p
  <2>6. 0..N \subseteq S
    BY <1>2, <2>4, <2>5, Counting
  <2>7. N \in S
    BY <1>2, <2>6
  <2> QED
    BY <2>2, <2>7 DEF S, p
<1>10. a[N] \in Nat
  BY <1>2, <1>7
<1> QED
  BY <1>1, <1>8, <1>9, <1>10 DEF N

\* Of the selected metrics some are plotted.
LEMMA PlottedIsSeq ==
  ASSUME NEW S, NEW order \in Seq(S)
  PROVE  /\ Plots!Plotted(order) \in Seq(S)
         /\ Plots!Range(Plots!Plotted(order)) \subseteq Plots!Range(order)
<1> DEFINE m == IF Len(order) < 6 THEN Len(order) ELSE 6
<1>1. Len(order) \in Nat /\ DOMAIN order = 1..Len(order) /\ \A i \in 1..Len(order) : order[i] \in S
  BY LenProperties
<1>2. m \in Nat /\ 1..m \subseteq 1..Len(order)
  BY <1>1
<1>3. Plots!Plotted(order) = SubSeq(order, 1, m)
  BY DEF Plots!Plotted
<1> HIDE DEF m
<1>4. 1 \in Int /\ m \in Int /\ \A i \in 1..m : order[i] \in S
  BY <1>1, <1>2
<1>5. /\ SubSeq(order, 1, m) \in Seq(S)
      /\ Len(SubSeq(order, 1, m)) = IF 1 <= m THEN m - 1 + 1 ELSE 0
      /\ \A i \in 1..(m - 1 + 1) : SubSeq(order, 1, m)[i] = order[1 + i - 1]
  BY <1>4, SubSeqProperties
<1>6. DOMAIN SubSeq(order, 1, m) = 1..m /\ \A i \in 1..m : SubSeq(order, 1, m)[i] = order[i]
  BY <1>2, <1>5, LenProperties
<1> QED
  BY <1>1, <1>2, <1>3, <1>5, <1>6 DEF Plots!Range

\* What is plotted are samples.
LEMMA PlotDataType ==
  ASSUME Plots!TypeOK
  PROVE  Plots!PlotData \in [Plots!Keys -> Plots!Samples]
BY DEF Plots!TypeOK, Plots!PlotData

\* Selecting items one by one leaves the axis an axis.
LEMMA AxisAfterType ==
  ASSUME Plots!TypeOK, NEW order \in Seq(Plots!Keys)
  PROVE  Plots!AxisAfter(order) \in Nat
<1> DEFINE N == Len(order)
           draw(d, n) == Plots!Draw(d, Plots!Plotted(SubSeq(order, 1, n)), Plots!PlotData)
           step == [n \in 1..N |-> [d \in Nat |-> draw(d, n)]]
           Rec(a) == a = [n \in 0..N |-> IF n = 0 THEN ceiling ELSE draw(a[n - 1], n)]
           axis == CHOOSE a : Rec(a)
<1>1. N \in Nat /\ ceiling \in Nat
  BY LenProperties DEF Plots!TypeOK
<1>2. \A n \in 1..N : \A d \in Nat : draw(d, n) \in Nat
  <2> SUFFICES ASSUME NEW n \in 1..N, NEW d \in Nat
               PROVE  draw(d, n) \in Nat
    OBVIOUS
  <2>1. SubSeq(order, 1, n) \in Seq(Plots!Keys)
    <3>1. \A i \in 1..n : order[i] \in Plots!Keys
      BY <1>1, LenProperties
    <3> QED
      BY <1>1, <3>1, SubSeqProperties
  <2>2. Plots!Plotted(SubSeq(order, 1, n)) \in Seq(Plots!Keys)
    BY <2>1, PlottedIsSeq
  <2> QED
    BY <2>2, PlotDataType, DrawFacts
<1> HIDE DEF draw
<1>3. PICK f \in [0..N -> Nat] : Becomes(N, ceiling, step, f)
  <2> DEFINE V == Nat
  <2>1. N \in Nat /\ ceiling \in V /\ Changes(N, V, step)
    BY <1>1, <1>2 DEF Changes
  <2> HIDE DEF N, step, V
  <2>2. \E f \in [0..N -> V] : Becomes(N, ceiling, step, f)
    BY <2>1, Iteration
  <2> QED
    BY <2>2 DEF V
<1>4. Rec(f)
  <2>1. \A n \in 0..N : n # 0 => n \in 1..N /\ n - 1 \in 0..N
    BY <1>1
  <2>2. \A n \in 0..N : f[n] \in Nat
    BY <1>3
  <2>3. \A n \in 0..N : f[n] = IF n = 0 THEN ceiling ELSE draw(f[n - 1], n)
    BY <1>3, <2>1, <2>2 DEF Becomes
  <2> QED
    BY <1>3, <2>3
<1>5. Rec(axis)
  BY <1>4
<1>6. Plots!AxisAfter(order) = axis[N]
  BY DEF Plots!AxisAfter, draw
<1> HIDE DEF axis
<1>7. 0..N \subseteq {n \in 0..N : axis[n] \in Nat}
  <2> DEFINE S == {n \in 0..N : axis[n] \in Nat}
  <2>1. 0 \in S
    BY <1>1, <1>5
  <2>2. ASSUME NEW n \in 0..(N - 1), n \in S
        PROVE  n + 1 \in S
    <3>1. n + 1 \in 1..N /\ n + 1 \in 0..N /\ (n + 1) - 1 = n /\ n + 1 # 0
      BY <1>1
    <3>2. axis[n + 1] = draw(axis[n], n + 1)
      BY <3>1, <1>5
    <3> QED
      BY <3>1, <3>2, <2>2, <1>2
  <2> HIDE DEF S, N
  <2>3. 0..N \subseteq S
    BY <1>1, <2>1, <2>2, Counting
  <2> QED
    BY <2>3 DEF S
<1>8. axis[N] \in Nat
  BY <1>1, <1>7
<1> QED
  BY <1>6, <1>8

\* There are finitely many metrics.
LEMMA KeysAreFinite == IsFiniteSet(Plots!Keys)
<1>1. Len(Metrics) \in Nat /\ DOMAIN Metrics = 1..Len(Metrics)
  BY ChartsFacts, LenProperties
<1>2. Metrics \in Surjection(1..Len(Metrics), Plots!Keys)
  <2>1. Plots!Keys = {Metrics[i] : i \in DOMAIN Metrics}
    BY DEF Plots!Keys, Plots!Range
  <2> QED
    BY <1>1, <2>1, ChartsFacts, LenProperties DEF Surjection
<1>3. IsFiniteSet(1..Len(Metrics))
  BY <1>1, FS_Interval
<1> QED
  BY <1>2, <1>3, FS_Surjection

\* The list returns metrics that are selected.
LEMMA OrdersAreSeqs ==
  ASSUME NEW S \in SUBSET Plots!Keys, NEW order \in Plots!SelectionOrders(S)
  PROVE  order \in Seq(Plots!Keys) /\ Plots!Range(order) \subseteq S
<1> DEFINE m == Cardinality(S)
<1>1. m \in Nat
  BY KeysAreFinite, FS_Subset, FS_CardinalityType
<1>2. order \in [1..m -> S]
  <2>1. Plots!Cardinality(S) = m
    BY DEF Plots!Cardinality, Cardinality
  <2>2. order \in [1..Plots!Cardinality(S) -> S]
    BY DEF Plots!SelectionOrders, Plots!SetToSeqs
  <2> QED
    BY <2>1, <2>2
<1> HIDE DEF m
<1>3. order \in [1..m -> Plots!Keys]
  BY <1>2
<1>4. order \in Seq(Plots!Keys)
  BY <1>1, <1>3
<1> QED
  BY <1>2, <1>4 DEF Plots!Range

\* The curves after data are drawn: those drawn have their data, and if there is only
\* one, it is below the top of the axis, or nothing was drawn.
LEMMA DrawnFits ==
  ASSUME NEW old, NEW c \in Nat, NEW order \in Seq(Plots!Keys),
         NEW data \in [Plots!Keys -> Plots!Samples],
         curves' = Plots!Filled(old, Plots!Drawn(order, data)),
         ceiling' = Plots!Draw(c, order, data)
  PROVE  /\ ceiling' \in Nat
         /\ DOMAIN curves' \subseteq DOMAIN old \cup Plots!Range(order)
         /\ DOMAIN curves' = DOMAIN old \cup DOMAIN Plots!Drawn(order, data)
         /\ \A k \in DOMAIN curves' : DOMAIN curves' = {k} =>
              \/ Plots!Fits(k)'
              \/ curves' = [j \in DOMAIN old |-> old[j]] /\ ceiling' = c
<1> DEFINE D == Plots!Drawn(order, data)
<1>1. /\ DOMAIN D = {k \in Plots!Range(order) : data[k] # <<>>}
      /\ \A k \in DOMAIN D : D[k] = data[k]
  BY DEF Plots!Drawn
<1>2. /\ DOMAIN curves' = DOMAIN old \cup DOMAIN D
      /\ \A k \in DOMAIN D : curves'[k] = D[k]
      /\ DOMAIN D = {} => curves' = [j \in DOMAIN old |-> old[j]]
  BY DEF Plots!Filled
<1>3. Plots!Range(order) \subseteq Plots!Keys
  BY LenProperties DEF Plots!Range
<1> HIDE DEF D
<1>4. ASSUME NEW k \in DOMAIN curves', DOMAIN curves' = {k}, DOMAIN D # {}
      PROVE  Plots!Fits(k)'
  <2>1. k \in DOMAIN D /\ \A j \in DOMAIN D : j = k
    BY <1>2, <1>4
  <2>2. /\ k \in Plots!Range(order) /\ data[k] # <<>> /\ data[k] \in Plots!Samples
        /\ \A j \in Plots!Range(order) : data[j] # <<>> => j = k
    BY <1>1, <1>3, <2>1
  <2>3. ceiling' >= Plots!Peak(data[k]) /\ ceiling' \in Nat
    BY <2>2, DrawFacts
  <2>4. /\ \A i \in DOMAIN data[k] : data[k][i] <= Plots!Peak(data[k])
        /\ Plots!Peak(data[k]) \in Peaks
    BY <2>2, PeakFacts
  <2>5. \A i \in DOMAIN data[k] : data[k][i] \in Peaks
    BY <2>2, SamplesAre, LenProperties
  <2>6. \A i \in DOMAIN data[k] : data[k][i] <= ceiling'
    BY <2>3, <2>4, <2>5, ChartsFacts
  <2>7. curves'[k] = data[k]
    BY <1>1, <1>2, <2>1
  <2> QED
    BY <2>6, <2>7 DEF Plots!Fits
<1>5. DOMAIN D = {} => ceiling' = c
  BY <1>1, DrawFacts
<1> QED
  BY <1>1, <1>2, <1>4, <1>5, DrawFacts DEF D

\* A series may be empty.
LEMMA EmptyIsSamples == <<>> \in Plots!Samples
<1>1. <<>> \in Seq(Peaks) /\ Len(<<>>) = 0
  BY EmptySeq
<1>2. 0 <= Capacity
  BY ChartsFacts
<1> QED
  BY <1>1, <1>2, SamplesAre

\* A sample more, and the oldest goes if there are too many.
LEMMA PushType ==
  ASSUME NEW s \in Plots!Samples, NEW v \in Peaks \cup {Missing}
  PROVE  Plots!Push(s, v) \in Plots!Samples
<1>1. s \in Seq(Peaks) /\ Len(s) \in Nat /\ Len(s) <= Capacity /\ Capacity \in Nat \ {0}
  BY SamplesAre, LenProperties, ChartsFacts
<1>2. CASE v = Missing
  BY <1>2 DEF Plots!Push
<1>3. CASE v # Missing /\ Len(s) = Capacity
  <2>1. s # <<>>
    BY <1>1, <1>3, EmptySeq
  <2>2. Tail(s) \in Seq(Peaks) /\ Len(Tail(s)) = Len(s) - 1
    BY <1>1, <2>1, HeadTailProperties
  <2>3. Append(Tail(s), v) \in Seq(Peaks) /\ Len(Append(Tail(s), v)) = Len(s)
    BY <1>1, <1>3, <2>2, AppendProperties
  <2> QED
    BY <1>1, <1>3, <2>3, SamplesAre DEF Plots!Push
<1>4. CASE v # Missing /\ Len(s) # Capacity
  <2>1. Append(s, v) \in Seq(Peaks) /\ Len(Append(s, v)) = Len(s) + 1
    BY <1>1, <1>4, AppendProperties
  <2>2. Len(s) + 1 <= Capacity
    BY <1>1, <1>4
  <2>3. Append(s, v) \in Plots!Samples
    BY <2>1, <2>2, SamplesAre
  <2> QED
    BY <1>4, <2>3 DEF Plots!Push
<1> QED
  BY <1>2, <1>3, <1>4

\* So with a group of series.
LEMMA RecordedType ==
  ASSUME NEW group \in [Plots!Keys -> Plots!Samples],
         NEW values \in [Plots!Keys -> Peaks \cup {Missing}]
  PROVE  Plots!Recorded(group, values) \in [Plots!Keys -> Plots!Samples]
BY PushType DEF Plots!Recorded

\* What the browser plots fits, and the summary describes it.
LEMMA PlotFits ==
  ASSUME Plots!TypeOK, NEW order \in Seq(Plots!Keys), NEW before \in Nat,
         Plots!Plot(order, before), UNCHANGED <<chart, persisting, buffer, stored>>
  PROVE  ChartShowsItsData'
<1> DEFINE listed == Plots!Plotted(order)
           new == Plots!Drawn(listed, Plots!PlotData)
<1>1. /\ listed \in Seq(Plots!Keys)
      /\ Plots!Range(listed) \subseteq Plots!Range(order)
      /\ Plots!Range(order) \subseteq Plots!Keys
  <2>1. /\ listed \in Seq(Plots!Keys)
        /\ Plots!Range(listed) \subseteq Plots!Range(order)
    BY PlottedIsSeq
  <2>2. Plots!Range(order) \subseteq Plots!Keys
    BY LenProperties DEF Plots!Range
  <2> HIDE DEF listed
  <2> QED
    BY <2>1, <2>2
<1>2. Plots!PlotData \in [Plots!Keys -> Plots!Samples]
  BY PlotDataType
<1>3. /\ chosen' = Plots!Range(order)
      /\ curves' = Plots!Filled(Plots!Nothing, new)
      /\ summary' = Plots!Filled(summary, new)
      /\ ceiling' = Plots!Draw(before, listed, Plots!PlotData)
  BY DEF Plots!Plot, Plots!Summarise
<1>4. DOMAIN Plots!Nothing = {}
  BY DEF Plots!Nothing
<1>5. /\ ceiling' \in Nat
      /\ DOMAIN curves' \subseteq Plots!Range(listed)
      /\ DOMAIN curves' = DOMAIN new
      /\ \A k \in DOMAIN curves' : DOMAIN curves' = {k} =>
           Plots!Fits(k)' \/ curves' = [j \in DOMAIN Plots!Nothing |-> Plots!Nothing[j]]
  <2> DEFINE old == Plots!Nothing
             data == Plots!PlotData
  <2>1. /\ listed \in Seq(Plots!Keys)
        /\ data \in [Plots!Keys -> Plots!Samples]
        /\ curves' = Plots!Filled(old, Plots!Drawn(listed, data))
        /\ ceiling' = Plots!Draw(before, listed, data)
        /\ DOMAIN old = {}
    BY <1>1, <1>2, <1>3, <1>4
  <2> HIDE DEF listed, old, data
  <2>2. /\ ceiling' \in Nat
        /\ DOMAIN curves' \subseteq DOMAIN old \cup Plots!Range(listed)
        /\ DOMAIN curves' = DOMAIN old \cup DOMAIN Plots!Drawn(listed, data)
        /\ \A k \in DOMAIN curves' : DOMAIN curves' = {k} =>
             \/ Plots!Fits(k)'
             \/ curves' = [j \in DOMAIN old |-> old[j]] /\ ceiling' = before
    BY <2>1, DrawnFits
  <2> QED
    BY <2>1, <2>2 DEF old, data
<1> HIDE DEF new, listed
<1>6. \A k \in DOMAIN curves' : curves'[k] = new[k] /\ summary'[k] = new[k]
  BY <1>3, <1>5 DEF Plots!Filled
<1>7. DOMAIN summary' = DOMAIN summary \cup DOMAIN new
  BY <1>3 DEF Plots!Filled
<1>8. Plots!TypeOK'
  BY <1>1, <1>3, <1>5, <1>7 DEF Plots!TypeOK
<1>9. \A k \in DOMAIN curves' : DOMAIN curves' = {k} => Plots!Fits(k)'
  BY <1>4, <1>5
<1>10. \A k \in DOMAIN curves' :
         k \in chosen' /\ k \in DOMAIN summary' /\ summary'[k] = curves'[k]
  BY <1>1, <1>3, <1>5, <1>6, <1>7
<1> QED
  BY <1>8, <1>9, <1>10 DEF ChartShowsItsData, Plots!ChartShowsItsData

\* Snapshots: a page draws its series, and the browser waits to be reloaded.
LEMMA SnapshotFits ==
  ASSUME ChartShowsItsData, NEW values \in [Plots!Keys -> Peaks \cup {Missing}],
         Plots!OnSnapshot(values)
  PROVE  ChartShowsItsData'
<1> USE DEF ChartShowsItsData, Plots!ChartShowsItsData
<1>1. UNCHANGED <<chart, persisting, chosen, summary>>
  BY DEF Plots!OnSnapshot
<1>2. buffer' \in [Plots!Keys -> Plots!Samples] /\ stored' \in [Plots!Keys -> Plots!Samples]
  BY RecordedType DEF Plots!OnSnapshot, Plots!TypeOK
<1>3. CASE chart = "browser"
  <2>1. UNCHANGED <<curves, ceiling>>
    BY <1>3 DEF Plots!OnSnapshot
  <2> QED
    BY <1>1, <1>2, <1>3, <2>1 DEF Plots!TypeOK, Plots!Fits
<1>4. CASE chart # "browser"
  <2>1. Plots!OnPage \in Seq(Plots!Keys)
    <3>1. Metrics[1] \in Plots!Keys
      BY ChartsFacts, EmptySeq, LenProperties
    <3> QED
      BY <3>1, ChartsFacts DEF Plots!OnPage
  <2>2. /\ curves' = Plots!Filled(curves, Plots!Drawn(Plots!OnPage, buffer'))
        /\ ceiling' = Plots!Draw(ceiling, Plots!OnPage, buffer')
    BY <1>4 DEF Plots!OnSnapshot, Plots!UpdateSeries
  <2>3. ceiling \in Nat /\ DOMAIN curves \subseteq Plots!Keys
    BY DEF Plots!TypeOK
  <2>4. /\ ceiling' \in Nat
        /\ DOMAIN curves' \subseteq DOMAIN curves \cup Plots!Range(Plots!OnPage)
        /\ \A k \in DOMAIN curves' : DOMAIN curves' = {k} =>
             \/ Plots!Fits(k)'
             \/ curves' = [j \in DOMAIN curves |-> curves[j]] /\ ceiling' = ceiling
    BY <1>2, <2>1, <2>2, <2>3, DrawnFits
  <2>5. Plots!Range(Plots!OnPage) \subseteq Plots!Keys
    BY <2>1, LenProperties DEF Plots!Range
  <2>6. Plots!TypeOK'
    BY <1>1, <1>2, <2>3, <2>4, <2>5 DEF Plots!TypeOK
  <2>7. ASSUME NEW k \in DOMAIN curves', DOMAIN curves' = {k}
        PROVE  Plots!Fits(k)'
    <3>1. CASE curves' = [j \in DOMAIN curves |-> curves[j]] /\ ceiling' = ceiling
      <4>1. DOMAIN curves = {k} /\ curves'[k] = curves[k]
        BY <3>1, <2>7
      <4>2. Plots!Fits(k)
        BY <4>1
      <4> QED
        BY <3>1, <4>1, <4>2 DEF Plots!Fits
    <3> QED
      BY <2>4, <2>7, <3>1
  <2> QED
    BY <1>1, <1>4, <2>6, <2>7
<1> QED
  BY <1>3, <1>4

\* No step takes a single curve above its axis, or its summary away from it.
LEMMA ChartStep == ChartShowsItsData /\ Plots!Next => ChartShowsItsData'
<1> SUFFICES ASSUME ChartShowsItsData, Plots!Next
             PROVE  ChartShowsItsData'
  OBVIOUS
<1>1. Plots!TypeOK /\ ceiling \in Nat /\ chosen \subseteq Plots!Keys
  BY DEF ChartShowsItsData, Plots!ChartShowsItsData, Plots!TypeOK
<1>2. CASE \E values \in [Plots!Keys -> Peaks \cup {Missing}] : Plots!OnSnapshot(values)
  BY <1>2, SnapshotFits
<1>3. CASE \E S \in SUBSET Plots!Keys : Plots!Select(S)
  <2>1. PICK S \in SUBSET Plots!Keys : Plots!Select(S)
    BY <1>3
  <2>2. PICK order \in Plots!SelectionOrders(S) : Plots!Plot(order, ceiling)
    BY <2>1 DEF Plots!Select
  <2>3. UNCHANGED <<chart, persisting, buffer, stored>>
    BY <2>1 DEF Plots!Select
  <2>4. order \in Seq(Plots!Keys)
    BY <2>2, OrdersAreSeqs
  <2> QED
    BY <1>1, <2>2, <2>3, <2>4, PlotFits
<1>4. CASE Plots!Reload
  <2> DEFINE S == IF chosen = {} THEN {Metrics[1]} ELSE chosen
  <2>1. PICK order \in Plots!SelectionOrders(S) :
          Plots!Plot(order, Plots!AxisAfter(order))
    BY <1>4 DEF Plots!Reload
  <2>2. UNCHANGED <<chart, persisting, buffer, stored>>
    BY <1>4 DEF Plots!Reload
  <2>3. S \subseteq Plots!Keys
    <3>1. Metrics[1] \in Plots!Keys
      BY ChartsFacts, EmptySeq, LenProperties
    <3> QED
      BY <1>1, <3>1
  <2>4. order \in Seq(Plots!Keys)
    BY <2>1, <2>3, OrdersAreSeqs
  <2>5. Plots!AxisAfter(order) \in Nat
    BY <1>1, <2>4, AxisAfterType
  <2> QED
    BY <1>1, <2>1, <2>2, <2>4, <2>5, PlotFits
<1>5. CASE Plots!ReallocateBuffers
  <2> QED
    BY <1>5, EmptyIsSamples DEF Plots!ReallocateBuffers, ChartShowsItsData, Plots!ChartShowsItsData,
                      Plots!TypeOK, Plots!Fits
<1> QED
  BY <1>2, <1>3, <1>4, <1>5 DEF Plots!Next

\* A chart is empty at first, with an axis up to one.
LEMMA ChartStart == Init => ChartShowsItsData
<1> QED
  BY EmptyIsSamples DEF Init, Plots!Init, Plots!Nothing, ChartShowsItsData, Plots!ChartShowsItsData,
              Plots!TypeOK, Plots!Fits

\* A single curve lies below the top of its axis, and in the browser the summary
\* describes each curve that is drawn, for any metrics and capacity
\* (widgets/chart.py:248-263, pages/history.py:229-286).
THEOREM ChartsShowTheirData == Spec => []ChartShowsItsData
<1>1. ChartShowsItsData /\ UNCHANGED chartVars => ChartShowsItsData'
  BY DEF chartVars, ChartShowsItsData, Plots!ChartShowsItsData, Plots!TypeOK, Plots!Fits
<1>2. [Next]_vars => Plots!Next \/ UNCHANGED chartVars
  BY DEF Next, vars, chartVars
<1>3. ChartShowsItsData /\ [Next]_vars => ChartShowsItsData'
  BY <1>1, <1>2, ChartStep
<1> QED
  BY <1>3, ChartStart, PTL DEF Spec

-----------------------------------------------------------------------------
(* The bodies of pages *)

\* The widgets of a body: each has a key and is a row.
Widgets(rs) == DOMAIN rs \subseteq Keys /\ \A k \in DOMAIN rs : rs[k] \in Row

\* What is shown in one place all the time has that place, once it is painted.
Held(k, rs) ==
  rs = NoRows \/
    /\ k \in Tiles => 1 \in DOMAIN rs /\ rs[1].title = 1 /\ rs[1].shown
    /\ k = "primary" => 2 \in DOMAIN rs

Body(k, rs) == Widgets(rs) /\ Held(k, rs)

\* The operators on rows give rows.
LEMMA RowsAreRows ==
  /\ \A t \in Units \cup Keys, v \in Values : Bar(t, v) \in Row
  /\ \A r \in Row : Hide(r) \in Row /\ ~Hide(r).shown
  /\ \A r \in Row, v \in Values, c \in {"alarm", "plain", "none"} :
       SetValue(r, v, c) \in Row /\ SetFrom(r, v, c) \in Row
  /\ \A r \in Row, v \in Values : SetLabel(r, v) \in Row
<1> USE DEF Row
<1>1. \A t \in Units \cup Keys, v \in Values : Bar(t, v) \in Row
  BY DEF Bar, ColourOf
<1>2. \A r \in Row : Hide(r) \in Row /\ ~Hide(r).shown
  BY DEF Hide
<1>3. \A r \in Row, v \in Values, c \in {"alarm", "plain", "dim", "none"} :
        SetValue(r, v, c) \in Row
  BY DEF SetValue
<1>4. \A r \in Row, v \in Values, c \in {"alarm", "plain", "none"} :
        SetFrom(r, v, c) \in Row
  BY <1>3 DEF SetFrom
<1>5. \A r \in Row, v \in Values : SetLabel(r, v) \in Row
  BY <1>4 DEF SetLabel
<1> QED
  BY <1>1, <1>2, <1>3, <1>4, <1>5

\* The things of a snapshot, by place and by name.
LEMMA ThingFacts ==
  ASSUME NEW s \in Snapshots
  PROVE  /\ \A i \in DOMAIN s : i \in 1..MaxThings /\ s[i] \in Things
         /\ \A n \in NamesIn(s) : n \in Names /\ ThingNamed(s, n) \in Things
         /\ WithValue(s) \subseteq NamesIn(s)
         /\ Reading(s) \in Values
<1>1. PICK n \in 0..MaxThings : s \in [1..n -> Things]
  BY DEF Snapshots
<1>2. \A i \in DOMAIN s : i \in 1..MaxThings /\ s[i] \in Things
  <2>1. MaxThings \in Nat
    BY PanelsAssumption
  <2> QED
    BY <1>1, <2>1
<1>3. \A m \in NamesIn(s) : m \in Names /\ ThingNamed(s, m) \in Things
  <2> TAKE m \in NamesIn(s)
  <2>1. PICK i \in DOMAIN s : s[i].name = m
    BY DEF NamesIn
  <2>2. (CHOOSE j \in DOMAIN s : s[j].name = m) \in DOMAIN s
    BY <2>1
  <2> QED
    BY <1>2, <2>1, <2>2 DEF ThingNamed, Things
<1>4. Reading(s) \in Values
  <2>1. s # <<>> => 1 \in DOMAIN s
    BY <1>1
  <2> QED
    BY <1>2, <2>1 DEF Reading, Things, Values
<1> QED
  BY <1>2, <1>3, <1>4 DEF WithValue

\* A card of the dashboard lists some of the things.
LEMMA TopFacts ==
  ASSUME NEW s \in Snapshots
  PROVE  Top(s) \in Snapshots
<1> DEFINE m == IF Len(s) < Limit THEN Len(s) ELSE Limit
<1>1. MaxThings \in Nat /\ Limit \in Nat
  BY PanelsAssumption
<1>2. PICK n \in 0..MaxThings : s \in [1..n -> Things]
  BY DEF Snapshots
<1>3. /\ s \in Seq(Things) /\ Len(s) = n /\ DOMAIN s = 1..n
      /\ \A i, j \in DOMAIN s : s[i].name = s[j].name => i = j
  <2>1. s \in Seq(Things)
    BY <1>2, SeqDef
  <2> QED
    BY <1>2, <2>1, LenProperties DEF Snapshots
<1>4. m \in 0..n
  BY <1>1, <1>3
<1>5. Top(s) = SubSeq(s, 1, m)
  BY DEF Top
<1> HIDE DEF m
<1>6. 1 \in Int /\ m \in Int /\ \A i \in 1..m : s[i] \in Things
  BY <1>2, <1>4
<1>7. /\ SubSeq(s, 1, m) \in Seq(Things)
      /\ Len(SubSeq(s, 1, m)) = IF 1 <= m THEN m - 1 + 1 ELSE 0
      /\ \A i \in 1..(m - 1 + 1) : SubSeq(s, 1, m)[i] = s[1 + i - 1]
  BY <1>6, SubSeqProperties
<1>8. /\ SubSeq(s, 1, m) \in [1..m -> Things]
      /\ \A i \in 1..m : SubSeq(s, 1, m)[i] = s[i]
  <2>1. m \in Nat /\ Len(SubSeq(s, 1, m)) = m
    BY <1>4, <1>7
  <2>2. \A i \in 1..m : i \in 1..(m - 1 + 1) /\ 1 + i - 1 = i
    BY <2>1
  <2>3. SubSeq(s, 1, m) \in [1..m -> Things]
    BY <1>7, <2>1, LenProperties
  <2> QED
    BY <1>7, <2>2, <2>3
<1>9. m \in 0..MaxThings /\ 1..m \subseteq DOMAIN s
  BY <1>1, <1>3, <1>4
<1>10. \A i, j \in 1..m : SubSeq(s, 1, m)[i].name = SubSeq(s, 1, m)[j].name => i = j
  BY <1>3, <1>8, <1>9
<1>11. SubSeq(s, 1, m) \in UNION {[1..l -> Things] : l \in 0..MaxThings}
  BY <1>8, <1>9
<1> QED
  BY <1>5, <1>8, <1>10, <1>11 DEF Snapshots

\* The row of a tile.
LEMMA OneRowFacts ==
  ASSUME NEW k \in Tiles, NEW old, Body(k, old)
  PROVE  /\ OneRow(old) \in Row
         /\ OneRow(old).title = 1
         /\ OneRow(old).shown
<1>1. CASE old = NoRows
  BY <1>1 DEF OneRow, AddRows, Row, Keys, Values
<1>2. CASE old # NoRows
  BY <1>2 DEF OneRow, Body, Held, Widgets
<1> QED
  BY <1>1, <1>2

\* What a page shows after a snapshot does not depend on what it showed before it.
LEMMA LooksFresh ==
  ASSUME NEW k \in Faithful, NEW old, Body(k, old),
         NEW s \in Snapshots
  PROVE  Seen(Apply(k, old, s)) = Seen(Apply(k, NoRows, s))
<1> DEFINE fresh == NoRows
<1>1. Widgets(fresh) /\ DOMAIN fresh = {}
  BY DEF Widgets, NoRows
<1>2. \A t, v : Bar(t, v).shown
  BY DEF Bar
<1>3. \A r \in Row : ~Hide(r).shown
  BY RowsAreRows
<1> HIDE DEF fresh
<1> USE DEF Body, Widgets, Seen
<1>4. CASE k = "swap"
  <2>1. Seen(SwapBars(old, s)) = Seen(SwapBars(fresh, s))
    BY <1>1, <1>2, <1>3 DEF SwapBars, Listed
  <2> QED
    BY <1>4, <2>1 DEF Apply, fresh
<1>5. CASE k = "filesystems"
  <2>1. Seen(FilesystemBars(old, s)) = Seen(FilesystemBars(fresh, s))
    BY <1>1, <1>2, <1>3 DEF FilesystemBars, Listed
  <2> QED
    BY <1>5, <2>1 DEF Apply, fresh
<1>6. CASE k = "thermals"
  <2>1. Seen(ThermalBars(old, s)) = Seen(ThermalBars(fresh, s))
    BY <1>1, <1>2, <1>3 DEF ThermalBars, Placed
  <2> QED
    BY <1>6, <2>1 DEF Apply, fresh
<1>7. CASE k = "alerts"
  <2>1. Seen(AlertLabels(old, s)) = Seen(AlertLabels(fresh, s))
    BY <1>1, <1>2, <1>3 DEF AlertLabels, Placed
  <2> QED
    BY <1>7, <2>1 DEF Apply, fresh
<1>8. CASE k = "status"
  <2>1. StatusTile(old, s) = StatusTile(fresh, s)
    <3> DEFINE r == OneRow(old)
               q == OneRow(fresh)
    <3>1. r \in Row /\ r.title = 1 /\ r.shown
      BY <1>8, OneRowFacts DEF Tiles
    <3>2. q \in Row /\ q.title = 1 /\ q.shown
      BY <1>1, <1>8, OneRowFacts DEF Tiles, Held, fresh
    <3> HIDE DEF r, q
    <3>3. ASSUME NEW x \in Row, x.title = 1, x.shown, NEW v
          PROVE  SetValue(x, v, ColourOf(v))
                   = [title |-> 1, value |-> v, colour |-> ColourOf(v), shown |-> TRUE]
      <4> DEFINE c == ColourOf(v)
                 y == SetValue(x, v, c)
      <4>1. c # "none"
        BY DEF ColourOf
      <4> HIDE DEF c
      <4>2. y = [x EXCEPT !.value = v, !.colour = c]
        BY <4>1 DEF SetValue
      <4>3. x = [title |-> x.title, value |-> x.value, colour |-> x.colour, shown |-> x.shown]
        BY DEF Row
      <4> DEFINE yes == x.shown
                 colour == x.colour
                 first == [title |-> 1, value |-> x.value, colour |-> colour, shown |-> yes]
                 next == [title |-> 1, value |-> v, colour |-> colour, shown |-> yes]
                 last == [title |-> 1, value |-> v, colour |-> c, shown |-> yes]
      <4>4. yes = TRUE
        BY <3>3 DEF Row
      <4>5. x = first
        BY <3>3, <4>3
      <4>6. [first EXCEPT !.value = v, !.colour = c]
              = [[first EXCEPT !.value = v] EXCEPT !.colour = c]
        OBVIOUS
      <4> HIDE DEF yes, colour, y
      <4>7. [first EXCEPT !.value = v] = next
        OBVIOUS
      <4>8. [next EXCEPT !.colour = c] = last
        OBVIOUS
      <4> HIDE DEF first, next, last
      <4>9. y = last
        BY <4>2, <4>5, <4>6, <4>7, <4>8
      <4> QED
        BY <4>4, <4>9 DEF last, y, c
    <3> QED
      BY <3>1, <3>2, <3>3 DEF StatusTile, r, q
  <2> QED
    BY <1>8, <2>1 DEF Apply, fresh
<1>9. CASE k = "ring"
  BY <1>9 DEF Apply, TemperatureRing
<1>10. CASE k = "health"
  BY <1>10 DEF Apply, HealthPanel
<1>11. CASE k = "battery"
  <2>1. Seen(BatteryCards(old, s)) = Seen(BatteryCards(fresh, s))
    BY <1>1, <1>2, <1>3 DEF BatteryCards
  <2> QED
    BY <1>11, <2>1 DEF Apply, fresh
<1> QED
  BY <1>4, <1>5, <1>6, <1>7, <1>8, <1>9, <1>10, <1>11 DEF Faithful

\* Rows that are added are rows.
LEMMA AddedAreRows ==
  ASSUME NEW S \in SUBSET Keys
  PROVE  DOMAIN AddRows(S) = S /\ Widgets(AddRows(S))
BY DEF AddRows, Widgets, Row, Values

\* However a body takes a snapshot, its widgets have keys and are rows.
LEMMA ApplyGivesWidgets ==
  ASSUME NEW k \in AllKinds, NEW old, Body(k, old),
         NEW s \in Snapshots
  PROVE  Widgets(Apply(k, old, s))
<1>1. Widgets(old)
  BY DEF Body
<1>2. /\ Names \subseteq Keys /\ 1..MaxThings \subseteq Keys
      /\ 1 \in Keys /\ 2 \in Keys
  BY DEF Keys
<1>3. /\ \A i \in DOMAIN s : i \in 1..MaxThings /\ s[i].unit \in Units /\ s[i].value \in Values
      /\ \A n \in NamesIn(s) : /\ n \in Names
                                      /\ ThingNamed(s, n).unit \in Units
                                      /\ ThingNamed(s, n).value \in Values
      /\ WithValue(s) \subseteq NamesIn(s)
      /\ Reading(s) \in Values
  BY ThingFacts DEF Things
<1>4. \A t \in Units \cup Keys, v \in Values : Bar(t, v) \in Row
  BY RowsAreRows
<1>5. \A r \in Row : Hide(r) \in Row
  BY RowsAreRows
<1>6. \A j \in DOMAIN old : old[j].title \in Units \cup Keys
  BY <1>1 DEF Widgets, Row
<1> USE DEF Widgets
<1>7. Widgets(SwapBars(old, s))
  BY <1>1, <1>2, <1>3, <1>4, <1>5 DEF SwapBars, Listed
<1>8. Widgets(FilesystemBars(old, s))
  BY <1>1, <1>2, <1>3, <1>4, <1>5 DEF FilesystemBars, Listed
<1>9. \A j \in NamesIn(s) : TitleKept(old, s, j) \in Units \cup Keys
  BY <1>3, <1>6 DEF TitleKept
<1>10. Widgets(InterfaceSections(old, s))
  BY <1>1, <1>2, <1>3, <1>4, <1>5, <1>9 DEF InterfaceSections, Listed
<1>11. /\ Widgets(DeviceSections(old, s))
       /\ Widgets(ChipSections(old, s))
       /\ Widgets(SensorBars(old, s))
  BY <1>1, <1>2, <1>3, <1>4, <1>9
     DEF DeviceSections, ChipSections, SensorBars, Gathered
<1>12. /\ \A i \in DOMAIN Top(s) : /\ i \in 1..MaxThings
                                          /\ Top(s)[i].unit \in Units
                                          /\ Top(s)[i].value \in Values
       /\ \A n \in NamesIn(Top(s)) :
            n \in Names /\ ThingNamed(Top(s), n).value \in Values
  BY TopFacts, ThingFacts DEF Things
<1>13. Widgets(MountBars(old, s))
  BY <1>1, <1>2, <1>4, <1>12 DEF MountBars, Gathered
<1>14. Widgets(ThermalBars(old, s))
  BY <1>1, <1>2, <1>4, <1>5, <1>12 DEF ThermalBars, Placed, Values
<1>15. Widgets(AlertLabels(old, s))
  BY <1>1, <1>2, <1>3, <1>4, <1>5 DEF AlertLabels, Placed
<1>16. Widgets(CoreBars(old, s))
  <2>1. \A t \in Units, v \in Values, b \in BOOLEAN :
          [Bar(t, v) EXCEPT !.shown = b] \in Row
    BY DEF Bar, ColourOf, Row
  <2>2. \A j \in DOMAIN old : old[j].shown \in BOOLEAN
    BY <1>1 DEF Row
  <2> QED
    BY <1>1, <1>2, <1>3, <1>5, <2>1, <2>2 DEF CoreBars
<1>17. Widgets(AdapterSections(old, s))
  <2>1. \A j \in DOMAIN s : AdapterTitle(old, s, j) \in Units \cup Keys
    BY <1>3, <1>6 DEF AdapterTitle
  <2> QED
    BY <1>1, <1>2, <1>3, <1>4, <2>1 DEF AdapterSections
<1>18. \A S \in SUBSET NamesIn(s) : Widgets(TableOnce(old, S, s))
  <2> TAKE S \in SUBSET NamesIn(s)
  <2> DEFINE table == IF old = NoRows THEN AddRows(S) ELSE old
  <2>1. Widgets(table)
    <3>1. S \in SUBSET Keys
      BY <1>2, <1>3
    <3> QED
      BY <1>1, <3>1, AddedAreRows
  <2>2. \A r \in Row, v \in Values : SetLabel(r, v) \in Row
    BY RowsAreRows
  <2>3. TableOnce(old, S, s) =
          IF S = {} THEN old
          ELSE [j \in DOMAIN table |->
                  IF j \in S THEN SetLabel(table[j], ThingNamed(s, j).value)
                  ELSE table[j]]
    BY DEF TableOnce, SetRows
  <2> HIDE DEF table
  <2> QED
    BY <1>1, <1>3, <2>1, <2>2, <2>3
<1>19. Widgets(ZramTable(old, s)) /\ Widgets(HugepageTable(old, s))
  BY <1>3, <1>18 DEF ZramTable, HugepageTable
<1>20. Widgets(CacheTable(old, s))
  <2>1. \A j \in NamesIn(s) : AddRows({j})[j] \in Row
    BY <1>2, <1>3, AddedAreRows
  <2>2. \A r \in Row, v \in Values : SetLabel(r, v) \in Row
    BY RowsAreRows
  <2> QED
    BY <1>1, <1>2, <1>3, <2>1, <2>2 DEF CacheTable
<1>21. Widgets(TemperatureRing(old, s))
  BY <1>2, <1>3, <1>4 DEF TemperatureRing, One
<1>22. Widgets(HealthRows(Reading(s)))
  BY <1>2, <1>3, <1>4, <1>5 DEF HealthRows
<1>23. Widgets(HealthPanel(old, s)) /\ Widgets(BatteryCards(old, s))
  BY <1>1, <1>5, <1>22 DEF HealthPanel, BatteryCards
<1>24. ASSUME k = "primary" PROVE Widgets(PrimaryCard(old, s))
  <2>1. s # <<>> => 1 \in DOMAIN s
    BY DEF Snapshots
  <2>2. old # NoRows => old[2] \in Row
    BY <1>1, <1>24 DEF Body, Held
  <2>3. AddRows({2})[2] \in Row
    BY <1>2, AddedAreRows
  <2> QED
    BY <1>2, <1>3, <1>4, <2>1, <2>2, <2>3 DEF PrimaryCard
<1>25. ASSUME k \in Tiles
       PROVE  /\ Widgets(AlarmTile(old, s))
              /\ Widgets(StatusTile(old, s))
              /\ Widgets(DetailLabel(old, s))
  <2>1. OneRow(old) \in Row
    BY <1>25, OneRowFacts
  <2>2. \A v : ColourOf(v) \in {"alarm", "plain", "none"}
    BY DEF ColourOf
  <2> QED
    BY <1>2, <1>3, <2>1, <2>2, RowsAreRows
       DEF AlarmTile, StatusTile, DetailLabel, One
<1> HIDE DEF Widgets
<1> QED
  BY <1>7, <1>8, <1>10, <1>11, <1>13, <1>14, <1>15, <1>16, <1>17, <1>19, <1>20, <1>21, <1>23,
     <1>24, <1>25 DEF Apply, AllKinds, ByName, Tiles

\* A body that was painted holds what it shows all the time.
LEMMA ApplyHolds ==
  ASSUME NEW k \in AllKinds, NEW old, Body(k, old),
         NEW s \in Snapshots
  PROVE  Held(k, Apply(k, old, s))
<1>1. CASE k = "primary"
  BY <1>1 DEF Held, Apply, PrimaryCard, Tiles
<1>2. CASE k \in Tiles
  <2> DEFINE r == OneRow(old)
  <2>1. r \in Row /\ r.title = 1 /\ r.shown
    BY <1>2, OneRowFacts
  <2> HIDE DEF r
  <2>2. \A v, c : /\ SetFrom(r, v, c).title = 1 /\ SetFrom(r, v, c).shown
                  /\ SetValue(r, v, c).title = 1 /\ SetValue(r, v, c).shown
                  /\ SetLabel(r, v).title = 1 /\ SetLabel(r, v).shown
    BY <2>1 DEF SetFrom, SetValue, SetLabel, Row
  <2>3. /\ k = "tile" => Apply(k, old, s) = AlarmTile(old, s)
        /\ k = "status" => Apply(k, old, s) = StatusTile(old, s)
        /\ k = "label" => Apply(k, old, s) = DetailLabel(old, s)
    BY DEF Apply
  <2> QED
    BY <1>2, <2>2, <2>3
       DEF Held, AlarmTile, StatusTile, DetailLabel, One, Tiles, r
<1> QED
  BY <1>1, <1>2 DEF Held

\* Interfaces look fresh but for their titles.
LEMMA InterfacesLookFresh ==
  ASSUME NEW old, Widgets(old), NEW s \in Snapshots
  PROVE  SeenUntitled(Apply("interfaces", old, s))
           = SeenUntitled(Apply("interfaces", NoRows, s))
<1> DEFINE fresh == NoRows
           seen(rs) == {j \in DOMAIN rs : rs[j].shown}
           new == InterfaceSections(old, s)
           first == InterfaceSections(fresh, s)
           N == NamesIn(s)
<1>1. Widgets(fresh) /\ DOMAIN fresh = {}
  BY DEF Widgets, NoRows
<1>2. \A r \in Row : ~Hide(r).shown
  BY RowsAreRows
<1> HIDE DEF fresh
<1>3. /\ seen(new) = N /\ seen(first) = N
      /\ \A j \in N : /\ new[j] = Bar(TitleKept(old, s, j), ThingNamed(s, j).value)
                      /\ first[j] = Bar(TitleKept(fresh, s, j), ThingNamed(s, j).value)
  <2>1. \A t, v : Bar(t, v).shown
    BY DEF Bar
  <2> QED
    BY <1>1, <1>2, <2>1 DEF InterfaceSections, Listed, Widgets
<1>4. \A t, u, v, j : [Bar(t, v) EXCEPT !.title = j] = [Bar(u, v) EXCEPT !.title = j]
  <2> TAKE t, u, v, j
  <2>1. ASSUME NEW x
        PROVE  [Bar(x, v) EXCEPT !.title = j]
                 = [title |-> j, value |-> v, colour |-> ColourOf(v), shown |-> TRUE]
    <3> DEFINE c == ColourOf(v)
               yes == TRUE
    <3>1. Bar(x, v) = [title |-> x, value |-> v, colour |-> c, shown |-> yes]
      BY DEF Bar
    <3> HIDE DEF c, yes
    <3>2. [[title |-> x, value |-> v, colour |-> c, shown |-> yes] EXCEPT !.title = j]
            = [title |-> j, value |-> v, colour |-> c, shown |-> yes]
      OBVIOUS
    <3> QED
      BY <3>1, <3>2 DEF c, yes
  <2> QED
    BY <2>1
<1>5. SeenUntitled(new) = [j \in N |-> [new[j] EXCEPT !.title = j]]
  BY <1>3 DEF SeenUntitled
<1>6. SeenUntitled(first) = [j \in N |-> [first[j] EXCEPT !.title = j]]
  BY <1>3 DEF SeenUntitled
<1>7. \A j \in N : [new[j] EXCEPT !.title = j] = [first[j] EXCEPT !.title = j]
  <2> TAKE j \in N
  <2> DEFINE v == ThingNamed(s, j).value
  <2>1. /\ new[j] = Bar(TitleKept(old, s, j), v)
        /\ first[j] = Bar(TitleKept(fresh, s, j), v)
    BY <1>3
  <2> HIDE DEF v, new, first
  <2> QED
    BY <1>4, <2>1
<1> HIDE DEF new, first, N
<1>8. SeenUntitled(new) = SeenUntitled(first)
  BY <1>5, <1>6, <1>7
<1> QED
  BY <1>8 DEF Apply, new, first, fresh

\* What WhatIsThereIsShown says of the rows of a body and a snapshot.
Complete(k, rs, s) ==
  /\ k \in {"swap", "interfaces", "disks", "chips", "sensors"} =>
       \A n \in NamesIn(s) :
         n \in DOMAIN rs /\ rs[n].shown /\ rs[n].value = ThingNamed(s, n).value
  /\ k \in {"alerts", "adapters"} =>
       \A i \in DOMAIN s : i \in DOMAIN rs /\ rs[i].shown /\ rs[i].value = s[i].value
  /\ k \in {"tile", "status"} =>
       /\ rs[1].value = Reading(s)
       /\ Reading(s) = Alarm => rs[1].colour = "alarm"

\* A snapshot that is painted is there.
LEMMA LooksComplete ==
  ASSUME NEW k \in AllKinds, NEW old, Body(k, old),
         NEW s \in Snapshots
  PROVE  Complete(k, Apply(k, old, s), s)
<1>1. \A t, v : Bar(t, v).shown /\ Bar(t, v).value = v
  BY DEF Bar
<1>2. CASE k = "swap"
  BY <1>1, <1>2 DEF Complete, Apply, SwapBars, Listed
<1>3. CASE k = "interfaces"
  BY <1>1, <1>3 DEF Complete, Apply, InterfaceSections, Listed
<1>4. CASE k = "disks"
  BY <1>1, <1>4 DEF Complete, Apply, DeviceSections, Gathered
<1>5. CASE k = "chips"
  BY <1>1, <1>5 DEF Complete, Apply, ChipSections, Gathered
<1>6. CASE k = "sensors"
  BY <1>1, <1>6 DEF Complete, Apply, SensorBars, Gathered
<1>7. CASE k = "alerts"
  BY <1>1, <1>7 DEF Complete, Apply, AlertLabels, Placed
<1>8. CASE k = "adapters"
  BY <1>1, <1>8 DEF Complete, Apply, AdapterSections
<1>9. CASE k \in {"tile", "status"}
  <2> DEFINE r == OneRow(old)
             v == Reading(s)
  <2>1. r \in Row
    BY <1>9, OneRowFacts DEF Tiles
  <2> HIDE DEF r
  <2>2. \A c : SetValue(r, v, c).value = v /\ SetFrom(r, v, c).value = v
    BY <2>1 DEF SetValue, SetFrom, Row
  <2>3. \A c \in {"alarm", "plain", "dim"} : SetValue(r, v, c).colour = c
    BY <2>1 DEF SetValue, Row
  <2>4. v = Alarm => v # NoValue /\ ColourOf(v) = "alarm"
    BY PanelsAssumption DEF ColourOf
  <2>5. k = "tile" => Apply(k, old, s) = AlarmTile(old, s)
    BY DEF Apply
  <2>6. k = "status" => Apply(k, old, s) = StatusTile(old, s)
    BY DEF Apply
  <2>7. CASE k = "tile"
    <3>1. AlarmTile(old, s)[1]
            = SetFrom(r, v, IF v = Alarm THEN "alarm" ELSE "none")
      BY DEF AlarmTile, One, r
    <3>2. v = Alarm => AlarmTile(old, s)[1] = SetValue(r, v, "alarm")
      BY <2>4, <3>1 DEF SetFrom
    <3> HIDE DEF v
    <3>3. AlarmTile(old, s)[1].value = v
      BY <2>2, <3>1
    <3>4. v = Alarm => AlarmTile(old, s)[1].colour = "alarm"
      BY <2>3, <3>2
    <3> QED
      BY <2>5, <2>7, <3>3, <3>4 DEF Complete, v
  <2>8. CASE k = "status"
    <3>1. StatusTile(old, s)[1] = SetValue(r, v, ColourOf(v))
      BY DEF StatusTile, One, r
    <3> HIDE DEF v
    <3>2. StatusTile(old, s)[1].value = v
      BY <2>2, <3>1
    <3>3. v = Alarm => StatusTile(old, s)[1].colour = "alarm"
      BY <2>3, <2>4, <3>1
    <3> QED
      BY <2>6, <2>8, <3>2, <3>3 DEF Complete, v
  <2> QED
    BY <1>9, <2>7, <2>8
<1> QED
  BY <1>2, <1>3, <1>4, <1>5, <1>6, <1>7, <1>8, <1>9 DEF Complete

\* What ShowsWhatAFreshPageWould says of the rows of a body and a snapshot.
AsFresh(k, rs, s) ==
  /\ k \in Faithful => Seen(rs) = Seen(Apply(k, NoRows, s))
  /\ k = "interfaces" =>
       SeenUntitled(rs) = SeenUntitled(Apply(k, NoRows, s))

\* The strengthening of both: they hold of what was painted last, and a visible
\* dashboard has painted what there is.
BodiesInv ==
  /\ PanelsTypeOK
  /\ Held(body, widgets)
  /\ latest = NoSnapshot => applied = NoSnapshot
  /\ body \in OnDashboard /\ visible => applied = latest
  /\ applied # NoSnapshot =>
       AsFresh(body, widgets, applied) /\ Complete(body, widgets, applied)

\* It suffices.
LEMMA BodiesInvSuffices ==
  BodiesInv => ShowsWhatAFreshPageWould /\ WhatIsThereIsShown
<1> SUFFICES ASSUME BodiesInv
             PROVE  ShowsWhatAFreshPageWould /\ WhatIsThereIsShown
  OBVIOUS
<1>1. Reference = applied
  BY DEF BodiesInv, Reference
<1> QED
  BY <1>1 DEF BodiesInv, AsFresh, Complete, ShowsWhatAFreshPageWould,
              WhatIsThereIsShown

\* Whatever the widgets were, a snapshot that is painted is as it should be.
LEMMA PaintedIsRight ==
  ASSUME body \in Kinds, NEW old, Body(body, old),
         NEW s \in Snapshots, widgets' = Apply(body, old, s)
  PROVE  /\ Widgets(widgets') /\ Held(body, widgets')
         /\ AsFresh(body, widgets', s) /\ Complete(body, widgets', s)
<1>1. body \in AllKinds
  BY PanelsAssumption
<1>2. Widgets(widgets') /\ Held(body, widgets') /\ Complete(body, widgets', s)
  BY <1>1, ApplyGivesWidgets, ApplyHolds, LooksComplete
<1>3. Widgets(old)
  BY DEF Body
<1>4. body = "interfaces" =>
        SeenUntitled(widgets') = SeenUntitled(Apply(body, NoRows, s))
  BY <1>3, InterfacesLookFresh
<1>5. body \in Faithful =>
        Seen(widgets') = Seen(Apply(body, NoRows, s))
  BY LooksFresh
<1> QED
  BY <1>2, <1>4, <1>5 DEF AsFresh

\* Before anything is painted there are no rows.
LEMMA NoRowsAreABody == \A k : Body(k, NoRows)
BY DEF Body, Widgets, Held, NoRows

\* The strengthening is kept by every step.
LEMMA BodiesStep ==
  ASSUME BodiesInv, [PanelsNext]_panelsVars
  PROVE  BodiesInv'
<1>1. /\ body \in Kinds /\ Body(body, widgets) /\ NoSnapshot \notin Snapshots
      /\ latest \in Snapshots \cup {NoSnapshot}
      /\ applied \in Snapshots \cup {NoSnapshot}
      /\ built \in BOOLEAN /\ visible \in BOOLEAN /\ (visible => built)
  BY PanelsAssumption DEF BodiesInv, PanelsTypeOK, Body, Widgets
<1>2. ASSUME NEW s \in Snapshots, NEW old, Body(body, old), applied' = s, latest' = s,
             widgets' = Apply(body, old, s), body' = body,
             built' \in BOOLEAN, visible' \in BOOLEAN, visible' => built'
      PROVE  BodiesInv'
  <2>1. /\ Widgets(widgets') /\ Held(body, widgets')
        /\ AsFresh(body, widgets', s) /\ Complete(body, widgets', s)
    BY <1>1, <1>2, PaintedIsRight
  <2>2. PanelsTypeOK'
    BY <1>1, <1>2, <2>1 DEF PanelsTypeOK, Widgets
  <2>3. Held(body, widgets)' /\ AsFresh(body, widgets, applied)' /\ Complete(body, widgets, applied)'
    BY <1>2, <2>1 DEF Held, AsFresh, Complete
  <2> QED
    BY <1>1, <1>2, <2>2, <2>3 DEF BodiesInv
<1>3. ASSUME UNCHANGED <<body, widgets, applied>>,
             built' \in BOOLEAN, visible' \in BOOLEAN, visible' => built',
             latest' \in Snapshots \cup {NoSnapshot}, latest' = NoSnapshot => latest = NoSnapshot,
             body \in OnDashboard /\ visible' => applied = latest'
      PROVE  BodiesInv'
  <2>1. PanelsTypeOK'
    BY <1>1, <1>3 DEF BodiesInv, PanelsTypeOK
  <2>2. Held(body, widgets)'
    BY <1>3 DEF BodiesInv, Held
  <2>3. (applied # NoSnapshot =>
          AsFresh(body, widgets, applied) /\ Complete(body, widgets, applied))'
    BY <1>3 DEF BodiesInv, AsFresh, Complete
  <2> QED
    BY <1>3, <2>1, <2>2, <2>3 DEF BodiesInv
<1>4. ASSUME NEW s \in Snapshots, OnSnapshot(s)
      PROVE  BodiesInv'
  <2>1. CASE built /\ visible
    BY <1>1, <1>2, <1>4, <2>1 DEF OnSnapshot, Paint
  <2>2. CASE ~(built /\ visible)
    BY <1>1, <1>3, <1>4, <2>2 DEF OnSnapshot
  <2> QED
    BY <2>1, <2>2
<1>5. CASE OnShown
  <2>1. CASE Replays /\ latest # NoSnapshot
    BY <1>1, <1>2, <1>5, <2>1 DEF OnShown, Paint
  <2>2. CASE ~(Replays /\ latest # NoSnapshot)
    <3>1. body \in OnDashboard => applied = latest
      BY <2>2 DEF Replays, BodiesInv
    <3> QED
      BY <1>1, <1>3, <1>5, <2>2, <3>1 DEF OnShown
  <2> QED
    BY <2>1, <2>2
<1>6. CASE OnHidden
  BY <1>1, <1>3, <1>6 DEF OnHidden
<1>7. CASE Rebuild
  <2>1. CASE latest = NoSnapshot
    <3>1. /\ widgets' = NoRows /\ applied' = NoSnapshot
          /\ UNCHANGED <<body, built, visible, latest>>
      BY <1>7, <2>1 DEF Rebuild
    <3>2. Widgets(widgets') /\ Held(body, widgets')
      BY <3>1, NoRowsAreABody DEF Body
    <3>3. PanelsTypeOK'
      BY <1>1, <3>1, <3>2 DEF PanelsTypeOK, Widgets
    <3>4. Held(body, widgets)'
      BY <3>1, <3>2 DEF Held
    <3> QED
      BY <2>1, <3>1, <3>3, <3>4 DEF BodiesInv
  <2>2. CASE latest # NoSnapshot
    <3>1. /\ widgets' = Apply(body, NoRows, latest) /\ applied' = latest
          /\ UNCHANGED <<body, built, visible, latest>>
      BY <1>7, <2>2 DEF Rebuild
    <3> QED
      BY <1>1, <1>2, <2>2, <3>1, NoRowsAreABody
  <2> QED
    BY <2>1, <2>2
<1>8. CASE UNCHANGED panelsVars
  BY <1>1, <1>3, <1>8 DEF panelsVars, BodiesInv
<1> QED
  BY <1>4, <1>5, <1>6, <1>7, <1>8 DEF PanelsNext

\* It holds at first.
LEMMA BodiesStart == PanelsInit => BodiesInv
<1>1. ASSUME PanelsInit PROVE BodiesInv
  <2>1. Widgets(widgets) /\ Held(body, widgets)
    BY <1>1, NoRowsAreABody DEF PanelsInit, Body
  <2> QED
    BY <1>1, <2>1 DEF PanelsInit, BodiesInv, PanelsTypeOK, Widgets
<1> QED
  BY <1>1

\* So it always does.
LEMMA BodiesCorrect == PanelsSpec => []BodiesInv
<1>1. BodiesInv /\ [PanelsNext]_panelsVars => BodiesInv'
  BY BodiesStep
<1> QED
  BY <1>1, BodiesStart, PTL DEF PanelsSpec

\* What a page shows depends on the last snapshot and not on the ones before it,
\* for any names, units and number of things (ui/pages, on_snapshot and _render).
THEOREM BodiesLookFresh == PanelsSpec => []ShowsWhatAFreshPageWould
BY BodiesCorrect, BodiesInvSuffices, PTL

\* What the last snapshot has is on the page, and what alarms has the colour of it.
THEOREM BodiesAreComplete == PanelsSpec => []WhatIsThereIsShown
BY BodiesCorrect, BodiesInvSuffices, PTL

-----------------------------------------------------------------------------
(* The diagnostics page *)

\* If all are comparable, one is the greatest.
LEMMA Greatest ==
  ASSUME NEW N \in Nat \ {0}, NEW R,
         \A i, j \in 1..N : <<i, j>> \in R \/ <<j, i>> \in R,
         \A i, j, k \in 1..N : <<i, j>> \in R /\ <<j, k>> \in R => <<i, k>> \in R
  PROVE  \E m \in 1..N : \A i \in 1..N : <<i, m>> \in R
<1> DEFINE M == N - 1
           Topped(n) == \E m \in 1..(n + 1) : \A i \in 1..(n + 1) : <<i, m>> \in R
           S == {n \in 0..M : Topped(n)}
<1>1. M \in Nat /\ \A n \in 0..M : 1..(n + 1) \subseteq 1..N
  OBVIOUS
<1>2. 0 \in S
  <2>1. 1 \in 1..N /\ \A i \in 1..(0 + 1) : i = 1
    OBVIOUS
  <2>2. 0 \in 0..M /\ 1 \in 1..(0 + 1)
    BY <1>1
  <2> QED
    BY <2>1, <2>2
<1>3. ASSUME NEW n \in 0..(M - 1), n \in S
      PROVE  n + 1 \in S
  <2>1. PICK m \in 1..(n + 1) : \A i \in 1..(n + 1) : <<i, m>> \in R
    BY <1>3
  <2> DEFINE o == n + 2
  <2>2. /\ n + 1 \in 0..M /\ o \in 1..N /\ m \in 1..N /\ (n + 1) + 1 = o
        /\ m \in 1..o /\ o \in 1..o
        /\ \A i \in 1..o : i \in 1..N /\ (i \in 1..(n + 1) \/ i = o)
    BY <1>1
  <2> HIDE DEF o
  <2>3. CASE <<m, o>> \in R
    <3>1. \A i \in 1..o : <<i, o>> \in R
      BY <2>1, <2>2, <2>3
    <3> QED
      BY <2>2, <3>1
  <2>4. CASE <<m, o>> \notin R
    <3>1. \A i \in 1..o : <<i, m>> \in R
      BY <2>1, <2>2, <2>4
    <3> QED
      BY <2>2, <3>1
  <2> QED
    BY <2>3, <2>4
<1> HIDE DEF S
<1>4. 0..M \subseteq S
  BY <1>1, <1>2, <1>3, Counting
<1>5. M \in S
  <2> HIDE DEF M
  <2> QED
    BY <1>1, <1>4
<1>6. Topped(M) /\ M + 1 = N
  BY <1>5 DEF S
<1> QED
  BY <1>6

\* Of the places with an element of a set, one is the first.
LEMMA FirstPlace ==
  ASSUME NEW X, NEW s \in Seq(X), NEW S, \E i \in DOMAIN s : s[i] \in S
  PROVE  \E i \in DOMAIN s : s[i] \in S /\ \A j \in 1..(i - 1) : s[j] \notin S
<1> DEFINE T == {i \in DOMAIN s : s[i] \in S}
<1>1. Len(s) \in Nat /\ DOMAIN s = 1..Len(s)
  BY LenProperties
<1>2. T \in SUBSET Nat /\ T # {}
  BY <1>1
<1>3. PICK m \in T : \A k \in T : m <= k
  <2> HIDE DEF T
  <2> QED
    BY <1>2, LeastNatural
<1>4. \A j \in 1..(m - 1) : j \in DOMAIN s /\ ~(m <= j)
  BY <1>1
<1> QED
  BY <1>3, <1>4

\* What Kept returns.
Keeping(s, S, f) ==
  f = [n \in 0..Len(s) |->
         IF n = 0 THEN <<>> ELSE IF s[n] \in S THEN Append(f[n - 1], s[n]) ELSE f[n - 1]]

\* It is what a function with the equation of Kept gives.
LEMMA KeptIsKeeping ==
  ASSUME NEW X, NEW s \in Seq(X), NEW S
  PROVE  \E f \in [0..Len(s) -> Seq(X)] : Keeping(s, S, f) /\ Kept(s, S) = f[Len(s)]
<1> DEFINE N == Len(s)
           V == Seq(X)
           step == [n \in 1..N |-> [v \in V |-> IF s[n] \in S THEN Append(v, s[n]) ELSE v]]
           kept == CHOOSE f : Keeping(s, S, f)
<1>1. N \in Nat /\ \A n \in 1..N : s[n] \in X
  BY LenProperties
<1>2. <<>> \in V /\ \A v \in V, x \in X : Append(v, x) \in V
  BY EmptySeq, AppendProperties
<1> HIDE DEF V
<1>3. step \in [1..N -> [V -> V]]
  BY <1>1, <1>2
<1>4. PICK g \in [0..N -> V] : \A n \in 0..N : g[n] = IF n = 0 THEN <<>> ELSE step[n][g[n - 1]]
  <2>1. Changes(N, V, step)
    BY <1>3 DEF Changes
  <2> HIDE DEF N, step
  <2>2. \E f \in [0..N -> V] : Becomes(N, <<>>, step, f)
    BY <1>1, <1>2, <2>1, Iteration
  <2> QED
    BY <2>2 DEF Becomes
<1>5. \A n \in 0..N : n # 0 => n \in 1..N /\ g[n - 1] \in V
  <2>1. \A n \in 0..N : n # 0 => n \in 1..N /\ n - 1 \in 0..N
    BY <1>1
  <2> QED
    BY <1>4, <2>1
<1>6. Keeping(s, S, g)
  <2>1. \A n \in 0..N : g[n] = IF n = 0 THEN <<>>
                               ELSE IF s[n] \in S THEN Append(g[n - 1], s[n]) ELSE g[n - 1]
    BY <1>4, <1>5
  <2> QED
    BY <1>4, <2>1 DEF Keeping
<1>7. Keeping(s, S, kept)
  BY <1>6
<1>8. Kept(s, S) = kept[N]
  BY DEF Kept, Keeping
<1>9. kept = g
  <2> DEFINE T == {n \in 0..N : kept[n] = g[n]}
  <2>1. 0 \in T
    <3>1. 0 \in 0..N
      BY <1>1
    <3>2. \A f : Keeping(s, S, f) => f[0] = <<>>
      BY <3>1 DEF Keeping
    <3> QED
      BY <1>6, <1>7, <3>1, <3>2
  <2>2. ASSUME NEW n \in 0..(N - 1), n \in T PROVE n + 1 \in T
    <3>1. n + 1 \in 0..N /\ n + 1 # 0 /\ (n + 1) - 1 = n
      BY <1>1
    <3>2. \A f : Keeping(s, S, f) => f[n + 1] = IF s[n + 1] \in S THEN Append(f[n], s[n + 1]) ELSE f[n]
      BY <3>1 DEF Keeping
    <3> QED
      BY <1>6, <1>7, <2>2, <3>1, <3>2
  <2> HIDE DEF T, kept
  <2>3. 0..N \subseteq T
    BY <1>1, <2>1, <2>2, Counting
  <2>4. \A n \in 0..N : kept[n] = g[n]
    BY <2>3 DEF T
  <2>5. kept = [n \in 0..N |-> kept[n]] /\ g = [n \in 0..N |-> g[n]]
    BY <1>6, <1>7 DEF Keeping
  <2> QED
    BY <2>4, <2>5
<1> QED
  BY <1>4, <1>7, <1>8, <1>9 DEF V

\* Appending an element adds it to the elements.
LEMMA AppendedElements ==
  ASSUME NEW X, NEW s \in Seq(X), NEW e \in X
  PROVE  Elements(Append(s, e)) = Elements(s) \cup {e}
<1> DEFINE t == Append(s, e)
<1>1. /\ t \in Seq(X) /\ Len(t) = Len(s) + 1
      /\ \A i \in 1..Len(s) : t[i] = s[i]
      /\ t[Len(s) + 1] = e
  BY AppendProperties
<1>2. Len(s) \in Nat /\ DOMAIN s = 1..Len(s) /\ DOMAIN t = 1..Len(t)
  BY <1>1, LenProperties
<1> HIDE DEF t
<1>3. DOMAIN t = DOMAIN s \cup {Len(s) + 1}
  BY <1>1, <1>2
<1>4. \A i \in DOMAIN s : t[i] = s[i]
  BY <1>1, <1>2
<1> QED
  BY <1>1, <1>3, <1>4 DEF t, Elements

\* A sequence joined to another adds its elements.
LEMMA JoinedElements ==
  ASSUME NEW X, NEW s \in Seq(X), NEW t \in Seq(X)
  PROVE  s \o t \in Seq(X) /\ Elements(s \o t) = Elements(s) \cup Elements(t)
<1> DEFINE u == s \o t
           m == Len(s)
           n == Len(t)
<1>1. /\ u \in Seq(X) /\ Len(u) = m + n
      /\ \A i \in 1..(m + n) : u[i] = IF i <= m THEN s[i] ELSE t[i - m]
  BY ConcatProperties
<1>2. /\ m \in Nat /\ n \in Nat
      /\ DOMAIN s = 1..m /\ DOMAIN t = 1..n /\ DOMAIN u = 1..(m + n)
  BY <1>1, LenProperties
<1> HIDE DEF u, m, n
<1>3. \A i \in DOMAIN s : i \in DOMAIN u /\ u[i] = s[i]
  BY <1>1, <1>2
<1>4. \A i \in DOMAIN t : m + i \in DOMAIN u /\ u[m + i] = t[i]
  BY <1>1, <1>2
<1>5. \A i \in DOMAIN u : (i \in DOMAIN s /\ u[i] = s[i]) \/ (i - m \in DOMAIN t /\ u[i] = t[i - m])
  BY <1>1, <1>2
<1>6. Elements(u) \subseteq Elements(s) \cup Elements(t)
  BY <1>5 DEF Elements
<1>7. Elements(s) \subseteq Elements(u)
  BY <1>3 DEF Elements
<1>8. Elements(t) \subseteq Elements(u)
  BY <1>4 DEF Elements
<1> QED
  BY <1>1, <1>6, <1>7, <1>8 DEF u

\* Kept elements are those of the set.
LEMMA KeptFacts ==
  ASSUME NEW X, NEW s \in Seq(X), NEW S
  PROVE  /\ Kept(s, S) \in Seq(X)
         /\ Elements(Kept(s, S)) = Elements(s) \cap S
<1> DEFINE N == Len(s)
           Among(n) == {s[i] : i \in 1..n} \cap S
<1>1. N \in Nat /\ DOMAIN s = 1..N /\ \A n \in 1..N : s[n] \in X
  BY LenProperties
<1>2. PICK f \in [0..N -> Seq(X)] : Keeping(s, S, f) /\ Kept(s, S) = f[N]
  BY KeptIsKeeping
<1>3. /\ f[0] = <<>>
      /\ \A n \in 0..(N - 1) : f[n + 1] = IF s[n + 1] \in S THEN Append(f[n], s[n + 1]) ELSE f[n]
  <2>1. 0 \in 0..N /\ \A n \in 0..(N - 1) : n + 1 \in 0..N /\ n + 1 # 0 /\ (n + 1) - 1 = n
    BY <1>1
  <2>2. \A n \in 0..N : f[n] = IF n = 0 THEN <<>>
                               ELSE IF s[n] \in S THEN Append(f[n - 1], s[n]) ELSE f[n - 1]
    BY <1>2 DEF Keeping
  <2> QED
    BY <2>1, <2>2
<1> DEFINE T == {n \in 0..N : Elements(f[n]) = Among(n)}
<1>4. 0 \in T
  <2>1. Elements(<<>>) = {} /\ Among(0) = {}
    BY DEF Elements
  <2> QED
    BY <1>1, <1>3, <2>1
<1>5. ASSUME NEW n \in 0..(N - 1), n \in T
      PROVE  n + 1 \in T
  <2> DEFINE m == n + 1
  <2>1. n \in 0..N /\ m \in 0..N /\ m \in 1..N /\ 1..m = 1..n \cup {m}
    BY <1>1
  <2> HIDE DEF m
  <2>2. f[n] \in Seq(X) /\ s[m] \in X
    BY <1>1, <1>2, <2>1
  <2>3. Elements(Append(f[n], s[m])) = Elements(f[n]) \cup {s[m]}
    BY <2>2, AppendedElements
  <2>4. f[m] = IF s[m] \in S THEN Append(f[n], s[m]) ELSE f[n]
    BY <1>3 DEF m
  <2>5. Elements(f[n]) = Among(n)
    BY <1>5
  <2>6. Among(m) = Among(n) \cup ({s[m]} \cap S)
    BY <2>1
  <2> HIDE DEF Among
  <2>7. Elements(f[m]) = Among(m)
    BY <2>3, <2>4, <2>5, <2>6
  <2> QED
    BY <2>1, <2>7 DEF m
<1> HIDE DEF T
<1>6. 0..N \subseteq T
  BY <1>1, <1>4, <1>5, Counting
<1>7. N \in T
  BY <1>1, <1>6
<1> QED
  BY <1>1, <1>2, <1>7 DEF T, Elements

-----------------------------------------------------------------------------
(* Results *)

\* A result has one of the severities.
Judged(results) ==
  \A r \in results : r.severity \in Severities /\ r.skipped \in BOOLEAN

\* So has what the checks are made of.
LEMMA FindingsAreJudged ==
  /\ \A c, t : \A v \in 0..3 : Judged(Finding(c, v)) /\ Judged(FindingOf(c, t, v))
  /\ \A c : Judged(Skip(c))
BY DEF Judged, Finding, FindingOf, Skip, Severities,
       OK, CRITICAL

\* Results that are joined keep their severities.
LEMMA JoinedAreJudged ==
  ASSUME NEW S, NEW T, Judged(S), Judged(T)
  PROVE  Judged(S \cup T)
BY DEF Judged

\* The verdict on a disk is one of four.
LEMMA DiskVerdicts ==
  \A raw : \A d \in StorageSnapshot(raw).disks :
    d.verdict \in {"unknown", "failing", "warning", "passed"}
BY DEF StorageSnapshot, Health, Smart, UnknownHealth

\* Sensors are judged as the worst of them.
LEMMA WorstStatuses == \A s : WorstStatus(s) \in {"critical", "hot", "fine"}
BY DEF WorstStatus

\* The checks find what they find with a severity.
LEMMA ResultsAreJudged ==
  ASSUME NEW d \in Domains, NEW raw
  PROVE  Judged(Results(d, Collect(d, raw)))
<1> DEFINE s == Collect(d, raw)
<1> USE FindingsAreJudged
<1>1. CASE d = "cpu"
  <2>1. Judged(CheckCpuLoad(s)) /\ Judged(CheckCpuThermals(s))
    BY DEF CheckCpuLoad, CheckCpuThermals, High,
           OK, INFO, WARNING, CRITICAL
  <2> QED
    BY <1>1, <2>1 DEF Results, Judged
<1>2. CASE d = "memory"
  <2>1. /\ Judged(CheckMemory(s)) /\ Judged(CheckMemoryPressure(s))
        /\ Judged(CheckSwap(s))
    BY DEF CheckMemory, CheckMemoryPressure, CheckSwap,
           High, Low,
           OK, INFO, WARNING, CRITICAL
  <2> QED
    BY <1>2, <2>1 DEF Results, Judged
<1>3. CASE d = "storage"
  <2>1. Judged(CheckDiskSpace(s)) /\ Judged(CheckDiskThermals(s))
    BY DEF CheckDiskSpace, CheckDiskThermals, High, Judged,
           OK, INFO, WARNING, CRITICAL
  <2>2. Judged(CheckDiskHealth(s))
    <3>1. \A k \in s.disks : k.verdict \in {"unknown", "failing", "warning", "passed"}
      BY <1>3, DiskVerdicts DEF Collect, NoStorageSnapshot
    <3> DEFINE severity(k) == CASE k.verdict = "failing" -> CRITICAL
                                [] k.verdict = "warning" -> WARNING
                                [] k.verdict = "passed"  -> OK
               known == {k \in s.disks : k.verdict # "unknown"}
               told == UNION {FindingOf("storage.health", k.name, severity(k)) : k \in known}
    <3>2. \A k \in known : severity(k) \in 0..3
      BY <3>1 DEF OK, WARNING, CRITICAL
    <3>3. CheckDiskHealth(s)
            = told \cup (IF known = s.disks THEN {} ELSE Skip("storage.health"))
      BY DEF CheckDiskHealth
    <3> HIDE DEF severity
    <3>4. \A k \in known : Judged(FindingOf("storage.health", k.name, severity(k)))
      BY <3>2
    <3>5. Judged(told)
      BY <3>4 DEF Judged
    <3>6. Judged(IF known = s.disks THEN {} ELSE Skip("storage.health"))
      BY DEF Judged
    <3> HIDE DEF known, told
    <3> QED
      BY <3>3, <3>5, <3>6, JoinedAreJudged
  <2> QED
    BY <1>3, <2>1, <2>2 DEF Results, Judged
<1>4. CASE d = "gpu"
  <2>1. Judged(CheckGpu(s))
    BY DEF CheckGpu, Judged, OK, WARNING
  <2> QED
    BY <1>4, <2>1 DEF Results
<1>5. CASE d = "sensors"
  <2>1. Judged(CheckSensors(s))
    BY WorstStatuses DEF CheckSensors, OK, WARNING, CRITICAL
  <2> QED
    BY <1>5, <2>1 DEF Results
<1>6. CASE d = "battery"
  <2> DEFINE worn == IF s.health = None THEN {}
                     ELSE Finding("battery.health", IF s.health < 55 THEN WARNING
                                                             ELSE IF s.health < 80 THEN INFO
                                                             ELSE OK)
             low == IF s.percent # None /\ s.percent < 15 /\ ~s.charging
                    THEN Finding("battery.charge", WARNING) ELSE {}
  <2>1. Judged(worn) /\ Judged(low) /\ Judged(Skip("battery.health"))
    <3> DEFINE v == IF s.health < 55 THEN WARNING
                    ELSE IF s.health < 80 THEN INFO ELSE OK
    <3>1. v \in 0..3 /\ WARNING \in 0..3
      BY DEF OK, INFO, WARNING
    <3>2. worn = IF s.health = None THEN {} ELSE Finding("battery.health", v)
      OBVIOUS
    <3> HIDE DEF v, worn
    <3>3. Judged({})
      BY DEF Judged
    <3>4. Judged(worn)
      BY <3>1, <3>2, <3>3
    <3>5. Judged(low)
      BY <3>1, <3>3
    <3> QED
      BY <3>4, <3>5
  <2>2. CheckBattery(s) = IF ~s.present THEN Skip("battery.health")
                                   ELSE worn \cup low
    BY DEF CheckBattery
  <2> HIDE DEF worn, low
  <2>3. Judged(CheckBattery(s))
    BY <2>1, <2>2, JoinedAreJudged
  <2> QED
    BY <1>6, <2>3 DEF Results
<1>7. CASE d = "network"
  <2> DEFINE faulty == IF s.errors > 1000
                       THEN Finding("network.errors", WARNING) ELSE {}
             offline == Finding("network.status", WARNING)
             online == Finding("network.status", OK)
  <2>1. Judged(faulty) /\ Judged(offline) /\ Judged(online)
    BY DEF Judged, OK, WARNING
  <2>2. CheckNetwork(s) = IF ~s.online THEN offline ELSE online \cup faulty
    BY DEF CheckNetwork
  <2> HIDE DEF faulty, offline, online
  <2>3. Judged(CheckNetwork(s))
    BY <2>1, <2>2, JoinedAreJudged
  <2> QED
    BY <1>7, <2>3 DEF Results
<1>8. CASE d = "services"
  <2>1. Judged(CheckServices(s))
    BY DEF CheckServices, OK, WARNING
  <2> QED
    BY <1>8, <2>1 DEF Results
<1>9. CASE d = "processes"
  <2>1. Judged(CheckProcesses(s))
    BY DEF CheckProcesses, OK, WARNING
  <2> QED
    BY <1>9, <2>1 DEF Results
<1> QED
  BY <1>1, <1>2, <1>3, <1>4, <1>5, <1>6, <1>7, <1>8, <1>9 DEF Domains

\* The worst of the results is as bad as each that was not skipped.
LEMMA WorstIsWorst ==
  ASSUME NEW results, Judged(results), NEW r \in results, ~r.skipped
  PROVE  Worst(results) \in 0..3 /\ r.severity <= Worst(results)
<1> DEFINE S == {OK} \cup {x.severity : x \in {y \in results : ~y.skipped}}
           T == {3 - v : v \in S}
<1>1. S \subseteq 0..3 /\ r.severity \in S
  BY DEF Judged, Severities, OK, CRITICAL
<1>2. \E m \in S : \A v \in S : v <= m
  <2> HIDE DEF S
  <2>1. T \in SUBSET Nat /\ T # {}
    <3>1. \A v \in S : 3 - v \in Nat
      BY <1>1
    <3>2. S # {}
      BY <1>1
    <3> HIDE DEF S
    <3> QED
      BY <3>1, <3>2
  <2>2. PICK t \in T : \A u \in T : t <= u
    <3> HIDE DEF T
    <3> QED
      BY <2>1, LeastNatural
  <2>3. PICK m \in S : t = 3 - m
    BY <2>2
  <2>4. \A v \in S : 3 - m <= 3 - v /\ v \in 0..3
    BY <1>1, <2>2, <2>3
  <2>5. \A v \in S : v <= m
    BY <1>1, <2>4
  <2> QED
    BY <2>5
<1>3. Worst(results) = CHOOSE x \in S : \A y \in S : y <= x
  BY DEF Worst, Largest
<1> HIDE DEF S
<1> QED
  BY <1>1, <1>2, <1>3

-----------------------------------------------------------------------------
(* Dangers *)

\* A result that tells a danger.
Tells(results, severity) == \E r \in results : ~r.skipped /\ r.severity >= severity

\* A finding tells of what is no worse.
LEMMA FindingsTell ==
  /\ \A c, v, severity : v >= severity => Tells(Finding(c, v), severity)
  /\ \A c, t, v, severity : v >= severity => Tells(FindingOf(c, t, v), severity)
BY DEF Tells, Finding, FindingOf

\* More results tell what some of them tell.
LEMMA MoreTell ==
  ASSUME NEW S, NEW T, NEW severity, Tells(S, severity) \/ Tells(T, severity)
  PROVE  Tells(S \cup T, severity)
BY DEF Tells

\* A filesystem short of space is found, if no other has the name of its device.
LEMMA SpaceIsFound ==
  ASSUME NEW raw, StorageReading(raw), None \notin Int,
         NEW severity \in {2, 3}, NEW i \in DOMAIN raw.mounts,
         \A j \in DOMAIN raw.mounts : raw.mounts[j].device = raw.mounts[i].device => j = i,
         ~raw.mounts[i].remote, Truthy(raw.mounts[i].total),
         severity = 3 => 100 * raw.mounts[i].used >= 95 * raw.mounts[i].total,
         severity = 2 => 100 * raw.mounts[i].used >= 88 * raw.mounts[i].total
  PROVE  Tells(CheckDiskSpace(StorageSnapshot(raw)), severity)
<1> DEFINE m == raw.mounts[i]
           f == [device |-> m.device, total |-> m.total, used |-> m.used]
           s == StorageSnapshot(raw)
           weigh(g) == High(100 * g.used, 95 * g.total, 88 * g.total)
           measured == Measured(s.filesystems)
           short == {g \in measured : weigh(g) > OK}
<1>1. m.total \in Nat /\ m.used \in Nat
  <2>1. {m.total, m.used} \in {{None}} \cup SUBSET Nat /\ m.total # None
    BY DEF StorageReading, Truthy
  <2> QED
    BY <2>1
<1>2. i \in Nat
  <2>1. raw.mounts \in Seq(Elements(raw.mounts))
    BY DEF StorageReading
  <2> QED
    BY <2>1, LenProperties
<1>3. f \in Filesystems(raw.mounts)
  <2> DEFINE Final(k) == \A j \in DOMAIN raw.mounts :
                           raw.mounts[j].device = raw.mounts[k].device => j <= k
  <2>1. Final(i)
    BY <1>2
  <2> QED
    BY <2>1 DEF Filesystems
<1>4. f \in measured
  <2>1. s.filesystems = Filesystems(raw.mounts)
    BY DEF StorageSnapshot
  <2> QED
    BY <1>3, <2>1 DEF Measured
<1>5. weigh(f) >= severity /\ weigh(f) > 0
  BY <1>1 DEF High, CRITICAL, WARNING, OK
<1> HIDE DEF weigh, measured
<1>6. f \in short
  BY <1>4, <1>5 DEF OK
<1>7. Tells(FindingOf("storage.space", f.device, weigh(f)), severity)
  BY <1>5, FindingsTell
<1>8. CheckDiskSpace(s)
        = IF short = {} THEN Finding("storage.space", OK)
          ELSE UNION {FindingOf("storage.space", g.device, weigh(g)) : g \in short}
  BY DEF CheckDiskSpace, weigh, measured
<1> HIDE DEF f, short
<1> QED
  BY <1>6, <1>7, <1>8 DEF Tells

\* A disk that fails its own test is found, whatever is known of the others.
LEMMA FailingDisksAreFound ==
  ASSUME NEW raw, None \notin BOOLEAN, NEW severity \in {2, 3}, NEW disk \in raw.disks,
         disk.smart # None, ~disk.smart.refused, disk.smart.passed = FALSE
  PROVE  Tells(CheckDiskHealth(StorageSnapshot(raw)), severity)
<1> DEFINE s == StorageSnapshot(raw)
           d == Health(disk, raw.nvme)
           weigh(k) == CASE k.verdict = "failing" -> CRITICAL
                         [] k.verdict = "warning" -> WARNING
                         [] k.verdict = "passed"  -> OK
           known == {k \in s.disks : k.verdict # "unknown"}
           told == UNION {FindingOf("storage.health", k.name, weigh(k)) : k \in known}
<1>1. d \in s.disks
  BY DEF StorageSnapshot
<1>2. d.verdict = "failing"
  BY DEF Health, Smart
<1>3. d \in known
  BY <1>1, <1>2
<1>4. weigh(d) >= severity
  BY <1>2 DEF CRITICAL
<1> HIDE DEF d, weigh, known
<1>5. Tells(FindingOf("storage.health", d.name, weigh(d)), severity)
  BY <1>4, FindingsTell
<1>6. Tells(told, severity)
  BY <1>3, <1>5 DEF Tells
<1> HIDE DEF told
<1>7. CheckDiskHealth(s)
        = told \cup (IF known = s.disks THEN {} ELSE Skip("storage.health"))
  BY DEF CheckDiskHealth, told, known, weigh
<1> QED
  BY <1>6, <1>7, MoreTell

\* A hot sensor is found, whatever the others say.
LEMMA HeatIsFound ==
  ASSUME NEW raw, NEW severity \in {2, 3}, NEW s \in raw,
         s.kind = "temperature", s.value # None, Truthy(s.critical),
         severity = 3 => s.value >= s.critical,
         severity = 2 => 100 * s.value >= 85 * s.critical
  PROVE  Tells(CheckSensors(SensorSnapshot(raw)), severity)
<1> DEFINE sensors == SensorSnapshot(raw)
           worst == WorstStatus(sensors)
           weight == CASE worst = "critical" -> CRITICAL
                       [] worst = "hot"      -> WARNING
                       [] worst = "fine"     -> OK
<1>1. s \in sensors
  BY DEF SensorSnapshot
<1>2. Status(s) = "critical" \/ (severity = 2 /\ Status(s) = "hot")
  BY DEF Status
<1> HIDE DEF sensors
<1>3. worst = "critical" \/ (severity = 2 /\ worst = "hot")
  BY <1>1, <1>2 DEF WorstStatus
<1>4. weight >= severity
  BY <1>3 DEF CRITICAL, WARNING
<1> HIDE DEF worst, weight
<1>5. CheckSensors(sensors) = Finding("sensors.thermal", weight)
  BY <1>1 DEF CheckSensors, worst, weight
<1> QED
  BY <1>4, <1>5, FindingsTell DEF sensors

\* So is a battery that runs low.
LEMMA LowChargeIsFound ==
  ASSUME NEW raw, raw.found, raw.status = "discharging", raw.capacity # None, raw.capacity < 15
  PROVE  Tells(CheckBattery(BatterySnapshot(raw)), 2)
<1> DEFINE s == BatterySnapshot(raw)
<1>1. s.present /\ s.percent = raw.capacity /\ ~s.charging
  BY DEF BatterySnapshot, Charge
<1>2. Tells(Finding("battery.charge", WARNING), 2)
  BY FindingsTell DEF WARNING
<1> HIDE DEF s
<1> QED
  BY <1>1, <1>2, MoreTell DEF CheckBattery, s

\* So is a unit that failed, where systemctl told its state.
LEMMA FailedUnitsAreFound ==
  ASSUME NEW raw, raw.systemd, NEW i \in DOMAIN raw.units, raw.units[i] = "failed",
         (i - 1) \div BatchSize \in raw.answered
  PROVE  Tells(CheckServices(ServiceSnapshot(raw)), 2)
<1> DEFINE units == ServiceSnapshot(raw)
<1>1. i \in DOMAIN units /\ units[i] = "failed"
  BY DEF ServiceSnapshot
<1> HIDE DEF units
<1>2. i \in Failed(units) /\ units # <<>>
  BY <1>1 DEF Failed
<1>3. CheckServices(units) = Finding("services.failed", WARNING)
  BY <1>2 DEF CheckServices
<1> QED
  BY <1>3, FindingsTell DEF WARNING, units

\* So is a machine on which no interface is up with an address.
LEMMA DisconnectionIsFound ==
  ASSUME NEW raw, \A i \in raw : i.ipv4 => ~i.up
  PROVE  Tells(CheckNetwork(NetworkSnapshot(raw)), 2)
<1> DEFINE s == NetworkSnapshot(raw)
<1>1. ~s.online
  BY DEF NetworkSnapshot
<1> HIDE DEF s
<1> QED
  BY <1>1, FindingsTell DEF CheckNetwork, WARNING, s


\* What is known of an adapter.
Adapter == [utilisation : Number, clock : Number,
            temperature : Number, throttle : SUBSET STRING]

\* What has the places of a sequence is one.
LEMMA SamePlaces ==
  ASSUME NEW X, NEW s \in Seq(X), NEW Y, NEW t \in [DOMAIN s -> Y]
  PROVE  t \in Seq(Y)
<1>1. DOMAIN s = 1..Len(s) /\ Len(s) \in Nat
  BY LenProperties
<1>2. t \in [1..Len(s) -> Y]
  BY <1>1
<1> QED
  BY <1>1, <1>2, SeqDef

\* The places of a sequence hold its elements.
LEMMA PlacesOfElements ==
  ASSUME NEW X, NEW s \in Seq(X)
  PROVE  /\ Elements(s) \subseteq X
         /\ \A x \in Elements(s) : \E i \in DOMAIN s : s[i] = x
         /\ \A i \in DOMAIN s : s[i] \in Elements(s)
<1>1. \A i \in DOMAIN s : s[i] \in X
  BY LenProperties
<1> QED
  BY <1>1 DEF Elements

\* The sensor of the package, where there is but one, tells the heat.
LEMMA HeatOfThePackage ==
  ASSUME NEW chip \in Seq([label : {"package", "core", "other"}, value : Number])
  PROVE  /\ PackageHeat(chip) \in Number
         /\ \A r \in Elements(chip) :
              /\ r.label = "package"
              /\ \A x \in Elements(chip) : x.label = "package" => x = r
              => PackageHeat(chip) = r.value
<1> DEFINE R == [label : {"package", "core", "other"}, value : Number]
           P == {r \in R : r.label = "package"}
           first == CHOOSE i \in DOMAIN chip : chip[i].label = "package"
                                               /\ \A j \in 1..(i - 1) : ~(chip[j].label = "package")
<1>1. /\ DOMAIN chip = 1..Len(chip) /\ Len(chip) \in Nat
      /\ \A i \in DOMAIN chip : chip[i] \in R
      /\ chip # <<>> => Head(chip) \in R
  <2> HIDE DEF R
  <2>1. chip \in Seq(R)
    BY DEF R
  <2>2. chip # <<>> => Head(chip) \in R
    BY <2>1, HeadTailProperties
  <2> QED
    BY <2>1, <2>2, LenProperties
<1>2. CASE \E r \in Elements(chip) : r.label = "package"
  <2>1. \E i \in DOMAIN chip : chip[i] \in P
    BY <1>1, <1>2 DEF Elements
  <2>2. \E i \in DOMAIN chip : chip[i] \in P /\ \A j \in 1..(i - 1) : chip[j] \notin P
    <3> HIDE DEF P, R
    <3> QED
      BY <2>1, FirstPlace DEF R
  <2>3. \A i \in DOMAIN chip : \A j \in 1..(i - 1) : j \in DOMAIN chip
    BY <1>1
  <2>4. \E i \in DOMAIN chip : chip[i].label = "package"
                               /\ \A j \in 1..(i - 1) : ~(chip[j].label = "package")
    BY <1>1, <2>2, <2>3
  <2>5. first \in DOMAIN chip /\ chip[first].label = "package"
    BY <2>4
  <2> HIDE DEF first
  <2>6. chip # <<>>
    BY <2>5
  <2>7. PackageHeat(chip) = chip[first].value
    BY <1>2, <2>6 DEF PackageHeat, FirstOf, first
  <2>8. chip[first] \in R /\ chip[first] \in Elements(chip)
    BY <1>1, <2>5 DEF Elements
  <2> QED
    BY <2>5, <2>7, <2>8
<1>3. CASE ~ \E r \in Elements(chip) : r.label = "package"
  <2>1. chip = <<>> => PackageHeat(chip) = None
    BY DEF PackageHeat
  <2>2. chip # <<>> => PackageHeat(chip) = Head(chip).value
    BY <1>3 DEF PackageHeat
  <2> QED
    BY <1>1, <1>3, <2>1, <2>2 DEF Number
<1> QED
  BY <1>2, <1>3

\* The adapters of each vendor: none is lost but those of a vendor that raised.
LEMMA NvidiaAdapters ==
  ASSUME NEW raw, GpuReading(raw)
  PROVE  /\ NvidiaSamples(raw.nvidia) \in Seq(Adapter)
         /\ raw.nvidia # None =>
              \A line \in Elements(raw.nvidia) : line.whole /\ line.identified =>
                \E g \in Elements(NvidiaSamples(raw.nvidia)) :
                  g.temperature = line.temperature /\ g.throttle = Throttle(line.throttle)
<1> DEFINE R == [whole : BOOLEAN, identified : BOOLEAN, utilisation : Number,
                 clock : Number, temperature : Number,
                 throttle : SUBSET STRING]
           lines == raw.nvidia
           whole == WholeRows(lines)
           known == Kept(whole, {line \in Elements(whole) : line.identified})
           Of(line) == [utilisation |-> line.utilisation, clock |-> line.clock,
                       temperature |-> line.temperature,
                       throttle |-> Throttle(line.throttle)]
           samples == [i \in DOMAIN known |-> Of(known[i])]
<1>1. lines = None \/ lines \in Seq(R)
  BY DEF GpuReading
<1>2. NvidiaSamples(lines) = samples
  BY DEF NvidiaSamples
<1> HIDE DEF R
<1>3. whole \in Seq(R) /\ (lines # None => \A line \in Elements(lines) :
                             line.whole => line \in Elements(whole))
  <2>1. CASE lines = None
    BY <2>1, EmptySeq DEF WholeRows
  <2>2. CASE lines # None
    <3> DEFINE W == {line \in Elements(lines) : line.whole}
    <3>1. whole = Kept(lines, W)
      BY <2>2 DEF WholeRows
    <3> HIDE DEF W, whole
    <3>2. whole \in Seq(R) /\ Elements(whole) = Elements(lines) \cap W
      BY <1>1, <2>2, <3>1, KeptFacts
    <3> QED
      BY <3>2 DEF W
  <2> QED
    BY <2>1, <2>2
<1> DEFINE I == {line \in Elements(whole) : line.identified}
<1> HIDE DEF whole
<1>4. known \in Seq(R) /\ Elements(known) = Elements(whole) \cap I
  <2> HIDE DEF I
  <2>1. known = Kept(whole, I)
    BY DEF I
  <2> HIDE DEF known
  <2> QED
    BY <1>3, <2>1, KeptFacts
<1> HIDE DEF known
<1>5. \A line \in R : Of(line) \in Adapter
  BY DEF R, Adapter, Throttle
<1>6. samples \in Seq(Adapter)
  <2>1. \A i \in DOMAIN known : known[i] \in R
    BY <1>4, PlacesOfElements
  <2>2. samples \in [DOMAIN known -> Adapter]
    <3> HIDE DEF Of
    <3> QED
      BY <1>5, <2>1
  <2> HIDE DEF samples
  <2> QED
    BY <1>4, <2>2, SamePlaces
<1>7. \A line \in Elements(known) : Of(line) \in Elements(samples)
  <2>1. \A line \in Elements(known) : \E i \in DOMAIN known : known[i] = line
    BY <1>4, PlacesOfElements
  <2> HIDE DEF Of
  <2> QED
    BY <2>1 DEF Elements
<1>8. ASSUME lines # None, NEW line \in Elements(lines), line.whole, line.identified
      PROVE  Of(line) \in Elements(samples)
  BY <1>3, <1>4, <1>7, <1>8
<1> HIDE DEF samples
<1> QED
  BY <1>2, <1>6, <1>8

\* Those of AMD: the heat is known of a card with a monitor.
LEMMA AmdAdapters ==
  ASSUME NEW raw, GpuReading(raw)
  PROVE  LET samples == [i \in DOMAIN raw.amd |-> AmdSample(raw.amd[i])]
         IN  /\ samples \in Seq(Adapter)
             /\ \A card \in Elements(raw.amd) : card.hwmon =>
                  \E g \in Elements(samples) : g.temperature = card.temperature
<1> DEFINE R == [hwmon : BOOLEAN, utilisation : Number, clock : Number,
                 temperature : Number]
           cards == raw.amd
           samples == [i \in DOMAIN cards |-> AmdSample(cards[i])]
<1>1. cards \in Seq(R)
  BY DEF GpuReading
<1>2. \A card \in R : AmdSample(card) \in Adapter
  BY DEF AmdSample, Adapter, Number
<1>3. \A card : card.hwmon => AmdSample(card).temperature = card.temperature
  BY DEF AmdSample
<1> HIDE DEF R
<1>4. \A i \in DOMAIN cards : cards[i] \in R
  BY <1>1, PlacesOfElements
<1>5. samples \in [DOMAIN cards -> Adapter]
  BY <1>2, <1>4
<1>6. \A card \in Elements(cards) : AmdSample(card) \in Elements(samples)
  BY DEF Elements
<1> HIDE DEF samples
<1>7. samples \in Seq(Adapter)
  BY <1>1, <1>5, SamePlaces
<1> QED
  BY <1>3, <1>6, <1>7 DEF samples

\* Those of Intel: with a clock or without, they are as hot as the package.
LEMMA IntelAdapters ==
  ASSUME NEW raw, GpuReading(raw)
  PROVE  /\ IntelSamples(raw.intel, raw.chip) \in Seq(Adapter)
         /\ \A clock \in Elements(raw.intel) :
              \E g \in Elements(IntelSamples(raw.intel, raw.chip)) :
                /\ g.utilisation = None /\ g.clock = clock
                /\ g.temperature = PackageHeat(raw.chip)
<1> DEFINE clocks == raw.intel
           heat == PackageHeat(raw.chip)
           those == Kept(clocks, Elements(clocks) \ {None})
           others == Kept(clocks, {None})
           ordered == those \o others
           Of(clock) == IntelSample(clock, raw.chip)
           samples == [i \in DOMAIN ordered |-> Of(ordered[i])]
<1>1. clocks \in Seq(Number) /\ heat \in Number
  BY HeatOfThePackage DEF GpuReading
<1>2. IntelSamples(clocks, raw.chip) = samples
  BY DEF IntelSamples
<1>3. \A clock : Of(clock) = [utilisation |-> None, clock |-> clock, temperature |-> heat, throttle |-> {}]
  BY DEF IntelSample
<1>4. \A clock \in Number : Of(clock) \in Adapter
  <2> HIDE DEF Of, heat
  <2>1. None \in Number /\ {} \in SUBSET STRING /\ heat \in Number
    BY <1>1 DEF Number
  <2> QED
    BY <1>3, <2>1 DEF Adapter
<1> HIDE DEF Of, heat
<1>5. those \in Seq(Number) /\ others \in Seq(Number)
      /\ Elements(those) = Elements(clocks) \cap (Elements(clocks) \ {None})
      /\ Elements(others) = Elements(clocks) \cap {None}
  BY <1>1, KeptFacts
<1> HIDE DEF those, others
<1>6. ordered \in Seq(Number) /\ Elements(ordered) = Elements(clocks)
  <2>1. /\ ordered \in Seq(Number)
        /\ Elements(ordered) = Elements(those) \cup Elements(others)
    BY <1>5, JoinedElements
  <2> HIDE DEF ordered
  <2> QED
    BY <1>5, <2>1
<1> HIDE DEF ordered
<1>7. samples \in Seq(Adapter)
  <2>1. \A i \in DOMAIN ordered : ordered[i] \in Number
    BY <1>6, PlacesOfElements
  <2>2. samples \in [DOMAIN ordered -> Adapter]
    BY <1>4, <2>1
  <2> HIDE DEF samples
  <2> QED
    BY <1>6, <2>2, SamePlaces
<1>8. \A clock \in Elements(ordered) : Of(clock) \in Elements(samples)
  BY DEF Elements
<1> HIDE DEF samples
<1>9. \A clock : /\ Of(clock).utilisation = None /\ Of(clock).clock = clock
                 /\ Of(clock).temperature = heat
  BY <1>3
<1> QED
  BY <1>2, <1>6, <1>7, <1>8, <1>9 DEF heat


\* The snapshot has the adapters of each vendor that did not raise.
LEMMA AdaptersOfAllVendors ==
  ASSUME NEW raw, GpuReading(raw)
  PROVE  LET cards == [i \in DOMAIN raw.amd |-> AmdSample(raw.amd[i])]
             All == Elements(GpuSnapshot(raw))
         IN  /\ GpuSnapshot(raw) \in Seq(Adapter)
             /\ "nvidia" \notin raw.raised =>
                  Elements(NvidiaSamples(raw.nvidia)) \subseteq All
             /\ "amd" \notin raw.raised => Elements(cards) \subseteq All
             /\ "intel" \notin raw.raised =>
                  Elements(IntelSamples(raw.intel, raw.chip)) \subseteq All
<1> DEFINE n == NvidiaSamples(raw.nvidia)
           a == [i \in DOMAIN raw.amd |-> AmdSample(raw.amd[i])]
           i == IntelSamples(raw.intel, raw.chip)
           nn == Isolated(raw, "nvidia", n)
           aa == Isolated(raw, "amd", a)
           ii == Isolated(raw, "intel", i)
           na == nn \o aa
           all == na \o ii
<1>1. n \in Seq(Adapter) /\ a \in Seq(Adapter) /\ i \in Seq(Adapter)
  BY NvidiaAdapters, AmdAdapters, IntelAdapters
<1>2. GpuSnapshot(raw) = all
  BY DEF GpuSnapshot
<1> HIDE DEF n, a, i
<1>3. /\ nn = IF "nvidia" \in raw.raised THEN <<>> ELSE n
      /\ aa = IF "amd" \in raw.raised THEN <<>> ELSE a
      /\ ii = IF "intel" \in raw.raised THEN <<>> ELSE i
  BY DEF Isolated
<1> HIDE DEF nn, aa, ii
<1>4. nn \in Seq(Adapter) /\ aa \in Seq(Adapter) /\ ii \in Seq(Adapter)
  BY <1>1, <1>3, EmptySeq
<1>5. na \in Seq(Adapter)
      /\ Elements(na) = Elements(nn) \cup Elements(aa)
  BY <1>4, JoinedElements
<1> HIDE DEF na
<1>6. all \in Seq(Adapter)
      /\ Elements(all) = Elements(na) \cup Elements(ii)
  BY <1>4, <1>5, JoinedElements
<1> HIDE DEF all
<1> QED
  BY <1>2, <1>3, <1>5, <1>6 DEF n, a, i

\* An adapter that is hot, throttled or silent is found.
LEMMA BadAdaptersAreFound ==
  ASSUME NEW gpus \in Seq(Adapter), None \notin Int, NEW g \in Elements(gpus),
         \/ g.utilisation = None /\ g.clock = None
         \/ g.throttle # {}
         \/ g.temperature # None /\ g.temperature >= 87
  PROVE  Tells(CheckGpu(gpus), 2)
<1> DEFINE Of(i) ==
             LET h == gpus[i]
             IN  IF h.utilisation = None /\ h.clock = None
                   THEN FindingOf("gpu.driver", i, WARNING)
                 ELSE IF h.throttle # {}
                   THEN FindingOf("gpu.throttle", i, WARNING)
                 ELSE IF h.temperature # None /\ h.temperature >= 87
                   THEN FindingOf("gpu.thermal", i, WARNING)
                 ELSE FindingOf("gpu.status", i, OK)
<1>1. PICK k \in DOMAIN gpus : gpus[k] = g
  BY PlacesOfElements
<1>2. gpus # <<>>
  BY <1>1
<1>3. CheckGpu(gpus) = UNION {Of(i) : i \in DOMAIN gpus}
  BY <1>2 DEF CheckGpu
<1>4. \A c : Tells(FindingOf(c, k, WARNING), 2)
  BY FindingsTell DEF WARNING
<1>5. Tells(Of(k), 2)
  BY <1>1, <1>4
<1> HIDE DEF Of
<1> QED
  BY <1>1, <1>3, <1>5 DEF Tells

\* The adapters in danger are found, whatever the others, and the other vendors, tell.
LEMMA AdaptersInDangerAreFound ==
  ASSUME NEW raw, GpuReading(raw), None \notin Int, raw # Broken,
         NEW severity, InDanger("gpu", raw, severity)
  PROVE  severity = 2 /\ Tells(CheckGpu(GpuSnapshot(raw)), 2)
<1> DEFINE gpus == GpuSnapshot(raw)
           a == [i \in DOMAIN raw.amd |-> AmdSample(raw.amd[i])]
           Bad(g) == \/ g.utilisation = None /\ g.clock = None
                     \/ g.throttle # {}
                     \/ g.temperature # None /\ g.temperature >= 87
           nvidia == /\ "nvidia" \notin raw.raised /\ raw.nvidia # None
                     /\ \E line \in Elements(raw.nvidia) :
                          /\ line.whole /\ line.identified
                          /\ \/ line.temperature # None /\ line.temperature >= 87
                             \/ line.throttle \ {"GPU idle"} # {}
           amd == /\ "amd" \notin raw.raised
                  /\ \E card \in Elements(raw.amd) :
                       card.hwmon /\ card.temperature # None /\ card.temperature >= 87
           intel == /\ "intel" \notin raw.raised
                    /\ \/ None \in Elements(raw.intel)
                       \/ /\ raw.intel # <<>>
                          /\ \E r \in Elements(raw.chip) :
                               /\ r.label = "package" /\ r.value # None /\ r.value >= 87
                               /\ \A x \in Elements(raw.chip) : x.label = "package" => x = r
<1>1. severity = 2 /\ (nvidia \/ amd \/ intel)
  BY DEF InDanger, WARNING
<1> SUFFICES Tells(CheckGpu(gpus), 2)
  BY <1>1
<1>2. /\ gpus \in Seq(Adapter)
      /\ "nvidia" \notin raw.raised =>
           Elements(NvidiaSamples(raw.nvidia)) \subseteq Elements(gpus)
      /\ "amd" \notin raw.raised => Elements(a) \subseteq Elements(gpus)
      /\ "intel" \notin raw.raised =>
           Elements(IntelSamples(raw.intel, raw.chip))
             \subseteq Elements(gpus)
  BY AdaptersOfAllVendors
<1> HIDE DEF gpus, a
<1>3. CASE nvidia
  <2>1. PICK line \in Elements(raw.nvidia) :
          /\ line.whole /\ line.identified
          /\ \/ line.temperature # None /\ line.temperature >= 87
             \/ line.throttle \ {"GPU idle"} # {}
    BY <1>3
  <2>2. PICK g \in Elements(NvidiaSamples(raw.nvidia)) :
          g.temperature = line.temperature /\ g.throttle = Throttle(line.throttle)
    <3>1. \A x \in Elements(raw.nvidia) : x.whole /\ x.identified =>
            \E g \in Elements(NvidiaSamples(raw.nvidia)) :
              g.temperature = x.temperature /\ g.throttle = Throttle(x.throttle)
      BY <1>3, NvidiaAdapters
    <3> QED
      BY <2>1, <3>1
  <2>3. Bad(g)
    BY <2>1, <2>2 DEF Throttle
  <2>4. g \in Elements(gpus)
    BY <1>2, <1>3, <2>2
  <2> QED
    BY <1>2, <2>3, <2>4, BadAdaptersAreFound
<1>4. CASE amd
  <2>1. PICK card \in Elements(raw.amd) :
          card.hwmon /\ card.temperature # None /\ card.temperature >= 87
    BY <1>4
  <2>2. PICK g \in Elements(a) : g.temperature = card.temperature
    BY <2>1, AmdAdapters DEF a
  <2>3. g \in Elements(gpus)
    BY <1>2, <1>4
  <2> QED
    BY <1>2, <2>1, <2>2, <2>3, BadAdaptersAreFound
<1>5. CASE intel
  <2> DEFINE samples == IntelSamples(raw.intel, raw.chip)
  <2>1. \A clock \in Elements(raw.intel) : \E g \in Elements(samples) :
          /\ g.utilisation = None /\ g.clock = clock
          /\ g.temperature = PackageHeat(raw.chip)
    BY IntelAdapters
  <2> HIDE DEF samples
  <2>2. Elements(samples) \subseteq Elements(gpus)
    BY <1>2, <1>5 DEF samples
  <2>3. CASE None \in Elements(raw.intel)
    BY <1>2, <2>1, <2>2, <2>3, BadAdaptersAreFound
  <2>4. CASE None \notin Elements(raw.intel)
    <3>1. PICK r \in Elements(raw.chip) :
            /\ r.label = "package" /\ r.value # None /\ r.value >= 87
            /\ \A x \in Elements(raw.chip) : x.label = "package" => x = r
      BY <1>5, <2>4
    <3>2. PackageHeat(raw.chip) = r.value
      <4>1. raw.chip \in Seq([label : {"package", "core", "other"}, value : Number])
        BY DEF GpuReading
      <4> QED
        BY <3>1, <4>1, HeatOfThePackage
    <3>3. \E clock : clock \in Elements(raw.intel)
      <4>1. raw.intel \in Seq(Number) /\ raw.intel # <<>>
        BY <1>5, <2>4 DEF GpuReading
      <4>2. 1 \in DOMAIN raw.intel
        BY <4>1, LenProperties, EmptySeq
      <4> QED
        BY <4>2 DEF Elements
    <3>4. PICK g \in Elements(samples) : g.temperature = PackageHeat(raw.chip)
      BY <2>1, <3>3
    <3>5. g \in Elements(gpus) /\ g.temperature # None /\ g.temperature >= 87
      BY <2>2, <3>1, <3>2, <3>4
    <3> QED
      BY <1>2, <3>5, BadAdaptersAreFound
  <2> QED
    BY <2>3, <2>4
<1> QED
  BY <1>1, <1>3, <1>4, <1>5

\* What is in danger is found.
LEMMA DangersAreFound ==
  ASSUME NEW d \in Domains, NEW raw, raw # Broken, NEW severity \in {2, 3},
         None \notin Int, None \notin BOOLEAN,
         d = "storage" => StorageReading(raw),
         d = "gpu" => GpuReading(raw),
         InDanger(d, raw, severity)
  PROVE  Tells(Results(d, Collect(d, raw)), severity)
<1>1. raw # Broken /\ severity \in {2, 3}
  OBVIOUS
<1>2. CASE d = "storage"
  <2> DEFINE s == StorageSnapshot(raw)
             full == \E i \in DOMAIN raw.mounts :
                       LET m == raw.mounts[i]
                       IN  /\ \A j \in DOMAIN raw.mounts : raw.mounts[j].device = m.device => j = i
                           /\ ~m.remote /\ Truthy(m.total)
                           /\ 100 * m.used >= (IF severity = CRITICAL THEN 95 ELSE 88) * m.total
             failing == \E disk \in raw.disks : disk.smart # None /\ ~disk.smart.refused
                                                /\ disk.smart.passed = FALSE
  <2>1. full \/ failing
    BY <1>2 DEF InDanger
  <2>2. StorageReading(raw)
    BY <1>2
  <2>3. ASSUME full PROVE Tells(CheckDiskSpace(s), severity)
    <3>1. PICK i \in DOMAIN raw.mounts :
            /\ \A j \in DOMAIN raw.mounts : raw.mounts[j].device = raw.mounts[i].device => j = i
            /\ ~raw.mounts[i].remote /\ Truthy(raw.mounts[i].total)
            /\ severity = 3 => 100 * raw.mounts[i].used >= 95 * raw.mounts[i].total
            /\ severity = 2 => 100 * raw.mounts[i].used >= 88 * raw.mounts[i].total
      BY <2>3 DEF CRITICAL
    <3> QED
      BY <1>1, <2>2, <3>1, SpaceIsFound
  <2>4. ASSUME failing PROVE Tells(CheckDiskHealth(s), severity)
    <3>1. PICK disk \in raw.disks : disk.smart # None /\ ~disk.smart.refused
                                    /\ disk.smart.passed = FALSE
      BY <2>4
    <3> QED
      BY <1>1, <3>1, FailingDisksAreFound
  <2> HIDE DEF s, full, failing
  <2>5. Results(d, s)
          = (CheckDiskSpace(s) \cup CheckDiskHealth(s))
              \cup CheckDiskThermals(s)
    BY <1>2 DEF Results
  <2>6. Collect(d, raw) = s
    BY <1>1, <1>2 DEF Collect, s
  <2>7. Tells(CheckDiskSpace(s) \cup CheckDiskHealth(s), severity)
    BY <2>1, <2>3, <2>4, MoreTell
  <2> QED
    BY <2>5, <2>6, <2>7, MoreTell
<1>3. CASE d = "sensors"
  <2>1. PICK s \in raw : /\ s.kind = "temperature" /\ s.value # None /\ Truthy(s.critical)
                         /\ severity = 3 => s.value >= s.critical
                         /\ severity = 2 => 100 * s.value >= 85 * s.critical
    BY <1>3 DEF InDanger, CRITICAL
  <2>2. Tells(CheckSensors(SensorSnapshot(raw)), severity)
    BY <1>1, <2>1, HeatIsFound
  <2> QED
    BY <1>1, <1>3, <2>2 DEF Results, Collect
<1>4. CASE d = "gpu"
  <2>1. GpuReading(raw)
    BY <1>4
  <2>2. severity = 2 /\ Tells(CheckGpu(GpuSnapshot(raw)), 2)
    BY <1>1, <1>4, <2>1, AdaptersInDangerAreFound
  <2> QED
    BY <1>1, <1>4, <2>2 DEF Results, Collect
<1>5. CASE d = "battery"
  <2>1. severity = 2 /\ Tells(CheckBattery(BatterySnapshot(raw)), 2)
    BY <1>5, LowChargeIsFound DEF InDanger, WARNING
  <2> QED
    BY <1>1, <1>5, <2>1 DEF Results, Collect
<1>6. CASE d = "services"
  <2>1. severity = 2 /\ Tells(CheckServices(ServiceSnapshot(raw)), 2)
    BY <1>6, FailedUnitsAreFound DEF InDanger, WARNING
  <2> QED
    BY <1>1, <1>6, <2>1 DEF Results, Collect
<1>7. CASE d = "network"
  <2>1. severity = 2 /\ Tells(CheckNetwork(NetworkSnapshot(raw)), 2)
    BY <1>7, DisconnectionIsFound DEF InDanger, WARNING
  <2> QED
    BY <1>1, <1>7, <2>1 DEF Results, Collect
<1>8. d \in {"storage", "sensors", "gpu", "battery", "services", "network"}
  BY DEF InDanger
<1> QED
  BY <1>2, <1>3, <1>4, <1>5, <1>6, <1>7, <1>8


-----------------------------------------------------------------------------
(* The verdict *)

\* What is assumed of the readings.
Typed ==
  /\ None \notin Int /\ None \notin BOOLEAN
  /\ \A d \in Domains : Broken \notin Raw[d]
  /\ \A r \in Raw["cpu"] : CpuReading(r)
  /\ \A r \in Raw["memory"] : MemoryReading(r)
  /\ \A r \in Raw["storage"] : StorageReading(r)
  /\ \A r \in Raw["gpu"] : GpuReading(r)
  /\ \A r \in Raw["sensors"] : SensorReading(r)
  /\ \A r \in Raw["battery"] : BatteryReading(r)
  /\ \A r \in Raw["services"] : ServiceReading(r)
  /\ Raw["processes"] \subseteq Nat

\* It follows from the assumptions of Readings and Diagnostics.
LEMMA ReadingsAreReadable == Typed
BY ReadingsAssumption, DiagnosticsAssumption DEF Typed

\* The store has what was made of the last readings; the report what the checks find
\* in those it was made from; and the page shows it.
VerdictsInv ==
  /\ DiagnosticsTypeOK
  /\ \A d \in DOMAIN sampled : store[d] = Collect(d, sampled[d])
  /\ report # Nothing =>
       /\ \A d \in DOMAIN report : Judged(report[d])
       /\ \A d \in DOMAIN basis : report[d] = Results(d, Collect(d, basis[d]))
       /\ shown = Render(report)

\* A report has a place for each domain and for the monitor.
LEMMA Reports ==
  ASSUME NEW snapshots, NEW reasons,
         \A d \in DOMAIN snapshots : d \in Domains
                                     /\ \E raw : snapshots[d] = Collect(d, raw)
  PROVE  LET made == Report(snapshots, reasons)
         IN  /\ made # Nothing
             /\ DOMAIN made = Domains \cup {"monitor"}
             /\ \A d \in DOMAIN made : Judged(made[d])
             /\ \A d \in DOMAIN snapshots : made[d] = Results(d, snapshots[d])
<1> DEFINE made == Report(snapshots, reasons)
<1>1. /\ DOMAIN made = Domains \cup {"monitor"}
      /\ \A d \in Domains \cup {"monitor"} :
           made[d] = IF d = "monitor" THEN CheckCoverage(reasons)
                     ELSE IF d \in DOMAIN snapshots THEN Results(d, snapshots[d])
                     ELSE IF d \in DOMAIN Unsampled
                       THEN Skip(Unsampled[d])
                     ELSE {}
  BY DEF Report
<1> HIDE DEF made
<1>2. "monitor" \notin Domains
  BY DEF Domains
<1>3. made # Nothing
  <2>1. DOMAIN Nothing = {}
    BY DEF Nothing
  <2> QED
    BY <1>1, <2>1
<1>4. \A d \in DOMAIN snapshots : made[d] = Results(d, snapshots[d])
  BY <1>1, <1>2
<1>5. \A d \in DOMAIN made : Judged(made[d])
  <2>1. Judged(CheckCoverage(reasons))
    <3> DEFINE v == IF reasons \subseteq {"no hardware"} THEN OK ELSE INFO
    <3>1. v \in 0..3
      BY DEF OK, INFO
    <3>2. CheckCoverage(reasons) = Finding("monitor.coverage", v)
      BY DEF CheckCoverage
    <3> HIDE DEF v
    <3> QED
      BY <3>1, <3>2, FindingsAreJudged
  <2>2. \A d \in DOMAIN snapshots : Judged(Results(d, snapshots[d]))
    BY ResultsAreJudged
  <2>3. \A c : Judged(Skip(c))
    BY FindingsAreJudged
  <2>4. Judged({})
    BY DEF Judged
  <2> QED
    BY <1>1, <2>1, <2>2, <2>3, <2>4
<1> QED
  BY <1>1, <1>3, <1>4, <1>5 DEF made

\* At first there is nothing in the store, and no report.
LEMMA VerdictsStart == DiagnosticsInit => VerdictsInv
BY DEF DiagnosticsInit, VerdictsInv, DiagnosticsTypeOK, Nothing

\* A sample keeps the invariant.
LEMMA DeliveryIsRight ==
  ASSUME VerdictsInv, NEW d \in Domains, NEW raw \in Raw[d] \cup {Broken},
         Deliver(d, raw)
  PROVE  VerdictsInv'
<1>1. /\ store' = Put(store, d, Collect(d, raw))
      /\ sampled' = Put(sampled, d, raw)
      /\ UNCHANGED <<missing, report, shown, basis>>
  BY DEF Deliver
<1>2. /\ DOMAIN store' = DOMAIN store \cup {d} /\ store'[d] = Collect(d, raw)
      /\ \A e \in DOMAIN store : e # d => store'[e] = store[e]
      /\ DOMAIN sampled' = DOMAIN sampled \cup {d} /\ sampled'[d] = raw
      /\ \A e \in DOMAIN sampled : e # d => sampled'[e] = sampled[e]
  <2> DEFINE s == Collect(d, raw)
             kept == Put(store, d, s)
             read == Put(sampled, d, raw)
  <2>1. /\ DOMAIN kept = DOMAIN store \cup {d} /\ kept[d] = s
        /\ \A e \in DOMAIN store : e # d => kept[e] = store[e]
    <3> HIDE DEF s
    <3> QED
      BY DEF Put
  <2>2. /\ DOMAIN read = DOMAIN sampled \cup {d} /\ read[d] = raw
        /\ \A e \in DOMAIN sampled : e # d => read[e] = sampled[e]
    BY DEF Put
  <2>3. store' = kept /\ sampled' = read
    BY <1>1
  <2> HIDE DEF s, kept, read
  <2> QED
    BY <2>1, <2>2, <2>3 DEF s
<1>3. \A e \in DOMAIN sampled' : store'[e] = Collect(e, sampled'[e])
  BY <1>2 DEF VerdictsInv, DiagnosticsTypeOK
<1>4. DiagnosticsTypeOK'
  <2>1. DOMAIN store' \subseteq Domains /\ DOMAIN sampled' = DOMAIN store'
        /\ DOMAIN basis' \subseteq DOMAIN sampled'
        /\ \A e \in DOMAIN sampled' : sampled'[e] \in Raw[e] \cup {Broken}
    BY <1>1, <1>2 DEF VerdictsInv, DiagnosticsTypeOK
  <2> QED
    BY <1>1, <2>1 DEF VerdictsInv, DiagnosticsTypeOK
<1> QED
  BY <1>1, <1>3, <1>4 DEF VerdictsInv

\* A run keeps the invariant.
LEMMA RunIsRight ==
  ASSUME VerdictsInv, Run
  PROVE  VerdictsInv'
<1>1. /\ report' = Report(store, missing)
      /\ shown' = Render(report')
      /\ basis' = sampled
      /\ UNCHANGED <<store, missing, sampled>>
  BY DEF Run
<1>2. /\ report' # Nothing
      /\ DOMAIN report' = Domains \cup {"monitor"}
      /\ \A d \in DOMAIN report' : Judged(report'[d])
      /\ \A d \in DOMAIN store : report'[d] = Results(d, store[d])
  BY <1>1, Reports DEF VerdictsInv, DiagnosticsTypeOK
<1>3. \A d \in DOMAIN basis' : report'[d] = Results(d, Collect(d, basis'[d]))
  BY <1>1, <1>2 DEF VerdictsInv, DiagnosticsTypeOK
<1>4. DiagnosticsTypeOK'
  BY <1>1, <1>2 DEF VerdictsInv, DiagnosticsTypeOK, Judged
<1>5. \A d \in DOMAIN sampled' : store'[d] = Collect(d, sampled'[d])
  BY <1>1 DEF VerdictsInv
<1> QED
  BY <1>1, <1>2, <1>3, <1>4, <1>5 DEF VerdictsInv

\* The invariant of a behaviour of the diagnostics.
LEMMA VerdictsCorrect == DiagnosticsSpec => []VerdictsInv
<1>1. VerdictsInv /\ [DiagnosticsNext]_diagnosticsVars => VerdictsInv'
  <2> SUFFICES ASSUME VerdictsInv, [DiagnosticsNext]_diagnosticsVars PROVE VerdictsInv'
    OBVIOUS
  <2>1. ASSUME NEW d \in Domains, NEW raw \in Raw[d] \cup {Broken},
               Deliver(d, raw)
        PROVE  VerdictsInv'
    BY <2>1, DeliveryIsRight
  <2>2. ASSUME Run PROVE VerdictsInv'
    BY <2>2, RunIsRight
  <2>3. ASSUME ShowOrExport PROVE VerdictsInv'
    BY <2>2, <2>3 DEF ShowOrExport
  <2>4. ASSUME UNCHANGED diagnosticsVars PROVE VerdictsInv'
    BY <2>4 DEF diagnosticsVars, VerdictsInv, DiagnosticsTypeOK
  <2> QED
    BY <2>1, <2>2, <2>3, <2>4 DEF DiagnosticsNext
<1> QED
  BY <1>1, VerdictsStart, PTL DEF DiagnosticsSpec

\* A danger that was read before the run shows.
LEMMA FoundDangersShow ==
  ASSUME Typed, VerdictsInv
  PROVE  DangersAreReported
<1>1. ASSUME NEW d \in DOMAIN basis, NEW severity \in {2, 3}, basis[d] # Broken,
             InDanger(d, basis[d], severity)
      PROVE  /\ shown.verdict >= severity
             /\ \E r \in shown.findings \cap report[d] : r.severity >= severity
  <2> DEFINE all == UNION {report[e] : e \in DOMAIN report}
  <2>1. report # Nothing
    <3>1. basis # Nothing
      BY DEF Nothing
    <3> QED
      BY <3>1 DEF VerdictsInv, DiagnosticsTypeOK
  <2>2. /\ DOMAIN report = Domains \cup {"monitor"}
        /\ \A e \in DOMAIN report : Judged(report[e])
        /\ report[d] = Results(d, Collect(d, basis[d]))
        /\ shown = Render(report)
        /\ d \in Domains /\ basis[d] \in Raw[d]
    BY <1>1, <2>1 DEF VerdictsInv, DiagnosticsTypeOK
  <2>3. /\ d = "storage" => StorageReading(basis[d])
        /\ d = "gpu" => GpuReading(basis[d])
        /\ None \notin Int /\ None \notin BOOLEAN
    BY <2>2 DEF Typed
  <2>4. Tells(report[d], severity)
    BY <1>1, <2>2, <2>3, DangersAreFound
  <2>5. PICK r \in report[d] : ~r.skipped /\ r.severity >= severity
    BY <2>4 DEF Tells
  <2>6. Judged(all)
    BY <2>2 DEF Judged
  <2>7. r \in all
    BY <2>2, <2>5
  <2>8. /\ shown.verdict = Worst(all)
        /\ shown.findings = Problems(all)
    BY <2>2 DEF Render
  <2> HIDE DEF all
  <2>9. r.severity \in 0..3
    BY <2>6, <2>7 DEF Judged, Severities, OK, CRITICAL
  <2>10. Worst(all) \in 0..3 /\ r.severity <= Worst(all)
    BY <2>5, <2>6, <2>7, WorstIsWorst
  <2>11. r \in Problems(all)
    BY <2>5, <2>7, <2>9 DEF Problems, WARNING
  <2> QED
    BY <2>5, <2>8, <2>9, <2>10, <2>11
<1> QED
  BY <1>1 DEF DangersAreReported, VerdictsInv, WARNING, CRITICAL

\* What the readings of a disk, sensor, adapter, battery, unit or interface say is
\* dangerous shows in the verdict and among the findings, for any readings of any
\* number of things (services/diagnostics.py and the collectors before it).
THEOREM DangersShow == DiagnosticsSpec => []DangersAreReported
<1>1. Typed
  BY ReadingsAreReadable
<1>2. VerdictsInv => DangersAreReported
  BY <1>1, FoundDangersShow
<1> QED
  BY <1>2, VerdictsCorrect, PTL


-----------------------------------------------------------------------------
(* Rules and checks *)

\* If one of a sequence of numbers, or of those at places of S, is the largest.
LEMMA LargestPlace ==
  ASSUME NEW N \in Nat, NEW S \in SUBSET (1..N), S # {}, NEW v \in [S -> Int]
  PROVE  \E m \in S : \A i \in S : v[i] <= v[m]
<1> DEFINE R == {p \in (1..N) \X (1..N) : p[1] \in S => p[2] \in S /\ v[p[1]] <= v[p[2]]}
<1>1. N \in Nat \ {0}
  <2>1. PICK i \in S : i \in 1..N
    OBVIOUS
  <2> QED
    BY <2>1
<1>2. \A i, j \in 1..N : <<i, j>> \in R <=> (i \in S => j \in S /\ v[i] <= v[j])
  OBVIOUS
<1>3. \A i \in S : v[i] \in Int
  OBVIOUS
<1> DEFINE Below(i, j) == <<i, j>> \in R
<1>4. \A i, j \in 1..N : Below(i, j) <=> (i \in S => j \in S /\ v[i] <= v[j])
  BY <1>2
<1> HIDE DEF R, Below
<1>5. \A i, j \in 1..N : Below(i, j) \/ Below(j, i)
  BY <1>3, <1>4
<1>6. \A i, j, k \in 1..N : Below(i, j) /\ Below(j, k) => Below(i, k)
  BY <1>3, <1>4
<1>7. PICK m \in 1..N : \A i \in 1..N : Below(i, m)
  BY <1>1, <1>5, <1>6, Greatest DEF Below
<1>8. \A i \in S : m \in S /\ v[i] <= v[m]
  BY <1>4, <1>7
<1> QED
  BY <1>8

\* The largest of some elements of a sequence is one of them.
LEMMA LargestIsOne ==
  ASSUME NEW X, NEW s \in Seq(X), NEW v \in [X -> Int],
         NEW T \in SUBSET Elements(s), T # {}
  PROVE  \E x \in T : \A y \in T : v[y] <= v[x]
<1> DEFINE S == {i \in DOMAIN s : s[i] \in T}
           w == [i \in S |-> v[s[i]]]
<1>1. DOMAIN s = 1..Len(s) /\ Len(s) \in Nat /\ \A i \in DOMAIN s : s[i] \in X
  BY LenProperties
<1>2. \A x \in T : \E i \in S : s[i] = x
  BY PlacesOfElements
<1>3. S \in SUBSET (1..Len(s)) /\ S # {}
  BY <1>1, <1>2
<1>4. w \in [S -> Int] /\ \A i \in S : w[i] = v[s[i]] /\ s[i] \in T
  BY <1>1
<1> HIDE DEF S, w
<1>5. PICK m \in S : \A i \in S : w[i] <= w[m]
  BY <1>1, <1>3, <1>4, LargestPlace
<1>6. \A y \in T : v[y] <= v[s[m]]
  BY <1>2, <1>4, <1>5
<1> QED
  BY <1>4, <1>6

\* A sensor of the processor; those that answer, of the package, of the cores; and the
\* chips with one that answers.
Thermometer == [label : {"package", "core", "other"}, value : Number,
                critical : Number]
Answering == {r \in Thermometer : r.value # None}
Packages == {r \in Answering : r.label = "package"}
Cores == {r \in Answering : r.label = "core"}
WarmChips == {c \in Seq(Thermometer) : \E i \in DOMAIN c : c[i] \in Answering}

\* The first place with an element of a set.
FirstWith(s, S, i) == i \in DOMAIN s /\ s[i] \in S /\ \A j \in 1..(i - 1) : s[j] \notin S

\* The sensor of a chip that the temperature is taken from.
Source(chip, i) ==
  \/ FirstWith(chip, Packages, i)
  \/ /\ \A j \in DOMAIN chip : chip[j] \notin Packages
     /\ chip[i] \in Cores
     /\ \A j \in DOMAIN chip : chip[j] \in Cores => chip[j].value <= chip[i].value
  \/ /\ \A j \in DOMAIN chip : chip[j] \notin Packages \cup Cores
     /\ FirstWith(chip, Answering, i)

\* There is one on the first chip that has a sensor which answers; the limit is that
\* of the sensor, but for a core.
LEMMA HeatHasASource ==
  ASSUME NEW chips \in Seq(Seq(Thermometer))
  PROVE  LET heat == ProcessorHeat(chips)
         IN  \/ /\ \A k \in DOMAIN chips : chips[k] \notin WarmChips
                /\ heat.temperature = None /\ heat.critical = None
             \/ \E k \in DOMAIN chips : \E i \in DOMAIN chips[k] :
                  /\ FirstWith(chips, WarmChips, k)
                  /\ Source(chips[k], i) /\ chips[k][i] \in Answering
                  /\ heat.temperature = chips[k][i].value
                  /\ chips[k][i] \in Cores => heat.critical = None
                  /\ chips[k][i] \notin Cores =>
                       heat.critical = Heat(chips[k][i]).critical
<1> DEFINE at == CHOOSE i \in DOMAIN chips :
                   /\ Readable(chips[i]) # {}
                   /\ \A j \in 1..(i - 1) : ~(Readable(chips[j]) # {})
           chip == chips[at]
           pack == CHOOSE i \in DOMAIN chip :
                     /\ chip[i].value # None /\ chip[i].label = "package"
                     /\ \A j \in 1..(i - 1) : ~(chip[j].value # None /\ chip[j].label = "package")
           first == CHOOSE i \in DOMAIN chip :
                      chip[i].value # None /\ \A j \in 1..(i - 1) : ~(chip[j].value # None)
           T == {x \in Readable(chip) : x.label = "core"}
           cores == {r.value : r \in T}
           heat == ProcessorHeat(chips)
           none == \A c \in Elements(chips) : ~(Readable(c) # {})
           whole == \E r \in Elements(chip) : r.value # None /\ r.label = "package"
           From(k, i) == /\ FirstWith(chips, WarmChips, k)
                         /\ Source(chips[k], i) /\ chips[k][i] \in Answering
                         /\ heat.temperature = chips[k][i].value
                         /\ chips[k][i] \in Cores => heat.critical = None
                         /\ chips[k][i] \notin Cores =>
                              heat.critical = Heat(chips[k][i]).critical
<1> SUFFICES \/ /\ \A k \in DOMAIN chips : chips[k] \notin WarmChips
                /\ heat.temperature = None /\ heat.critical = None
             \/ \E k \in DOMAIN chips : \E i \in DOMAIN chips[k] : From(k, i)
  OBVIOUS
<1>1. /\ none => heat.temperature = None /\ heat.critical = None
      /\ ~none /\ whole => heat = Heat(chip[pack])
      /\ ~none /\ ~whole /\ cores # {} =>
           heat.temperature = Largest(cores) /\ heat.critical = None
      /\ ~none /\ ~whole /\ cores = {} => heat = Heat(chip[first])
  <2>1. heat = IF none THEN [temperature |-> None, critical |-> None]
               ELSE IF whole THEN Heat(chip[pack])
               ELSE IF cores # {}
                 THEN [temperature |-> Largest(cores), critical |-> None]
               ELSE Heat(chip[first])
    BY DEF ProcessorHeat, FirstOf
  <2> HIDE DEF heat, none, whole, cores, chip
  <2> QED
    BY <2>1
<1>2. /\ DOMAIN chips = 1..Len(chips) /\ Len(chips) \in Nat
      /\ \A k \in DOMAIN chips : chips[k] \in Seq(Thermometer)
  BY LenProperties
<1>3. \A c \in Seq(Thermometer) :
        /\ \A i \in DOMAIN c : c[i] \in Thermometer
        /\ Readable(c) = {r \in Elements(c) : r \in Answering}
        /\ c \in WarmChips <=> Readable(c) # {}
  <2> SUFFICES ASSUME NEW c \in Seq(Thermometer)
               PROVE  /\ \A i \in DOMAIN c : c[i] \in Thermometer
                      /\ Readable(c) = {r \in Elements(c) : r \in Answering}
                      /\ c \in WarmChips <=> Readable(c) # {}
    OBVIOUS
  <2>1. \A i \in DOMAIN c : c[i] \in Thermometer
    BY LenProperties
  <2>2. \A r \in Elements(c) : r \in Thermometer
    BY <2>1 DEF Elements
  <2>3. Readable(c) = {r \in Elements(c) : r \in Answering}
    BY <2>2 DEF Readable, Answering
  <2>4. c \in WarmChips <=> \E r \in Elements(c) : r \in Answering
    BY DEF WarmChips, Elements
  <2> QED
    BY <2>1, <2>3, <2>4
<1>4. /\ Answering \subseteq Thermometer /\ Packages \subseteq Answering /\ Cores \subseteq Answering
      /\ \A r \in Answering : r.value \in Int
      /\ \A r \in Packages : r \notin Cores
      /\ \A r \in Thermometer : /\ r.value # None <=> r \in Answering
                                /\ r.value # None /\ r.label = "package" <=> r \in Packages
  BY DEF Answering, Packages, Cores, Thermometer, Number
<1>5. \A r : Heat(r).temperature = r.value
  BY DEF Heat
<1> HIDE DEF heat
<1>6. CASE none
  <2>1. \A k \in DOMAIN chips : ~(Readable(chips[k]) # {})
    BY <1>6 DEF Elements
  <2> HIDE DEF none
  <2> QED
    BY <1>1, <1>2, <1>3, <1>6, <2>1
<1>7. CASE ~none
  <2>1. \E k \in DOMAIN chips : chips[k] \in WarmChips
    <3>1. \E k \in DOMAIN chips : Readable(chips[k]) # {}
      BY <1>7 DEF Elements
    <3> QED
      BY <1>2, <1>3, <3>1
  <2>2. PICK k \in DOMAIN chips : FirstWith(chips, WarmChips, k)
    BY <2>1, FirstPlace DEF FirstWith
  <2>3. \A m \in DOMAIN chips : \A j \in 1..(m - 1) : j \in DOMAIN chips
    BY <1>2
  <2>4. \A m \in DOMAIN chips :
          FirstWith(chips, WarmChips, m) <=>
            /\ Readable(chips[m]) # {}
            /\ \A j \in 1..(m - 1) : ~(Readable(chips[j]) # {})
    BY <1>2, <1>3, <2>3 DEF FirstWith
  <2>5. at \in DOMAIN chips /\ FirstWith(chips, WarmChips, at)
    BY <2>2, <2>4
  <2> HIDE DEF at
  <2>6. chip \in Seq(Thermometer) /\ chip \in WarmChips
    BY <1>2, <2>5 DEF FirstWith
  <2>7. \E i \in DOMAIN chip : From(at, i)
    <3> SUFFICES \E i \in DOMAIN chip :
                   /\ Source(chip, i) /\ chip[i] \in Answering
                   /\ heat.temperature = chip[i].value
                   /\ chip[i] \in Cores => heat.critical = None
                   /\ chip[i] \notin Cores => heat.critical = Heat(chip[i]).critical
      BY <2>5
    <3> HIDE DEF none, chip
    <3>1. DOMAIN chip = 1..Len(chip) /\ Len(chip) \in Nat /\ \A i \in DOMAIN chip : chip[i] \in Thermometer
      BY <1>3, <2>6, LenProperties
    <3>2. \A i \in DOMAIN chip : \A j \in 1..(i - 1) : j \in DOMAIN chip
      BY <3>1
    <3>3. \A i \in DOMAIN chip :
            /\ FirstWith(chip, Packages, i) <=>
                 /\ chip[i].value # None /\ chip[i].label = "package"
                 /\ \A j \in 1..(i - 1) : ~(chip[j].value # None /\ chip[j].label = "package")
            /\ FirstWith(chip, Answering, i) <=>
                 chip[i].value # None /\ \A j \in 1..(i - 1) : ~(chip[j].value # None)
      <4>1. \A i \in DOMAIN chip :
              /\ chip[i] \in Packages <=> chip[i].value # None /\ chip[i].label = "package"
              /\ chip[i] \in Answering <=> chip[i].value # None
        BY <1>4, <3>1
      <4> QED
        BY <3>2, <4>1 DEF FirstWith
    <3>4. whole <=> \E j \in DOMAIN chip : chip[j] \in Packages
      BY <1>4, <3>1 DEF Elements
    <3>5. CASE whole
      <4>1. PICK k2 \in DOMAIN chip : FirstWith(chip, Packages, k2)
        <5>1. \E j \in DOMAIN chip : chip[j] \in Packages
          BY <3>4, <3>5
        <5> QED
          BY <2>6, <5>1, FirstPlace DEF FirstWith
      <4>2. pack \in DOMAIN chip /\ FirstWith(chip, Packages, pack)
        BY <3>3, <4>1
      <4> HIDE DEF pack, whole, first, T, cores
      <4>3. heat = Heat(chip[pack])
        BY <1>1, <1>7, <3>5
      <4>4. chip[pack] \in Packages /\ Source(chip, pack)
        BY <4>2 DEF FirstWith, Source
      <4> QED
        BY <1>4, <1>5, <4>2, <4>3, <4>4
    <3>6. CASE ~whole
      <4>1. \A j \in DOMAIN chip : chip[j] \notin Packages
        BY <3>4, <3>6
      <4>2. T \subseteq Cores /\ T \subseteq Elements(chip)
            /\ \A j \in DOMAIN chip : chip[j] \in Cores <=> chip[j] \in T
        BY <1>3, <2>6 DEF Cores, Elements
      <4> HIDE DEF whole, pack, T
      <4>3. CASE cores # {}
        <5> DEFINE w == [r \in Thermometer |-> IF r \in Answering THEN r.value ELSE 0]
        <5>1. w \in [Thermometer -> Int] /\ \A r \in Answering : w[r] = r.value
          BY <1>4
        <5>2. T # {}
          BY <4>3
        <5> HIDE DEF w
        <5>3. PICK x \in T : \A y \in T : w[y] <= w[x]
          BY <2>6, <4>2, <5>1, <5>2, LargestIsOne
        <5>4. \A y \in T : y.value <= x.value /\ y.value \in Int
          BY <1>4, <4>2, <5>1, <5>3
        <5>5. Largest(cores) = x.value
          <6>1. x.value \in cores /\ \A y \in cores : y <= x.value /\ y \in Int
            BY <5>4
          <6> HIDE DEF cores
          <6>2. \A z \in cores : (\A y \in cores : y <= z) => z = x.value
            BY <6>1
          <6> QED
            BY <6>1, <6>2 DEF Largest
        <5>6. PICK i \in DOMAIN chip : chip[i] = x
          BY <4>2 DEF Elements
        <5>7. chip[i] \in Cores
              /\ \A j \in DOMAIN chip : chip[j] \in Cores => chip[j].value <= chip[i].value
          BY <4>2, <5>4, <5>6
        <5>8. Source(chip, i)
          BY <4>1, <5>7 DEF Source
        <5> HIDE DEF cores, first
        <5>9. heat.temperature = chip[i].value /\ heat.critical = None
          BY <1>1, <1>7, <3>6, <4>3, <5>5, <5>6
        <5> QED
          BY <1>4, <5>7, <5>8, <5>9
      <4>4. CASE cores = {}
        <5>1. \A j \in DOMAIN chip : chip[j] \notin Packages \cup Cores
          BY <4>1, <4>2, <4>4
        <5>2. PICK k3 \in DOMAIN chip : FirstWith(chip, Answering, k3)
          BY <2>6, FirstPlace DEF FirstWith, WarmChips
        <5>3. first \in DOMAIN chip /\ FirstWith(chip, Answering, first)
          BY <3>3, <5>2
        <5> HIDE DEF first, cores
        <5>4. heat = Heat(chip[first])
          BY <1>1, <1>7, <3>6, <4>4
        <5>5. Source(chip, first) /\ chip[first] \in Answering
          BY <5>1, <5>3 DEF FirstWith, Source
        <5> QED
          BY <1>5, <5>1, <5>3, <5>4, <5>5
      <4> QED
        BY <4>3, <4>4
    <3> QED
      BY <3>5, <3>6
  <2> QED
    BY <2>5, <2>7
<1> QED
  BY <1>6, <1>7

\* So heat and limit are numbers, if they are known.
LEMMA HeatOfTheProcessor ==
  ASSUME NEW chips \in Seq(Seq([label : {"package", "core", "other"}, value : Number,
                                critical : Number]))
  PROVE  /\ ProcessorHeat(chips).temperature \in Number
         /\ ProcessorHeat(chips).critical \in Number
<1>1. \A r \in Answering : r.value \in Number /\ Heat(r).critical \in Number
  BY DEF Answering, Thermometer, Heat, Number
<1>2. None \in Number
  BY DEF Number
<1>3. chips \in Seq(Seq(Thermometer))
  BY DEF Thermometer
<1> QED
  BY <1>1, <1>2, <1>3, HeatHasASource

\* A hot processor is found, unless its limit lies above what the rule allows for.
LEMMA HotProcessorsAreFound ==
  ASSUME None \notin Int, NEW s,
         s.temperature \in Number, s.critical \in Number,
         s.temperature # None, s.temperature > 88
  PROVE  \/ Tells(CheckCpuThermals(s), 2)
         \/ Default(s.critical, 100) > 103
<1> DEFINE limit == IF Truthy(s.critical) THEN s.critical ELSE 100
           v == High(100 * s.temperature, 95 * limit, 85 * limit)
<1>1. CheckCpuThermals(s) = Finding("cpu.thermal", v)
  BY DEF CheckCpuThermals
<1>2. s.temperature \in Int /\ s.temperature >= 89
  BY DEF Number
<1>3. limit \in Int /\ (limit > 103 => Default(s.critical, 100) > 103)
  BY DEF Number, Truthy, Default
<1> HIDE DEF limit
<1>4. limit <= 103 => v \in {2, 3}
  BY <1>2, <1>3 DEF High, CRITICAL, WARNING
<1> HIDE DEF v
<1>5. v \in {2, 3} => Tells(Finding("cpu.thermal", v), 2)
  BY FindingsTell
<1> QED
  BY <1>1, <1>3, <1>4, <1>5

\* So is memory that is full.
LEMMA FullMemoryIsFound ==
  ASSUME NEW s, s.total \in Nat \ {0}, s.available \in Nat,
         s.used = Positive(s.total - s.available),
         100 * s.used > 92 * s.total
  PROVE  Tells(CheckMemory(s), 2)
<1> DEFINE v == Low(100 * s.available, 5 * s.total, 12 * s.total)
<1>1. CheckMemory(s) = Finding("memory.usage", v)
  BY DEF CheckMemory
<1>2. 100 * s.available < 12 * s.total
  BY DEF Positive
<1>3. v \in {2, 3}
  BY <1>2 DEF Low, CRITICAL, WARNING
<1> HIDE DEF v
<1>4. Tells(Finding("memory.usage", v), 2)
  BY <1>3, FindingsTell
<1> QED
  BY <1>1, <1>4

\* So is memory that processes wait for.
LEMMA PressureIsFound ==
  ASSUME None \notin Int, NEW s, s.pressure \in Number, s.pressure # None,
         s.pressure > 20
  PROVE  Tells(CheckMemoryPressure(s), 2)
<1>1. s.pressure \in Int /\ s.pressure >= 20
  BY DEF Number
<1>2. CheckMemoryPressure(s) = Finding("memory.pressure", CRITICAL)
  BY <1>1 DEF CheckMemoryPressure, High
<1>3. Tells(Finding("memory.pressure", CRITICAL), 2)
  BY FindingsTell DEF CRITICAL
<1> QED
  BY <1>2, <1>3

\* Shares compare like fractions.
LEMMA SharesAreOrdered ==
  ASSUME NEW a \in Nat, NEW b \in Nat \ {0}, NEW c \in Nat, NEW d \in Nat \ {0},
         NEW e \in Nat, NEW f \in Nat \ {0}, a * d <= c * b, c * f <= e * d
  PROVE  a * f <= e * b
<1>1. (a * d) * f <= (c * b) * f
  <2>1. \A x, y \in Nat : x <= y => x * f <= y * f
    OBVIOUS
  <2>2. a * d \in Nat /\ c * b \in Nat
    OBVIOUS
  <2> QED
    BY <2>1, <2>2
<1>2. (c * f) * b <= (e * d) * b
  <2>1. \A x, y \in Nat : x <= y => x * b <= y * b
    OBVIOUS
  <2>2. c * f \in Nat /\ e * d \in Nat
    OBVIOUS
  <2> QED
    BY <2>1, <2>2
<1>3. (a * d) * f = (a * f) * d /\ (c * b) * f = (c * f) * b /\ (e * d) * b = (e * b) * d
  OBVIOUS
<1>4. (a * f) * d <= (e * b) * d
  <2>1. (a * d) * f \in Int /\ (c * b) * f \in Int /\ (e * d) * b \in Int
    OBVIOUS
  <2> QED
    BY <1>1, <1>2, <1>3, <2>1
<1>5. a * f \in Nat /\ e * b \in Nat
  OBVIOUS
<1>6. \A x, y \in Nat : x * d <= y * d => x <= y
  <2>1. \A x, y \in Nat : x > y => x * d > y * d
    <3> SUFFICES ASSUME NEW x \in Nat, NEW y \in Nat, x > y PROVE x * d > y * d
      OBVIOUS
    <3>1. (x - y) * d > 0
      <4>1. x - y \in Nat \ {0}
        OBVIOUS
      <4>2. \A p, q \in Nat \ {0} : p * q > 0
        OBVIOUS
      <4> QED
        BY <4>1, <4>2
    <3>2. (x - y) * d = x * d - y * d
      OBVIOUS
    <3>3. x * d \in Nat /\ y * d \in Nat
      OBVIOUS
    <3> QED
      BY <3>1, <3>2, <3>3
  <2> QED
    BY <2>1
<1> QED
  BY <1>4, <1>5, <1>6

\* The filesystems that are measured have a size, and one of them is the fullest.
LEMMA MeasuredFilesystems ==
  ASSUME NEW raw, StorageReading(raw), None \notin Int
  PROVE  LET measured == Measured(Filesystems(raw.mounts))
         IN  /\ \A f \in measured : f.total \in Nat \ {0} /\ f.used \in Nat
             /\ measured # {} => \E f \in measured : \A g \in measured :
                                   f.used * g.total >= g.used * f.total
<1> DEFINE mounts == raw.mounts
           Of(i) == [device |-> mounts[i].device,
                     total |-> IF mounts[i].remote THEN None ELSE mounts[i].total,
                     used |-> IF mounts[i].remote THEN None ELSE mounts[i].used]
           Final(i) == \A j \in DOMAIN mounts : mounts[j].device = mounts[i].device => j <= i
           measured == Measured(Filesystems(mounts))
           S == {i \in DOMAIN mounts : Of(i) \in measured}
           N == Len(mounts)
<1>1. DOMAIN mounts = 1..N /\ N \in Nat
  <2>1. mounts \in Seq(Elements(mounts))
    BY DEF StorageReading
  <2> QED
    BY <2>1, LenProperties
<1>2. \A f \in measured : \E i \in DOMAIN mounts : f = Of(i)
  BY DEF Measured, Filesystems
<1>3. \A f \in measured : Truthy(f.total)
  BY DEF Measured
<1>4. \A i \in S : Of(i).total \in Nat \ {0} /\ Of(i).used \in Nat
  <2> SUFFICES ASSUME NEW i \in S PROVE Of(i).total \in Nat \ {0} /\ Of(i).used \in Nat
    OBVIOUS
  <2>1. Of(i).total # None /\ Of(i).total # 0
    BY <1>3 DEF Truthy
  <2>2. ~mounts[i].remote /\ Of(i).total = mounts[i].total /\ Of(i).used = mounts[i].used
    BY <2>1
  <2>3. {mounts[i].total, mounts[i].used} \in {{None}} \cup SUBSET Nat
    BY DEF StorageReading
  <2>4. mounts[i].total # None /\ mounts[i].total # 0
    BY <2>1, <2>2
  <2> QED
    BY <2>2, <2>3, <2>4
<1>5. \A f \in measured : \E i \in S : f = Of(i)
  BY <1>2
<1> HIDE DEF Of, measured
<1>6. \A f \in measured : f.total \in Nat \ {0} /\ f.used \in Nat
  BY <1>4, <1>5
<1>7. ASSUME measured # {}
      PROVE  \E f \in measured : \A g \in measured : f.used * g.total >= g.used * f.total
  <2> DEFINE t == [i \in S |-> Of(i).total]
             u == [i \in S |-> Of(i).used]
             Below(i, j) == i \in S => j \in S /\ u[i] * t[j] <= u[j] * t[i]
             R == {p \in (1..N) \X (1..N) : Below(p[1], p[2])}
  <2>1. /\ S \in SUBSET (1..N) /\ S # {}
        /\ \A i \in S : t[i] = Of(i).total /\ u[i] = Of(i).used
        /\ \A i \in S : t[i] \in Nat \ {0} /\ u[i] \in Nat /\ Of(i) \in measured
    BY <1>1, <1>4, <1>5, <1>7
  <2> HIDE DEF t, u, S
  <2>2. N \in Nat \ {0}
    <3>1. PICK i \in S : i \in 1..N
      BY <2>1
    <3> QED
      BY <1>1, <3>1
  <2>3. \A i, j \in 1..N : Below(i, j) \/ Below(j, i)
    <3> SUFFICES ASSUME NEW i \in 1..N, NEW j \in 1..N PROVE Below(i, j) \/ Below(j, i)
      OBVIOUS
    <3>1. CASE i \in S /\ j \in S
      <4>1. u[i] * t[j] \in Int /\ u[j] * t[i] \in Int
        BY <2>1, <3>1
      <4> QED
        BY <3>1, <4>1
    <3> QED
      BY <3>1
  <2>4. \A i, j, k \in 1..N : Below(i, j) /\ Below(j, k) => Below(i, k)
    BY <2>1, SharesAreOrdered
  <2>5. \A i, j \in 1..N : <<i, j>> \in R <=> Below(i, j)
    OBVIOUS
  <2> HIDE DEF N
  <2>6. PICK m \in 1..N : \A i \in 1..N : Below(i, m)
    <3> HIDE DEF R, Below
    <3>1. \E m \in 1..N : \A i \in 1..N : <<i, m>> \in R
      BY <2>2, <2>3, <2>4, <2>5, Greatest
    <3> QED
      BY <2>5, <3>1
  <2>7. m \in S /\ \A i \in S : u[i] * t[m] <= u[m] * t[i]
    BY <2>1, <2>6
  <2>8. \A g \in measured : Of(m).used * g.total >= g.used * Of(m).total
    <3> SUFFICES ASSUME NEW i \in S PROVE Of(m).used * Of(i).total >= Of(i).used * Of(m).total
      BY <1>5 DEF S
    <3>1. u[i] * t[m] \in Int /\ u[m] * t[i] \in Int
      BY <2>1, <2>7
    <3> QED
      BY <2>1, <2>7, <3>1
  <2> QED
    BY <2>1, <2>7, <2>8
<1> QED
  BY <1>6, <1>7 DEF measured


\* The fullest filesystem is found when it is above the rule, whatever the others.
LEMMA TheFullestIsFound ==
  ASSUME NEW s, NEW f \in Measured(s.filesystems),
         f.total \in Nat \ {0}, f.used \in Nat, 100 * f.used > 92 * f.total
  PROVE  Tells(CheckDiskSpace(s), 2)
<1> DEFINE weigh(g) == High(100 * g.used, 95 * g.total, 88 * g.total)
           short == {g \in Measured(s.filesystems) : weigh(g) > OK}
<1>1. weigh(f) \in {2, 3}
  BY DEF High, CRITICAL, WARNING
<1>2. CheckDiskSpace(s)
        = IF short = {} THEN Finding("storage.space", OK)
          ELSE UNION {FindingOf("storage.space", g.device, weigh(g)) : g \in short}
  BY DEF CheckDiskSpace
<1> HIDE DEF weigh
<1>3. f \in short
  BY <1>1 DEF OK
<1>4. Tells(FindingOf("storage.space", f.device, weigh(f)), 2)
  BY <1>1, FindingsTell
<1> HIDE DEF short
<1> QED
  BY <1>2, <1>3, <1>4 DEF Tells

\* The primary adapter is one of the adapters.
LEMMA ThePrimaryIsOne ==
  ASSUME NEW gpus \in Seq(Adapter), gpus # <<>>, None \notin Int
  PROVE  Primary(gpus) \in Elements(gpus)
<1> DEFINE Busiest(g) == /\ g.utilisation # None
                         /\ \A h \in Elements(gpus) : h.utilisation # None =>
                              h.utilisation <= g.utilisation
           busy == \E g \in Elements(gpus) : g.utilisation # None
           first == CHOOSE i \in DOMAIN gpus : Busiest(gpus[i]) /\ \A j \in 1..(i - 1) : ~Busiest(gpus[j])
           T == {g \in Elements(gpus) : g.utilisation # None}
           v == [g \in Adapter |-> IF g.utilisation = None THEN 0 ELSE g.utilisation]
<1>1. Primary(gpus) = IF busy THEN gpus[first] ELSE Head(gpus)
  BY DEF Primary, FirstOf
<1>2. /\ DOMAIN gpus = 1..Len(gpus) /\ Len(gpus) \in Nat
      /\ \A i \in DOMAIN gpus : gpus[i] \in Adapter /\ gpus[i] \in Elements(gpus)
      /\ Elements(gpus) \subseteq Adapter
  BY LenProperties, PlacesOfElements
<1>3. CASE ~busy
  <2>1. 1 \in DOMAIN gpus /\ Head(gpus) = gpus[1]
    BY <1>2, EmptySeq
  <2> HIDE DEF busy
  <2> QED
    BY <1>1, <1>2, <1>3, <2>1
<1>4. CASE busy
  <2>1. v \in [Adapter -> Int] /\ \A g \in T : v[g] = g.utilisation
    <3>1. \A g \in Adapter : g.utilisation \in Int \cup {None}
      BY DEF Adapter, Number
    <3>2. \A g \in T : g \in Adapter /\ g.utilisation # None
      BY <1>2
    <3> QED
      BY <3>1, <3>2
  <2>2. T \in SUBSET Elements(gpus) /\ T # {}
    BY <1>4
  <2> HIDE DEF v, T
  <2>3. PICK g \in T : \A h \in T : v[h] <= v[g]
    BY <2>1, <2>2, LargestIsOne
  <2>4. Busiest(g) /\ g \in Elements(gpus)
    BY <2>1, <2>3 DEF T
  <2> DEFINE B == {h \in Adapter : Busiest(h)}
  <2>5. \A h \in Adapter : h \in B <=> Busiest(h)
    OBVIOUS
  <2> HIDE DEF B, Busiest
  <2>6. \E i \in DOMAIN gpus : gpus[i] \in B
    BY <1>2, <2>4, <2>5, PlacesOfElements
  <2>7. PICK k \in DOMAIN gpus : gpus[k] \in B /\ \A j \in 1..(k - 1) : gpus[j] \notin B
    BY <2>6, FirstPlace
  <2>8. \A j \in 1..(k - 1) : j \in DOMAIN gpus
    BY <1>2
  <2>9. first \in DOMAIN gpus
    BY <1>2, <2>5, <2>7, <2>8
  <2> HIDE DEF first, busy
  <2> QED
    BY <1>1, <1>2, <1>4, <2>9
<1> QED
  BY <1>3, <1>4

\* The charge of a battery and its health are numbers, if they are known.
LEMMA BatteryNumbers ==
  ASSUME NEW raw, BatteryReading(raw), raw.found, None \notin Int
  PROVE  /\ Charge(raw) \in Number
         /\ Endurance(Energy(raw).full, Energy(raw).design)
              \in Number
<1> DEFINE e == Energy(raw)
           Times(c) == IF c = None \/ ~Truthy(raw.voltage) THEN None ELSE c * raw.voltage
<1>1. /\ raw.capacity \in Number /\ raw.psutil \in Number
      /\ raw.energyNow \in Size /\ raw.energyFull \in Size
      /\ raw.energyDesign \in Size /\ raw.chargeNow \in Size
      /\ raw.chargeFull \in Size /\ raw.chargeDesign \in Size
      /\ raw.voltage \in Size
  BY DEF BatteryReading
<1>2. \A c \in Size : Times(c) \in Size
  <2>1. \A x, y \in Nat : x * y \in Nat
    OBVIOUS
  <2> QED
    BY <1>1, <2>1 DEF Size, Truthy
<1>3. e.now \in Size /\ e.full \in Size /\ e.design \in Size
  <2>1. e = IF raw.energyNow # None \/ raw.energyFull # None
              THEN [now |-> raw.energyNow, full |-> raw.energyFull, design |-> raw.energyDesign]
            ELSE [now |-> Times(raw.chargeNow), full |-> Times(raw.chargeFull),
                  design |-> Times(raw.chargeDesign)]
    BY DEF Energy
  <2> HIDE DEF e, Times
  <2>2. CASE raw.energyNow # None \/ raw.energyFull # None
    <3>1. e = [now |-> raw.energyNow, full |-> raw.energyFull, design |-> raw.energyDesign]
      BY <2>1, <2>2
    <3> QED
      BY <1>1, <3>1
  <2>3. CASE ~(raw.energyNow # None \/ raw.energyFull # None)
    <3>1. e = [now |-> Times(raw.chargeNow), full |-> Times(raw.chargeFull),
               design |-> Times(raw.chargeDesign)]
      BY <2>1, <2>3
    <3>2. /\ Times(raw.chargeNow) \in Size /\ Times(raw.chargeFull) \in Size
          /\ Times(raw.chargeDesign) \in Size
      BY <1>1, <1>2
    <3> QED
      BY <3>1, <3>2
  <2> QED
    BY <2>2, <2>3
<1>4. \A part \in Nat, whole \in Nat \ {0} : PercentOf(part, whole) \in Number
  BY DEF PercentOf, Number
<1> HIDE DEF e, Times
<1>5. Charge(raw) \in Number
  BY <1>1, <1>3, <1>4 DEF Charge, Size, Truthy, e
<1>6. Endurance(e.full, e.design) \in Number
  BY <1>3, <1>4 DEF Endurance, Size, Truthy, Number
<1> QED
  BY <1>5, <1>6 DEF e


\* When a rule holds: the value it is about is known and beyond its threshold.
LEMMA Breaches ==
  /\ \A d, m, t, x : Breached(Rule(d, m, TRUE, t), Whole(x))
                       => x # None /\ x > t * 1
  /\ \A d, m, t, x : Breached(Rule(d, m, FALSE, t), Whole(x))
                       => x # None /\ x < t * 1
  /\ \A d, m, t, x, y : Breached(Rule(d, m, TRUE, t), [above |-> x, of |-> y])
                          => x > t * y
BY DEF Breached, Rule, Whole

\* The rule of the processor and its check.
LEMMA ProcessorRule ==
  ASSUME None \notin Int, NEW raw, raw # Broken => CpuReading(raw),
         Breached(Rule("cpu", "temperature", TRUE, 88),
                           MetricsOf("cpu", Collect("cpu", raw))["temperature"])
  PROVE  LET s == Collect("cpu", raw)
         IN  \/ Tells(Results("cpu", s), 2)
             \/ Default(s.critical, 100) > 103
<1> DEFINE s == Collect("cpu", raw)
<1>1. s = IF raw = Broken THEN NoCpuSnapshot ELSE CpuSnapshot(raw)
  BY DEF Collect
<1>2. s.temperature \in Number /\ s.critical \in Number
  <2>1. CASE raw = Broken
    BY <1>1, <2>1 DEF NoCpuSnapshot, Number
  <2>2. CASE raw # Broken
    <3>1. /\ ProcessorHeat(raw.chips).temperature \in Number
          /\ ProcessorHeat(raw.chips).critical \in Number
      BY <2>2, HeatOfTheProcessor DEF CpuReading
    <3> QED
      BY <1>1, <2>2, <3>1 DEF CpuSnapshot
  <2> QED
    BY <2>1, <2>2
<1> HIDE DEF s
<1>3. MetricsOf("cpu", s)["temperature"] = Whole(s.temperature)
  BY DEF MetricsOf
<1>4. s.temperature # None /\ s.temperature > 88
  <2>1. s.temperature # None /\ s.temperature > 88 * 1
    BY <1>3, Breaches DEF s
  <2> QED
    BY <2>1
<1>5. Tells(CheckCpuThermals(s), 2) \/ Default(s.critical, 100) > 103
  BY <1>2, <1>4, HotProcessorsAreFound
<1>6. Results("cpu", s) = CheckCpuLoad(s) \cup CheckCpuThermals(s)
  BY DEF Results
<1> QED
  BY <1>5, <1>6, MoreTell DEF s

\* Those of memory.
LEMMA MemoryRules ==
  ASSUME None \notin Int, NEW raw, raw # Broken => MemoryReading(raw),
         LET metrics == MetricsOf("memory", Collect("memory", raw))
         IN  \/ Breached(Rule("memory", "percent", TRUE, 92), metrics["percent"])
             \/ Breached(Rule("memory", "pressure", TRUE, 20), metrics["pressure"])
  PROVE  Tells(Results("memory", Collect("memory", raw)), 2)
<1> DEFINE s == Collect("memory", raw)
<1>1. s = IF raw = Broken THEN NoMemorySnapshot ELSE MemorySnapshot(raw)
  BY DEF Collect
<1>2. /\ s.total \in Nat /\ s.available \in Nat
      /\ s.used = Positive(s.total - s.available)
      /\ s.pressure \in Number
  <2>1. CASE raw = Broken
    BY <1>1, <2>1 DEF NoMemorySnapshot, Number, Positive
  <2>2. CASE raw # Broken
    <3>1. raw.total \in Size /\ raw.free \in Size /\ raw.available \in Size
      BY <2>2 DEF MemoryReading
    <3>2. Pressure(raw.psi) \in Number
      <4>1. raw.psi = None \/ raw.psi \in [some : Int, full : Number]
        BY <2>2 DEF MemoryReading
      <4> QED
        BY <4>1 DEF Pressure, Default, Number
    <3>3. \A x \in Size, y \in Nat : Default(x, y) \in Nat
      BY DEF Size, Default
    <3> DEFINE total == Default(raw.total, 0)
               available == Default(raw.available, Default(raw.free, 0))
    <3>4. total \in Nat /\ available \in Nat
      BY <3>1, <3>3
    <3>5. /\ s.total = total /\ s.available = available
          /\ s.used = Positive(total - available)
          /\ s.pressure = Pressure(raw.psi)
      BY <1>1, <2>2 DEF MemorySnapshot
    <3> HIDE DEF s, total, available
    <3> QED
      BY <3>2, <3>4, <3>5
  <2> QED
    BY <2>1, <2>2
<1> HIDE DEF s
<1>3. /\ MetricsOf("memory", s)["percent"] =
           IF s.total = 0 THEN Whole(0) ELSE [above |-> 100 * s.used, of |-> s.total]
      /\ MetricsOf("memory", s)["pressure"] = Whole(s.pressure)
  BY DEF MetricsOf
<1>4. /\ Results("memory", s) = (CheckMemory(s) \cup CheckMemoryPressure(s))
                                           \cup CheckSwap(s)
  BY DEF Results
<1>5. Tells(CheckMemory(s), 2) \/ Tells(CheckMemoryPressure(s), 2)
  <2>1. CASE Breached(Rule("memory", "percent", TRUE, 92),
                               MetricsOf("memory", s)["percent"])
    <3>1. s.total # 0
      <4> SUFFICES ASSUME s.total = 0 PROVE FALSE
        OBVIOUS
      <4>1. 0 > 92 * 1
        BY <1>3, <2>1, Breaches
      <4> QED
        BY <4>1
    <3>2. 100 * s.used > 92 * s.total
      BY <1>3, <2>1, <3>1, Breaches
    <3> QED
      BY <1>2, <3>1, <3>2, FullMemoryIsFound
  <2>2. CASE Breached(Rule("memory", "pressure", TRUE, 20),
                               MetricsOf("memory", s)["pressure"])
    <3>1. s.pressure # None /\ s.pressure > 20 * 1
      BY <1>3, <2>2, Breaches
    <3> QED
      BY <1>2, <3>1, PressureIsFound
  <2> QED
    BY <2>1, <2>2 DEF s
<1>6. Tells(CheckMemory(s) \cup CheckMemoryPressure(s), 2)
  BY <1>5, MoreTell
<1> QED
  BY <1>4, <1>6, MoreTell DEF s

\* That of storage.
LEMMA StorageRule ==
  ASSUME None \notin Int, NEW raw, raw # Broken => StorageReading(raw),
         Breached(Rule("storage", "fullest", TRUE, 92),
                           MetricsOf("storage", Collect("storage", raw))["fullest"])
  PROVE  Tells(Results("storage", Collect("storage", raw)), 2)
<1> DEFINE s == Collect("storage", raw)
           measured == Measured(s.filesystems)
           f == CHOOSE x \in measured : \A y \in measured : x.used * y.total >= y.used * x.total
<1>1. s = IF raw = Broken THEN NoStorageSnapshot ELSE StorageSnapshot(raw)
  BY DEF Collect
<1>2. /\ \A x \in measured : x.total \in Nat \ {0} /\ x.used \in Nat
      /\ measured # {} => \E x \in measured : \A y \in measured :
                            x.used * y.total >= y.used * x.total
  <2>1. CASE raw = Broken
    <3>1. s.filesystems = {}
      BY <1>1, <2>1 DEF NoStorageSnapshot
    <3>2. measured = {}
      BY <3>1 DEF Measured
    <3> QED
      BY <3>2
  <2>2. CASE raw # Broken
    <3>1. s.filesystems = Filesystems(raw.mounts)
      BY <1>1, <2>2 DEF StorageSnapshot
    <3> HIDE DEF s
    <3> QED
      BY <2>2, <3>1, MeasuredFilesystems
  <2> QED
    BY <2>1, <2>2
<1> HIDE DEF s, measured
<1>3. MetricsOf("storage", s)["fullest"] =
        IF measured = {} THEN Whole(None) ELSE [above |-> 100 * f.used, of |-> f.total]
  BY DEF MetricsOf, Whole, measured
<1>4. measured # {}
  <2> SUFFICES ASSUME measured = {} PROVE FALSE
    OBVIOUS
  <2>1. MetricsOf("storage", s)["fullest"] = Whole(None)
    BY <1>3
  <2> QED
    BY <2>1, Breaches DEF s
<1>5. f \in measured
  BY <1>2, <1>4
<1> HIDE DEF f
<1>6. 100 * f.used > 92 * f.total
  BY <1>3, <1>4, Breaches DEF s
<1>7. Tells(CheckDiskSpace(s), 2)
  BY <1>2, <1>5, <1>6, TheFullestIsFound DEF measured
<1>8. Results("storage", s)
        = (CheckDiskSpace(s) \cup CheckDiskHealth(s))
            \cup CheckDiskThermals(s)
  BY DEF Results
<1>9. Tells(CheckDiskSpace(s) \cup CheckDiskHealth(s), 2)
  BY <1>7, MoreTell
<1> QED
  BY <1>8, <1>9, MoreTell DEF s


\* That of the adapters.
LEMMA AdapterRule ==
  ASSUME None \notin Int, NEW raw, raw # Broken => GpuReading(raw),
         Breached(Rule("gpu", "temperature", TRUE, 87),
                           MetricsOf("gpu", Collect("gpu", raw))["temperature"])
  PROVE  Tells(Results("gpu", Collect("gpu", raw)), 2)
<1> DEFINE s == Collect("gpu", raw)
           g == Primary(s)
<1>1. s \in Seq(Adapter)
  <2>1. s = IF raw = Broken THEN <<>> ELSE GpuSnapshot(raw)
    BY DEF Collect, NoGpuSnapshot
  <2>2. raw # Broken => GpuSnapshot(raw) \in Seq(Adapter)
    BY AdaptersOfAllVendors
  <2> HIDE DEF s
  <2> QED
    BY <2>1, <2>2, EmptySeq
<1> HIDE DEF s
<1>2. MetricsOf("gpu", s)["temperature"] =
        IF s = <<>> THEN Whole(None) ELSE Whole(g.temperature)
  BY DEF MetricsOf, Whole
<1>3. s # <<>>
  <2> SUFFICES ASSUME s = <<>> PROVE FALSE
    OBVIOUS
  <2>1. MetricsOf("gpu", s)["temperature"] = Whole(None)
    BY <1>2
  <2> QED
    BY <2>1, Breaches DEF s
<1>4. g.temperature # None /\ g.temperature > 87
  <2>1. MetricsOf("gpu", s)["temperature"] = Whole(g.temperature)
    BY <1>2, <1>3
  <2>2. g.temperature # None /\ g.temperature > 87 * 1
    BY <2>1, Breaches DEF s
  <2> QED
    BY <2>2
<1>5. g \in Elements(s) /\ g \in Adapter
  BY <1>1, <1>3, ThePrimaryIsOne, PlacesOfElements
<1> HIDE DEF g
<1>6. g.temperature >= 87
  <2>1. g.temperature \in Int
    BY <1>4, <1>5 DEF Adapter, Number
  <2> QED
    BY <1>4, <2>1
<1>7. Tells(CheckGpu(s), 2)
  BY <1>1, <1>4, <1>5, <1>6, BadAdaptersAreFound
<1>8. Results("gpu", s) = CheckGpu(s)
  BY DEF Results
<1> QED
  BY <1>7, <1>8 DEF s

\* Those of the battery.
LEMMA BatteryRules ==
  ASSUME None \notin Int, NEW raw, raw # Broken => BatteryReading(raw)
  PROVE  LET s == Collect("battery", raw)
             metrics == MetricsOf("battery", s)
         IN  /\ Breached(Rule("battery", "percent", FALSE, 12), metrics["percent"])
                  => Tells(Results("battery", s), 2) \/ s.charging
             /\ Breached(Rule("battery", "health", FALSE, 55), metrics["health"])
                  => Tells(Results("battery", s), 2)
<1> DEFINE s == Collect("battery", raw)
           worn == IF s.health = None THEN {}
                   ELSE Finding("battery.health", IF s.health < 55 THEN WARNING
                                                           ELSE IF s.health < 80 THEN INFO
                                                           ELSE OK)
           low == IF s.percent # None /\ s.percent < 15 /\ ~s.charging
                  THEN Finding("battery.charge", WARNING) ELSE {}
<1>1. s = IF raw = Broken THEN NoBatterySnapshot ELSE BatterySnapshot(raw)
  BY DEF Collect
<1>2. /\ s.percent \in Number /\ s.health \in Number
      /\ s.percent # None \/ s.health # None => s.present
  <2>1. CASE raw = Broken \/ ~raw.found
    BY <1>1, <2>1 DEF NoBatterySnapshot, BatterySnapshot, Number
  <2>2. CASE raw # Broken /\ raw.found
    <3>1. /\ Charge(raw) \in Number
          /\ Endurance(Energy(raw).full, Energy(raw).design)
               \in Number
      BY <2>2, BatteryNumbers
    <3> QED
      BY <1>1, <2>2, <3>1 DEF BatterySnapshot
  <2> QED
    BY <2>1, <2>2
<1> HIDE DEF s
<1>3. /\ MetricsOf("battery", s)["percent"] = Whole(s.percent)
      /\ MetricsOf("battery", s)["health"] = Whole(s.health)
  BY DEF MetricsOf
<1>4. Results("battery", s) = IF ~s.present THEN Skip("battery.health")
                                       ELSE worn \cup low
  BY DEF Results, CheckBattery
<1>5. Tells(Finding("battery.charge", WARNING), 2)
      /\ Tells(Finding("battery.health", WARNING), 2)
  BY FindingsTell DEF WARNING
<1>6. ASSUME Breached(Rule("battery", "percent", FALSE, 12),
                               MetricsOf("battery", s)["percent"])
      PROVE  Tells(Results("battery", s), 2) \/ s.charging
  <2>1. s.percent # None /\ s.percent < 12 * 1
    <3>1. Breached(Rule("battery", "percent", FALSE, 12), Whole(s.percent))
      BY <1>3, <1>6
    <3> QED
      BY <3>1, Breaches
  <2>2. s.percent < 15
    BY <1>2, <2>1 DEF Number
  <2>3. ~s.charging => low = Finding("battery.charge", WARNING)
    BY <2>1, <2>2
  <2> HIDE DEF low, worn
  <2> QED
    BY <1>2, <1>4, <1>5, <2>1, <2>3, MoreTell
<1>7. ASSUME Breached(Rule("battery", "health", FALSE, 55),
                               MetricsOf("battery", s)["health"])
      PROVE  Tells(Results("battery", s), 2)
  <2>1. s.health # None /\ s.health < 55 * 1
    <3>1. Breached(Rule("battery", "health", FALSE, 55), Whole(s.health))
      BY <1>3, <1>7
    <3> QED
      BY <3>1, Breaches
  <2>2. worn = Finding("battery.health", WARNING)
    BY <2>1
  <2> HIDE DEF low, worn
  <2> QED
    BY <1>2, <1>4, <1>5, <2>1, <2>2, MoreTell
<1> QED
  BY <1>6, <1>7 DEF s

\* That of the services.
LEMMA ServiceRule ==
  ASSUME NEW raw,
         Breached(Rule("services", "failed", TRUE, 0),
                           MetricsOf("services", Collect("services", raw))["failed"])
  PROVE  Tells(Results("services", Collect("services", raw)), 2)
<1> DEFINE units == Collect("services", raw)
<1> HIDE DEF units
<1>1. MetricsOf("services", units)["failed"] = Whole(Cardinality(Failed(units)))
  BY DEF MetricsOf
<1>2. Cardinality(Failed(units)) > 0 * 1
  BY <1>1, Breaches DEF units
<1>3. Failed(units) # {}
  <2> SUFFICES ASSUME Failed(units) = {} PROVE FALSE
    OBVIOUS
  <2>1. Cardinality(Failed(units)) = 0
    <3>1. Cardinality({}) = Cardinality({})
      BY DEF Cardinality, Cardinality
    <3> QED
      BY <3>1, FS_EmptySet
  <2> QED
    BY <1>2, <2>1
<1>4. units # <<>>
  BY <1>3 DEF Failed
<1>5. CheckServices(units) = Finding("services.failed", WARNING)
  BY <1>3, <1>4 DEF CheckServices
<1>6. Results("services", units) = CheckServices(units)
  BY DEF Results
<1> QED
  BY <1>5, <1>6, FindingsTell DEF WARNING, units

\* That of the network.
LEMMA NetworkRule ==
  ASSUME NEW raw,
         Breached(Rule("network", "online", FALSE, 1),
                           MetricsOf("network", Collect("network", raw))["online"])
  PROVE  Tells(Results("network", Collect("network", raw)), 2)
<1> DEFINE s == Collect("network", raw)
<1> HIDE DEF s
<1>1. MetricsOf("network", s)["online"] = Whole(IF s.online THEN 1 ELSE 0)
  BY DEF MetricsOf
<1>2. ~s.online
  <2> SUFFICES ASSUME s.online PROVE FALSE
    OBVIOUS
  <2>1. MetricsOf("network", s)["online"] = Whole(1)
    BY <1>1
  <2>2. 1 < 1 * 1
    BY <2>1, Breaches DEF s
  <2> QED
    BY <2>2
<1>3. CheckNetwork(s) = Finding("network.status", WARNING)
  BY <1>2 DEF CheckNetwork
<1>4. Results("network", s) = CheckNetwork(s)
  BY DEF Results
<1> QED
  BY <1>3, <1>4, FindingsTell DEF WARNING, s

\* A rule that holds for a snapshot finds the checks of it alarmed.
LEMMA BreachesAreFound ==
  ASSUME Typed, NEW rule \in DefaultRules, NEW d \in Domains,
         rule.domain = d, NEW raw \in Raw[d] \cup {Broken},
         Breached(rule, MetricsOf(d, Collect(d, raw))[rule.metric])
  PROVE  LET s == Collect(d, raw)
         IN  \/ Tells(Results(d, s), 2)
             \/ d = "cpu" /\ Default(s.critical, 100) > 103
             \/ d = "battery" /\ rule.metric = "percent" /\ s.charging
<1>1. /\ None \notin Int
      /\ d = "cpu" /\ raw # Broken => CpuReading(raw)
      /\ d = "memory" /\ raw # Broken => MemoryReading(raw)
      /\ d = "storage" /\ raw # Broken => StorageReading(raw)
      /\ d = "gpu" /\ raw # Broken => GpuReading(raw)
      /\ d = "battery" /\ raw # Broken => BatteryReading(raw)
  BY DEF Typed
<1>3. \/ rule = Rule("cpu", "temperature", TRUE, 88)
      \/ rule = Rule("memory", "percent", TRUE, 92)
      \/ rule = Rule("memory", "pressure", TRUE, 20)
      \/ rule = Rule("storage", "fullest", TRUE, 92)
      \/ rule = Rule("gpu", "temperature", TRUE, 87)
      \/ rule = Rule("battery", "percent", FALSE, 12)
      \/ rule = Rule("battery", "health", FALSE, 55)
      \/ rule = Rule("services", "failed", TRUE, 0)
      \/ rule = Rule("network", "online", FALSE, 1)
  BY DEF DefaultRules
<1>4. CASE rule = Rule("cpu", "temperature", TRUE, 88)
  <2>1. d = "cpu" /\ rule.metric = "temperature"
    BY <1>4 DEF Rule
  <2>2. Breached(Rule("cpu", "temperature", TRUE, 88),
                          MetricsOf("cpu", Collect("cpu", raw))["temperature"])
    BY <1>4, <2>1
  <2> QED
    BY <1>1, <2>1, <2>2, ProcessorRule
<1>5. CASE rule = Rule("memory", "percent", TRUE, 92)
  <2>1. d = "memory" /\ rule.metric = "percent"
    BY <1>5 DEF Rule
  <2>2. Breached(Rule("memory", "percent", TRUE, 92),
                          MetricsOf("memory", Collect("memory", raw))["percent"])
    BY <1>5, <2>1
  <2> QED
    BY <1>1, <2>1, <2>2, MemoryRules
<1>6. CASE rule = Rule("memory", "pressure", TRUE, 20)
  <2>1. d = "memory" /\ rule.metric = "pressure"
    BY <1>6 DEF Rule
  <2>2. Breached(Rule("memory", "pressure", TRUE, 20),
                          MetricsOf("memory", Collect("memory", raw))["pressure"])
    BY <1>6, <2>1
  <2> QED
    BY <1>1, <2>1, <2>2, MemoryRules
<1>7. CASE rule = Rule("storage", "fullest", TRUE, 92)
  <2>1. d = "storage" /\ rule.metric = "fullest"
    BY <1>7 DEF Rule
  <2>2. Breached(Rule("storage", "fullest", TRUE, 92),
                          MetricsOf("storage", Collect("storage", raw))["fullest"])
    BY <1>7, <2>1
  <2> QED
    BY <1>1, <2>1, <2>2, StorageRule
<1>8. CASE rule = Rule("gpu", "temperature", TRUE, 87)
  <2>1. d = "gpu" /\ rule.metric = "temperature"
    BY <1>8 DEF Rule
  <2>2. Breached(Rule("gpu", "temperature", TRUE, 87),
                          MetricsOf("gpu", Collect("gpu", raw))["temperature"])
    BY <1>8, <2>1
  <2> QED
    BY <1>1, <2>1, <2>2, AdapterRule
<1>9. CASE rule = Rule("battery", "percent", FALSE, 12)
  <2>1. d = "battery" /\ rule.metric = "percent"
    BY <1>9 DEF Rule
  <2>2. Breached(Rule("battery", "percent", FALSE, 12),
                          MetricsOf("battery", Collect("battery", raw))["percent"])
    BY <1>9, <2>1
  <2> QED
    BY <1>1, <2>1, <2>2, BatteryRules
<1>10. CASE rule = Rule("battery", "health", FALSE, 55)
  <2>1. d = "battery" /\ rule.metric = "health"
    BY <1>10 DEF Rule
  <2>2. Breached(Rule("battery", "health", FALSE, 55),
                          MetricsOf("battery", Collect("battery", raw))["health"])
    BY <1>10, <2>1
  <2> QED
    BY <1>1, <2>1, <2>2, BatteryRules
<1>11. CASE rule = Rule("services", "failed", TRUE, 0)
  <2>1. d = "services" /\ rule.metric = "failed"
    BY <1>11 DEF Rule
  <2>2. Breached(Rule("services", "failed", TRUE, 0),
                          MetricsOf("services", Collect("services", raw))["failed"])
    BY <1>11, <2>1
  <2> QED
    BY <1>1, <2>1, <2>2, ServiceRule
<1>12. CASE rule = Rule("network", "online", FALSE, 1)
  <2>1. d = "network" /\ rule.metric = "online"
    BY <1>12 DEF Rule
  <2>2. Breached(Rule("network", "online", FALSE, 1),
                          MetricsOf("network", Collect("network", raw))["online"])
    BY <1>12, <2>1
  <2> QED
    BY <1>1, <2>1, <2>2, NetworkRule
<1> QED
  BY <1>3, <1>4, <1>5, <1>6, <1>7, <1>8, <1>9, <1>10, <1>11, <1>12

\* Of every snapshot in the store.
LEMMA BreachesOfTheStoreAreFound ==
  ASSUME Typed, VerdictsInv
  PROVE  RulesAgreeWithChecks
<1> SUFFICES ASSUME NEW rule \in DefaultRules, rule.domain \in DOMAIN store,
                    Breached(rule,
                      MetricsOf(rule.domain, store[rule.domain])[rule.metric])
             PROVE  \/ Worst(Results(rule.domain, store[rule.domain])) >= 2
                    \/ rule.domain = "cpu" /\ Default(store["cpu"].critical, 100) > 103
                    \/ /\ rule.domain = "battery" /\ rule.metric = "percent"
                       /\ store["battery"].charging
  BY DEF RulesAgreeWithChecks, WARNING
<1> DEFINE d == rule.domain
           s == store[d]
           results == Results(d, s)
<1>1. /\ d \in Domains /\ d \in DOMAIN sampled
      /\ s = Collect(d, sampled[d]) /\ sampled[d] \in Raw[d] \cup {Broken}
  BY DEF VerdictsInv, DiagnosticsTypeOK
<1>2. \/ Tells(results, 2)
      \/ d = "cpu" /\ Default(s.critical, 100) > 103
      \/ d = "battery" /\ rule.metric = "percent" /\ s.charging
  BY <1>1, BreachesAreFound
<1>3. Judged(results)
  BY <1>1, ResultsAreJudged
<1> HIDE DEF results
<1>4. Tells(results, 2) => Worst(results) >= 2
  <2> SUFFICES ASSUME NEW r \in results, ~r.skipped, r.severity >= 2
               PROVE  Worst(results) >= 2
    BY DEF Tells
  <2>1. Worst(results) \in 0..3 /\ r.severity <= Worst(results)
    BY <1>3, WorstIsWorst
  <2>2. r.severity \in 0..3
    BY <1>3 DEF Judged, Severities, OK, CRITICAL
  <2> QED
    BY <2>1, <2>2
<1> QED
  BY <1>2, <1>4 DEF results

\* A default alert rule that holds for a snapshot never finds the diagnostics of it
\* content, whatever the readings (services/alerts.py against diagnostics.py).
THEOREM RulesAgree == DiagnosticsSpec => []RulesAgreeWithChecks
<1>1. Typed
  BY ReadingsAreReadable
<1>2. VerdictsInv => RulesAgreeWithChecks
  BY <1>1, BreachesOfTheStoreAreFound
<1> QED
  BY <1>2, VerdictsCorrect, PTL

-----------------------------------------------------------------------------
(* Worse readings *)

\* What the checks of a second report tell at least.
Milder(R, Q) == \A v \in 1..3 : Tells(R, v) => Tells(Q, v)

\* A finding is milder than one as severe; what was skipped is milder than anything;
\* and parts that are milder make up a whole that is.
LEMMA MilderFindings ==
  ASSUME NEW c, NEW e, NEW v \in 0..3, NEW w \in 0..3, v <= w
  PROVE  Milder(Finding(c, v), Finding(e, w))
BY DEF Milder, Tells, Finding

LEMMA SkipsAreMild == \A c, Q : Milder(Skip(c), Q)
BY DEF Milder, Tells, Skip

LEMMA MilderParts ==
  ASSUME NEW R, NEW Q, NEW S, NEW T, Milder(R, Q), Milder(S, T)
  PROVE  Milder(R \cup S, Q \cup T)
<1>1. \A v : Tells(R \cup S, v) => Tells(R, v) \/ Tells(S, v)
  BY DEF Tells
<1>2. \A v : Tells(Q, v) \/ Tells(T, v) => Tells(Q \cup T, v)
  BY DEF Tells
<1> QED
  BY <1>1, <1>2 DEF Milder

\* The worst of the results is one of them, or there is none to speak of.
LEMMA WorstIsThere ==
  ASSUME NEW results, Judged(results)
  PROVE  /\ Worst(results) \in 0..3
         /\ \A r \in results : ~r.skipped => r.severity <= Worst(results)
         /\ \/ Worst(results) = 0
            \/ \E r \in results : ~r.skipped /\ r.severity = Worst(results)
<1> DEFINE S == {OK} \cup {x.severity : x \in {y \in results : ~y.skipped}}
           T == {3 - v : v \in S}
<1>1. /\ S \subseteq 0..3 /\ 0 \in S
      /\ \A r \in results : ~r.skipped => r.severity \in S
      /\ \A v \in S : v = 0 \/ \E r \in results : ~r.skipped /\ r.severity = v
  BY DEF Judged, Severities, OK, CRITICAL
<1>2. Worst(results) = CHOOSE x \in S : \A y \in S : y <= x
  BY DEF Worst, Largest
<1> HIDE DEF S
<1>3. \E m \in S : \A v \in S : v <= m
  <2>1. \A v \in S : 3 - v \in Nat
    BY <1>1
  <2>2. T \in SUBSET Nat /\ T # {}
    BY <1>1, <2>1
  <2>3. PICK t \in T : \A u \in T : t <= u
    <3> HIDE DEF T
    <3> QED
      BY <2>2, LeastNatural
  <2>4. PICK m \in S : t = 3 - m
    BY <2>3
  <2>5. \A v \in S : 3 - m <= 3 - v /\ v \in 0..3
    BY <1>1, <2>3, <2>4
  <2>6. \A v \in S : v <= m
    BY <1>1, <2>5
  <2> QED
    BY <2>6
<1>4. Worst(results) \in S /\ \A v \in S : v <= Worst(results)
  BY <1>2, <1>3
<1> QED
  BY <1>1, <1>4

\* What tells more has a worse verdict, or the same.
LEMMA MilderIsNoWorse ==
  ASSUME NEW R, NEW Q, Judged(R), Judged(Q), Milder(R, Q)
  PROVE  Worst(Q) >= Worst(R)
<1>1. Worst(R) \in 0..3 /\ Worst(Q) \in 0..3
  BY WorstIsThere
<1>2. CASE Worst(R) = 0
  BY <1>1, <1>2
<1>3. CASE Worst(R) # 0
  <2> DEFINE v == Worst(R)
  <2>1. v \in 1..3 /\ \E r \in R : ~r.skipped /\ r.severity = v
    BY <1>1, <1>3, WorstIsThere
  <2> HIDE DEF v
  <2>2. Tells(R, v)
    BY <2>1 DEF Tells
  <2>3. PICK q \in Q : ~q.skipped /\ q.severity >= v
    BY <2>1, <2>2 DEF Milder, Tells
  <2>4. q.severity \in 0..3 /\ q.severity <= Worst(Q)
    BY <2>3, WorstIsThere DEF Judged, Severities, OK, CRITICAL
  <2>5. Worst(Q) >= v
    BY <1>1, <2>1, <2>3, <2>4
  <2> QED
    BY <2>5 DEF v
<1> QED
  BY <1>2, <1>3

\* The bands of a threshold do not overlap.
LEMMA BandsAreOrdered ==
  /\ \A x, y, c, w \in Int : x <= y => /\ High(x, c, w) \in 0..3
                                       /\ High(y, c, w) \in 0..3
                                       /\ High(x, c, w) <= High(y, c, w)
  /\ \A x, y, c, w \in Int : x >= y => /\ Low(x, c, w) \in 0..3
                                       /\ Low(y, c, w) \in 0..3
                                       /\ Low(x, c, w) <= Low(y, c, w)
BY DEF High, Low, OK, WARNING, CRITICAL

\* Processes, services and memory.
LEMMA MoreZombies ==
  ASSUME NEW a \in Nat, NEW b \in Nat, b >= a
  PROVE  Milder(CheckProcesses(ProcessSnapshot(a)),
                CheckProcesses(ProcessSnapshot(b)))
<1> DEFINE v(n) == IF n >= 10 THEN WARNING ELSE OK
<1>1. v(a) \in 0..3 /\ v(b) \in 0..3 /\ v(a) <= v(b)
  BY DEF WARNING, OK
<1>2. \A n : CheckProcesses(ProcessSnapshot(n)) = Finding("processes.zombies", v(n))
  BY DEF CheckProcesses, ProcessSnapshot
<1> HIDE DEF v
<1> QED
  BY <1>1, <1>2, MilderFindings

LEMMA MoreFailures ==
  ASSUME NEW a, NEW b, ServiceReading(a), ServiceReading(b),
         NoBetter("services", a, b)
  PROVE  Milder(CheckServices(ServiceSnapshot(a)),
                CheckServices(ServiceSnapshot(b)))
<1> DEFINE s == ServiceSnapshot(a)
           t == ServiceSnapshot(b)
<1>1. /\ b.systemd = a.systemd /\ b.answered = a.answered /\ Len(b.units) = Len(a.units)
      /\ \A i \in DOMAIN a.units : a.units[i] = "failed" => b.units[i] = "failed"
  BY DEF NoBetter
<1>2. DOMAIN a.units = DOMAIN b.units
  BY <1>1, LenProperties DEF ServiceReading
<1>3. \A i \in Failed(s) : i \in Failed(t)
  <2> SUFFICES ASSUME NEW i \in DOMAIN s, s[i] = "failed" PROVE i \in DOMAIN t /\ t[i] = "failed"
    BY DEF Failed
  <2>1. a.systemd
    <3> SUFFICES ASSUME ~a.systemd PROVE FALSE
      OBVIOUS
    <3>1. s = <<>>
      BY DEF ServiceSnapshot
    <3> HIDE DEF s
    <3> QED
      BY <3>1
  <2>2. /\ i \in DOMAIN a.units /\ (i - 1) \div BatchSize \in a.answered /\ a.units[i] = "failed"
    BY <2>1 DEF ServiceSnapshot
  <2> QED
    BY <1>1, <1>2, <2>1, <2>2 DEF ServiceSnapshot
<1> HIDE DEF s, t
<1>4. CASE s = <<>>
  BY <1>4, SkipsAreMild DEF CheckServices, s, t
<1>5. CASE s # <<>> /\ Failed(s) = {}
  <2>1. CheckServices(s) = Finding("services.failed", OK)
    BY <1>5 DEF CheckServices
  <2>2. Milder(Finding("services.failed", OK), CheckServices(t))
    BY DEF Milder, Tells, Finding, OK
  <2> QED
    BY <2>1, <2>2 DEF s, t
<1>6. CASE Failed(s) # {}
  <2>1. t # <<>> /\ s # <<>> /\ Failed(t) # {}
    BY <1>3, <1>6 DEF Failed
  <2>2. /\ CheckServices(s) = Finding("services.failed", WARNING)
        /\ CheckServices(t) = Finding("services.failed", WARNING)
    BY <1>6, <2>1 DEF CheckServices
  <2>3. Milder(CheckServices(s), CheckServices(t))
    BY <2>2 DEF Milder
  <2> QED
    BY <2>3 DEF s, t
<1> QED
  BY <1>4, <1>5, <1>6

LEMMA LessMemory ==
  ASSUME NEW a, NEW b, MemoryReading(a), MemoryReading(b), None \notin Int,
         NoBetter("memory", a, b)
  PROVE  Milder(Results("memory", MemorySnapshot(a)),
                Results("memory", MemorySnapshot(b)))
<1> DEFINE s == MemorySnapshot(a)
           t == MemorySnapshot(b)
<1>1. /\ b.total = a.total /\ b.free = a.free /\ b.swapTotal = a.swapTotal /\ b.psi = a.psi
      /\ a.available = None => b.available = None
      /\ a.available # None => b.available # None /\ b.available <= a.available
      /\ a.swapFree = None => b.swapFree = None
      /\ a.swapFree # None => b.swapFree # None /\ b.swapFree <= a.swapFree
  BY DEF NoBetter
<1>2. /\ \A x \in {a.total, a.free, a.available, a.swapTotal, a.swapFree} : x \in Size
      /\ \A x \in {b.available, b.swapFree} : x \in Size
  BY DEF MemoryReading
<1> DEFINE D(x, y) == IF x # None THEN x ELSE y
           free == D(a.free, 0)
           total == D(a.total, 0)
           swap == D(a.swapTotal, 0)
           mine == D(a.available, free)
           yours == D(b.available, free)
           spare == D(a.swapFree, 0)
           rest == D(b.swapFree, 0)
<1>3. /\ s.total = total /\ t.total = total /\ s.available = mine /\ t.available = yours
      /\ s.swapTotal = swap /\ t.swapTotal = swap
      /\ s.swapUsed = Positive(swap - spare) /\ t.swapUsed = Positive(swap - rest)
      /\ s.pressure = t.pressure
  BY <1>1 DEF MemorySnapshot, Default
<1>4. /\ total \in Nat /\ swap \in Nat /\ mine \in Nat /\ yours \in Nat /\ spare \in Nat /\ rest \in Nat
      /\ yours <= mine /\ rest <= spare
  <2>1. free \in Nat /\ total \in Nat /\ swap \in Nat
    BY <1>2 DEF Size
  <2>2. mine \in Nat /\ yours \in Nat /\ yours <= mine
    BY <1>1, <1>2, <2>1 DEF Size
  <2>3. spare \in Nat /\ rest \in Nat /\ rest <= spare
    BY <1>1, <1>2 DEF Size
  <2> QED
    BY <2>1, <2>2, <2>3
<1> HIDE DEF s, t, total, swap, mine, yours, spare, rest
<1>5. Milder(CheckMemory(s), CheckMemory(t))
  <2> DEFINE v(x) == IF total = 0 THEN OK ELSE Low(100 * x, 5 * total, 12 * total)
  <2>1. v(mine) \in 0..3 /\ v(yours) \in 0..3 /\ v(mine) <= v(yours)
    <3>1. 100 * mine \in Int /\ 100 * yours \in Int /\ 5 * total \in Int /\ 12 * total \in Int
          /\ 100 * mine >= 100 * yours
      BY <1>4
    <3> QED
      BY <3>1, BandsAreOrdered DEF OK
  <2>2. /\ CheckMemory(s) = Finding("memory.usage", v(mine))
        /\ CheckMemory(t) = Finding("memory.usage", v(yours))
    BY <1>3 DEF CheckMemory
  <2> HIDE DEF v
  <2> QED
    BY <2>1, <2>2, MilderFindings
<1>6. Milder(CheckMemoryPressure(s), CheckMemoryPressure(t))
  <2>1. CheckMemoryPressure(s) = CheckMemoryPressure(t)
    BY <1>3 DEF CheckMemoryPressure
  <2> QED
    BY <2>1 DEF Milder
<1>7. Milder(CheckSwap(s), CheckSwap(t))
  <2> DEFINE v(x) == IF swap = 0 THEN INFO
                     ELSE IF 100 * Positive(swap - x) >= 80 * swap THEN WARNING
                     ELSE OK
  <2>1. v(spare) \in 0..3 /\ v(rest) \in 0..3 /\ v(spare) <= v(rest)
    <3>1. 100 * Positive(swap - spare) <= 100 * Positive(swap - rest)
          /\ 100 * Positive(swap - spare) \in Int /\ 100 * Positive(swap - rest) \in Int
          /\ 80 * swap \in Int
      BY <1>4 DEF Positive
    <3> QED
      BY <3>1 DEF OK, INFO, WARNING
  <2>2. /\ CheckSwap(s) = Finding("memory.swap", v(spare))
        /\ CheckSwap(t) = Finding("memory.swap", v(rest))
    BY <1>3 DEF CheckSwap
  <2> HIDE DEF v
  <2> QED
    BY <2>1, <2>2, MilderFindings
<1>8. \A x : Results("memory", x) = (CheckMemory(x) \cup CheckMemoryPressure(x))
                                               \cup CheckSwap(x)
  BY DEF Results
<1>9. Milder(CheckMemory(s) \cup CheckMemoryPressure(s),
             CheckMemory(t) \cup CheckMemoryPressure(t))
  BY <1>5, <1>6, MilderParts
<1>10. Milder(Results("memory", s), Results("memory", t))
  BY <1>7, <1>8, <1>9, MilderParts
<1> QED
  BY <1>10 DEF s, t


\* Chips whose sensors are as they were, each as hot or hotter.
Warmer(a, b) ==
  /\ Len(b) = Len(a)
  /\ \A c \in DOMAIN a :
       /\ Len(b[c]) = Len(a[c])
       /\ \A i \in DOMAIN a[c] : LET r == a[c][i]
                                     t == b[c][i]
                                 IN  /\ t.label = r.label /\ t.critical = r.critical
                                     /\ (t.value = None) = (r.value = None)
                                     /\ r.value # None => t.value >= r.value

\* The temperature is taken from sensors of one kind, and has not fallen.
LEMMA HeatRises ==
  ASSUME NEW a \in Seq(Seq(Thermometer)), NEW b \in Seq(Seq(Thermometer)), Warmer(a, b),
         None \notin Int,
         ProcessorHeat(a).temperature # None
  PROVE  /\ ProcessorHeat(a).temperature \in Int
         /\ ProcessorHeat(b).temperature \in Int
         /\ ProcessorHeat(a).temperature <= ProcessorHeat(b).temperature
         /\ ProcessorHeat(b).critical = ProcessorHeat(a).critical
<1> DEFINE cool == ProcessorHeat(a)
           heat == ProcessorHeat(b)
<1>1. /\ DOMAIN a = DOMAIN b /\ DOMAIN a = 1..Len(a) /\ Len(a) \in Nat
      /\ \A c \in DOMAIN a :
           /\ a[c] \in Seq(Thermometer) /\ b[c] \in Seq(Thermometer)
           /\ DOMAIN a[c] = DOMAIN b[c] /\ DOMAIN a[c] = 1..Len(a[c]) /\ Len(a[c]) \in Nat
  BY LenProperties DEF Warmer
<1>2. \A c \in DOMAIN a : \A i \in DOMAIN a[c] :
        /\ a[c][i] \in Thermometer /\ b[c][i] \in Thermometer
        /\ a[c][i] \in Answering <=> b[c][i] \in Answering
        /\ a[c][i] \in Packages <=> b[c][i] \in Packages
        /\ a[c][i] \in Cores <=> b[c][i] \in Cores
        /\ a[c][i] \in Answering => /\ a[c][i].value <= b[c][i].value
                                    /\ a[c][i].value \in Int /\ b[c][i].value \in Int
        /\ Heat(a[c][i]).critical = Heat(b[c][i]).critical
  <2> SUFFICES ASSUME NEW c \in DOMAIN a, NEW i \in DOMAIN a[c]
               PROVE  /\ a[c][i] \in Thermometer /\ b[c][i] \in Thermometer
                      /\ a[c][i] \in Answering <=> b[c][i] \in Answering
                      /\ a[c][i] \in Packages <=> b[c][i] \in Packages
                      /\ a[c][i] \in Cores <=> b[c][i] \in Cores
                      /\ a[c][i] \in Answering =>
                           /\ a[c][i].value <= b[c][i].value
                           /\ a[c][i].value \in Int /\ b[c][i].value \in Int
                      /\ Heat(a[c][i]).critical = Heat(b[c][i]).critical
    OBVIOUS
  <2> DEFINE r == a[c][i]
             t == b[c][i]
  <2>1. r \in Thermometer /\ t \in Thermometer
    BY <1>1
  <2>2. /\ t.label = r.label /\ t.critical = r.critical
        /\ t.value = None <=> r.value = None
        /\ r.value # None => t.value >= r.value
    BY DEF Warmer
  <2> HIDE DEF r, t
  <2>3. /\ r \in Answering <=> t \in Answering
        /\ r \in Packages <=> t \in Packages
        /\ r \in Cores <=> t \in Cores
    BY <2>1, <2>2 DEF Answering, Packages, Cores
  <2>4. r \in Answering => r.value \in Int /\ t.value \in Int
    BY <2>1, <2>2 DEF Answering, Thermometer, Number
  <2>5. r \in Answering => r.value <= t.value
    BY <2>2, <2>4 DEF Answering
  <2>6. Heat(r).critical = Heat(t).critical
    BY <2>2 DEF Heat
  <2> QED
    BY <2>1, <2>3, <2>4, <2>5, <2>6 DEF r, t
<1>3. \A c \in DOMAIN a : a[c] \in WarmChips <=> b[c] \in WarmChips
  BY <1>1, <1>2 DEF WarmChips
<1>4a. PICK k \in DOMAIN a : \E i \in DOMAIN a[k] :
        /\ FirstWith(a, WarmChips, k)
        /\ Source(a[k], i) /\ a[k][i] \in Answering
        /\ cool.temperature = a[k][i].value
        /\ a[k][i] \in Cores => cool.critical = None
        /\ a[k][i] \notin Cores => cool.critical = Heat(a[k][i]).critical
  <2> HIDE DEF cool
  <2> QED
    BY HeatHasASource DEF cool
<1>4. PICK i \in DOMAIN a[k] :
        /\ FirstWith(a, WarmChips, k)
        /\ Source(a[k], i) /\ a[k][i] \in Answering
        /\ cool.temperature = a[k][i].value
        /\ a[k][i] \in Cores => cool.critical = None
        /\ a[k][i] \notin Cores => cool.critical = Heat(a[k][i]).critical
  BY <1>4a
<1>5. b[k] \in WarmChips
  BY <1>3, <1>4 DEF FirstWith
<1>6a. PICK m \in DOMAIN b : \E j \in DOMAIN b[m] :
        /\ FirstWith(b, WarmChips, m)
        /\ Source(b[m], j) /\ b[m][j] \in Answering
        /\ heat.temperature = b[m][j].value
        /\ b[m][j] \in Cores => heat.critical = None
        /\ b[m][j] \notin Cores => heat.critical = Heat(b[m][j]).critical
  <2> HIDE DEF heat
  <2> QED
    BY <1>1, <1>5, HeatHasASource DEF heat
<1>6. PICK j \in DOMAIN b[m] :
        /\ FirstWith(b, WarmChips, m)
        /\ Source(b[m], j) /\ b[m][j] \in Answering
        /\ heat.temperature = b[m][j].value
        /\ b[m][j] \in Cores => heat.critical = None
        /\ b[m][j] \notin Cores => heat.critical = Heat(b[m][j]).critical
  BY <1>6a
<1> HIDE DEF cool, heat
<1>7. m = k
  <2>1. k \in Nat /\ m \in Nat /\ k >= 1 /\ m >= 1
    BY <1>1
  <2>2. ~(m \in 1..(k - 1))
    BY <1>1, <1>3, <1>4, <1>6 DEF FirstWith
  <2>3. ~(k \in 1..(m - 1))
    BY <1>1, <1>5, <1>6 DEF FirstWith
  <2> QED
    BY <2>1, <2>2, <2>3
<1> DEFINE x == a[k]
           y == b[k]
<1>8. /\ i \in DOMAIN x /\ j \in DOMAIN x /\ DOMAIN x = DOMAIN y /\ DOMAIN x \subseteq Nat \ {0}
      /\ Source(x, i) /\ Source(y, j) /\ x[i] \in Answering /\ y[j] \in Answering
  BY <1>1, <1>4, <1>6, <1>7
<1>9. \A l \in DOMAIN x :
        /\ x[l] \in Answering <=> y[l] \in Answering
        /\ x[l] \in Packages <=> y[l] \in Packages
        /\ x[l] \in Cores <=> y[l] \in Cores
        /\ x[l] \in Answering => /\ x[l].value <= y[l].value
                                 /\ x[l].value \in Int /\ y[l].value \in Int
        /\ Heat(x[l]).critical = Heat(y[l]).critical
  BY <1>2, <1>4
<1>10. \A S : (\A l \in DOMAIN x : x[l] \in S <=> y[l] \in S)
                /\ FirstWith(x, S, i) /\ FirstWith(y, S, j) => i = j
  <2> SUFFICES ASSUME NEW S, \A l \in DOMAIN x : x[l] \in S <=> y[l] \in S,
                      FirstWith(x, S, i), FirstWith(y, S, j)
               PROVE  i = j
    OBVIOUS
  <2> HIDE DEF x, y
  <2>1. ~(j \in 1..(i - 1)) /\ ~(i \in 1..(j - 1))
    BY <1>8 DEF FirstWith
  <2> QED
    BY <1>8, <2>1
<1>11. /\ x[i].value \in Int /\ y[j].value \in Int /\ x[i].value <= y[j].value
       /\ x[i] \in Cores <=> y[j] \in Cores
       /\ y[j] \notin Cores => Heat(y[j]).critical = Heat(x[i]).critical
  <2> HIDE DEF x, y
  <2>1. \A r \in Packages : r \notin Cores
    BY DEF Packages, Cores
  <2>2. CASE FirstWith(x, Packages, i)
    <3>1. FirstWith(y, Packages, j)
      BY <1>8, <1>9, <2>2 DEF Source, FirstWith
    <3>2. i = j
      BY <1>9, <1>10, <2>2, <3>1
    <3> QED
      BY <1>8, <1>9, <3>2
  <2>3. CASE /\ \A l \in DOMAIN x : x[l] \notin Packages
             /\ x[i] \in Cores
             /\ \A l \in DOMAIN x : x[l] \in Cores => x[l].value <= x[i].value
    <3>1. y[j] \in Cores /\ \A l \in DOMAIN y : y[l] \in Cores => y[l].value <= y[j].value
      BY <1>8, <1>9, <2>3 DEF Source, FirstWith
    <3>2. y[i].value <= y[j].value /\ x[i].value <= y[i].value
          /\ x[i].value \in Int /\ y[i].value \in Int /\ y[j].value \in Int
      BY <1>8, <1>9, <2>3, <3>1
    <3> QED
      BY <2>3, <3>1, <3>2
  <2>4. CASE /\ \A l \in DOMAIN x : x[l] \notin Packages \cup Cores
             /\ FirstWith(x, Answering, i)
    <3>1. FirstWith(y, Answering, j)
      BY <1>8, <1>9, <2>4 DEF Source, FirstWith
    <3>2. i = j
      BY <1>9, <1>10, <2>4, <3>1
    <3> QED
      BY <1>8, <1>9, <2>4, <3>2
  <2> QED
    BY <1>8, <2>2, <2>3, <2>4 DEF Source
<1>12. cool.temperature = x[i].value /\ heat.temperature = y[j].value
  BY <1>4, <1>6, <1>7
<1>13. heat.critical = cool.critical
  BY <1>4, <1>6, <1>7, <1>11
<1> HIDE DEF x, y
<1> QED
  BY <1>11, <1>12, <1>13 DEF cool, heat

\* A processor that is hotter, or has more to do.
LEMMA HotterProcessor ==
  ASSUME NEW a, NEW b, CpuReading(a), CpuReading(b), None \notin Int,
         NoBetter("cpu", a, b)
  PROVE  Milder(Results("cpu", CpuSnapshot(a)),
                Results("cpu", CpuSnapshot(b)))
<1> DEFINE s == CpuSnapshot(a)
           t == CpuSnapshot(b)
           cool == ProcessorHeat(a.chips)
           heat == ProcessorHeat(b.chips)
<1>1. b.cores = a.cores /\ b.load >= a.load /\ Warmer(a.chips, b.chips)
  BY DEF NoBetter, Warmer
<1>2. /\ a.load \in Int /\ b.load \in Int /\ a.cores \in Int
      /\ a.chips \in Seq(Seq(Thermometer)) /\ b.chips \in Seq(Seq(Thermometer))
  BY DEF CpuReading, Thermometer
<1>3. /\ s.load = a.load /\ t.load = b.load /\ s.cores = a.cores /\ t.cores = a.cores
      /\ s.temperature = cool.temperature /\ t.temperature = heat.temperature
      /\ s.critical = cool.critical /\ t.critical = heat.critical
  <2> HIDE DEF cool, heat
  <2> QED
    BY <1>1 DEF CpuSnapshot, cool, heat
<1>4. /\ cool.critical \in Number
      /\ cool.temperature # None =>
           /\ cool.temperature \in Int /\ heat.temperature \in Int
           /\ cool.temperature <= heat.temperature /\ heat.critical = cool.critical
  BY <1>1, <1>2, HeatRises, HeatOfTheProcessor DEF Thermometer
<1> HIDE DEF s, t, cool, heat
<1>5. Milder(CheckCpuLoad(s), CheckCpuLoad(t))
  <2> DEFINE cores == IF a.cores > 1 THEN a.cores ELSE 1
             v(x) == IF x >= 2 * cores THEN WARNING
                     ELSE IF x >= cores THEN INFO ELSE OK
  <2>1. cores \in Nat /\ 2 * cores >= cores
    BY <1>2
  <2>2. /\ CheckCpuLoad(s) = Finding("cpu.load", v(a.load))
        /\ CheckCpuLoad(t) = Finding("cpu.load", v(b.load))
    BY <1>3 DEF CheckCpuLoad
  <2> HIDE DEF cores
  <2>3. v(a.load) \in 0..3 /\ v(b.load) \in 0..3 /\ v(a.load) <= v(b.load)
    BY <1>1, <1>2, <2>1 DEF OK, INFO, WARNING
  <2> HIDE DEF v
  <2> QED
    BY <2>2, <2>3, MilderFindings
<1>6. Milder(CheckCpuThermals(s), CheckCpuThermals(t))
  <2>1. CASE s.temperature = None
    BY <2>1, SkipsAreMild DEF CheckCpuThermals
  <2>2. CASE s.temperature # None
    <3> DEFINE limit == IF Truthy(cool.critical) THEN cool.critical ELSE 100
               v(x) == High(100 * x, 95 * limit, 85 * limit)
    <3>1. limit \in Int
      BY <1>4 DEF Truthy, Number
    <3>2. /\ cool.temperature \in Int /\ heat.temperature \in Int
          /\ cool.temperature <= heat.temperature /\ heat.critical = cool.critical
          /\ heat.temperature # None
      BY <1>3, <1>4, <2>2
    <3>3. /\ CheckCpuThermals(s) = Finding("cpu.thermal", v(cool.temperature))
          /\ CheckCpuThermals(t) = Finding("cpu.thermal", v(heat.temperature))
      BY <1>3, <2>2, <3>2 DEF CheckCpuThermals
    <3> HIDE DEF limit
    <3>4. /\ 100 * cool.temperature \in Int /\ 100 * heat.temperature \in Int
          /\ 95 * limit \in Int /\ 85 * limit \in Int
          /\ 100 * cool.temperature <= 100 * heat.temperature
      BY <3>1, <3>2
    <3>5. /\ v(cool.temperature) \in 0..3 /\ v(heat.temperature) \in 0..3
          /\ v(cool.temperature) <= v(heat.temperature)
      BY <3>4, BandsAreOrdered
    <3> HIDE DEF v
    <3> QED
      BY <3>3, <3>5, MilderFindings
  <2> QED
    BY <2>1, <2>2
<1>7. \A x : Results("cpu", x) = CheckCpuLoad(x) \cup CheckCpuThermals(x)
  BY DEF Results
<1>8. Milder(Results("cpu", s), Results("cpu", t))
  BY <1>5, <1>6, <1>7, MilderParts
<1> QED
  BY <1>8 DEF s, t

\* A sensor with the limits of another, and as hot or hotter, has no better status.
LEMMA HotterSensor ==
  ASSUME NEW s, NEW t, None \notin Int,
         {s.value, s.high, s.critical} \subseteq Number,
         {t.value, t.high, t.critical} \subseteq Number,
         t.kind = s.kind, t.high = s.high, t.critical = s.critical,
         s.value # None => t.value # None /\ t.value >= s.value
  PROVE  /\ Status(s) = "critical" => Status(t) = "critical"
         /\ Status(s) = "hot" => Status(t) \in {"hot", "critical"}
         /\ Status(s) \in {"hot", "critical"} => s.kind = "temperature"
<1>1. CASE s.kind # "temperature" \/ s.value = None
  BY <1>1 DEF Status
<1>2. CASE s.kind = "temperature" /\ s.value # None
  <2>1. s.value \in Int /\ t.value \in Int /\ t.value >= s.value /\ t.value # None
    BY <1>2 DEF Number
  <2>2. /\ Truthy(s.critical) => s.critical \in Int
        /\ Truthy(s.high) => s.high \in Int
    BY DEF Truthy, Number
  <2> QED
    BY <1>2, <2>1, <2>2 DEF Status
<1> QED
  BY <1>1, <1>2

\* Sensors that are hotter, with others or without.
LEMMA HotterSensors ==
  ASSUME NEW a, NEW b, SensorReading(a), SensorReading(b), None \notin Int,
         NoBetter("sensors", a, b)
  PROVE  Milder(CheckSensors(SensorSnapshot(a)),
                CheckSensors(SensorSnapshot(b)))
<1> DEFINE mine == SensorSnapshot(a)
           yours == SensorSnapshot(b)
           weight(w) == CASE w = "critical" -> CRITICAL
                          [] w = "hot"      -> WARNING
                          [] w = "fine"     -> OK
<1>1. \A s \in mine : Status(s) \in {"hot", "critical"} =>
        \E t \in yours : /\ Status(s) = "critical" => Status(t) = "critical"
                         /\ Status(s) = "hot" => Status(t) \in {"hot", "critical"}
  <2> SUFFICES ASSUME NEW s \in mine, Status(s) \in {"hot", "critical"}
               PROVE  \E t \in yours :
                        /\ Status(s) = "critical" => Status(t) = "critical"
                        /\ Status(s) = "hot" => Status(t) \in {"hot", "critical"}
    OBVIOUS
  <2>1. s \in a
    BY DEF SensorSnapshot
  <2>2. PICK t \in b : /\ t.kind = s.kind /\ t.high = s.high /\ t.critical = s.critical
                       /\ s.value # None => t.value # None /\ t.value >= s.value
    BY <2>1 DEF NoBetter
  <2>3. /\ {s.value, s.high, s.critical} \subseteq Number
        /\ {t.value, t.high, t.critical} \subseteq Number
    BY <2>1 DEF SensorReading
  <2>4. /\ Status(s) = "critical" => Status(t) = "critical"
        /\ Status(s) = "hot" => Status(t) \in {"hot", "critical"}
        /\ s.kind = "temperature"
    BY <2>2, <2>3, HotterSensor
  <2>5. t \in yours
    BY <2>2, <2>4 DEF SensorSnapshot
  <2> QED
    BY <2>4, <2>5
<1> HIDE DEF mine, yours
<1>2. \A w : w \in {"critical", "hot", "fine"} => weight(w) \in 0..3
  BY DEF CRITICAL, WARNING, OK
<1>3. weight(WorstStatus(mine)) <= weight(WorstStatus(yours))
  BY <1>1 DEF WorstStatus, CRITICAL, WARNING, OK
<1>4. \A x : x # {} =>
        CheckSensors(x) = Finding("sensors.thermal", weight(WorstStatus(x)))
  BY DEF CheckSensors
<1>5. CASE mine = {}
  BY <1>5, SkipsAreMild DEF CheckSensors, mine
<1>6. CASE mine # {} /\ yours = {}
  <2>1. WorstStatus(mine) = "fine"
    BY <1>1, <1>6 DEF WorstStatus
  <2>2. CheckSensors(mine) = Finding("sensors.thermal", OK)
    BY <1>4, <1>6, <2>1
  <2>3. Milder(Finding("sensors.thermal", OK), CheckSensors(yours))
    BY DEF Milder, Tells, Finding, OK
  <2> QED
    BY <2>2, <2>3 DEF mine, yours
<1>7. CASE mine # {} /\ yours # {}
  <2>1. /\ weight(WorstStatus(mine)) \in 0..3
        /\ weight(WorstStatus(yours)) \in 0..3
    BY <1>2, WorstStatuses
  <2> HIDE DEF weight
  <2>2. Milder(CheckSensors(mine), CheckSensors(yours))
    BY <1>3, <1>4, <1>7, <2>1, MilderFindings
  <2> QED
    BY <2>2 DEF mine, yours
<1> QED
  BY <1>5, <1>6, <1>7

\* What is no better is judged no milder, in every domain.
LEMMA NoBetterIsNoMilder ==
  ASSUME Typed, NEW d \in Domains, NEW a \in Raw[d], NEW b \in Raw[d],
         NoBetter(d, a, b)
  PROVE  Milder(Results(d, Collect(d, a)),
                Results(d, Collect(d, b)))
<1>1. None \notin Int /\ a # Broken /\ b # Broken
  BY DEF Typed
<1>2. CASE d = "cpu"
  <2>1. Milder(Results("cpu", CpuSnapshot(a)),
               Results("cpu", CpuSnapshot(b)))
    BY <1>1, <1>2, HotterProcessor DEF Typed
  <2> QED
    BY <1>1, <1>2, <2>1 DEF Collect
<1>3. CASE d = "memory"
  <2>1. Milder(Results("memory", MemorySnapshot(a)),
               Results("memory", MemorySnapshot(b)))
    BY <1>1, <1>3, LessMemory DEF Typed
  <2> QED
    BY <1>1, <1>3, <2>1 DEF Collect
<1>4. CASE d = "sensors"
  <2>1. Milder(CheckSensors(SensorSnapshot(a)),
               CheckSensors(SensorSnapshot(b)))
    BY <1>1, <1>4, HotterSensors DEF Typed
  <2> QED
    BY <1>1, <1>4, <2>1 DEF Collect, Results
<1>5. CASE d = "services"
  <2>1. Milder(CheckServices(ServiceSnapshot(a)),
               CheckServices(ServiceSnapshot(b)))
    BY <1>5, MoreFailures DEF Typed
  <2> QED
    BY <1>1, <1>5, <2>1 DEF Collect, Results
<1>6. CASE d = "processes"
  <2>1. a \in Nat /\ b \in Nat /\ b >= a
    BY <1>6 DEF Typed, NoBetter
  <2>2. Milder(CheckProcesses(ProcessSnapshot(a)),
               CheckProcesses(ProcessSnapshot(b)))
    BY <2>1, MoreZombies
  <2> QED
    BY <1>1, <1>6, <2>2 DEF Collect, Results
<1>7. d \in {"cpu", "memory", "sensors", "services", "processes"}
  BY DEF NoBetter
<1> QED
  BY <1>2, <1>3, <1>4, <1>5, <1>6, <1>7

\* When a run finds a domain no better than the one before it did, its verdict on the
\* domain is no milder (services/diagnostics.py).
THEOREM WorseShows == DiagnosticsSpec => WorseIsNeverMilder
<1> DEFINE NoMilder ==
             \A d \in DOMAIN basis \cap DOMAIN basis' :
               basis[d] # Broken /\ basis'[d] # Broken /\ NoBetter(d, basis[d], basis'[d])
                 => Worst(report'[d]) >= Worst(report[d])
<1>1. Typed
  BY ReadingsAreReadable
<1>2. ASSUME VerdictsInv, VerdictsInv' PROVE NoMilder
  <2> SUFFICES ASSUME NEW d \in DOMAIN basis \cap DOMAIN basis', basis[d] # Broken,
                      basis'[d] # Broken, NoBetter(d, basis[d], basis'[d])
               PROVE  Worst(report'[d]) >= Worst(report[d])
    OBVIOUS
  <2>1. /\ d \in Domains /\ basis[d] \in Raw[d]
        /\ basis # Nothing /\ report # Nothing
    <3>1. basis # Nothing
      BY DEF Nothing
    <3> QED
      BY <1>2, <3>1 DEF VerdictsInv, DiagnosticsTypeOK
  <2>2. basis'[d] \in Raw[d] /\ report' # Nothing
    <3>1. basis' # Nothing
      BY DEF Nothing
    <3> QED
      BY <1>2, <3>1 DEF VerdictsInv, DiagnosticsTypeOK
  <2>3. /\ report[d] = Results(d, Collect(d, basis[d]))
        /\ report'[d] = Results(d, Collect(d, basis'[d]))
    BY <1>2, <2>1, <2>2 DEF VerdictsInv
  <2>4. PICK a \in Raw[d] : a = basis[d]
    BY <2>1
  <2>5. PICK b \in Raw[d] : b = basis'[d]
    BY <2>2
  <2>6. NoBetter(d, a, b)
    BY <2>4, <2>5
  <2> DEFINE R == Results(d, Collect(d, a))
             Q == Results(d, Collect(d, b))
  <2>7. Milder(R, Q)
    BY <1>1, <2>1, <2>6, NoBetterIsNoMilder
  <2>8. Judged(R) /\ Judged(Q)
    BY <2>1, ResultsAreJudged
  <2>9. report[d] = R /\ report'[d] = Q
    BY <2>3, <2>4, <2>5
  <2> HIDE DEF R, Q
  <2>10. Worst(Q) >= Worst(R)
    BY <2>7, <2>8, MilderIsNoWorse
  <2> QED
    BY <2>9, <2>10
<1>3. VerdictsInv /\ VerdictsInv' => [NoMilder]_diagnosticsVars
  BY <1>2
<1>4. WorseIsNeverMilder <=> [][NoMilder]_diagnosticsVars
  BY DEF WorseIsNeverMilder
<1> HIDE DEF NoMilder
<1> QED
  BY <1>3, <1>4, VerdictsCorrect, PTL

-----------------------------------------------------------------------------
(* The two together *)

\* What is explored together keeps to the specifications of the parts, so that what
\* is proved of pages and of verdicts holds of Views.
THEOREM ViewsKeepToTheirParts == ViewsSpec => PanelsSpec /\ DiagnosticsSpec
<1>1. ViewsInit => PanelsInit /\ DiagnosticsInit
  BY DEF ViewsInit
<1>2. [ViewsNext]_viewsVars => [PanelsNext]_panelsVars /\ [DiagnosticsNext]_diagnosticsVars
  BY DEF ViewsNext, viewsVars
<1> QED
  BY <1>1, <1>2, PTL DEF ViewsSpec, PanelsSpec, DiagnosticsSpec
=============================================================================
