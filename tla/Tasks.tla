------------------------------- MODULE Tasks --------------------------------
(***************************************************************************)
(* What the pages do outside the sampling: the log viewer's journal        *)
(* queries (app/ui/pages/logs.py), the network page's latency probes       *)
(* (network.py) and the dashboard's notes (dashboard.py).  Queries and     *)
(* probes run on threads and answer by a queued signal; notes are saved by *)
(* a timer of the card they are typed in.                                  *)
(***************************************************************************)
EXTENDS Naturals, FiniteSets

CONSTANTS
  Filters,      \* what the widgets of the log viewer can be set to
  UnitFilters,  \* those that name a unit, with all priorities
  NoFilter,     \* nothing was asked or loaded yet
  Texts,        \* the contents of the notes
  MaxProbes     \* bound on the probes under way

\* Assumed by Pages.
TasksAssumption ==
  /\ UnitFilters \subseteq Filters
  /\ NoFilter \notin Filters
  /\ MaxProbes \in Nat \ {0}

PageNames == {"dashboard", "network", "logs", "services", "settings"}

VARIABLES
  page,      \* the page that is shown
  readable,  \* JournalReader.available: of the capabilities, fixed at the start
  filter,    \* the widgets of the log viewer
  loading,   \* LogsPage._loading
  queries,   \* the queries under way
  dropped,   \* history: the filter was changed without a query for it
  loaded,    \* the query whose entries are shown
  found,     \* there are entries
  optIn,     \* privacy.allow_latency_probes
  button,    \* the button for a probe is enabled
  probes,    \* the number of probes under way
  editor,    \* the text of the notes card
  notes,     \* ui_state.dashboard_notes
  saving     \* the timer of the notes card runs

journal == <<readable, filter, loading, queries, dropped, loaded, found>>
probing == <<button, probes>>
writing == <<editor, notes, saving>>
vars == <<page, journal, optIn, probing, writing>>

TypeOK ==
  /\ page \in PageNames
  /\ readable \in BOOLEAN
  /\ filter \in Filters
  /\ loading \in BOOLEAN
  /\ queries \subseteq Filters
  /\ dropped \in BOOLEAN
  /\ loaded \in Filters \cup {NoFilter}
  /\ found \in BOOLEAN
  /\ optIn \in BOOLEAN
  /\ button \in BOOLEAN
  /\ probes \in 0..MaxProbes
  /\ editor \in Texts
  /\ notes \in Texts
  /\ saving \in BOOLEAN

\* The fields and boxes of the log viewer; only a unit's page names a unit with
\* all priorities.
Offered == Filters \ UnitFilters

\* Every page is built when it is first shown; the notes are what was saved.
Init ==
  /\ page \in PageNames \ {"logs"}
  /\ readable \in BOOLEAN
  /\ filter \in Offered
  /\ loading = FALSE
  /\ queries = {}
  /\ dropped = FALSE
  /\ loaded = NoFilter
  /\ found = FALSE
  /\ optIn \in BOOLEAN
  /\ button = optIn
  /\ probes = 0
  /\ notes \in Texts
  /\ editor = notes
  /\ saving = FALSE

-----------------------------------------------------------------------------
(* The log viewer *)

\* A second query is started while the first one is under way.
MutantReload(f) ==
  /\ loading' = TRUE
  /\ queries' = queries \cup {f}
  /\ dropped' = FALSE

\* reload: nothing without a journal; nothing while a query is under way, not even
\* later.
Reload(f) ==
  IF loading \/ ~readable
  THEN dropped' = TRUE /\ UNCHANGED <<loading, queries>>
  ELSE /\ loading' = TRUE
       /\ queries' = queries \cup {f}
       /\ dropped' = FALSE

\* A filter is changed, or return pressed in a field of the log viewer.
ChangeFilter(f) ==
  /\ page = "logs"
  /\ filter' = f
  /\ Reload(f)
  /\ UNCHANGED <<page, readable, loaded, found, optIn, probing, writing>>

\* Text in a field that is not confirmed.
TypeFilter(f) ==
  /\ page = "logs"
  /\ filter' = f
  /\ dropped' = TRUE
  /\ UNCHANGED <<page, readable, loading, queries, loaded, found, optIn, probing, writing>>

\* JournalReader.query: entries, or none and a note why.
Results == BOOLEAN

\* _JournalTask.run answers whatever happens.
EndQuery(f) ==
  /\ f \in queries
  /\ queries' = queries \ {f}
  /\ found' \in Results

\* A query that raises is forgotten.
MutantAnswer(f) ==
  /\ EndQuery(f)
  /\ IF found' THEN loading' = FALSE /\ loaded' = f ELSE UNCHANGED <<loading, loaded>>
  /\ UNCHANGED <<page, readable, filter, dropped, optIn, probing, writing>>

\* _on_loaded shows the answer; a query that fails or finds nothing answers
\* without entries.
Answer(f) ==
  /\ EndQuery(f)
  /\ loading' = FALSE
  /\ loaded' = f
  /\ UNCHANGED <<page, readable, filter, dropped, optIn, probing, writing>>

\* _sync_probe_availability
SyncProbeAvailability == button' = optIn

\* on_shown of the log viewer, and of the network page.
Shown(p) ==
  /\ IF p = "logs" /\ ~found /\ ~loading THEN Reload(filter) ELSE UNCHANGED <<loading, queries, dropped>>
  /\ IF p = "network" THEN SyncProbeAvailability ELSE UNCHANGED button

Navigate(p) ==
  /\ p # page
  /\ page' = p
  /\ Shown(p)
  /\ UNCHANGED <<readable, filter, loaded, found, optIn, probes, writing>>

\* The services page opens the logs of a unit: the page is shown first, and asks
\* for its old filter if it is empty; then the filter is set and asked for.
OpenLogsForUnit(f) ==
  /\ page = "services"
  /\ f \in UnitFilters
  /\ page' = "logs"
  /\ filter' = f
  /\ IF found \/ loading \/ ~readable
     THEN Reload(f)
     ELSE loading' = TRUE /\ queries' = queries \cup {filter} /\ dropped' = TRUE
  /\ UNCHANGED <<readable, loaded, found, optIn, probing, writing>>

-----------------------------------------------------------------------------
(* Probes *)

\* The setting is changed, on the settings page.
SetOptIn ==
  /\ page = "settings"
  /\ optIn' = ~optIn
  /\ UNCHANGED <<page, journal, probing, writing>>

\* _run_probe looks at the button's state only, which Qt does.
RunProbe ==
  /\ page = "network"
  /\ button
  /\ probes < MaxProbes
  /\ button' = FALSE
  /\ probes' = probes + 1
  /\ UNCHANGED <<page, journal, optIn, writing>>

\* _ProbeTask: ping ends by its own time limit.
EndProbe ==
  /\ probes > 0
  /\ probes' = probes - 1

OnProbeFinished ==
  /\ EndProbe
  /\ button' = TRUE
  /\ UNCHANGED <<page, journal, optIn, writing>>

-----------------------------------------------------------------------------
(* Notes *)

Type(t) ==
  /\ page = "dashboard"
  /\ t # editor
  /\ editor' = t
  /\ saving' = TRUE
  /\ UNCHANGED <<page, journal, optIn, probing, notes>>

SaveNotes ==
  /\ saving
  /\ saving' = FALSE
  /\ notes' = editor
  /\ UNCHANGED <<page, journal, optIn, probing, editor>>

\* The cards are made anew when the arrangement of the dashboard changes, and the
\* old ones go with their timers.
Rebuild ==
  /\ page = "dashboard"
  /\ editor' = notes
  /\ saving' = FALSE
  /\ UNCHANGED <<page, journal, optIn, probing, notes>>

\* The window is closed, and the program started again: what runs is given up,
\* and nothing is saved that was not.
Restart(p) ==
  /\ page' = p
  /\ readable' \in BOOLEAN
  /\ filter' \in Offered
  /\ loading' = FALSE
  /\ queries' = {}
  /\ dropped' = FALSE
  /\ loaded' = NoFilter
  /\ found' = FALSE
  /\ SyncProbeAvailability
  /\ probes' = 0
  /\ editor' = notes
  /\ saving' = FALSE
  /\ UNCHANGED <<optIn, notes>>

Next ==
  \/ \E f \in Filters : ChangeFilter(f) \/ TypeFilter(f) \/ Answer(f) \/ OpenLogsForUnit(f)
  \/ \E p \in PageNames : Navigate(p)
  \/ \E p \in PageNames \ {"logs"} : Restart(p)
  \/ SetOptIn
  \/ RunProbe
  \/ OnProbeFinished
  \/ \E t \in Texts : Type(t)
  \/ SaveNotes
  \/ Rebuild

\* journalctl and ping are run with a time limit, and the event loop delivers
\* their answers and the expiry of the timer.
Fairness ==
  /\ \A f \in Filters : WF_vars(Answer(f))
  /\ WF_vars(OnProbeFinished)
  /\ WF_vars(SaveNotes)

Spec == Init /\ [][Next]_vars /\ Fairness

-----------------------------------------------------------------------------
(* Properties *)

\* When nothing is loading, the entries shown answer the filter shown, unless
\* that was changed while a query was under way or was typed and not confirmed:
\* answers are never mixed up (pages/logs.py:170-216, 296-306).
EntriesAnswerTheFilter ==
  ~loading /\ loaded # NoFilter => loaded = filter \/ dropped

\* Nothing that runs in the background leaves its page waiting for ever: a query
\* ends, the button of the probes comes back to a user who allows them, and a text
\* that stays in the editor is saved (pages/logs.py:337-342,
\* pages/network.py:287-290, pages/dashboard.py:570-582).
TasksEnd ==
  /\ loading ~> ~loading
  /\ (probes > 0 /\ page = "network") ~> (button \/ page # "network" \/ ~optIn)
  /\ \A t \in Texts : (editor = t /\ saving) ~> (notes = t \/ editor # t)
=============================================================================
