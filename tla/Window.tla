------------------------------- MODULE Window -------------------------------
(***************************************************************************)
(* The main window (app/ui/main_window.py) between the monitor and the     *)
(* pages.  Pages are built on the first visit and then fed every snapshot; *)
(* those that are hidden drop what they get.  So what a page shows when it *)
(* is entered depends on a replay, on a request for a new sample, or, for  *)
(* the dashboard, on its own copies.  One page switches its collector off  *)
(* when it is left.                                                        *)
(*                                                                         *)
(* Snapshots are numbered per domain; seen[p][d] is the one page p shows.  *)
(***************************************************************************)
EXTENDS Naturals, FiniteSets

CONSTANTS
  Pages,        \* the classes of PAGE_CLASSES
  Domains,      \* the collectors
  DomainsOf,    \* DomainsOf[p]: Page.domains_of_interest
  Suspends,     \* Suspends[p]: the domains p switches off while it is hidden
  Dashboard,    \* the page that keeps its own copies of the snapshots
  Refreshing,   \* pages whose on_shown requests a sample
  NoPage,       \* the empty string of _current
  Messages,     \* alerts shown in the banner
  NoMessage,    \* no banner
  BannerTime,   \* the 12 seconds a banner stays
  MaxSamples    \* bound on the snapshots of a domain

ASSUME WindowAssumption ==
  /\ Dashboard \in Pages \ Refreshing
  /\ Refreshing \subseteq Pages
  /\ DomainsOf \in [Pages -> SUBSET Domains]
  /\ Suspends \in [Pages -> SUBSET Domains]
  /\ \A p \in Pages : Suspends[p] \subseteq DomainsOf[p]
  /\ \A p, q \in Pages : p # q => Suspends[p] \cap Suspends[q] = {}
  /\ NoPage \notin Pages
  /\ NoMessage \notin Messages
  /\ BannerTime \in Nat
  /\ MaxSamples \in Nat

VARIABLES
  open,       \* the window exists
  current,    \* MainWindow._current
  selected,   \* the checked entry of the sidebar
  built,      \* pages with widgets
  visible,    \* pages with _visible
  seen,       \* seen[p][d]: the snapshot p shows, 0 for none
  latest,     \* MainWindow._latest, 0 for none
  lastPage,   \* ui_state.last_page, in the settings file
  enabled,    \* domains the monitor samples on its own
  inFlight,   \* domains with a run under way
  failed,     \* domains whose last run returned no snapshot
  paused,     \* MonitorService.paused
  toolbar,    \* the pause button is down
  palette,    \* the command palette is open
  search,     \* there is text in the search field
  banner,     \* the message of the banner
  timers,     \* what is left of the timers that hide it
  age         \* history: how long the banner has been up

pages == <<current, selected, built, visible, seen, lastPage>>
sampling == <<latest, enabled, inFlight, failed>>
chrome == <<paused, toolbar, palette, search>>
notices == <<banner, timers, age>>
vars == <<open, pages, sampling, chrome, notices>>

TypeOK ==
  /\ open \in BOOLEAN
  /\ current \in Pages \cup {NoPage}
  /\ selected \in Pages \cup {NoPage}
  /\ built \subseteq Pages
  /\ visible \subseteq Pages
  /\ seen \in [Pages -> [Domains -> 0..MaxSamples]]
  /\ latest \in [Domains -> 0..MaxSamples]
  /\ lastPage \in Pages \cup {NoPage}
  /\ enabled \subseteq Domains
  /\ inFlight \subseteq Domains
  /\ failed \subseteq Domains
  /\ paused \in BOOLEAN
  /\ toolbar \in BOOLEAN
  /\ palette \in BOOLEAN
  /\ search \in BOOLEAN
  /\ banner \in Messages \cup {NoMessage}
  /\ timers \subseteq 0..BannerTime
  /\ age \in 0..BannerTime

Nothing == [d \in Domains |-> 0]

\* No window yet; the settings name a page, or one this version does not have.
Init ==
  /\ open = FALSE
  /\ current = NoPage
  /\ selected = NoPage
  /\ built = {}
  /\ visible = {}
  /\ seen = [p \in Pages |-> Nothing]
  /\ latest = Nothing
  /\ lastPage \in Pages \cup {NoPage}
  /\ enabled = Domains
  /\ inFlight = {}
  /\ failed = {}
  /\ paused = FALSE
  /\ toolbar = FALSE
  /\ palette = FALSE
  /\ search = FALSE
  /\ banner = NoMessage
  /\ timers = {}
  /\ age = 0

-----------------------------------------------------------------------------
(* Pages *)

\* Page.refresh: a request is dropped while a run is under way, for that one
\* will answer it.
Requested(p) == inFlight \cup DomainsOf[p]

\* on_shown of most pages, and of the services page, which also resumes its
\* collector.
RequestedBy(p) == IF p \in Refreshing THEN Requested(p) ELSE inFlight
Hidden(p) == IF p = NoPage THEN enabled ELSE enabled \ Suspends[p]

\* What p shows on entry: the replay of its first visit, or the copies of the
\* dashboard; otherwise what it showed when it was left.
OnEntry(p) ==
  IF p \notin built \/ p = Dashboard
  THEN [d \in Domains |-> IF d \in DomainsOf[p] /\ latest[d] # 0 THEN latest[d] ELSE seen[p][d]]
  ELSE seen[p]

\* Sidebar.select, and the other entries of its exclusive group.
Select(p) == selected' = p

\* Page.build, on the first visit.
Build(p) == built' = built \cup {p}

\* The user comes back and nobody asks for a sample.
MutantEnter(p) ==
  /\ visible' = (visible \ {current}) \cup {p}
  /\ enabled' = Hidden(current) \cup Suspends[p]
  /\ Build(p)
  /\ seen' = [seen EXCEPT ![p] = OnEntry(p)]
  /\ Select(p)
  /\ search' = FALSE
  /\ current' = p
  /\ inFlight' = inFlight
  /\ lastPage' = p

\* The page that is left keeps its collector running.
MutantEnterOnly(p) ==
  /\ visible' = (visible \ {current}) \cup {p}
  /\ enabled' = enabled \cup Suspends[p]
  /\ Build(p)
  /\ seen' = [seen EXCEPT ![p] = OnEntry(p)]
  /\ Select(p)
  /\ search' = FALSE
  /\ current' = p
  /\ inFlight' = RequestedBy(p)
  /\ lastPage' = p

\* MainWindow.navigate, once it is known that the page is another one.
Enter(p) ==
  /\ visible' = (visible \ {current}) \cup {p}
  /\ enabled' = Hidden(current) \cup Suspends[p]
  /\ Build(p)
  /\ seen' = [seen EXCEPT ![p] = OnEntry(p)]
  /\ Select(p)
  /\ search' = FALSE
  /\ current' = p
  /\ inFlight' = RequestedBy(p)
  /\ lastPage' = p

\* _restore_state: the page of the last session, if there still is one.
Restored == IF lastPage \in Pages THEN lastPage ELSE Dashboard

\* The window is made before the monitor starts: there is nothing to replay.
Start ==
  /\ ~open
  /\ open' = TRUE
  /\ Enter(Restored)
  /\ UNCHANGED <<latest, failed, paused, toolbar, palette, notices>>

\* From the sidebar or a shortcut: the current page is left alone.
Navigate(p) ==
  /\ open
  /\ p # current
  /\ Enter(p)
  /\ UNCHANGED <<open, latest, failed, paused, toolbar, palette, notices>>

\* The refresh button and F5.
Refresh ==
  /\ open
  /\ inFlight' = Requested(current)
  /\ UNCHANGED <<open, pages, latest, enabled, failed, chrome, notices>>

\* closeEvent; the monitor is closed with the window, and the next process
\* knows what the settings file says.
Close ==
  /\ open
  /\ open' = FALSE
  /\ current' = NoPage
  /\ selected' = NoPage
  /\ built' = {}
  /\ visible' = {}
  /\ seen' = [p \in Pages |-> Nothing]
  /\ latest' = Nothing
  /\ enabled' = Domains
  /\ inFlight' = {}
  /\ failed' = {}
  /\ paused' = FALSE
  /\ toolbar' = FALSE
  /\ palette' = FALSE
  /\ search' = FALSE
  /\ banner' = NoMessage
  /\ timers' = {}
  /\ age' = 0
  /\ UNCHANGED lastPage

-----------------------------------------------------------------------------
(* Snapshots *)

Tick(d) ==
  /\ open
  /\ ~paused
  /\ d \in enabled \ inFlight
  /\ inFlight' = inFlight \cup {d}
  /\ UNCHANGED <<open, pages, latest, enabled, failed, chrome, notices>>

Consumers(d) == {p \in built \cap visible : d \in DomainsOf[p]}

\* _on_snapshot: pages that are built get it, those that are visible paint it.
OnSnapshot(d) ==
  /\ open
  /\ d \in inFlight
  /\ latest[d] < MaxSamples
  /\ inFlight' = inFlight \ {d}
  /\ failed' = failed \ {d}
  /\ latest' = [latest EXCEPT ![d] = @ + 1]
  /\ seen' = [p \in Pages |->
                IF p \in Consumers(d) THEN [seen[p] EXCEPT ![d] = latest[d] + 1] ELSE seen[p]]
  /\ UNCHANGED <<open, current, selected, built, visible, lastPage, enabled, chrome, notices>>

OnCollectionFailed(d) ==
  /\ open
  /\ d \in inFlight
  /\ inFlight' = inFlight \ {d}
  /\ failed' = failed \cup {d}
  /\ UNCHANGED <<open, pages, latest, enabled, chrome, notices>>

-----------------------------------------------------------------------------
(* Window furniture *)

\* The button of the toolbar, which does not signal this change.
ShowPaused(on) == toolbar' = on

\* _set_paused
TogglePause ==
  /\ paused' = ~paused
  /\ ShowPaused(~paused)

\* By the button, which is down already, or by Ctrl+P.
SetPaused ==
  /\ open
  /\ TogglePause
  /\ UNCHANGED <<open, pages, sampling, palette, search, notices>>

Search ==
  /\ open
  /\ ~search
  /\ search' = TRUE
  /\ UNCHANGED <<open, pages, sampling, paused, toolbar, palette, notices>>

OpenPalette ==
  /\ open
  /\ palette' = TRUE
  /\ UNCHANGED <<open, pages, sampling, paused, toolbar, search, notices>>

\* The palette's own keys, and its choice.
HidePalette == palette' = FALSE

\* A command of the palette hides it and then does what the shortcut does.
ActivatePage(p) ==
  /\ open
  /\ palette
  /\ HidePalette
  /\ IF p = current THEN UNCHANGED <<pages, enabled, inFlight, search>> ELSE Enter(p)
  /\ UNCHANGED <<open, latest, failed, paused, toolbar, notices>>

ActivatePause ==
  /\ open
  /\ palette
  /\ HidePalette
  /\ TogglePause
  /\ UNCHANGED <<open, pages, sampling, search, notices>>

\* Escape dismisses one thing: the palette, else the banner, else the search.
OnEscape ==
  /\ open
  /\ HidePalette
  /\ banner' = IF palette THEN banner ELSE NoMessage
  /\ search' = IF palette \/ banner # NoMessage THEN search ELSE FALSE
  /\ UNCHANGED <<open, pages, sampling, paused, toolbar, timers, age>>

\* The timer of the previous banner is left running.
MutantShowBanner(m) ==
  /\ open
  /\ banner' = m
  /\ timers' = timers \cup {BannerTime}
  /\ age' = 0
  /\ UNCHANGED <<open, pages, sampling, chrome>>

ShowBanner(m) ==
  /\ open
  /\ banner' = m
  /\ timers' = {BannerTime}
  /\ age' = 0
  /\ UNCHANGED <<open, pages, sampling, chrome>>

Dismiss ==
  /\ open
  /\ banner # NoMessage
  /\ banner' = NoMessage
  /\ UNCHANGED <<open, pages, sampling, chrome, timers, age>>

\* A second passes; a timer that is due fires first.
Elapse ==
  /\ open
  /\ timers # {}
  /\ 0 \notin timers
  /\ timers' = {t - 1 : t \in timers}
  /\ age' = IF age < BannerTime THEN age + 1 ELSE age
  /\ UNCHANGED <<open, pages, sampling, chrome, banner>>

BannerTimeout ==
  /\ open
  /\ 0 \in timers
  /\ timers' = timers \ {0}
  /\ banner' = NoMessage
  /\ UNCHANGED <<open, pages, sampling, chrome, age>>

Next ==
  \/ Start
  \/ \E p \in Pages : Navigate(p) \/ ActivatePage(p)
  \/ Refresh
  \/ Close
  \/ \E d \in Domains : Tick(d) \/ OnSnapshot(d) \/ OnCollectionFailed(d)
  \/ SetPaused
  \/ Search
  \/ OpenPalette
  \/ ActivatePause
  \/ OnEscape
  \/ \E m \in Messages : ShowBanner(m)
  \/ Dismiss
  \/ Elapse
  \/ BannerTimeout

Spec == Init /\ [][Next]_vars

-----------------------------------------------------------------------------
(* Properties *)

\* One page works: no other paints, the sidebar points at it, and a collector
\* that its page suspends runs only while that page, once visited, is open
\* (main_window.py navigate, pages/services.py on_shown and on_hidden).
OnePageWorks ==
  open =>
    /\ current \in built
    /\ visible = {current}
    /\ selected = current
    /\ toolbar = paused
    /\ \A p \in built : \A d \in Suspends[p] : d \in enabled <=> current = p

Consistent == TypeOK /\ OnePageWorks

\* What the user looks at is the last snapshot, or a new one is under way, or
\* the last attempt to get one failed: however pages are left and entered again
\* while snapshots arrive, requests are dropped and sampling is paused.
EntryIsCurrent ==
  open /\ current \in Refreshing \cup {Dashboard} =>
    \A d \in DomainsOf[current] :
      seen[current][d] = latest[d] \/ (current # Dashboard /\ d \in inFlight \cup failed)

\* A banner that the user does not dismiss stays for its full time, also when
\* it replaced one whose time was almost over (main_window.py _show_banner).
BannerGetsItsTime == [][BannerTimeout /\ banner # NoMessage => age = BannerTime]_vars
=============================================================================
