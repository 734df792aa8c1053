---------------------------- MODULE WindowProofs -----------------------------
(***************************************************************************)
(* What the run of Window checks with four pages, proved for any set of    *)
(* pages and collectors, any number of snapshots and any banner time.      *)
(***************************************************************************)
EXTENDS Window, TLAPS

\* Before the window is made, and after it is closed, nothing is built or shown.
Closed ==
  ~open =>
    /\ current = NoPage /\ built = {} /\ visible = {}
    /\ ~paused /\ ~toolbar
    /\ latest = Nothing /\ seen = [p \in Pages |-> Nothing]
    /\ banner = NoMessage

\* No page shows a snapshot of a domain that had none.
NothingFromNowhere == \A p \in Pages, d \in Domains : latest[d] = 0 => seen[p][d] = 0

\* The only timer is that of the banner that is shown.
OneTimer == banner # NoMessage => timers = {BannerTime - age}

WindowInv == Consistent /\ Closed /\ NothingFromNowhere /\ EntryIsCurrent /\ OneTimer

\* The invariant of the window holds before it is opened.
LEMMA WindowStart == Init => WindowInv
<1> SUFFICES ASSUME Init PROVE WindowInv
  OBVIOUS
<1>1. Nothing \in [Domains -> 0 .. MaxSamples] /\ 0 \in 0 .. BannerTime
  BY WindowAssumption DEF Nothing
<1>2. TypeOK
  BY <1>1 DEF Init, TypeOK
<1>3. OnePageWorks
  BY DEF Init, OnePageWorks
<1>4. Closed /\ NothingFromNowhere /\ EntryIsCurrent /\ OneTimer
  BY DEF Init, Closed, NothingFromNowhere, EntryIsCurrent, OneTimer, Nothing
<1> QED
  BY <1>2, <1>3, <1>4 DEF WindowInv, Consistent

\* What the user sees on entering a page.
LEMMA EntryFacts ==
  ASSUME TypeOK, NothingFromNowhere, NEW p \in Pages
  PROVE  /\ OnEntry(p) \in [Domains -> 0 .. MaxSamples]
         /\ \A d \in Domains : latest[d] = 0 => OnEntry(p)[d] = 0
         /\ \A d \in DomainsOf[p] : p = Dashboard => OnEntry(p)[d] = latest[d]
<1>1. /\ seen[p] \in [Domains -> 0 .. MaxSamples] /\ latest \in [Domains -> 0 .. MaxSamples]
      /\ DomainsOf[p] \subseteq Domains
  BY WindowAssumption DEF TypeOK
<1>2. CASE p \notin built \/ p = Dashboard
  <2>1. OnEntry(p) = [d \in Domains |-> IF d \in DomainsOf[p] /\ latest[d] # 0 THEN latest[d]
                                        ELSE seen[p][d]]
    BY <1>2 DEF OnEntry
  <2> QED
    BY <1>1, <2>1 DEF NothingFromNowhere
<1>3. CASE ~(p \notin built \/ p = Dashboard)
  BY <1>1, <1>3 DEF OnEntry, NothingFromNowhere
<1> QED
  BY <1>2, <1>3

\* Entering a page, from another one or when the window is made.
LEMMA EnterStep ==
  ASSUME WindowInv, NEW p \in Pages, p # current, Enter(p),
         UNCHANGED <<latest, failed, paused, toolbar, notices>>,
         open' = TRUE, palette' \in BOOLEAN
  PROVE  WindowInv'
<1> USE DEF WindowInv
<1>1. /\ visible' = (visible \ {current}) \cup {p}
      /\ enabled' = Hidden(current) \cup Suspends[p]
      /\ built' = built \cup {p}
      /\ seen' = [seen EXCEPT ![p] = OnEntry(p)]
      /\ selected' = p /\ search' = FALSE /\ current' = p
      /\ inFlight' = RequestedBy(p) /\ lastPage' = p
  BY DEF Enter, Build, Select
<1>2. TypeOK
  BY DEF Consistent
<1>3. /\ OnEntry(p) \in [Domains -> 0 .. MaxSamples]
      /\ \A d \in Domains : latest[d] = 0 => OnEntry(p)[d] = 0
      /\ \A d \in DomainsOf[p] : p = Dashboard => OnEntry(p)[d] = latest[d]
  BY <1>2, EntryFacts
<1>4. /\ \A q \in Pages : DomainsOf[q] \subseteq Domains /\ Suspends[q] \subseteq Domains
      /\ \A q, r \in Pages : q # r => Suspends[q] \cap Suspends[r] = {}
  BY WindowAssumption
<1>5. Hidden(current) \subseteq Domains /\ RequestedBy(p) \subseteq Domains
  BY <1>2, <1>4 DEF Hidden, RequestedBy, Requested, TypeOK
<1>6. TypeOK'
  BY <1>1, <1>2, <1>3, <1>4, <1>5 DEF TypeOK, notices
<1>7. OnePageWorks'
  <2>1. visible \ {current} = {}
    BY DEF Closed, Consistent, OnePageWorks
  <2>2. toolbar' = paused'
    <3>1. paused \in BOOLEAN /\ toolbar \in BOOLEAN
      BY <1>2 DEF TypeOK
    <3>2. toolbar = paused
      BY <3>1 DEF Closed, Consistent, OnePageWorks
    <3> QED
      BY <3>2
  <2>3. ASSUME NEW q \in built', NEW d \in Suspends[q]
        PROVE  d \in enabled' <=> p = q
    <3>1. q \in Pages
      BY <1>1, <1>2, <2>3 DEF TypeOK
    <3>2. CASE q = p
      BY <1>1, <2>3, <3>2
    <3>3. CASE q # p
      <4>1. d \notin Suspends[p]
        BY <1>4, <2>3, <3>1, <3>3
      <4>2. q \in built /\ open /\ current \in Pages
        BY <1>1, <1>2, <2>3, <3>3 DEF Closed, Consistent, OnePageWorks, TypeOK
      <4>3. d \notin Hidden(current)
        <5>1. CASE q = current
          BY <2>3, <4>2, <5>1, WindowAssumption DEF Hidden
        <5>2. CASE q # current
          BY <2>3, <4>2, <5>2, WindowAssumption DEF Hidden, Consistent, OnePageWorks
        <5> QED
          BY <5>1, <5>2
      <4> QED
        BY <1>1, <3>3, <4>1, <4>3
    <3> QED
      BY <3>2, <3>3
  <2> QED
    BY <1>1, <2>1, <2>2, <2>3 DEF OnePageWorks
<1>8. NothingFromNowhere'
  BY <1>1, <1>2, <1>3 DEF NothingFromNowhere, TypeOK
<1>9. EntryIsCurrent'
  <2>1. seen'[p] = OnEntry(p)
    BY <1>1, <1>2 DEF TypeOK
  <2>2. p \in Refreshing => DomainsOf[p] \subseteq inFlight' /\ p # Dashboard
    BY <1>1, WindowAssumption DEF RequestedBy, Requested
  <2> QED
    BY <1>1, <1>3, <2>1, <2>2 DEF EntryIsCurrent
<1>10. OneTimer' /\ Closed'
  BY DEF OneTimer, Closed, notices
<1> QED
  BY <1>6, <1>7, <1>8, <1>9, <1>10 DEF Consistent

\* A snapshot reaches the page that is open.
LEMMA SnapshotStep ==
  ASSUME WindowInv, NEW d \in Domains, OnSnapshot(d)
  PROVE  WindowInv'
<1> USE DEF WindowInv
<1>1. /\ open /\ d \in inFlight /\ latest[d] < MaxSamples
      /\ inFlight' = inFlight \ {d} /\ failed' = failed \ {d}
      /\ latest' = [latest EXCEPT ![d] = @ + 1]
      /\ seen' = [p \in Pages |->
                    IF p \in Consumers(d) THEN [seen[p] EXCEPT ![d] = latest[d] + 1] ELSE seen[p]]
      /\ UNCHANGED <<open, current, selected, built, visible, lastPage, enabled, chrome, notices>>
  BY DEF OnSnapshot
<1>2. TypeOK /\ OnePageWorks
  BY DEF Consistent
<1>3. latest[d] + 1 \in 0 .. MaxSamples /\ latest[d] + 1 # 0
  BY <1>1, <1>2, WindowAssumption DEF TypeOK
<1>4. \A p \in Pages : seen[p] \in [Domains -> 0 .. MaxSamples]
  BY <1>2 DEF TypeOK
<1>5. \A p \in Pages : \A e \in Domains :
        seen'[p][e] = IF p \in Consumers(d) /\ e = d THEN latest[d] + 1 ELSE seen[p][e]
  BY <1>1, <1>4
<1>6. TypeOK'
  <2>1. seen' \in [Pages -> [Domains -> 0 .. MaxSamples]]
    BY <1>1, <1>3, <1>4
  <2> QED
    BY <1>1, <1>2, <1>3, <2>1 DEF TypeOK, chrome, notices
<1>7. OnePageWorks'
  BY <1>1, <1>2 DEF OnePageWorks, chrome
<1>8. \A e \in Domains : latest'[e] = IF e = d THEN latest[d] + 1 ELSE latest[e]
  BY <1>1, <1>2 DEF TypeOK
<1>9. NothingFromNowhere'
  BY <1>3, <1>5, <1>8 DEF NothingFromNowhere
<1>10. EntryIsCurrent'
  <2> SUFFICES ASSUME current \in Refreshing \cup {Dashboard}, NEW e \in DomainsOf[current]
               PROVE  \/ seen'[current][e] = latest'[e]
                      \/ current # Dashboard /\ e \in inFlight' \cup failed'
    BY <1>1 DEF EntryIsCurrent
  <2>1. current \in Pages /\ e \in Domains
    BY WindowAssumption
  <2>2. CASE e = d
    <3>1. current \in Consumers(d)
      BY <1>1, <1>2, <2>2 DEF OnePageWorks, Consumers
    <3> QED
      BY <1>5, <1>8, <2>1, <2>2, <3>1
  <2>3. CASE e # d
    BY <1>1, <1>5, <1>8, <2>1, <2>3 DEF EntryIsCurrent
  <2> QED
    BY <2>2, <2>3
<1>11. OneTimer' /\ Closed'
  BY <1>1 DEF OneTimer, Closed, notices
<1> QED
  BY <1>6, <1>7, <1>9, <1>10, <1>11 DEF Consistent

\* What leaves pages and snapshots alone leaves their part of the invariant alone.
LEMMA PagesStep ==
  ASSUME WindowInv, UNCHANGED <<open, pages, latest, enabled>>,
         DomainsOf[current] \cap (inFlight \cup failed) \subseteq inFlight' \cup failed',
         inFlight' \subseteq Domains, failed' \subseteq Domains,
         paused' \in BOOLEAN, toolbar' = paused', ~open => ~paused',
         palette' \in BOOLEAN, search' \in BOOLEAN,
         banner' \in Messages \cup {NoMessage}, timers' \subseteq 0 .. BannerTime,
         age' \in 0 .. BannerTime, OneTimer', ~open => banner' = NoMessage
  PROVE  WindowInv'
<1> USE DEF WindowInv
<1>1. /\ open' = open /\ current' = current /\ selected' = selected /\ built' = built
      /\ visible' = visible /\ seen' = seen /\ lastPage' = lastPage /\ latest' = latest
      /\ enabled' = enabled
  BY DEF pages
<1>2. TypeOK /\ OnePageWorks
  BY DEF Consistent
<1>3. TypeOK'
  BY <1>1, <1>2 DEF TypeOK
<1>4. OnePageWorks'
  BY <1>1, <1>2 DEF OnePageWorks
<1>5. Closed'
  <2>1. ASSUME ~open
        PROVE  /\ current = NoPage /\ built = {} /\ visible = {}
               /\ latest = Nothing /\ seen = [p \in Pages |-> Nothing]
    BY <2>1 DEF Closed
  <2>2. ~open => ~paused' /\ ~toolbar'
    OBVIOUS
  <2> QED
    BY <1>1, <2>1, <2>2 DEF Closed, Nothing
<1>6. NothingFromNowhere'
  BY <1>1 DEF NothingFromNowhere
<1>7. EntryIsCurrent'
  BY <1>1 DEF EntryIsCurrent
<1> QED
  BY <1>3, <1>4, <1>5, <1>6, <1>7 DEF Consistent

\* Closing the window keeps its invariant.
LEMMA CloseStep == WindowInv /\ Close => WindowInv'
<1> SUFFICES ASSUME WindowInv, Close PROVE WindowInv'
  OBVIOUS
<1>1. Nothing \in [Domains -> 0 .. MaxSamples] /\ 0 \in 0 .. BannerTime
  BY WindowAssumption DEF Nothing
<1>2. TypeOK'
  BY <1>1 DEF Close, WindowInv, Consistent, TypeOK
<1>3. OnePageWorks' /\ Closed' /\ EntryIsCurrent' /\ OneTimer'
  BY DEF Close, OnePageWorks, Closed, EntryIsCurrent, OneTimer, Nothing
<1>4. NothingFromNowhere'
  BY DEF Close, NothingFromNowhere, Nothing
<1> QED
  BY <1>2, <1>3, <1>4 DEF WindowInv, Consistent

\* Every step keeps the invariant of the window.
LEMMA WindowStep == WindowInv /\ [Next]_vars => WindowInv'
<1> SUFFICES ASSUME WindowInv, [Next]_vars PROVE WindowInv'
  OBVIOUS
<1>1. /\ TypeOK /\ OnePageWorks /\ Closed /\ OneTimer
      /\ paused \in BOOLEAN /\ toolbar \in BOOLEAN /\ palette \in BOOLEAN /\ search \in BOOLEAN
      /\ inFlight \subseteq Domains /\ failed \subseteq Domains
      /\ banner \in Messages \cup {NoMessage} /\ timers \subseteq 0 .. BannerTime
      /\ age \in 0 .. BannerTime /\ BannerTime \in Nat
  BY WindowAssumption DEF WindowInv, Consistent, TypeOK
<1>2. toolbar = paused /\ (~open => ~paused /\ banner = NoMessage)
  BY <1>1 DEF OnePageWorks, Closed
<1>3. open => DomainsOf[current] \subseteq Domains
  BY <1>1, WindowAssumption DEF OnePageWorks, TypeOK
<1>4. CASE Start
  <2>1. (IF lastPage \in Pages THEN lastPage ELSE Dashboard) \in Pages /\ current \notin Pages
    BY <1>4, WindowAssumption DEF Start, WindowInv, Closed, Restored
  <2> QED
    BY <1>1, <1>4, <2>1, EnterStep DEF Start, Restored
<1>5. ASSUME NEW p \in Pages, Navigate(p) PROVE WindowInv'
  BY <1>1, <1>5, EnterStep DEF Navigate
<1>6. ASSUME NEW p \in Pages, ActivatePage(p) PROVE WindowInv'
  <2>1. CASE p = current
    <3>1. /\ UNCHANGED <<open, pages, enabled, inFlight, search, latest, failed, paused, toolbar,
                         notices>>
          /\ palette' = FALSE /\ open
      BY <1>6, <2>1 DEF ActivatePage, HidePalette
    <3>2. OneTimer'
      BY <1>1, <3>1 DEF OneTimer, notices
    <3> QED
      BY <1>1, <1>2, <3>1, <3>2, PagesStep DEF notices
  <2>2. CASE p # current
    <3>1. /\ Enter(p) /\ open' = TRUE /\ palette' \in BOOLEAN
          /\ UNCHANGED <<latest, failed, paused, toolbar, notices>>
      BY <1>1, <1>6, <2>2 DEF ActivatePage, HidePalette
    <3> QED
      BY <2>2, <3>1, EnterStep
  <2> QED
    BY <2>1, <2>2
<1>7. CASE Close
  BY <1>7, CloseStep
<1>8. ASSUME NEW d \in Domains, OnSnapshot(d) PROVE WindowInv'
  BY <1>8, SnapshotStep
<1>9. CASE Refresh
  <2>1. /\ UNCHANGED <<open, pages, latest, enabled, failed, chrome, notices>> /\ open
        /\ inFlight' = inFlight \cup DomainsOf[current]
    BY <1>9 DEF Refresh, Requested
  <2>2. OneTimer'
    BY <1>1, <2>1 DEF OneTimer, notices
  <2>3. inFlight' \subseteq Domains
    BY <1>1, <1>3, <2>1
  <2> QED
    BY <1>1, <1>2, <2>1, <2>2, <2>3, PagesStep DEF chrome, notices
<1>10. ASSUME NEW d \in Domains, Tick(d) \/ OnCollectionFailed(d) PROVE WindowInv'
  <2>1. /\ UNCHANGED <<open, pages, latest, enabled, chrome, notices>> /\ open
        /\ inFlight' \subseteq Domains /\ failed' \subseteq Domains
        /\ inFlight \cup failed \subseteq inFlight' \cup failed'
    BY <1>1, <1>10 DEF Tick, OnCollectionFailed
  <2>2. OneTimer'
    BY <1>1, <2>1 DEF OneTimer, notices
  <2> QED
    BY <1>1, <1>2, <2>1, <2>2, PagesStep DEF chrome, notices
<1>11. CASE SetPaused \/ Search \/ OpenPalette \/ ActivatePause
  <2>1. /\ UNCHANGED <<open, pages, sampling, notices>> /\ open
        /\ paused' \in BOOLEAN /\ toolbar' \in BOOLEAN /\ palette' \in BOOLEAN /\ search' \in BOOLEAN
    BY <1>1, <1>11 DEF SetPaused, Search, OpenPalette, ActivatePause, TogglePause, ShowPaused, HidePalette
  <2>2. toolbar' = paused'
    BY <1>1, <1>2, <1>11
    DEF SetPaused, Search, OpenPalette, ActivatePause, TogglePause, ShowPaused, HidePalette
  <2>3. OneTimer'
    BY <1>1, <2>1 DEF OneTimer, notices
  <2> QED
    BY <1>1, <1>2, <2>1, <2>2, <2>3, PagesStep DEF sampling, notices
<1>12. CASE OnEscape \/ Dismiss \/ BannerTimeout
  <2>1. /\ UNCHANGED <<open, pages, sampling, paused, toolbar>> /\ open
        /\ palette' \in BOOLEAN /\ search' \in BOOLEAN
        /\ banner' \in {banner, NoMessage} /\ age' = age
        /\ timers' \subseteq timers /\ (banner' # NoMessage => timers' = timers)
    BY <1>1, <1>12 DEF OnEscape, Dismiss, BannerTimeout, chrome, HidePalette
  <2>2. OneTimer'
    BY <1>1, <2>1 DEF OneTimer
  <2> QED
    BY <1>1, <1>2, <2>1, <2>2, PagesStep DEF sampling
<1>13. ASSUME NEW m \in Messages, ShowBanner(m) PROVE WindowInv'
  <2>1. /\ UNCHANGED <<open, pages, sampling, chrome>> /\ open
        /\ banner' = m /\ timers' = {BannerTime} /\ age' = 0
    BY <1>13 DEF ShowBanner
  <2>2. OneTimer'
    BY <1>1, <2>1 DEF OneTimer
  <2> QED
    BY <1>1, <1>2, <2>1, <2>2, PagesStep DEF sampling, chrome
<1>14. CASE Elapse
  <2>1. /\ UNCHANGED <<open, pages, sampling, chrome, banner>> /\ open
        /\ 0 \notin timers /\ timers' = {t - 1 : t \in timers}
        /\ age' = IF age < BannerTime THEN age + 1 ELSE age
    BY <1>14 DEF Elapse
  <2>2. timers' \subseteq 0 .. BannerTime /\ age' \in 0 .. BannerTime
    BY <1>1, <2>1
  <2>3. OneTimer'
    BY <1>1, <2>1 DEF OneTimer
  <2> QED
    BY <1>1, <1>2, <2>1, <2>2, <2>3, PagesStep DEF sampling, chrome
<1>15. CASE UNCHANGED vars
  <2>1. OneTimer'
    BY <1>1, <1>15 DEF OneTimer, vars, notices
  <2> QED
    BY <1>1, <1>2, <1>15, <2>1, PagesStep DEF vars, sampling, chrome, notices
<1> QED
  BY <1>4, <1>5, <1>6, <1>7, <1>8, <1>9, <1>10, <1>11, <1>12, <1>13, <1>14, <1>15 DEF Next

-----------------------------------------------------------------------------

\* The window stays consistent: one page paints, the sidebar and the pause button
\* say what is the case, and a collector that a visited page suspends runs while
\* that page is open and at no other time.
THEOREM WindowIsConsistent == Spec => []Consistent
<1>1. WindowInv => Consistent
  BY DEF WindowInv
<1> QED
  BY WindowStart, WindowStep, <1>1, PTL DEF Spec

\* Whatever page is entered, its snapshot is the last one, or a new one is on the
\* way or was tried for: a request that the monitor drops is answered by the run
\* that made it drop the request.
THEOREM EntriesAreCurrent == Spec => []EntryIsCurrent
<1>1. WindowInv => EntryIsCurrent
  BY DEF WindowInv
<1> QED
  BY WindowStart, WindowStep, <1>1, PTL DEF Spec

\* A banner that is replaced takes its timer with it: what the timer hides has
\* been up for the whole time.
THEOREM BannersGetTheirTime == Spec => BannerGetsItsTime
<1>1. WindowInv /\ [Next]_vars => [BannerTimeout /\ banner # NoMessage => age = BannerTime]_vars
  <2> SUFFICES ASSUME WindowInv, BannerTimeout, banner # NoMessage
               PROVE  age = BannerTime
    OBVIOUS
  <2>1. 0 \in timers /\ timers = {BannerTime - age}
    BY DEF BannerTimeout, WindowInv, OneTimer
  <2> QED
    BY <2>1, WindowAssumption DEF WindowInv, Consistent, TypeOK
<1> QED
  BY WindowStart, WindowStep, <1>1, PTL DEF Spec, BannerGetsItsTime
=============================================================================
