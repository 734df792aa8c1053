# A verification model of Linux System Observatory

This directory holds TLA+ models of the parts of Linux System Observatory in which order, failure,
identity and time matter: how collectors are scheduled on threads and what they remember, how readings
become snapshots, verdicts and alerts, how samples reach the history database, how settings survive,
how services are built and closed, and what window and pages show of it all. TLC checks the models on
small instances; TLAPS proves their safety properties for every instance.

`PROJECT.json` lists the components, the runs, for every definition the lines of the source it stands
for, the hazards of the code with the properties that watch over them, the disagreements between code
and documentation that were found, and the theorems.

Run `tlc -config Scheduler.cfg MCScheduler` (and the like) to check a model, `tlapm SchedulerProofs.tla`
(and the like) to check its proofs.

## The system

The program is a PySide6 desktop application in one process. Nearly everything happens on the GUI
thread; threads of a pool run the collectors, and short tasks such as a journal query, a latency probe
or a systemctl call. Dependencies point downwards: user interface, services, collectors, models, core.

| component | state | operations | interacts with |
| --- | --- | --- | --- |
| `MonitorService` (services/monitor.py) | a registration per collector (interval, deadline, in_flight, enabled), the ticker, paused, a pool of four threads | register, start, tick, request, pause, resume, set_enabled, a changed setting, result, close | calls collectors on pool threads; their results come back as queued signals and go to the main window |
| collectors, `RateTracker` (collectors/) | previous counter values, descriptions of devices and processes, health of disks | collect, prime, inspect, forget | /proc, /sys, tools; `inspect` is called on the GUI thread |
| `HwmonProvider` (utils/hwmon.py) | a cache of scans with a TTL, a lock | temperatures, fans, battery | all collectors that read sensors, on their threads |
| `CapabilityRegistry` (core/capabilities.py) | a cached answer per feature | one property per feature, snapshot, summary | read by collectors, diagnostics and pages |
| `AlertEngine` (services/alerts.py) | the rules, per rule `breached_since` and `firing` | add, update, enable, remove, restore defaults, evaluate | stores rules in the settings; tells the window of transitions |
| `NotificationService` | when each rule last notified | notify_alert | called by the window for each transition |
| `DiagnosticsService`, `SnapshotStore` | the last snapshot of each domain | update, run | metrics read the store; the diagnostics page shows the report |
| `HistoryService` (services/history.py) | ring buffers, the batch that waits, the flush timer, the time of the last retention, the active session | start, record, flush, retention, start and stop a session, a changed setting, close | repositories over SQLite; charts read the buffers |
| `Database` and repositories | the SQLite file, degraded or not | batches, prune, trim, vacuum, sessions, alert events | catch and log every failure |
| `ConfigService` (core/config.py) | the live settings, the JSON file, the listeners | load, set, save, reset, notify, close | calls monitor, history and window when a setting changes |
| `Container`, `main`, `bootstrap` | factories, singletons, the keys being resolved, a lock | register, resolve, dispose | builds and closes everything |
| `MainWindow` (ui/main_window.py) | current page, latest snapshots, pages built and visible, banner, palette, badge | navigate, replay, route a snapshot, pause, escape, banner, close | everything above |
| pages and widgets (ui/) | bodies of rows and tiles, tables with a selection, menus and dialogs, charts, queries and probes under way, notes | on_snapshot, on_shown, on_hidden, the user's choices | monitor, history, settings, collectors' actions |
| export, models, themes, units, paths, helpers | none that outlives a call, or layout only | extraction, formatting, painting | |

What is hard in it:

* **Concurrency.** A collector runs on a pool thread while the GUI thread ticks, pauses, requests,
  inspects the same process, or closes; priming runs and scheduled runs share collectors and threads;
  all threads share the sensor cache and the capabilities. Menus and dialogs run event loops of their
  own, in which snapshots go on replacing what they are about.
* **Identity.** Interface names, disk names, pids and row numbers are given to other things while
  rates, cached descriptions, selections and widgets are kept under them.
* **Failure.** Collectors raise, return nothing or hang; parts of the machine cannot be read; factories
  raise; the database is degraded or refuses single transactions; saving the settings fails half-way;
  the process is killed at any moment.
* **Ordering.** Samples, edits of rules, changes of settings, page changes, answers of background
  tasks, timer expiries and restarts come in any order. A reset announces the key `*`, which no
  listener knows.
* **Time.** Deadlines, sustain times, cooldowns, flush and retention intervals, the TTL of the cache,
  the time a banner stays.

What makes each component correct, in a word: the scheduler keeps one scheduled run per collector and
forgets none; a collector shows what is there and never mixes two units that had the same name; no
cached reading is older than promised; a danger in the readings reaches the verdict; an alert fires on
sustained conditions only, does not flap, and its notices, its history and its badge tell the same
story; a sample is written once, and lost only for a reason; the settings file is whole, and file,
memory and listeners agree; a service is built once and closed before what it uses; the page that is
open shows the last snapshot, all of it and nothing older; what a menu named is what is acted upon.

## The modules

| module | what it is |
| --- | --- |
| `Sampling` | what the scheduler promises, without threads, queues or timers |
| `Scheduler` | `MonitorService`, its pool and its signals; implements `Sampling` |
| `Devices` | what network, storage and process collectors remember, under names that are given again |
| `Readings` | from the readings of the machine to the fields of each snapshot: pure operators |
| `Diagnostics` | `SnapshotStore`, the checks, the metrics of the default rules, the report and its page; extends `Readings` |
| `Alerts` | `AlertEngine`, `AlertRepository.record`, `NotificationService.notify_alert`, the badge |
| `History` | `HistoryService` and the tables `metrics` and `sessions` |
| `Config` | `ConfigService`, its file and its listeners |
| `RuleStore` | how the alert engine keeps its rules in the settings; extends `Config` |
| `Container` | `Container` |
| `Hwmon` | the cache of sensor readings |
| `Capabilities` | the probes and their cached answers |
| `Lifecycle` | `main` and `bootstrap`; composes `Container`, `Hwmon` and `Capabilities` |
| `Window` | `MainWindow` between monitor and pages |
| `Panels` | the bodies of pages: rows, sections and tiles that follow the snapshots |
| `Views` | composes `Panels` and `Diagnostics` |
| `Selection` | process and unit tables, their menus and dialogs |
| `Tasks` | journal queries, latency probes, notes |
| `Charts` | ring buffers, stored rows, chart axes, the metric browser |
| `Pages` | composes `Selection`, `Tasks` and `Charts` |
| `MC...` | instances for TLC |
| `...Proofs` | theorems and their proofs, for `Scheduler`, `Devices`, `Alerts`, `History`, `Config` (with `RuleStore`), `Lifecycle` (with `Container`, `Hwmon` and `Capabilities`), `Window` and `Pages`; `PagesProofs` also holds those of `Views`, `Panels` and `Diagnostics` and extends them all, whose names are therefore kept disjoint |

A definition whose name begins with `Mutant` is the definition after it with a plausible bug.
`PROJECT.json` pairs each property of each passing run with one that TLC finds violating it, as
evidence that the property can fail. No module declares a recursive operator; where the code goes
through a list, the model has a fold or a recursive function.

### Scheduler

Every handler that the GUI thread runs is one action (`Tick`, `Request`, `OnResult`, `Pause`, ...):
Qt runs handlers one at a time. Between them the threads of the pool take tasks in FIFO order
(`TakeTask`) and finish them (`FinishTask`), and time passes (`Elapse`). `queue`, `running` and
`results` are the three places a run can be: waiting for a thread, on a thread, in a queued signal.
Time is counted in expiries of the ticker and kept relative (`next_due` is the time that is left), so
no bound on the clock is needed. `Elapse` may interleave with anything: a tick may be late, a
collector may take any time.

`Request` is allowed before `Start`: the window shows its first page, which asks for its domains,
before the event loop runs `start()`. `Close` and `WaitForDone` are the shutdown, after which results
that are still queued are never handled because the event loop has returned.

Left out: the statistics of a registration, which steer nothing, and what Qt does when a pool with a
blocked thread is destroyed.

### Alerts

One call of `evaluate`, with the recording, the notifications and the badge it causes, is one action
(`Evaluate`): all of it runs on the GUI thread inside one signal handler. `failed` is the set of rules
whose row the database refuses. Times are kept as ages that stop growing at `Horizon`; no comparison
in the code tells greater ages apart. `uptime` is the age of the monotonic clock, which matters since
`_last_sent.get(id, 0.0)` compares with its zero. Thresholds and values are integers and the margin of
3% is compared exactly.

`Restart` ends the program in any way and starts it again: states, cooldowns and the badge start
afresh, with any rule set that a start may make of the settings (`Loadable`). Which one it makes, when
saves fail, is the subject of `RuleStore`.

### History

Samples are numbered as they are recorded, which is the order of their row ids. The retention age
appears as `cutoff`: samples up to it are too old; it moves forward as time passes (`Age`) and either
way when the user changes the setting (`SetLimits`). `writable` is the disk. Sizes are counted in rows
of 40 bytes, the estimate of the code; `RowCost` is what a row really takes. `pages` is the size of
the file, which deleting does not reduce, only a vacuum does. The floor of 1000 rows under the limit
is left out: a limit of one megabyte is already above it.

`Start` covers the case that the command line or the settings turn history off, and that the database
is degraded. `Crash` loses what is in memory.

Left out: the ring buffers, which live and die in memory, wall-clock jumps, and a flush of several
metrics of one sample as separate rows (they are written in one transaction).

### Config

`save()` is split into the steps between which the process can be killed or the disk can fail:
truncating the temporary file, filling it, renaming it. `SaveFails` is the handler of an `OSError`;
`SaveRaises` is the case that this handler raises itself, which it does on a read-only file system.
`Start` loads the file, or the defaults if that fails, then applies the overrides of the command line;
the services are built, and subscribe, after that. `EditFile` is the
user, or another version of the program, writing the file between two runs. A save that fails or raises
adds the keys it was meant for, and no others, to `unsaved`. `unsaved`, `untold` and `reset` are history
variables.

Settings are set on the GUI thread only, so no two calls of `set` interleave.

### RuleStore

The list of alert rules is one key of the settings. `Edit` changes the rules of the engine and then
calls `ConfigService.set` with the list it makes of them (`Serialised`), so that the save goes through
the steps of `Config`, each of which may fail, raise or be the last one. `LoadRules` is the engine's
constructor: it converts the list entry by entry (`Deserialised`; an optional field that is absent takes
its default, an entry without a necessary one, or with one that cannot be converted, is discarded), or
takes the defaults and saves them if the list is empty. That save may raise, too; then there is no
engine. `ResetSettings` empties the list behind the engine, which is not subscribed and keeps its rules;
the next edit writes them all. `doubtful` is the history variable behind `RulesSurviveRestart`: the save
of the last edit went wrong, or the file was lost or written by somebody else.

### Devices

One module for three collectors, chosen by `kind`, because they share `RateTracker` and differ in what
they keep and when they forget it. `Plug`, `Unplug` and `Count` are the machine: a unit takes a vacant
name, leaves it, and its counter advances. A sample runs in steps (`ReadCounters`, `PruneDeparted`,
`DescribeInterfaces`, `DescribeDisks`; for processes `ListPids`, `VisitProcess` or `PassOver`, and
`SwapTracked`), between which units come and go; `Fail` and `SwapRaises` are exceptions, which
`Collector.collect` turns into an empty snapshot. `InspectRead` and `InspectStore` are the two halves of
`inspect()` on the GUI thread, which writes to the caches of a sample that may be half-way. A row
records which unit bears the name, which unit its static attributes and its health were read from, and
which unit the previous value of its rate came from (`from`), so that a property can say that they
belong together. `seen`, `fresh` and `meddled` are history variables: which units bore a name since a
sample found it vacant, and where `inspect()` or a failed sample left something behind.

### Readings and Diagnostics

`Readings` has one operator per collector, from files and tool outputs (as values, or `None` where
they cannot be read) to a snapshot: which chip and sensor is the processor's, when available memory
falls back to free memory, which filesystem wins a name, what SMART rows concern, which adapters of
three vendors are listed and what they tell, how batteries give energy or charge, how an interface is
classified, what a failed batch of `systemctl show` leaves unknown. Numbers are integers, percentages
are compared by cross-multiplication. `CpuReading`, `MemoryReading` and the like say what the machine
may answer at all: sizes are natural numbers or missing, a filesystem has both its sizes or neither,
temperatures are any integers. The proofs are about all such readings; TLC evaluates on the run's
instance that its readings are of that kind.

In `Diagnostics`, `Deliver` puts a snapshot into the store, or the empty snapshot of a sample that
raised (`Broken`); `Run` applies all checks to what is in the store, and the page shows verdict, counts
and groups (`Render`); `ShowOrExport` is everything that runs the checks when there is no report.
`sampled` and `basis` are history variables: the readings behind the store and behind the report.
`DefaultRules` are the rules of `_default_rules` but for the one on processor usage, which no check
looks at.

### Container, Hwmon, Capabilities, Lifecycle

A thread in `Container` is in a stack of factories, each of which is given one service after the other
(`ResolveNext`), then returns (`Finish`) or raises (`Raise`); the lock is held from the outermost
resolve on. Objects are numbered in the order in which they were built and record what they hold, so
that the order of disposal can be judged (`Dispose`, `CloseNext`). `Hwmon` splits a call of `_cached()`
where the clock is read (`Ask`), where the lock is taken (`Hit`, `StartScan`) and where the scan ends
(`EndScan`, or `Escape` if it raises what is not caught). `Capabilities` splits a read into probe
(`Read`) and store (`Store`), since a `cached_property` has had no lock since Python 3.12.

`Lifecycle` runs `Script`, the order in which `main()` resolves things, on the wiring of
`bootstrap.py`, with factories that may raise; then the event loop, in which workers read sensors and
capabilities; then the disposal. A behaviour explores the program, the container alone (several
threads, other wirings, circles, several disposals), or the sensor readings alone; the three share
nothing that would make their product interesting.

### Window

`Enter` is `navigate()` once it is known that the page is another one: hide, build, show, select,
replay, request. Snapshots are numbered per domain, `seen[p][d]` is what page `p` shows. `Tick` and
`inFlight` are the part of `Scheduler` that the window sees: a request for a domain under way is
dropped. `failed` is a history variable. `timers` is a set, although the code restarts one timer,
so that a mistake would be visible.

### Panels

The body of a page is a function from keys (a name or a position) to rows. Twenty-one kinds of
bodies are modelled, each by the operator that takes a snapshot as the code does: by name, keeping or
removing what is gone; by position, hiding what is beyond; by setting a tile. `OnSnapshot` applies it
if the page is visible, or for the dashboard stores the snapshot; `OnShown`, `OnHidden` and `Rebuild`
are the rest of the page's life.

`Views` puts the bodies next to the checks of `Diagnostics`. Both are made of what the monitor delivers and
share nothing else, so a behaviour explores one of them.

### Selection, Tasks, Charts, Pages

`Selection` is the model behind the two tables the user acts from. An entry is a pid or unit and a
count of how often it was given (`gen`). The table keeps its selection by row number as long as the
number of rows stays the same (`SetRows`), the process page goes by pid (`selected`), the tree by its
item. The view is one of Qt's for the selection of a single row (table.py:253-254): when the filter takes
the current row away, by a keystroke or by values of a snapshot, Qt makes a neighbouring row that stays
the current one and selects it (`TakenAway`, `Neighbours`). Which neighbour depends on the sorting, so it
is any. `Signals` tells when the page hears of it, `Tracked` and `Detailed` what it then follows and
shows. The current row need not be selected: `Focus` and `Deselect` tell the two apart. `ShowContextMenu`, `Ask` and `Dismiss` open and
close menu and dialog, under which `OnSnapshot` goes on; `Signal` and `Control` are what they do.

`Tasks` has the log viewer's queries (`Reload`, `Answer`), whose second request is dropped while one is
under way, as every request is on a machine without journalctl (`readable`), the hand-over of a unit from the services page (`OpenLogsForUnit`), the probes behind a
button that the opt-in enables, and the notes that a timer saves (`Type`, `SaveNotes`) unless the cards
are rebuilt first (`Rebuild`). `Restart` closes the program without waiting for any of it.

`Charts` keeps, per metric, the ring buffer and the stored rows as sequences of values in thousandths,
what each curve was last given, and the ceiling of the axis, with `_round_up`, growth and decay as in
the code.

`Pages` composes the three. They share no variables but through events that are already in `Tasks`, so
a behaviour explores one and keeps the others in an initial state.

## What the runs check

| run | bounds | result |
| --- | --- | --- |
| `scheduler` | two collectors, two threads, cadences 0 (clamped to 1) and 2, stagger 1, the slow collector's scheduled run may hang | passes: 133,232 states |
| `devices` | one name, two units that may take it in turn, counters and clock up to 1, health read again at age 1; all three collectors | passes: 1,078,722 states |
| `alerts` | a default rule to be sustained for 2, user rules, values below, at and above the threshold, cooldown 2, ages up to 2 | passes: 109,967 states |
| `alerts_unclearable` | the default rule `services-failed`, counts 0 and 1 | `BestValueClears` is violated |
| `history` | four samples, two sessions, limits of one and two rows, a row costs two estimates, vacuum above one deleted row | passes: 171,016 states |
| `history_timer` | the same, one session | `FlushIsTimed` is violated |
| `settings` | a setting with two values that the command line can override and a listener follows; the list of rules, of a default rule and one of the user; three files written by hand | passes: 2,113,596 states |
| `lifecycle` | all services of `bootstrap.py`, two threads; three wirings of three services; two workers, two scans, TTL 2, clock up to 4; two features, one change of the machine | passes: 1,431,230 states |
| `window` | four pages (the dashboard, one that refreshes, one that suspends its collector, one without data), two domains, two samples each, one message, a banner time of 1 | passes: 1,240,805 states |
| `views` | twenty-one kinds of bodies, two names, two devices, up to two things per snapshot, readings calm, alarming and missing; for the checks, readings on either side of every threshold with everything unreadable that may be (`MCViews`), one domain sampled per behaviour, batches of two units | passes: 400,621 states up to symmetry |
| `pages` | two processes or units that may each be replaced once, one of them refused; three filters, one of which names a unit; two probes; two texts; two metrics, a calm and a busy value, buffers of two | passes: 682,205 states |
| `selection_survives` | the same | `SelectionSurvives` is violated |

Why the bounds are enough. *Scheduler*: two threads and one collector that may hang are the smallest
pool in which a hung run competes with a healthy collector; the priming runs of both fill it. Cadences
1 and 2 let a deadline be shortened and lengthened; each domain is treated alike, so a third adds
orders of the queue only. *Devices*: names are independent but for the prefixes of counter keys
(`Nested`), which the forgetting of one name needs; a name taken twice is what stale state needs; a
clock of 1 tells a fresh value from an old one. *Diagnostics*: the checks of one domain look at that
domain only, and the report puts them side by side. *Alerts*: rules do not influence each other but
through the badge, the set of notices and the rows, for which two suffice; a sustain time and a
cooldown of 2 leave room for a gap before, at and after. *History*: four samples fill both the batch
and the table beyond either limit. *Settings*: a save writes all keys at once, so one key that changes
and one that does not are the cases; rules are converted one by one, and a list is empty, of defaults, of
others, or of both. *Lifecycle*: the program's own wiring is checked in full; the
chain, the fork and the circle are the shapes three services can have; a cached reading goes stale,
and is waited for, within four ticks of a TTL of two. *Window*: each kind of page occurs once.
*Panels* and *Pages*: two things can be exchanged, one can replace the other, and a selection can move
by one row. In `views`, names and devices are exchanged freely (`MCSymmetry`): no action and no property
tells one from the other, and nothing about liveness is checked there. The state spaces are exhausted; no run is limited in depth.

Deadlock is not checked where the system may stop: in the scheduler's run (the program exits), in
those of devices and views (the clock, the counters, the machine and the samples reach their bounds, and
what may then happen changes nothing) and in that of the lifecycle (the program is over).

### Properties that hold

* `OneRunPerDomain`: `in_flight` is true exactly while one scheduled run of the collector is waiting,
  running or reporting. Everything else in the scheduler leans on it.
* `ImplementsSampling`: the scheduler implements `Sampling`, with `outstanding` mapped to the number of
  places where a run is. What the user asks for is answered once; nothing is answered after close.
* `DeadlineWithinInterval`: changes of cadence take effect at once, whatever was queued.
* `EveryRunIsReported`, `HealthyKeepSampling` (liveness): a failing collector is scheduled again; a
  hung collector starves no other.
* `RowsKeepToTheirUnits`, `BookkeepingIsBounded`, `PresentIsShown` (liveness): a row never mixes two
  units that bore a name in turn, nothing is kept of what is gone, and what stays is listed. Their
  exceptions are exact: names that `inspect()` or a failed sample meddled with, and disks.
* `DangersAreReported`, `WorseIsNeverMilder`, `RulesAgreeWithChecks`: nothing unreadable, and no other
  thing, covers a danger up; worse readings get no milder verdict; alert rules and checks agree but
  for the two cases named.
* `FiringWasSustained`, `NoFlapping`, `CooldownHolds`: no spike fires, no rule flaps, no two notices
  of a firing come closer than the cooldown, through edits, gaps and missing values.
* `HistoryFollowsFiring`, `OnlyEditsSpoilTheBadge`: the states, the rows and the badge agree, and the
  exceptions are exactly the ones named.
* `WrittenOnceInOrder`, `NothingLostWithoutReason`, `SessionsEnd`, `PendingDrains` and
  `ExpiredRowsGo` (liveness): what happens to a sample, and that a session is let go of
  with its end written, or in a step that is a kill or a refusal of the disk.
* `FileIsWhole`, `SettingsReachDisk`, `ListenersFollow`: file, memory and listeners of the settings; a save
  that fails takes no other key away from the file.
* `RulesSurviveRestart`: a start brings back the rules of the last edit, whatever failed, was killed or was
  reset in between, unless it was that edit's own save.
* `BuiltOnce`, `OrderlyDisposal`, `CircularIsReal`: a service is built once, closed before what it
  holds, and refused as circular only if it is, whichever threads ask and whatever raises.
* `ReadingsAreFresh`, `OneView`: no collector is given a reading older than the TTL at its call; a
  feature is told one way only.
* `Consistent`, `EntryIsCurrent`, `BannerGetsItsTime`: one page paints and owns its collector; the page
  that is open shows the last snapshot, or one is under way, or the last attempt failed; a banner is up
  for its whole time.
* `ShowsWhatAFreshPageWould`, `WhatIsThereIsShown`: a page depends on the last snapshot only, and shows
  all of it.
* `NamedIsHit`, `SelectionIsTheUsers`: an action hits what the menu named; the process page goes over to
  another process only by a choice of the user, or where the filter took its row away.
* `EntriesAnswerTheFilter`, `TasksEnd` (liveness): answers of the log viewer are never mixed up, and
  nothing in the background leaves its page waiting.
* `ChartShowsItsData`: a single curve is never cut off by a decayed axis, and the summary describes what
  is drawn.

## Where code and documentation disagree

Three disagreements have a run of their own, because one property states the documented behaviour and a
behaviour of the model refutes it:

1. The default rule on failed units, once firing, never clears; neither does the one on the network
   (`alerts_unclearable`; alerts.py:259).
2. After a reset of the settings in a run that started without history, samples are kept for a flush
   that is not scheduled (`history_timer`; history.py:268).
3. A selection does not survive a refresh that takes its row out of the filter: under the preset "Active",
   when the selected process goes idle, Qt selects a neighbouring row and the page follows its process
   (`selection_survives`; table.py:253-254, against 9-10).

### Known divergences

The following were met while modelling. The models do what the code does; where a property would be
refuted, it names the exception.

In the scheduler, alerts, history and settings:

* A collector can be primed and collected by two threads at once (monitor.py:216), against "No
  overlapping runs" (monitor.py:28).
* An alert within the cooldown of the boot of the machine is never notified (notifications.py:78),
  against config.py:106: the time of a notice never sent is the zero of the monotonic clock.
* The size ceiling of the database need not be reached, however often retention repeats (history.py:188,
  against 186-187 and config.py:83): the estimate is 40 bytes per row, a row with its entries in two
  indexes was measured at 87.
* `--theme` and `--no-history` end up in the settings file with the next save (main.py:163, against 124).
* On a read-only file system a change of a setting raises and its listeners are not told (config.py:201,
  against 227).
* A session that is active when the process is killed keeps an open row, which no later start ends: the
  history page shows it as in progress for ever (pages/history.py:157-160). `SessionsEnd` excepts a kill.
* A start-up that fails before main.py:196 disposes of nothing. Capabilities are fixed at the start,
  which reads them all (main.py:166): a tool installed later is not seen.

In the collectors:

* The storage collector never calls `forget` (storage.py:169-172, against base.py:90-95): a disk that
  takes over a name has a first rate computed from its predecessor's counters. Its cached topology and
  health stay, too. `RowsKeepToTheirUnits` and `BookkeepingIsBounded` except disks for this reason.
* Mounts are keyed by the last part of their device's path (storage.py:341-389): of two devices with the
  same one, only the last is checked. An NVMe drive without a SMART temperature is given that of the
  first one (437-456).
* A batch of `systemctl show` that gives no output leaves its units unknown, and the check may say "No
  failed units" (services.py). A first failure to use JSON output is remembered for good
  (`_json_supported`).
* A machine with IPv6 addresses only is offline (network.py).
* `_resolve_chip` remembers that a chip was not there (hwmon.py:137-171), and the graphics collector its
  active back ends. A scan that hangs holds the lock which the scans of all other collectors need, so
  that one device can block several of the four threads, against monitor.py:22.
* An adapter that nvidia-smi does not identify in the first answer it gives is never listed, since that
  answer is kept (nvidia.py:115-143).
* GPU memory per process is pushed by pid (bootstrap.py:155-165), and a signal goes to whoever has the
  pid now (process.py:433-448).

In diagnostics and metrics:

* A domain whose sample raised has an empty snapshot, which some checks pass, against "skipped"
  (diagnostics.py:9-11); metrics of such a snapshot are zeros, against metrics.py:283-284.
* `run()` swallows a check that raises. Results of severity INFO are counted as notices and shown in
  no group (pages/diagnostics.py:138-157). An export pairs the last report with the current snapshots
  (253-266).

In the window and the pages:

* A tile whose reading becomes unavailable is dimmed and keeps its dimming in ways that depend on what
  was shown before (`StatTile.set_from`); sections of devices that are gone stay, and a section keeps
  the title of the device first seen under its name. `ShowsWhatAFreshPageWould` is about the other
  bodies.
* The services page resumes its collector and suspends it again when left; nothing in the
  dashboard re-enables it (pages/services.py:269-278, against 50-51).
* Latency probes need the opt-in when the button is enabled, not when it is pressed (network.py:267-285,
  against collectors/network.py:614-617).
* Of two curves in one chart, the axis may cut one off: every `update_series` may shrink it
  (chart.py:249). `ChartShowsItsData` is about single curves. Summary rows of deselected metrics stay,
  and clearing a chart keeps its ceiling. A change of `charts.history_seconds` empties the buffers.
* A filter of the log viewer that is changed while a query is under way is never asked for
  (logs.py:182), also when a unit is handed over (296-306). Every query is for the current boot
  (collectors/logs.py).
* The process table may highlight another process than the one the inspector follows, since it keeps the
  row (table.py:156-164). The unit panel keeps the values the unit had when it was selected
  (services.py:374-406).
* Notes typed within 900 ms before the program ends or the dashboard is rearranged are lost
  (dashboard.py:563-586).
* The search field of the toolbar is connected to nothing (navigation.py:252, 296).

## Fairness

* `Scheduler`: weak fairness of the clock, of `Start` (posted to the event loop), of `Tick` and
  `OnResult` (Qt delivers queued events), of `TakeTask` (the pool starts tasks while threads are
  free), of `WaitForDone` (it has a timeout), and of `FinishTask` for tasks outside `Hangs` only.
  Nothing is assumed of the user: pause, requests and settings need not happen. `HealthyKeepSampling`
  therefore has as premises that the ticker runs and the cadence is left alone from some point on (a
  setting that changes for ever pushes the deadline out for ever).
* `History`: weak fairness of `FlushTimeout` (a repeating QTimer) and of `RetentionDue` (time passes).
  No fairness of the disk: `ExpiredRowsGo` has a working disk as its premise, `PendingDrains` has not.
* `Devices`: weak fairness of `Collect`, the disjunction of the steps of a sample: the scheduler keeps
  dispatching (`HealthyKeepSampling`) and a sample that does not hang ends. None of the machine, the
  inspector or failures; `PresentIsShown` has as its premise that failures stop.
* `Tasks`: weak fairness of the answer to each query and of the end of a probe (journalctl and ping run
  with a time limit, and the tasks report whatever happens) and of the timer that saves notes.
* The other modules make no liveness claims.

## What is proved

Every safety property that a passing run checks, invariant or action property, is also a theorem. The
theorems hold for every value of the constants under the `ASSUME` of the module, which is as weak as
the code allows (finitely many collectors, rules and entries, integers, positive limits); TLC
evaluates the assumptions of a module in its run. The type invariant is proved with each component.

* **Scheduler.** `OneRunPerDomain` counts places in two sequences and a set, and is not inductive in
  that form. `RunInv` says it piecewise: a run is in at most one of queue, thread and result, the
  queue and the results hold no duplicate, a run is somewhere if and only if `in_flight` is set. Each
  action that touches these has a lemma; `RunInvCounts` draws the conclusion on cardinalities. `TimerInv`
  adds that nothing is paused before the start. `Implements` maps every action to one of `Sampling` or
  to a stutter, with `OneRunPerDomain` as the invariant that makes the mapping a function to {0, 1}.
  `TimerFollowsPause` and `SuspendedIsNotSampled` are proved only: the ticker runs exactly while the
  program does and is not paused, and no tick dispatches a suspended collector.
* **Devices.** `DevicesInv` is inductive. `KeptInv` extends `BookkeepingIsBounded` to the steps of a
  sample: what is kept belongs to a name that is tracked, that this sample has found, or that was
  meddled with. `OwnInv` says of every cache and every draft what `RowsKeepToTheirUnits` says of the rows
  that are delivered, and needs `SeenInv`: whoever bears a name has been seen, also since the sample
  listed it. `StagesInv` says which collector can be in which step. Each step of a sample, and each
  step of the machine and the inspector between them, has a lemma.
* **Alerts.** `SustainInv` relates `held`, the engine's measure of a breach, to `calm`, the history
  variable of the values really seen: the sustain timer of a rule that does not fire is never older
  than the last value that did not match. `RetreatInv` says that a rule that does not fire has left the
  margin since it last fired, if it ever did; `CooldownInv` relates the time since the last notice to
  the time since the last notice that the rule fires. `OnlyEnabledRulesFire` is proved only.
* **History.** `NothingLostWithoutReason` rests on a lemma on retention: what it removes is expired or
  has as many newer rows as the limit. `SessionsCorrect` goes through the actions: only `StopSession`,
  `Close`, `Crash` and `StartSession` touch a session.
  `NothingWaitsWhileOff` is proved only.
* **Settings** (`ConfigProofs`). `DiskInv` extends `SettingsReachDisk` to the time in which listeners are told;
  `ListenInv` extends `ListenersFollow` to the steps of a save, where the listeners may lag behind in
  the key being changed. `RulesInv` relates four things: the rules of the engine, the live list, the list on
  disk, and a save that is still to bring one to the other; the live list always tells of the rules unless it is
  empty after a reset, and so does the one on disk unless it is doubtful or at stake. That `Deserialised`
  undoes `Serialised` is a lemma of its own.
* **Sensor cache and capabilities** (`LifecycleProofs`). `ReadingsInv`: an entry is stamped no later
  than it is made, and a call has read the clock before now; so an entry that is fresh by its stamp is
  fresher still by the time of its making. `ViewInv`: two threads can only meet in a probe before the
  start log has read every feature, when there is one reader.
* **Container** (`LifecycleProofs`, too). `ContainerInv` has six parts:
  types; who is in a factory holds the lock (`LockInv`); `resolving` is the stack of keys, each called
  by the one below (`ChainInv`); the dictionary has one object per key, none of a key under way
  (`OnceInv`); what an object holds comes before it in the dictionary and after it in the order of
  disposal (`DisposalInv`); and `CircularIsReal` itself. `BuiltOnce` follows from `OnceInv`,
  `OrderlyDisposal` from `DisposalInv`.
* **Window.** `WindowInv` conjoins `Consistent`, that a closed window holds nothing (`Closed`), that no
  page shows a snapshot that never was (`NothingFromNowhere`), `EntryIsCurrent`, and that the only timer
  is the one of the banner shown (`OneTimer`).
* **Pages.** `EntriesInv`: all entries that table, panel and menu hold existed, so a menu's entry is no
  younger than the process it reaches. `QueryInv`: one query at most is under way, exactly while the
  page loads, for the filter shown or a change was dropped. `TablesInv`: types, with the selected row
  a row of the table, which needs a lemma on the order of rows (`RowOf` is onto 1..n).
* **Selection** (`PagesProofs`). `SelectionIsKept` is by cases on the actions. The work is in the refresh of the table:
  `TrackedIsChosen` shows that what the page is told is its own process again, nothing, or the row that Qt chose,
  and `ShownRow`, which the types need, that a row which the filter lets through is one of the table's.
* **Charts** (`PagesProofs`). `ChartShowsItsData` is inductive as it stands. The work is in the operators:
  the maximum of a series, the steps of the axis, and `_plot`, which draws the selected metrics one by
  one on an axis that every one of them may move. Facts about such folds cannot be had from the induction
  theorems of the library; they are derived from its theorem that a non-empty set of naturals has a least
  element (`LeastNatural`, `Counting`, `Iteration`), by looking at the first place where a claim fails.
* **Panels** (`PagesProofs`). `BodiesInv` says of the snapshot painted last what the two properties say of
  the one the page ought to show, and that a visible dashboard has painted the latest. One lemma per
  kind of body shows that painting over anything of that kind (`Body`) looks as painting afresh;
  `Held` and `LooksFresh` are where bars that are hidden and come back, and tables that are filled
  once, are dealt with.
* **Views** (`PagesProofs`). `ViewsKeepToTheirParts`: what is proved of `Panels` and of `Diagnostics` holds of their composition.
* **Diagnostics** (`PagesProofs`). `VerdictsInv` says that the store holds what the collectors make of
  the readings in `sampled`, that the report is what the checks find in those of `basis`, and that the
  page shows the report. What remains is about pure operators, for readings of any size. *Dangers*: one
  lemma per domain shows that the check tells the danger, whatever else was read; for the graphics
  adapters that needs how the rows of three vendors are kept, and in which order (`KeptFacts`).
  *Rules*: one lemma per rule shows that a breach makes a check tell a warning, the fullest filesystem,
  the primary adapter and shares of a battery that are rounded included. *Worse readings*: `Milder` compares
  what two sets of results tell. `BandsAreOrdered` is the part on thresholds; `HeatHasASource` says from
  which sensor the temperature of the processor is taken, so that `HeatRises` can show that a hotter
  processor is not judged by a cooler sensor.

Only model-checked: the liveness properties `EveryRunIsReported`, `HealthyKeepSampling`, `PresentIsShown`,
`PendingDrains`, `ExpiredRowsGo` and `TasksEnd` (fairness and ENABLED are out of the prover's reach), and
the three
violations.

## What is not modelled, and the plan

Left of the plan, in its order:

1. **Composition.** `Config` with the services that listen to it, so that a reset, an override and a
   failed save are seen by `Scheduler`, `History` and `Charts` as one system; `History` with the ring
   buffers of `Charts`, which now stores rows at once.
2. **Proofs.** That the scheduler implements `Sampling` is proved for steps; an abstract specification
   of the settings (a value per key, and what survives a crash) that `Config` implements would say its
   three properties in one.
3. **Sensors.** `_resolve_chip`, the fast path to single chips, next to `Hwmon`.
4. **Pages.** The editors of the settings page, which are plain calls of `set`; the tray icon and the
   window's geometry.
5. **Scheduler.** The effect of a scan that hangs with the sensor lock held on the pool of threads.

Not modelled, for good: reading and parsing of /proc, /sys and the output of tools (pure input); the
system collector and the graphics stack (lists of facts without state); exports, most metric
definitions, palette ranking, themes, units, paths and helpers (pure output and input); the schema
migration (there is none yet); developer scripts.
