-------------------------------- MODULE History --------------------------------
(***************************************************************************)
(* HistoryService (app/services/history.py) writes samples behind: they    *)
(* wait in _pending and a timer flushes them to SQLite in one transaction. *)
(* The flush also runs retention, which deletes rows by age and by size.   *)
(* MetricRepository and SessionRepository (app/database) catch and drop    *)
(* every failure of the database.                                          *)
(*                                                                         *)
(* All handlers run on the GUI thread.  What makes the order of steps hard *)
(* is the setting history.enabled, which changes under the timer, a disk   *)
(* that stops accepting writes, and a process that ends without closing.   *)
(*                                                                         *)
(* Samples are numbered in the order of their recording, which is the      *)
(* order of their row ids and of their time stamps, so the rows beyond the *)
(* retention age are those up to some number, cutoff.  Sizes are counted   *)
(* in rows of the 40 bytes that _apply_retention estimates.                *)
(***************************************************************************)
EXTENDS Naturals, FiniteSets

CONSTANTS
  MaxSamples,   \* bound: samples recorded in a behaviour
  MaxSessions,  \* bound: sessions begun in a behaviour
  Limits,       \* history.max_megabytes, as a number of estimated rows
  RowCost,      \* what a row really takes, in estimated rows
  VacuumAbove   \* a vacuum follows the deletion of more rows than this

ASSUME HistoryAssumption ==
  /\ MaxSamples \in Nat
  /\ MaxSessions \in Nat
  /\ Limits \subseteq Nat \ {0}
  /\ RowCost \in Nat \ {0}
  /\ VacuumAbove \in Nat

VARIABLES
  running,    \* between start() and close(), or the end of the process
  enabled,    \* settings.history.enabled
  degraded,   \* Database.degraded, decided when the process opens it
  limit,      \* settings.history.max_megabytes
  timer,      \* _flush_timer is active
  pending,    \* _pending: samples that wait for a flush
  due,        \* _RETENTION_INTERVAL has passed since _last_retention
  session,    \* _active_session: the row of the session, 0 for None
  count,      \* samples recorded so far
  rows,       \* the table metrics
  pages,      \* the size of the database file, in rows it has room for
  cutoff,     \* samples up to this one are older than retention_days
  writable,   \* the disk accepts writes
  sessions,   \* the number of rows in the table sessions
  open        \* those of them without an end

settings == <<enabled, limit>>
table == <<rows, pages>>
vars == <<running, enabled, degraded, limit, timer, pending, due, session,
          count, rows, pages, cutoff, writable, sessions, open>>

Samples == 1 .. count

TypeOK ==
  /\ running \in BOOLEAN
  /\ enabled \in BOOLEAN
  /\ degraded \in BOOLEAN
  /\ limit \in Limits
  /\ timer \in BOOLEAN
  /\ pending \subseteq Samples
  /\ due \in BOOLEAN
  /\ session \in 0 .. sessions
  /\ count \in 0 .. MaxSamples
  /\ rows \subseteq Samples
  /\ pages \in Cardinality(rows) .. MaxSamples
  /\ cutoff \in 0 .. count
  /\ writable \in BOOLEAN
  /\ sessions \in 0 .. MaxSessions
  /\ open \subseteq 1 .. sessions
  /\ running \/ (~timer /\ session = 0 /\ pending = {})

\* No process has run yet; the database is new.
Init ==
  /\ running = FALSE
  /\ enabled = FALSE
  /\ degraded = FALSE
  /\ limit \in Limits
  /\ timer = FALSE
  /\ pending = {}
  /\ due = FALSE
  /\ session = 0
  /\ count = 0
  /\ rows = {}
  /\ pages = 0
  /\ cutoff = 0
  /\ writable = TRUE
  /\ sessions = 0
  /\ open = {}

-----------------------------------------------------------------------------
(* The database *)

Larger(m, n) == IF m < n THEN n ELSE m

\* record_batch: all of the batch or, on failure, nothing.  The caller has
\* emptied _pending before.
Written == IF writable /\ ~degraded THEN rows \cup pending ELSE rows

MutantNewest(S, n) == {s \in S : Cardinality({t \in S : t < s}) < n}

\* trim_to_newest
Newest(S, n) == {s \in S : Cardinality({t \in S : t > s}) < n}

Unexpired(S) == {s \in S : s > cutoff}

\* What _apply_retention makes of the table S in a file of the size size.  The
\* file keeps its size when rows are deleted.
Retained(S, size) ==
  IF ~writable THEN S
  ELSE IF RowCost * size > limit THEN Newest(Unexpired(S), limit)
  ELSE Unexpired(S)

PagesAfter(S, size) ==
  LET kept == Cardinality(Retained(S, size))
  IN IF Cardinality(S) - kept > VacuumAbove THEN kept ELSE size

\* _apply_retention, which looks at the settings as they are now.
ApplyRetention(on, S, size) ==
  /\ due' = FALSE
  /\ IF on /\ ~degraded
       THEN rows' = Retained(S, size) /\ pages' = PagesAfter(S, size)
       ELSE rows' = S /\ pages' = size

MutantFlushTwice(on) ==
  LET size == Larger(pages, Cardinality(Written))
  IN /\ pending' = pending
     /\ IF due THEN ApplyRetention(on, Written, size)
               ELSE rows' = Written /\ pages' = size /\ due' = due

MutantFlushRetry(on) ==
  LET size == Larger(pages, Cardinality(Written))
  IN /\ pending' = IF writable THEN {} ELSE pending
     /\ IF due THEN ApplyRetention(on, Written, size)
               ELSE rows' = Written /\ pages' = size /\ due' = due

MutantFlushOnly(on) ==
  LET size == Larger(pages, Cardinality(Written))
  IN /\ pending' = {}
     /\ rows' = Written
     /\ pages' = size
     /\ due' = FALSE

\* _flush, while history.enabled is on.
Flush(on) ==
  LET size == Larger(pages, Cardinality(Written))
  IN /\ pending' = {}
     /\ IF due THEN ApplyRetention(on, Written, size)
               ELSE rows' = Written /\ pages' = size /\ due' = due

-----------------------------------------------------------------------------
(* The service *)

Persisting == enabled /\ ~degraded

\* The next process: main() may override history.enabled before start(), and
\* the database may turn out to be unusable.
Start(on, broken) ==
  /\ ~running
  /\ running' = TRUE
  /\ enabled' = on
  /\ degraded' = broken
  /\ timer' = (on /\ ~broken)
  /\ due' = FALSE
  /\ IF on /\ ~broken
       THEN rows' = Retained(rows, pages) /\ pages' = PagesAfter(rows, pages)
       ELSE UNCHANGED table
  /\ UNCHANGED <<limit, pending, session, count, cutoff, writable, sessions, open>>

\* record(); without persistence only the ring buffers change.
Record ==
  /\ running
  /\ count < MaxSamples
  /\ count' = count + 1
  /\ pending' = IF Persisting THEN pending \cup {count'} ELSE pending
  /\ UNCHANGED <<running, settings, degraded, timer, due, session, table,
                 cutoff, writable, sessions, open>>

FlushTimeout ==
  /\ timer
  /\ Flush(enabled)
  /\ UNCHANGED <<running, settings, degraded, timer, session, count, cutoff,
                 writable, sessions, open>>

\* ConfigService.set calls _on_setting_changed after the setting has changed.
Enable ==
  /\ running
  /\ ~enabled
  /\ enabled' = TRUE
  /\ timer' = TRUE
  /\ UNCHANGED <<running, degraded, limit, pending, due, session, count, table,
                 cutoff, writable, sessions, open>>

Disable ==
  /\ running
  /\ enabled
  /\ enabled' = FALSE
  /\ Flush(FALSE)
  /\ timer' = FALSE
  /\ UNCHANGED <<running, degraded, limit, session, count, cutoff, writable,
                 sessions, open>>

\* ConfigService.reset restores the defaults and notifies the key "*", which
\* _on_setting_changed does not know.
ResetSettings ==
  /\ running
  /\ enabled' = TRUE
  /\ limit' \in Limits
  /\ UNCHANGED <<running, degraded, timer, pending, due, session, count, table,
                 cutoff, writable, sessions, open>>

\* history.max_megabytes and history.retention_days are read when needed.
SetLimits(n, c) ==
  /\ limit' = n
  /\ cutoff' = c
  /\ UNCHANGED <<running, enabled, degraded, timer, pending, due, session,
                 count, table, writable, sessions, open>>

\* Without a row for it there is no session.
StartSession ==
  /\ running
  /\ session = 0
  /\ Persisting
  /\ IF writable
       THEN /\ sessions < MaxSessions
            /\ sessions' = sessions + 1
            /\ session' = sessions'
            /\ open' = open \cup {session'}
       ELSE UNCHANGED <<sessions, session, open>>
  /\ UNCHANGED <<running, settings, degraded, timer, pending, due, count, table,
                 cutoff, writable>>

\* SessionRepository.finish; when it fails the row is never touched again.
Finish == open' = IF writable THEN open \ {session} ELSE open

MutantStopSession ==
  /\ running
  /\ session # 0
  /\ IF Persisting THEN Finish ELSE UNCHANGED open
  /\ session' = 0
  /\ UNCHANGED <<running, settings, degraded, timer, pending, due, count, table,
                 cutoff, writable, sessions>>

\* Also when persistence was switched off meanwhile.
StopSession ==
  /\ running
  /\ session # 0
  /\ Finish
  /\ session' = 0
  /\ UNCHANGED <<running, settings, degraded, timer, pending, due, count, table,
                 cutoff, writable, sessions>>

Close ==
  /\ running
  /\ running' = FALSE
  /\ timer' = FALSE
  /\ Flush(enabled)
  /\ Finish
  /\ session' = 0
  /\ UNCHANGED <<settings, degraded, count, cutoff, writable, sessions>>

\* The process is killed: what is in memory is gone.
Crash ==
  /\ running
  /\ running' = FALSE
  /\ timer' = FALSE
  /\ pending' = {}
  /\ session' = 0
  /\ UNCHANGED <<settings, degraded, due, count, table, cutoff, writable, sessions,
                 open>>

-----------------------------------------------------------------------------
(* The environment *)

\* Samples grow older.
Age ==
  /\ cutoff' \in cutoff .. count
  /\ UNCHANGED <<running, settings, degraded, timer, pending, due, session,
                 count, table, writable, sessions, open>>

\* Ten minutes have passed since the last retention.
RetentionDue ==
  /\ running
  /\ due' = TRUE
  /\ UNCHANGED <<running, settings, degraded, timer, pending, session, count,
                 table, cutoff, writable, sessions, open>>

DiskFills ==
  /\ writable' = ~writable
  /\ UNCHANGED <<running, settings, degraded, timer, pending, due, session,
                 count, table, cutoff, sessions, open>>

-----------------------------------------------------------------------------

Next ==
  \/ \E on, broken \in BOOLEAN : Start(on, broken)
  \/ Record
  \/ FlushTimeout
  \/ Enable
  \/ Disable
  \/ ResetSettings
  \/ \E n \in Limits, c \in 0 .. count : SetLimits(n, c)
  \/ StartSession
  \/ StopSession
  \/ Close
  \/ Crash
  \/ Age
  \/ RetentionDue
  \/ DiskFills

Spec == Init /\ [][Next]_vars

\* The event loop serves the timer, and time passes.
Fairness == WF_vars(FlushTimeout) /\ WF_vars(RetentionDue)

FairSpec == Spec /\ Fairness

-----------------------------------------------------------------------------
(* Properties *)

\* A sample is in memory or in the table, never in both, and the table grows
\* at its new end only: no flush writes a batch twice or out of order.
WrittenOnceInOrder == \A p \in pending, r \in rows : r < p

\* With persistence switched off nothing waits for a flush that never comes:
\* the switch writes what was recorded before.
NothingWaitsWhileOff == ~enabled \/ degraded => pending = {}

\* What the service holds, in memory and on disk.
Held == pending \cup rows

\* A sample disappears only for a reason: it waited and the disk refused the
\* batch or the process was killed, it was too old, or as many newer samples
\* are there as the limit allows.
NothingLostWithoutReason ==
  [][\A s \in Held \ Held' :
       \/ s \in pending /\ (~writable \/ Crash)
       \/ s <= cutoff
       \/ Cardinality({t \in Held : t > s}) >= limit]_vars

\* A recording session gets its end from the process that began it, also when
\* persistence was switched off meanwhile: the service lets go of a session with
\* an end, unless it is killed or the disk refuses the update in that very step,
\* and never gives an end to a session that an earlier process left open
\* (history.py:110-111, 200-213).
SessionsEnd ==
  [][/\ session # 0 /\ session' # session => session \notin open' \/ Crash \/ ~writable
     /\ open \ open' \subseteq {session}]_vars

\* While the timer runs, every waiting sample leaves memory, also when the disk
\* is full, the setting changes or the process ends first.
PendingDrains == \A s \in 1 .. MaxSamples : timer /\ s \in pending ~> s \notin pending

\* Old rows go away, as long as the service persists and its timer runs.
ExpiredRowsGo ==
  <>[](timer /\ Persisting /\ writable) =>
    \A s \in 1 .. MaxSamples :
      s \in rows /\ s <= cutoff ~> s \notin rows \/ s > cutoff

\* "samples are accumulated and flushed in one batch on a timer"
\* (history.py:9-11): while samples wait, the timer runs.
FlushIsTimed == running /\ pending # {} => timer
=============================================================================
