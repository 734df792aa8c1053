------------------------------- MODULE Hwmon -------------------------------
(***************************************************************************)
(* app/utils/hwmon.py: the provider of sensor readings that all collectors *)
(* share.  A scan is kept for a time; the clock is read before the lock is *)
(* taken, and the scan is made with the lock held.                         *)
(***************************************************************************)
EXTENDS Integers

CONSTANTS
  Workers,     \* threads in which collectors run
  Scans,       \* keys of the cache: temps, fans, battery
  TTL,         \* DEFAULT_TTL
  NoWorker,    \* holds the lock when no worker does
  MaxTime      \* bound on the clock

ASSUME HwmonAssumption ==
  /\ TTL \in Nat \ {0} /\ MaxTime \in Nat
  /\ "none" \notin Scans
  /\ NoWorker \notin Workers

VARIABLES
  now,         \* time.monotonic()
  cache,       \* _cache: for a key the time it is stamped with, when it was made, and
               \* whether the scan succeeded
  call,        \* the call of _cached() each worker is in: the key and its `now`
  scanning,    \* the worker that holds _lock in a scan
  given        \* the last call that returned, and what it was given

hwmonVars == <<now, cache, call, scanning, given>>

Never == [stamp |-> -1, made |-> -1, ok |-> FALSE]
Idle == [key |-> "none", asked |-> -1]

HwmonInit ==
  /\ now = 0
  /\ cache = [k \in Scans |-> Never]
  /\ call = [w \in Workers |-> Idle]
  /\ scanning = NoWorker
  /\ given = [asked |-> -1, made |-> -1, ok |-> FALSE]

Tick ==
  /\ now < MaxTime
  /\ now' = now + 1
  /\ UNCHANGED <<cache, call, scanning, given>>

\* temperatures(), fans() or battery() begins.
Ask(w, k) ==
  /\ call[w] = Idle
  /\ call' = [call EXCEPT ![w] = [key |-> k, asked |-> now]]
  /\ UNCHANGED <<now, cache, scanning, given>>

MutantFresh(entry, asked) == entry # Never
Fresh(entry, asked) == entry # Never /\ asked - entry.stamp < TTL

Return(w, entry) ==
  /\ given' = [asked |-> call[w].asked, made |-> entry.made, ok |-> entry.ok]
  /\ call' = [call EXCEPT ![w] = Idle]

Hit(w) ==
  /\ call[w] # Idle /\ scanning = NoWorker
  /\ Fresh(cache[call[w].key], call[w].asked)
  /\ Return(w, cache[call[w].key])
  /\ UNCHANGED <<now, cache, scanning>>

StartScan(w) ==
  /\ call[w] # Idle /\ scanning = NoWorker
  /\ ~Fresh(cache[call[w].key], call[w].asked)
  /\ scanning' = w
  /\ UNCHANGED <<now, cache, call, given>>

\* The scan ends; what it raises is replaced by an empty reading.
EndScan(w, ok) ==
  LET entry == [stamp |-> call[w].asked, made |-> now, ok |-> ok]
  IN  /\ scanning = w
      /\ cache' = [cache EXCEPT ![call[w].key] = entry]
      /\ Return(w, entry)
      /\ scanning' = NoWorker
      /\ UNCHANGED <<now>>

\* Another exception leaves the collector's sample; the lock is released.
Escape(w) ==
  /\ scanning = w
  /\ call' = [call EXCEPT ![w] = Idle]
  /\ scanning' = NoWorker
  /\ UNCHANGED <<now, cache, given>>

-----------------------------------------------------------------------------
(* Properties *)

\* "Return a cached value, refreshing it when older than the TTL" (hwmon.py:54): no
\* worker is given a reading made longer than that before its call, however long
\* it waited for the lock and however long the scan took.
ReadingsAreFresh == given.asked # -1 => given.asked - given.made < TTL
=============================================================================
