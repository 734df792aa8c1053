------------------------------- MODULE Devices -------------------------------
(***************************************************************************)
(* The collectors that remember something of each thing they list, by its  *)
(* name: network interfaces, disks and processes.  They keep a previous    *)
(* value per counter (RateTracker, app/collectors/base.py), what they take *)
(* to be static (address and driver, model and serial, executable and      *)
(* command line), and the health of a disk.  Names are given again: to     *)
(* another adapter, another disk, another process.  The collector learns   *)
(* of it only if a sample finds the name vacant.                           *)
(*                                                                         *)
(* A sample runs on a thread of the pool; units come and go between its    *)
(* steps.  The inspector of the process page runs inspect() on the GUI     *)
(* thread, on the same caches.                                             *)
(***************************************************************************)
EXTENDS Naturals, Functions

CONSTANTS
  Kinds,           \* the collectors considered
  Names,           \* names of interfaces or disks, or process identifiers
  Units,           \* the things that bear a name for a time
  NoUnit,          \* nothing: a vacant name, an attribute that is not known
  Nested,          \* Nested[n]: names whose counter keys begin like those of n
  HealthInterval,  \* age at which the health of a disk is read again
  MaxCount,        \* bound on the counters
  MaxTime          \* bound on the clock

ASSUME DevicesAssumption ==
  /\ Kinds \subseteq {"network", "storage", "processes"}
  /\ NoUnit \notin Units
  /\ Nested \in [Names -> SUBSET Names]
  /\ HealthInterval \in Nat
  /\ MaxCount \in Nat
  /\ MaxTime \in Nat

VARIABLES
  kind,        \* the collector of this behaviour
  present,     \* present[n]: the unit that bears n, or NoUnit
  count,       \* count[u]: the counter of u since it was plugged in or started
  now,         \* the monotonic clock
  rates,       \* RateTracker._state: per name the last value and its time
  static,      \* _static_cache, _topology_cache, _cmdline_cache and _exe_cache
  tracked,     \* _known_interfaces, or _tracked: per process its psutil object
  health,      \* _health_cache and _health_read_at
  pc,          \* where the sample is
  moment,      \* the "now" of the sample
  todo,        \* process identifiers listed and not visited
  current,     \* process identifiers visited, with their psutil objects
  drafts,      \* what the sample has made of the names so far
  rows,        \* the last snapshot
  trouble,     \* how the last sample went
  inspecting   \* what inspect() has read and not stored, on the GUI thread

\* History variables.
VARIABLES
  seen,     \* seen[n]: units that bore n since a sample found it vacant
  fresh,    \* fresh[n]: units that bore n since the sample listed the names
  meddled   \* names whose bookkeeping inspect() or a failed sample left behind

environment == <<kind, present, count, now>>
caches == <<rates, static, tracked, health>>
sample == <<pc, moment, todo, current, drafts>>
ghosts == <<seen, fresh, meddled>>
vars == <<environment, caches, sample, rows, trouble, inspecting, ghosts>>

Empty == [n \in {} |-> NoUnit]
Present == {n \in Names : present[n] # NoUnit}

\* f with the entries g(n), n in S, written over it, and f without those in S.
Put(f, S, g(_)) == [n \in DOMAIN f \cup S |-> IF n \in S THEN g(n) ELSE f[n]]
Drop(f, S) == Restrict(f, DOMAIN f \ S)

Known == Units \cup {NoUnit}
Baselines == [unit : Units, value : 0..MaxCount, at : 0..MaxTime]
Checkups == [unit : Known, at : 0..MaxTime]
Rows == [unit : Known, from : Known, static : Known, health : Known]
Reads == [name : Names, cached : BOOLEAN, unit : Units, value : 0..MaxCount, at : 0..MaxTime]

Partial(S) == UNION {[D -> S] : D \in SUBSET Names}

TypeOK ==
  /\ kind \in Kinds
  /\ present \in [Names -> Known]
  /\ count \in [Units -> 0..MaxCount]
  /\ now \in 0..MaxTime
  /\ rates \in Partial(Baselines)
  /\ static \in Partial(Known)
  /\ tracked \in Partial(Units)
  /\ health \in Partial(Checkups)
  /\ pc \in {"idle", "prune", "describe", "visit"}
  /\ moment \in 0..MaxTime
  /\ todo \subseteq Names
  /\ current \in Partial(Units)
  /\ drafts \in Partial(Rows)
  /\ rows \in Partial(Rows)
  /\ trouble \in {"none", "unread", "failed"}
  /\ inspecting \in Reads \cup {NoUnit}
  /\ seen \in [Names -> SUBSET Units]
  /\ fresh \in [Names -> SUBSET Units]
  /\ meddled \subseteq Names

Init ==
  /\ kind \in Kinds
  /\ present = [n \in Names |-> NoUnit]
  /\ count = [u \in Units |-> 0]
  /\ now = 0
  /\ rates = Empty
  /\ static = Empty
  /\ tracked = Empty
  /\ health = Empty
  /\ pc = "idle"
  /\ moment = 0
  /\ todo = {}
  /\ current = Empty
  /\ drafts = Empty
  /\ rows = Empty
  /\ trouble = "none"
  /\ inspecting = NoUnit
  /\ seen = [n \in Names |-> {}]
  /\ fresh = [n \in Names |-> {}]
  /\ meddled = {}

-----------------------------------------------------------------------------
(* The machine *)

\* A unit takes a vacant name: a device is plugged in, a process is started.
Plug(n, u) ==
  /\ present[n] = NoUnit
  /\ \A m \in Names : present[m] # u
  /\ present' = [present EXCEPT ![n] = u]
  /\ seen' = [seen EXCEPT ![n] = @ \cup {u}]
  /\ fresh' = IF pc = "idle" THEN fresh ELSE [fresh EXCEPT ![n] = @ \cup {u}]
  /\ UNCHANGED <<kind, count, now, caches, sample, rows, trouble, inspecting, meddled>>

Unplug(n) ==
  /\ n \in Present
  /\ present' = [present EXCEPT ![n] = NoUnit]
  /\ count' = [count EXCEPT ![present[n]] = 0]
  /\ UNCHANGED <<kind, now, caches, sample, rows, trouble, inspecting, ghosts>>

Count(n) ==
  /\ n \in Present
  /\ count[present[n]] < MaxCount
  /\ count' = [count EXCEPT ![present[n]] = @ + 1]
  /\ UNCHANGED <<kind, present, now, caches, sample, rows, trouble, inspecting, ghosts>>

Elapse ==
  /\ now < MaxTime
  /\ now' = now + 1
  /\ UNCHANGED <<kind, present, count, caches, sample, rows, trouble, inspecting, ghosts>>

-----------------------------------------------------------------------------
(* RateTracker *)

\* Each reading becomes the base of the next.
Baseline(n, at) == [unit |-> present[n], value |-> count[present[n]], at |-> at]

\* What rate() divides by the time gone by: nothing on a first reading, when no
\* time went by, or when the counter went down.
Increase(n, at) ==
  IF n \in DOMAIN rates /\ at > rates[n].at /\ count[present[n]] >= rates[n].value
    THEN count[present[n]] - rates[n].value
    ELSE 0

\* The unit whose counter the figure is measured from, if there is a figure.
From(n, at) == IF Increase(n, at) > 0 THEN rates[n].unit ELSE NoUnit

\* forget("net.<n>."): by prefix, so that eth0 takes eth0.100 along.
MutantForget(S) == rates
Forget(S) == Drop(rates, S \cup UNION {Nested[n] : n \in S})

-----------------------------------------------------------------------------
(* The end of a sample: what it worked with is gone. *)

Publish(snapshot) ==
  /\ rows' = snapshot
  /\ pc' = "idle"
  /\ moment' = 0
  /\ todo' = {}
  /\ current' = Empty
  /\ drafts' = Empty
  /\ fresh' = [n \in Names |-> {}]

\* Names with an entry that no later sample will drop.
Orphans == (DOMAIN rates' \cup DOMAIN static') \ DOMAIN tracked'

\* collect() catches what a sample raises, and returns an empty snapshot.
GiveUp ==
  /\ Publish(Empty)
  /\ trouble' = "failed"
  /\ meddled' = meddled \cup Orphans

-----------------------------------------------------------------------------
(* Interfaces and disks *)

\* The counters of all names are read in one go, which may fail; a disk that is
\* not in /proc/diskstats has figures of its own making.
ReadCounters(readable) ==
  /\ pc = "idle"
  /\ kind \in {"network", "storage"}
  /\ LET S == IF readable THEN Present ELSE {}
         Reading(n) == [unit |-> present[n], from |-> From(n, now), static |-> NoUnit,
                        health |-> NoUnit]
         Base(n) == Baseline(n, now)
     IN  /\ drafts' = [n \in S |-> Reading(n)]
         /\ rates' = Put(rates, S, Base)
  /\ moment' = now
  /\ pc' = IF kind = "network" THEN "prune" ELSE "describe"
  /\ trouble' = IF readable THEN "none" ELSE "unread"
  /\ fresh' = [n \in Names |-> {present[n]} \ {NoUnit}]
  /\ UNCHANGED <<environment, static, tracked, health, todo, current, rows, inspecting, seen,
                 meddled>>

\* _prune_departed
Departed == DOMAIN tracked \ DOMAIN drafts

MutantPruneDeparted ==
  /\ pc = "prune"
  /\ rates' = Forget(Departed)
  /\ tracked' = [n \in DOMAIN drafts |-> drafts[n].unit]
  /\ pc' = "describe"
  /\ seen' = [n \in Names |-> IF n \in DOMAIN drafts THEN seen[n] ELSE fresh[n]]
  /\ meddled' = meddled \ Departed
  /\ UNCHANGED <<environment, static, health, moment, todo, current, drafts, rows, trouble,
                 inspecting, fresh>>

PruneDeparted ==
  /\ pc = "prune"
  /\ rates' = Forget(Departed)
  /\ static' = Drop(static, Departed)
  /\ tracked' = [n \in DOMAIN drafts |-> drafts[n].unit]
  /\ pc' = "describe"
  /\ seen' = [n \in Names |-> IF n \in DOMAIN drafts THEN seen[n] ELSE fresh[n]]
  /\ meddled' = meddled \ Departed
  /\ UNCHANGED <<environment, health, moment, todo, current, drafts, rows, trouble,
                 inspecting, fresh>>

\* An attribute is read from the name when it is not cached; that the unit has
\* gone meanwhile is cached, too.
DescribeInterfaces ==
  /\ pc = "describe"
  /\ kind = "network"
  /\ LET Bearer(n) == present[n]
     IN  static' = Put(static, DOMAIN drafts \ DOMAIN static, Bearer)
  /\ Publish([n \in DOMAIN drafts |-> [drafts[n] EXCEPT !.static = static'[n]]])
  /\ UNCHANGED <<environment, rates, tracked, health, trouble, inspecting, seen, meddled>>

\* The block devices are listed anew.  What is cached of a disk is not dropped
\* when the disk is gone, nor are its counters forgotten.
DescribeDisks ==
  /\ pc = "describe"
  /\ kind = "storage"
  /\ LET Bearer(n) == present[n]
         Checkup(n) == [unit |-> present[n], at |-> moment]
         due == {n \in Present : n \in DOMAIN health => moment - health[n].at >= HealthInterval}
         blank == [unit |-> NoUnit, from |-> NoUnit, static |-> NoUnit, health |-> NoUnit]
     IN  /\ static' = Put(static, Present \ DOMAIN static, Bearer)
         /\ health' = Put(health, due, Checkup)
         /\ Publish([n \in Present |->
                       [(IF n \in DOMAIN drafts THEN drafts[n] ELSE blank)
                          EXCEPT !.static = static'[n], !.health = health'[n].unit]])
  /\ seen' = [n \in Names |-> IF n \in Present \cup DOMAIN drafts THEN seen[n] ELSE fresh[n]]
  /\ UNCHANGED <<environment, rates, tracked, trouble, inspecting, meddled>>

-----------------------------------------------------------------------------
(* Processes *)

ListPids ==
  /\ pc = "idle"
  /\ kind = "processes"
  /\ moment' = now
  /\ todo' = Present
  /\ current' = Empty
  /\ drafts' = Empty
  /\ pc' = "visit"
  /\ trouble' = "none"
  /\ fresh' = [n \in Names |-> {present[n]} \ {NoUnit}]
  /\ UNCHANGED <<environment, caches, rows, inspecting, seen, meddled>>

\* The psutil object of the last sample is used again, whoever bears the
\* identifier now.
Handle(n) == IF n \in DOMAIN tracked THEN tracked[n] ELSE present[n]

\* The process exited before it was visited, or psutil refuses an object whose
\* identifier was given again.  The object stays if there was one.
PassOver(n) ==
  /\ pc = "visit"
  /\ n \in todo
  /\ Handle(n) # present[n] \/ present[n] = NoUnit
  /\ todo' = todo \ {n}
  /\ current' = IF Handle(n) = NoUnit THEN current
                ELSE Put(current, {n}, Handle)
  /\ UNCHANGED <<environment, caches, pc, moment, drafts, rows, trouble, inspecting, ghosts>>

\* _read_process.  Without permission the attributes are not known and not
\* cached, and the counters are not read.
VisitProcess(n, permitted) ==
  /\ pc = "visit"
  /\ n \in todo
  /\ n \in Present
  /\ todo' = todo \ {n}
  /\ current' = Put(current, {n}, Handle)
  /\ LET Bearer(m) == present[m]
         Base(m) == Baseline(m, moment)
         Reading(m) == [unit |-> present[m],
                        from |-> IF permitted THEN From(m, moment) ELSE NoUnit,
                        static |-> IF n \in DOMAIN static' THEN static'[n] ELSE NoUnit,
                        health |-> NoUnit]
     IN  /\ static' = IF permitted THEN Put(static, {n} \ DOMAIN static, Bearer) ELSE static
         /\ rates' = IF permitted THEN Put(rates, {n}, Base) ELSE rates
         /\ drafts' = Put(drafts, {n}, Reading)
  /\ UNCHANGED <<environment, tracked, health, pc, moment, rows, trouble, inspecting, ghosts>>

Exited == DOMAIN tracked \ DOMAIN current

MutantSwapTracked ==
  /\ pc = "visit"
  /\ todo = {}
  /\ rates' = Forget(Exited)
  /\ static' = Drop(static, Exited)
  /\ tracked' = [n \in DOMAIN tracked \cup DOMAIN current |-> Handle(n)]
  /\ Publish(drafts)
  /\ seen' = [n \in Names |-> IF n \in DOMAIN current THEN seen[n] ELSE fresh[n]]
  /\ meddled' = meddled \ Exited
  /\ UNCHANGED <<environment, health, trouble, inspecting>>

SwapTracked ==
  /\ pc = "visit"
  /\ todo = {}
  /\ rates' = Forget(Exited)
  /\ static' = Drop(static, Exited)
  /\ tracked' = current
  /\ Publish(drafts)
  /\ seen' = [n \in Names |-> IF n \in DOMAIN current THEN seen[n] ELSE fresh[n]]
  /\ meddled' = meddled \ Exited
  /\ UNCHANGED <<environment, health, trouble, inspecting>>

-----------------------------------------------------------------------------
(* Failure *)

\* forget() looks through a dictionary to which inspect() is just adding: some
\* of the processes that exited are dropped, then the sample raises.
SwapRaises(done) ==
  /\ pc = "visit"
  /\ todo = {}
  /\ inspecting # NoUnit
  /\ done \subseteq Exited
  /\ rates' = Forget(done)
  /\ static' = Drop(static, done)
  /\ UNCHANGED tracked
  /\ GiveUp
  /\ UNCHANGED <<environment, health, inspecting, seen>>

\* Anything else that raises.
Fail ==
  /\ pc # "idle"
  /\ UNCHANGED caches
  /\ GiveUp
  /\ UNCHANGED <<environment, inspecting, seen>>

-----------------------------------------------------------------------------
(* The inspector *)

\* inspect() reads a process that the page has listed, the attributes only if
\* they are not cached; without permission it stores nothing ...
InspectRead(n) ==
  /\ kind = "processes"
  /\ inspecting = NoUnit
  /\ n \in DOMAIN rows \cap Present
  /\ inspecting' = [name |-> n, cached |-> n \in DOMAIN static, unit |-> present[n],
                    value |-> count[present[n]], at |-> now]
  /\ UNCHANGED <<environment, caches, sample, rows, trouble, ghosts>>

\* ... and stores what it read, whatever the sample has dropped in between.
InspectStore ==
  /\ inspecting # NoUnit
  /\ LET n == inspecting.name
         Read(m) == inspecting.unit
         Base(m) == [unit |-> inspecting.unit, value |-> inspecting.value,
                     at |-> inspecting.at]
     IN  /\ static' = IF inspecting.cached THEN static ELSE Put(static, {n}, Read)
         /\ rates' = Put(rates, {n}, Base)
         /\ meddled' = IF n \in DOMAIN tracked /\ inspecting.unit \in seen[n] THEN meddled
                       ELSE meddled \cup {n}
  /\ inspecting' = NoUnit
  /\ UNCHANGED <<environment, tracked, health, sample, rows, trouble, seen, fresh>>

-----------------------------------------------------------------------------

Collect ==
  \/ \E readable \in BOOLEAN : ReadCounters(readable)
  \/ PruneDeparted
  \/ DescribeInterfaces
  \/ DescribeDisks
  \/ ListPids
  \/ \E n \in Names : PassOver(n)
  \/ \E n \in Names, permitted \in BOOLEAN : VisitProcess(n, permitted)
  \/ SwapTracked

Next ==
  \/ \E n \in Names, u \in Units : Plug(n, u)
  \/ \E n \in Names : Unplug(n)
  \/ \E n \in Names : Count(n)
  \/ Elapse
  \/ Collect
  \/ \E done \in SUBSET Names : SwapRaises(done)
  \/ Fail
  \/ \E n \in Names : InspectRead(n)
  \/ InspectStore

Spec == Init /\ [][Next]_vars

\* The scheduler keeps sampling, and a sample ends.
FairSpec == Spec /\ WF_vars(Collect)

-----------------------------------------------------------------------------
(* Properties *)

\* "Called when a device disappears so its stale counters cannot produce a bogus
\* rate if a device of the same name reappears later" (base.py:90): when a
\* sample has found a name vacant, no later row of that name shows attributes,
\* health or a rate of a unit that bore it before; unless inspect() or a failed
\* sample left something behind.  Disks are excepted: storage.py never forgets.
RowsKeepToTheirUnits ==
  [][pc # "idle" /\ pc' = "idle" /\ kind # "storage" =>
       \A n \in DOMAIN rows' \ meddled' :
         {rows'[n].static, rows'[n].health, rows'[n].from} \subseteq seen'[n] \cup {NoUnit}]_vars

\* "Drop bookkeeping for processes that have exited, so the caches cannot grow
\* without bound over a long session" (process.py:113): between samples nothing
\* is kept of names that the last sample did not find, with the same exceptions;
\* and what is kept is of its type.
BookkeepingIsBounded ==
  /\ TypeOK
  /\ pc = "idle" /\ kind # "storage" =>
       (DOMAIN rates \cup DOMAIN static) \ DOMAIN tracked \subseteq meddled

\* What is there is listed: a unit that keeps a name, which a sample had found
\* vacant before, is in the snapshots, as long as samples do not fail; whatever
\* else comes and goes, and whatever the user inspects.
PresentIsShown ==
  \A n \in Names, u \in Units :
    <>[](present[n] = u /\ seen[n] = {u} /\ trouble = "none")
      => []<>(n \in DOMAIN rows /\ rows[n].unit = u)
=============================================================================
