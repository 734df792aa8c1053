------------------------------ MODULE Scheduler ------------------------------
(***************************************************************************)
(* MonitorService (app/services/monitor.py): a timer on the GUI thread     *)
(* decides which collectors are due and hands each to a thread pool; the   *)
(* pool's results come back to the GUI thread as queued signals.           *)
(*                                                                         *)
(* Three kinds of process interleave.  The GUI thread runs one handler at  *)
(* a time (Tick, OnResult, Request, ...); each is one action.  The threads *)
(* of the pool take tasks in FIFO order (TakeTask) and finish them         *)
(* (FinishTask) at any moment in between.  Time passes by itself (Elapse). *)
(*                                                                         *)
(* Time is counted in ticks of the timer and kept relative: next_due[d] is *)
(* how long it is until the deadline of d, so that the state space is      *)
(* finite without a bound on the clock.  The statistics of a registration  *)
(* (samples, average_ms, overruns) steer nothing and are left out.         *)
(***************************************************************************)
EXTENDS Naturals, FiniteSets, Sequences, SequencesExt

CONSTANTS
  Domains,      \* the domains of the registered collectors
  MaxThreads,   \* threads of the pool: setMaxThreadCount(4)
  Cadences,     \* the values a "sampling.*" setting takes, in ticks
  MaxStagger,   \* how far register() spreads the first deadlines, in ticks
  Hangs         \* the tasks whose collector may never return

Prime(d) == [kind |-> "prime", domain |-> d]
Collect(d) == [kind |-> "collect", domain |-> d]

Task == [kind : {"prime", "collect"}, domain : Domains]

ASSUME SchedulerAssumption ==
  /\ IsFiniteSet(Domains)
  /\ MaxThreads \in Nat \ {0}
  /\ Cadences \subseteq Nat
  /\ MaxStagger \in Nat
  /\ Hangs \subseteq Task

\* max(0.1, cadence): the ticker cannot honour less than one tick.
Clamp(cadence) == IF cadence = 0 THEN 1 ELSE cadence

Intervals == {Clamp(cadence) : cadence \in Cadences}

VARIABLES
  phase,      \* "created", "running", "closing", then "drained" or "abandoned"
  paused,     \* MonitorService._paused
  timer,      \* the QTimer is active
  timeout,    \* the timer has expired and its handler has not run yet
  interval,   \* _Registration.interval, in ticks
  next_due,   \* ticks until _Registration.next_due; 0 when it has passed
  in_flight,  \* _Registration.in_flight
  enabled,    \* _Registration.enabled
  queue,      \* tasks handed to the pool and not taken by a thread yet
  running,    \* tasks the threads of the pool are working on
  results     \* _result_ready signals queued for the GUI thread, oldest first

registrations == <<interval, next_due, in_flight, enabled>>
vars == <<phase, paused, timer, timeout, interval, next_due, in_flight,
          enabled, queue, running, results>>

TypeOK ==
  /\ phase \in {"created", "running", "closing", "drained", "abandoned"}
  /\ paused \in BOOLEAN
  /\ timer \in BOOLEAN
  /\ timeout \in BOOLEAN
  /\ interval \in [Domains -> Nat \ {0}]
  /\ next_due \in [Domains -> Nat]
  /\ in_flight \in [Domains -> BOOLEAN]
  /\ enabled \in [Domains -> BOOLEAN]
  /\ queue \in Seq(Task)
  /\ running \subseteq Task
  /\ results \in Seq(Domains)

\* Every collector is registered and the window is built; start() is posted.
Init ==
  /\ phase = "created"
  /\ paused = FALSE
  /\ timer = FALSE
  /\ timeout = FALSE
  /\ interval \in [Domains -> Intervals]
  /\ next_due \in [Domains -> 0 .. MaxStagger]
  /\ in_flight = [d \in Domains |-> FALSE]
  /\ enabled = [d \in Domains |-> TRUE]
  /\ queue = <<>>
  /\ running = {}
  /\ results = <<>>

-----------------------------------------------------------------------------
(* The clock *)

Elapse ==
  /\ phase \in {"created", "running"}
  /\ next_due' = [d \in Domains |->
                    IF next_due[d] = 0 THEN 0 ELSE next_due[d] - 1]
  /\ timeout' = (timer \/ timeout)
  /\ UNCHANGED <<phase, paused, timer, interval, in_flight, enabled, queue,
                 running, results>>

-----------------------------------------------------------------------------
(* Handlers on the GUI thread *)

\* One task for each domain of a sequence.
PrimeEach(order) == [i \in DOMAIN order |-> Prime(order[i])]
CollectEach(order) == [i \in DOMAIN order |-> Collect(order[i])]

\* _dispatch for each domain of S.  The registry is a dict in the order of
\* registration; the model allows any order.
Dispatch(S) ==
  /\ in_flight' = [d \in Domains |-> in_flight[d] \/ d \in S]
  /\ \E order \in SetToSeqs(S) :
       queue' = queue \o CollectEach(order)

Reschedule(S) ==
  next_due' = [d \in Domains |-> IF d \in S THEN interval[d] ELSE next_due[d]]

\* The priming run is counted as in flight, and nobody reports it.
MutantStart ==
  /\ phase = "created"
  /\ phase' = "running"
  /\ \E order \in SetToSeqs(Domains) :
       queue' = queue \o PrimeEach(order)
  /\ timer' = TRUE
  /\ in_flight' = [d \in Domains |-> TRUE]
  /\ UNCHANGED <<paused, timeout, interval, next_due, enabled, running, results>>

\* start() primes every collector without touching its registration.
Start ==
  /\ phase = "created"
  /\ phase' = "running"
  /\ \E order \in SetToSeqs(Domains) :
       queue' = queue \o PrimeEach(order)
  /\ timer' = TRUE
  /\ UNCHANGED <<paused, timeout, registrations, running, results>>

Due == {d \in Domains : enabled[d] /\ next_due[d] = 0}
MutantReady == Due
Ready == {d \in Due : ~in_flight[d]}

\* A collector that is due and still working is skipped; its deadline moves
\* all the same.
Tick ==
  /\ timeout
  /\ timeout' = FALSE
  /\ Dispatch(Ready)
  /\ Reschedule(Due)
  /\ UNCHANGED <<phase, paused, timer, interval, enabled, running, results>>

\* A page that becomes visible asks for its domains, whether or not the
\* schedule is paused, the collector enabled or the service started: the
\* first page is shown before the event loop runs.
Request(d) ==
  /\ phase \in {"created", "running"}
  /\ ~in_flight[d]
  /\ Dispatch({d})
  /\ Reschedule({d})
  /\ UNCHANGED <<phase, paused, timer, timeout, interval, enabled, running,
                 results>>

OnResult(d) ==
  /\ phase = "running"
  /\ results # <<>>
  /\ d = Head(results)
  /\ results' = Tail(results)
  /\ in_flight' = [in_flight EXCEPT ![d] = FALSE]
  /\ UNCHANGED <<phase, paused, timer, timeout, interval, next_due, enabled,
                 queue, running>>

\* Stopping a QTimer also discards the expiry that was not handled yet.
StopTimer ==
  /\ timer' = FALSE
  /\ timeout' = FALSE

Pause ==
  /\ phase = "running"
  /\ ~paused
  /\ paused' = TRUE
  /\ StopTimer
  /\ UNCHANGED <<phase, registrations, queue, running, results>>

Resume ==
  /\ phase = "running"
  /\ paused
  /\ paused' = FALSE
  /\ next_due' = [d \in Domains |-> 0]
  /\ timer' = TRUE
  /\ UNCHANGED <<phase, timeout, interval, in_flight, enabled, queue, running,
                 results>>

SetEnabled(d, on) ==
  /\ phase \in {"created", "running"}
  /\ enabled' = [enabled EXCEPT ![d] = on]
  /\ UNCHANGED <<phase, paused, timer, timeout, interval, next_due, in_flight,
                 queue, running, results>>

\* The old deadline stays in force.
MutantSettingChanged(d, cadence) ==
  /\ phase = "running"
  /\ interval' = [interval EXCEPT ![d] = Clamp(cadence)]
  /\ UNCHANGED <<phase, paused, timer, timeout, next_due, in_flight, enabled,
                 queue, running, results>>

\* _on_setting_changed, called by ConfigService.set.
SettingChanged(d, cadence) ==
  /\ phase = "running"
  /\ interval' = [interval EXCEPT ![d] = Clamp(cadence)]
  /\ next_due' = [next_due EXCEPT ![d] = Clamp(cadence)]
  /\ UNCHANGED <<phase, paused, timer, timeout, in_flight, enabled, queue,
                 running, results>>

\* close() after the event loop has returned: stop() blocks in waitForDone.
Close ==
  /\ phase = "running"
  /\ phase' = "closing"
  /\ StopTimer
  /\ UNCHANGED <<paused, registrations, queue, running, results>>

\* waitForDone(3000) returns when the pool is idle, or after three seconds.
WaitForDone ==
  /\ phase = "closing"
  /\ phase' = IF queue = <<>> /\ running = {} THEN "drained" ELSE "abandoned"
  /\ UNCHANGED <<paused, timer, timeout, registrations, queue, running,
                 results>>

-----------------------------------------------------------------------------
(* Threads of the pool *)

TakeTask ==
  /\ queue # <<>>
  /\ Cardinality(running) < MaxThreads
  /\ running' = running \cup {Head(queue)}
  /\ queue' = Tail(queue)
  /\ UNCHANGED <<phase, paused, timer, timeout, registrations, results>>

MutantReport(t, ok) ==
  results' = IF t.kind = "collect" /\ ok THEN Append(results, t.domain) ELSE results

MutantReportPrime(t, ok) == results' = Append(results, t.domain)

\* _CollectTask.run reports in its finally clause, whether the collector
\* succeeded or not; _PrimeTask.run reports nothing.
Report(t, ok) ==
  results' = IF t.kind = "collect" THEN Append(results, t.domain) ELSE results

FinishTask(t, ok) ==
  /\ t \in running
  /\ running' = running \ {t}
  /\ Report(t, ok)
  /\ UNCHANGED <<phase, paused, timer, timeout, registrations, queue>>

-----------------------------------------------------------------------------

Next ==
  \/ Elapse
  \/ Start
  \/ Tick
  \/ Pause
  \/ Resume
  \/ Close
  \/ WaitForDone
  \/ \E d \in Domains : Request(d)
  \/ \E d \in Domains : OnResult(d)
  \/ \E d \in Domains, on \in BOOLEAN : SetEnabled(d, on)
  \/ \E d \in Domains, cadence \in Cadences : SettingChanged(d, cadence)
  \/ TakeTask
  \/ \E t \in Task, ok \in BOOLEAN : FinishTask(t, ok)

Spec == Init /\ [][Next]_vars

\* The event loop runs, the pool works, and a collector outside Hangs returns.
\* Nothing obliges the user to do anything.
Fairness ==
  /\ WF_vars(Elapse)
  /\ WF_vars(Start)
  /\ WF_vars(Tick)
  /\ WF_vars(WaitForDone)
  /\ WF_vars(TakeTask)
  /\ \A d \in Domains : WF_vars(OnResult(d))
  /\ \A t \in Task \ Hangs : WF_vars(\E ok \in BOOLEAN : FinishTask(t, ok))

FairSpec == Spec /\ Fairness
-----------------------------------------------------------------------------
(* Properties *)

\* Where a run of the collector of d can be: waiting for a thread, on a
\* thread, or finished and waiting for the GUI thread.
Places(d) ==
  ({"queue"} \X {i \in DOMAIN queue : queue[i] = Collect(d)})
    \cup ({"thread"} \X {n \in {1} : Collect(d) \in running})
    \cup ({"result"} \X {i \in DOMAIN results : results[i] = d})

\* in_flight tells the truth: while it is set there is exactly one scheduled
\* run of the collector on its way through queue, thread and result signal,
\* and while it is clear there is none.  _tick and request rely on it to keep
\* the runs of a collector from piling up in the pool.
OneRunPerDomain ==
  \A d \in Domains :
    Cardinality(Places(d)) = IF in_flight[d] THEN 1 ELSE 0

\* The ticker runs exactly when the service is started and not paused,
\* through any sequence of pause, resume and close; an expiry is never
\* handled after the timer was stopped.
TimerFollowsPause ==
  /\ timer <=> (phase = "running" /\ ~paused)
  /\ timeout => timer

\* A deadline is never further away than the cadence now configured (or the
\* initial stagger): shortening a long interval takes effect at once.
DeadlineWithinInterval ==
  \A d \in Domains :
    next_due[d] <= interval[d] \/ next_due[d] <= MaxStagger

\* While the schedule is paused, or a collector disabled, only an explicit
\* request starts it: set_enabled and pause save the cost they promise to.
SuspendedIsNotSampled ==
  [][\A d \in Domains :
       (paused \/ ~enabled[d]) /\ ~in_flight[d] /\ in_flight'[d] => Request(d)]_vars

\* The scheduler does what Sampling promises.
Abstract == INSTANCE Sampling WITH
  open <- phase \in {"created", "running"},
  outstanding <- [d \in Domains |-> Cardinality(Places(d))]

ImplementsSampling == Abstract!Spec

\* A collector none of whose tasks hangs.
Healthy(d) == Prime(d) \notin Hangs /\ Collect(d) \notin Hangs

\* Every run of a healthy collector is reported and in_flight cleared, also
\* when it failed and when the schedule was paused meanwhile.
EveryRunIsReported ==
  \A d \in Domains :
    Healthy(d) => (in_flight[d] ~> (~in_flight[d] \/ phase \notin {"created", "running"}))

\* Slow collectors occupy a thread without delaying fast ones: a healthy
\* collector is sampled for ever while it is enabled, the ticker runs and its
\* cadence is left alone, even when another collector never returns.
HealthyKeepSampling ==
  \A d \in Domains :
    /\ Healthy(d)
    /\ <>[](timer /\ enabled[d])
    /\ <>[][~ \E cadence \in Cadences : SettingChanged(d, cadence)]_vars
    => []<><<OnResult(d)>>_vars
=============================================================================
