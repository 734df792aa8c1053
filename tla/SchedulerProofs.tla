--------------------------- MODULE SchedulerProofs ---------------------------
(* What TLC checks of Scheduler on small instances, proved for any set of   *)
(* collectors, any pool size and any configured cadences.                   *)
EXTENDS Scheduler, FiniteSetTheorems, SequenceTheorems, TLAPS

-----------------------------------------------------------------------------
(* Tasks *)

\* Every domain has a scheduled run and a priming one, which are different tasks.
LEMMA TaskFacts ==
  /\ \A d \in Domains : Collect(d) \in Task /\ Prime(d) \in Task
  /\ \A d, e \in Domains : Collect(d) = Collect(e) => d = e
  /\ \A d, e \in Domains : Collect(d) # Prime(e)
  /\ \A d : Collect(d).kind = "collect" /\ Collect(d).domain = d
  /\ \A d : Prime(d).kind = "prime" /\ Prime(d).domain = d
  /\ \A t \in Task : t.domain \in Domains
  /\ \A t \in Task : t.kind = "collect" => t = Collect(t.domain)
  BY DEF Task, Collect, Prime

\* The enumerations of a finite set list each of its members exactly once.
LEMMA EnumerationFacts ==
  ASSUME NEW S, IsFiniteSet(S), NEW order \in SetToSeqs(S)
  PROVE  /\ Cardinality(S) \in Nat
         /\ order \in [1 .. Cardinality(S) -> S]
         /\ \A i, j \in 1 .. Cardinality(S) : order[i] = order[j] => i = j
         /\ \A s \in S : \E i \in 1 .. Cardinality(S) : order[i] = s
<1> DEFINE n == Cardinality(S)
<1>1. n \in Nat
  BY FS_CardinalityType
<1>2. /\ order \in [1 .. n -> S]
      /\ \A i, j \in 1 .. n : order[i] = order[j] => i = j
  BY DEF SetToSeqs
<1>3. order \in Injection(1 .. n, S)
  BY <1>2 DEF Injection, IsInjective
<1>4. IsFiniteSet(1 .. n) /\ Cardinality(1 .. n) = n
  BY <1>1, FS_Interval
<1>5. order \in Surjection(1 .. n, S)
  BY <1>3, <1>4, FS_Injection
<1>6. \A s \in S : \E i \in 1 .. n : order[i] = s
  BY <1>5 DEF Surjection
<1> QED
  BY <1>1, <1>2, <1>6

\* What a tick or a request appends to the queue of the pool.
LEMMA CollectBatch ==
  ASSUME NEW S, S \subseteq Domains, NEW order \in SetToSeqs(S)
  PROVE  /\ CollectEach(order) \in Seq(Task)
         /\ \A i \in 1 .. Len(CollectEach(order)) :
              \E d \in S : CollectEach(order)[i] = Collect(d)
         /\ \A i, j \in 1 .. Len(CollectEach(order)) :
              CollectEach(order)[i] = CollectEach(order)[j] => i = j
         /\ \A d \in S : \E i \in 1 .. Len(CollectEach(order)) :
              CollectEach(order)[i] = Collect(d)
<1> DEFINE n == Cardinality(S)
           b == CollectEach(order)
<1>1. IsFiniteSet(S)
  BY SchedulerAssumption, FS_Subset
<1>2. /\ n \in Nat
      /\ order \in [1 .. n -> S]
      /\ \A i, j \in 1 .. n : order[i] = order[j] => i = j
      /\ \A s \in S : \E i \in 1 .. n : order[i] = s
  BY <1>1, EnumerationFacts
<1>3. b \in [1 .. n -> Task] /\ \A i \in 1 .. n : b[i] = Collect(order[i])
  BY <1>2, TaskFacts DEF CollectEach
<1>4. b \in Seq(Task) /\ Len(b) = n
  BY <1>2, <1>3, SeqDef, IsASeq
<1>5. \A i, j \in 1 .. n : b[i] = b[j] => order[i] = order[j]
  BY <1>2, <1>3, TaskFacts
<1> QED
  BY <1>2, <1>3, <1>4, <1>5

\* What start() appends to it.
LEMMA PrimeBatch ==
  ASSUME NEW order \in SetToSeqs(Domains)
  PROVE  /\ PrimeEach(order) \in Seq(Task)
         /\ \A i \in 1 .. Len(PrimeEach(order)) :
              \E d \in Domains : PrimeEach(order)[i] = Prime(d)
<1> DEFINE n == Cardinality(Domains)
           b == PrimeEach(order)
<1>1. n \in Nat /\ order \in [1 .. n -> Domains]
  BY SchedulerAssumption, EnumerationFacts
<1>2. b \in [1 .. n -> Task] /\ \A i \in 1 .. n : b[i] = Prime(order[i])
  BY <1>1, TaskFacts DEF PrimeEach
<1>3. b \in Seq(Task) /\ Len(b) = n
  BY <1>1, <1>2, SeqDef, IsASeq
<1> QED
  BY <1>1, <1>2, <1>3

\* The effect of a dispatch on the queue.
LEMMA DispatchFacts ==
  ASSUME queue \in Seq(Task), NEW S, S \subseteq Domains, Dispatch(S)
  PROVE  /\ queue' \in Seq(Task)
         /\ \E b \in Seq(Task) :
              /\ queue' = queue \o b
              /\ \A i \in 1 .. Len(b) : \E d \in S : b[i] = Collect(d)
              /\ \A i, j \in 1 .. Len(b) : b[i] = b[j] => i = j
              /\ \A d \in S : \E i \in 1 .. Len(b) : b[i] = Collect(d)
<1>1. PICK order \in SetToSeqs(S) : queue' = queue \o CollectEach(order)
  BY DEF Dispatch
<1>2. queue' \in Seq(Task)
  BY <1>1, CollectBatch, ConcatProperties
<1> QED
  BY <1>1, <1>2, CollectBatch

\* The effect of start() on the queue.
LEMMA StartFacts ==
  ASSUME queue \in Seq(Task), Start
  PROVE  /\ queue' \in Seq(Task)
         /\ \E b \in Seq(Task) :
              /\ queue' = queue \o b
              /\ \A i \in 1 .. Len(b) : \E d \in Domains : b[i] = Prime(d)
<1>1. PICK order \in SetToSeqs(Domains) : queue' = queue \o PrimeEach(order)
  BY DEF Start
<1>2. queue' \in Seq(Task)
  BY <1>1, PrimeBatch, ConcatProperties
<1> QED
  BY <1>1, <1>2, PrimeBatch

-----------------------------------------------------------------------------
(* Type correctness *)

\* A clamped cadence is a positive number of ticks.
LEMMA IntervalFacts == \A cadence \in Cadences : Clamp(cadence) \in Nat \ {0}
  BY SchedulerAssumption DEF Clamp

\* TypeOK holds at first.
LEMMA TypeInit == Init => TypeOK
<1> SUFFICES ASSUME Init PROVE TypeOK
  OBVIOUS
<1>1. Intervals \subseteq Nat \ {0}
  BY IntervalFacts DEF Intervals
<1>2. interval \in [Domains -> Nat \ {0}]
  BY <1>1 DEF Init
<1>3. next_due \in [Domains -> Nat]
  BY SchedulerAssumption DEF Init
<1>4. queue \in Seq(Task) /\ results \in Seq(Domains)
  BY EmptySeq DEF Init
<1>5. in_flight \in [Domains -> BOOLEAN] /\ enabled \in [Domains -> BOOLEAN]
  BY DEF Init
<1> QED
  BY <1>2, <1>3, <1>4, <1>5 DEF Init, TypeOK

\* Every step keeps the types.
LEMMA TypeStep == TypeOK /\ [Next]_vars => TypeOK'
<1> SUFFICES ASSUME TypeOK, [Next]_vars PROVE TypeOK'
  OBVIOUS
<1> USE DEF TypeOK
<1>1. CASE Elapse
  BY <1>1 DEF Elapse
<1>2. CASE Start
  <2>1. queue' \in Seq(Task)
    BY <1>2, StartFacts
  <2> QED
    BY <1>2, <2>1 DEF Start, registrations
<1>3. ASSUME NEW S, S \subseteq Domains, Dispatch(S)
      PROVE  queue' \in Seq(Task) /\ in_flight' \in [Domains -> BOOLEAN]
  BY <1>3, DispatchFacts DEF Dispatch
<1>4. CASE Tick
  <2>1. Ready \subseteq Domains
    BY DEF Ready, Due
  <2>2. queue' \in Seq(Task) /\ in_flight' \in [Domains -> BOOLEAN]
    BY <1>3, <1>4, <2>1 DEF Tick
  <2> QED
    BY <1>4, <2>2 DEF Tick, Reschedule
<1>5. ASSUME NEW d \in Domains, Request(d) PROVE TypeOK'
  <2>1. queue' \in Seq(Task) /\ in_flight' \in [Domains -> BOOLEAN]
    BY <1>3, <1>5 DEF Request
  <2> QED
    BY <1>5, <2>1 DEF Request, Reschedule
<1>6. ASSUME NEW d \in Domains, OnResult(d) PROVE TypeOK'
  BY <1>6 DEF OnResult
<1>7. CASE Pause
  BY <1>7 DEF Pause, StopTimer, registrations
<1>8. CASE Resume
  BY <1>8 DEF Resume
<1>9. CASE Close
  BY <1>9 DEF Close, StopTimer, registrations
<1>10. CASE WaitForDone
  BY <1>10 DEF WaitForDone, registrations
<1>11. ASSUME NEW d \in Domains, NEW on \in BOOLEAN, SetEnabled(d, on)
       PROVE  TypeOK'
  BY <1>11 DEF SetEnabled
<1>12. ASSUME NEW d \in Domains, NEW cadence \in Cadences,
              SettingChanged(d, cadence)
       PROVE  TypeOK'
  BY <1>12, IntervalFacts DEF SettingChanged
<1>13. CASE TakeTask
  BY <1>13 DEF TakeTask, registrations
<1>14. ASSUME NEW t \in Task, NEW ok \in BOOLEAN, FinishTask(t, ok)
       PROVE  TypeOK'
  <2>1. results' \in Seq(Domains)
    BY <1>14, TaskFacts DEF FinishTask, Report
  <2> QED
    BY <1>14, <2>1 DEF FinishTask, registrations
<1>15. CASE UNCHANGED vars
  BY <1>15 DEF vars
<1> QED
  BY <1>1, <1>2, <1>4, <1>5, <1>6, <1>7, <1>8, <1>9, <1>10, <1>11, <1>12,
     <1>13, <1>14, <1>15 DEF Next

\* The state of the scheduler stays well formed: in particular no clamped
\* cadence is ever below one tick and every queued result is of a known domain.
THEOREM TypeCorrect == Spec => []TypeOK
  BY TypeInit, TypeStep, PTL DEF Spec

-----------------------------------------------------------------------------
(* One run per domain.  OneRunPerDomain counts places; the invariant below  *)
(* says the same of the three kinds of place apart, which makes it          *)
(* inductive one domain at a time.                                          *)

Waiting(d) == \E i \in 1 .. Len(queue) : queue[i] = Collect(d)
OnThread(d) == Collect(d) \in running
Reported(d) == \E i \in 1 .. Len(results) : results[i] = d

WaitsOnce(d) ==
  \A i, j \in 1 .. Len(queue) :
    queue[i] = Collect(d) /\ queue[j] = Collect(d) => i = j

ReportedOnce(d) ==
  \A i, j \in 1 .. Len(results) : results[i] = d /\ results[j] = d => i = j

Tracked(d) ==
  /\ in_flight[d] <=> (Waiting(d) \/ OnThread(d) \/ Reported(d))
  /\ ~ (Waiting(d) /\ OnThread(d))
  /\ ~ (Waiting(d) /\ Reported(d))
  /\ ~ (OnThread(d) /\ Reported(d))

RunInv == \A d \in Domains : WaitsOnce(d) /\ ReportedOnce(d) /\ Tracked(d)

\* RunInv holds at first: nothing waits, runs or is reported.
LEMMA RunInit == Init => RunInv
<1> SUFFICES ASSUME Init, NEW d \in Domains
             PROVE  WaitsOnce(d) /\ ReportedOnce(d) /\ Tracked(d)
  BY DEF RunInv
<1>1. queue = <<>> /\ results = <<>> /\ running = {} /\ in_flight[d] = FALSE
  BY DEF Init
<1>2. Len(queue) = 0 /\ Len(results) = 0
  BY <1>1
<1>3. ~ Waiting(d) /\ ~ OnThread(d) /\ ~ Reported(d)
  BY <1>1, <1>2 DEF Waiting, OnThread, Reported
<1>4. WaitsOnce(d) /\ ReportedOnce(d)
  BY <1>2 DEF WaitsOnce, ReportedOnce
<1> QED
  BY <1>1, <1>3, <1>4 DEF Tracked

\* A dispatch puts a domain of S that was idle at the end of the queue.
LEMMA DispatchStep ==
  ASSUME TypeOK, NEW S, S \subseteq Domains, Dispatch(S),
         NEW d \in Domains, WaitsOnce(d), d \in S => ~ Waiting(d)
  PROVE  /\ WaitsOnce(d)'
         /\ Waiting(d)' <=> Waiting(d) \/ d \in S
<1>1. PICK b \in Seq(Task) :
        /\ queue' = queue \o b
        /\ \A i \in 1 .. Len(b) : \E e \in S : b[i] = Collect(e)
        /\ \A i, j \in 1 .. Len(b) : b[i] = b[j] => i = j
        /\ \A e \in S : \E i \in 1 .. Len(b) : b[i] = Collect(e)
  BY DispatchFacts DEF TypeOK
<1>2. /\ Len(queue') = Len(queue) + Len(b)
      /\ \A i \in 1 .. Len(queue') :
           queue'[i] = IF i <= Len(queue) THEN queue[i] ELSE b[i - Len(queue)]
  BY <1>1, ConcatProperties DEF TypeOK
<1>3. /\ Len(queue) \in Nat
      /\ Len(b) \in Nat
  BY <1>1 DEF TypeOK
<1>4. \A i \in 1 .. Len(b) : b[i] = Collect(d) => d \in S
  BY <1>1, TaskFacts
<1>5. \A i \in 1 .. Len(b) :
        /\ i + Len(queue) \in 1 .. Len(queue')
        /\ queue'[i + Len(queue)] = b[i]
  BY <1>2, <1>3
<1>6. \A i \in 1 .. Len(queue) : i \in 1 .. Len(queue') /\ queue'[i] = queue[i]
  BY <1>2, <1>3
<1>7. \A i \in 1 .. Len(queue') :
        \/ i \in 1 .. Len(queue) /\ queue'[i] = queue[i]
        \/ /\ i > Len(queue)
           /\ i - Len(queue) \in 1 .. Len(b)
           /\ queue'[i] = b[i - Len(queue)]
  BY <1>2, <1>3
<1>8. Waiting(d)' <=> Waiting(d) \/ d \in S
  <2>1. Waiting(d)' => Waiting(d) \/ d \in S
    BY <1>4, <1>7 DEF Waiting
  <2>2. Waiting(d) => Waiting(d)'
    BY <1>6 DEF Waiting
  <2>3. ASSUME d \in S PROVE Waiting(d)'
    <3>1. PICK i \in 1 .. Len(b) : b[i] = Collect(d)
      BY <1>1, <2>3
    <3>2. i + Len(queue) \in 1 .. Len(queue') /\ queue'[i + Len(queue)] = Collect(d)
      BY <1>5, <3>1
    <3> QED
      BY <3>2 DEF Waiting
  <2> QED
    BY <2>1, <2>2, <2>3
<1>9. WaitsOnce(d)'
  <2> SUFFICES ASSUME NEW i \in 1 .. Len(queue'), NEW j \in 1 .. Len(queue'),
                      queue'[i] = Collect(d), queue'[j] = Collect(d)
               PROVE  i = j
    BY DEF WaitsOnce
  <2>1. CASE i \in 1 .. Len(queue) /\ j \in 1 .. Len(queue)
    BY <1>6, <2>1 DEF WaitsOnce
  <2>2. CASE i \notin 1 .. Len(queue) /\ j \notin 1 .. Len(queue)
    <3>1. b[i - Len(queue)] = b[j - Len(queue)]
      BY <1>7, <2>2
    <3>2. i - Len(queue) = j - Len(queue)
      BY <1>1, <1>7, <2>2, <3>1
    <3> QED
      BY <1>3, <3>2
  <2>3. CASE i \in 1 .. Len(queue) /\ j \notin 1 .. Len(queue)
    BY <1>4, <1>6, <1>7, <2>3 DEF Waiting
  <2>4. CASE i \notin 1 .. Len(queue) /\ j \in 1 .. Len(queue)
    BY <1>4, <1>6, <1>7, <2>4 DEF Waiting
  <2> QED
    BY <2>1, <2>2, <2>3, <2>4
<1> QED
  BY <1>8, <1>9

\* Priming adds no scheduled run.
LEMMA StartStep ==
  ASSUME TypeOK, Start, NEW d \in Domains, WaitsOnce(d)
  PROVE  /\ WaitsOnce(d)'
         /\ Waiting(d)' <=> Waiting(d)
<1>1. PICK b \in Seq(Task) :
        /\ queue' = queue \o b
        /\ \A i \in 1 .. Len(b) : \E e \in Domains : b[i] = Prime(e)
  BY StartFacts DEF TypeOK
<1>2. /\ Len(queue') = Len(queue) + Len(b)
      /\ \A i \in 1 .. Len(queue') :
           queue'[i] = IF i <= Len(queue) THEN queue[i] ELSE b[i - Len(queue)]
  BY <1>1, ConcatProperties DEF TypeOK
<1>3. Len(queue) \in Nat /\ Len(b) \in Nat
  BY <1>1 DEF TypeOK
<1>4. \A i \in 1 .. Len(b) : b[i] # Collect(d)
  BY <1>1, TaskFacts
<1>5. \A i \in 1 .. Len(queue) : i \in 1 .. Len(queue') /\ queue'[i] = queue[i]
  BY <1>2, <1>3
<1>6. \A i \in 1 .. Len(queue') :
        queue'[i] = Collect(d) => i \in 1 .. Len(queue)
  BY <1>2, <1>3, <1>4
<1> QED
  BY <1>5, <1>6 DEF WaitsOnce, Waiting

\* A thread takes the oldest task.
LEMMA TakeStep ==
  ASSUME TypeOK, TakeTask, NEW d \in Domains, WaitsOnce(d)
  PROVE  /\ WaitsOnce(d)'
         /\ Waiting(d)' <=> Waiting(d) /\ Head(queue) # Collect(d)
         /\ OnThread(d)' <=> OnThread(d) \/ Head(queue) = Collect(d)
         /\ Head(queue) = Collect(d) => Waiting(d)
<1>1. /\ queue \in Seq(Task)
      /\ queue # <<>>
      /\ queue' = Tail(queue)
      /\ running' = running \cup {Head(queue)}
  BY DEF TypeOK, TakeTask
<1>2. /\ Len(queue) \in Nat \ {0}
      /\ Len(queue') = Len(queue) - 1
      /\ Head(queue) = queue[1]
      /\ \A i \in 1 .. Len(queue') : queue'[i] = queue[i + 1]
  BY <1>1
<1>3. \A i \in 1 .. Len(queue') : i + 1 \in 1 .. Len(queue)
  BY <1>2
<1>4. \A i \in 1 .. Len(queue) : i = 1 \/ i - 1 \in 1 .. Len(queue')
  BY <1>2
<1>5. \A i \in 1 .. Len(queue) : i # 1 => queue'[i - 1] = queue[i]
  BY <1>2, <1>4
<1>6. WaitsOnce(d)'
  BY <1>2, <1>3 DEF WaitsOnce
<1>7. Waiting(d)' <=> Waiting(d) /\ Head(queue) # Collect(d)
  <2>1. ASSUME Waiting(d)' PROVE Waiting(d) /\ Head(queue) # Collect(d)
    <3>1. PICK i \in 1 .. Len(queue') : queue'[i] = Collect(d)
      BY <2>1 DEF Waiting
    <3>2. i + 1 \in 1 .. Len(queue) /\ queue[i + 1] = Collect(d) /\ i + 1 # 1
      BY <1>2, <1>3, <3>1
    <3>3. 1 \in 1 .. Len(queue)
      BY <1>2
    <3> QED
      BY <1>2, <3>2, <3>3 DEF Waiting, WaitsOnce
  <2>2. ASSUME Waiting(d), Head(queue) # Collect(d) PROVE Waiting(d)'
    BY <1>2, <1>4, <1>5, <2>2 DEF Waiting
  <2> QED
    BY <2>1, <2>2
<1>8. OnThread(d)' <=> OnThread(d) \/ Head(queue) = Collect(d)
  BY <1>1 DEF OnThread
<1>9. Head(queue) = Collect(d) => Waiting(d)
  BY <1>2 DEF Waiting
<1> QED
  BY <1>6, <1>7, <1>8, <1>9

\* A thread finishes a task and, if it is a scheduled run, reports it.
LEMMA FinishStep ==
  ASSUME TypeOK, NEW t \in Task, NEW ok \in BOOLEAN, FinishTask(t, ok),
         NEW d \in Domains, ReportedOnce(d), OnThread(d) => ~ Reported(d)
  PROVE  /\ ReportedOnce(d)'
         /\ OnThread(d)' <=> OnThread(d) /\ t # Collect(d)
         /\ Reported(d)' <=> Reported(d) \/ t = Collect(d)
         /\ t = Collect(d) => OnThread(d)
<1>1. t \in running /\ running' = running \ {t}
  BY DEF FinishTask
<1>2. OnThread(d)' <=> OnThread(d) /\ t # Collect(d)
  BY <1>1 DEF OnThread
<1>3. t = Collect(d) => OnThread(d)
  BY <1>1 DEF OnThread
<1>4. CASE t.kind = "collect"
  <2>1. t = Collect(t.domain) /\ t.domain \in Domains
    BY <1>4, TaskFacts
  <2>2. results \in Seq(Domains) /\ results' = Append(results, t.domain)
    BY <1>4 DEF TypeOK, FinishTask, Report
  <2>3. /\ Len(results) \in Nat
        /\ Len(results') = Len(results) + 1
        /\ results'[Len(results) + 1] = t.domain
        /\ \A i \in 1 .. Len(results) : results'[i] = results[i]
    BY <2>1, <2>2
  <2>4. t = Collect(d) <=> t.domain = d
    BY <2>1, TaskFacts
  <2>5. \A i \in 1 .. Len(results') :
          i \in 1 .. Len(results) \/ i = Len(results) + 1
    BY <2>3
  <2>6. /\ Len(results) + 1 \in 1 .. Len(results')
        /\ \A i \in 1 .. Len(results) : i \in 1 .. Len(results')
    BY <2>3
  <2>7. Reported(d)' <=> Reported(d) \/ t = Collect(d)
    BY <2>3, <2>4, <2>5, <2>6 DEF Reported
  <2>8. ReportedOnce(d)'
    BY <1>3, <2>3, <2>4, <2>5 DEF ReportedOnce, Reported
  <2> QED
    BY <1>2, <1>3, <2>7, <2>8
<1>5. CASE t.kind # "collect"
  <2>1. results' = results
    BY <1>5 DEF FinishTask, Report
  <2>2. t # Collect(d)
    BY <1>5, TaskFacts
  <2> QED
    BY <1>2, <2>1, <2>2 DEF Reported, ReportedOnce
<1> QED
  BY <1>4, <1>5

\* The GUI thread handles the oldest result.
LEMMA ResultStep ==
  ASSUME TypeOK, NEW e \in Domains, OnResult(e), NEW d \in Domains, ReportedOnce(d)
  PROVE  /\ ReportedOnce(d)'
         /\ Reported(d)' <=> Reported(d) /\ e # d
         /\ e = d => Reported(d)
<1>1. /\ results \in Seq(Domains)
      /\ results # <<>>
      /\ e = Head(results)
      /\ results' = Tail(results)
  BY DEF TypeOK, OnResult
<1>2. /\ Len(results) \in Nat \ {0}
      /\ Len(results') = Len(results) - 1
      /\ e = results[1]
      /\ \A i \in 1 .. Len(results') : results'[i] = results[i + 1]
  BY <1>1
<1>3. \A i \in 1 .. Len(results') : i + 1 \in 1 .. Len(results) /\ i + 1 # 1
  BY <1>2
<1>4. \A i \in 1 .. Len(results) : i = 1 \/ i - 1 \in 1 .. Len(results')
  BY <1>2
<1>5. \A i \in 1 .. Len(results) : i # 1 => results'[i - 1] = results[i]
  BY <1>2, <1>4
<1>6. 1 \in 1 .. Len(results)
  BY <1>2
<1>7. ReportedOnce(d)'
  BY <1>2, <1>3 DEF ReportedOnce
<1>8. Reported(d)' => Reported(d) /\ e # d
  BY <1>2, <1>3, <1>6 DEF Reported, ReportedOnce
<1>9. Reported(d) /\ e # d => Reported(d)'
  BY <1>2, <1>4, <1>5 DEF Reported
<1> QED
  BY <1>2, <1>6, <1>7, <1>8, <1>9 DEF Reported

\* Every step keeps RunInv, one case per action of the GUI thread and of the pool.
LEMMA RunStep == TypeOK /\ RunInv /\ [Next]_vars => RunInv'
<1> SUFFICES ASSUME TypeOK, [Next]_vars, NEW d \in Domains,
                    WaitsOnce(d), ReportedOnce(d), Tracked(d)
             PROVE  WaitsOnce(d)' /\ ReportedOnce(d)' /\ Tracked(d)'
  BY DEF RunInv
\* Most handlers touch neither the pool nor in_flight.
<1>1. ASSUME UNCHANGED <<queue, running, results, in_flight>>
      PROVE  WaitsOnce(d)' /\ ReportedOnce(d)' /\ Tracked(d)'
  BY <1>1 DEF WaitsOnce, ReportedOnce, Tracked, Waiting, OnThread, Reported
<1>2. ASSUME NEW S, S \subseteq Domains, Dispatch(S), d \in S => ~ in_flight[d],
             UNCHANGED <<running, results>>
      PROVE  WaitsOnce(d)' /\ ReportedOnce(d)' /\ Tracked(d)'
  <2>1. WaitsOnce(d)' /\ (Waiting(d)' <=> Waiting(d) \/ d \in S)
    BY <1>2, DispatchStep DEF Tracked
  <2>2. in_flight'[d] <=> in_flight[d] \/ d \in S
    BY <1>2 DEF Dispatch, TypeOK
  <2>3. /\ OnThread(d)' <=> OnThread(d)
        /\ Reported(d)' <=> Reported(d)
        /\ ReportedOnce(d)'
    BY <1>2 DEF OnThread, Reported, ReportedOnce
  <2> QED
    BY <1>2, <2>1, <2>2, <2>3 DEF Tracked
<1>3. CASE Elapse \/ Pause \/ Resume \/ Close \/ WaitForDone
  BY <1>1, <1>3
     DEF Elapse, Pause, Resume, Close, WaitForDone, StopTimer, registrations
<1>4. CASE Start
  <2>1. UNCHANGED <<running, results, in_flight>>
    BY <1>4 DEF Start, registrations
  <2>2. WaitsOnce(d)' /\ (Waiting(d)' <=> Waiting(d))
    BY <1>4, StartStep
  <2> QED
    BY <2>1, <2>2 DEF Tracked, OnThread, Reported, ReportedOnce
<1>5. CASE Tick
  <2>1. Ready \subseteq Domains /\ (d \in Ready => ~ in_flight[d])
    BY DEF Ready, Due
  <2> QED
    BY <1>2, <1>5, <2>1 DEF Tick
<1>6. ASSUME NEW e \in Domains, Request(e)
      PROVE  WaitsOnce(d)' /\ ReportedOnce(d)' /\ Tracked(d)'
  <2>1. {e} \subseteq Domains /\ (d \in {e} => ~ in_flight[d])
    BY <1>6 DEF Request
  <2> QED
    BY <1>2, <1>6, <2>1 DEF Request
<1>7. ASSUME NEW e \in Domains, OnResult(e)
      PROVE  WaitsOnce(d)' /\ ReportedOnce(d)' /\ Tracked(d)'
  <2>1. /\ ReportedOnce(d)'
        /\ Reported(d)' <=> Reported(d) /\ e # d
        /\ e = d => Reported(d)
    BY <1>7, ResultStep
  <2>2. in_flight'[d] <=> in_flight[d] /\ e # d
    BY <1>7 DEF OnResult, TypeOK
  <2>3. UNCHANGED <<queue, running>>
    BY <1>7 DEF OnResult
  <2> QED
    BY <2>1, <2>2, <2>3 DEF Tracked, Waiting, OnThread, WaitsOnce
<1>8. CASE \E e \in Domains, on \in BOOLEAN : SetEnabled(e, on)
  BY <1>1, <1>8 DEF SetEnabled
<1>9. CASE \E e \in Domains, cadence \in Cadences : SettingChanged(e, cadence)
  BY <1>1, <1>9 DEF SettingChanged
<1>10. CASE TakeTask
  <2>1. /\ WaitsOnce(d)'
        /\ Waiting(d)' <=> Waiting(d) /\ Head(queue) # Collect(d)
        /\ OnThread(d)' <=> OnThread(d) \/ Head(queue) = Collect(d)
        /\ Head(queue) = Collect(d) => Waiting(d)
    BY <1>10, TakeStep
  <2>2. UNCHANGED <<results, in_flight>>
    BY <1>10 DEF TakeTask, registrations
  <2> QED
    BY <2>1, <2>2 DEF Tracked, Reported, ReportedOnce
<1>11. ASSUME NEW t \in Task, NEW ok \in BOOLEAN, FinishTask(t, ok)
       PROVE  WaitsOnce(d)' /\ ReportedOnce(d)' /\ Tracked(d)'
  <2>1. /\ ReportedOnce(d)'
        /\ OnThread(d)' <=> OnThread(d) /\ t # Collect(d)
        /\ Reported(d)' <=> Reported(d) \/ t = Collect(d)
        /\ t = Collect(d) => OnThread(d)
    BY <1>11, FinishStep DEF Tracked
  <2>2. UNCHANGED <<queue, in_flight>>
    BY <1>11 DEF FinishTask, registrations
  <2> QED
    BY <2>1, <2>2 DEF Tracked, Waiting, WaitsOnce
<1>12. CASE UNCHANGED vars
  BY <1>1, <1>12 DEF vars
<1> QED
  BY <1>3, <1>4, <1>5, <1>6, <1>7, <1>8, <1>9, <1>10, <1>11, <1>12 DEF Next

\* Counting the places gives back the property the runs check.
LEMMA RunInvCounts == TypeOK /\ RunInv => OneRunPerDomain
<1> SUFFICES ASSUME TypeOK, RunInv, NEW d \in Domains
             PROVE  Cardinality(Places(d)) = IF in_flight[d] THEN 1 ELSE 0
  BY DEF OneRunPerDomain
<1> DEFINE Q == {"queue"} \X {i \in DOMAIN queue : queue[i] = Collect(d)}
           T == {"thread"} \X {n \in {1} : Collect(d) \in running}
           R == {"result"} \X {i \in DOMAIN results : results[i] = d}
<1>1. Places(d) = Q \cup T \cup R
  BY DEF Places
<1>2. WaitsOnce(d) /\ ReportedOnce(d) /\ Tracked(d)
  BY DEF RunInv
<1>3. DOMAIN queue = 1 .. Len(queue) /\ DOMAIN results = 1 .. Len(results)
  BY LenProperties DEF TypeOK
<1>4. ~ Waiting(d) => Q = {}
  BY <1>3 DEF Waiting
<1>5. ~ OnThread(d) => T = {}
  BY DEF OnThread
<1>6. ~ Reported(d) => R = {}
  BY <1>3 DEF Reported
<1>7. Waiting(d) => \E p : Q = {p}
  <2> SUFFICES ASSUME Waiting(d) PROVE \E p : Q = {p}
    OBVIOUS
  <2>1. PICK i \in 1 .. Len(queue) : queue[i] = Collect(d)
    BY DEF Waiting
  <2>2. {j \in DOMAIN queue : queue[j] = Collect(d)} = {i}
    BY <1>2, <1>3, <2>1 DEF WaitsOnce
  <2>3. Q = {<<"queue", i>>}
    BY <2>2
  <2> QED
    BY <2>3
<1>8. OnThread(d) => \E p : T = {p}
  <2>1. OnThread(d) => T = {<<"thread", 1>>}
    BY DEF OnThread
  <2> QED
    BY <2>1
<1>9. Reported(d) => \E p : R = {p}
  <2> SUFFICES ASSUME Reported(d) PROVE \E p : R = {p}
    OBVIOUS
  <2>1. PICK i \in 1 .. Len(results) : results[i] = d
    BY DEF Reported
  <2>2. {j \in DOMAIN results : results[j] = d} = {i}
    BY <1>2, <1>3, <2>1 DEF ReportedOnce
  <2>3. R = {<<"result", i>>}
    BY <2>2
  <2> QED
    BY <2>3
<1> HIDE DEF Q, T, R
<1>10. in_flight[d] \in BOOLEAN
  BY DEF TypeOK
<1>11. CASE ~ in_flight[d]
  <2>1. Places(d) = {}
    BY <1>1, <1>2, <1>4, <1>5, <1>6, <1>11 DEF Tracked
  <2> QED
    BY <1>11, <2>1, FS_EmptySet
<1>12. CASE in_flight[d]
  <2>1. \E p : Places(d) = {p}
    BY <1>1, <1>2, <1>4, <1>5, <1>6, <1>7, <1>8, <1>9, <1>12 DEF Tracked
  <2> QED
    BY <1>12, <2>1, FS_Singleton
<1> QED
  BY <1>10, <1>11, <1>12

\* At most one scheduled run per collector, whatever the number of collectors,
\* the cadences and the pool, and in_flight is set exactly while there is one.
THEOREM OneRun == Spec => []OneRunPerDomain
<1>1. Init => TypeOK /\ RunInv
  BY TypeInit, RunInit
<1>2. TypeOK /\ RunInv /\ [Next]_vars => (TypeOK /\ RunInv)'
  BY TypeStep, RunStep
<1> QED
  BY <1>1, <1>2, RunInvCounts, PTL DEF Spec

-----------------------------------------------------------------------------
(* The timer and the deadlines *)

\* start() leaves _paused alone: it relies on nobody pausing before it runs.
TimerInv == TimerFollowsPause /\ (phase = "created" => ~ paused)

\* Every step keeps the timer in agreement with the pause.
LEMMA TimerStep == TypeOK /\ TimerInv /\ [Next]_vars => TimerInv'
<1> SUFFICES ASSUME TypeOK, TimerInv, [Next]_vars
             PROVE  TimerInv'
  OBVIOUS
<1> USE DEF TimerInv, TimerFollowsPause
<1>1. ASSUME UNCHANGED <<phase, paused, timer, timeout>>
      PROVE  TimerInv'
  BY <1>1
<1>2. CASE Elapse
  BY <1>2 DEF Elapse, TypeOK
<1>3. CASE Start
  BY <1>3 DEF Start, TypeOK
<1>4. CASE Tick
  BY <1>4 DEF Tick
<1>5. CASE Pause \/ Close
  BY <1>5 DEF Pause, Close, StopTimer
<1>6. CASE Resume
  BY <1>6 DEF Resume, TypeOK
<1>7. CASE WaitForDone
  BY <1>7 DEF WaitForDone
<1>8. CASE \/ \E d \in Domains : Request(d) \/ OnResult(d)
           \/ \E d \in Domains, on \in BOOLEAN : SetEnabled(d, on)
           \/ \E d \in Domains, cadence \in Cadences : SettingChanged(d, cadence)
  BY <1>1, <1>8 DEF Request, OnResult, SetEnabled, SettingChanged
<1>9. CASE \/ TakeTask
           \/ \E t \in Task, ok \in BOOLEAN : FinishTask(t, ok)
           \/ UNCHANGED vars
  BY <1>1, <1>9 DEF TakeTask, FinishTask, vars
<1> QED
  BY <1>2, <1>3, <1>4, <1>5, <1>6, <1>7, <1>8, <1>9 DEF Next

\* The ticker runs exactly while the started service is not paused.
THEOREM TimerCorrect == Spec => []TimerFollowsPause
<1>1. Init => TimerInv
  BY DEF Init, TimerInv, TimerFollowsPause
<1>2. TimerInv => TimerFollowsPause
  BY DEF TimerInv
<1> QED
  BY <1>1, <1>2, TimerStep, TypeCorrect, PTL DEF Spec

\* No step pushes a deadline beyond the interval or the stagger of start().
LEMMA DeadlineStep ==
  TypeOK /\ DeadlineWithinInterval /\ [Next]_vars => DeadlineWithinInterval'
<1> SUFFICES ASSUME TypeOK, [Next]_vars, NEW d \in Domains,
                    next_due[d] <= interval[d] \/ next_due[d] <= MaxStagger
             PROVE  (next_due[d] <= interval[d] \/ next_due[d] <= MaxStagger)'
  BY DEF DeadlineWithinInterval
<1>1. /\ interval[d] \in Nat \ {0}
      /\ next_due[d] \in Nat
      /\ MaxStagger \in Nat
  BY SchedulerAssumption DEF TypeOK
<1>2. CASE UNCHANGED <<interval, next_due>>
  BY <1>2
<1>3. CASE Elapse
  BY <1>1, <1>3 DEF Elapse
<1>4. ASSUME NEW S, Reschedule(S), UNCHANGED interval
      PROVE  (next_due[d] <= interval[d] \/ next_due[d] <= MaxStagger)'
  BY <1>1, <1>4 DEF Reschedule
<1>5. CASE Tick \/ \E e \in Domains : Request(e)
  BY <1>4, <1>5 DEF Tick, Request
<1>6. CASE Resume
  BY <1>1, <1>6 DEF Resume
<1>7. ASSUME NEW e \in Domains, NEW cadence \in Cadences,
             SettingChanged(e, cadence)
      PROVE  (next_due[d] <= interval[d] \/ next_due[d] <= MaxStagger)'
  <2>1. /\ interval'[d] = IF d = e THEN Clamp(cadence) ELSE interval[d]
        /\ next_due'[d] = IF d = e THEN Clamp(cadence) ELSE next_due[d]
    BY <1>7 DEF SettingChanged, TypeOK
  <2> QED
    BY <1>1, <2>1, IntervalFacts
<1>8. CASE \/ Start \/ Pause \/ Close \/ WaitForDone \/ TakeTask
           \/ \E e \in Domains : OnResult(e)
           \/ \E e \in Domains, on \in BOOLEAN : SetEnabled(e, on)
           \/ \E t \in Task, ok \in BOOLEAN : FinishTask(t, ok)
           \/ UNCHANGED vars
  BY <1>2, <1>8 DEF Start, Pause, Close, WaitForDone, TakeTask, OnResult,
                    SetEnabled, FinishTask, registrations, vars
<1> QED
  BY <1>3, <1>5, <1>6, <1>7, <1>8 DEF Next

\* A shortened interval is never kept waiting by a deadline from before.
THEOREM DeadlineCorrect == Spec => []DeadlineWithinInterval
<1>1. Init => DeadlineWithinInterval
  <2> SUFFICES ASSUME Init, NEW d \in Domains PROVE next_due[d] <= MaxStagger
    BY DEF DeadlineWithinInterval
  <2> QED
    BY SchedulerAssumption DEF Init
<1> QED
  BY <1>1, DeadlineStep, TypeCorrect, PTL DEF Spec

-----------------------------------------------------------------------------
(* Suspension *)

\* Every step treats a suspended domain as the property says.
LEMMA SuspendedStep ==
  ASSUME TypeOK, TimerFollowsPause, [Next]_vars, NEW d \in Domains,
         paused \/ ~ enabled[d], ~ in_flight[d], in_flight'[d]
  PROVE  Request(d)
<1>1. CASE UNCHANGED in_flight
  BY <1>1
<1>2. CASE Tick
  <2>1. timeout /\ ~ paused
    BY <1>2 DEF Tick, TimerFollowsPause
  <2>2. d \notin Ready
    BY <2>1 DEF Ready, Due
  <2>3. in_flight'[d] <=> in_flight[d]
    BY <1>2, <2>2 DEF Tick, Dispatch, TypeOK
  <2> QED
    BY <2>3
<1>3. ASSUME NEW e \in Domains, Request(e) PROVE Request(d)
  <2>1. in_flight'[d] <=> in_flight[d] \/ d = e
    BY <1>3 DEF Request, Dispatch, TypeOK
  <2> QED
    BY <1>3, <2>1
<1>4. ASSUME NEW e \in Domains, OnResult(e) PROVE FALSE
  <2>1. in_flight'[d] => in_flight[d]
    BY <1>4 DEF OnResult, TypeOK
  <2> QED
    BY <2>1
<1>5. CASE \/ Elapse \/ Start \/ Pause \/ Resume \/ Close \/ WaitForDone \/ TakeTask
           \/ \E e \in Domains, on \in BOOLEAN : SetEnabled(e, on)
           \/ \E e \in Domains, cadence \in Cadences : SettingChanged(e, cadence)
           \/ \E t \in Task, ok \in BOOLEAN : FinishTask(t, ok)
           \/ UNCHANGED vars
  BY <1>1, <1>5 DEF Elapse, Start, Pause, Resume, Close, WaitForDone, TakeTask,
                    SetEnabled, SettingChanged, FinishTask, registrations, vars
<1> QED
  BY <1>2, <1>3, <1>4, <1>5 DEF Next

\* A paused schedule and a disabled collector are only sampled on request.
THEOREM SuspensionHolds == Spec => SuspendedIsNotSampled
<1>1. TypeOK /\ TimerFollowsPause /\ [Next]_vars
      => [\A d \in Domains :
            (paused \/ ~ enabled[d]) /\ ~ in_flight[d] /\ in_flight'[d] => Request(d)]_vars
  BY SuspendedStep
<1> QED
  BY <1>1, TypeCorrect, TimerCorrect, PTL DEF Spec, SuspendedIsNotSampled

-----------------------------------------------------------------------------
(* Refinement *)

\* The initial states map to those of Sampling.
LEMMA InitRefines == Init /\ OneRunPerDomain => Abstract!Init
<1> SUFFICES ASSUME Init, OneRunPerDomain PROVE Abstract!Init
  OBVIOUS
<1>1. \A d \in Domains : in_flight[d] = FALSE
  BY DEF Init
<1>2. \A d \in Domains : Cardinality(Places(d)) = 0
  BY <1>1 DEF OneRunPerDomain
<1>3. phase \in {"created", "running"}
  BY DEF Init
<1> QED
  BY <1>2, <1>3 DEF Abstract!Init

\* Every step maps to a step of Sampling or to a stutter.
LEMMA StepRefines ==
  ASSUME TypeOK, TypeOK', RunInv, TimerFollowsPause,
         OneRunPerDomain, OneRunPerDomain', [Next]_vars
  PROVE  [Abstract!Next]_(Abstract!vars)
<1> DEFINE count == [d \in Domains |-> Cardinality(Places(d))]
           isOpen == phase \in {"created", "running"}
<1>1. \A d \in Domains : count[d] = IF in_flight[d] THEN 1 ELSE 0
  BY DEF OneRunPerDomain
<1>2. \A d \in Domains : count'[d] = IF in_flight'[d] THEN 1 ELSE 0
  BY DEF OneRunPerDomain
<1>3. ASSUME UNCHANGED in_flight PROVE count' = count
  <2>1. \A d \in Domains : count'[d] = count[d]
    BY <1>1, <1>2, <1>3
  <2> QED
    BY <2>1
<1>4. ASSUME UNCHANGED in_flight, isOpen' = isOpen
      PROVE  UNCHANGED Abstract!vars
  BY <1>3, <1>4 DEF Abstract!vars
<1>5. ASSUME NEW S, S \subseteq Domains, Dispatch(S), isOpen, UNCHANGED phase,
             \A d \in S : ~ in_flight[d]
      PROVE  [Abstract!Next]_(Abstract!vars)
  <2>1. \A d \in Domains : in_flight'[d] <=> in_flight[d] \/ d \in S
    BY <1>5 DEF Dispatch
  <2>2. \A d \in S : count[d] = 0
    BY <1>1, <1>5
  <2>3. \A d \in Domains : count'[d] = IF d \in S THEN 1 ELSE count[d]
    BY <1>1, <1>2, <2>1
  <2>4. count' = [d \in Domains |-> IF d \in S THEN 1 ELSE count[d]]
    BY <2>3
  <2>5. Abstract!Ask(S)
    BY <1>5, <2>2, <2>4 DEF Abstract!Ask
  <2>6. CASE S = {}
    <3>1. count' = count
      BY <2>4, <2>6
    <3> QED
      BY <1>5, <3>1 DEF Abstract!vars
  <2>7. CASE S # {}
    <3>1. S \in (SUBSET Domains) \ {{}}
      BY <1>5, <2>7
    <3> QED
      BY <2>5, <3>1 DEF Abstract!Next
  <2> QED
    BY <2>6, <2>7
<1>6. CASE Start
  BY <1>4, <1>6 DEF Start, registrations
<1>7. CASE Tick
  <2>1. timeout /\ phase = "running" /\ phase' = phase
    BY <1>7 DEF Tick, TimerFollowsPause
  <2>2. Ready \subseteq Domains /\ \A d \in Ready : ~ in_flight[d]
    BY DEF Ready, Due
  <2>3. Dispatch(Ready)
    BY <1>7 DEF Tick
  <2> QED
    BY <1>5, <2>1, <2>2, <2>3
<1>8. ASSUME NEW e \in Domains, Request(e) PROVE [Abstract!Next]_(Abstract!vars)
  <2>1. isOpen /\ phase' = phase /\ Dispatch({e}) /\ ~ in_flight[e]
    BY <1>8 DEF Request
  <2> QED
    BY <1>5, <2>1
<1>9. ASSUME NEW e \in Domains, OnResult(e) PROVE [Abstract!Next]_(Abstract!vars)
  <2>1. in_flight[e]
    <3>1. WaitsOnce(e) /\ ReportedOnce(e) /\ Tracked(e)
      BY DEF RunInv
    <3>2. Reported(e)
      BY <1>9, <3>1, ResultStep
    <3> QED
      BY <3>1, <3>2 DEF Tracked
  <2>2. isOpen /\ phase' = phase
    BY <1>9 DEF OnResult
  <2>3. \A d \in Domains : in_flight'[d] = IF d = e THEN FALSE ELSE in_flight[d]
    BY <1>9 DEF OnResult, TypeOK
  <2>4. \A d \in Domains : count'[d] = IF d = e THEN 0 ELSE count[d]
    BY <1>1, <1>2, <2>3
  <2>5. count' = [count EXCEPT ![e] = 0]
    BY <2>4
  <2>6. Abstract!HandBack(e)
    BY <1>1, <2>1, <2>2, <2>5 DEF Abstract!HandBack
  <2> QED
    BY <2>6 DEF Abstract!Next
<1>10. CASE Close
  <2>1. isOpen /\ ~ isOpen' /\ UNCHANGED in_flight
    BY <1>10 DEF Close, registrations
  <2>2. Abstract!Shut
    BY <1>3, <2>1 DEF Abstract!Shut
  <2> QED
    BY <2>2 DEF Abstract!Next
<1>11. CASE WaitForDone
  <2>1. ~ isOpen /\ ~ isOpen' /\ UNCHANGED in_flight
    BY <1>11 DEF WaitForDone, registrations
  <2> QED
    BY <1>4, <2>1
<1>12. CASE \/ Elapse \/ Pause \/ Resume \/ TakeTask
            \/ \E e \in Domains, on \in BOOLEAN : SetEnabled(e, on)
            \/ \E e \in Domains, cadence \in Cadences : SettingChanged(e, cadence)
            \/ \E t \in Task, ok \in BOOLEAN : FinishTask(t, ok)
            \/ UNCHANGED vars
  <2>1. UNCHANGED <<in_flight, phase>>
    BY <1>12 DEF Elapse, Pause, Resume, TakeTask, SetEnabled, SettingChanged,
                 FinishTask, registrations, vars
  <2> QED
    BY <1>4, <2>1
<1> QED
  BY <1>6, <1>7, <1>8, <1>9, <1>10, <1>11, <1>12 DEF Next

\* The scheduler with its threads, queues and timer implements the promise of
\* Sampling: at most one sample outstanding, each handed back exactly once.
THEOREM Implements == Spec => ImplementsSampling
<1>1. Init => TypeOK /\ RunInv
  BY TypeInit, RunInit
<1>2. TypeOK /\ RunInv /\ [Next]_vars => (TypeOK /\ RunInv)'
  BY TypeStep, RunStep
<1>3. Spec => [](TypeOK /\ RunInv)
  BY <1>1, <1>2, PTL DEF Spec
<1>4. Init /\ OneRunPerDomain => Abstract!Init
  BY InitRefines
<1>5. TypeOK /\ TypeOK' /\ RunInv /\ TimerFollowsPause /\ OneRunPerDomain
        /\ OneRunPerDomain' /\ [Next]_vars => [Abstract!Next]_(Abstract!vars)
  BY StepRefines
<1> QED
  BY <1>3, <1>4, <1>5, OneRun, TimerCorrect, PTL
     DEF Spec, ImplementsSampling, Abstract!Spec
=============================================================================
