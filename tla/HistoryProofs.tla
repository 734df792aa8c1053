---------------------------- MODULE HistoryProofs ----------------------------
(***************************************************************************)
(* Proofs about History, for any number of samples, any limits, any cost   *)
(* of a row and any threshold of the vacuum.                               *)
(***************************************************************************)
EXTENDS History, FiniteSetTheorems, TLAPS

-----------------------------------------------------------------------------
(* The database *)

\* A set of samples is finite and not larger than their number.
LEMMA SamplesFinite ==
  ASSUME NEW n \in Nat, NEW S \in SUBSET (1 .. n)
  PROVE  IsFiniteSet(S) /\ Cardinality(S) \in 0 .. n
  <1>1. IsFiniteSet(1 .. n) /\ Cardinality(1 .. n) = n
    BY FS_Interval
  <1>2. IsFiniteSet(S) /\ Cardinality(S) <= n
    BY <1>1, FS_Subset
  <1> QED BY <1>2, FS_CardinalityType

\* Retention deletes and adds nothing; a row it deletes is too old, or is
\* followed by as many newer ones as the limit allows.
LEMMA RetainedRows ==
  ASSUME TypeOK, NEW S \in SUBSET Samples, NEW size \in Nat
  PROVE  /\ Retained(S, size) \subseteq S
         /\ \A s \in S \ Retained(S, size) :
              s <= cutoff \/ Cardinality({t \in S : t > s}) >= limit
  <1>0. /\ count \in Nat /\ cutoff \in Nat /\ limit \in Nat
        /\ S \subseteq 1 .. count
    BY HistoryAssumption DEF TypeOK, Samples
  <1>1. Retained(S, size) \subseteq S
    BY DEF Retained, Newest, Unexpired
  <1>2. ASSUME NEW s \in S, s \notin Retained(S, size), ~(s <= cutoff)
        PROVE  Cardinality({t \in S : t > s}) >= limit
    <2>1. s \in Unexpired(S)
      BY <1>0, <1>2 DEF Unexpired
    <2> DEFINE newer == {t \in Unexpired(S) : t > s}
               all == {t \in S : t > s}
    <2>2. ~(Cardinality(newer) < limit)
      BY <1>2, <2>1 DEF Retained, Newest
    <2>3. newer \subseteq all /\ all \in SUBSET (1 .. count)
          /\ newer \in SUBSET (1 .. count)
      BY <1>0 DEF Unexpired
    <2> HIDE DEF newer, all
    <2>4. Cardinality(newer) <= Cardinality(all)
      BY <1>0, <2>3, SamplesFinite, FS_Subset
    <2>5. Cardinality(newer) \in Nat /\ Cardinality(all) \in Nat
      BY <1>0, <2>3, SamplesFinite
    <2>6. Cardinality(all) >= limit
      BY <1>0, <2>2, <2>4, <2>5
    <2> QED BY <2>6 DEF all
  <1> QED BY <1>1, <1>2

\* The file always has room for the rows that are kept.
LEMMA PagesSuffice ==
  ASSUME TypeOK, NEW S \in SUBSET Samples,
         NEW size \in Cardinality(S) .. MaxSamples
  PROVE  PagesAfter(S, size) \in Cardinality(Retained(S, size)) .. MaxSamples
  <1>0. count \in Nat /\ S \in SUBSET (1 .. count) /\ MaxSamples \in Nat
    BY HistoryAssumption DEF TypeOK, Samples
  <1>1. IsFiniteSet(S) /\ Cardinality(S) \in Nat
    BY <1>0, SamplesFinite
  <1>2. Retained(S, size) \subseteq S
    BY <1>1, RetainedRows
  <1>3. /\ Cardinality(Retained(S, size)) \in Nat
        /\ Cardinality(Retained(S, size)) <= Cardinality(S)
    BY <1>1, <1>2, FS_Subset, FS_CardinalityType
  <1> QED BY <1>0, <1>1, <1>3 DEF PagesAfter

\* What a flush does to the database.
LEMMA FlushRows ==
  ASSUME TypeOK, NEW on \in BOOLEAN, Flush(on)
  PROVE  /\ pending' = {} /\ due' = FALSE
         /\ rows' \subseteq Written
         /\ \A s \in Written \ rows' :
              s <= cutoff \/ Cardinality({t \in Written : t > s}) >= limit
         /\ pages' \in Cardinality(rows') .. MaxSamples
  <1> DEFINE size == Larger(pages, Cardinality(Written))
  <1>0. /\ count \in 0 .. MaxSamples /\ MaxSamples \in Nat
        /\ Written \in SUBSET Samples /\ Written \in SUBSET (1 .. count)
    BY HistoryAssumption DEF TypeOK, Samples, Written
  <1>1. Cardinality(Written) \in 0 .. count
    BY <1>0, SamplesFinite
  <1>2. Cardinality(rows) \in 0 .. count
    <2>1. rows \in SUBSET (1 .. count)
      BY DEF TypeOK, Samples
    <2> QED BY <1>0, <2>1, SamplesFinite
  <1>3. size \in Cardinality(Written) .. MaxSamples
    BY <1>0, <1>1, <1>2 DEF TypeOK, Larger
  <1>4. pending' = {} /\ due' = FALSE
    BY DEF Flush, ApplyRetention, TypeOK
  <1>5. \/ rows' = Written /\ pages' = size
        \/ rows' = Retained(Written, size) /\ pages' = PagesAfter(Written, size)
    BY DEF Flush, ApplyRetention
  <1> HIDE DEF size
  <1>6. size \in Nat
    BY <1>0, <1>1, <1>3
  <1> QED BY <1>0, <1>3, <1>4, <1>5, <1>6, RetainedRows, PagesSuffice

-----------------------------------------------------------------------------
(* Type correctness *)

\* TypeOK holds at first.
LEMMA InitType == Init => TypeOK
  <1>1. Cardinality({}) = 0
    BY FS_EmptySet
  <1>2. ASSUME Init
        PROVE  pages \in Cardinality(rows) .. MaxSamples
    BY <1>1, <1>2, HistoryAssumption DEF Init
  <1>3. ASSUME Init
        PROVE  /\ count \in 0 .. MaxSamples /\ cutoff \in 0 .. count
               /\ sessions \in 0 .. MaxSessions /\ session \in 0 .. sessions
               /\ limit \in Limits
               /\ pending \subseteq Samples /\ rows \subseteq Samples
    BY <1>3, HistoryAssumption DEF Init, Samples
  <1> QED BY <1>2, <1>3 DEF Init, TypeOK

\* The part of TypeOK that talks about the tables.
LEMMA FlushType ==
  ASSUME TypeOK, NEW on \in BOOLEAN, Flush(on), UNCHANGED count
  PROVE  /\ pending' = {} /\ due' \in BOOLEAN
         /\ rows' \subseteq Samples'
         /\ pages' \in Cardinality(rows') .. MaxSamples
  BY FlushRows DEF TypeOK, Written, Samples

\* Every step keeps the types.
LEMMA NextType == TypeOK /\ [Next]_vars => TypeOK'
  <1> SUFFICES ASSUME TypeOK, [Next]_vars
               PROVE  TypeOK'
    OBVIOUS
  <1> USE DEF Samples, settings, table
  <1>1. ASSUME NEW on \in BOOLEAN, NEW broken \in BOOLEAN, Start(on, broken)
        PROVE  TypeOK'
    <2>1. rows' \subseteq Samples /\ pages' \in Cardinality(rows') .. MaxSamples
      <3>1. CASE UNCHANGED table
        BY <3>1 DEF TypeOK
      <3>2. CASE rows' = Retained(rows, pages) /\ pages' = PagesAfter(rows, pages)
        <4>1. rows \in SUBSET Samples /\ pages \in Cardinality(rows) .. MaxSamples
          BY DEF TypeOK
        <4>2. pages \in Nat
          BY <4>1, SamplesFinite, HistoryAssumption DEF TypeOK
        <4> QED BY <3>2, <4>1, <4>2, RetainedRows, PagesSuffice
      <3> QED BY <1>1, <3>1, <3>2 DEF Start
    <2> QED BY <1>1, <2>1 DEF Start, TypeOK
  <1>2. CASE Record
    <2>1. /\ count' = count + 1 /\ count' \in 0 .. MaxSamples
          /\ pending' \subseteq 1 .. count'
          /\ rows' \subseteq 1 .. count' /\ cutoff' \in 0 .. count'
      BY <1>2, HistoryAssumption DEF Record, TypeOK
    <2> QED BY <1>2, <2>1 DEF Record, TypeOK
  <1>3. CASE FlushTimeout
    BY <1>3, FlushType DEF FlushTimeout, TypeOK
  <1>4. CASE Enable \/ ResetSettings
    BY <1>4 DEF Enable, ResetSettings, TypeOK
  <1>13. CASE StartSession
    <2>1. CASE UNCHANGED <<sessions, session, open>>
      BY <1>13, <2>1 DEF StartSession, TypeOK
    <2>2. CASE writable
      <3>0. /\ sessions \in 0 .. MaxSessions /\ open \subseteq 1 .. sessions
            /\ sessions < MaxSessions /\ sessions' = sessions + 1
            /\ session' = sessions + 1 /\ open' = open \cup {sessions + 1}
        BY <1>13, <2>2 DEF StartSession, TypeOK
      <3>1. /\ sessions' \in 0 .. MaxSessions
            /\ session' \in 0 .. sessions'
            /\ open' \subseteq 1 .. sessions'
        BY <3>0, HistoryAssumption
      <3> QED BY <1>13, <3>1 DEF StartSession, TypeOK
    <2> QED BY <1>13, <2>1, <2>2 DEF StartSession
  <1>14. CASE StopSession
    <2>1. session' \in 0 .. sessions' /\ open' \subseteq 1 .. sessions'
      BY <1>14 DEF StopSession, Finish, TypeOK
    <2> QED BY <1>14, <2>1 DEF StopSession, TypeOK
  <1>5. CASE Disable
    BY <1>5, FlushType DEF Disable, TypeOK
  <1>6. ASSUME NEW n \in Limits, NEW c \in 0 .. count, SetLimits(n, c)
        PROVE  TypeOK'
    BY <1>6 DEF SetLimits, TypeOK
  <1>7. CASE Close
    <2>1. session' \in 0 .. sessions' /\ open' \subseteq 1 .. sessions'
      BY <1>7 DEF Close, Finish, TypeOK
    <2>2. pending' = {} /\ due' \in BOOLEAN /\ rows' \subseteq Samples'
          /\ pages' \in Cardinality(rows') .. MaxSamples
      BY <1>7, FlushType DEF Close, TypeOK
    <2> QED BY <1>7, <2>1, <2>2 DEF Close, TypeOK
  <1>8. CASE Crash
    <2>1. 0 \in 0 .. sessions
      BY HistoryAssumption DEF TypeOK
    <2> QED BY <1>8, <2>1 DEF Crash, TypeOK
  <1>9. CASE Age
    <2>1. cutoff' \in 0 .. count
      BY <1>9 DEF Age, TypeOK
    <2> QED BY <1>9, <2>1 DEF Age, TypeOK
  <1>10. CASE RetentionDue
    BY <1>10 DEF RetentionDue, TypeOK
  <1>12. CASE DiskFills
    <2>1. writable' \in BOOLEAN
      BY <1>12 DEF DiskFills
    <2> QED BY <1>12, <2>1 DEF DiskFills, TypeOK
  <1>11. CASE UNCHANGED vars
    BY <1>11 DEF vars, TypeOK
  <1> QED BY <1>1, <1>2, <1>3, <1>4, <1>5, <1>6, <1>7, <1>8, <1>9, <1>10, <1>11,
          <1>12, <1>13, <1>14 DEF Next

\* Every variable keeps its type, the file has room for its rows, and nothing
\* is left in memory when the process has ended.
THEOREM TypeCorrect == Spec => []TypeOK
  BY InitType, NextType, PTL DEF Spec

-----------------------------------------------------------------------------
(* Write-behind *)

\* Every step keeps memory and table apart and in order.
LEMMA OrderStep ==
  TypeOK /\ WrittenOnceInOrder /\ [Next]_vars => WrittenOnceInOrder'
  <1> SUFFICES ASSUME TypeOK, WrittenOnceInOrder, [Next]_vars,
                      NEW p \in pending', NEW r \in rows'
               PROVE  r < p
    BY DEF WrittenOnceInOrder
  <1> USE DEF WrittenOnceInOrder, settings, table
  <1>1. CASE pending' = {}
    BY <1>1
  <1>2. CASE pending' = pending /\ rows' = rows
    BY <1>2
  <1>3. CASE Record
    BY <1>3 DEF Record, TypeOK, Samples
  <1>4. CASE \E on, broken \in BOOLEAN : Start(on, broken)
    BY <1>4 DEF Start, TypeOK
  <1>5. CASE FlushTimeout \/ Disable \/ Close
    BY <1>1, <1>5, FlushRows DEF FlushTimeout, Disable, Close, TypeOK
  <1> QED BY <1>1, <1>2, <1>3, <1>4, <1>5
          DEF Next, Enable, ResetSettings, SetLimits, StartSession, StopSession,
              Crash, Age, RetentionDue, DiskFills, vars

\* No batch is written twice or out of order.
THEOREM WrittenCorrectly == Spec => []WrittenOnceInOrder
  <1>1. Init => WrittenOnceInOrder
    BY DEF Init, WrittenOnceInOrder
  <1> QED BY <1>1, OrderStep, TypeCorrect, PTL DEF Spec

\* Every step keeps memory empty while persistence is off.
LEMMA OffStep ==
  TypeOK /\ NothingWaitsWhileOff /\ [Next]_vars => NothingWaitsWhileOff'
  <1> SUFFICES ASSUME TypeOK, NothingWaitsWhileOff, [Next]_vars,
                      ~enabled' \/ degraded'
               PROVE  pending' = {}
    BY DEF NothingWaitsWhileOff
  <1> USE DEF NothingWaitsWhileOff, settings, table
  <1>1. CASE pending' = {}
    BY <1>1
  <1>2. CASE enabled' = enabled /\ degraded' = degraded /\ pending' = pending
    BY <1>2
  <1>3. CASE Record
    BY <1>3 DEF Record, Persisting
  <1>4. CASE \E on, broken \in BOOLEAN : Start(on, broken)
    BY <1>4 DEF Start, TypeOK
  <1>5. CASE FlushTimeout \/ Disable \/ Close
    BY <1>1, <1>5, FlushRows DEF FlushTimeout, Disable, Close, TypeOK
  <1>6. CASE Enable \/ ResetSettings
    BY <1>6 DEF Enable, ResetSettings
  <1> QED BY <1>1, <1>2, <1>3, <1>4, <1>5, <1>6
          DEF Next, SetLimits, StartSession, StopSession,
              Crash, Age, RetentionDue, DiskFills, vars

\* Nothing waits in memory while persistence is switched off.
THEOREM NothingWaits == Spec => []NothingWaitsWhileOff
  <1>1. Init => NothingWaitsWhileOff
    BY DEF Init, NothingWaitsWhileOff
  <1> QED BY <1>1, OffStep, TypeCorrect, PTL DEF Spec

\* A flush loses only what its reasons allow.
LEMMA FlushLoses ==
  ASSUME TypeOK, NEW on \in BOOLEAN, Flush(on), NEW s \in Held, s \notin Held'
  PROVE  \/ s \in pending /\ ~writable
         \/ s <= cutoff
         \/ Cardinality({t \in Held : t > s}) >= limit
         \/ degraded
  <1>1. CASE writable /\ ~degraded
    <2>1. Written = Held
      BY <1>1 DEF Written, Held
    <2>2. s \in Written \ rows'
      BY <2>1 DEF Held
    <2> QED BY <2>1, <2>2, FlushRows
  <1>2. CASE ~writable /\ ~degraded /\ s \in rows
    <2>1. Retained(rows, Larger(pages, Cardinality(rows))) = rows
      BY <1>2 DEF Retained
    <2>2. rows' = rows
      BY <1>2, <2>1 DEF Flush, ApplyRetention, Written
    <2> QED BY <1>2, <2>2 DEF Held
  <1> QED BY <1>1, <1>2 DEF Held

\* A sample disappears only for one of the reasons.
THEOREM LossesExplained == Spec => NothingLostWithoutReason
  <1>1. ASSUME TypeOK, NothingWaitsWhileOff, [Next]_vars, NEW s \in Held \ Held'
        PROVE  \/ s \in pending /\ (~writable \/ Crash)
               \/ s <= cutoff
               \/ Cardinality({t \in Held : t > s}) >= limit
    <2> USE DEF settings, table
    <2>1. CASE pending \subseteq pending' /\ rows' = rows
      BY <1>1, <2>1 DEF Held
    <2>2. CASE Crash
      BY <1>1, <2>2 DEF Crash, Held
    <2>3. CASE \E on, broken \in BOOLEAN : Start(on, broken)
      <3>1. /\ pending = {} /\ pending' = {}
            /\ rows' = rows \/ rows' = Retained(rows, pages)
        BY <1>1, <2>3 DEF Start, TypeOK
      <3>2. s \in rows /\ s \notin rows' /\ Held = rows
        BY <1>1, <3>1 DEF Held
      <3>3. rows \in SUBSET Samples /\ pages \in Nat
        <4>1. /\ rows \in SUBSET Samples /\ count \in Nat
              /\ pages \in Cardinality(rows) .. MaxSamples
          BY <1>1, HistoryAssumption DEF TypeOK
        <4>2. Cardinality(rows) \in Nat
          <5>1. rows \in SUBSET (1 .. count)
            BY <4>1 DEF Samples
          <5> QED BY <4>1, <5>1, SamplesFinite
        <4> QED BY <4>1, <4>2, HistoryAssumption
      <3> QED BY <1>1, <3>1, <3>2, <3>3, RetainedRows
    <2>4. ASSUME NEW on \in BOOLEAN, Flush(on)
          PROVE  \/ s \in pending /\ ~writable
                 \/ s <= cutoff
                 \/ Cardinality({t \in Held : t > s}) >= limit
      <3>1. CASE ~degraded
        BY <1>1, <2>4, <3>1, FlushLoses
      <3>2. CASE degraded
        <4>1. pending = {} /\ Written = rows
          BY <1>1, <3>2 DEF NothingWaitsWhileOff, Written
        <4>2. rows' = rows
          BY <2>4, <3>2, <4>1 DEF Flush, ApplyRetention
        <4> QED BY <1>1, <4>1, <4>2 DEF Held
      <3> QED BY <3>1, <3>2
    <2>5. CASE FlushTimeout \/ Disable \/ Close
      BY <1>1, <2>4, <2>5 DEF FlushTimeout, Disable, Close, TypeOK
    <2>6. CASE Record
      BY <1>1, <2>1, <2>6 DEF Record
    <2> QED BY <1>1, <2>1, <2>2, <2>3, <2>5, <2>6
            DEF Next, Enable, ResetSettings, SetLimits, StartSession,
                StopSession, Age, RetentionDue, DiskFills, vars
  <1>2. TypeOK /\ NothingWaitsWhileOff /\ [Next]_vars
          => [\A s \in Held \ Held' :
                \/ s \in pending /\ (~writable \/ Crash)
                \/ s <= cutoff
                \/ Cardinality({t \in Held : t > s}) >= limit]_vars
    BY <1>1
  <1> QED BY <1>2, NothingWaits, TypeCorrect, PTL DEF Spec, NothingLostWithoutReason

-----------------------------------------------------------------------------
(* Sessions *)

\* The service lets go of its own session with an end, unless it is killed or
\* the disk refuses the update, and ends no other one.
THEOREM SessionsCorrect == Spec => SessionsEnd
  <1>1. ASSUME TypeOK, [Next]_vars
        PROVE  /\ session # 0 /\ session' # session
                    => session \notin open' \/ Crash \/ ~writable
               /\ open \ open' \subseteq {session}
    <2>1. CASE session' = session /\ open' = open
      BY <2>1
    <2>2. CASE StopSession \/ Close
      BY <2>2 DEF StopSession, Close, Finish
    <2>3. CASE StartSession
      BY <2>3 DEF StartSession
    <2>4. CASE Crash
      BY <2>4 DEF Crash
    <2> QED BY <1>1, <2>1, <2>2, <2>3, <2>4
            DEF Next, Start, Record, FlushTimeout, Enable, Disable,
                ResetSettings, SetLimits, Age, RetentionDue, DiskFills, vars
  <1>2. TypeOK /\ [Next]_vars
          => [/\ session # 0 /\ session' # session
                   => session \notin open' \/ Crash \/ ~writable
              /\ open \ open' \subseteq {session}]_vars
    BY <1>1
  <1> QED BY <1>2, TypeCorrect, PTL DEF Spec, SessionsEnd

=============================================================================
