---------------------------- MODULE DevicesProofs ----------------------------
(***************************************************************************)
(* What the collectors keep is bounded and keeps to the units it was read  *)
(* from: for any names, units, counters and times, with units coming and   *)
(* going between the steps of a sample and the inspector running beside.   *)
(***************************************************************************)
EXTENDS Devices, TLAPS

\* What the caches hold entries of.
Kept == DOMAIN rates \cup DOMAIN static

\* Each collector goes through its own steps, and only processes are inspected.
StagesInv ==
  /\ pc = "prune" => kind = "network"
  /\ pc = "describe" => kind \in {"network", "storage"}
  /\ pc = "visit" => kind = "processes"
  /\ inspecting # NoUnit => kind = "processes"
  /\ pc = "describe" /\ kind = "network" => DOMAIN tracked = DOMAIN drafts
  /\ pc = "visit" => DOMAIN drafts \subseteq DOMAIN current
  /\ \A n \in DOMAIN drafts : drafts[n].unit \in Units

\* The strengthening of BookkeepingIsBounded to a sample under way: what is kept is
\* of a name that is tracked, that the sample has found, or that was meddled with.
KeptInv ==
  kind # "storage" =>
    /\ pc \in {"idle", "describe"} => Kept \subseteq DOMAIN tracked \cup meddled
    /\ pc = "prune" => Kept \subseteq DOMAIN tracked \cup meddled \cup DOMAIN drafts
    /\ pc = "visit" => Kept \subseteq DOMAIN tracked \cup meddled \cup DOMAIN current

\* The unit that bears a name has been seen, also since the names were listed.
SeenInv ==
  \A n \in Names :
    /\ present[n] \in seen[n] \cup {NoUnit}
    /\ pc # "idle" => fresh[n] \subseteq seen[n] /\ present[n] \in fresh[n] \cup {NoUnit}

\* The strengthening of RowsKeepToTheirUnits to the caches and to the drafts.
OwnInv ==
  kind # "storage" =>
    \A n \in Names \ meddled :
      /\ n \in DOMAIN rates => rates[n].unit \in seen[n]
      /\ n \in DOMAIN static => static[n] \in seen[n] \cup {NoUnit}
      /\ n \in DOMAIN drafts =>
           {drafts[n].from, drafts[n].static, drafts[n].health} \subseteq seen[n] \cup {NoUnit}

DevicesInv == TypeOK /\ StagesInv /\ KeptInv /\ SeenInv /\ OwnInv

-----------------------------------------------------------------------------
(* The operators on caches *)

\* A function on some of the names.
LEMMA IsPartial ==
  ASSUME NEW S, NEW D \in SUBSET Names, NEW f \in [D -> S]
  PROVE  f \in Partial(S)
BY DEF Partial

\* What a function on some of the names is.
LEMMA PartialIs ==
  ASSUME NEW S, NEW f \in Partial(S)
  PROVE  /\ DOMAIN f \subseteq Names
         /\ f \in [DOMAIN f -> S]
         /\ \A n \in DOMAIN f : f[n] \in S
<1>1. PICK D \in SUBSET Names : f \in [D -> S]
  BY DEF Partial
<1> QED
  BY <1>1

\* Nothing is kept at the start.
LEMMA EmptyIsPartial ==
  ASSUME NEW S
  PROVE  Empty \in Partial(S) /\ DOMAIN Empty = {}
<1>1. Empty \in [{} -> S]
  BY DEF Empty
<1> QED
  BY <1>1, IsPartial DEF Empty

\* Dropping entries leaves the others as they are.
LEMMA DropFacts ==
  ASSUME NEW S, NEW f \in Partial(S), NEW T
  PROVE  /\ Drop(f, T) \in Partial(S)
         /\ DOMAIN Drop(f, T) = DOMAIN f \ T
         /\ \A n \in DOMAIN f \ T : Drop(f, T)[n] = f[n]
<1>1. /\ DOMAIN f \subseteq Names
      /\ \A n \in DOMAIN f : f[n] \in S
  BY PartialIs
<1>2. Drop(f, T) \in [DOMAIN f \ T -> S]
  BY <1>1 DEF Drop, Restrict
<1> QED
  BY <1>1, <1>2, IsPartial DEF Drop, Restrict

\* forget() drops the names it is given, and leaves every entry it does not drop.
LEMMA ForgetFacts ==
  ASSUME TypeOK, NEW T
  PROVE  /\ Forget(T) \in Partial(Baselines)
         /\ DOMAIN Forget(T) \subseteq DOMAIN rates \ T
         /\ \A n \in DOMAIN Forget(T) : Forget(T)[n] = rates[n]
<1> DEFINE W == T \cup UNION {Nested[n] : n \in T}
<1>1. rates \in Partial(Baselines)
  BY DEF TypeOK
<1>2. /\ Drop(rates, W) \in Partial(Baselines)
      /\ DOMAIN Drop(rates, W) = DOMAIN rates \ W
      /\ \A n \in DOMAIN rates \ W : Drop(rates, W)[n] = rates[n]
  BY <1>1, DropFacts
<1>3. Forget(T) = Drop(rates, W) /\ T \subseteq W
  BY DEF Forget
<1> QED
  BY <1>2, <1>3

\* A reading is a base, and the figure taken from the base of a name is of the
\* unit the base was read from.
LEMMA ReadingFacts ==
  ASSUME DevicesAssumption, TypeOK, NEW n \in Present, NEW at \in 0..MaxTime
  PROVE  /\ present[n] \in Units
         /\ Baseline(n, at) \in Baselines
         /\ Baseline(n, at).unit = present[n]
         /\ From(n, at) \in Known
         /\ From(n, at) # NoUnit => n \in DOMAIN rates /\ From(n, at) = rates[n].unit
<1>1. present[n] \in Units /\ n \in Names
  BY DEF TypeOK, Present, Known
<1>2. count[present[n]] \in 0..MaxCount
  BY <1>1 DEF TypeOK
<1>3. \A m \in DOMAIN rates : rates[m] \in Baselines
  BY PartialIs DEF TypeOK
<1>4. From(n, at) # NoUnit => n \in DOMAIN rates /\ From(n, at) = rates[n].unit
  <2>1. Increase(n, at) > 0 => n \in DOMAIN rates
    BY <1>2 DEF Increase
  <2> QED
    BY <2>1 DEF From
<1>5. Baseline(n, at) \in Baselines /\ Baseline(n, at).unit = present[n]
  BY <1>1, <1>2 DEF Baseline, Baselines
<1>6. \A m \in DOMAIN rates : rates[m].unit \in Units
  BY <1>3 DEF Baselines
<1> QED
  BY <1>1, <1>4, <1>5, <1>6 DEF Known

-----------------------------------------------------------------------------
(* The initial state *)

\* Nothing is known, nothing kept.
LEMMA InitDevices ==
  ASSUME DevicesAssumption, Init
  PROVE  DevicesInv
<1> USE DEF Init
<1>1. TypeOK
  BY EmptyIsPartial DEF TypeOK, DevicesAssumption, Known
<1>2. StagesInv /\ KeptInv /\ SeenInv /\ OwnInv
  BY EmptyIsPartial DEF StagesInv, KeptInv, SeenInv, OwnInv, Kept
<1> QED
  BY <1>1, <1>2 DEF DevicesInv

-----------------------------------------------------------------------------
(* The machine *)

\* A unit that takes a name has been seen since, and known to be new to a sample
\* that listed the names before.
LEMMA PlugKeeps ==
  ASSUME DevicesAssumption, DevicesInv, NEW n \in Names, NEW u \in Units, Plug(n, u)
  PROVE  DevicesInv'
<1> USE DEF Plug, caches, sample
<1>1. TypeOK'
  BY DEF TypeOK, DevicesInv, Known
<1>2. StagesInv' /\ KeptInv'
  BY DEF DevicesInv, StagesInv, KeptInv, Kept
<1>3. \A m \in Names : seen[m] \subseteq seen'[m] /\ fresh[m] \subseteq fresh'[m]
  BY DEF DevicesInv, TypeOK
<1>4. SeenInv'
  <2> USE DEF SeenInv
  <2> TAKE m \in Names
  <2>1. CASE m = n
    BY <2>1 DEF DevicesInv, TypeOK
  <2>2. CASE m # n
    BY <2>2 DEF DevicesInv, TypeOK
  <2> QED
    BY <2>1, <2>2
<1>5. OwnInv'
  BY <1>3 DEF DevicesInv, OwnInv
<1> QED
  BY <1>1, <1>2, <1>4, <1>5 DEF DevicesInv

\* A unit that goes leaves what is kept of it.
LEMMA UnplugKeeps ==
  ASSUME DevicesAssumption, DevicesInv, NEW n \in Names, Unplug(n)
  PROVE  DevicesInv'
<1> USE DEF Unplug, caches, sample, ghosts
<1>1. TypeOK'
  <2>1. 0 \in 0..MaxCount
    BY DEF DevicesAssumption
  <2>2. /\ present' \in [Names -> Known]
        /\ count' \in [Units -> 0..MaxCount]
    BY <2>1 DEF TypeOK, DevicesInv, Known
  <2> QED
    BY <2>2 DEF TypeOK, DevicesInv
<1>2. StagesInv' /\ KeptInv' /\ OwnInv'
  BY DEF DevicesInv, StagesInv, KeptInv, OwnInv, Kept
<1>3. SeenInv'
  BY DEF DevicesInv, SeenInv, TypeOK
<1> QED
  BY <1>1, <1>2, <1>3 DEF DevicesInv

\* Counters count.
LEMMA CountKeeps ==
  ASSUME DevicesAssumption, DevicesInv, NEW n \in Names, Count(n)
  PROVE  DevicesInv'
<1> USE DEF Count, caches, sample, ghosts
<1>1. count' \in [Units -> 0..MaxCount]
  <2>1. present[n] \in Units
    BY DEF DevicesInv, TypeOK, Present, Known
  <2>2. count[present[n]] + 1 \in 0..MaxCount
    BY <2>1 DEF DevicesInv, TypeOK, DevicesAssumption
  <2> QED
    BY <2>1, <2>2 DEF DevicesInv, TypeOK
<1>2. TypeOK'
  BY <1>1 DEF TypeOK, DevicesInv
<1>3. StagesInv' /\ KeptInv' /\ OwnInv' /\ SeenInv'
  BY DEF DevicesInv, StagesInv, KeptInv, OwnInv, SeenInv, Kept
<1> QED
  BY <1>2, <1>3 DEF DevicesInv

\* Time goes by.
LEMMA ElapseKeeps ==
  ASSUME DevicesAssumption, DevicesInv, Elapse
  PROVE  DevicesInv'
<1> USE DEF Elapse, caches, sample, ghosts
<1>1. now' \in 0..MaxTime
  BY DEF DevicesInv, TypeOK, DevicesAssumption
<1>2. TypeOK'
  BY <1>1 DEF TypeOK, DevicesInv
<1>3. StagesInv' /\ KeptInv' /\ OwnInv' /\ SeenInv'
  BY DEF DevicesInv, StagesInv, KeptInv, OwnInv, SeenInv, Kept
<1> QED
  BY <1>2, <1>3 DEF DevicesInv

-----------------------------------------------------------------------------
(* The end of a sample *)

\* A sample that ends without having forgotten anything leaves no trace but its
\* snapshot, and no bookkeeping of a name is lost from sight.
LEMMA EndKeeps ==
  ASSUME DevicesAssumption, DevicesInv, pc' = "idle", todo' = {}, current' = Empty,
         drafts' = Empty, fresh' = [n \in Names |-> {}],
         UNCHANGED <<present, kind, inspecting, seen>>,
         kind # "storage" => Kept' \subseteq DOMAIN tracked' \cup meddled',
         kind # "storage" =>
           \A n \in Names \ meddled' :
             /\ n \in DOMAIN rates' => rates'[n].unit \in seen[n]
             /\ n \in DOMAIN static' => static'[n] \in seen[n] \cup {NoUnit}
  PROVE  (StagesInv /\ KeptInv /\ SeenInv /\ OwnInv)'
<1>1. StagesInv' /\ KeptInv' /\ OwnInv'
  BY EmptyIsPartial DEF DevicesInv, StagesInv, KeptInv, OwnInv
<1>2. SeenInv'
  BY DEF DevicesInv, SeenInv
<1> QED
  BY <1>1, <1>2

\* Whatever raises: the snapshot is empty, and what a later sample will not drop
\* is counted among what was left behind.
LEMMA GiveUpKeeps ==
  ASSUME DevicesAssumption, DevicesInv, GiveUp,
         UNCHANGED <<environment, tracked, health, inspecting, seen>>,
         rates' \in Partial(Baselines), static' \in Partial(Known),
         DOMAIN rates' \subseteq DOMAIN rates, DOMAIN static' \subseteq DOMAIN static,
         \A n \in DOMAIN rates' : rates'[n] = rates[n],
         \A n \in DOMAIN static' : static'[n] = static[n]
  PROVE  DevicesInv'
<1> USE DEF GiveUp, Publish, environment
<1>1. DOMAIN rates' \subseteq Names /\ DOMAIN static' \subseteq Names
  BY PartialIs
<1>2. TypeOK'
  <2>1. meddled' \subseteq Names
    BY <1>1 DEF Orphans, DevicesInv, TypeOK
  <2>2. moment' \in 0..MaxTime
    BY DEF DevicesAssumption
  <2>3. fresh' \in [Names -> SUBSET Units]
    OBVIOUS
  <2>4. rows' \in Partial(Rows) /\ current' \in Partial(Units) /\ drafts' \in Partial(Rows)
    BY EmptyIsPartial
  <2> QED
    BY <2>1, <2>2, <2>3, <2>4 DEF TypeOK, DevicesInv
<1>3. Kept' \subseteq DOMAIN tracked' \cup meddled'
  BY DEF Orphans, Kept
<1>4. ASSUME kind # "storage", NEW n \in Names \ meddled'
      PROVE  /\ n \in DOMAIN rates' => rates'[n].unit \in seen[n]
             /\ n \in DOMAIN static' => static'[n] \in seen[n] \cup {NoUnit}
  BY <1>4 DEF DevicesInv, OwnInv
<1>5. (StagesInv /\ KeptInv /\ SeenInv /\ OwnInv)'
  BY <1>3, <1>4, EndKeeps
<1> QED
  BY <1>2, <1>5 DEF DevicesInv

\* A sample that raises keeps the caches as they are.
LEMMA FailKeeps ==
  ASSUME DevicesAssumption, DevicesInv, Fail
  PROVE  DevicesInv'
<1> USE DEF Fail, caches
<1>1. rates' \in Partial(Baselines) /\ static' \in Partial(Known)
  BY DEF DevicesInv, TypeOK
<1> QED
  BY <1>1, GiveUpKeeps

\* A sample of the processes that raises has dropped some of those that exited.
LEMMA SwapRaisesKeeps ==
  ASSUME DevicesAssumption, DevicesInv, NEW done \in SUBSET Names, SwapRaises(done)
  PROVE  DevicesInv'
<1>1. TypeOK /\ static \in Partial(Known)
  BY DEF DevicesInv, TypeOK
<1>2. /\ rates' = Forget(done) /\ static' = Drop(static, done)
      /\ GiveUp
      /\ UNCHANGED <<environment, tracked, health, inspecting, seen>>
  BY DEF SwapRaises
<1>3. /\ rates' \in Partial(Baselines)
      /\ DOMAIN rates' \subseteq DOMAIN rates
      /\ \A n \in DOMAIN rates' : rates'[n] = rates[n]
  BY <1>1, <1>2, ForgetFacts
<1>4. /\ static' \in Partial(Known)
      /\ DOMAIN static' = DOMAIN static \ done
      /\ \A n \in DOMAIN static \ done : static'[n] = static[n]
  BY <1>1, <1>2, DropFacts
<1> QED
  BY <1>2, <1>3, <1>4, GiveUpKeeps

-----------------------------------------------------------------------------
(* Interfaces and disks *)

\* A name that is listed gets a base of the unit that bears it, and a figure taken
\* from the base it had.
LEMMA ReadCountersKeeps ==
  ASSUME DevicesAssumption, DevicesInv, NEW readable \in BOOLEAN, ReadCounters(readable)
  PROVE  DevicesInv'
<1> DEFINE S == IF readable THEN Present ELSE {}
<1>1. /\ pc = "idle" /\ kind \in {"network", "storage"}
      /\ drafts' = [n \in S |-> [unit |-> present[n], from |-> From(n, now),
                                 static |-> NoUnit, health |-> NoUnit]]
      /\ rates' = [n \in DOMAIN rates \cup S |-> IF n \in S THEN Baseline(n, now)
                                                            ELSE rates[n]]
      /\ moment' = now
      /\ pc' = IF kind = "network" THEN "prune" ELSE "describe"
      /\ trouble' = IF readable THEN "none" ELSE "unread"
      /\ fresh' = [n \in Names |-> {present[n]} \ {NoUnit}]
      /\ UNCHANGED <<kind, present, count, now, static, tracked, health, todo, current, rows,
                     inspecting, seen, meddled>>
  BY DEF ReadCounters, Put, environment
<1>2. S \subseteq Names /\ S \subseteq Present
  BY DEF Present
<1> HIDE DEF S
<1>3. TypeOK /\ now \in 0..MaxTime
  BY DEF DevicesInv, TypeOK
<1>4. \A n \in S : /\ present[n] \in Units
                   /\ Baseline(n, now) \in Baselines
                   /\ Baseline(n, now).unit = present[n]
                   /\ From(n, now) \in Known
                   /\ From(n, now) # NoUnit => n \in DOMAIN rates /\ From(n, now) = rates[n].unit
  BY <1>2, <1>3, ReadingFacts
<1>5. DOMAIN rates \subseteq Names /\ \A n \in DOMAIN rates : rates[n] \in Baselines
  BY <1>3, PartialIs DEF TypeOK
<1>6. rates' \in Partial(Baselines)
  <2>1. rates' \in [DOMAIN rates \cup S -> Baselines]
    BY <1>1, <1>4, <1>5
  <2> QED
    BY <2>1, <1>2, <1>5, IsPartial
<1>7. drafts' \in Partial(Rows)
  <2>1. \A n \in S : drafts'[n] \in Rows
    BY <1>1, <1>4 DEF Rows, Known
  <2>2. drafts' \in [S -> Rows]
    BY <1>1, <2>1
  <2> QED
    BY <2>2, <1>2, IsPartial
<1>8. TypeOK'
  <2>1. fresh' \in [Names -> SUBSET Units]
    BY <1>1 DEF DevicesInv, TypeOK, Known
  <2>2. pc' \in {"idle", "prune", "describe", "visit"} /\ trouble' \in {"none", "unread", "failed"}
    BY <1>1
  <2> QED
    BY <1>1, <1>6, <1>7, <2>1, <2>2 DEF DevicesInv, TypeOK
<1>9. DOMAIN drafts' = S /\ DOMAIN rates' = DOMAIN rates \cup S
  BY <1>1
<1>10. StagesInv'
  BY <1>1, <1>4, <1>9 DEF DevicesInv, StagesInv
<1>11. KeptInv'
  BY <1>1, <1>9 DEF DevicesInv, KeptInv, Kept
<1>12. SeenInv'
  BY <1>1 DEF DevicesInv, SeenInv
<1>13. OwnInv'
  <2> SUFFICES ASSUME kind # "storage", NEW n \in Names \ meddled
               PROVE  /\ n \in DOMAIN rates' => rates'[n].unit \in seen[n]
                      /\ n \in DOMAIN static => static[n] \in seen[n] \cup {NoUnit}
                      /\ n \in S =>
                           {drafts'[n].from, drafts'[n].static, drafts'[n].health}
                             \subseteq seen[n] \cup {NoUnit}
    BY <1>1, <1>9 DEF OwnInv
  <2>1. n \in DOMAIN rates => rates[n].unit \in seen[n]
    BY DEF DevicesInv, OwnInv
  <2>2. n \in S => present[n] \in seen[n]
    BY <1>4 DEF DevicesInv, SeenInv, DevicesAssumption
  <2>3. n \in DOMAIN rates' => rates'[n].unit \in seen[n]
    BY <1>1, <1>4, <1>9, <2>1, <2>2
  <2>4. n \in S => /\ drafts'[n].static = NoUnit /\ drafts'[n].health = NoUnit
                   /\ drafts'[n].from \in seen[n] \cup {NoUnit}
    BY <1>1, <1>4, <2>1
  <2>5. n \in DOMAIN static => static[n] \in seen[n] \cup {NoUnit}
    BY DEF DevicesInv, OwnInv
  <2> QED
    BY <2>3, <2>4, <2>5
<1> QED
  BY <1>8, <1>10, <1>11, <1>12, <1>13 DEF DevicesInv

\* A sample that drops what it did not find: only what it found is still kept, and
\* what it did not find is new when it is found again.  Stated of the names found,
\* for interfaces and for processes.
LEMMA DroppingKeeps ==
  ASSUME DevicesAssumption, DevicesInv, NEW F \in SUBSET Names, kind # "storage",
         pc # "idle",
         Kept \subseteq DOMAIN tracked \cup meddled \cup F,
         rates' = Forget(DOMAIN tracked \ F),
         static' = Drop(static, DOMAIN tracked \ F),
         seen' = [n \in Names |-> IF n \in F THEN seen[n] ELSE fresh[n]],
         meddled' = meddled \ (DOMAIN tracked \ F)
  PROVE  /\ rates' \in Partial(Baselines) /\ static' \in Partial(Known)
         /\ seen' \in [Names -> SUBSET Units] /\ meddled' \subseteq Names
         /\ Kept' \subseteq F \cup meddled'
         /\ \A n \in Names \ meddled' :
              /\ n \in DOMAIN rates' => rates'[n].unit \in seen'[n]
              /\ n \in DOMAIN static' => static'[n] \in seen'[n] \cup {NoUnit}
              /\ n \in F => n \notin meddled /\ seen'[n] = seen[n]
<1> DEFINE G == DOMAIN tracked \ F
<1>1. TypeOK /\ static \in Partial(Known)
  BY DEF DevicesInv, TypeOK
<1>2. rates' = Forget(G) /\ static' = Drop(static, G) /\ meddled' = meddled \ G
  OBVIOUS
<1>3. G \cup F = DOMAIN tracked \cup F /\ G \cap F = {}
  OBVIOUS
<1> HIDE DEF G
<1>4. /\ rates' \in Partial(Baselines)
      /\ DOMAIN rates' \subseteq DOMAIN rates \ G
      /\ \A n \in DOMAIN rates' : rates'[n] = rates[n]
  BY <1>1, <1>2, ForgetFacts
<1>5. /\ static' \in Partial(Known)
      /\ DOMAIN static' = DOMAIN static \ G
      /\ \A n \in DOMAIN static \ G : static'[n] = static[n]
  <2>1. /\ Drop(static, G) \in Partial(Known)
        /\ DOMAIN Drop(static, G) = DOMAIN static \ G
        /\ \A n \in DOMAIN static \ G : Drop(static, G)[n] = static[n]
    BY <1>1, DropFacts
  <2> QED
    BY <1>2, <2>1
<1>6. Kept' \subseteq F \cup meddled'
  BY <1>4, <1>5, <1>2, <1>3 DEF Kept
<1>7. seen' \in [Names -> SUBSET Units] /\ meddled' \subseteq Names
  BY <1>1, <1>2 DEF TypeOK
<1>8. ASSUME NEW n \in Names \ meddled'
      PROVE  /\ n \in DOMAIN rates' => rates'[n].unit \in seen'[n]
             /\ n \in DOMAIN static' => static'[n] \in seen'[n] \cup {NoUnit}
             /\ n \in F => n \notin meddled /\ seen'[n] = seen[n]
  <2>1. n \in DOMAIN rates' \cup DOMAIN static' => n \in F
    BY <1>6, <1>8 DEF Kept
  <2>2. n \in F => n \notin meddled /\ seen'[n] = seen[n]
    BY <1>8, <1>2, <1>3
  <2>3. n \notin meddled => /\ n \in DOMAIN rates => rates[n].unit \in seen[n]
                            /\ n \in DOMAIN static => static[n] \in seen[n] \cup {NoUnit}
    BY <1>8 DEF DevicesInv, OwnInv
  <2> QED
    BY <1>4, <1>5, <2>1, <2>2, <2>3
<1> QED
  BY <1>4, <1>5, <1>6, <1>7, <1>8

\* _prune_departed: the interfaces that were found are those that are known.
LEMMA PruneDepartedKeeps ==
  ASSUME DevicesAssumption, DevicesInv, PruneDeparted
  PROVE  DevicesInv'
<1> DEFINE F == DOMAIN drafts
<1>1. /\ pc = "prune" /\ pc' = "describe"
      /\ rates' = Forget(DOMAIN tracked \ F)
      /\ static' = Drop(static, DOMAIN tracked \ F)
      /\ tracked' = [n \in F |-> drafts[n].unit]
      /\ seen' = [n \in Names |-> IF n \in F THEN seen[n] ELSE fresh[n]]
      /\ meddled' = meddled \ (DOMAIN tracked \ F)
      /\ UNCHANGED <<kind, present, count, now, health, moment, todo, current, drafts, rows,
                     trouble, inspecting, fresh>>
  BY DEF PruneDeparted, Departed, environment
<1>2. F \in SUBSET Names
  BY PartialIs DEF DevicesInv, TypeOK
<1>3. kind = "network" /\ \A n \in F : drafts[n].unit \in Units
  BY <1>1 DEF DevicesInv, StagesInv
<1>4. Kept \subseteq DOMAIN tracked \cup meddled \cup F
  BY <1>1, <1>3 DEF DevicesInv, KeptInv
<1>5. /\ rates' \in Partial(Baselines) /\ static' \in Partial(Known)
      /\ seen' \in [Names -> SUBSET Units] /\ meddled' \subseteq Names
      /\ Kept' \subseteq F \cup meddled'
      /\ \A n \in Names \ meddled' :
           /\ n \in DOMAIN rates' => rates'[n].unit \in seen'[n]
           /\ n \in DOMAIN static' => static'[n] \in seen'[n] \cup {NoUnit}
           /\ n \in F => n \notin meddled /\ seen'[n] = seen[n]
  BY <1>1, <1>2, <1>3, <1>4, DroppingKeeps
<1>6. tracked' \in Partial(Units) /\ DOMAIN tracked' = F
  <2>1. tracked' \in [F -> Units]
    BY <1>1, <1>3
  <2> QED
    BY <2>1, <1>2, IsPartial
<1>7. TypeOK'
  BY <1>1, <1>5, <1>6 DEF DevicesInv, TypeOK
<1>8. StagesInv' /\ KeptInv'
  BY <1>1, <1>3, <1>5, <1>6 DEF DevicesInv, StagesInv, KeptInv
<1>9. SeenInv'
  BY <1>1 DEF DevicesInv, SeenInv
<1>10. OwnInv'
  BY <1>1, <1>3, <1>5 DEF DevicesInv, OwnInv
<1> QED
  BY <1>7, <1>8, <1>9, <1>10 DEF DevicesInv

\* What is read of a name and not cached is of the unit that bears it.
LEMMA DescribeInterfacesKeeps ==
  ASSUME DevicesAssumption, DevicesInv, DescribeInterfaces
  PROVE  DevicesInv'
<1> DEFINE S == DOMAIN drafts \ DOMAIN static
<1>1. /\ pc = "describe" /\ kind = "network"
      /\ static' = [n \in DOMAIN static \cup S |-> IF n \in S THEN present[n] ELSE static[n]]
      /\ rows' = [n \in DOMAIN drafts |-> [drafts[n] EXCEPT !.static = static'[n]]]
      /\ pc' = "idle" /\ moment' = 0 /\ todo' = {} /\ current' = Empty /\ drafts' = Empty
      /\ fresh' = [n \in Names |-> {}]
      /\ UNCHANGED <<kind, present, count, now, rates, tracked, health, trouble, inspecting,
                     seen, meddled>>
  BY DEF DescribeInterfaces, Put, Publish, environment
<1>2. /\ DOMAIN static \subseteq Names /\ \A n \in DOMAIN static : static[n] \in Known
      /\ DOMAIN drafts \subseteq Names /\ \A n \in DOMAIN drafts : drafts[n] \in Rows
  BY PartialIs DEF DevicesInv, TypeOK
<1>3. \A n \in Names : present[n] \in Known
  BY DEF DevicesInv, TypeOK
<1>4. /\ static' \in [DOMAIN static \cup S -> Known]
      /\ DOMAIN static' = DOMAIN static \cup DOMAIN drafts
  BY <1>1, <1>2, <1>3
<1>5. static' \in Partial(Known)
  BY <1>2, <1>4, IsPartial
<1>6. rows' \in Partial(Rows)
  <2>1. \A n \in DOMAIN drafts : [drafts[n] EXCEPT !.static = static'[n]] \in Rows
    BY <1>2, <1>4 DEF Rows
  <2>2. rows' \in [DOMAIN drafts -> Rows]
    BY <1>1, <2>1
  <2> QED
    BY <1>2, <2>2, IsPartial
<1>7. TypeOK'
  <2>1. moment' \in 0..MaxTime
    BY <1>1 DEF DevicesAssumption
  <2>2. fresh' \in [Names -> SUBSET Units]
    BY <1>1
  <2>3. current' \in Partial(Units) /\ drafts' \in Partial(Rows)
    BY <1>1, EmptyIsPartial
  <2> QED
    BY <1>1, <1>5, <1>6, <2>1, <2>2, <2>3 DEF DevicesInv, TypeOK
<1>8. Kept' \subseteq DOMAIN tracked' \cup meddled'
  BY <1>1, <1>4 DEF DevicesInv, KeptInv, StagesInv, Kept
<1>9. ASSUME NEW n \in Names \ meddled'
      PROVE  /\ n \in DOMAIN rates' => rates'[n].unit \in seen[n]
             /\ n \in DOMAIN static' => static'[n] \in seen[n] \cup {NoUnit}
  <2>1. present[n] \in seen[n] \cup {NoUnit}
    BY <1>9 DEF DevicesInv, SeenInv
  <2>2. /\ n \in DOMAIN rates => rates[n].unit \in seen[n]
        /\ n \in DOMAIN static => static[n] \in seen[n] \cup {NoUnit}
    BY <1>1, <1>9 DEF DevicesInv, OwnInv
  <2> QED
    BY <1>1, <2>1, <2>2
<1>10. (StagesInv /\ KeptInv /\ SeenInv /\ OwnInv)'
  BY <1>1, <1>8, <1>9, EndKeeps
<1> QED
  BY <1>7, <1>10 DEF DevicesInv

\* Nothing is dropped of disks; only types, the stage and what was seen are kept.
LEMMA DescribeDisksKeeps ==
  ASSUME DevicesAssumption, DevicesInv, DescribeDisks
  PROVE  DevicesInv'
<1> DEFINE S == Present \ DOMAIN static
           due == {n \in Present : n \in DOMAIN health => moment - health[n].at >= HealthInterval}
           blank == [unit |-> NoUnit, from |-> NoUnit, static |-> NoUnit, health |-> NoUnit]
           draft(n) == IF n \in DOMAIN drafts THEN drafts[n] ELSE blank
<1>1. /\ pc = "describe" /\ kind = "storage"
      /\ static' = [n \in DOMAIN static \cup S |-> IF n \in S THEN present[n] ELSE static[n]]
      /\ health' = [n \in DOMAIN health \cup due |->
                      IF n \in due THEN [unit |-> present[n], at |-> moment] ELSE health[n]]
      /\ rows' = [n \in Present |->
                    [draft(n) EXCEPT !.static = static'[n], !.health = health'[n].unit]]
      /\ pc' = "idle" /\ moment' = 0 /\ todo' = {} /\ current' = Empty /\ drafts' = Empty
      /\ fresh' = [n \in Names |-> {}]
      /\ seen' = [n \in Names |-> IF n \in Present \cup DOMAIN drafts THEN seen[n] ELSE fresh[n]]
      /\ UNCHANGED <<kind, present, count, now, rates, tracked, trouble, inspecting, meddled>>
  BY DEF DescribeDisks, Put, Publish, environment
<1>2. /\ DOMAIN static \subseteq Names /\ \A n \in DOMAIN static : static[n] \in Known
      /\ DOMAIN health \subseteq Names /\ \A n \in DOMAIN health : health[n] \in Checkups
      /\ DOMAIN drafts \subseteq Names /\ \A n \in DOMAIN drafts : drafts[n] \in Rows
  BY PartialIs DEF DevicesInv, TypeOK
<1>3. /\ Present \subseteq Names /\ due \subseteq Present
      /\ \A n \in Names : present[n] \in Known
      /\ moment \in 0..MaxTime
  BY DEF DevicesInv, TypeOK, Present
<1>4. Present \subseteq DOMAIN health \cup due
  OBVIOUS
<1> HIDE DEF due
<1>5. static' \in Partial(Known) /\ \A n \in Present : static'[n] \in Known
  <2>1. static' \in [DOMAIN static \cup S -> Known]
    BY <1>1, <1>2, <1>3
  <2> QED
    BY <2>1, <1>2, <1>3, IsPartial
<1>6. health' \in Partial(Checkups) /\ \A n \in Present : health'[n].unit \in Known
  <2>1. \A n \in Names : [unit |-> present[n], at |-> moment] \in Checkups
    BY <1>3 DEF Checkups
  <2>2. health' \in [DOMAIN health \cup due -> Checkups]
    BY <1>1, <1>2, <1>3, <2>1
  <2>3. \A n \in Present : health'[n] \in Checkups
    BY <2>2, <1>4
  <2> QED
    BY <2>2, <2>3, <1>2, <1>3, IsPartial DEF Checkups
<1>7. rows' \in Partial(Rows)
  <2>1. \A n \in Present : draft(n) \in Rows
    BY <1>2 DEF Rows, Known
  <2> HIDE DEF draft
  <2>2. \A n \in Present :
          [draft(n) EXCEPT !.static = static'[n], !.health = health'[n].unit] \in Rows
    BY <1>5, <1>6, <2>1 DEF Rows
  <2>3. rows' \in [Present -> Rows]
    BY <1>1, <2>2
  <2> QED
    BY <1>3, <2>3, IsPartial
<1>8. TypeOK'
  <2>1. moment' \in 0..MaxTime
    <3>1. 0 \in 0..MaxTime
      BY DEF DevicesAssumption
    <3> QED
      BY <1>1, <3>1
  <2>2. fresh' \in [Names -> SUBSET Units] /\ seen' \in [Names -> SUBSET Units]
    BY <1>1 DEF DevicesInv, TypeOK
  <2>3. current' \in Partial(Units) /\ drafts' \in Partial(Rows)
    BY <1>1, EmptyIsPartial
  <2> QED
    BY <1>1, <1>5, <1>6, <1>7, <2>1, <2>2, <2>3 DEF DevicesInv, TypeOK
<1>9. StagesInv' /\ KeptInv' /\ OwnInv'
  BY <1>1, EmptyIsPartial DEF DevicesInv, StagesInv, KeptInv, OwnInv
<1>10. SeenInv'
  BY <1>1 DEF DevicesInv, SeenInv
<1> QED
  BY <1>8, <1>9, <1>10 DEF DevicesInv

-----------------------------------------------------------------------------
(* Processes *)

\* The processes are listed; nothing of them is known yet.
LEMMA ListPidsKeeps ==
  ASSUME DevicesAssumption, DevicesInv, ListPids
  PROVE  DevicesInv'
<1> USE DEF ListPids, environment, caches
<1>1. TypeOK'
  <2>1. fresh' \in [Names -> SUBSET Units] /\ todo' \subseteq Names
    BY DEF DevicesInv, TypeOK, Known, Present
  <2>2. current' \in Partial(Units) /\ drafts' \in Partial(Rows)
    BY EmptyIsPartial
  <2> QED
    BY <2>1, <2>2 DEF DevicesInv, TypeOK
<1>2. StagesInv' /\ KeptInv' /\ OwnInv'
  BY EmptyIsPartial DEF DevicesInv, StagesInv, KeptInv, OwnInv, Kept
<1>3. SeenInv'
  BY DEF DevicesInv, SeenInv
<1> QED
  BY <1>1, <1>2, <1>3 DEF DevicesInv

\* The object kept of a process, or a new one.
LEMMA HandleIsUnit ==
  ASSUME TypeOK, NEW n \in Names, Handle(n) # NoUnit
  PROVE  Handle(n) \in Units
BY PartialIs DEF TypeOK, Handle, Known

\* A process that is passed over is visited all the same.
LEMMA PassOverKeeps ==
  ASSUME DevicesAssumption, DevicesInv, NEW n \in Names, PassOver(n)
  PROVE  DevicesInv'
<1>1. /\ pc = "visit" /\ todo' = todo \ {n}
      /\ current' = IF Handle(n) = NoUnit THEN current
                    ELSE [m \in DOMAIN current \cup {n} |-> IF m \in {n} THEN Handle(m)
                                                                      ELSE current[m]]
      /\ UNCHANGED <<environment, caches, pc, moment, drafts, rows, trouble, inspecting, ghosts>>
  BY DEF PassOver, Put
<1>2. TypeOK /\ DOMAIN current \subseteq Names /\ \A m \in DOMAIN current : current[m] \in Units
  BY PartialIs DEF DevicesInv, TypeOK
<1>3. current' \in Partial(Units) /\ DOMAIN current \subseteq DOMAIN current'
  <2>1. CASE Handle(n) = NoUnit
    BY <2>1, <1>1, <1>2 DEF TypeOK
  <2>2. CASE Handle(n) # NoUnit
    <3>1. Handle(n) \in Units
      BY <1>2, <2>2, HandleIsUnit
    <3>2. current' \in [DOMAIN current \cup {n} -> Units]
      BY <1>1, <1>2, <2>2, <3>1
    <3> QED
      BY <3>2, <1>2, IsPartial
  <2> QED
    BY <2>1, <2>2
<1>4. TypeOK'
  BY <1>1, <1>3 DEF DevicesInv, TypeOK, environment, caches, ghosts
<1>5. StagesInv' /\ KeptInv' /\ OwnInv' /\ SeenInv'
  BY <1>1, <1>3 DEF DevicesInv, StagesInv, KeptInv, OwnInv, SeenInv, Kept, environment, caches,
                    ghosts
<1> QED
  BY <1>4, <1>5 DEF DevicesInv

\* What is read of a process is of the unit that bears the identifier; what was
\* cached before is of a unit that bore it since it was last found vacant.
LEMMA VisitProcessKeeps ==
  ASSUME DevicesAssumption, DevicesInv, NEW n \in Names, NEW permitted \in BOOLEAN,
         VisitProcess(n, permitted)
  PROVE  DevicesInv'
<1> DEFINE S == {n} \ DOMAIN static
           entry == [unit |-> present[n],
                     from |-> IF permitted THEN From(n, moment) ELSE NoUnit,
                     static |-> IF n \in DOMAIN static' THEN static'[n] ELSE NoUnit,
                     health |-> NoUnit]
<1>1. /\ pc = "visit" /\ n \in Present /\ todo' = todo \ {n}
      /\ current' = [m \in DOMAIN current \cup {n} |-> IF m \in {n} THEN Handle(m)
                                                                ELSE current[m]]
      /\ static' = IF permitted
                     THEN [m \in DOMAIN static \cup S |-> IF m \in S THEN present[m]
                                                                     ELSE static[m]]
                     ELSE static
      /\ rates' = IF permitted
                    THEN [m \in DOMAIN rates \cup {n} |-> IF m \in {n} THEN Baseline(m, moment)
                                                                       ELSE rates[m]]
                    ELSE rates
      /\ UNCHANGED <<kind, present, count, now, tracked, health, pc, moment, rows, trouble,
                     inspecting, seen, fresh, meddled>>
  BY DEF VisitProcess, Put, environment, ghosts
<1>2. /\ DOMAIN drafts' = DOMAIN drafts \cup {n}
      /\ drafts'[n] = entry
      /\ \A m \in DOMAIN drafts \ {n} : drafts'[m] = drafts[m]
      /\ drafts' = [m \in DOMAIN drafts' |-> drafts'[m]]
  BY DEF VisitProcess, Put
<1>3. TypeOK /\ kind = "processes"
  BY <1>1 DEF DevicesInv, StagesInv
<1>4. /\ DOMAIN current \subseteq Names /\ \A m \in DOMAIN current : current[m] \in Units
      /\ DOMAIN static \subseteq Names /\ \A m \in DOMAIN static : static[m] \in Known
      /\ DOMAIN drafts \subseteq Names /\ \A m \in DOMAIN drafts : drafts[m] \in Rows
      /\ DOMAIN rates \subseteq Names /\ \A m \in DOMAIN rates : rates[m] \in Baselines
  BY PartialIs DEF DevicesInv, TypeOK
<1>5. moment \in 0..MaxTime
  BY <1>3 DEF TypeOK
<1>6. /\ present[n] \in Units
      /\ Baseline(n, moment) \in Baselines
      /\ Baseline(n, moment).unit = present[n]
      /\ From(n, moment) \in Known
      /\ From(n, moment) # NoUnit => n \in DOMAIN rates /\ From(n, moment) = rates[n].unit
  BY <1>1, <1>3, <1>5, ReadingFacts
<1>7. Handle(n) \in Units
  <2>1. Handle(n) # NoUnit
    BY <1>3, <1>6, PartialIs DEF Handle, TypeOK, DevicesAssumption
  <2> QED
    BY <1>3, <2>1, HandleIsUnit
<1>8. current' \in Partial(Units) /\ DOMAIN current' = DOMAIN current \cup {n}
  <2>1. current' \in [DOMAIN current \cup {n} -> Units]
    BY <1>1, <1>4, <1>7
  <2> QED
    BY <2>1, <1>4, IsPartial
<1>9. /\ static' \in Partial(Known)
      /\ DOMAIN static' \subseteq DOMAIN static \cup {n}
      /\ n \in DOMAIN static' => static'[n] \in Known
  <2>1. CASE permitted
    <3>1. static' \in [DOMAIN static \cup S -> Known]
      BY <1>1, <1>4, <1>6, <2>1 DEF Known
    <3> QED
      BY <3>1, <1>4, IsPartial
  <2>2. CASE ~permitted
    BY <1>1, <1>3, <1>4, <2>2 DEF TypeOK
  <2> QED
    BY <2>1, <2>2
<1>10. rates' \in Partial(Baselines) /\ DOMAIN rates' \subseteq DOMAIN rates \cup {n}
  <2>1. CASE permitted
    <3>1. rates' \in [DOMAIN rates \cup {n} -> Baselines]
      BY <1>1, <1>4, <1>6, <2>1
    <3> QED
      BY <3>1, <1>4, IsPartial
  <2>2. CASE ~permitted
    BY <1>1, <1>3, <2>2 DEF TypeOK
  <2> QED
    BY <2>1, <2>2
<1>11. drafts' \in Partial(Rows)
  <2>1. entry \in Rows
    BY <1>6, <1>9 DEF Rows, Known
  <2> HIDE DEF entry
  <2>2. drafts' \in [DOMAIN drafts \cup {n} -> Rows]
    BY <1>2, <1>4, <2>1
  <2> QED
    BY <2>2, <1>4, IsPartial
<1>12. TypeOK'
  BY <1>1, <1>3, <1>8, <1>9, <1>10, <1>11 DEF TypeOK
<1>13. StagesInv'
  <2>1. drafts'[n].unit \in Units
    BY <1>2, <1>6
  <2> QED
    BY <1>1, <1>2, <1>3, <1>8, <2>1 DEF DevicesInv, StagesInv
<1>14. KeptInv'
  BY <1>1, <1>8, <1>9, <1>10 DEF DevicesInv, KeptInv, Kept
<1>15. SeenInv'
  BY <1>1 DEF DevicesInv, SeenInv
<1>16. OwnInv'
  <2> SUFFICES ASSUME NEW m \in Names \ meddled
               PROVE  /\ m \in DOMAIN rates' => rates'[m].unit \in seen[m]
                      /\ m \in DOMAIN static' => static'[m] \in seen[m] \cup {NoUnit}
                      /\ m \in DOMAIN drafts' =>
                           {drafts'[m].from, drafts'[m].static, drafts'[m].health}
                             \subseteq seen[m] \cup {NoUnit}
    BY <1>1 DEF OwnInv
  <2>1. /\ m \in DOMAIN rates => rates[m].unit \in seen[m]
        /\ m \in DOMAIN static => static[m] \in seen[m] \cup {NoUnit}
        /\ m \in DOMAIN drafts =>
             {drafts[m].from, drafts[m].static, drafts[m].health} \subseteq seen[m] \cup {NoUnit}
    BY <1>3 DEF DevicesInv, OwnInv
  <2>2. present[n] \in seen[n]
    BY <1>6 DEF DevicesInv, SeenInv, DevicesAssumption
  <2>3. m \in DOMAIN rates' => rates'[m].unit \in seen[m]
    BY <1>1, <1>6, <2>1, <2>2
  <2>4. m \in DOMAIN static' => static'[m] \in seen[m] \cup {NoUnit}
    BY <1>1, <2>1, <2>2
  <2>5. ASSUME m \in DOMAIN drafts'
        PROVE  {drafts'[m].from, drafts'[m].static, drafts'[m].health}
                 \subseteq seen[m] \cup {NoUnit}
    <3>1. CASE m = n
      <4>1. entry.from \in seen[m] \cup {NoUnit}
        BY <1>6, <2>1, <3>1
      <4>2. entry.static \in seen[m] \cup {NoUnit} /\ entry.health = NoUnit
        BY <2>4, <3>1
      <4> HIDE DEF entry
      <4> QED
        BY <1>2, <3>1, <4>1, <4>2
    <3>2. CASE m # n
      BY <1>2, <2>1, <2>5, <3>2
    <3> QED
      BY <3>1, <3>2
  <2> QED
    BY <2>3, <2>4, <2>5
<1> QED
  BY <1>12, <1>13, <1>14, <1>15, <1>16 DEF DevicesInv

\* The processes that were visited are those that are known.
LEMMA SwapTrackedKeeps ==
  ASSUME DevicesAssumption, DevicesInv, SwapTracked
  PROVE  DevicesInv'
<1> DEFINE F == DOMAIN current
<1>1. /\ pc = "visit" /\ pc' = "idle"
      /\ rates' = Forget(DOMAIN tracked \ F)
      /\ static' = Drop(static, DOMAIN tracked \ F)
      /\ tracked' = current
      /\ seen' = [n \in Names |-> IF n \in F THEN seen[n] ELSE fresh[n]]
      /\ meddled' = meddled \ (DOMAIN tracked \ F)
      /\ rows' = drafts
      /\ moment' = 0 /\ todo' = {} /\ current' = Empty /\ drafts' = Empty
      /\ fresh' = [n \in Names |-> {}]
      /\ UNCHANGED <<kind, present, count, now, health, trouble, inspecting>>
  BY DEF SwapTracked, Exited, Publish, environment
<1>2. F \in SUBSET Names /\ TypeOK
  BY PartialIs DEF DevicesInv, TypeOK
<1>3. kind = "processes"
  BY <1>1 DEF DevicesInv, StagesInv
<1>4. Kept \subseteq DOMAIN tracked \cup meddled \cup F
  BY <1>1, <1>3 DEF DevicesInv, KeptInv
<1>5. /\ rates' \in Partial(Baselines) /\ static' \in Partial(Known)
      /\ seen' \in [Names -> SUBSET Units] /\ meddled' \subseteq Names
      /\ Kept' \subseteq F \cup meddled'
      /\ \A n \in Names \ meddled' :
           /\ n \in DOMAIN rates' => rates'[n].unit \in seen'[n]
           /\ n \in DOMAIN static' => static'[n] \in seen'[n] \cup {NoUnit}
           /\ n \in F => n \notin meddled /\ seen'[n] = seen[n]
  BY <1>1, <1>2, <1>3, <1>4, DroppingKeeps
<1>6. TypeOK'
  <2>1. moment' \in 0..MaxTime
    <3>1. 0 \in 0..MaxTime
      BY DEF DevicesAssumption
    <3> QED
      BY <1>1, <3>1
  <2>2. fresh' \in [Names -> SUBSET Units] /\ todo' \subseteq Names
    BY <1>1
  <2>3. current' \in Partial(Units) /\ drafts' \in Partial(Rows)
    BY <1>1, EmptyIsPartial
  <2> QED
    BY <1>1, <1>2, <1>5, <2>1, <2>2, <2>3 DEF TypeOK
<1>7. StagesInv' /\ KeptInv'
  BY <1>1, <1>3, <1>5, EmptyIsPartial DEF DevicesInv, StagesInv, KeptInv
<1>8. SeenInv'
  BY <1>1 DEF DevicesInv, SeenInv
<1>9. OwnInv'
  BY <1>1, <1>5, EmptyIsPartial DEF OwnInv
<1> QED
  BY <1>6, <1>7, <1>8, <1>9 DEF DevicesInv

-----------------------------------------------------------------------------
(* The inspector *)

\* What inspect() reads is of the unit that bears the identifier now.
LEMMA InspectReadKeeps ==
  ASSUME DevicesAssumption, DevicesInv, NEW n \in Names, InspectRead(n)
  PROVE  DevicesInv'
<1> USE DEF InspectRead, environment, caches, sample, ghosts
<1>1. inspecting' \in Reads
  <2>1. present[n] \in Units
    BY DEF DevicesInv, TypeOK, Present, Known
  <2>2. count[present[n]] \in 0..MaxCount /\ now \in 0..MaxTime
    BY <2>1 DEF DevicesInv, TypeOK
  <2> QED
    BY <2>1, <2>2 DEF Reads
<1>2. TypeOK'
  BY <1>1 DEF DevicesInv, TypeOK
<1>3. StagesInv' /\ KeptInv' /\ OwnInv' /\ SeenInv'
  BY DEF DevicesInv, StagesInv, KeptInv, OwnInv, SeenInv, Kept
<1> QED
  BY <1>2, <1>3 DEF DevicesInv

\* What inspect() stores is counted among what was left behind unless a sample
\* keeps the process, and the unit it read has borne the identifier since.
LEMMA InspectStoreKeeps ==
  ASSUME DevicesAssumption, DevicesInv, InspectStore
  PROVE  DevicesInv'
<1> DEFINE n == inspecting.name
           u == inspecting.unit
           base == [unit |-> u, value |-> inspecting.value, at |-> inspecting.at]
<1>1. /\ inspecting # NoUnit /\ inspecting' = NoUnit
      /\ static' = IF inspecting.cached THEN static
                   ELSE [m \in DOMAIN static \cup {n} |-> IF m \in {n} THEN u ELSE static[m]]
      /\ rates' = [m \in DOMAIN rates \cup {n} |-> IF m \in {n} THEN base ELSE rates[m]]
      /\ meddled' = IF n \in DOMAIN tracked /\ u \in seen[n] THEN meddled ELSE meddled \cup {n}
      /\ UNCHANGED <<environment, tracked, health, sample, rows, trouble, seen, fresh>>
  BY DEF InspectStore, Put
<1>2. inspecting \in Reads /\ TypeOK
  BY <1>1 DEF DevicesInv, TypeOK
<1>3. n \in Names /\ u \in Units /\ base \in Baselines /\ base.unit = u
  BY <1>2 DEF Reads, Baselines
<1> HIDE DEF n, u, base
<1>4. /\ DOMAIN static \subseteq Names /\ \A m \in DOMAIN static : static[m] \in Known
      /\ DOMAIN rates \subseteq Names /\ \A m \in DOMAIN rates : rates[m] \in Baselines
  BY <1>2, PartialIs DEF TypeOK
<1>5. rates' \in Partial(Baselines) /\ DOMAIN rates' = DOMAIN rates \cup {n}
  <2>1. rates' \in [DOMAIN rates \cup {n} -> Baselines]
    BY <1>1, <1>3, <1>4
  <2> QED
    BY <2>1, <1>3, <1>4, IsPartial
<1>6. static' \in Partial(Known) /\ DOMAIN static' \subseteq DOMAIN static \cup {n}
  <2>1. CASE inspecting.cached
    BY <1>1, <1>2, <2>1 DEF TypeOK
  <2>2. CASE ~inspecting.cached
    <3>1. static' \in [DOMAIN static \cup {n} -> Known]
      BY <1>1, <1>3, <1>4, <2>2 DEF Known
    <3> QED
      BY <3>1, <1>3, <1>4, IsPartial
  <2> QED
    BY <2>1, <2>2
<1>7. TypeOK'
  <2>1. meddled' \subseteq Names
    BY <1>1, <1>2, <1>3 DEF TypeOK
  <2> QED
    BY <1>1, <1>2, <1>5, <1>6, <2>1 DEF TypeOK, environment, sample
<1>8. StagesInv' /\ SeenInv'
  BY <1>1 DEF DevicesInv, StagesInv, SeenInv, environment, sample
<1>9. KeptInv'
  <2>1. n \in DOMAIN tracked \cup meddled' /\ meddled \subseteq meddled'
    BY <1>1
  <2>2. Kept' \subseteq Kept \cup {n}
    BY <1>5, <1>6 DEF Kept
  <2> QED
    BY <1>1, <2>1, <2>2 DEF DevicesInv, KeptInv, environment, sample
<1>10. OwnInv'
  <2> SUFFICES ASSUME kind # "storage", NEW m \in Names \ meddled'
               PROVE  /\ m \in DOMAIN rates' => rates'[m].unit \in seen[m]
                      /\ m \in DOMAIN static' => static'[m] \in seen[m] \cup {NoUnit}
                      /\ m \in DOMAIN drafts =>
                           {drafts[m].from, drafts[m].static, drafts[m].health}
                             \subseteq seen[m] \cup {NoUnit}
    BY <1>1 DEF OwnInv, environment, sample
  <2>1. m \notin meddled /\ (m = n => u \in seen[m])
    BY <1>1
  <2>2. /\ m \in DOMAIN rates => rates[m].unit \in seen[m]
        /\ m \in DOMAIN static => static[m] \in seen[m] \cup {NoUnit}
        /\ m \in DOMAIN drafts =>
             {drafts[m].from, drafts[m].static, drafts[m].health} \subseteq seen[m] \cup {NoUnit}
    BY <2>1 DEF DevicesInv, OwnInv
  <2>3. m \in DOMAIN rates' => rates'[m].unit \in seen[m]
    BY <1>1, <1>3, <2>1, <2>2
  <2>4. m \in DOMAIN static' => static'[m] \in seen[m] \cup {NoUnit}
    BY <1>1, <2>1, <2>2
  <2> QED
    BY <2>2, <2>3, <2>4
<1> QED
  BY <1>7, <1>8, <1>9, <1>10 DEF DevicesInv

-----------------------------------------------------------------------------
(* Theorems *)

\* One step of anybody.
LEMMA NextKeeps ==
  ASSUME DevicesAssumption, DevicesInv, [Next]_vars
  PROVE  DevicesInv'
<1>1. CASE Next
  BY <1>1, PlugKeeps, UnplugKeeps, CountKeeps, ElapseKeeps, ReadCountersKeeps,
     PruneDepartedKeeps, DescribeInterfacesKeeps, DescribeDisksKeeps, ListPidsKeeps,
     PassOverKeeps, VisitProcessKeeps, SwapTrackedKeeps, SwapRaisesKeeps, FailKeeps,
     InspectReadKeeps, InspectStoreKeeps
  DEF Next, Collect
<1>2. CASE UNCHANGED vars
  BY <1>2 DEF vars, environment, caches, sample, ghosts, DevicesInv, TypeOK, StagesInv,
              KeptInv, SeenInv, OwnInv, Kept
<1> QED
  BY <1>1, <1>2

\* The invariant the theorems follow from.
LEMMA DevicesInvariant == Spec => []DevicesInv
<1>1. Init => DevicesInv
  BY DevicesAssumption, InitDevices
<1>2. DevicesInv /\ [Next]_vars => DevicesInv'
  BY DevicesAssumption, NextKeeps
<1> QED
  BY <1>1, <1>2, PTL DEF Spec

\* Between samples nothing is kept of names that the last sample did not find
\* (process.py:113, network.py:174), but what inspect() or a failed sample left
\* behind; and what is kept is of its type.
THEOREM CachesAreBounded == Spec => []BookkeepingIsBounded
<1>1. DevicesInv => BookkeepingIsBounded
  BY DEF DevicesInv, KeptInv, Kept, BookkeepingIsBounded
<1> QED
  BY <1>1, DevicesInvariant, PTL

\* What a sample that ends publishes is of units that bore the name since it was
\* last found vacant.
LEMMA InterfaceRowsKeep ==
  ASSUME DevicesAssumption, DevicesInv, DescribeInterfaces, NEW n \in DOMAIN rows' \ meddled'
  PROVE  {rows'[n].static, rows'[n].health, rows'[n].from} \subseteq seen'[n] \cup {NoUnit}
<1>1. /\ kind = "network" /\ n \in DOMAIN drafts \ meddled
      /\ rows'[n] = [drafts[n] EXCEPT !.static = static'[n]]
      /\ seen' = seen /\ meddled' = meddled
      /\ n \notin DOMAIN static => static'[n] = present[n]
      /\ n \in DOMAIN static => static'[n] = static[n]
  BY DEF DescribeInterfaces, Put, Publish
<1>2. n \in Names /\ drafts[n] \in Rows
  BY <1>1, PartialIs DEF DevicesInv, TypeOK
<1>3. present[n] \in seen[n] \cup {NoUnit}
  BY <1>2 DEF DevicesInv, SeenInv
<1>4. /\ n \in DOMAIN static => static[n] \in seen[n] \cup {NoUnit}
      /\ drafts[n].from \in seen[n] \cup {NoUnit} /\ drafts[n].health \in seen[n] \cup {NoUnit}
  BY <1>1, <1>2 DEF DevicesInv, OwnInv
<1>5. /\ rows'[n].static = static'[n]
      /\ rows'[n].from = drafts[n].from
      /\ rows'[n].health = drafts[n].health
  BY <1>1, <1>2 DEF Rows
<1> QED
  BY <1>1, <1>3, <1>4, <1>5

\* The same of processes.
LEMMA ProcessRowsKeep ==
  ASSUME DevicesAssumption, DevicesInv, SwapTracked, NEW n \in DOMAIN rows' \ meddled'
  PROVE  {rows'[n].static, rows'[n].health, rows'[n].from} \subseteq seen'[n] \cup {NoUnit}
<1>1. /\ pc = "visit" /\ rows' = drafts /\ n \in DOMAIN drafts
      /\ seen' = [m \in Names |-> IF m \in DOMAIN current THEN seen[m] ELSE fresh[m]]
      /\ meddled' = meddled \ (DOMAIN tracked \ DOMAIN current)
  BY DEF SwapTracked, Exited, Publish
<1>2. n \in Names /\ n \in DOMAIN current /\ kind = "processes"
  BY <1>1, PartialIs DEF DevicesInv, TypeOK, StagesInv
<1>3. n \notin meddled /\ seen'[n] = seen[n]
  BY <1>1, <1>2
<1> QED
  BY <1>1, <1>2, <1>3 DEF DevicesInv, OwnInv

\* What a step does to a sample: of the steps that end one, a failed sample shows
\* nothing, and the others show what they may.
LEMMA RowsStep ==
  ASSUME DevicesAssumption, DevicesInv, Next, pc # "idle", pc' = "idle", kind # "storage",
         NEW n \in DOMAIN rows' \ meddled'
  PROVE  {rows'[n].static, rows'[n].health, rows'[n].from} \subseteq seen'[n] \cup {NoUnit}
<1>1. DescribeInterfaces \/ SwapTracked \/ GiveUp
  <2>1. CASE Collect
    BY <2>1 DEF Collect, ReadCounters, PruneDeparted, DescribeDisks, ListPids, PassOver,
                VisitProcess
  <2>2. CASE Fail \/ \E done \in SUBSET Names : SwapRaises(done)
    BY <2>2 DEF Fail, SwapRaises
  <2>3. CASE ~Collect /\ ~Fail /\ ~\E done \in SUBSET Names : SwapRaises(done)
    BY <2>3 DEF Next, Plug, Unplug, Count, Elapse, InspectRead, InspectStore, sample
  <2> QED
    BY <2>1, <2>2, <2>3
<1>2. CASE GiveUp
  BY <1>2, EmptyIsPartial DEF GiveUp, Publish
<1> QED
  BY <1>1, <1>2, InterfaceRowsKeep, ProcessRowsKeep

\* "Stale counters cannot produce a bogus rate if a device of the same name reappears
\* later" (base.py:90): a row of a name that a sample has found vacant shows nothing
\* of a unit that bore it before, whatever is plugged, started and inspected while
\* the sample runs.
THEOREM RowsAreOfTheirUnits == Spec => RowsKeepToTheirUnits
<1>1. DevicesInv /\ [Next]_vars
        => [pc # "idle" /\ pc' = "idle" /\ kind # "storage" =>
              \A n \in DOMAIN rows' \ meddled' :
                {rows'[n].static, rows'[n].health, rows'[n].from}
                  \subseteq seen'[n] \cup {NoUnit}]_vars
  BY DevicesAssumption, RowsStep
<1> QED
  BY <1>1, DevicesInvariant, PTL DEF Spec, RowsKeepToTheirUnits
=============================================================================
