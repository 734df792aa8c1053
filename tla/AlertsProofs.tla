----------------------------- MODULE AlertsProofs -----------------------------
(***************************************************************************)
(* Proofs about Alerts, for any set of rules, metrics and values, any      *)
(* cooldown and any horizon of the clocks.                                 *)
(*                                                                         *)
(* Each theorem on an invariant has a lemma for the initial states and one *)
(* for the steps, which looks at one action after another.                 *)
(***************************************************************************)
EXTENDS Alerts, FiniteSetTheorems, TLAPS

\* Ages and the cooldown are natural numbers.
LEMMA AgesAreNat == Horizon \in Nat /\ Ages \subseteq Nat /\ Cooldown \in Ages
  BY AlertsAssumption DEF Ages

\* An age lies between zero and the horizon.
LEMMA AgeIsNat == \A age \in Ages : age \in Nat /\ 0 <= age /\ age <= Horizon
  BY AlertsAssumption DEF Ages

\* Growing older is monotone, and saturates.
LEMMA OlderType == \A age \in Ages : Older(age) \in Ages /\ Older(age) >= age
  BY AlertsAssumption DEF Ages, Older

\* A longer time stays the longer one, the horizon notwithstanding.
LEMMA OlderMonotone ==
  \A a, b \in Ages : a <= b => Older(a) <= Older(b)
  BY AlertsAssumption DEF Ages, Older

\* The sets a sample sorts the rules into.
LEMMA JudgedRules ==
  ASSUME TypeOK, NEW values
  PROVE  /\ Judged(values) \subseteq Ids
         /\ MatchedBy(values) \subseteq Judged(values)
         /\ Begins(values) \subseteq MatchedBy(values)
         /\ Ends(values) \subseteq Judged(values)
         /\ Ends(values) \cap MatchedBy(values) = {}
  BY DEF TypeOK, IsRuleSet, Judged, MatchedBy, Begins, Ends

\* Only rules are announced.
LEMMA AnnouncedRules ==
  ASSUME TypeOK, NEW values
  PROVE  Announced(values) \subseteq Ids \X BOOLEAN
  <1>1. Begins(values) \subseteq Ids /\ Ends(values) \subseteq Ids
    BY JudgedRules
  <1>2. SUFFICES ASSUME NEW n \in Announced(values)
                 PROVE  n \in Ids \X BOOLEAN
    OBVIOUS
  <1>3. \/ \E id \in Begins(values) : n = <<id, TRUE>>
        \/ \E id \in Ends(values) : n = <<id, FALSE>>
    BY DEF Announced
  <1>4. CASE \E id \in Begins(values) : n = <<id, TRUE>>
    <2>1. PICK id \in Begins(values) : n = <<id, TRUE>>
      BY <1>4
    <2> QED BY <1>1, <2>1
  <1>5. CASE \E id \in Ends(values) : n = <<id, FALSE>>
    <2>1. PICK id \in Ends(values) : n = <<id, FALSE>>
      BY <1>5
    <2> QED BY <1>1, <2>1
  <1> QED BY <1>3, <1>4, <1>5

\* Which rules a sample announces, one by one.
LEMMA AnnouncedBegins ==
  ASSUME NEW values, NEW id
  PROVE  <<id, TRUE>> \in Announced(values) <=>
           id \in Begins(values) /\ rules[id].notify /\ SinceSent(id) >= Cooldown
  BY DEF Announced

-----------------------------------------------------------------------------
(* The rule set *)

\* Whatever the user enters, the result is a rule.
LEMMA WithEnabled ==
  \A rule \in Rule, on \in BOOLEAN : [rule EXCEPT !.enabled = on] \in Rule
  BY DEF Rule

\* Put keeps the rule set well formed.
LEMMA PutType ==
  ASSUME IsRuleSet(rules), NEW id \in Ids, NEW rule \in Rule, Put(id, rule)
  PROVE  IsRuleSet(rules') /\ Edit({id})
  BY DEF IsRuleSet, Put

\* What an edit does, in one statement: S are the rules it resets.
LEMMA EditIsReset ==
  ASSUME TypeOK, EditRules
  PROVE  /\ IsRuleSet(rules')
         /\ \E S \in SUBSET Ids :
              /\ Edit(S)
              /\ \A id \in Ids \ S :
                   /\ id \in DOMAIN rules' <=> id \in DOMAIN rules
                   /\ id \in DOMAIN rules => rules'[id] = rules[id]
  <1> USE DEF TypeOK
  <1> DEFINE Goal ==
        /\ IsRuleSet(rules')
        /\ \E S \in SUBSET Ids :
             /\ Edit(S)
             /\ \A id \in Ids \ S :
                  /\ id \in DOMAIN rules' <=> id \in DOMAIN rules
                  /\ id \in DOMAIN rules => rules'[id] = rules[id]
  <1>1. ASSUME NEW id \in Ids, NEW rule \in Rule, Put(id, rule)
        PROVE  Goal
    <2>1. IsRuleSet(rules') /\ Edit({id})
      BY <1>1, PutType
    <2>2. \A i \in Ids \ {id} : /\ i \in DOMAIN rules' <=> i \in DOMAIN rules
                                /\ i \in DOMAIN rules => rules'[i] = rules[i]
      BY <1>1 DEF Put
    <2> QED BY <2>1, <2>2
  <1>2. ASSUME NEW id \in Ids, NEW rule \in Rules, AddRule(id, rule)
        PROVE  Goal
    <2>1. [rule EXCEPT !.enabled = TRUE] \in Rule
      BY WithEnabled, AlertsAssumption
    <2> QED BY <1>1, <1>2, <2>1 DEF AddRule
  <1>3. ASSUME NEW id \in Ids, NEW rule \in Rules, UpdateRule(id, rule)
        PROVE  Goal
    <2>1. rules[id].enabled \in BOOLEAN
      BY <1>3 DEF UpdateRule, IsRuleSet, Rule
    <2>2. [rule EXCEPT !.enabled = rules[id].enabled] \in Rule
      BY <2>1, WithEnabled, AlertsAssumption
    <2> QED BY <1>1, <1>3, <2>2 DEF UpdateRule
  <1>4. ASSUME NEW id \in Ids, NEW on \in BOOLEAN, SetEnabled(id, on)
        PROVE  Goal
    <2>1. [rules[id] EXCEPT !.enabled = on] \in Rule
      BY <1>4, WithEnabled DEF SetEnabled, IsRuleSet
    <2> QED BY <1>1, <1>4, <2>1 DEF SetEnabled
  <1>5. ASSUME NEW id \in Ids, RemoveRule(id)
        PROVE  Goal
    <2>1. Edit({id})
      BY <1>5 DEF RemoveRule
    <2>2. IsRuleSet(rules')
      BY <1>5 DEF RemoveRule, IsRuleSet
    <2>3. \A i \in Ids \ {id} : /\ i \in DOMAIN rules' <=> i \in DOMAIN rules
                                /\ i \in DOMAIN rules => rules'[i] = rules[i]
      BY <1>5 DEF RemoveRule
    <2> QED BY <2>1, <2>2, <2>3
  <1>6. ASSUME RestoreDefaults
        PROVE  Goal
    BY <1>6, AlertsAssumption DEF RestoreDefaults
  <1>7. Goal
    BY <1>2, <1>3, <1>4, <1>5, <1>6 DEF EditRules
  <1> QED BY <1>7

\* What a restart may load is a rule set.
LEMMA LoadableType ==
  ASSUME NEW f \in Loadable
  PROVE  IsRuleSet(f)
  <1>1. \A id \in Ids : Variants(id) \subseteq Rule
    BY WithEnabled, AlertsAssumption DEF Variants, IsRuleSet
  <1>2. PICK S \in SUBSET Ids :
          f \in {g \in [S -> UNION {Variants(id) : id \in S}] : \A id \in S : g[id] \in Variants(id)}
    BY DEF Loadable
  <1>3. DOMAIN f = S /\ f = [id \in S |-> f[id]] /\ \A id \in S : f[id] \in Variants(id)
    BY <1>2
  <1>4. \A id \in S : f[id] \in Rule
    BY <1>1, <1>3
  <1>5. f \in [DOMAIN f -> Rule]
    BY <1>3, <1>4
  <1> QED BY <1>3, <1>5 DEF IsRuleSet

-----------------------------------------------------------------------------
(* Type correctness *)

\* A reset keeps the types of the states.
LEMMA ResetType ==
  ASSUME TypeOK, NEW S \in SUBSET Ids, Reset(S)
  PROVE  /\ breached' \in [Ids -> BOOLEAN]
         /\ held' \in [Ids -> Ages]
         /\ firing' \in [Ids -> BOOLEAN]
         /\ calm' \in [Ids -> Ages]
         /\ retreated' \in [Ids -> BOOLEAN]
         /\ missed' \subseteq Ids
  BY AgesAreNat, AlertsAssumption DEF TypeOK, Reset, Ages

\* A set of rules has no more members than there are identifiers.
LEMMA CountFiring ==
  ASSUME NEW S \in SUBSET Ids
  PROVE  Cardinality(S) \in 0 .. Cardinality(Ids)
  <1>1. IsFiniteSet(Ids)
    BY AlertsAssumption
  <1>2. IsFiniteSet(S) /\ Cardinality(S) <= Cardinality(Ids)
    BY <1>1, FS_Subset
  <1> QED BY <1>1, <1>2, FS_CardinalityType

\* TypeOK holds at first.
LEMMA InitType == Init => TypeOK
  <1>1. 0 \in 0 .. Cardinality(Ids)
    BY CountFiring, FS_EmptySet
  <1> QED BY <1>1, AgesAreNat, AlertsAssumption DEF Init, TypeOK, Ages

\* An evaluation keeps the types.
LEMMA EvaluateType ==
  ASSUME TypeOK, NEW values \in Samples, NEW failed \in {{}, Ids},
         Evaluate(values, failed)
  PROVE  TypeOK'
  <1> USE DEF TypeOK
  <1>1. IsRuleSet(rules)' /\ uptime' \in Ages
    BY DEF Evaluate, IsRuleSet
  <1>2. firing' \in [Ids -> BOOLEAN]
    BY DEF Evaluate
  <1>3. breached' \in [Ids -> BOOLEAN]
    BY DEF Evaluate, BreachedAfter
  <1>4. held' \in [Ids -> Ages]
    BY AgesAreNat, AlertsAssumption DEF Evaluate, HeldFor, Ages
  <1>5. notices' \subseteq Ids \X BOOLEAN
    BY AnnouncedRules DEF Evaluate, Notify
  <1>6. sent' \subseteq Ids /\ since_sent' \in [Ids -> Ages]
    <2>1. {n[1] : n \in Announced(values)} \subseteq Ids
      BY AnnouncedRules
    <2> QED BY <2>1, AgesAreNat, AlertsAssumption DEF Evaluate, Notify, Ages
  <1>7. recorded' \subseteq Ids
    BY JudgedRules DEF Evaluate, Record
  <1>8. badge' \in 0 .. Cardinality(Ids)
    <2>1. {id \in DOMAIN rules : firing'[id]} \subseteq Ids
      BY DEF IsRuleSet
    <2> QED BY <2>1, CountFiring DEF Evaluate, CountBadge
  <1>9. /\ calm' \in [Ids -> Ages]
        /\ retreated' \in [Ids -> BOOLEAN]
        /\ since_active' \in [Ids -> Ages]
        /\ missed' \subseteq Ids
    <2>1. calm' \in [Ids -> Ages]
      <3>1. \A id \in Ids : 0 \in Ages /\ calm[id] \in Ages
        BY AgesAreNat, AlertsAssumption DEF Ages
      <3>2. calm' = [id \in Ids |->
                       IF id \in Judged(values) \ MatchedBy(values) THEN 0
                       ELSE calm[id]]
        BY DEF Evaluate, Observe
      <3> QED BY <3>1, <3>2
    <2>4. since_active' \in [Ids -> Ages]
      <3>1. \A id \in Ids : 0 \in Ages /\ since_active[id] \in Ages
        BY AgesAreNat, AlertsAssumption DEF Ages
      <3>2. since_active' = [id \in Ids |->
                               IF <<id, TRUE>> \in Announced(values) THEN 0
                               ELSE since_active[id]]
        BY DEF Evaluate, Observe
      <3> QED BY <3>1, <3>2
    <2>2. retreated' \in [Ids -> BOOLEAN]
      BY DEF Evaluate, Observe
    <2>3. missed' \subseteq Ids
      BY JudgedRules DEF Evaluate, Observe
    <2> QED BY <2>1, <2>2, <2>3, <2>4
  <1> QED BY <1>1, <1>2, <1>3, <1>4, <1>5, <1>6, <1>7, <1>8, <1>9

\* Every step keeps the types.
LEMMA NextType == TypeOK /\ [Next]_vars => TypeOK'
  <1> SUFFICES ASSUME TypeOK, [Next]_vars
               PROVE  TypeOK'
    OBVIOUS
  <1>1. CASE Elapse
    BY <1>1, OlderType, AgesAreNat, AlertsAssumption
       DEF TypeOK, Elapse, IsRuleSet, Ages
  <1>2. CASE EditRules
    <2>1. IsRuleSet(rules')
      BY <1>2, EditIsReset
    <2>2. PICK S \in SUBSET Ids : Edit(S)
      BY <1>2, EditIsReset
    <2>3. /\ breached' \in [Ids -> BOOLEAN]
          /\ held' \in [Ids -> Ages]
          /\ firing' \in [Ids -> BOOLEAN]
          /\ calm' \in [Ids -> Ages]
          /\ retreated' \in [Ids -> BOOLEAN]
          /\ missed' \subseteq Ids
      BY <2>2, ResetType DEF Edit
    <2> QED BY <2>1, <2>2, <2>3 DEF TypeOK, Edit, IsRuleSet
  <1>3. CASE ClearHistory
    BY <1>3 DEF TypeOK, ClearHistory, states, IsRuleSet
  <1>4. CASE Restart
    <2>1. IsRuleSet(rules')
      BY <1>4, LoadableType DEF Restart
    <2>2. /\ breached' \in [Ids -> BOOLEAN]
          /\ held' \in [Ids -> Ages]
          /\ firing' \in [Ids -> BOOLEAN]
          /\ calm' \in [Ids -> Ages]
          /\ retreated' \in [Ids -> BOOLEAN]
          /\ missed' \subseteq Ids
      BY <1>4, ResetType DEF Restart
    <2>3. badge' \in 0 .. Cardinality(Ids)
      BY <1>4, CountFiring, FS_EmptySet DEF Restart
    <2>4. sent' \subseteq Ids /\ since_sent' \in [Ids -> Ages]
          /\ since_active' \in [Ids -> Ages]
      BY <1>4, AgesAreNat, AlertsAssumption DEF Restart, Ages
    <2>5. notices' \subseteq Ids \X BOOLEAN /\ recorded' \subseteq Ids
          /\ uptime' \in Ages
      BY <1>4 DEF Restart, TypeOK
    <2> QED BY <2>1, <2>2, <2>3, <2>4, <2>5 DEF TypeOK, IsRuleSet
  <1>5. CASE \E values \in Samples, failed \in {{}, Ids} : Evaluate(values, failed)
    BY <1>5, EvaluateType
  <1>6. CASE UNCHANGED vars
    BY <1>6 DEF vars, TypeOK, IsRuleSet
  <1> QED BY <1>1, <1>2, <1>3, <1>4, <1>5, <1>6 DEF Next

\* Every variable keeps its type; the badge never counts more than the rules
\* there can be.
THEOREM TypeCorrect == Spec => []TypeOK
  BY InitType, NextType, PTL DEF Spec

-----------------------------------------------------------------------------
(* Rules that fire *)

\* A restart is a reset of every rule.
LEMMA OnlyEnabledStep ==
  TypeOK /\ OnlyEnabledRulesFire /\ [Next]_vars => OnlyEnabledRulesFire'
  <1> SUFFICES ASSUME TypeOK, OnlyEnabledRulesFire, [Next]_vars,
                      NEW id \in Ids, firing'[id] = TRUE
               PROVE  id \in DOMAIN rules' /\ rules'[id].enabled
    BY NextType DEF OnlyEnabledRulesFire, TypeOK
  <1> USE DEF OnlyEnabledRulesFire
  <1>1. CASE Elapse
    BY <1>1 DEF Elapse
  <1>2. CASE EditRules
    <2>1. PICK S \in SUBSET Ids :
            /\ Edit(S)
            /\ \A i \in Ids \ S :
                 /\ i \in DOMAIN rules' <=> i \in DOMAIN rules
                 /\ i \in DOMAIN rules => rules'[i] = rules[i]
      BY <1>2, EditIsReset
    <2>2. id \notin S /\ firing[id]
      BY <2>1 DEF Edit, Reset
    <2> QED BY <2>1, <2>2
  <1>3. CASE ClearHistory
    BY <1>3 DEF ClearHistory, states
  <1>4. CASE Restart
    BY <1>4 DEF Restart, Reset
  <1>5. CASE \E values \in Samples, failed \in {{}, Ids} : Evaluate(values, failed)
    <2>1. PICK values \in Samples, failed \in {{}, Ids} : Evaluate(values, failed)
      BY <1>5
    <2>2. rules' = rules /\ (firing[id] \/ id \in Begins(values))
      BY <2>1 DEF Evaluate
    <2>3. CASE id \in Begins(values)
      BY <2>2, <2>3 DEF Begins, MatchedBy, Judged
    <2> QED BY <2>2, <2>3
  <1>6. CASE UNCHANGED vars
    BY <1>6 DEF vars
  <1> QED BY <1>1, <1>2, <1>3, <1>4, <1>5, <1>6 DEF Next

\* Only a rule that exists and is enabled fires.
THEOREM OnlyEnabledFire == Spec => []OnlyEnabledRulesFire
  <1>1. Init => OnlyEnabledRulesFire
    BY DEF Init, OnlyEnabledRulesFire
  <1> QED BY <1>1, OnlyEnabledStep, TypeCorrect, PTL DEF Spec

-----------------------------------------------------------------------------
(* Sustained conditions *)

\* The sustain timer of a rule that does not fire is never older than its last
\* value that did not match.
SustainInv ==
  \A id \in Ids : breached[id] /\ ~firing[id] => held[id] <= calm[id]

\* Every step keeps SustainInv.
LEMMA SustainStep == TypeOK /\ SustainInv /\ [Next]_vars => SustainInv'
  <1> SUFFICES ASSUME TypeOK, SustainInv, [Next]_vars,
                      NEW id \in Ids, breached'[id] = TRUE, firing'[id] = FALSE
               PROVE  held'[id] <= calm'[id]
    BY NextType DEF SustainInv, TypeOK
  <1>0. held[id] \in Ages /\ calm[id] \in Ages
    BY DEF TypeOK
  <1>1. CASE Elapse
    <2>1. /\ breached[id] /\ ~firing[id]
          /\ held'[id] = Older(held[id]) /\ calm'[id] = Older(calm[id])
      BY <1>1 DEF Elapse
    <2> QED BY <1>0, <2>1, OlderMonotone DEF SustainInv
  <1>2. CASE \E S \in SUBSET Ids : Reset(S)
    <2>1. PICK S \in SUBSET Ids : Reset(S)
      BY <1>2
    <2>2. id \notin S /\ breached[id] /\ held'[id] = held[id] /\ calm'[id] = calm[id]
      BY <2>1 DEF Reset
    <2>3. firing[id] = FALSE
      BY <2>1, <2>2 DEF Reset, TypeOK
    <2> QED BY <2>2, <2>3 DEF SustainInv
  <1>3. CASE ClearHistory
    BY <1>3 DEF ClearHistory, states, SustainInv
  <1>5. CASE \E values \in Samples, failed \in {{}, Ids} : Evaluate(values, failed)
    <2>1. PICK values \in Samples, failed \in {{}, Ids} : Evaluate(values, failed)
      BY <1>5
    <2>2. /\ BreachedAfter(values, id)
          /\ held'[id] = HeldFor(id)
          /\ (~firing[id] /\ id \notin Begins(values)) \/ id \in Ends(values)
      BY <2>1 DEF Evaluate, TypeOK
    <2>3. calm'[id] = IF id \in Judged(values) \ MatchedBy(values) THEN 0
                      ELSE calm[id]
      BY <2>1 DEF Evaluate, Observe
    <2>4. id \notin Ends(values) /\ ~firing[id]
      BY <2>2, JudgedRules DEF BreachedAfter
    <2>5. calm'[id] = calm[id]
      BY <2>2, <2>3, <2>4 DEF BreachedAfter
    <2>6. CASE breached[id]
      <3>1. held'[id] = held[id] /\ held[id] <= calm[id]
        BY <2>2, <2>4, <2>6 DEF SustainInv, HeldFor
      <3> QED BY <2>5, <3>1
    <2>7. CASE ~breached[id]
      <3>1. held'[id] = 0
        BY <2>2, <2>7 DEF HeldFor
      <3>2. 0 <= calm[id]
        BY <1>0, AgeIsNat
      <3> QED BY <2>5, <3>1, <3>2
    <2> QED BY <2>6, <2>7
  <1>6. CASE UNCHANGED vars
    BY <1>6 DEF vars, SustainInv
  <1> QED BY <1>1, <1>2, <1>3, <1>5, <1>6, EditIsReset DEF Next, Edit, Restart

\* SustainInv holds throughout.
LEMMA SustainInvariant == Spec => []SustainInv
  <1>1. Init => SustainInv
    BY DEF Init, SustainInv
  <1> QED BY <1>1, SustainStep, TypeCorrect, PTL DEF Spec

\* Only a sample makes a rule begin to fire.
LEMMA OnlySamplesFire ==
  ASSUME TypeOK, [Next]_vars, NEW id \in Ids, Began(id)
  PROVE  \E values \in Samples, failed \in {{}, Ids} :
            Evaluate(values, failed) /\ id \in Begins(values)
  <1>1. ~Elapse /\ ~ClearHistory /\ ~UNCHANGED vars
    BY DEF Began, Elapse, ClearHistory, states, vars
  <1>2. ~ \E S \in SUBSET Ids : Reset(S)
    BY DEF Began, Reset
  <1>3. ~EditRules /\ ~Restart
    BY <1>2, EditIsReset DEF Edit, Restart
  <1>4. PICK values \in Samples, failed \in {{}, Ids} : Evaluate(values, failed)
    BY <1>1, <1>3 DEF Next
  <1>5. id \in Begins(values)
    BY <1>4 DEF Evaluate, Began
  <1> QED BY <1>4, <1>5

\* When a rule begins to fire, every value it saw for sustain_seconds matched:
\* a spike shorter than that fires nothing.
THEOREM SustainedFiring == Spec => FiringWasSustained
  <1>1. ASSUME TypeOK, SustainInv, [Next]_vars, NEW id \in Ids, Began(id)
        PROVE  calm[id] >= rules[id].sustain
    <2>1. PICK values : id \in Begins(values)
      BY <1>1, OnlySamplesFire
    <2>2. /\ id \in DOMAIN rules
          /\ ~firing[id]
          /\ HeldFor(id) >= rules[id].sustain
      BY <2>1 DEF Begins, MatchedBy, Judged
    <2>3. /\ rules[id].sustain \in 0 .. Horizon
          /\ held[id] \in Ages /\ calm[id] \in Ages
      BY <1>1, <2>2 DEF TypeOK, IsRuleSet, Rule
    <2> QED BY <1>1, <2>2, <2>3, AlertsAssumption DEF SustainInv, HeldFor, Ages
  <1>2. TypeOK /\ SustainInv /\ [Next]_vars
          => [\A id \in Ids : Began(id) => calm[id] >= rules[id].sustain]_vars
    BY <1>1
  <1> QED BY <1>2, SustainInvariant, TypeCorrect, PTL DEF Spec, FiringWasSustained

-----------------------------------------------------------------------------
(* Flapping *)

\* A rule that does not fire has left the margin since it last did.
RetreatInv == \A id \in Ids : ~firing[id] => retreated[id]

\* What clears a rule lies beyond the margin.
LEMMA ClearOfRetreats ==
  ASSUME NEW rule \in Rule, NEW value \in Int, ClearOf(rule, value)
  PROVE  Retreat(rule, value)
  <1>1. rule.threshold \in Int /\ Abs(rule.threshold) \in Int
    BY DEF Rule, Abs
  <1> QED BY <1>1 DEF ClearOf, Retreat

\* Every step keeps RetreatInv.
LEMMA RetreatStep == TypeOK /\ RetreatInv /\ [Next]_vars => RetreatInv'
  <1> SUFFICES ASSUME TypeOK, RetreatInv, [Next]_vars,
                      NEW id \in Ids, firing'[id] = FALSE
               PROVE  retreated'[id]
    BY NextType DEF RetreatInv, TypeOK
  <1>1. CASE Elapse
    BY <1>1 DEF Elapse, RetreatInv
  <1>2. CASE \E S \in SUBSET Ids : Reset(S)
    <2>1. PICK S \in SUBSET Ids : Reset(S)
      BY <1>2
    <2>2. CASE id \in S
      BY <2>1, <2>2 DEF Reset
    <2>3. CASE id \notin S
      BY <2>1, <2>3 DEF Reset, RetreatInv, TypeOK
    <2> QED BY <2>2, <2>3
  <1>3. CASE ClearHistory
    BY <1>3 DEF ClearHistory, states, RetreatInv
  <1>5. CASE \E values \in Samples, failed \in {{}, Ids} : Evaluate(values, failed)
    <2>1. PICK values \in Samples, failed \in {{}, Ids} : Evaluate(values, failed)
      BY <1>5
    <2>2. (~firing[id] /\ id \notin Begins(values)) \/ id \in Ends(values)
      BY <2>1 DEF Evaluate, TypeOK
    <2>3. id \notin Begins(values)
      BY <2>2, JudgedRules
    <2>4. retreated'[id] = (retreated[id] \/ (/\ id \in Judged(values)
                              /\ Retreat(rules[id], values[rules[id].metric])))
      BY <2>1, <2>3 DEF Evaluate, Observe
    <2>5. CASE ~firing[id]
      BY <2>4, <2>5 DEF RetreatInv
    <2>6. CASE id \in Ends(values)
      <3>1. /\ id \in Judged(values)
            /\ ClearOf(rules[id], values[rules[id].metric])
        BY <2>6 DEF Ends
      <3>2. rules[id] \in Rule /\ values[rules[id].metric] \in Int
        BY <3>1, AlertsAssumption DEF Judged, TypeOK, IsRuleSet, Samples
      <3> QED BY <2>4, <3>1, <3>2, ClearOfRetreats
    <2> QED BY <2>2, <2>5, <2>6
  <1>6. CASE UNCHANGED vars
    BY <1>6 DEF vars, RetreatInv
  <1> QED BY <1>1, <1>2, <1>3, <1>5, <1>6, EditIsReset DEF Next, Edit, Restart

\* Between two beginnings of a rule a value retreated beyond the margin, or
\* the rule was edited.
THEOREM NoRuleFlaps == Spec => NoFlapping
  <1>1. Init => RetreatInv
    BY DEF Init, RetreatInv
  <1>2. RetreatInv /\ [Next]_vars
          => [\A id \in Ids : Began(id) => retreated[id]]_vars
    BY DEF RetreatInv, Began
  <1> QED BY <1>1, <1>2, RetreatStep, TypeCorrect, PTL DEF Spec, NoFlapping

-----------------------------------------------------------------------------
(* The cooldown *)

\* The clock of the cooldown never runs ahead of the time since the last
\* notification that the rule fires.
CooldownInv == \A id \in Ids : SinceSent(id) <= since_active[id]

\* Every step keeps CooldownInv.
LEMMA CooldownStep == TypeOK /\ CooldownInv /\ [Next]_vars => CooldownInv'
  <1> SUFFICES ASSUME TypeOK, CooldownInv, [Next]_vars, NEW id \in Ids
               PROVE  SinceSent(id)' <= since_active'[id]
    BY DEF CooldownInv
  <1>0. /\ SinceSent(id) \in Ages /\ since_active[id] \in Ages
        /\ SinceSent(id) <= since_active[id] /\ uptime \in Ages
    BY DEF TypeOK, SinceSent, CooldownInv
  <1>1. CASE Elapse
    <2>1. SinceSent(id)' = Older(SinceSent(id))
      BY <1>1 DEF Elapse, SinceSent
    <2>2. since_active'[id] = Older(since_active[id])
      BY <1>1 DEF Elapse
    <2> QED BY <1>0, <2>1, <2>2, OlderMonotone
  <1>2. CASE UNCHANGED <<uptime, sent, since_sent, since_active>>
    BY <1>0, <1>2 DEF SinceSent
  <1>3. CASE Restart
    <2>1. SinceSent(id)' = uptime /\ since_active'[id] = Horizon
      BY <1>3 DEF Restart, SinceSent
    <2> QED BY <1>0, <2>1, AlertsAssumption DEF Ages
  <1>4. CASE \E values \in Samples, failed \in {{}, Ids} : Evaluate(values, failed)
    <2>1. PICK values \in Samples, failed \in {{}, Ids} : Evaluate(values, failed)
      BY <1>4
    <2> DEFINE ids == {n[1] : n \in Announced(values)}
    <2>2. /\ sent' = sent \cup ids
          /\ since_sent'[id] = IF id \in ids THEN 0 ELSE since_sent[id]
          /\ uptime' = uptime
      BY <2>1 DEF Evaluate, Notify
    <2>3. since_active'[id] = IF <<id, TRUE>> \in Announced(values) THEN 0
                              ELSE since_active[id]
      BY <2>1 DEF Evaluate, Observe
    <2>4. since_active'[id] \in Ages
      BY NextType DEF TypeOK
    <2>7. <<id, TRUE>> \in Announced(values) => id \in ids
      <3>1. <<id, TRUE>>[1] = id
        OBVIOUS
      <3> QED BY <3>1
    <2> HIDE DEF ids
    <2>5. CASE id \in ids
      <3>1. SinceSent(id)' = 0
        BY <2>2, <2>5 DEF SinceSent
      <3> QED BY <2>4, <3>1, AgeIsNat
    <2>6. CASE id \notin ids
      <3>1. <<id, TRUE>> \notin Announced(values)
        BY <2>6, <2>7
      <3>2. SinceSent(id)' = SinceSent(id)
        BY <2>2, <2>6 DEF SinceSent
      <3> QED BY <1>0, <2>3, <3>1, <3>2
    <2> QED BY <2>5, <2>6
  <1> QED BY <1>1, <1>2, <1>3, <1>4, EditIsReset
          DEF Next, Edit, ClearHistory, vars

\* While the program runs, two notifications that a rule fires are at least
\* the cooldown apart.
THEOREM CooldownKept == Spec => CooldownHolds
  <1>1. Init => CooldownInv
    BY AlertsAssumption DEF Init, CooldownInv, SinceSent, Ages
  <1>2. ASSUME TypeOK, CooldownInv, [Next]_vars, ~UNCHANGED vars,
               NEW id \in Ids, <<id, TRUE>> \in notices'
        PROVE  since_active[id] >= Cooldown
    <2>1. notices' # {}
      BY <1>2
    <2>2. PICK values \in Samples, failed \in {{}, Ids} : Evaluate(values, failed)
      BY <1>2, <2>1, EditIsReset
         DEF Next, Elapse, Edit, ClearHistory, Restart
    <2>3. <<id, TRUE>> \in Announced(values)
      BY <1>2, <2>2 DEF Evaluate, Notify
    <2>4. SinceSent(id) >= Cooldown
      BY <2>3, AnnouncedBegins
    <2>5. /\ SinceSent(id) \in Nat /\ since_active[id] \in Nat /\ Cooldown \in Nat
          /\ SinceSent(id) <= since_active[id]
      BY <1>2, AgesAreNat DEF TypeOK, SinceSent, CooldownInv
    <2> QED BY <2>4, <2>5
  <1>3. TypeOK /\ CooldownInv /\ [Next]_vars
          => [\A id \in Ids :
                <<id, TRUE>> \in notices' => since_active[id] >= Cooldown]_vars
    BY <1>2
  <1> QED BY <1>1, <1>3, CooldownStep, TypeCorrect, PTL DEF Spec, CooldownHolds


-----------------------------------------------------------------------------
(* The recorded history and the badge *)

\* Every step keeps the latest rows in agreement with the states.
LEMMA HistoryStep ==
  TypeOK /\ HistoryFollowsFiring /\ [Next]_vars => HistoryFollowsFiring'
  <1> SUFFICES ASSUME TypeOK, HistoryFollowsFiring, [Next]_vars,
                      NEW id \in Ids, id \notin missed'
               PROVE  id \in recorded' <=> firing'[id] = TRUE
    BY NextType DEF HistoryFollowsFiring, TypeOK
  <1>0. id \notin missed => (id \in recorded <=> firing[id] = TRUE)
    BY DEF HistoryFollowsFiring, TypeOK
  <1>1. CASE Elapse \/ UNCHANGED vars
    BY <1>0, <1>1 DEF Elapse, vars
  <1>2. CASE recorded' = recorded /\ \E S \in SUBSET Ids : Reset(S)
    <2>1. PICK S \in SUBSET Ids : Reset(S)
      BY <1>2
    <2>2. id \notin missed /\ ~(id \in S /\ firing[id])
      BY <2>1 DEF Reset
    <2>3. firing'[id] = firing[id]
      BY <2>1, <2>2 DEF Reset, TypeOK
    <2> QED BY <1>0, <1>2, <2>2, <2>3
  <1>3. CASE ClearHistory
    BY <1>3 DEF ClearHistory, states, TypeOK
  <1>4. CASE \E values \in Samples, failed \in {{}, Ids} : Evaluate(values, failed)
    <2>1. PICK values \in Samples, failed \in {{}, Ids} : Evaluate(values, failed)
      BY <1>4
    <2>2. /\ firing'[id] = ((firing[id] \/ id \in Begins(values)) /\ id \notin Ends(values))
          /\ recorded' = (recorded \ (Ends(values) \ failed))
                             \cup (Begins(values) \ failed)
      BY <2>1 DEF Evaluate, Record
    <2>3. missed' = (missed \ (Begins(values) \cup Ends(values)))
                      \cup ((Begins(values) \cup Ends(values)) \cap failed)
      BY <2>1 DEF Evaluate, Observe
    <2>4. Begins(values) \cap Ends(values) = {}
      BY JudgedRules
    <2> QED BY <1>0, <2>2, <2>3, <2>4
  <1> QED BY <1>1, <1>2, <1>3, <1>4, EditIsReset DEF Next, Edit, Restart

\* The latest row of a rule agrees with its state unless it was never written.
THEOREM HistoryCorrect == Spec => []HistoryFollowsFiring
  <1>1. Init => HistoryFollowsFiring
    BY DEF Init, HistoryFollowsFiring
  <1> QED BY <1>1, HistoryStep, TypeCorrect, PTL DEF Spec

\* Only an edit makes the badge of the sidebar wrong.
THEOREM BadgeCorrect == Spec => OnlyEditsSpoilTheBadge
  <1>1. ASSUME TypeOK, [Next]_vars, BadgeIsRight, ~EditRules
        PROVE  BadgeIsRight'
    <2> USE DEF BadgeIsRight
    <2>1. CASE Elapse \/ ClearHistory \/ UNCHANGED vars
      BY <1>1, <2>1 DEF Elapse, ClearHistory, states, vars
    <2>2. CASE Restart
      <3>1. {id \in DOMAIN rules' : firing'[id]} = {}
        BY <1>1, <2>2, LoadableType DEF Restart, Reset, IsRuleSet
      <3> QED BY <2>2, <3>1, FS_EmptySet DEF Restart
    <2>3. CASE \E values \in Samples, failed \in {{}, Ids} : Evaluate(values, failed)
      <3>1. PICK values \in Samples, failed \in {{}, Ids} : Evaluate(values, failed)
        BY <2>3
      <3>2. rules' = rules
        BY <3>1 DEF Evaluate
      <3>3. CASE Begins(values) \cup Ends(values) = {}
        <4>1. badge' = badge
          BY <3>1, <3>3 DEF Evaluate, CountBadge
        <4>2. firing' = [id \in Ids |->
                  (firing[id] \/ id \in Begins(values)) /\ id \notin Ends(values)]
          BY <3>1 DEF Evaluate
        <4>3. \A id \in Ids : firing'[id] <=> firing[id]
          BY <3>3, <4>2
        <4>4. DOMAIN rules \subseteq Ids
          BY <1>1 DEF TypeOK, IsRuleSet
        <4>5. {id \in DOMAIN rules : firing'[id]} = {id \in DOMAIN rules : firing[id]}
          BY <4>3, <4>4
        <4> QED BY <1>1, <3>2, <4>1, <4>5
      <3>4. CASE Begins(values) \cup Ends(values) # {}
        BY <3>1, <3>2, <3>4 DEF Evaluate, CountBadge
      <3> QED BY <3>3, <3>4
    <2> QED BY <1>1, <2>1, <2>2, <2>3 DEF Next
  <1>2. TypeOK /\ [Next]_vars => [BadgeIsRight => BadgeIsRight' \/ EditRules]_vars
    BY <1>1
  <1> QED BY <1>2, TypeCorrect, PTL DEF Spec, OnlyEditsSpoilTheBadge

=============================================================================
