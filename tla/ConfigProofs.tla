----------------------------- MODULE ConfigProofs -----------------------------
(***************************************************************************)
(* The safety properties of Config and RuleStore, for every set of keys,   *)
(* of values and of rules.  The steps of RuleStore are steps of Config, so *)
(* that what is shown of Config's steps holds for the two together.        *)
(***************************************************************************)
EXTENDS RuleStore, TLAPS

-----------------------------------------------------------------------------
(* Types *)

\* What is written of rules is a list, and what is read of a list is rules.
LEMMA Conversions ==
  /\ \A set \in RuleSets : Serialised(set) \in Lists
  /\ \A list \in Lists : Deserialised(list) \in RuleSets
  /\ \A set \in RuleSets : Deserialised(Serialised(set)) = set
<1>1. ASSUME NEW set \in RuleSets
      PROVE  /\ Serialised(set) \in Lists
             /\ Deserialised(Serialised(set)) = set
  <2>1. PICK S \in SUBSET Ids : set \in [S -> Rule]
    BY DEF RuleSets
  <2>2. /\ DOMAIN set = S
        /\ \A id \in S : set[id] \in Rule
    BY <2>1
  <2>3. \A id \in S : [what |-> set[id].what, enabled |-> set[id].enabled] = set[id]
    BY <2>2 DEF Rule
  <2>4. Serialised(set) = set
    BY <2>1, <2>2, <2>3 DEF Serialised
  <2>5. \A id \in S : set[id] \in Entry
    BY <2>2 DEF Rule, Entry
  <2>6. Serialised(set) \in [S -> Entry]
    BY <2>1, <2>4, <2>5
  <2>7. \A id \in S : set[id].what # Garbage /\ set[id].enabled # Absent
    BY <2>2, RuleStoreAssumption DEF Rule
  <2>8. {i \in DOMAIN set : set[i].what # Garbage} = S
    BY <2>2, <2>7
  <2>9. Deserialised(set) = [id \in S |-> [what |-> set[id].what,
                                           enabled |-> set[id].enabled]]
    BY <2>7, <2>8 DEF Deserialised
  <2>10. Deserialised(set) = set
    BY <2>1, <2>3, <2>9
  <2> QED BY <2>4, <2>6, <2>10 DEF Lists
<1>2. ASSUME NEW list \in Lists
      PROVE  Deserialised(list) \in RuleSets
  <2>1. PICK S \in SUBSET Ids : list \in [S -> Entry]
    BY DEF Lists
  <2> DEFINE T == {i \in DOMAIN list : list[i].what # Garbage}
  <2>2. T \in SUBSET Ids
    BY <2>1
  <2>3. \A id \in T : /\ list[id].what \in Conditions
                      /\ list[id].enabled \in BOOLEAN \cup {Absent}
    BY <2>1 DEF Entry
  <2>4. \A id \in T :
          [what |-> list[id].what,
           enabled |-> IF list[id].enabled = Absent THEN TRUE ELSE list[id].enabled]
            \in Rule
    BY <2>3 DEF Rule
  <2>5. Deserialised(list) \in [T -> Rule]
    BY <2>4 DEF Deserialised
  <2> QED BY <2>2, <2>5 DEF RuleSets
<1> QED BY <1>1, <1>2

\* What gives every key of S one of its values is an assignment.
LEMMA Assigned ==
  ASSUME NEW S, NEW f, f = [k \in S |-> f[k]], \A k \in S : f[k] \in Values[k]
  PROVE  f \in Assignments(S)
<1>1. \A k \in S : f[k] \in UNION {Values[j] : j \in S}
  OBVIOUS
<1>2. f \in [S -> UNION {Values[j] : j \in S}]
  BY <1>1
<1> QED BY <1>2 DEF Assignments

\* An assignment is a function that gives every key one of its values.
LEMMA AssignmentIs ==
  ASSUME NEW S, NEW f \in Assignments(S)
  PROVE  DOMAIN f = S /\ f = [k \in S |-> f[k]] /\ \A k \in S : f[k] \in Values[k]
  BY DEF Assignments

\* A value of a key may be put into the settings.
LEMMA SettingsExcept ==
  ASSUME NEW s \in Settings, NEW k \in Keys, NEW v \in Values[k]
  PROVE  [s EXCEPT ![k] = v] \in Settings
<1> DEFINE t == [s EXCEPT ![k] = v]
<1>1. t = [j \in Keys |-> t[j]] /\ \A j \in Keys : t[j] \in Values[j]
  BY AssignmentIs DEF Settings
<1> HIDE DEF t
<1>2. t \in Settings
  BY <1>1, Assigned DEF Settings
<1> QED BY <1>2 DEF t

\* Whatever the editor does makes rules of rules.
LEMMA EditedRules ==
  ASSUME rules \in RuleSets, EditRules
  PROVE  \E set \in RuleSets : Edit(set)
<1>0. PICK S \in SUBSET Ids : rules \in [S -> Rule]
  BY DEF RuleSets
<1>1. ASSUME NEW id \in Ids, NEW rule \in Rule, Put(id, rule)
      PROVE  \E set \in RuleSets : Edit(set)
  <2> DEFINE set == [i \in DOMAIN rules \cup {id} |-> IF i = id THEN rule ELSE rules[i]]
  <2>1. set \in [S \cup {id} -> Rule]
    BY <1>0
  <2>2. set \in RuleSets
    BY <2>1 DEF RuleSets
  <2>3. Edit(set)
    BY <1>1 DEF Put
  <2> HIDE DEF set
  <2> QED BY <2>2, <2>3
<1>2. ASSUME NEW id \in Ids, RemoveRule(id)
      PROVE  \E set \in RuleSets : Edit(set)
  <2> DEFINE set == [i \in DOMAIN rules \ {id} |-> rules[i]]
  <2>1. set \in [S \ {id} -> Rule]
    BY <1>0
  <2>2. set \in RuleSets
    BY <2>1 DEF RuleSets
  <2>3. Edit(set)
    BY <1>2 DEF RemoveRule
  <2> HIDE DEF set
  <2> QED BY <2>2, <2>3
<1>3. ASSUME NEW id \in Ids, NEW what \in Conditions, AddRule(id, what) \/ UpdateRule(id, what)
      PROVE  \E set \in RuleSets : Edit(set)
  <2>1. [what |-> what, enabled |-> TRUE] \in Rule
    BY DEF Rule
  <2>2. id \in DOMAIN rules => [rules[id] EXCEPT !.what = what] \in Rule
    BY <1>0 DEF Rule
  <2> QED BY <1>1, <1>3, <2>1, <2>2 DEF AddRule, UpdateRule
<1>4. ASSUME NEW id \in Ids, NEW on \in BOOLEAN, SetEnabled(id, on)
      PROVE  \E set \in RuleSets : Edit(set)
  <2>1. id \in DOMAIN rules => [rules[id] EXCEPT !.enabled = on] \in Rule
    BY <1>0 DEF Rule
  <2> QED BY <1>1, <1>4, <2>1 DEF SetEnabled
<1>5. CASE RestoreDefaults
  BY <1>5, RuleStoreAssumption DEF RestoreDefaults
<1> QED BY <1>2, <1>3, <1>4, <1>5 DEF EditRules

\* Every step of the rule store is a step of the settings service, or none.
LEMMA StepsOfConfig == TypeOK /\ [Next]_vars => [ConfigNext]_configVars
<1> SUFFICES ASSUME TypeOK, [Next]_vars
             PROVE  [ConfigNext]_configVars
  OBVIOUS
<1>1. ASSUME NEW set \in RuleSets, Persist(set)
      PROVE  [ConfigNext]_configVars
  <2>1. Serialised(set) \in Values[List] /\ List \in Keys
    BY Conversions, RuleStoreAssumption
  <2> QED BY <1>1, <2>1 DEF Persist, ConfigNext
<1>2. ASSUME NEW set \in RuleSets, Edit(set)
      PROVE  [ConfigNext]_configVars
  BY <1>1, <1>2 DEF Edit
<1>3. CASE LoadRules
  BY <1>1, <1>3, RuleStoreAssumption DEF LoadRules
<1>4. CASE EditRules
  <2>1. PICK set \in RuleSets : Edit(set)
    BY <1>4, EditedRules DEF TypeOK
  <2> QED BY <1>2, <2>1
<1>5. CASE \E k \in Keys \ {List} : \E v \in Values[k], persist \in BOOLEAN :
             SetOther(k, v, persist)
  BY <1>5 DEF SetOther, ConfigNext
<1>6. CASE \/ \E readable \in BOOLEAN, override \in Overrides :
                StartSettings(readable, override)
           \/ \E settings \in Handwritten : EditSettings(settings)
           \/ \E last \in BOOLEAN : SaveSettings(last)
  BY <1>6 DEF StartSettings, EditSettings, SaveSettings, ConfigNext
<1>7. CASE Kill \/ ResetSettings \/ Write \/ Rename \/ Fail \/ Tell
  BY <1>7 DEF Kill, ResetSettings, Write, Rename, Fail, Tell, ConfigNext
<1>8. CASE UNCHANGED vars
  BY <1>8 DEF vars, configVars
<1> QED BY <1>3, <1>4, <1>5, <1>6, <1>7, <1>8 DEF Next

\* Config's part of the type invariant is inductive by itself.
LEMMA ConfigType == ConfigTypeOK /\ [ConfigNext]_configVars => ConfigTypeOK'
<1> SUFFICES ASSUME ConfigTypeOK, [ConfigNext]_configVars
             PROVE  ConfigTypeOK'
  OBVIOUS
<1> USE ConfigAssumption DEF ConfigTypeOK, Jobs
<1>1. ASSUME NEW readable \in BOOLEAN, NEW override \in Overrides,
             Start(readable, override)
      PROVE  ConfigTypeOK'
  <2>1. PICK S \in SUBSET Overridable : override \in Assignments(S)
    BY <1>1 DEF Overrides
  <2>2. DOMAIN override \subseteq Keys /\ \A k \in DOMAIN override : override[k] \in Values[k]
    BY <2>1, AssignmentIs
  <2>3. /\ live' = [k \in Keys |-> live'[k]]
        /\ \A k \in Keys : live'[k] \in Values[k]
    <3>1. \A s \in Settings, k \in Keys : s[k] \in Values[k]
      BY AssignmentIs DEF Settings
    <3> QED BY <1>1, <2>2, <3>1 DEF Start
  <2>4. live' \in Settings
    BY <2>3, Assigned DEF Settings
  <2>5. applied' \in Assignments(Followed)
    <3>1. applied' = [k \in Followed |-> applied'[k]] /\ \A k \in Followed : applied'[k] \in Values[k]
      BY <1>1, <2>3 DEF Start
    <3> QED BY <3>1, Assigned
  <2> QED BY <1>1, <2>2, <2>4, <2>5 DEF Start
<1>13. ASSUME NEW settings \in Handwritten, EditFile(settings)
       PROVE  ConfigTypeOK'
  BY <1>13 DEF EditFile
<1>2. CASE Crash
  BY <1>2 DEF Crash
<1>3. ASSUME NEW k \in Keys, NEW v \in Values[k], NEW persist \in BOOLEAN,
             Set(k, v, persist)
      PROVE  ConfigTypeOK'
  BY <1>3, SettingsExcept DEF Set
<1>4. CASE Reset
  BY <1>4 DEF Reset
<1>5. ASSUME NEW last \in BOOLEAN, Save(last)
      PROVE  ConfigTypeOK'
  BY <1>5 DEF Save
<1>6. CASE Open
  BY <1>6 DEF Open
<1>7. CASE Fill
  BY <1>7 DEF Fill
<1>8. CASE Replace
  BY <1>8 DEF Replace, After
<1>9. CASE SaveFails
  BY <1>9 DEF SaveFails, Saving, Changed, AfterFailure, After
<1>10. CASE Notify
  <2>1. applied' = [k \in Followed |-> applied'[k]] /\ \A k \in Followed : applied'[k] \in Values[k]
    BY <1>10, AssignmentIs DEF Notify, Settings
  <2>2. applied' \in Assignments(Followed)
    BY <2>1, Assigned
  <2> QED BY <1>10, <2>2 DEF Notify
<1>11. CASE SaveRaises
  BY <1>11 DEF SaveRaises, Saving, Changed
<1>12. CASE UNCHANGED configVars
  BY <1>12 DEF configVars
<1> QED BY <1>1, <1>2, <1>3, <1>4, <1>5, <1>6, <1>7, <1>8, <1>9, <1>10,
           <1>11, <1>12, <1>13 DEF ConfigNext

\* Every variable of the settings and of the rules keeps its type.
THEOREM TypeCorrect == Spec => []TypeOK
<1>1. Init => TypeOK
  <2>1. ASSUME Init
        PROVE  ConfigTypeOK
    <3>1. applied = [k \in Followed |-> applied[k]] /\ \A k \in Followed : applied[k] \in Values[k]
      BY <2>1, AssignmentIs, ConfigAssumption DEF Init, ConfigInit, Settings
    <3>2. applied \in Assignments(Followed)
      BY <3>1, Assigned
    <3> QED BY <2>1, <3>2, ConfigAssumption DEF Init, ConfigInit, ConfigTypeOK, Jobs
  <2>2. Empty \in [{} -> Rule]
    BY DEF Empty
  <2>3. Empty \in RuleSets
    BY <2>2 DEF RuleSets
  <2> QED BY <2>1, <2>3 DEF Init, TypeOK
<1>2. TypeOK /\ [Next]_vars => TypeOK'
  <2> SUFFICES ASSUME TypeOK, [Next]_vars
               PROVE  TypeOK'
    OBVIOUS
  <2>1. ConfigTypeOK'
    BY StepsOfConfig, ConfigType DEF TypeOK
  <2>2. CASE LoadRules
    <3>1. live[List] \in Lists
      BY AssignmentIs, RuleStoreAssumption DEF TypeOK, ConfigTypeOK, Settings
    <3>2. rules' \in RuleSets
      BY <2>2, <3>1, Conversions, RuleStoreAssumption DEF LoadRules
    <3> QED BY <2>1, <2>2, <3>2 DEF LoadRules, TypeOK
  <2>3. CASE EditRules
    <3>1. PICK set \in RuleSets : Edit(set)
      BY <2>3, EditedRules DEF TypeOK
    <3> QED BY <2>1, <3>1 DEF Edit, TypeOK
  <2>4. CASE ~LoadRules /\ ~EditRules
    BY <2>1, <2>4 DEF Next, StartSettings, EditSettings, Kill, SetOther, ResetSettings,
                      SaveSettings, Write, Rename, Fail, Tell, vars, TypeOK
  <2> QED BY <2>2, <2>3, <2>4
<1> QED BY <1>1, <1>2, PTL DEF Spec

-----------------------------------------------------------------------------
(* The file *)

\* A save in flight has not touched the settings file, and its temporary file
\* is complete before it is renamed: the settings file is never torn.
THEOREM FileCorrect == Spec => []FileIsWhole
<1>1. Init => FileIsWhole
  BY ConfigAssumption DEF Init, ConfigInit, FileIsWhole
<1>2. ConfigTypeOK /\ FileIsWhole /\ [ConfigNext]_configVars => FileIsWhole'
  <2> SUFFICES ASSUME ConfigTypeOK, FileIsWhole, [ConfigNext]_configVars
               PROVE  FileIsWhole'
    OBVIOUS
  <2>1. CASE Replace
    BY <2>1, ConfigAssumption DEF Replace, After, FileIsWhole, ConfigTypeOK
  <2>2. CASE Fill
    BY <2>2 DEF Fill, FileIsWhole
  <2>3. CASE ~Replace /\ ~Fill
    BY <2>3, ConfigAssumption
       DEF ConfigNext, configVars, Start, EditFile, Crash, Set, Reset, Save, Open,
           SaveFails, SaveRaises, AfterFailure, After, Notify, FileIsWhole
  <2> QED BY <2>1, <2>2, <2>3
<1>3. TypeOK => ConfigTypeOK
  BY DEF TypeOK
<1> QED BY <1>1, <1>2, <1>3, StepsOfConfig, TypeCorrect, PTL DEF Spec

\* The keys whose change is not on disk yet.
AtStake == IF Saving THEN Changed ELSE {}

\* What SettingsReachDisk says of the idle program also holds while a key is
\* saved, for the other ones, and while the listeners are told of it.
DiskInv ==
  pc # "down" => \A k \in Keys \ (unsaved \cup AtStake) : file[k] = live[k]

\* DiskInv is inductive together with FileIsWhole.
LEMMA DiskInvHolds == Spec => []DiskInv
<1>1. Init => DiskInv
  BY DEF Init, ConfigInit, DiskInv
<1>2. ConfigTypeOK /\ FileIsWhole /\ DiskInv /\ [ConfigNext]_configVars => DiskInv'
  <2> SUFFICES ASSUME ConfigTypeOK, FileIsWhole, DiskInv, [ConfigNext]_configVars
               PROVE  DiskInv'
    OBVIOUS
  <2> USE DEF DiskInv, AtStake, Saving, Changed
  <2>1. ASSUME NEW readable \in BOOLEAN, NEW override \in Overrides,
               Start(readable, override)
        PROVE  DiskInv'
    BY <2>1 DEF Start, FileIsWhole
  <2>2. CASE Crash
    BY <2>2 DEF Crash
  <2>3. ASSUME NEW k \in Keys, NEW v \in Values[k], NEW persist \in BOOLEAN,
               Set(k, v, persist)
        PROVE  DiskInv'
    <3>1. DOMAIN live = Keys
      BY AssignmentIs DEF ConfigTypeOK, Settings
    <3>2. \A j \in Keys \ {k} : live'[j] = live[j]
      BY <2>3, <3>1 DEF Set
    <3> QED BY <2>3, <3>2, ConfigAssumption DEF Set
  <2>4. CASE Reset
    BY <2>4 DEF Reset
  <2>5. ASSUME NEW last \in BOOLEAN, Save(last)
        PROVE  DiskInv'
    BY <2>5 DEF Save
  <2>6. CASE Open
    BY <2>6 DEF Open
  <2>7. CASE Fill
    BY <2>7 DEF Fill
  <2>8. CASE Replace
    BY <2>8 DEF Replace, FileIsWhole
  <2>9. CASE SaveFails
    BY <2>9 DEF SaveFails
  <2>10. CASE Notify
    BY <2>10 DEF Notify
  <2>11. CASE SaveRaises
    BY <2>11 DEF SaveRaises
  <2>12. CASE UNCHANGED configVars
    BY <2>12 DEF configVars
  <2>13. ASSUME NEW settings \in Handwritten, EditFile(settings)
         PROVE  DiskInv'
    BY <2>13 DEF EditFile
  <2> QED BY <2>1, <2>2, <2>3, <2>4, <2>5, <2>6, <2>7, <2>8, <2>9, <2>10,
             <2>11, <2>12, <2>13 DEF ConfigNext
<1>3. TypeOK => ConfigTypeOK
  BY DEF TypeOK
<1> QED BY <1>1, <1>2, <1>3, StepsOfConfig, TypeCorrect, FileCorrect, PTL DEF Spec

\* When the program is idle, the file holds the live value of every key that
\* was not set for this run only and whose own save did not fail.
THEOREM DiskCorrect == Spec => []SettingsReachDisk
<1>1. FileIsWhole /\ DiskInv => SettingsReachDisk
  BY DEF FileIsWhole, DiskInv, AtStake, Saving, SettingsReachDisk
<1> QED BY <1>1, FileCorrect, DiskInvHolds, PTL

-----------------------------------------------------------------------------
(* The listeners *)

\* While a change is under way the listeners lag behind in that key at most
\* (and in the untold ones), and a reset is remembered for as long as its
\* notification is outstanding.
ListenInv ==
  /\ pc \notin {"down", "idle"} /\ job = "reset" => reset
  /\ pc # "down" /\ ~reset =>
       \A k \in Followed :
         \/ applied[k] = live[k]
         \/ k \in untold
         \/ pc # "idle" /\ job = k

\* ListenInv is inductive together with the type invariant.
LEMMA ListenInvHolds == Spec => []ListenInv
<1>1. Init => ListenInv
  BY DEF Init, ConfigInit, ListenInv
<1>2. ConfigTypeOK /\ ListenInv /\ [ConfigNext]_configVars => ListenInv'
  <2> SUFFICES ASSUME ConfigTypeOK, ListenInv, [ConfigNext]_configVars
               PROVE  ListenInv'
    OBVIOUS
  <2> USE ConfigAssumption DEF ListenInv
  <2>1. ASSUME NEW readable \in BOOLEAN, NEW override \in Overrides,
               Start(readable, override)
        PROVE  ListenInv'
    BY <2>1 DEF Start
  <2>2. CASE Crash
    BY <2>2 DEF Crash
  <2>3. ASSUME NEW k \in Keys, NEW v \in Values[k], NEW persist \in BOOLEAN,
               Set(k, v, persist)
        PROVE  ListenInv'
    <3>1. DOMAIN live = Keys
      BY AssignmentIs DEF ConfigTypeOK, Settings
    <3>2. \A j \in Keys \ {k} : live'[j] = live[j]
      BY <2>3, <3>1 DEF Set
    <3> QED BY <2>3, <3>2 DEF Set
  <2>4. CASE Reset
    BY <2>4 DEF Reset
  <2>5. ASSUME NEW last \in BOOLEAN, Save(last)
        PROVE  ListenInv'
    BY <2>5 DEF Save
  <2>6. CASE Open
    BY <2>6 DEF Open
  <2>7. CASE Fill
    BY <2>7 DEF Fill
  <2>8. CASE Replace
    BY <2>8 DEF Replace, After
  <2>9. CASE SaveFails
    BY <2>9 DEF SaveFails, Saving, AfterFailure, After
  <2>10. CASE Notify
    BY <2>10 DEF Notify
  <2>11. CASE SaveRaises
    BY <2>11 DEF SaveRaises, Saving
  <2>12. CASE UNCHANGED configVars
    BY <2>12 DEF configVars
  <2>13. ASSUME NEW settings \in Handwritten, EditFile(settings)
         PROVE  ListenInv'
    BY <2>13 DEF EditFile
  <2> QED BY <2>1, <2>2, <2>3, <2>4, <2>5, <2>6, <2>7, <2>8, <2>9, <2>10,
             <2>11, <2>12, <2>13 DEF ConfigNext
<1>3. TypeOK => ConfigTypeOK
  BY DEF TypeOK
<1> QED BY <1>1, <1>2, <1>3, StepsOfConfig, TypeCorrect, PTL DEF Spec

\* When the program is idle and nobody has reset the settings, the listeners
\* work with the live ones, also after a save that failed, unless it raised.
THEOREM ListenersCorrect == Spec => []ListenersFollow
<1>1. TypeOK /\ ListenInv => ListenersFollow
  BY DEF ListenInv, ListenersFollow, TypeOK, ConfigTypeOK
<1> QED BY <1>1, TypeCorrect, ListenInvHolds, PTL

-----------------------------------------------------------------------------
(* The rules *)

\* A start makes the rules set of the list, or the list is empty.
Tells(list, set) == list = Empty \/ Deserialised(list) = set

\* The live list tells of the engine's rules once there is an engine; the list
\* on disk does so, and is the live one, unless it is in doubt or about to be
\* replaced; and until the engine has read the live list, it is the one on disk
\* or, that being unreadable, empty.
RulesInv ==
  /\ engine # "none" => Tells(live[List], rules)
  /\ ~doubtful => ListAtStake \/ Tells(file[List], rules)
  /\ engine # "none" /\ pc # "down" /\ ~doubtful => ListAtStake \/ file[List] = live[List]
  /\ engine = "none" /\ pc # "down" =>
       live[List] = file[List] \/ (live[List] = Empty /\ doubtful)
  /\ engine = "none" => pc \notin {"notify"} /\ ~(Saving /\ job # "close")

\* RulesInv is inductive together with FileIsWhole.
LEMMA RulesInvHolds == Spec => []RulesInv
<1>1. Init => RulesInv
  BY RuleStoreAssumption DEF Init, ConfigInit, RulesInv, Tells, Saving
<1>2. TypeOK /\ FileIsWhole /\ RulesInv /\ [Next]_vars => RulesInv'
  <2> SUFFICES ASSUME TypeOK, FileIsWhole, RulesInv, [Next]_vars
               PROVE  RulesInv'
    OBVIOUS
  <2> USE DEF RulesInv, ListAtStake, Saving
  <2>0. /\ List \in Keys /\ List \notin Overridable
        /\ live \in Settings /\ DOMAIN live = Keys /\ live[List] \in Lists
        /\ List \notin {"reset", "save", "close"}
    BY AssignmentIs, ConfigAssumption, RuleStoreAssumption DEF TypeOK, ConfigTypeOK, Settings
  <2>1. CASE LoadRules
    <3>1. CASE live[List] = Empty
      <4>1. Serialised(Defaults) # Empty /\ Serialised(Defaults) \in Lists
            /\ Deserialised(Serialised(Defaults)) = Defaults
        BY Conversions, RuleStoreAssumption DEF Serialised, Empty
      <4>2. Set(List, Serialised(Defaults), TRUE) /\ rules' = Defaults /\ engine' = "seeding"
            /\ doubtful' = FALSE
        BY <2>1, <3>1, <4>1 DEF LoadRules, Persist
      <4>3. live'[List] = Serialised(Defaults) /\ pc' = "write" /\ job' = List
        BY <2>0, <4>2 DEF Set
      <4> QED BY <2>0, <4>1, <4>2, <4>3 DEF Tells
    <3>2. CASE live[List] # Empty
      <4>1. /\ rules' = Deserialised(live[List]) /\ engine' = "up" /\ pc' = "idle"
            /\ live' = live /\ file' = file
        BY <2>1, <3>2 DEF LoadRules, configVars
      <4>2. live[List] = file[List]
        BY <2>1, <3>2 DEF LoadRules
      <4> QED BY <4>1, <4>2 DEF Tells
    <3> QED BY <3>1, <3>2
  <2>2. CASE EditRules
    <3>1. PICK set \in RuleSets : Edit(set)
      BY <2>2, EditedRules DEF TypeOK
    <3>2. Serialised(set) \in Lists /\ Deserialised(Serialised(set)) = set
      BY Conversions
    <3>3. CASE Serialised(set) = live[List]
      <4>1. /\ rules' = set /\ engine = "up" /\ engine' = "up" /\ doubtful' = doubtful
            /\ pc = "idle" /\ UNCHANGED configVars
        BY <3>1, <3>3 DEF Edit, Persist
      <4> QED BY <3>2, <3>3, <4>1 DEF configVars, Tells
    <3>4. CASE Serialised(set) # live[List]
      <4>1. Set(List, Serialised(set), TRUE) /\ rules' = set /\ engine' = "up"
            /\ doubtful' = doubtful
        BY <3>1, <3>4 DEF Edit, Persist
      <4>2. live'[List] = Serialised(set) /\ pc' = "write" /\ job' = List
        BY <2>0, <4>1 DEF Set
      <4> QED BY <3>2, <4>1, <4>2 DEF Tells
    <3> QED BY <3>3, <3>4
  <2>3. ASSUME NEW readable \in BOOLEAN, NEW override \in Overrides,
               StartSettings(readable, override)
        PROVE  RulesInv'
    <3>1. List \notin DOMAIN override
      <4>1. PICK S \in SUBSET Overridable : override \in Assignments(S)
        BY <2>3 DEF Overrides
      <4> QED BY <2>0, <4>1, AssignmentIs
    <3>2. live'[List] = file[List] \/ (live'[List] = Empty /\ ~readable)
      BY <2>0, <2>3, <3>1, RuleStoreAssumption DEF StartSettings, Start, FileIsWhole
    <3> QED BY <2>3, <3>2 DEF StartSettings, Start
  <2>4. ASSUME NEW settings \in Handwritten, EditSettings(settings)
        PROVE  RulesInv'
    BY <2>4 DEF EditSettings, EditFile
  <2>5. CASE Kill
    BY <2>5 DEF Kill, Crash
  <2>6. ASSUME NEW k \in Keys \ {List}, NEW v \in Values[k], NEW persist \in BOOLEAN,
               SetOther(k, v, persist)
        PROVE  RulesInv'
    <3>1. live'[List] = live[List]
      BY <2>0, <2>6 DEF SetOther, Set
    <3> QED BY <2>6, <3>1 DEF SetOther, Set
  <2>7. CASE ResetSettings
    BY <2>7, RuleStoreAssumption DEF ResetSettings, Reset, Tells
  <2>8. ASSUME NEW last \in BOOLEAN, SaveSettings(last)
        PROVE  RulesInv'
    BY <2>0, <2>8 DEF SaveSettings, Save
  <2>9. CASE Write
    BY <2>9 DEF Write, Open, Fill
  <2>10. CASE Rename
    <3>1. /\ pc = "replace" /\ file' = live /\ live' = live /\ pc' = After /\ job' = job
          /\ rules' = rules /\ engine' = engine
          /\ doubtful' = (engine = "none" /\ doubtful)
      BY <2>10 DEF Rename, Replace, FileIsWhole
    <3>2. pc' \in {"down", "idle", "notify"} /\ (job = "close" => pc' = "down")
      BY <3>1 DEF After
    <3>3. CASE engine = "none"
      <4>1. job = "close" /\ (live[List] = file[List] \/ doubtful)
        BY <3>1, <3>3
      <4>2. pc' = "down" /\ engine' = "none"
        BY <3>1, <3>2, <3>3, <4>1
      <4>3. ~doubtful' => Tells(file'[List], rules')
        <5>1. ~doubtful => Tells(file[List], rules) /\ live[List] = file[List]
          BY <2>0, <3>1, <4>1
        <5> QED BY <3>1, <3>3, <5>1 DEF Tells
      <4> QED BY <4>2, <4>3
    <3>4. CASE engine # "none"
      BY <3>1, <3>2, <3>4
    <3> QED BY <3>3, <3>4
  <2>11. CASE Fail
    BY <2>11 DEF Fail, SaveFails, SaveRaises, AfterFailure, After
  <2>12. CASE Tell
    BY <2>12 DEF Tell, Notify
  <2>13. CASE UNCHANGED vars
    BY <2>13 DEF vars, configVars
  <2> QED BY <2>1, <2>2, <2>3, <2>4, <2>5, <2>6, <2>7, <2>8, <2>9, <2>10, <2>11,
             <2>12, <2>13 DEF Next
<1> QED BY <1>1, <1>2, TypeCorrect, FileCorrect, PTL DEF Spec

\* No edit of the rules is lost by a restart and no removed rule comes back, for
\* any rules, values and points of failure, but for the stated reasons.
THEOREM RestartKeepsRules == Spec => RulesSurviveRestart
<1>1. TypeOK /\ RulesInv /\ [Next]_vars =>
        [LoadRules => \/ doubtful
                      \/ rules' = rules
                      \/ file[List] = Empty /\ rules' = Defaults]_vars
  <2> SUFFICES ASSUME RulesInv, LoadRules, ~doubtful
               PROVE  rules' = rules \/ (file[List] = Empty /\ rules' = Defaults)
    OBVIOUS
  <2>1. live[List] = file[List] /\ Tells(file[List], rules)
    BY DEF LoadRules, RulesInv, ListAtStake, Saving
  <2> QED BY <2>1 DEF LoadRules, Tells
<1> QED BY <1>1, TypeCorrect, RulesInvHolds, PTL DEF Spec, RulesSurviveRestart
=============================================================================
