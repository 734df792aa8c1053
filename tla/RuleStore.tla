------------------------------- MODULE RuleStore -------------------------------
(***************************************************************************)
(* The rules of the AlertEngine (app/services/alerts.py) and the settings  *)
(* they are kept in.  The engine works with rules of its own; every edit   *)
(* hands the whole list to ConfigService.set, step by step as in Config,   *)
(* and a start of the program makes rules of the list again.  A save may   *)
(* fail or be cut short, the settings may be reset behind the engine's     *)
(* back, and the file may hold entries that no program wrote.              *)
(*                                                                         *)
(* An entry has fields a rule cannot do without (rule_id, metric,          *)
(* threshold), here its identifier and what, and fields that have a        *)
(* default (comparison, severity, label, ...), here enabled.               *)
(***************************************************************************)
EXTENDS Config

CONSTANTS
  List,        \* the key "alert_rules"
  Ids,         \* identifiers of rules
  Conditions,  \* what a rule may be about
  Defaults,    \* _default_rules(), by identifier
  Garbage,     \* a field that is absent or cannot be converted
  Absent       \* an optional field that is absent

Rule == [what : Conditions, enabled : BOOLEAN]

RuleSets == UNION {[S -> Rule] : S \in SUBSET Ids}

\* What the list in the settings may hold, by identifier.
Entry == [what : Conditions \cup {Garbage}, enabled : BOOLEAN \cup {Absent}]

Lists == UNION {[S -> Entry] : S \in SUBSET Ids}

Empty == [id \in {} |-> {}]

ASSUME RuleStoreAssumption ==
  /\ List \in Keys \ (Overridable \cup Followed)
  /\ Values[List] = Lists
  /\ Default[List] = Empty
  /\ Defaults \in RuleSets
  /\ DOMAIN Defaults # {}
  /\ Garbage \notin Conditions
  /\ Absent \notin BOOLEAN

VARIABLES
  rules,    \* AlertEngine._rules; with no engine, those of the last one
  engine    \* "none" before its constructor, "seeding" while that saves

\* A history variable: the list on disk need not tell of these rules, because
\* its save failed or was cut short, or it was lost or written by somebody else.
VARIABLE doubtful

vars == <<configVars, rules, engine, doubtful>>

TypeOK ==
  /\ ConfigTypeOK
  /\ rules \in RuleSets
  /\ engine \in {"none", "seeding", "up"}
  /\ doubtful \in BOOLEAN

Init ==
  /\ ConfigInit
  /\ rules = Empty
  /\ engine = "none"
  /\ doubtful = FALSE

-----------------------------------------------------------------------------
(* Conversion *)

\* _serialise writes every field.
Serialised(set) ==
  [id \in DOMAIN set |-> [what |-> set[id].what, enabled |-> set[id].enabled]]

\* _deserialise: an absent field takes its default, a malformed entry none.
Deserialised(list) ==
  [id \in {i \in DOMAIN list : list[i].what # Garbage} |->
     [what |-> list[id].what,
      enabled |-> IF list[id].enabled = Absent THEN TRUE ELSE list[id].enabled]]

-----------------------------------------------------------------------------
(* The engine *)

MutantPersist(set) ==
  IF Serialised(set) = live[List]
    THEN pc = "idle" /\ UNCHANGED configVars
    ELSE Set(List, Serialised(set), engine # "up")

\* set() does nothing when the live list is the same already.
Persist(set) ==
  IF Serialised(set) = live[List]
    THEN pc = "idle" /\ UNCHANGED configVars
    ELSE Set(List, Serialised(set), TRUE)

\* The constructor takes an empty list for a first run.
LoadRules ==
  /\ pc = "idle"
  /\ engine = "none"
  /\ IF live[List] = Empty
       THEN rules' = Defaults /\ engine' = "seeding" /\ Persist(Defaults)
       ELSE /\ rules' = Deserialised(live[List])
            /\ engine' = "up"
            /\ UNCHANGED configVars
  /\ doubtful' = FALSE

Edit(set) ==
  /\ engine = "up"
  /\ rules' = set
  /\ Persist(set)
  /\ UNCHANGED <<engine, doubtful>>

Put(id, rule) ==
  Edit([i \in DOMAIN rules \cup {id} |-> IF i = id THEN rule ELSE rules[i]])

\* The identifier is drawn at random.
AddRule(id, what) ==
  /\ id \notin DOMAIN rules \cup DOMAIN Defaults
  /\ Put(id, [what |-> what, enabled |-> TRUE])

UpdateRule(id, what) ==
  /\ id \in DOMAIN rules
  /\ Put(id, [rules[id] EXCEPT !.what = what])

SetEnabled(id, on) ==
  /\ id \in DOMAIN rules
  /\ Put(id, [rules[id] EXCEPT !.enabled = on])

RemoveRule(id) ==
  /\ id \in DOMAIN rules
  /\ Edit([i \in DOMAIN rules \ {id} |-> rules[i]])

RestoreDefaults == Edit(Defaults)

-----------------------------------------------------------------------------
(* The settings around it *)

\* A save that the list on disk depends on.
ListAtStake == Saving /\ job \in {List, "reset"}

StartSettings(readable, override) ==
  /\ Start(readable, override)
  /\ engine' = "none"
  /\ doubtful' = (doubtful \/ ~readable)
  /\ UNCHANGED rules

EditSettings(settings) ==
  /\ EditFile(settings)
  /\ doubtful' = TRUE
  /\ UNCHANGED <<rules, engine>>

Kill ==
  /\ Crash
  /\ doubtful' = (doubtful \/ ListAtStake)
  /\ UNCHANGED <<rules, engine>>

\* Only the running program has a user; the container closes the settings at
\* any time, also when the engine or another service could not be built.
SetOther(k, v, persist) ==
  /\ engine = "up"
  /\ Set(k, v, persist)
  /\ UNCHANGED <<rules, engine, doubtful>>

\* The engine is not subscribed to the settings and keeps its rules.
ResetSettings ==
  /\ engine = "up"
  /\ Reset
  /\ UNCHANGED <<rules, engine, doubtful>>

SaveSettings(last) ==
  /\ last \/ engine = "up"
  /\ Save(last)
  /\ UNCHANGED <<rules, engine, doubtful>>

Write ==
  /\ Open \/ Fill
  /\ UNCHANGED <<rules, engine, doubtful>>

Rename ==
  /\ Replace
  /\ doubtful' = (engine = "none" /\ doubtful)
  /\ UNCHANGED <<rules, engine>>

\* When set() raises in the constructor, there is no engine: what is left to do
\* is to close the settings.
Fail ==
  /\ SaveFails \/ SaveRaises
  /\ doubtful' = (doubtful \/ ListAtStake)
  /\ UNCHANGED <<rules, engine>>

Tell ==
  /\ Notify
  /\ engine' = "up"
  /\ UNCHANGED <<rules, doubtful>>

-----------------------------------------------------------------------------

EditRules ==
  \/ \E id \in Ids, what \in Conditions : AddRule(id, what) \/ UpdateRule(id, what)
  \/ \E id \in Ids, on \in BOOLEAN : SetEnabled(id, on)
  \/ \E id \in Ids : RemoveRule(id)
  \/ RestoreDefaults

Next ==
  \/ LoadRules
  \/ EditRules
  \/ \E readable \in BOOLEAN, override \in Overrides : StartSettings(readable, override)
  \/ \E settings \in Handwritten : EditSettings(settings)
  \/ Kill
  \/ \E k \in Keys \ {List} : \E v \in Values[k], persist \in BOOLEAN : SetOther(k, v, persist)
  \/ ResetSettings
  \/ \E last \in BOOLEAN : SaveSettings(last)
  \/ Write
  \/ Rename
  \/ Fail
  \/ Tell

Spec == Init /\ [][Next]_vars

-----------------------------------------------------------------------------
(* Properties *)

\* A start loses no edit of the rules and brings no removed rule back, whatever
\* was saved, reset, killed or closed in between, unless the save that would
\* have told of the last edit failed or was cut short, or the file was lost or
\* written by hand.  A list that is empty on disk, because the user removed all
\* rules or reset the settings, brings the defaults (tests/test_alerts.py:143,
\* alerts.py:79-92).
RulesSurviveRestart ==
  [][LoadRules => \/ doubtful
                  \/ rules' = rules
                  \/ file[List] = Empty /\ rules' = Defaults]_vars
=============================================================================
