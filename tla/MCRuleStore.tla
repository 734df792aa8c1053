------------------------------ MODULE MCRuleStore ------------------------------
(* Instances of RuleStore for TLC. *)
EXTENDS RuleStore

CONSTANTS theme, alert_rules, dark, light, hot, custom, above

MCKeys == {theme, alert_rules}
MCDefaults == [id \in {hot} |-> [what |-> above, enabled |-> TRUE]]

MCValues ==
  [k \in MCKeys |-> IF k = theme THEN {dark, light} ELSE Lists]

MCDefault ==
  [k \in MCKeys |-> IF k = theme THEN dark ELSE Empty]

\* An entry without its optional fields, one without a necessary field.
MCHandwritten ==
  {[MCDefault EXCEPT ![alert_rules] =
      [id \in {hot} |-> [what |-> above, enabled |-> Absent]]],
   [MCDefault EXCEPT ![alert_rules] =
      [id \in {hot, custom} |->
         IF id = hot THEN [what |-> Garbage, enabled |-> TRUE]
                     ELSE [what |-> above, enabled |-> FALSE]]],
   [MCDefault EXCEPT ![alert_rules] =
      [id \in {hot} |-> [what |-> Garbage, enabled |-> Absent]]]}
=============================================================================
