-------------------------------- MODULE Alerts --------------------------------
(***************************************************************************)
(* The alert path: AlertEngine (app/services/alerts.py) judges the rules   *)
(* against the metric values of each snapshot, AlertRepository records     *)
(* the transitions, and MainWindow._on_alert hands them to the             *)
(* NotificationService and recounts the badge of the sidebar.              *)
(*                                                                         *)
(* Everything runs on the GUI thread: one call of evaluate, with all the   *)
(* slots it reaches, is one action.  What interleaves is the order of      *)
(* samples, edits of the rule set, restarts and the passing of time.       *)
(*                                                                         *)
(* Points in time are kept as ages, which stop growing at Horizon: no      *)
(* comparison tells older ages apart.  Values, thresholds and metrics are  *)
(* integers; the margin of 3% is compared exactly, scaled by 100.          *)
(***************************************************************************)
EXTENDS Integers, FiniteSets

CONSTANTS
  Ids,        \* identifiers of rules
  Metrics,    \* metrics the rules watch
  Values,     \* values a metric takes
  Rules,      \* rules the user may write
  Defaults,   \* _default_rules(), by identifier
  Cooldown,   \* notifications.cooldown_seconds
  Horizon     \* the age at which clocks saturate

Comparisons == {"above", "below"}

Rule == [metric : Metrics, comparison : Comparisons, threshold : Int,
         sustain : 0 .. Horizon, enabled : BOOLEAN, notify : BOOLEAN]

\* What extract() yields for a snapshot: values of some of the metrics.
Samples == UNION {[S -> Values] : S \in SUBSET Metrics}

IsRuleSet(f) == DOMAIN f \subseteq Ids /\ f \in [DOMAIN f -> Rule]

ASSUME AlertsAssumption ==
  /\ IsFiniteSet(Ids)
  /\ Values \subseteq Int
  /\ Horizon \in Nat
  /\ Cooldown \in 0 .. Horizon
  /\ Rules \subseteq Rule
  /\ IsRuleSet(Defaults)
  /\ DOMAIN Defaults # {}

VARIABLES
  rules,       \* AlertEngine._rules
  breached,    \* _RuleState.breached_since is not None
  held,        \* now - breached_since, 0 when that is None
  firing,      \* _RuleState.firing
  uptime,      \* now - 0.0: the monotonic clock starts when the machine does
  sent,        \* the keys of NotificationService._last_sent
  since_sent,  \* now - _last_sent[id], for the keys
  notices,     \* the notifications of the last call: <<id, event.active>>
  recorded,    \* rules whose latest row of alert_events has active = 1
  badge        \* the number on the sidebar's entry for the alerts page

\* History variables, which no action reads.
VARIABLES
  calm,          \* time since the rule last saw a value that did not match,
                 \* or was reset
  retreated,     \* a value beyond the margin, or a reset, was seen since the
                 \* rule last began to fire
  since_active,  \* time since the rule last notified that it fires
  missed         \* rules whose state changed last without a row to tell of it

states == <<breached, held, firing>>
vars == <<rules, breached, held, firing, uptime, sent, since_sent,
          notices, recorded, badge, calm, retreated, since_active, missed>>

Ages == 0 .. Horizon

TypeOK ==
  /\ IsRuleSet(rules)
  /\ breached \in [Ids -> BOOLEAN]
  /\ held \in [Ids -> Ages]
  /\ firing \in [Ids -> BOOLEAN]
  /\ uptime \in Ages
  /\ sent \subseteq Ids
  /\ since_sent \in [Ids -> Ages]
  /\ notices \subseteq Ids \X BOOLEAN
  /\ recorded \subseteq Ids
  /\ badge \in 0 .. Cardinality(Ids)
  /\ calm \in [Ids -> Ages]
  /\ retreated \in [Ids -> BOOLEAN]
  /\ since_active \in [Ids -> Ages]
  /\ missed \subseteq Ids

-----------------------------------------------------------------------------
(* The rule store *)

\* The rules that a default rule or a rule of the user may be found as.
Variants(id) ==
  {[rule EXCEPT !.enabled = on] :
     rule \in Rules \cup {Defaults[i] : i \in {id} \cap DOMAIN Defaults}, on \in BOOLEAN}

\* What a start may make of the settings, which module RuleStore is about.
Loadable ==
  UNION {{f \in [S -> UNION {Variants(id) : id \in S}] : \A id \in S : f[id] \in Variants(id)} :
           S \in SUBSET Ids}

\* The first start, at any time after the machine booted.
Init ==
  /\ rules = Defaults
  /\ breached = [id \in Ids |-> FALSE]
  /\ held = [id \in Ids |-> 0]
  /\ firing = [id \in Ids |-> FALSE]
  /\ uptime \in Ages
  /\ sent = {}
  /\ since_sent = [id \in Ids |-> 0]
  /\ notices = {}
  /\ recorded = {}
  /\ badge = 0
  /\ calm = [id \in Ids |-> 0]
  /\ retreated = [id \in Ids |-> TRUE]
  /\ since_active = [id \in Ids |-> Horizon]
  /\ missed = {}

Older(age) == IF age < Horizon THEN age + 1 ELSE Horizon

Elapse ==
  /\ held' = [id \in Ids |-> IF breached[id] THEN Older(held[id]) ELSE 0]
  /\ uptime' = Older(uptime)
  /\ since_sent' = [id \in Ids |->
                      IF id \in sent THEN Older(since_sent[id]) ELSE 0]
  /\ calm' = [id \in Ids |-> Older(calm[id])]
  /\ since_active' = [id \in Ids |-> Older(since_active[id])]
  /\ notices' = {}
  /\ UNCHANGED <<rules, breached, firing, sent, recorded, badge,
                 retreated, missed>>

\* A fresh _RuleState() for the rules of S.
Reset(S) ==
  /\ breached' = [id \in Ids |-> id \notin S /\ breached[id]]
  /\ held' = [id \in Ids |-> IF id \in S THEN 0 ELSE held[id]]
  /\ firing' = [id \in Ids |-> id \notin S /\ firing[id]]
  /\ calm' = [id \in Ids |-> IF id \in S THEN 0 ELSE calm[id]]
  /\ retreated' = [id \in Ids |-> id \in S \/ retreated[id]]
  /\ missed' = missed \cup {id \in S : firing[id]}

\* The notifications and the badge are told of transitions, not of edits.
Edit(S) ==
  /\ Reset(S)
  /\ notices' = {}
  /\ UNCHANGED <<uptime, sent, since_sent, recorded, badge, since_active>>

Put(id, rule) ==
  /\ rules' = [i \in DOMAIN rules \cup {id} |->
                 IF i = id THEN rule ELSE rules[i]]
  /\ Edit({id})

\* The identifier is drawn at random; add_rule enables the rule.
AddRule(id, rule) ==
  /\ id \notin DOMAIN rules \cup DOMAIN Defaults
  /\ Put(id, [rule EXCEPT !.enabled = TRUE])

\* The editor replaces what it shows and leaves enabled as it was.
UpdateRule(id, rule) ==
  /\ id \in DOMAIN rules
  /\ Put(id, [rule EXCEPT !.enabled = rules[id].enabled])

SetEnabled(id, on) ==
  /\ id \in DOMAIN rules
  /\ Put(id, [rules[id] EXCEPT !.enabled = on])

RemoveRule(id) ==
  /\ id \in DOMAIN rules
  /\ rules' = [i \in DOMAIN rules \ {id} |-> rules[i]]
  /\ Edit({id})

RestoreDefaults ==
  /\ rules' = Defaults
  /\ Edit(Ids)

ClearHistory ==
  /\ recorded' = {}
  /\ missed' = {id \in Ids : firing[id]}
  /\ notices' = {}
  /\ UNCHANGED <<rules, states, uptime, sent, since_sent, badge, calm,
                 retreated, since_active>>

\* The program ends, in whatever way, and is started again: only the settings
\* and the database survive, and the settings may have been lost or edited.
Restart ==
  /\ rules' \in Loadable
  /\ Reset(Ids)
  /\ sent' = {}
  /\ since_sent' = [id \in Ids |-> 0]
  /\ notices' = {}
  /\ badge' = 0
  /\ since_active' = [id \in Ids |-> Horizon]
  /\ UNCHANGED <<uptime, recorded>>

-----------------------------------------------------------------------------
(* Evaluation *)

Matches(rule, value) ==
  IF rule.comparison = "above" THEN value > rule.threshold
                               ELSE value < rule.threshold

Abs(n) == IF n < 0 THEN -n ELSE n

MutantClearOf(rule, value) == ~Matches(rule, value)

\* Retreated past the threshold by more than 3% of it.
ClearOf(rule, value) ==
  IF rule.comparison = "above"
    THEN 100 * value < 100 * rule.threshold - 3 * Abs(rule.threshold)
    ELSE 100 * value > 100 * rule.threshold + 3 * Abs(rule.threshold)

\* The rules a sample is put to; the others are left untouched.
Judged(values) ==
  {id \in DOMAIN rules :
     rules[id].enabled /\ rules[id].metric \in DOMAIN values}

MatchedBy(values) ==
  {id \in Judged(values) : Matches(rules[id], values[rules[id].metric])}

HeldFor(id) == IF breached[id] THEN held[id] ELSE 0

\* The rules that begin to fire, and those that end.
Begins(values) ==
  {id \in MatchedBy(values) : ~firing[id] /\ HeldFor(id) >= rules[id].sustain}

Ends(values) ==
  {id \in Judged(values) \ MatchedBy(values) :
     firing[id] /\ ClearOf(rules[id], values[rules[id].metric])}

MutantBreachedAfter(values, id) == breached[id] \/ id \in MatchedBy(values)

\* A value in the margin resets the sustain timer, unless the rule fires.
BreachedAfter(values, id) ==
  IF id \notin Judged(values) THEN breached[id]
  ELSE id \in MatchedBy(values)
       \/ (breached[id] /\ firing[id] /\ id \notin Ends(values))

SinceSent(id) == IF id \in sent THEN since_sent[id] ELSE uptime

MutantAnnounced(values) ==
  {<<id, TRUE>> : id \in {i \in Begins(values) :
                            rules[i].notify /\ (i \notin sent \/ since_sent[i] + 1 >= Cooldown)}}
    \cup {<<id, FALSE>> : id \in {i \in Ends(values) : rules[i].notify}}

\* notify_alert: the cooldown holds back the beginnings only.
Announced(values) ==
  {<<id, TRUE>> : id \in {i \in Begins(values) :
                            rules[i].notify /\ SinceSent(i) >= Cooldown}}
    \cup {<<id, FALSE>> : id \in {i \in Ends(values) : rules[i].notify}}

Notify(values) ==
  LET ids == {n[1] : n \in Announced(values)}
  IN /\ notices' = Announced(values)
     /\ sent' = sent \cup ids
     /\ since_sent' = [id \in Ids |->
                         IF id \in ids THEN 0 ELSE since_sent[id]]

MutantRecord(values, failed) ==
  recorded' = recorded \cup (Begins(values) \ failed)

\* A write that fails is logged and forgotten; failed holds the rules it hit.
Record(values, failed) ==
  recorded' = (recorded \ (Ends(values) \ failed))
                \cup (Begins(values) \ failed)

\* MainWindow._on_alert runs once for each transition, after the last of them.
MutantCountBadge(values) ==
  badge' = badge + Cardinality(Begins(values))

CountBadge(values) ==
  badge' = IF Begins(values) \cup Ends(values) = {} THEN badge
           ELSE Cardinality({id \in DOMAIN rules : firing'[id]})

\* A value that lies well on the good side of the threshold.
Retreat(rule, value) ==
  LET distance == IF rule.comparison = "above" THEN rule.threshold - value
                                               ELSE value - rule.threshold
  IN 100 * distance > 3 * Abs(rule.threshold)

Observe(values, failed) ==
  /\ calm' = [id \in Ids |->
                IF id \in Judged(values) \ MatchedBy(values) THEN 0
                ELSE calm[id]]
  /\ retreated' = [id \in Ids |->
                     IF id \in Begins(values) THEN FALSE
                     ELSE \/ retreated[id]
                          \/ /\ id \in Judged(values)
                             /\ Retreat(rules[id], values[rules[id].metric])]
  /\ since_active' = [id \in Ids |->
                        IF <<id, TRUE>> \in Announced(values) THEN 0
                        ELSE since_active[id]]
  /\ LET changed == Begins(values) \cup Ends(values)
     IN missed' = (missed \ changed) \cup (changed \cap failed)

Evaluate(values, failed) ==
  /\ firing' = [id \in Ids |->
                  (firing[id] \/ id \in Begins(values)) /\ id \notin Ends(values)]
  /\ breached' = [id \in Ids |-> BreachedAfter(values, id)]
  /\ held' = [id \in Ids |-> IF breached'[id] THEN HeldFor(id) ELSE 0]
  /\ Record(values, failed)
  /\ Notify(values)
  /\ CountBadge(values)
  /\ Observe(values, failed)
  /\ UNCHANGED <<rules, uptime>>

-----------------------------------------------------------------------------

EditRules ==
  \/ \E id \in Ids, rule \in Rules : AddRule(id, rule)
  \/ \E id \in Ids, rule \in Rules : UpdateRule(id, rule)
  \/ \E id \in Ids, on \in BOOLEAN : SetEnabled(id, on)
  \/ \E id \in Ids : RemoveRule(id)
  \/ RestoreDefaults

Next ==
  \/ Elapse
  \/ EditRules
  \/ ClearHistory
  \/ Restart
  \/ \E values \in Samples, failed \in {{}, Ids} : Evaluate(values, failed)

Spec == Init /\ [][Next]_vars

-----------------------------------------------------------------------------
(* Properties *)

Began(id) == ~firing[id] /\ firing'[id]

\* Only a rule that exists and is enabled fires: no edit and no restart leaves
\* a firing state behind, which no later sample could clear.
OnlyEnabledRulesFire ==
  \A id \in Ids : firing[id] => id \in DOMAIN rules /\ rules[id].enabled

\* A momentary spike does not fire a rule: when a rule begins to fire, every
\* value it saw in the last sustain_seconds matched, and it was not edited in
\* that time (alerts.py:9-10, "held continuously").
FiringWasSustained ==
  [][\A id \in Ids : Began(id) => calm[id] >= rules[id].sustain]_vars

\* A metric that hovers at its threshold does not flap: a rule fires again
\* only after a value retreated beyond the margin, or the rule was edited
\* (alerts.py:12-14).
NoFlapping ==
  [][\A id \in Ids : Began(id) => retreated[id]]_vars

\* Two notifications that a rule fires are at least cooldown_seconds apart
\* while the program runs, whatever happens to the rule meanwhile
\* (config.py:106).
CooldownHolds ==
  [][\A id \in Ids :
       <<id, TRUE>> \in notices' => since_active[id] >= Cooldown]_vars

BadgeIsRight == badge = Cardinality({id \in DOMAIN rules : firing[id]})

\* The badge counts the firing rules, however many of them change in one
\* sample; only an edit of the rules makes a right badge wrong.
OnlyEditsSpoilTheBadge ==
  [][BadgeIsRight => BadgeIsRight' \/ EditRules]_vars

\* The latest row of a rule says that it fires exactly when it does, however
\* many rules change in one sample and across restarts, unless that row was
\* never written: the write failed, the history was deleted, or the rule was
\* reset while it fired.
HistoryFollowsFiring ==
  \A id \in Ids \ missed : id \in recorded <=> firing[id]

\* "Falling well below the threshold clears the alert"
\* (tests/test_alerts.py:90): a rule that is put to the best value its metric
\* takes does not fire afterwards.
BestValueClears ==
  [][\A values \in Samples, id \in Ids :
       /\ Evaluate(values, {})
       /\ id \in Judged(values)
       /\ values[rules[id].metric] =
            IF rules[id].comparison = "above"
              THEN CHOOSE v \in Values : \A w \in Values : v <= w
              ELSE CHOOSE v \in Values : \A w \in Values : v >= w
       => ~firing'[id]]_vars
=============================================================================
