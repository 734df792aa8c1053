------------------------------- MODULE MCAlerts -------------------------------
(* Instances of Alerts for TLC. *)
EXTENDS Alerts

CONSTANTS hot, custom, temperature

MCIds == {hot, custom}
MCMetrics == {temperature}

\* On the good side of a threshold of 50, at it, and on the bad side.
MCValues == {40, 50, 60}

Hot(sustain) ==
  [metric |-> temperature, comparison |-> "above", threshold |-> 50,
   sustain |-> sustain, enabled |-> TRUE, notify |-> TRUE]

Cold ==
  [metric |-> temperature, comparison |-> "below", threshold |-> 50,
   sustain |-> 0, enabled |-> TRUE, notify |-> TRUE]

MCRules == {Cold}
MCDefaults == [id \in {hot} |-> Hot(2)]

\* The default rule "services-failed" (alerts.py:120-122): above zero units.
MCCounts == {0, 1}
MCServicesFailed ==
  [id \in {hot} |-> [Hot(1) EXCEPT !.threshold = 0]]
=============================================================================
