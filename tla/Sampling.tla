------------------------------ MODULE Sampling ------------------------------
(***************************************************************************)
(* What the scheduler of app/services/monitor.py promises, without threads,*)
(* queues or timers: a domain has at most one sample outstanding at a      *)
(* time, a sample that was asked for is handed back exactly once, and      *)
(* nothing is handed back any more after the service was closed.           *)
(***************************************************************************)
EXTENDS Naturals

CONSTANT Domains    \* the domains of the registered collectors

VARIABLES
  open,             \* FALSE once the service is being closed
  outstanding       \* outstanding[d]: samples of d asked for, not handed back

vars == <<open, outstanding>>

Init ==
  /\ open = TRUE
  /\ outstanding = [d \in Domains |-> 0]

\* One tick may ask for several domains at once, a request asks for one.
Ask(S) ==
  /\ open
  /\ \A d \in S : outstanding[d] = 0
  /\ outstanding' = [d \in Domains |-> IF d \in S THEN 1 ELSE outstanding[d]]
  /\ UNCHANGED open

HandBack(d) ==
  /\ open
  /\ outstanding[d] = 1
  /\ outstanding' = [outstanding EXCEPT ![d] = 0]
  /\ UNCHANGED open

Shut ==
  /\ open
  /\ open' = FALSE
  /\ UNCHANGED outstanding

Next ==
  \/ \E S \in (SUBSET Domains) \ {{}} : Ask(S)
  \/ \E d \in Domains : HandBack(d)
  \/ Shut

Spec == Init /\ [][Next]_vars
=============================================================================
