----------------------------- MODULE MCScheduler -----------------------------
(* Instances of Scheduler for TLC. *)
EXTENDS Scheduler

CONSTANTS fast, slow

MCDomains == {fast, slow}

\* 0 is below the clamp; 2 leaves room for a deadline to be pushed out.
MCCadences == {0, 2}

\* Once primed, the slow collector may block for ever on its device.
MCHangs == {Collect(slow)}
=============================================================================
