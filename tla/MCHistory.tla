------------------------------ MODULE MCHistory ------------------------------
(* Instances of History for TLC. *)
EXTENDS History

MCLimits == {1, 2}
=============================================================================
