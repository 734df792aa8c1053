------------------------------ MODULE MCPages -------------------------------
(* Two processes or units, each of which may end and come back; three filters *)
(* of the log viewer, of which one names a unit; a busy and a calm metric.    *)
EXTENDS Pages

MCMetrics == <<"receive", "send">>
=============================================================================
