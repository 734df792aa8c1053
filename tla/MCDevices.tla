------------------------------ MODULE MCDevices ------------------------------
(* Instances of Devices: an interface with a VLAN on top of it, disks, and    *)
(* processes.                                                                 *)
EXTENDS Devices, TLC

CONSTANTS n1, n2, u1, u2

MCNames == {n1, n2}
MCOneName == {n1}
MCUnits == {u1, u2}
MCNested == (n1 :> {n2}) @@ (n2 :> {})
MCFlat == [n \in Names |-> {}]
=============================================================================
