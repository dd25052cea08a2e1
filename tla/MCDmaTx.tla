------------------------------ MODULE MCDmaTx ------------------------------
(* Instances of DmaTx for TLC.  No symmetry: the devices' roles differ. *)
EXTENDS DmaTx

CONSTANTS ep, pt1, pt2

\* Everything that can go wrong, on two ports; and nothing.
Rough  == [direct |-> {pt1, pt2}, mayFail |-> TRUE, watchdog |-> TRUE]
Smooth == [direct |-> {}, mayFail |-> FALSE, watchdog |-> FALSE]
Both   == {Rough, Smooth}
=============================================================================
