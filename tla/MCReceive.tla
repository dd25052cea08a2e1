------------------------------ MODULE MCReceive ------------------------------
(* Instances of Receive for TLC. *)
EXTENDS Receive
=============================================================================
