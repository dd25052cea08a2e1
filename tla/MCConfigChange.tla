--------------------------- MODULE MCConfigChange ---------------------------
(* Instances of ConfigChange for TLC. *)
EXTENDS ConfigChange

CONSTANTS i1, i2

Orderly == [plugin |-> "sched", faults |-> FALSE, refusals |-> FALSE, orderly |-> TRUE]
Disorderly == [Orderly EXCEPT !.refusals = TRUE, !.orderly = FALSE]
Faulty(p) == [Disorderly EXCEPT !.plugin = p, !.faults = TRUE]

AllSetups == {Orderly, Disorderly, Faulty("sched"), Faulty("psfp")}
OnlyOrderly == {Orderly}
OnlyDisorderly == {Disorderly}
OnlyPsfpFaults == {[Orderly EXCEPT !.plugin = "psfp", !.faults = TRUE]}
=============================================================================
