----------------------------- MODULE MCNapiPoll -----------------------------
(* Instances of NapiPoll for TLC. *)
EXTENDS NapiPoll

\* A level-triggered board with one line for all interrupts, and the PCIe boards.
BoardsUsual == {[level |-> TRUE, shared |-> TRUE], [level |-> FALSE, shared |-> FALSE]}
=============================================================================
