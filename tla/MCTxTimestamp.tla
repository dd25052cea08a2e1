---------------------------- MODULE MCTxTimestamp ----------------------------
(* Instances of TxTimestamp for TLC. *)
EXTENDS TxTimestamp

Setup(outstanding, level, fails, overrun, frames, start) ==
  [outstanding |-> outstanding, level |-> level, fails |-> fails,
   overrun |-> overrun, frames |-> frames, start |-> start]

\* One interrupt line per cause, everything fails, and a stack that sends more
\* frames than the fifos hold; and a shared line, without failures.
FailingAndNominal ==
  {Setup(3, FALSE, TRUE, TRUE, 3, 3), Setup(2, TRUE, FALSE, FALSE, 5, 0)}

\* A switch that reports nanoseconds beyond the second.
Overrun == {Setup(2, TRUE, FALSE, TRUE, 5, 0)}
=============================================================================
