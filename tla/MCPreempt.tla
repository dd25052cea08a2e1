----------------------------- MODULE MCPreempt -----------------------------
(* Instances of Preempt for TLC. *)
EXTENDS Preempt

CONSTANTS p1, p2, u1, u2, q1, q2

\* Two setups.  If p2 has no link, everything happens to p1 alone.  If it has one,
\* both ports may be verified, with the counter they share: p2 is enabled, then p1 is
\* enabled or p2 disabled, and the link of p1 fails once.
OnePort == linkFail[p2]

SerialInit ==
  /\ Init /\ ~linkFail[p1]
  /\ stores = IF OnePort THEN MaxStores ELSE 2
  /\ linkChanges = IF OnePort THEN MaxLinkChanges ELSE 1

Setup ==
  /\ ~LinkChange(p2)
  /\ \A u \in Users, p \in Ports : UserStep(u, p) =>
       IF OnePort THEN p = p1 ELSE EnableTxStore(u, p) /\ (stores = 2 => p = p2)

SerialSpec == SerialInit /\ [][Next /\ Setup]_vars /\ Fairness
=============================================================================
