------------------------------- MODULE MCFrer -------------------------------
(* Instances of Frer for TLC. *)
EXTENDS Frer, TLC

CONSTANTS s1, s2, f1, f2, p1, p2

Symmetry == Permutations({s1, s2}) \cup Permutations({f1, f2})
              \cup Permutations({p1, p2})
=============================================================================
