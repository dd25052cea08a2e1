------------------------------- MODULE MCPsfp -------------------------------
(* Instances of Psfp for TLC.  No symmetry: filters are ordered, and of the  *)
(* rows only those of FrameRows carry traffic.                               *)
EXTENDS Psfp

OneRow == {<<0, 0>>}
=============================================================================
