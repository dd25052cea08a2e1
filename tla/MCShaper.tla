------------------------------ MODULE MCShaper ------------------------------
(* Instances of Shaper for TLC. *)
EXTENDS Shaper

CONSTANTS u1, u2

\* The gate is open for 3 tenths of the cycle; for 2 fifths of one so long that the product
\* overflows for the larger slope; for longer than that cycle lasts, and for twice as
\* long; never.
RatesAll == {[num |-> 20, dnm |-> 6], [num |-> 30, dnm |-> 12], [num |-> 30, dnm |-> 40],
             [num |-> 30, dnm |-> 60], [num |-> 0, dnm |-> 1]}
\* For a twelfth of the cycle.
RateSmall == {[num |-> 12, dnm |-> 1]}
\* So that the product overflows.
RateLong  == {[num |-> 30, dnm |-> 12]}
RateLonger == {[num |-> 30, dnm |-> 60]}
\* For half of the cycle or a third of it.
RatesPlain == {[num |-> 4, dnm |-> 2], [num |-> 6, dnm |-> 2]}

Orderliness == [overlap |-> FALSE, early |-> FALSE, off |-> FALSE]
OrderlyOrNot == {Orderliness, [overlap |-> TRUE, early |-> TRUE, off |-> TRUE]}
OnlyOrderly == {Orderliness}
OnlyOverlap == {[Orderliness EXCEPT !.overlap = TRUE]}
OnlyEarly   == {[Orderliness EXCEPT !.early = TRUE]}
OnlyOff     == {[Orderliness EXCEPT !.off = TRUE]}
=============================================================================
