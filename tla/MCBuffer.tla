------------------------------ MODULE MCBuffer ------------------------------
(* Buffer for TLC: every limit up to 4, odd, even, 1, none and negative.   *)
EXTENDS Buffer

CONSTANTS k1
MCLimits == {-1, 0, 1, 2, 3, 4}
MCKeys == {k1}
==============================================================================
