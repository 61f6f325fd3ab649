------------------------------- MODULE MCStore -------------------------------
(* Store for TLC.  Two callers promote two request IDs, and two exporters    *)
(* are wired one after the other.                                          *)
EXTENDS Store, TLC

CONSTANTS i1, i2, c1, c2, e1, e2, k1

MCIds == {i1, i2}
MCClasses == {k1}
MCCallers == {c1, c2}
TwoExporters == {e1, e2}
Symmetry == Permutations(MCIds) \cup Permutations(MCCallers)
==============================================================================
