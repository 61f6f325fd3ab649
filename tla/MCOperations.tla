---------------------------- MODULE MCOperations -----------------------------
(* Operations for TLC: one ID that clients know.                           *)
EXTENDS Operations

CONSTANTS x1

MCClientIds == {x1}
==============================================================================
