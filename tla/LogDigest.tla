------------------------------ MODULE LogDigest ------------------------------
(***************************************************************************)
(* What a capped log buffer promises, without saying how it stores it: of   *)
(* everything logged so far, a reader is given all of it, or, past the      *)
(* limit, the first half, one entry that says how many lines are missing,   *)
(* and the last half.                                                       *)
(***************************************************************************)
EXTENDS BufferOps

VARIABLES
  cap,       \* the entry limit; 0 is unlimited, and it never changes
  history,   \* every line logged so far, in order
  taken      \* what the latest reader was given

vars == <<cap, history, taken>>

Digest(lines, limit) ==
  IF limit = 0 \/ Len(lines) <= limit
  THEN lines
  ELSE SubSeq(lines, 1, HeadSize(limit))
         \o <<Mark(Len(lines) - limit)>>
         \o SubSeq(lines, Len(lines) - TailSize(limit) + 1, Len(lines))

Init ==
  /\ cap \in Nat
  /\ history = <<>>
  /\ taken = <<>>

(* One more line at the end; nothing already logged is lost or reordered.  *)
Log ==
  /\ Len(history') = Len(history) + 1
  /\ SubSeq(history', 1, Len(history)) = history
  /\ UNCHANGED <<cap, taken>>

Take ==
  /\ taken' = Digest(history, cap)
  /\ UNCHANGED <<cap, history>>

Next == Log \/ Take

Spec == Init /\ [][Next]_vars
==============================================================================
