------------------------------ MODULE MCCleanup ------------------------------
(* Cleanup for TLC.  Two classes of traces: condition q1 matches one of    *)
(* them, q12 matches both, so a trace may match no rule, one or two.  The  *)
(* safety runs leave the callback side of the store idle (no exporters):   *)
(* MCDelivery has it; the liveness run has one exporter, whose goroutines  *)
(* compete with the cleaners for the one connection.                       *)
EXTENDS Cleanup, TLC

CONSTANTS i1, c1, e1, d1, b1, k1, k2, q1, q12, r1, r2

OneId == {i1}
MCClasses == {k1, k2}
OneClass == {k1}
MCCallers == {c1}
NoExporters == {}
OneExporter == {e1}
MCConditions == {q1, q12}
MCSatisfies == (q1 :> {k1}) @@ (q12 :> {k1, k2})
OneCondition == {q1}
OneSatisfies == q1 :> {k1}
OneRule == {r1}
TwoRules == {r1, r2}

OneOfEach == {d1, b1}
OneLoop == {b1}
OneCaller == {d1}
NoLoop == {}

On(q, h) == [cond |-> q, ttl |-> h, enabled |-> TRUE]
Off(q, h) == [cond |-> q, ttl |-> h, enabled |-> FALSE]

MCOldest == -3
TwoHoursAgo == -2
MCTTLs == {1, 3}
OneHour == {1}

(* A table with no rule, one shorter or longer than the default, two that  *)
(* match the same trace, and one that is disabled.                         *)
MCStartRules ==
  {r1 :> NoRule @@ r2 :> NoRule,
   r1 :> On(q1, 1) @@ r2 :> NoRule,
   r1 :> On(q1, 3) @@ r2 :> NoRule,
   r1 :> On(q12, 3) @@ r2 :> On(q1, 1),
   r1 :> On(q1, 3) @@ r2 :> Off(q12, 1)}
NoRules == {r1 :> NoRule}
ShortOrNone == {r1 :> On(q1, 1), r1 :> NoRule}
ZeroRule == {r1 :> On(q1, 0) @@ r2 :> On(q12, 1)}
ZeroTTLs == {0, 1}
==============================================================================
