---------------------------- MODULE MCFilterRules ----------------------------
(* FilterRules for TLC: two processes, two columns added by migrations, one *)
(* of them with an index, and one class of requests.                        *)
EXTENDS FilterRules, TLC

CONSTANTS p1, p2, x1

MCProcesses == {p1, p2}
MCAdded     == <<"request_body", "kind">>
MCCreated   == {"kind"}
MCIndexed   == <<"kind">>
MCClasses   == {x1}
MCContents  == [matches : {{x1}}, enabled : BOOLEAN]
Alike       == Permutations(MCProcesses)
==============================================================================
