------------------------------ MODULE BufferOps ------------------------------
(***************************************************************************)
(* promolog.Buffer (promolog.go) as pure operators: the per-request log     *)
(* buffer that keeps the first and the last half of a capped log and marks  *)
(* what it dropped from the middle.  Every Go method holds Buffer.mu for    *)
(* its whole body, so each one is a single operator on the record below,    *)
(* and a module that uses it makes each call one atomic step.               *)
(*                                                                         *)
(* An entry is a record whose field "elided" is 0 for a logged line and the *)
(* number of dropped lines for the synthetic WARN entry; time, level,       *)
(* message and attributes are left out.                                     *)
(***************************************************************************)
EXTENDS Integers, Sequences

(* headSize and tailSize of Append: an odd limit gives the tail one more.  *)
HeadSize(limit) == limit \div 2
TailSize(limit) == limit - HeadSize(limit)

(* The synthetic entry standing for k dropped lines.                       *)
Mark(k) == [n |-> 0, body |-> 0, elided |-> k]

(* Mutant of NewBuffer: a negative limit is kept.                          *)
NewBufferUnchecked(limit) ==
  [limit |-> limit, entries |-> <<>>, head |-> <<>>, tail |-> <<>>,
   total |-> 0, elided |-> 0, tags |-> <<>>, requestBody |-> 0,
   responseBody |-> 0]

(* NewBuffer: a negative limit is taken as 0, which means unlimited.       *)
NewBuffer(limit) ==
  [limit |-> IF limit < 0 THEN 0 ELSE limit, entries |-> <<>>, head |-> <<>>,
   tail |-> <<>>, total |-> 0, elided |-> 0, tags |-> <<>>, requestBody |-> 0,
   responseBody |-> 0]

(* Mutant of AppendEntry: the ring forgets to count what it drops.         *)
AppendUncounted(b, e) ==
  IF b.limit <= 0
  THEN [b EXCEPT !.entries = Append(@, e)]
  ELSE IF Len(b.head) < HeadSize(b.limit)
  THEN [b EXCEPT !.total = @ + 1, !.head = Append(@, e)]
  ELSE IF Len(b.tail) < TailSize(b.limit)
  THEN [b EXCEPT !.total = @ + 1, !.tail = Append(@, e)]
  ELSE [b EXCEPT !.total = @ + 1, !.tail = Append(Tail(@), e)]

(* Append: an unlimited buffer keeps everything; a limited one fills its   *)
(* head, then its tail, and from then on the tail is a ring: the oldest    *)
(* tail entry is dropped and counted.                                      *)
AppendEntry(b, e) ==
  IF b.limit <= 0
  THEN [b EXCEPT !.entries = Append(@, e)]
  ELSE IF Len(b.head) < HeadSize(b.limit)
  THEN [b EXCEPT !.total = @ + 1, !.head = Append(@, e)]
  ELSE IF Len(b.tail) < TailSize(b.limit)
  THEN [b EXCEPT !.total = @ + 1, !.tail = Append(@, e)]
  ELSE [b EXCEPT !.total = @ + 1, !.elided = @ + 1, !.tail = Append(Tail(@), e)]

(* Entries: head, the synthetic entry when something was dropped, tail.    *)
Entries(b) ==
  IF b.limit <= 0
  THEN b.entries
  ELSE b.head \o (IF b.elided > 0 THEN <<Mark(b.elided)>> ELSE <<>>) \o b.tail

(* Tag overwrites a key; Tags returns a copy (nil, the empty map, if none). *)
Tag(b, key, value) ==
  [b EXCEPT !.tags = [k \in DOMAIN @ \cup {key} |-> IF k = key THEN value ELSE @[k]]]
Tags(b) == b.tags

SetRequestBody(b, body) == [b EXCEPT !.requestBody = body]
RequestBody(b) == b.requestBody
SetResponseBody(b, body) == [b EXCEPT !.responseBody = body]
ResponseBody(b) == b.responseBody
==============================================================================
