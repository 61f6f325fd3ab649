------------------------------- MODULE Buffer -------------------------------
(***************************************************************************)
(* One promolog.Buffer in use (promolog.go, autopromote.go): goroutines of  *)
(* the request log into it, tag it and store bodies in it, while a promoter *)
(* assembles a Trace out of it.  promoteFromRequest takes the mutex four    *)
(* times, once per field (Tags, Entries, RequestBody, ResponseBody), so     *)
(* every write may land between two of its reads.                           *)
(*                                                                         *)
(* What is written is chosen so that the order of events shows in the data: *)
(* a tag's value is the number of lines logged before it, a body's value is *)
(* its version, and a line records the version of the response body that    *)
(* was stored when it was logged.                                           *)
(***************************************************************************)
EXTENDS BufferOps

CONSTANTS
  Limits,    \* entry limits the buffer may be created with, negative included
  Keys,      \* tag keys
  MaxLog,    \* bound: lines logged
  MaxBody    \* bound: versions of each body

ASSUME LimitsAssumption == Limits \subseteq Int
ASSUME BoundsAssumption == MaxLog \in Nat /\ MaxBody \in Nat

VARIABLES
  buf,       \* the Buffer
  log,       \* history: every line ever logged, in order
  stage,     \* which read of promoteFromRequest comes next
  trace      \* the Trace under construction

vars == <<buf, log, stage, trace>>

Entry   == [n : Nat, body : Nat, elided : Nat]
TagMaps == UNION {[D -> 0..MaxLog] : D \in SUBSET Keys}
Buffers == [limit : Nat, entries : Seq(Entry), head : Seq(Entry), tail : Seq(Entry),
            total : Nat, elided : Nat, tags : TagMaps, requestBody : Nat,
            responseBody : Nat]
Traces  == [tags : TagMaps, entries : Seq(Entry), requestBody : Nat, responseBody : Nat]
Stages  == {"tags", "entries", "requestBody", "responseBody", "promote"}

(* How many logged lines a list of entries accounts for: a plain entry is  *)
(* one line, the synthetic entry as many as it says were dropped.          *)
Recorded(es) ==
  LET marks == {i \in DOMAIN es : es[i].elided > 0}
  IN IF marks = {} THEN Len(es)
     ELSE Len(es) - 1 + es[CHOOSE i \in marks : TRUE].elided

Init ==
  /\ \E limit \in Limits : buf = NewBuffer(limit)
  /\ log = <<>>
  /\ stage = "tags"
  /\ trace = [tags |-> <<>>, entries |-> <<>>, requestBody |-> 0, responseBody |-> 0]

-----------------------------------------------------------------------------
(* Writers.                                                                *)

Log ==
  /\ Len(log) < MaxLog
  /\ LET e == [n |-> Len(log) + 1, body |-> buf.responseBody, elided |-> 0]
     IN  /\ buf' = AppendEntry(buf, e)
         /\ log' = Append(log, e)
  /\ UNCHANGED <<stage, trace>>

SetTag ==
  /\ \E k \in Keys : buf' = Tag(buf, k, Len(log))
  /\ UNCHANGED <<log, stage, trace>>

StoreRequestBody ==
  /\ buf.requestBody < MaxBody
  /\ buf' = SetRequestBody(buf, buf.requestBody + 1)
  /\ UNCHANGED <<log, stage, trace>>

(* captureResponseWriter.Write pushes the body captured so far, which only *)
(* ever grows.                                                             *)
StoreResponseBody ==
  /\ buf.responseBody < MaxBody
  /\ buf' = SetResponseBody(buf, buf.responseBody + 1)
  /\ UNCHANGED <<log, stage, trace>>

-----------------------------------------------------------------------------
(* The promoter: the four reads of promoteFromRequest, then Promote.       *)

ReadTags ==
  /\ stage = "tags"
  /\ trace' = [trace EXCEPT !.tags = Tags(buf)]
  /\ stage' = "entries"
  /\ UNCHANGED <<buf, log>>

(* Mutant of ReadEntries: the copy is of the tail alone.                   *)
ReadTailOnly ==
  /\ stage = "entries"
  /\ trace' = [trace EXCEPT !.entries = IF buf.limit <= 0 THEN buf.entries ELSE buf.tail]
  /\ stage' = "requestBody"
  /\ UNCHANGED <<buf, log>>

ReadEntries ==
  /\ stage = "entries"
  /\ trace' = [trace EXCEPT !.entries = Entries(buf)]
  /\ stage' = "requestBody"
  /\ UNCHANGED <<buf, log>>

(* Mutant of ReadRequestBody: the tags are read only after the entries.    *)
ReadTagsLate ==
  /\ stage = "requestBody"
  /\ trace' = [trace EXCEPT !.tags = Tags(buf), !.requestBody = RequestBody(buf)]
  /\ stage' = "responseBody"
  /\ UNCHANGED <<buf, log>>

ReadRequestBody ==
  /\ stage = "requestBody"
  /\ trace' = [trace EXCEPT !.requestBody = RequestBody(buf)]
  /\ stage' = "responseBody"
  /\ UNCHANGED <<buf, log>>

ReadResponseBody ==
  /\ stage = "responseBody"
  /\ trace' = [trace EXCEPT !.responseBody = ResponseBody(buf)]
  /\ stage' = "promote"
  /\ UNCHANGED <<buf, log>>

(* The trace is handed to the store; the same buffer may be promoted again *)
(* (a manual promotion followed by the middleware's own).                  *)
Promote ==
  /\ stage = "promote"
  /\ stage' = "tags"
  /\ UNCHANGED <<buf, log, trace>>

Next ==
  \/ Log \/ SetTag \/ StoreRequestBody \/ StoreResponseBody
  \/ ReadTags \/ ReadEntries \/ ReadRequestBody \/ ReadResponseBody \/ Promote

Spec == Init /\ [][Next]_vars

-----------------------------------------------------------------------------
(* Type invariant: the shape of the buffer, of the log and of the trace    *)
(* being built.                                                            *)
TypeOK ==
  /\ buf \in Buffers
  /\ log \in Seq(Entry) /\ Len(log) <= MaxLog
  /\ stage \in Stages
  /\ trace \in Traces

(* Whatever was logged, Entries returns the digest of it: the first half,  *)
(* the exact number of dropped lines, and the last half, in order.  This   *)
(* is Buffer.Append and Buffer.Entries together, over every limit.         *)
LD == INSTANCE LogDigest WITH cap <- buf.limit, history <- log, taken <- trace.entries

EntriesAreDigest == Entries(buf) = LD!Digest(log, buf.limit)

(* The buffer, seen through Append and Entries, implements the abstract    *)
(* log: each step logs one line, takes the digest, or changes neither.     *)
ImplementsLogDigest == LD!Spec

(* A promoted trace never shows an effect without the lines logged before  *)
(* it: a tag set after m lines comes with entries accounting for at least  *)
(* m lines, and a line logged after a response body was stored comes with  *)
(* that body or a later one.  promoteFromRequest reads Tags before Entries *)
(* and Entries before ResponseBody; the reads are not atomic together, so  *)
(* this is all that the order of the reads gives.                          *)
SnapshotInOrder ==
  stage = "promote" =>
    /\ \A k \in DOMAIN trace.tags : trace.tags[k] <= Recorded(trace.entries)
    /\ \A i \in DOMAIN trace.entries : trace.entries[i].body <= trace.responseBody
==============================================================================
