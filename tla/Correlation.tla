----------------------------- MODULE Correlation -----------------------------
(***************************************************************************)
(* Request IDs (correlation.go): what the middleware makes of the headers   *)
(* of a request and what the transport does to those of an outgoing one.    *)
(*                                                                         *)
(* The IDs that generateID returns are random; here they are the numbers    *)
(* 1, 2, 3, ... in the order in which they are generated, so that no two    *)
(* are equal.  Clients outside the system make up IDs of their own.         *)
(***************************************************************************)
EXTENDS Integers

CONSTANTS
  ClientIds,  \* IDs made up by clients
  None        \* the empty string: no header, no ID in the context

ASSUME IdAssumption ==
  /\ None \notin Nat \cup ClientIds
  /\ ClientIds \cap Nat = {}

Generated == Nat \ {0}
IdOrNone  == Generated \cup ClientIds \cup {None}

(* The headers X-Request-ID and X-Parent-Request-ID.                       *)
Headers   == [id : IdOrNone, parent : IdOrNone]
NoHeaders == [id |-> None, parent |-> None]

BothGiven(h) == h.id /= None /\ h.parent /= None

(* Mutant of Correlate: a lone X-Request-ID is reused, as the comment of   *)
(* CorrelationMiddleware has it.                                           *)
CorrelateReusing(h, fresh) ==
  [req    |-> IF h.id = None THEN fresh ELSE h.id,
   parent |-> IF h.parent = None THEN h.id ELSE h.parent]

(* correlationMiddleware: the request ID and the parent ID it puts into    *)
(* the context.  An ID is generated unless both headers are given; a lone  *)
(* X-Request-ID becomes the parent.                                        *)
Correlate(h, fresh) ==
  [req    |-> IF BothGiven(h) THEN h.id ELSE fresh,
   parent |-> IF h.parent = None THEN h.id ELSE h.parent]

(* Mutant of RoundTrip: a header that is there already is left alone.      *)
RoundTripKeeping(req, h) == IF h.id = None THEN [h EXCEPT !.id = req] ELSE h

(* correlationRoundTripper.RoundTrip: the request ID of the context, if    *)
(* there is one, overrides the header; X-Parent-Request-ID is not touched. *)
RoundTrip(req, h) == IF req = None THEN h ELSE [h EXCEPT !.id = req]
==============================================================================
