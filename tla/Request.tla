------------------------------- MODULE Request -------------------------------
(***************************************************************************)
(* One HTTP request through the stack that the documentation prescribes     *)
(* (correlation.go, bodycapture.go, autopromote.go, policy.go):             *)
(*                                                                         *)
(*   CorrelationMiddleware( BodyCaptureMiddleware( AutoPromoteMiddleware(   *)
(*     handler )))                                                          *)
(*                                                                         *)
(* The handler reads the body it is given and then makes any sequence of    *)
(* WriteHeader, Write and Flush calls on two nested response writers, each  *)
(* keeping its own idea of what the client gets; net/http, underneath,      *)
(* decides what the client really gets.  When the handler returns, the      *)
(* policies see the middleware's idea.                                      *)
(*                                                                         *)
(* A byte is its position in what was sent or written; redacting it makes   *)
(* it negative.  What a redactor does to the slice it is given matters, as  *)
(* the request body shares its array: it may return a new one (copying),    *)
(* overwrite it (inPlace), or overwrite it and append a byte (appending).   *)
(***************************************************************************)
EXTENDS Integers, Sequences, FiniteSetsExt

CONSTANTS
  MaxBodySize,   \* WithMaxBodySize
  MinCode,       \* StatusPolicy(MinCode)
  FinalCodes,    \* final status codes the handler may send
  InfoCodes,     \* informational (1xx) codes it may send before
  Flushers,      \* whether the underlying writer is an http.Flusher
  Redactors,     \* the kinds of WithRedactor
  MaxSent,       \* bound: bytes in the request body
  MaxWritten     \* bound: bytes the handler writes

ASSUME RequestAssumption ==
  /\ {MinCode, MaxSent, MaxWritten} \subseteq Nat
  /\ MaxBodySize \in Nat \ {0}
  /\ FinalCodes \cup InfoCodes \subseteq Nat \ {0} /\ FinalCodes \cap InfoCodes = {}
  /\ 200 \in FinalCodes
  /\ Flushers \subseteq BOOLEAN
  /\ Redactors \subseteq {"none", "copying", "inPlace", "appending"}

VARIABLES
  stage,      \* "arrived", "handling", "returned", "done" or "panicked"
  sent,       \* the request body on the wire, and how much of it can be read
  setup,      \* what this request runs under
  given,      \* the request body as the handler reads it
  rw,         \* responseWriter: statusCode and written
  capBuf,     \* captureResponseWriter: the bytes captured so far
  buf,        \* the request's Buffer: requestBody and responseBody
  wire,       \* net/http: the status committed (0 if none yet)
  written,    \* history: every byte the handler wrote
  promoted    \* the statusCode of the promoted trace; 0 if none was promoted

vars == <<stage, sent, setup, given, rw, capBuf, buf, wire, written, promoted>>

Bytes(n)     == [i \in 1..n |-> i]
Prefix(s, n) == SubSeq(s, 1, Min({n, Len(s)}))
Rest(s, n)   == SubSeq(s, Min({n, Len(s)}) + 1, Len(s))
Masked(s)    == [i \in DOMAIN s |-> -s[i]]
Appended     == 0  \* the byte an appending redactor appends

Redact(s) ==
  CASE setup.redactor = "none"      -> s
    [] setup.redactor = "appending" -> Append(Masked(s), Appended)
    [] OTHER                        -> Masked(s)

(* correlated: the context has a request ID and a Buffer.  breaks: reading *)
(* the body fails after so many bytes (MaxSent + 1: it does not).          *)
Init ==
  /\ stage = "arrived"
  /\ \E n \in 0..MaxSent : sent = Bytes(n)
  /\ \E correlated \in BOOLEAN, capture \in BOOLEAN, f \in Flushers, r \in Redactors,
        breaks \in 0..(MaxSent + 1) :
       setup = [correlated |-> correlated, capture |-> capture, flusher |-> f,
                redactor |-> r, breaks |-> breaks]
  /\ given = <<>>
  /\ rw = [statusCode |-> 200, written |-> FALSE]
  /\ capBuf = <<>>
  /\ buf = [requestBody |-> <<>>, responseBody |-> <<>>]
  /\ wire = 0 /\ written = <<>> /\ promoted = 0

-----------------------------------------------------------------------------
(* BodyCaptureMiddleware on the way in: up to one byte more than the limit *)
(* is read; it is captured unless reading failed, and the handler gets     *)
(* what was read followed by the rest.                                     *)

Capturing == setup.correlated /\ setup.capture

(* What the reader still yields: everything, or what precedes the failure. *)
Readable == Prefix(sent, setup.breaks)

PassThrough ==
  /\ stage = "arrived" /\ ~Capturing
  /\ stage' = "handling"
  /\ given' = Readable
  /\ UNCHANGED <<sent, setup, rw, capBuf, buf, wire, written, promoted>>

(* Mutant of CaptureRequest: the byte read beyond the limit is dropped.    *)
CaptureRequestCut ==
  /\ stage = "arrived" /\ Capturing
  /\ LET captured == Prefix(Readable, MaxBodySize)
     IN  /\ buf' = [buf EXCEPT !.requestBody = Redact(captured)]
         /\ given' = captured \o Rest(Readable, MaxBodySize + 1)
  /\ stage' = "handling"
  /\ UNCHANGED <<sent, setup, rw, capBuf, wire, written, promoted>>

(* body[:maxBodySize] has the array of body, with room behind it: what the *)
(* redactor overwrites is overwritten in body, and the byte it appends to  *)
(* a body that was cut off takes the place of the byte beyond the limit.   *)
Overwritten(body) ==
  [i \in DOMAIN body |->
     CASE i <= MaxBodySize /\ setup.redactor \in {"inPlace", "appending"} -> -body[i]
       [] i > MaxBodySize /\ setup.redactor = "appending" -> Appended
       [] OTHER -> body[i]]

CaptureRequest ==
  /\ stage = "arrived" /\ Capturing
  /\ LET body   == Prefix(Readable, MaxBodySize + 1)
         failed == setup.breaks <= MaxBodySize /\ setup.breaks < Len(sent)
     IN  /\ buf' = IF failed \/ body = <<>> THEN buf
                   ELSE [buf EXCEPT !.requestBody = Redact(Prefix(body, MaxBodySize))]
         /\ given' = (IF failed THEN body ELSE Overwritten(body))
                       \o Rest(Readable, MaxBodySize + 1)
  /\ stage' = "handling"
  /\ UNCHANGED <<sent, setup, rw, capBuf, wire, written, promoted>>

-----------------------------------------------------------------------------
(* The underlying writer, net/http: the first final code commits the       *)
(* header, informational codes do not, later ones are superfluous.         *)

Commit(code) == IF wire = 0 /\ code \notin InfoCodes THEN code ELSE wire

(* Mutant of WriteHeader: the last code is recorded, not the first.        *)
WriteHeaderLast(code) ==
  /\ stage = "handling"
  /\ rw' = [statusCode |-> code, written |-> TRUE]
  /\ wire' = Commit(code)
  /\ UNCHANGED <<stage, sent, setup, given, capBuf, buf, written, promoted>>

(* responseWriter.WriteHeader, captureResponseWriter.WriteHeader.          *)
WriteHeader(code) ==
  /\ stage = "handling"
  /\ rw' = IF rw.written THEN rw ELSE [statusCode |-> code, written |-> TRUE]
  /\ wire' = Commit(code)
  /\ UNCHANGED <<stage, sent, setup, given, capBuf, buf, written, promoted>>

(* Mutant of Captured: a chunk is captured whole as long as there is room. *)
CapturedWhole(chunk) == IF Len(capBuf) < MaxBodySize THEN capBuf \o chunk ELSE capBuf

(* The captured bytes after one more chunk: cut off at the limit.          *)
Captured(chunk) == capBuf \o Prefix(chunk, MaxBodySize - Len(capBuf))

(* Mutant of Write: only the new chunk is redacted and stored.             *)
WriteChunkOnly(n) ==
  /\ stage = "handling" /\ Len(written) + n <= MaxWritten
  /\ LET chunk == [i \in 1..n |-> Len(written) + i]
         room  == Len(capBuf) < MaxBodySize
     IN  /\ written' = written \o chunk
         /\ capBuf' = IF Capturing /\ room THEN Captured(chunk) ELSE capBuf
         /\ buf' = IF Capturing /\ room
                   THEN [buf EXCEPT !.responseBody = Redact(Rest(capBuf', Len(capBuf)))]
                   ELSE buf
  /\ rw' = IF rw.written THEN rw ELSE [statusCode |-> 200, written |-> TRUE]
  /\ wire' = Commit(200)
  /\ UNCHANGED <<stage, sent, setup, given, promoted>>

(* responseWriter.Write, captureResponseWriter.Write: the whole captured   *)
(* body is redacted anew (as a copy) and stored on every write.            *)
Write(n) ==
  /\ stage = "handling" /\ Len(written) + n <= MaxWritten
  /\ LET chunk == [i \in 1..n |-> Len(written) + i]
         room  == Len(capBuf) < MaxBodySize
     IN  /\ written' = written \o chunk
         /\ capBuf' = IF Capturing /\ room THEN Captured(chunk) ELSE capBuf
         /\ buf' = IF Capturing /\ room
                   THEN [buf EXCEPT !.responseBody = Redact(capBuf')] ELSE buf
  /\ rw' = IF rw.written THEN rw ELSE [statusCode |-> 200, written |-> TRUE]
  /\ wire' = Commit(200)
  /\ UNCHANGED <<stage, sent, setup, given, promoted>>

(* Flush exists on the wrapper only if the underlying writer has it, and   *)
(* is forwarded without a look at rw.                                      *)
Flush ==
  /\ stage = "handling" /\ setup.flusher
  /\ wire' = Commit(200)
  /\ UNCHANGED <<stage, sent, setup, given, rw, capBuf, buf, written, promoted>>

Return ==
  /\ stage = "handling"
  /\ stage' = "returned"
  /\ UNCHANGED <<sent, setup, given, rw, capBuf, buf, wire, written, promoted>>

(* A panic unwinds through AutoPromoteMiddleware: no policy is evaluated.  *)
Panic ==
  /\ stage = "handling"
  /\ stage' = "panicked"
  /\ UNCHANGED <<sent, setup, given, rw, capBuf, buf, wire, written, promoted>>

-----------------------------------------------------------------------------
(* AutoPromoteMiddleware after the handler: the first matching policy, the *)
(* StatusPolicy or any other (route, sample, latency: either outcome),     *)
(* promotes; promoteFromRequest does nothing without a request ID and a    *)
(* Buffer.                                                                 *)

(* Mutant of StatusPolicy: greater than, not greater than or equal.        *)
StatusPolicyStrict(code) == code > MinCode

StatusPolicy(code) == code >= MinCode

Evaluate ==
  /\ stage = "returned"
  /\ \E other \in BOOLEAN :
       promoted' = IF (StatusPolicy(rw.statusCode) \/ other) /\ setup.correlated
                   THEN rw.statusCode ELSE 0
  /\ stage' = "done"
  /\ UNCHANGED <<sent, setup, given, rw, capBuf, buf, wire, written>>

Next ==
  \/ PassThrough \/ CaptureRequest
  \/ \E code \in FinalCodes \cup InfoCodes : WriteHeader(code)
  \/ \E n \in 0..MaxWritten : Write(n)
  \/ Flush \/ Return \/ Panic \/ Evaluate

Spec == Init /\ [][Next]_vars

-----------------------------------------------------------------------------
Body == Seq(Int)

(* Type invariant of a request.                                            *)
TypeOK ==
  /\ stage \in {"arrived", "handling", "returned", "done", "panicked"}
  /\ setup \in [correlated : BOOLEAN, capture : BOOLEAN, flusher : BOOLEAN,
                redactor : Redactors, breaks : Nat]
  /\ {sent, given, capBuf, written, buf.requestBody, buf.responseBody} \subseteq Body
  /\ rw \in [statusCode : FinalCodes \cup InfoCodes, written : BOOLEAN]
  /\ wire \in FinalCodes \cup {0}
  /\ promoted \in FinalCodes \cup InfoCodes \cup {0}
  /\ Len(capBuf) <= MaxBodySize

(* The status the client gets; net/http sends 200 if the handler did not.  *)
SentStatus == IF wire = 0 THEN 200 ELSE wire

(* Once the handler is finished, the status the policies are shown is the  *)
(* status the client gets, whatever calls the handler made in whatever     *)
(* order, if it did not begin with an informational code; except that the  *)
(* 200 a Flush commits may be taken for another (responseWriter,           *)
(* autopromote.go).                                                        *)
StatusIsSentOrFlushed ==
  stage \in {"returned", "done"} /\ rw.statusCode \notin InfoCodes =>
    rw.statusCode = SentStatus \/ (setup.flusher /\ SentStatus = 200)

(* A correlated request that ended with a failure status is promoted with  *)
(* that status (StatusPolicy, policy.go).                                  *)
FailuresArePromoted ==
  stage = "done" /\ setup.correlated /\ SentStatus >= MinCode => promoted = SentStatus

(* The same for a handler that did not begin with an informational code,   *)
(* whatever it flushed, wrote and sent superfluously.                      *)
FinalFailuresArePromoted ==
  rw.statusCode \notin InfoCodes => FailuresArePromoted

(* The stored response body is always exactly the redacted beginning of    *)
(* what the handler has written, up to the limit: however the writes are   *)
(* cut, nothing is skipped, stored twice or stored unredacted              *)
(* (captureResponseWriter.Write); nothing is stored before a first Write.  *)
ResponseBodyIsPrefix ==
  Capturing => \/ buf.responseBody = Redact(Prefix(written, MaxBodySize))
               \/ written = <<>> /\ buf.responseBody = <<>>

(* The handler reads as many bytes as the client sent and can be read, and *)
(* the very same ones, whether or not they are captured, truncated or      *)
(* redacted ("Re-wrap so downstream handlers can still read the body"),    *)
(* except through a redactor that writes into its argument: one that       *)
(* overwrites it changes captured bytes only, one that appends to it also  *)
(* the one byte beyond the limit.                                          *)
HandlerReadsSentBody ==
  stage /= "arrived" =>
    /\ Len(given) = Len(Readable)
    /\ \A i \in DOMAIN given :
         \/ given[i] = Readable[i]
         \/ /\ Capturing /\ setup.redactor \in {"inPlace", "appending"}
            /\ i <= MaxBodySize /\ given[i] = -Readable[i]
         \/ /\ Capturing /\ setup.redactor = "appending"
            /\ i = MaxBodySize + 1 /\ given[i] = Appended
==============================================================================
