------------------------------ MODULE Delivery -------------------------------
(***************************************************************************)
(* The two exporters (export/json, export/webhook) under the export         *)
(* wiring: Store with its one step for an export taken apart.               *)
(*                                                                         *)
(* A JSON exporter turns the trace into a line and writes it, in as many    *)
(* pieces as the writer takes it in, here two, into a file of its own that  *)
(* survives restarts; a webhook posts it to a server.  What the line says, its       *)
(* fields and its layout, is left out: the JSON exporter's toView and       *)
(* filterFields and the webhook's toPayload work on the trace alone.        *)
(***************************************************************************)
EXTENDS Store

CONSTANT Writers  \* the exporters that are JSON exporters; the rest are webhooks

ASSUME WritersAssumption == Writers \subseteq Exporters

VARIABLES
  file,      \* the file of each JSON exporter, in pieces
  writing,   \* the goroutines that hold the JSON exporter's mutex; begun: half a line is written
  posted,    \* the goroutines that wait for the server's answer
  received   \* the traces the server received, in order

deliveryVars == <<file, writing, posted, received>>
allVars      == <<storeVars, deliveryVars>>

DeliveryInit ==
  /\ Init
  /\ file = [e \in Writers |-> <<>>]
  /\ writing = {} /\ posted = {} /\ received = <<>>

(* A goroutine that has read its trace back and has not called Export yet. *)
Ready(x) == x.got /= NoTrace /\ x \notin posted /\ \A w \in writing : w.x /= x

-----------------------------------------------------------------------------
(* jsonexport.Exporter.Export: marshal; lock; write; unlock.               *)

(* Mutant of Lock: there is no mutex.                                      *)
LockNothing(x) ==
  /\ x.exporter \in Writers /\ Ready(x)
  /\ writing' = writing \cup {[x |-> x, begun |-> FALSE]}
  /\ UNCHANGED <<storeVars, file, posted, received>>

Lock(x) ==
  /\ x.exporter \in Writers /\ Ready(x)
  /\ \A w \in writing : w.x.exporter /= x.exporter
  /\ writing' = writing \cup {[x |-> x, begun |-> FALSE]}
  /\ UNCHANGED <<storeVars, file, posted, received>>

Piece(x, half) == [row |-> x.got.row, half |-> half]

WriteSome(w) ==
  /\ ~w.begun
  /\ file' = [file EXCEPT ![w.x.exporter] = Append(@, Piece(w.x, 1))]
  /\ writing' = (writing \ {w}) \cup {[w EXCEPT !.begun = TRUE]}
  /\ UNCHANGED <<storeVars, posted, received>>

WriteRest(w) ==
  /\ w.begun
  /\ file' = [file EXCEPT ![w.x.exporter] = Append(@, Piece(w.x, 2))]
  /\ writing' = writing \ {w}
  /\ Export(w.x)
  /\ UNCHANGED <<posted, received>>

(* Mutant of WriteFails: the error returns without the unlock.             *)
WriteFailsLocked(w) ==
  /\ ExportFails(w.x)
  /\ UNCHANGED deliveryVars

(* Write returns an error, before or after it wrote something.             *)
WriteFails(w) ==
  /\ writing' = writing \ {w}
  /\ ExportFails(w.x)
  /\ UNCHANGED <<file, posted, received>>

-----------------------------------------------------------------------------
(* webhook.Exporter.Export: one POST.                                      *)

Post(x) ==
  /\ x.exporter \notin Writers /\ Ready(x)
  /\ posted' = posted \cup {x}
  /\ received' = Append(received, x.got.row)
  /\ UNCHANGED <<storeVars, file, writing>>

Answered(x) ==
  /\ x \in posted
  /\ posted' = posted \ {x}
  /\ Export(x)
  /\ UNCHANGED <<file, writing, received>>

(* Mutant of AnswerFails: the request is sent again.                       *)
AnswerFailsAndAgain(x) ==
  /\ x \in posted
  /\ faults < MaxFaults /\ faults' = faults + 1
  /\ posted' = posted \ {x}
  /\ UNCHANGED <<now, traces, lastRow, used, removed, calls, onPromote, unset, wiredSince, exports,
                 delivered, busy, crashes, file, writing, received>>

(* The server has the trace, but answers with 400 or more, or not within   *)
(* the client's timeout; the request is not repeated.                      *)
AnswerFails(x) ==
  /\ x \in posted
  /\ posted' = posted \ {x}
  /\ ExportFails(x)
  /\ UNCHANGED <<file, writing, received>>

(* The read back fails, the trace cannot be marshalled, or the request     *)
(* does not get to the server.                                             *)
NothingSent(x) ==
  /\ x \in exports
  /\ x \notin posted /\ \A w \in writing : w.x /= x
  /\ ExportFails(x)
  /\ UNCHANGED deliveryVars

-----------------------------------------------------------------------------
(* A restart closes connections and files; what is written stays.          *)
Restart ==
  /\ Crash
  /\ writing' = {} /\ posted' = {}
  /\ UNCHANGED <<file, received>>

StoreOnly ==
  \/ Tick
  \/ \E c \in Callers : \/ Promote(c) \/ PromoteAt(c)
                       \/ NotifyCheck(c) \/ NotifyCall(c) \/ NotifyNil(c)
  \/ Unwire \/ \E e \in Exporters : WireExporter(e)
  \/ \E x \in exports : GetTrace(x)
  \/ \E i \in Ids : DeleteTrace(i)

DeliveryNext ==
  \/ StoreOnly /\ UNCHANGED deliveryVars
  \/ \E x \in exports : Lock(x) \/ Post(x) \/ NothingSent(x)
  \/ \E w \in writing : WriteSome(w) \/ WriteRest(w) \/ WriteFails(w)
  \/ \E x \in posted : Answered(x) \/ AnswerFails(x)
  \/ Restart

(* Goroutines run, a write ends and a POST has a timeout; nobody has to    *)
(* promote, wire or delete.                                                *)
DeliveryFairness ==
  /\ \A c \in Callers : WF_allVars(NotifyCheck(c) /\ UNCHANGED deliveryVars)
                        /\ WF_allVars((NotifyCall(c) \/ NotifyNil(c)) /\ UNCHANGED deliveryVars)
  /\ WF_allVars(\E x \in exports : GetTrace(x) /\ UNCHANGED deliveryVars)
  /\ WF_allVars(\E x \in exports : Lock(x) \/ Post(x))
  /\ WF_allVars(\E w \in writing : WriteSome(w) \/ WriteRest(w))
  /\ WF_allVars(\E x \in posted : Answered(x))

DeliverySpec == DeliveryInit /\ [][DeliveryNext]_allVars

FairDeliverySpec == DeliverySpec /\ DeliveryFairness

-----------------------------------------------------------------------------
(* Type invariant; in particular only goroutines that are running hold the *)
(* mutex or wait for an answer.                                            *)
DeliveryTypeOK ==
  /\ TypeOK
  /\ file \in [Writers -> Seq([row : 1..MaxRows, half : {1, 2}])]
  /\ writing \subseteq [x : exports, begun : BOOLEAN]
  /\ posted \subseteq exports
  /\ received \in Seq(1..MaxRows)

(* The store and its wiring, with the steps of the exporters hidden, is    *)
(* what Store says: an export is one step that delivers or fails.          *)
ImplementsStore == Spec

Torn(e) ==
  {i \in DOMAIN file[e] :
     file[e][i].half = 1
     /\ ~(i < Len(file[e]) /\ file[e][i + 1] = [file[e][i] EXCEPT !.half = 2])}

(* Lines are whole, also when several goroutines export at the same time:  *)
(* the second half of a line follows its first half; a trace has a line    *)
(* only once; what an exporter delivered has its line; and there are no    *)
(* more torn lines than there were failures, but for the one that is being *)
(* written.                                                                *)
LinesAreWhole ==
  \A e \in Writers :
    /\ \A i \in DOMAIN file[e] :
         file[e][i].half = 2 => i > 1 /\ file[e][i - 1] = [file[e][i] EXCEPT !.half = 1]
    /\ \A i, j \in DOMAIN file[e] : file[e][i] = file[e][j] => i = j
    /\ \A d \in DOMAIN delivered : delivered[d].exporter = e =>
         \E i \in DOMAIN file[e] : file[e][i] = [row |-> delivered[d].row, half |-> 2]
    /\ Cardinality(Torn(e)) <=
         faults + crashes + (IF \E w \in writing : w.x.exporter = e /\ w.begun THEN 1 ELSE 0)

(* The server receives a trace at most once, as a timeout or an error is   *)
(* not answered by another attempt; it has all that were delivered; and it *)
(* has others only while it answers or after a failure.                    *)
ReceivedOnce ==
  /\ \A i, j \in DOMAIN received : received[i] = received[j] => i = j
  /\ \A d \in DOMAIN delivered : delivered[d].exporter \notin Writers =>
       \E i \in DOMAIN received : received[i] = delivered[d].row
  /\ faults = 0 /\ crashes = 0 => \A i \in DOMAIN received :
       \/ \E x \in posted : x.got.row = received[i]
       \/ \E d \in DOMAIN delivered :
            delivered[d].exporter \notin Writers /\ delivered[d].row = received[i]
==============================================================================
