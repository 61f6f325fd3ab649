----------------------------- MODULE StoreProofs -----------------------------
(***************************************************************************)
(* Proofs about Store, for every set of IDs, callers and exporters and      *)
(* every bound: types, when a promotion calls a nil callback, that no trace *)
(* is exported twice and that each failure loses at most one.               *)
(***************************************************************************)
EXTENDS Store, FiniteSetTheorems, TLAPS

(* A call that is under way has a row to tell about, and once it has seen  *)
(* a callback there is one, or it was taken away.                          *)
CallsOK ==
  /\ \A c \in Callers :
       calls[c].stage /= "none" => calls[c].id \in Ids /\ calls[c].row \in 1..MaxRows
  /\ NilOnlyIfUnset

(* The inductive invariant behind TypeOK.                                  *)
TInv == TypeOK /\ CallsOK

LEMMA NewCallTyped ==
  ASSUME NEW i \in Ids, NEW r \in 1..MaxRows
  PROVE  [stage |-> "inserted", id |-> i, row |-> r] \in CallStates
  BY StoreAssumption DEF CallStates

LEMMA InitTInv == Init => TInv
  <1> SUFFICES ASSUME Init PROVE TInv
    OBVIOUS
  <1>1. NoCall \in CallStates
    BY StoreAssumption DEF NoCall, CallStates
  <1>2. 0 \in 0..MaxTime /\ 0 \in 0..MaxRows /\ 0 \in 0..MaxFaults /\ 0 \in 0..MaxCrashes
        /\ MaxRows \in 0..MaxRows
    BY StoreAssumption
  <1>3. calls \in [Callers -> CallStates] /\ wiredSince \in [Exporters -> 0..MaxRows]
    BY <1>1, <1>2 DEF Init, NotWired
  <1>4. TypeOK
    BY <1>2, <1>3 DEF Init, TypeOK
  <1>5. CallsOK
    BY DEF Init, CallsOK, NilOnlyIfUnset, NoCall
  <1> QED BY <1>4, <1>5 DEF TInv

LEMMA NextTInv == TInv /\ [Next]_storeVars => TInv'
  <1> SUFFICES ASSUME TInv, [Next]_storeVars PROVE TInv'
    OBVIOUS
  <1> USE DEF TInv
  <1>0. /\ MaxRows \in Nat /\ MaxTime \in Nat /\ MaxFaults \in Nat /\ MaxCrashes \in Nat
        /\ Oldest \in Int /\ Oldest <= 0
    BY StoreAssumption
  <1>1. CASE Tick
    BY <1>0, <1>1 DEF Tick, TypeOK, CallsOK, NilOnlyIfUnset
  <1>2. ASSUME NEW c \in Callers, NEW i \in Ids, NEW k \in Classes, NEW t \in Oldest..now,
               Insert(c, i, k, t)
        PROVE  TInv'
    <2> DEFINE row  == [row |-> lastRow + 1, class |-> k, createdAt |-> t]
               call == [stage |-> "inserted", id |-> i, row |-> lastRow + 1]
    <2>1. /\ traces' = [traces EXCEPT ![i] = row] /\ calls' = [calls EXCEPT ![c] = call]
          /\ lastRow' = lastRow + 1 /\ lastRow < MaxRows /\ used' = used \cup {i}
          /\ UNCHANGED <<now, removed, onPromote, unset, wiredSince, exports, delivered, busy, faults, crashes>>
      BY <1>2 DEF Insert
    <2>2. lastRow + 1 \in 1..MaxRows /\ lastRow + 1 \in 0..MaxRows
      BY <1>0, <2>1 DEF TypeOK
    <2>3. row \in Row
      BY <1>0, <2>2 DEF Row, TypeOK
    <2>4. call \in CallStates
      BY <2>2, NewCallTyped
    <2>5. call.stage = "inserted" /\ call.id = i /\ call.row = lastRow + 1
      OBVIOUS
    <2> HIDE DEF row, call
    <2>6. TypeOK'
      BY <2>1, <2>2, <2>3, <2>4 DEF TypeOK
    <2>7. CallsOK'
      <3>1. ASSUME NEW d \in Callers, d /= c PROVE calls'[d] = calls[d]
        BY <2>1, <3>1 DEF TypeOK
      <3>2. calls'[c] = call
        BY <2>1 DEF TypeOK
      <3> QED BY <2>1, <2>2, <2>5, <3>1, <3>2 DEF CallsOK, NilOnlyIfUnset
    <2> QED BY <2>6, <2>7
  <1>3. ASSUME NEW c \in Callers, NotifyCheck(c) PROVE TInv'
    <2>1. calls[c].stage = "inserted"
      BY <1>3 DEF NotifyCheck
    <2>2. UNCHANGED <<now, traces, lastRow, used, removed, onPromote, unset, wiredSince, exports,
                      delivered, busy, faults, crashes>>
      BY <1>3 DEF NotifyCheck
    <2>3. NoCall \in CallStates
      BY <1>0 DEF NoCall, CallStates
    <2>4. CASE onPromote = NoCallback
      <3>1. calls' = [calls EXCEPT ![c] = NoCall]
        BY <1>3, <2>4 DEF NotifyCheck
      <3> QED BY <2>2, <2>3, <3>1 DEF TypeOK, CallsOK, NilOnlyIfUnset, NoCall
    <2>5. CASE onPromote /= NoCallback
      <3>1. calls' = [calls EXCEPT ![c] = [calls[c] EXCEPT !.stage = "notify"]]
        BY <1>3, <2>5 DEF NotifyCheck
      <3>2. onPromote \in Exporters
        BY <2>5 DEF TypeOK
      <3> QED BY <2>1, <2>2, <3>1, <3>2, StoreAssumption
              DEF TypeOK, CallsOK, NilOnlyIfUnset, CallStates
    <2> QED BY <2>4, <2>5
  <1>4. ASSUME NEW c \in Callers, NotifyCall(c) PROVE TInv'
    <2> DEFINE x == [id |-> calls[c].id, by |-> calls[c].row, exporter |-> onPromote,
                     got |-> NoTrace]
    <2>1. /\ exports' = exports \cup {x} /\ calls' = [calls EXCEPT ![c] = NoCall]
          /\ unset' = unset \ {c}
          /\ UNCHANGED <<now, traces, lastRow, used, removed, onPromote, wiredSince, delivered,
                         busy, faults, crashes>>
      BY <1>4 DEF NotifyCall
    <2>2. x \in ExportStates
      BY <1>4 DEF NotifyCall, CallsOK, TypeOK, ExportStates
    <2> HIDE DEF x
    <2>3. NoCall \in CallStates
      BY <1>0 DEF NoCall, CallStates
    <2> QED BY <2>1, <2>2, <2>3 DEF TypeOK, CallsOK, NilOnlyIfUnset, NoCall
  <1>a. ASSUME NEW c \in Callers, NotifyNil(c) PROVE TInv'
    <2>1. NoCall \in CallStates
      BY <1>0 DEF NoCall, CallStates
    <2> QED BY <1>a, <2>1 DEF NotifyNil, TypeOK, CallsOK, NilOnlyIfUnset, NoCall
  <1>b. CASE Unwire
    <2>1. NotWired \in [Exporters -> 0..MaxRows]
      BY <1>0 DEF NotWired
    <2> QED BY <1>b, <2>1 DEF Unwire, TypeOK, CallsOK, NilOnlyIfUnset
  <1>5. ASSUME NEW e \in Exporters, WireExporter(e) PROVE TInv'
    <2>1. wiredSince' \in [Exporters -> 0..MaxRows]
      BY <1>5 DEF WireExporter, TypeOK
    <2> QED BY <1>5, <2>1, StoreAssumption DEF WireExporter, TypeOK, CallsOK, NilOnlyIfUnset
  <1>6. ASSUME NEW x \in exports, GetTrace(x) PROVE TInv'
    <2>1. x \in ExportStates /\ traces[x.id] \in Row \cup {NoTrace}
      BY DEF TypeOK, ExportStates
    <2>2. [x EXCEPT !.got = traces[x.id]] \in ExportStates
      BY <2>1 DEF ExportStates
    <2>3. exports' \subseteq ExportStates
      BY <1>6, <2>2 DEF GetTrace, TypeOK
    <2> QED BY <1>6, <2>3 DEF GetTrace, TypeOK, CallsOK, NilOnlyIfUnset
  <1>7. ASSUME NEW x \in exports, Export(x) PROVE TInv'
    <2> DEFINE d == [exporter |-> x.exporter, row |-> x.got.row, by |-> x.by]
    <2>1. d \in Deliveries
      BY <1>7 DEF Export, TypeOK, ExportStates, Row, Deliveries
    <2>2. delivered' = Append(delivered, d) /\ exports' = exports \ {x}
      BY <1>7 DEF Export
    <2> HIDE DEF d
    <2> QED BY <1>7, <2>1, <2>2 DEF Export, TypeOK, CallsOK, NilOnlyIfUnset
  <1>8. ASSUME NEW x \in exports, ExportFails(x) PROVE TInv'
    BY <1>0, <1>8 DEF ExportFails, TypeOK, CallsOK, NilOnlyIfUnset
  <1>9. ASSUME NEW i \in Ids, DeleteTrace(i) PROVE TInv'
    BY <1>9 DEF DeleteTrace, TypeOK, CallsOK, NilOnlyIfUnset
  <1>10. CASE Crash
    <2>1. NoCall \in CallStates /\ NotWired \in [Exporters -> 0..MaxRows]
      BY <1>0 DEF NoCall, CallStates, NotWired
    <2> QED BY <1>0, <1>10, <2>1 DEF Crash, TypeOK, CallsOK, NilOnlyIfUnset, NoCall
  <1>11. CASE UNCHANGED storeVars
    BY <1>11 DEF storeVars, TypeOK, CallsOK, NilOnlyIfUnset
  <1>12. ASSUME NEW c \in Callers, Promote(c) \/ PromoteAt(c) PROVE TInv'
    <2>1. now \in Oldest..now
      BY <1>0 DEF TypeOK
    <2> QED BY <1>2, <1>12, <2>1 DEF Promote, PromoteAt
  <1> QED BY <1>1, <1>3, <1>4, <1>5, <1>6, <1>7, <1>8, <1>9, <1>10, <1>11, <1>12,
            <1>a, <1>b DEF Next, StoreStep

(* Every reachable state of the store is well-typed (sqlite/store.go).     *)
THEOREM TypeCorrect == Spec => []TypeOK
  BY InitTInv, NextTInv, PTL DEF Spec, TInv

(* The callback is read twice without synchronisation, and a promotion     *)
(* still finds it nil at the call only if SetOnPromote(nil) ran between    *)
(* the two reads (promoteAt, sqlite/store.go).                             *)
THEOREM NilCallsFollowUnset == Spec => []NilOnlyIfUnset
  BY InitTInv, NextTInv, PTL DEF Spec, TInv, CallsOK

-----------------------------------------------------------------------------
(* Exactly one call, goroutine or finished export at a time stands for a   *)
(* row: promoteAt hands the row over to the goroutine, the goroutine to    *)
(* the exporter.                                                           *)
Active(c) == calls[c].stage /= "none"

OneHolder ==
  /\ \A c, d \in Callers : Active(c) /\ Active(d) /\ calls[c].row = calls[d].row => c = d
  /\ \A c \in Callers, x \in exports : Active(c) => calls[c].row /= x.by
  /\ \A x, y \in exports : x.by = y.by => x = y
  /\ \A k \in 1..Len(delivered) :
       /\ \A c \in Callers : Active(c) => calls[c].row /= delivered[k].by
       /\ \A x \in exports : x.by /= delivered[k].by
  /\ \A j, k \in 1..Len(delivered) : delivered[j].by = delivered[k].by => j = k

(* Nothing stands for a row that does not exist yet.                       *)
NoneAhead ==
  /\ \A c \in Callers : Active(c) => calls[c].row <= lastRow
  /\ \A x \in exports : x.by <= lastRow
  /\ \A k \in 1..Len(delivered) : delivered[k].by <= lastRow
  /\ \A i \in Live : traces[i].row <= lastRow

(* What is known under an ID by the one who goes by the ID alone: the row  *)
(* it stands for, or nothing.                                              *)
Knows(i, r) == i \in used /\ (i \in Live => traces[i].row = r)

SameRow ==
  /\ Live \subseteq used
  /\ \A c \in Callers : Active(c) => Knows(calls[c].id, calls[c].row)
  /\ \A x \in exports : Knows(x.id, x.by) /\ (x.got /= NoTrace => x.got.row = x.by)
  /\ \A k \in 1..Len(delivered) : delivered[k].row = delivered[k].by

(* The inductive invariant behind ExportedOnce.                            *)
XInv == TInv /\ OneHolder /\ NoneAhead /\ SameRow

LEMMA InitXInv == Init => XInv
  <1> SUFFICES ASSUME Init PROVE XInv
    OBVIOUS
  <1>1. TInv
    BY InitTInv
  <1>2. \A c \in Callers : ~Active(c)
    BY DEF Init, Active, NoCall
  <1>3. Live = {} /\ exports = {} /\ Len(delivered) = 0
    BY DEF Init, Live
  <1> QED BY <1>1, <1>2, <1>3 DEF XInv, OneHolder, NoneAhead, SameRow

(* Steps that only take away, or do not touch the rows, their holders and  *)
(* the history.                                                            *)
LEMMA FewerHolders ==
  ASSUME XInv, TInv',
         \A c \in Callers : Active(c)' => Active(c) /\ calls'[c].row = calls[c].row
                                                    /\ calls'[c].id = calls[c].id,
         exports' \subseteq exports,
         \A i \in Ids : traces'[i] \in {traces[i], NoTrace},
         UNCHANGED <<delivered, lastRow, used>>
  PROVE  XInv'
  <1>1. OneHolder'
    BY DEF XInv, OneHolder
  <1>2. Live' \subseteq Live /\ \A i \in Live' : traces'[i] = traces[i]
    BY DEF Live
  <1>3. NoneAhead'
    BY <1>2 DEF XInv, NoneAhead
  <1>4. \A i, r : Knows(i, r) => Knows(i, r)'
    BY <1>2 DEF Knows
  <1>5. SameRow'
    <2>1. Live' \subseteq used'
      BY <1>2 DEF XInv, SameRow
    <2>2. ASSUME NEW c \in Callers, Active(c)' PROVE Knows(calls[c].id, calls[c].row)'
      BY <1>2, <2>2 DEF XInv, SameRow, Knows
    <2>3. ASSUME NEW x \in exports'
          PROVE  Knows(x.id, x.by)' /\ (x.got /= NoTrace => x.got.row = x.by)
      BY <1>2, <2>3 DEF XInv, SameRow, Knows
    <2> QED BY <2>1, <2>2, <2>3 DEF XInv, SameRow
  <1> QED BY <1>1, <1>3, <1>5 DEF XInv

(* The keys can be compared.                                               *)
LEMMA RowsAreNumbers ==
  ASSUME TypeOK
  PROVE  /\ lastRow \in Nat
         /\ \A d \in Callers : calls[d].row \in Int
         /\ \A x \in exports : x.by \in Int
         /\ \A n \in 1..Len(delivered) : delivered[n].by \in Int
         /\ \A j \in Live : traces[j].row \in Int
  <1>1. lastRow \in Nat /\ 0..MaxRows \subseteq Int /\ 1..MaxRows \subseteq Int
    BY StoreAssumption DEF TypeOK
  <1>2. \A d \in Callers : calls[d].row \in Int
    BY <1>1 DEF TypeOK, CallStates
  <1>3. \A x \in exports : x.by \in Int
    BY <1>1 DEF TypeOK, ExportStates
  <1>4. \A n \in 1..Len(delivered) : delivered[n].by \in Int
    <2>1. \A n \in 1..Len(delivered) : delivered[n] \in Deliveries
      BY DEF TypeOK
    <2> QED BY <1>1, <2>1 DEF Deliveries
  <1>5. \A j \in Live : traces[j].row \in Int
    <2>1. \A j \in Live : traces[j] \in Row
      BY DEF Live, TypeOK
    <2> QED BY <1>1, <2>1 DEF Row
  <1> QED BY <1>1, <1>2, <1>3, <1>4, <1>5

(* A new row gets a key nothing stands for yet, under an ID nobody knows.  *)
LEMMA InsertStep ==
  ASSUME ~Repromote, XInv, TInv', NEW c \in Callers, NEW i \in Ids, NEW k \in Classes, NEW t,
         Insert(c, i, k, t)
  PROVE  XInv'
  <1>1. /\ i \notin used /\ used' = used \cup {i} /\ lastRow' = lastRow + 1
        /\ UNCHANGED <<exports, delivered>>
    BY DEF Insert
  <1>2. /\ \A d \in Callers \ {c} : calls'[d] = calls[d]
        /\ calls'[c].stage = "inserted" /\ calls'[c].id = i /\ calls'[c].row = lastRow + 1
    BY DEF Insert, XInv, TInv, TypeOK
  <1>3. /\ \A j \in Ids \ {i} : traces'[j] = traces[j]
        /\ traces'[i].row = lastRow + 1 /\ traces[i] = NoTrace
    BY DEF Insert, XInv, TInv, TypeOK
  <1>4. /\ lastRow \in Nat
        /\ \A d \in Callers : calls[d].row \in Int
        /\ \A x \in exports : x.by \in Int
        /\ \A n \in 1..Len(delivered) : delivered[n].by \in Int
        /\ \A j \in Live : traces[j].row \in Int
    BY RowsAreNumbers DEF XInv, TInv
  <1>5. Live' \subseteq Live \cup {i}
    BY <1>3 DEF Live
  <1>6. \A d \in Callers \ {c} : Active(d)' <=> Active(d)
    BY <1>2 DEF Active
  <1>7. OneHolder'
    <2>1. ASSUME NEW d \in Callers \ {c}, Active(d)' PROVE calls'[d].row < calls'[c].row
      BY <1>2, <1>4, <1>6, <2>1 DEF XInv, NoneAhead
    <2>2. \A x \in exports : x.by < calls'[c].row
      BY <1>2, <1>4 DEF XInv, NoneAhead
    <2>3. \A n \in 1..Len(delivered) : delivered[n].by < calls'[c].row
      BY <1>2, <1>4 DEF XInv, NoneAhead
    <2>4. calls'[c].row \in Int
      BY <1>2, <1>4
    <2>5. \A d, e \in Callers : Active(d)' /\ Active(e)' /\ calls'[d].row = calls'[e].row => d = e
      <3> TAKE d \in Callers, e \in Callers
      <3> HAVE Active(d)' /\ Active(e)' /\ calls'[d].row = calls'[e].row
      <3>1. CASE d = c \/ e = c
        BY <1>4, <1>2, <2>1, <2>4, <3>1
      <3>2. CASE d /= c /\ e /= c
        BY <1>2, <1>6, <3>2 DEF XInv, OneHolder
      <3> QED BY <3>1, <3>2
    <2>6. \A d \in Callers, x \in exports : Active(d)' => calls'[d].row /= x.by
      BY <1>2, <1>4, <1>6, <2>2, <2>4 DEF XInv, OneHolder
    <2>7. \A n \in 1..Len(delivered), d \in Callers : Active(d)' => calls'[d].row /= delivered[n].by
      BY <1>2, <1>4, <1>6, <2>3, <2>4 DEF XInv, OneHolder
    <2> QED BY <1>1, <2>5, <2>6, <2>7 DEF XInv, OneHolder
  <1>8. NoneAhead'
    <2>1. \A d \in Callers : Active(d)' => calls'[d].row <= lastRow'
      BY <1>1, <1>2, <1>4, <1>6 DEF XInv, NoneAhead
    <2>2. \A x \in exports' : x.by <= lastRow'
      BY <1>1, <1>4 DEF XInv, NoneAhead
    <2>3. \A n \in 1..Len(delivered') : delivered'[n].by <= lastRow'
      BY <1>1, <1>4 DEF XInv, NoneAhead
    <2>4. ASSUME NEW j \in Live' PROVE traces'[j].row <= lastRow'
      <3>1. j \in Ids
        BY DEF Live
      <3> QED BY <1>1, <1>3, <1>4, <1>5, <3>1 DEF XInv, NoneAhead
    <2> QED BY <2>1, <2>2, <2>3, <2>4 DEF NoneAhead
  <1>9. ASSUME NEW j, NEW r, Knows(j, r) PROVE Knows(j, r)'
    <2>1. j \in used /\ j /= i /\ (j \in Live => traces[j].row = r)
      BY <1>1, <1>9 DEF Knows
    <2>2. j \in Live' => j \in Live /\ traces'[j] = traces[j]
      BY <1>3, <1>5, <2>1 DEF Live
    <2> QED BY <1>1, <2>1, <2>2 DEF Knows
  <1>10. SameRow'
    <2>1. Live' \subseteq used'
      BY <1>1, <1>5 DEF XInv, SameRow
    <2>3. ASSUME NEW d \in Callers, Active(d)' PROVE Knows(calls[d].id, calls[d].row)'
      <3>1. CASE d = c
        BY <1>1, <1>2, <1>3, <3>1 DEF Knows
      <3>2. CASE d /= c
        <4>1. Knows(calls[d].id, calls[d].row)
          BY <1>6, <2>3, <3>2 DEF XInv, SameRow
        <4> QED BY <1>2, <1>1, <1>3, <1>5, <3>2, <4>1 DEF Knows, Live
      <3> QED BY <3>1, <3>2
    <2>4. \A x \in exports' : Knows(x.id, x.by)' /\ (x.got /= NoTrace => x.got.row = x.by)
      BY <1>1, <1>9 DEF XInv, SameRow
    <2> QED BY <1>1, <2>1, <2>3, <2>4 DEF XInv, SameRow
  <1> QED BY <1>7, <1>8, <1>10 DEF XInv

(* The call's row becomes the goroutine's.                                 *)
LEMMA NotifyCallStep ==
  ASSUME XInv, TInv', NEW c \in Callers, NotifyCall(c)
  PROVE  XInv'
  <1> DEFINE x == [id |-> calls[c].id, by |-> calls[c].row, exporter |-> onPromote,
                   got |-> NoTrace]
  <1>1. /\ exports' = exports \cup {x} /\ UNCHANGED <<traces, lastRow, used, delivered>>
        /\ Active(c) /\ ~Active(c)' /\ \A d \in Callers \ {c} : calls'[d] = calls[d]
    BY DEF NotifyCall, Active, NoCall, XInv, TInv, TypeOK
  <1>2. x.id = calls[c].id /\ x.by = calls[c].row /\ x.got = NoTrace
    OBVIOUS
  <1> HIDE DEF x
  <1>3. \A d \in Callers : Active(d)' => d /= c /\ Active(d) /\ calls'[d] = calls[d]
    BY <1>1 DEF Active
  <1>4. OneHolder'
    BY <1>1, <1>2, <1>3 DEF XInv, OneHolder
  <1>5. NoneAhead'
    BY <1>1, <1>2, <1>3 DEF XInv, NoneAhead, Live
  <1>6. SameRow'
    BY <1>1, <1>2, <1>3 DEF XInv, SameRow, Knows, Live
  <1> QED BY <1>4, <1>5, <1>6 DEF XInv

(* The goroutine finds the row it stands for, or nothing.                  *)
LEMMA GetTraceStep ==
  ASSUME XInv, TInv', NEW x \in exports, GetTrace(x)
  PROVE  XInv'
  <1>1. UNCHANGED <<calls, traces, lastRow, used, delivered>>
    BY DEF GetTrace
  <1>2. CASE traces[x.id] = NoTrace
    <2>1. exports' = exports \ {x}
      BY <1>2 DEF GetTrace
    <2> QED BY <1>1, <2>1, FewerHolders DEF Active
  <1>3. CASE traces[x.id] /= NoTrace
    <2> DEFINE y == [x EXCEPT !.got = traces[x.id]]
    <2>1. exports' = (exports \ {x}) \cup {y}
      BY <1>3 DEF GetTrace
    <2>2. y.id = x.id /\ y.by = x.by /\ y.got = traces[x.id]
      BY DEF XInv, TInv, TypeOK, ExportStates
    <2> HIDE DEF y
    <2>3. x.id \in Live
      BY <1>3 DEF Live, XInv, TInv, TypeOK, ExportStates
    <2>4. y.got.row = y.by
      BY <2>2, <2>3 DEF XInv, SameRow, Knows
    <2>5. OneHolder'
      BY <1>1, <2>1, <2>2 DEF XInv, OneHolder, Active
    <2>6. NoneAhead'
      BY <1>1, <2>1, <2>2 DEF XInv, NoneAhead, Active, Live
    <2>7. SameRow'
      BY <1>1, <2>1, <2>2, <2>4 DEF XInv, SameRow, Active, Knows, Live
    <2> QED BY <2>5, <2>6, <2>7 DEF XInv
  <1> QED BY <1>2, <1>3

(* The goroutine's row becomes a finished export.                          *)
LEMMA ExportStep ==
  ASSUME XInv, TInv', NEW x \in exports, Export(x)
  PROVE  XInv'
  <1> DEFINE d == [exporter |-> x.exporter, row |-> x.got.row, by |-> x.by]
             n == Len(delivered) + 1
  <1>1. /\ delivered' = Append(delivered, d) /\ exports' = exports \ {x} /\ x.got /= NoTrace
        /\ UNCHANGED <<calls, traces, lastRow, used>>
    BY DEF Export
  <1>2. d.row = x.got.row /\ d.by = x.by /\ x.got.row = x.by
    BY <1>1 DEF XInv, SameRow
  <1> HIDE DEF d
  <1>3. /\ Len(delivered) \in Nat /\ Len(delivered') = n /\ delivered'[n] = d
        /\ \A k \in 1..Len(delivered) : delivered'[k] = delivered[k]
    BY <1>1 DEF XInv, TInv, TypeOK
  <1>4. 1..n = 1..Len(delivered) \cup {n} /\ n \notin 1..Len(delivered)
    BY <1>3
  <1> HIDE DEF n
  <1>5. OneHolder'
    <2>1. /\ \A c, e \in Callers : Active(c)' /\ Active(e)' /\ calls'[c].row = calls'[e].row => c = e
          /\ \A c \in Callers, y \in exports' : Active(c)' => calls'[c].row /= y.by
          /\ \A y, z \in exports' : y.by = z.by => y = z
      BY <1>1 DEF XInv, OneHolder, Active
    <2>2. ASSUME NEW k \in 1..n
          PROVE  /\ \A c \in Callers : Active(c)' => calls'[c].row /= delivered'[k].by
                 /\ \A y \in exports' : y.by /= delivered'[k].by
      <3>1. CASE k = n
        BY <1>1, <1>2, <1>3, <3>1 DEF XInv, OneHolder, Active
      <3>2. CASE k \in 1..Len(delivered)
        BY <1>1, <1>3, <3>2 DEF XInv, OneHolder, Active
      <3> QED BY <1>4, <3>1, <3>2
    <2>3. ASSUME NEW j \in 1..n, NEW k \in 1..n, delivered'[j].by = delivered'[k].by
          PROVE  j = k
      <3>1. \A m \in 1..Len(delivered) : delivered[m].by /= d.by
        BY <1>2 DEF XInv, OneHolder
      <3>2. CASE j = n \/ k = n
        BY <1>3, <1>4, <2>3, <3>1, <3>2
      <3>3. CASE j \in 1..Len(delivered) /\ k \in 1..Len(delivered)
        BY <1>3, <2>3, <3>3 DEF XInv, OneHolder
      <3> QED BY <1>4, <3>2, <3>3
    <2> QED BY <1>3, <2>1, <2>2, <2>3 DEF OneHolder
  <1>6. NoneAhead'
    <2>1. ASSUME NEW k \in 1..n PROVE delivered'[k].by <= lastRow'
      BY <1>1, <1>2, <1>3, <1>4 DEF XInv, NoneAhead
    <2> QED BY <1>1, <1>3, <2>1 DEF XInv, NoneAhead, Active, Live
  <1>7. SameRow'
    <2>1. ASSUME NEW k \in 1..n PROVE delivered'[k].row = delivered'[k].by
      BY <1>2, <1>3, <1>4 DEF XInv, SameRow
    <2> QED BY <1>1, <1>3, <2>1 DEF XInv, SameRow, Active, Knows, Live
  <1> QED BY <1>5, <1>6, <1>7 DEF XInv

LEMMA NextXInv ==
  ASSUME ~Repromote, XInv, [Next]_storeVars
  PROVE  XInv'
  <1>0. TInv'
    BY NextTInv DEF XInv
  <1>1. CASE \E c \in Callers : Promote(c) \/ PromoteAt(c)
    BY <1>0, <1>1, InsertStep DEF Promote, PromoteAt
  <1>2. CASE \/ Tick \/ UNCHANGED storeVars \/ Unwire
             \/ \E e \in Exporters : WireExporter(e)
             \/ \E x \in exports : ExportFails(x)
    <2>1. UNCHANGED <<calls, traces, delivered, lastRow, used>> /\ exports' \subseteq exports
      BY <1>2 DEF Tick, storeVars, Unwire, WireExporter, ExportFails
    <2> QED BY <1>0, <2>1, FewerHolders DEF Active
  <1>3. CASE \E i \in Ids : DeleteTrace(i)
    <2>1. /\ UNCHANGED <<calls, exports, delivered, lastRow, used>>
          /\ \A i \in Ids : traces'[i] \in {traces[i], NoTrace}
      BY <1>3 DEF DeleteTrace, XInv, TInv, TypeOK
    <2> QED BY <1>0, <2>1, FewerHolders DEF Active
  <1>a. ASSUME NEW c \in Callers, NotifyNil(c) PROVE XInv'
    <2>1. UNCHANGED <<exports, traces, delivered, lastRow, used>>
      BY <1>a DEF NotifyNil
    <2>2. ASSUME NEW d \in Callers, Active(d)'
          PROVE  Active(d) /\ calls'[d].row = calls[d].row /\ calls'[d].id = calls[d].id
      BY <1>a, <2>2 DEF NotifyNil, Active, NoCall, XInv, TInv, TypeOK, CallStates
    <2> QED BY <1>0, <2>1, <2>2, FewerHolders
  <1>4. ASSUME NEW c \in Callers, NotifyCheck(c) PROVE XInv'
    <2>1. UNCHANGED <<exports, traces, delivered, lastRow, used>>
      BY <1>4 DEF NotifyCheck
    <2>2. ASSUME NEW d \in Callers, Active(d)'
          PROVE  Active(d) /\ calls'[d].row = calls[d].row /\ calls'[d].id = calls[d].id
      BY <1>4, <2>2 DEF NotifyCheck, Active, NoCall, XInv, TInv, TypeOK, CallStates
    <2> QED BY <1>0, <2>1, <2>2, FewerHolders
  <1>5. CASE Crash
    <2>1. /\ UNCHANGED <<traces, delivered, lastRow, used>> /\ exports' = {}
          /\ \A c \in Callers : ~Active(c)'
      BY <1>5 DEF Crash, Active, NoCall
    <2> QED BY <1>0, <2>1, FewerHolders
  <1> QED BY <1>0, <1>1, <1>2, <1>3, <1>4, <1>5, <1>a, NotifyCallStep, GetTraceStep, ExportStep
          DEF Next, StoreStep

(* In a state of XInv no trace has been exported twice.                    *)
LEMMA XInvShows ==
  ASSUME XInv
  PROVE  ExportedOnce
  <1>1. DOMAIN delivered = 1..Len(delivered)
    BY DEF XInv, TInv, TypeOK
  <1> QED BY <1>1 DEF XInv, OneHolder, SameRow, ExportedOnce

(* If request IDs are not promoted again after their row is gone, no trace *)
(* is ever exported twice or in the name of another promotion: promoteAt   *)
(* hands each new row to one goroutine, whatever is deleted, rewired or    *)
(* restarted in between, and the goroutine finds that row or nothing.      *)
THEOREM ExportsAreUnique ==
  ASSUME ~Repromote
  PROVE  Spec => []ExportedOnce
  BY XInvShows, InitXInv, NextXInv, PTL DEF Spec

-----------------------------------------------------------------------------
(* Nothing gets lost: every stored row that is owed to an exporter has     *)
(* somebody who stands for it, but for as many as there were failures; and *)
(* whoever stands for a row knows its ID.                                  *)
Holder(r) ==
  \/ \E c \in Callers : Active(c) /\ calls[c].row = r
  \/ \E x \in exports : x.by = r
  \/ \E k \in 1..Len(delivered) : delivered[k].by = r

KnowsId ==
  \A i \in Live :
    /\ \A c \in Callers : Active(c) /\ calls[c].row = traces[i].row => calls[c].id = i
    /\ \A x \in exports : x.by = traces[i].row => x.id = i

OwedRow(i) == \E e \in Exporters : traces[i].row > wiredSince[e]

Lost == {i \in Live : OwedRow(i) /\ ~Holder(traces[i].row)}

FewLost == IsFiniteSet(Lost) /\ Cardinality(Lost) <= faults

(* Nothing is owed while no exporter is wired.                             *)
NoneOwed == onPromote = NoCallback => \A e \in Exporters : wiredSince[e] = MaxRows

(* The inductive invariant behind EveryTraceIsSent.                        *)
EInv == XInv /\ KnowsId /\ NoneOwed /\ FewLost

LEMMA InitEInv == Init => EInv
  <1> SUFFICES ASSUME Init PROVE EInv
    OBVIOUS
  <1>1. Live = {} /\ (\A e \in Exporters : wiredSince[e] = MaxRows) /\ faults = 0
    BY DEF Init, Live, NotWired
  <1>2. Lost = {}
    BY <1>1 DEF Lost
  <1>3. FewLost
    BY <1>1, <1>2, FS_EmptySet DEF FewLost
  <1> QED BY <1>1, <1>3, InitXInv DEF EInv, KnowsId, NoneOwed

(* A step loses nothing more, or it is a failure and loses one.            *)
LEMMA NoMoreLost ==
  ASSUME EInv, TypeOK', Lost' \subseteq Lost, faults' >= faults
  PROVE  FewLost'
  <1>1. PICK S, T : S = Lost /\ T = Lost'
    OBVIOUS
  <1>2. PICK n, m : n = faults /\ m = faults'
    OBVIOUS
  <1>3. n \in Nat /\ m \in Nat /\ n <= m
    BY <1>2, StoreAssumption DEF EInv, XInv, TInv, TypeOK
  <1>4. IsFiniteSet(S) /\ Cardinality(S) <= n /\ T \in SUBSET S
    BY <1>1, <1>2 DEF EInv, FewLost
  <1>5. IsFiniteSet(T) /\ Cardinality(T) <= Cardinality(S)
    BY <1>4, FS_Subset
  <1>6. Cardinality(S) \in Nat /\ Cardinality(T) \in Nat
    BY <1>4, <1>5, FS_CardinalityType
  <1>7. Cardinality(T) <= m
    BY <1>3, <1>4, <1>5, <1>6
  <1> QED BY <1>1, <1>2, <1>5, <1>7 DEF FewLost

LEMMA OneMoreLost ==
  ASSUME EInv, TypeOK', NEW i, Lost' \subseteq Lost \cup {i}, faults' = faults + 1
  PROVE  FewLost'
  <1>1. PICK S, T : S = Lost /\ T = Lost'
    OBVIOUS
  <1>2. PICK n : n = faults
    OBVIOUS
  <1>3. n \in Nat /\ faults' = n + 1
    BY <1>2, StoreAssumption DEF EInv, XInv, TInv, TypeOK
  <1>4. IsFiniteSet(S) /\ Cardinality(S) <= n /\ T \in SUBSET (S \cup {i})
    BY <1>1, <1>2 DEF EInv, FewLost
  <1>a. IsFiniteSet(S)
    BY <1>4
  <1>b. Cardinality(S) \in Nat
    BY <1>a, FS_CardinalityType
  <1>c. /\ IsFiniteSet(S \cup {i})
        /\ Cardinality(S \cup {i}) = Cardinality(S) \/ Cardinality(S \cup {i}) = Cardinality(S) + 1
    BY <1>a, FS_AddElement
  <1>5. /\ IsFiniteSet(S \cup {i}) /\ Cardinality(S) \in Nat
        /\ Cardinality(S \cup {i}) <= Cardinality(S) + 1
    BY <1>b, <1>c
  <1>6. IsFiniteSet(T) /\ Cardinality(T) <= Cardinality(S \cup {i})
    BY <1>4, <1>5, FS_Subset
  <1>7. Cardinality(S \cup {i}) \in Nat /\ Cardinality(T) \in Nat
    BY <1>5, <1>6, FS_CardinalityType
  <1>8. Cardinality(T) <= n + 1
    BY <1>3, <1>4, <1>5, <1>6, <1>7
  <1> QED BY <1>1, <1>3, <1>6, <1>8 DEF FewLost

(* Rows are at most MaxRows, so an exporter that is not wired is owed none. *)
LEMMA UnwiredLosesNothing ==
  ASSUME TypeOK', \A e \in Exporters : wiredSince'[e] = MaxRows
  PROVE  Lost' = {}
  <1>1. ASSUME NEW i \in Live', NEW e \in Exporters PROVE ~(traces'[i].row > wiredSince'[e])
    <2>1. traces'[i] \in Row /\ MaxRows \in Nat
      BY StoreAssumption DEF Live, TypeOK
    <2> QED BY <2>1 DEF Row
  <1> QED BY <1>1 DEF Lost, OwedRow

LEMMA InsertKeepsAll ==
  ASSUME ~Repromote, EInv, XInv', NEW c \in Callers, NEW i \in Ids, NEW k \in Classes, NEW t,
         Insert(c, i, k, t)
  PROVE  EInv'
  <1>0. XInv /\ TypeOK
    BY DEF EInv, XInv, TInv
  <1>1. UNCHANGED <<exports, delivered, onPromote, unset, wiredSince, faults, crashes>>
    BY DEF Insert
  <1>2. /\ ~Active(c) /\ Active(c)' /\ calls'[c].id = i /\ calls'[c].row = lastRow + 1
        /\ \A d \in Callers \ {c} : calls'[d] = calls[d]
    BY <1>0 DEF Insert, TypeOK, Active, NoCall
  <1>3. /\ \A j \in Ids \ {i} : traces'[j] = traces[j]
        /\ traces'[i].row = lastRow + 1
    BY <1>0 DEF Insert, TypeOK
  <1>4. Live' \subseteq Live \cup {i} /\ Live \subseteq Ids
    BY <1>3 DEF Live
  <1>5. \A d \in Callers \ {c} : Active(d)' <=> Active(d)
    BY <1>2 DEF Active
  <1>6. /\ lastRow \in Nat
        /\ \A d \in Callers : Active(d) => calls[d].row \in Int /\ calls[d].row <= lastRow
        /\ \A x \in exports : x.by \in Int /\ x.by <= lastRow
        /\ \A j \in Live : traces[j].row \in Int /\ traces[j].row <= lastRow
    BY <1>0, RowsAreNumbers DEF XInv, NoneAhead
  <1>7. KnowsId'
    <2>1. ASSUME NEW j \in Live', NEW d \in Callers, Active(d)', calls'[d].row = traces'[j].row
          PROVE  calls'[d].id = j
      <3>1. CASE j = i
        BY <1>2, <1>3, <1>5, <1>6, <2>1, <3>1
      <3>2. CASE j /= i
        <4>1. j \in Live /\ traces'[j] = traces[j]
          BY <1>3, <1>4, <3>2
        <4>2. d /= c
          BY <1>2, <1>6, <2>1, <4>1
        <4> QED BY <1>2, <1>5, <2>1, <4>1, <4>2 DEF EInv, KnowsId
      <3> QED BY <3>1, <3>2
    <2>2. ASSUME NEW j \in Live', NEW x \in exports', x.by = traces'[j].row
          PROVE  x.id = j
      <3>1. j /= i
        BY <1>1, <1>3, <1>6, <2>2
      <3> QED BY <1>1, <1>3, <1>4, <2>2, <3>1 DEF EInv, KnowsId
    <2> QED BY <2>1, <2>2 DEF KnowsId
  <1>8. Lost' \subseteq Lost
    <2> SUFFICES ASSUME NEW j \in Lost' PROVE j \in Lost
      OBVIOUS
    <2>1. j \in Live' /\ OwedRow(j)' /\ ~Holder(traces[j].row)'
      BY DEF Lost
    <2>2. j /= i
      BY <1>2, <1>3, <2>1 DEF Holder
    <2>3. j \in Live /\ traces'[j] = traces[j]
      BY <1>3, <1>4, <2>1, <2>2
    <2>4. ~Holder(traces[j].row)
      BY <1>1, <1>2, <1>5, <2>1, <2>3 DEF Holder
    <2>5. OwedRow(j)
      BY <1>1, <2>1, <2>3 DEF OwedRow
    <2> QED BY <2>3, <2>4, <2>5 DEF Lost
  <1>9. FewLost'
    <2>1. faults \in Nat
      BY <1>0, StoreAssumption DEF TypeOK
    <2> QED BY <1>1, <1>8, <2>1, NoMoreLost DEF XInv, TInv
  <1> QED BY <1>1, <1>7, <1>9 DEF EInv, NoneOwed

(* A step that leaves the calls, goroutines and exports as they are.       *)
LEMMA SameHolders ==
  ASSUME EInv, XInv', UNCHANGED <<calls, exports, delivered>>,
         \A i \in Ids : traces'[i] \in {traces[i], NoTrace},
         faults' >= faults,
         onPromote' = NoCallback => \A e \in Exporters : wiredSince'[e] = MaxRows,
         \A i \in Live, e \in Exporters :
           traces[i].row > wiredSince'[e] => traces[i].row > wiredSince[e]
  PROVE  EInv'
  <1>1. Live' \subseteq Live /\ \A i \in Live' : traces'[i] = traces[i]
    BY DEF Live
  <1>2. KnowsId'
    BY <1>1 DEF EInv, KnowsId, Active
  <1>3. \A r : Holder(r) => Holder(r)'
    BY DEF Holder, Active
  <1>4. Lost' \subseteq Lost
    <2> SUFFICES ASSUME NEW i \in Lost' PROVE i \in Lost
      OBVIOUS
    <2>1. i \in Live' /\ OwedRow(i)' /\ ~Holder(traces[i].row)'
      BY DEF Lost
    <2>2. i \in Live /\ OwedRow(i)
      BY <1>1, <2>1 DEF OwedRow
    <2>3. ~Holder(traces[i].row)
      BY <1>1, <2>1 DEF Holder, Active
    <2> QED BY <2>2, <2>3 DEF Lost
  <1>5. FewLost'
    BY <1>4, NoMoreLost DEF XInv, TInv
  <1> QED BY <1>2, <1>5 DEF EInv, NoneOwed

(* A step that hands rows on, from calls to goroutines to exports, and     *)
(* forgets at most row x.                                                  *)
LEMMA HandedOn ==
  ASSUME EInv, XInv', KnowsId', UNCHANGED <<traces, onPromote, wiredSince>>,
         NEW S, \A i \in Live : Holder(traces[i].row) => Holder(traces[i].row)' \/ i \in S
  PROVE  Lost' \subseteq Lost \cup S /\ NoneOwed'
  <1>1. Live' = Live
    BY DEF Live
  <1>2. \A i \in Live : OwedRow(i)' => OwedRow(i)
    BY DEF OwedRow
  <1>3. Lost' \subseteq Lost \cup S
    BY <1>1, <1>2 DEF Lost
  <1> QED BY <1>3 DEF EInv, NoneOwed

LEMMA NextEInv ==
  ASSUME ~Repromote, EInv, [Next]_storeVars
  PROVE  EInv'
  <1>0. XInv /\ TypeOK /\ XInv'
    BY NextXInv DEF EInv, XInv, TInv
  <1>a. /\ lastRow \in 0..MaxRows /\ MaxRows \in Nat /\ faults \in Nat /\ crashes \in Nat
        /\ \A i \in Live : /\ traces[i].row \in Int /\ traces[i].row <= lastRow
                           /\ traces[i].row <= MaxRows
    <2>1. /\ lastRow \in 0..MaxRows /\ MaxRows \in Nat /\ faults \in Nat /\ crashes \in Nat
      BY <1>0, StoreAssumption DEF TypeOK
    <2>2. \A i \in Live : traces[i].row \in Int /\ traces[i].row <= lastRow
      BY <1>0, RowsAreNumbers DEF XInv, NoneAhead
    <2> QED BY <2>1, <2>2
  <1>1. CASE \E c \in Callers : Promote(c) \/ PromoteAt(c)
    BY <1>0, <1>1, InsertKeepsAll DEF Promote, PromoteAt
  <1>2. CASE Tick \/ UNCHANGED storeVars \/ \E i \in Ids : DeleteTrace(i)
    <2>1. /\ UNCHANGED <<calls, exports, delivered, onPromote, wiredSince, faults>>
          /\ \A i \in Ids : traces'[i] \in {traces[i], NoTrace}
      BY <1>0, <1>2 DEF Tick, storeVars, DeleteTrace, TypeOK
    <2>2. faults' >= faults
      BY <1>a, <2>1
    <2> QED BY <1>0, <2>1, <2>2, SameHolders DEF EInv, NoneOwed
  <1>3. ASSUME NEW e \in Exporters, WireExporter(e) PROVE EInv'
    <2>1. /\ UNCHANGED <<calls, exports, delivered, traces, faults>>
          /\ onPromote' = e /\ e /= NoCallback
      BY <1>3, StoreAssumption DEF WireExporter
    <2>2. ASSUME NEW i \in Live, NEW g \in Exporters, traces[i].row > wiredSince'[g]
          PROVE  traces[i].row > wiredSince[g]
      <3>1. wiredSince'[g] = wiredSince[g] \/ wiredSince'[g] = lastRow
        BY <1>0, <1>3 DEF WireExporter, TypeOK
      <3> QED BY <1>a, <2>2, <3>1
    <2>3. faults' >= faults
      BY <1>a, <2>1
    <2> QED BY <1>0, <2>1, <2>2, <2>3, SameHolders
  <1>b. CASE Unwire
    <2>1. /\ UNCHANGED <<calls, exports, delivered, traces, faults>>
          /\ \A e \in Exporters : wiredSince'[e] = MaxRows
      BY <1>b DEF Unwire, NotWired
    <2>2. faults' >= faults
      BY <1>a, <2>1
    <2>3. \A i \in Live, e \in Exporters : ~(traces[i].row > wiredSince'[e])
      BY <1>a, <2>1
    <2> QED BY <1>0, <2>1, <2>2, <2>3, SameHolders
  <1>4. CASE Crash
    <2>1. /\ UNCHANGED <<traces, delivered, faults>> /\ exports' = {}
          /\ \A c \in Callers : ~Active(c)'
          /\ \A e \in Exporters : wiredSince'[e] = MaxRows
      BY <1>4 DEF Crash, Active, NoCall, NotWired
    <2>2. KnowsId' /\ NoneOwed'
      BY <2>1 DEF KnowsId, NoneOwed
    <2>3. Lost' = {}
      BY <1>0, <2>1, UnwiredLosesNothing DEF XInv, TInv
    <2>4. faults' >= faults
      BY <1>a, <2>1
    <2> QED BY <1>0, <2>2, <2>3, <2>4, NoMoreLost DEF EInv, XInv, TInv
  <1>c. ASSUME NEW x \in exports, ExportFails(x) PROVE EInv'
    <2>1. /\ UNCHANGED <<calls, traces, delivered, onPromote, wiredSince>>
          /\ exports' = exports \ {x} /\ faults' = faults + 1
      BY <1>c DEF ExportFails
    <2>2. KnowsId'
      BY <2>1 DEF EInv, KnowsId, Live, Active
    <2>3. ASSUME NEW i \in Live, Holder(traces[i].row)
          PROVE  Holder(traces[i].row)' \/ i \in {x.id}
      <3>1. CASE x.by = traces[i].row
        BY <3>1 DEF EInv, KnowsId
      <3>2. CASE x.by /= traces[i].row
        BY <2>1, <2>3, <3>2 DEF Holder, Active
      <3> QED BY <3>1, <3>2
    <2>4. Lost' \subseteq Lost \cup {x.id} /\ NoneOwed'
      BY <1>0, <2>1, <2>2, <2>3, HandedOn
    <2>5. FewLost'
      BY <1>0, <2>1, <2>4, OneMoreLost DEF XInv, TInv
    <2> QED BY <1>0, <2>2, <2>4, <2>5 DEF EInv
  <1>5. ASSUME NEW c \in Callers, NotifyCheck(c) PROVE EInv'
    <2>1. /\ UNCHANGED <<exports, delivered, traces, onPromote, wiredSince, faults>>
          /\ Active(c)
      BY <1>5 DEF NotifyCheck, Active
    <2>2. ASSUME NEW d \in Callers
          PROVE  /\ Active(d)' => Active(d)
                 /\ Active(d)' => calls'[d].row = calls[d].row /\ calls'[d].id = calls[d].id
                 /\ onPromote /= NoCallback => (Active(d)' <=> Active(d))
      BY <1>0, <1>5 DEF NotifyCheck, Active, NoCall, TypeOK, CallStates
    <2>3. KnowsId'
      BY <2>1, <2>2 DEF EInv, KnowsId, Live
    <2>4. Lost' \subseteq Lost /\ NoneOwed'
      <3>1. CASE onPromote = NoCallback
        <4>1. Lost' = {}
          BY <1>0, <2>1, <3>1, UnwiredLosesNothing DEF EInv, NoneOwed, XInv, TInv
        <4> QED BY <2>1, <4>1 DEF EInv, NoneOwed
      <3>2. CASE onPromote /= NoCallback
        <4>1. ASSUME NEW i \in Live, Holder(traces[i].row) PROVE Holder(traces[i].row)'
          BY <2>1, <2>2, <3>2, <4>1 DEF Holder
        <4> QED BY <1>0, <2>1, <2>3, <4>1, HandedOn
      <3> QED BY <3>1, <3>2
    <2>5. faults' >= faults
      BY <1>a, <2>1
    <2> QED BY <1>0, <2>3, <2>4, <2>5, NoMoreLost DEF EInv, XInv, TInv
  <1>d. ASSUME NEW c \in Callers, NotifyNil(c) PROVE EInv'
    <2>1. /\ UNCHANGED <<exports, delivered, traces, onPromote, wiredSince, faults>>
          /\ onPromote = NoCallback
          /\ \A d \in Callers : Active(d)' => Active(d) /\ calls'[d] = calls[d]
      BY <1>0, <1>d DEF NotifyNil, Active, NoCall, TypeOK
    <2>2. KnowsId' /\ NoneOwed'
      BY <2>1 DEF EInv, KnowsId, NoneOwed, Live
    <2>3. Lost' = {}
      BY <1>0, <2>1, UnwiredLosesNothing DEF EInv, NoneOwed, XInv, TInv
    <2>4. faults' >= faults
      BY <1>a, <2>1
    <2> QED BY <1>0, <2>2, <2>3, <2>4, NoMoreLost DEF EInv, XInv, TInv
  <1>6. ASSUME NEW c \in Callers, NotifyCall(c) PROVE EInv'
    <2> DEFINE x == [id |-> calls[c].id, by |-> calls[c].row, exporter |-> onPromote,
                     got |-> NoTrace]
    <2>1. /\ exports' = exports \cup {x} /\ Active(c) /\ ~Active(c)'
          /\ UNCHANGED <<delivered, traces, onPromote, wiredSince, faults>>
          /\ \A d \in Callers \ {c} : calls'[d] = calls[d]
      BY <1>0, <1>6 DEF NotifyCall, Active, NoCall, TypeOK
    <2>2. x.id = calls[c].id /\ x.by = calls[c].row
      OBVIOUS
    <2> HIDE DEF x
    <2>3. KnowsId'
      BY <2>1, <2>2 DEF EInv, KnowsId, Live, Active
    <2>4. ASSUME NEW i \in Live, Holder(traces[i].row) PROVE Holder(traces[i].row)'
      BY <2>1, <2>2, <2>4 DEF Holder, Active
    <2>5. Lost' \subseteq Lost /\ NoneOwed'
      BY <1>0, <2>1, <2>3, <2>4, HandedOn
    <2>6. faults' >= faults
      BY <1>a, <2>1
    <2> QED BY <1>0, <2>3, <2>5, <2>6, NoMoreLost DEF EInv, XInv, TInv
  <1>7. ASSUME NEW x \in exports, GetTrace(x) PROVE EInv'
    <2>1. UNCHANGED <<calls, delivered, traces, onPromote, wiredSince, faults>>
      BY <1>7 DEF GetTrace
    <2>2. /\ \A y \in exports' : \E z \in exports : y.id = z.id /\ y.by = z.by
          /\ \A y \in exports : y /= x => y \in exports'
          /\ traces[x.id] /= NoTrace => \E y \in exports' : y.by = x.by
      <3> DEFINE y == [x EXCEPT !.got = traces[x.id]]
      <3>1. y.id = x.id /\ y.by = x.by
        BY <1>0 DEF TypeOK, ExportStates
      <3>2. \/ traces[x.id] = NoTrace /\ exports' = exports \ {x}
            \/ traces[x.id] /= NoTrace /\ exports' = (exports \ {x}) \cup {y}
        BY <1>7 DEF GetTrace
      <3> HIDE DEF y
      <3> QED BY <3>1, <3>2
    <2>3. KnowsId'
      BY <2>1, <2>2 DEF EInv, KnowsId, Live, Active
    <2>4. ASSUME NEW i \in Live, Holder(traces[i].row) PROVE Holder(traces[i].row)'
      <3>1. CASE x.by = traces[i].row
        <4>1. x.id = i
          BY <3>1 DEF EInv, KnowsId
        <4> QED BY <2>1, <2>2, <3>1, <4>1 DEF Holder, Live
      <3>2. CASE x.by /= traces[i].row
        BY <2>1, <2>2, <2>4, <3>2 DEF Holder, Active
      <3> QED BY <3>1, <3>2
    <2>5. Lost' \subseteq Lost /\ NoneOwed'
      BY <1>0, <2>1, <2>3, <2>4, HandedOn
    <2>6. faults' >= faults
      BY <1>a, <2>1
    <2> QED BY <1>0, <2>3, <2>5, <2>6, NoMoreLost DEF EInv, XInv, TInv
  <1>8. ASSUME NEW x \in exports, Export(x) PROVE EInv'
    <2>1. /\ UNCHANGED <<calls, traces, onPromote, wiredSince, faults>>
          /\ exports' = exports \ {x}
      BY <1>8 DEF Export
    <2>2. /\ Len(delivered') = Len(delivered) + 1 /\ Len(delivered) \in Nat
          /\ delivered'[Len(delivered) + 1].by = x.by
          /\ \A k \in 1..Len(delivered) : delivered'[k] = delivered[k]
      BY <1>0, <1>8 DEF Export, TypeOK
    <2>3. KnowsId'
      BY <2>1 DEF EInv, KnowsId, Live, Active
    <2>4. ASSUME NEW i \in Live, Holder(traces[i].row) PROVE Holder(traces[i].row)'
      <3>1. CASE x.by = traces[i].row
        <4>1. Len(delivered) + 1 \in 1..Len(delivered')
          BY <2>2
        <4> QED BY <2>1, <2>2, <3>1, <4>1 DEF Holder
      <3>2. CASE \E k \in 1..Len(delivered) : delivered[k].by = traces[i].row
        <4>1. PICK k \in 1..Len(delivered) : delivered[k].by = traces[i].row
          BY <3>2
        <4>2. k \in 1..Len(delivered') /\ delivered'[k] = delivered[k]
          BY <2>2
        <4> QED BY <2>1, <4>1, <4>2 DEF Holder
      <3> QED BY <2>1, <2>4, <3>1, <3>2 DEF Holder, Active
    <2>5. Lost' \subseteq Lost /\ NoneOwed'
      BY <1>0, <2>1, <2>3, <2>4, HandedOn
    <2>6. faults' >= faults
      BY <1>a, <2>1
    <2> QED BY <1>0, <2>3, <2>5, <2>6, NoMoreLost DEF EInv, XInv, TInv
  <1> QED BY <1>1, <1>2, <1>3, <1>4, <1>5, <1>6, <1>7, <1>8, <1>b, <1>c, <1>d DEF Next, StoreStep

(* In a state of EInv, once everything has finished, what was not sent is  *)
(* lost.                                                                   *)
LEMMA EInvShows ==
  ASSUME EInv
  PROVE  EveryTraceIsSent
  <1> SUFFICES ASSUME Settled PROVE Cardinality(Unsent) <= faults
    BY DEF EveryTraceIsSent
  <1>1. exports = {} /\ \A c \in Callers : ~Active(c)
    BY DEF Settled, Active, NoCall
  <1>2. ASSUME NEW i \in Live, Holder(traces[i].row) PROVE \E g \in Exporters : Sent(g, i)
    <2>1. PICK k \in 1..Len(delivered) : delivered[k].by = traces[i].row
      BY <1>1, <1>2 DEF Holder
    <2>2. delivered \in Seq(Deliveries) /\ delivered[k].row = delivered[k].by
      BY DEF EInv, XInv, TInv, TypeOK, SameRow
    <2>3. delivered[k] \in Deliveries /\ DOMAIN delivered = 1..Len(delivered)
      BY <2>2
    <2> QED BY <2>1, <2>2, <2>3 DEF Deliveries, Sent
  <1>3. Unsent \in SUBSET Lost
    BY <1>2 DEF Unsent, Lost, Owed, OwedRow
  <1>4. /\ IsFiniteSet(Lost) /\ Cardinality(Lost) <= faults /\ faults \in Nat
    BY StoreAssumption DEF EInv, FewLost, XInv, TInv, TypeOK
  <1>5. /\ IsFiniteSet(Unsent) /\ Cardinality(Unsent) <= Cardinality(Lost)
        /\ Cardinality(Unsent) \in Nat /\ Cardinality(Lost) \in Nat
    BY <1>3, <1>4, FS_Subset, FS_CardinalityType
  <1> QED BY <1>4, <1>5

(* Once everything has finished, each stored trace that was promoted since *)
(* an exporter was wired has been sent, but for at most one per failure,   *)
(* also when the callback is replaced or taken away between promoteAt's    *)
(* check and its call, and after restarts.                                 *)
THEOREM NothingIsLost ==
  ASSUME ~Repromote
  PROVE  Spec => []EveryTraceIsSent
  BY EInvShows, InitEInv, NextEInv, PTL DEF Spec
==============================================================================
