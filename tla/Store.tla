-------------------------------- MODULE Store --------------------------------
(***************************************************************************)
(* The trace store (sqlite/store.go) and the export wiring                  *)
(* (promolog.WireExporter): request handlers promote traces, the insert     *)
(* decides which promotion of a request ID wins, the winner calls the       *)
(* registered callback, and the callback starts a goroutine that reads the  *)
(* trace back and exports it.  Traces are deleted, reads and exports fail   *)
(* and the process restarts; the rows survive, the goroutines do not.       *)
(*                                                                         *)
(* One SQL statement is one step.  What a trace says is abstracted to its   *)
(* class; a row also has its AUTOINCREMENT key and its created_at.  A       *)
(* statement that fails, or an INSERT OR IGNORE that finds the request ID   *)
(* taken (ErrDuplicateTrace), changes nothing and is no step.               *)
(***************************************************************************)
EXTENDS Integers, Sequences, FiniteSets

CONSTANTS
  Ids,          \* request IDs
  Classes,      \* what the fields of a trace can be
  Callers,      \* goroutines that promote
  Exporters,    \* exporters WireExporter may be called with
  NoTrace,      \* no row with this request ID
  NoCallback,   \* the nil callback of a new Store
  MaxConns,     \* SetMaxOpenConns of the database handle; 0 is unlimited
  Repromote,    \* whether a request ID may be promoted after its row is gone
  Oldest,       \* bound: the earliest created_at PromoteAt is given
  MaxTime,      \* bound: hours on the clock, which starts at 0
  MaxRows,      \* bound: rows ever inserted
  MaxFaults,    \* bound: statements and exports that fail
  MaxCrashes    \* bound: restarts of the process

ASSUME StoreAssumption ==
  /\ NoCallback \notin Exporters
  /\ {MaxConns, MaxTime, MaxRows, MaxFaults, MaxCrashes} \subseteq Nat
  /\ Oldest \in Int /\ Oldest <= 0
  /\ Repromote \in BOOLEAN

Row == [row : 1..MaxRows, class : Classes, createdAt : Oldest..MaxTime]

ASSUME NoTraceAssumption == NoTrace \notin Row \cup Ids

VARIABLES
  now,         \* the hour
  traces,      \* the error_traces table: request_id -> row
  lastRow,     \* the last AUTOINCREMENT key given out
  used,        \* history: the request IDs ever inserted
  removed,     \* history: rows deleted through DeleteTrace
  calls,       \* where each promoteAt call is
  onPromote,   \* the Store's callback
  unset,       \* history: the calls between promoteAt's nil check and its call when the
               \* callback was last taken away
  wiredSince,  \* history: lastRow when an exporter was wired; MaxRows if not,
               \* or if the callback was taken away since
  exports,     \* the export goroutines
  delivered,   \* history: the exports made, in order
  busy,        \* connections held by open result sets
  faults,      \* failures so far
  crashes      \* restarts so far

storeVars == <<now, traces, lastRow, used, removed, calls, onPromote, unset, wiredSince,
               exports, delivered, busy, faults, crashes>>

NoCall   == [stage |-> "none", id |-> NoTrace, row |-> 0]
NotWired == [e \in Exporters |-> MaxRows]

Init ==
  /\ now = 0
  /\ traces = [i \in Ids |-> NoTrace]
  /\ lastRow = 0 /\ used = {} /\ removed = 0
  /\ calls = [c \in Callers |-> NoCall]
  /\ onPromote = NoCallback /\ unset = {} /\ wiredSince = NotWired
  /\ exports = {} /\ delivered = <<>>
  /\ busy = 0 /\ faults = 0 /\ crashes = 0

Live == {i \in Ids : traces[i] /= NoTrace}

(* A statement waits for a connection of the pool.                         *)
Free == MaxConns = 0 \/ busy < MaxConns

Tick ==
  /\ now < MaxTime
  /\ now' = now + 1
  /\ UNCHANGED <<traces, lastRow, used, removed, calls, onPromote, unset, wiredSince, exports,
                 delivered, busy, faults, crashes>>

-----------------------------------------------------------------------------
(* promoteAt: the insert, the nil check of the callback, and the call; the *)
(* two reads of s.onPromote are not synchronised with SetOnPromote.        *)

(* Mutant of Insert: RowsAffected is not looked at, a duplicate notifies.  *)
InsertUnchecked(c, i, k, t) ==
  /\ Free /\ calls[c] = NoCall /\ lastRow < MaxRows
  /\ i \in used => Repromote \/ traces[i] /= NoTrace
  /\ used' = used \cup {i}
  /\ IF traces[i] = NoTrace
     THEN /\ lastRow' = lastRow + 1
          /\ traces' = [traces EXCEPT ![i] = [row |-> lastRow + 1, class |-> k, createdAt |-> t]]
     ELSE UNCHANGED <<lastRow, traces>>
  /\ calls' = [calls EXCEPT ![c] = [stage |-> "inserted", id |-> i, row |-> traces'[i].row]]
  /\ UNCHANGED <<now, removed, onPromote, unset, wiredSince, exports, delivered, busy,
                 faults, crashes>>

Insert(c, i, k, t) ==
  /\ Free /\ calls[c] = NoCall /\ lastRow < MaxRows
  /\ traces[i] = NoTrace
  /\ i \in used => Repromote
  /\ lastRow' = lastRow + 1
  /\ used' = used \cup {i}
  /\ traces' = [traces EXCEPT ![i] = [row |-> lastRow + 1, class |-> k, createdAt |-> t]]
  /\ calls' = [calls EXCEPT ![c] = [stage |-> "inserted", id |-> i, row |-> lastRow + 1]]
  /\ UNCHANGED <<now, removed, onPromote, unset, wiredSince, exports, delivered, busy,
                 faults, crashes>>

Promote(c)   == \E i \in Ids, k \in Classes : Insert(c, i, k, now)
PromoteAt(c) == \E i \in Ids, k \in Classes, t \in Oldest..now : Insert(c, i, k, t)

(* Mutant of NotifyCheck: the callback is called without the nil check.    *)
NotifyUnchecked(c) ==
  /\ calls[c].stage = "inserted"
  /\ calls' = [calls EXCEPT ![c].stage = "notify"]
  /\ UNCHANGED <<now, traces, lastRow, used, removed, onPromote, unset, wiredSince, exports,
                 delivered, busy, faults, crashes>>

NotifyCheck(c) ==
  /\ calls[c].stage = "inserted"
  /\ calls' = [calls EXCEPT ![c] =
                 IF onPromote = NoCallback THEN NoCall ELSE [@ EXCEPT !.stage = "notify"]]
  /\ UNCHANGED <<now, traces, lastRow, used, removed, onPromote, unset, wiredSince, exports,
                 delivered, busy, faults, crashes>>

(* Mutant of NotifyCall: one export at a time, the rest is dropped.        *)
NotifyFirstOnly(c) ==
  /\ calls[c].stage = "notify" /\ onPromote /= NoCallback
  /\ exports' = IF exports /= {} THEN exports
                ELSE {[id |-> calls[c].id, by |-> calls[c].row,
                       exporter |-> onPromote, got |-> NoTrace]}
  /\ calls' = [calls EXCEPT ![c] = NoCall]
  /\ unset' = unset \ {c}
  /\ UNCHANGED <<now, traces, lastRow, used, removed, onPromote, wiredSince, delivered,
                 busy, faults, crashes>>

(* The callback of WireExporter starts one goroutine and returns.          *)
NotifyCall(c) ==
  /\ calls[c].stage = "notify" /\ onPromote /= NoCallback
  /\ exports' = exports \cup {[id |-> calls[c].id, by |-> calls[c].row,
                               exporter |-> onPromote, got |-> NoTrace]}
  /\ calls' = [calls EXCEPT ![c] = NoCall]
  /\ unset' = unset \ {c}
  /\ UNCHANGED <<now, traces, lastRow, used, removed, onPromote, wiredSince, delivered,
                 busy, faults, crashes>>

(* The callback is nil by now: the call panics.  The row stays, nobody     *)
(* exports it, and the panic ends the request that promoted (net/http      *)
(* recovers it) or, where nobody recovers, the process: then it is a Crash. *)
NotifyNil(c) ==
  /\ calls[c].stage = "notify" /\ onPromote = NoCallback
  /\ calls' = [calls EXCEPT ![c] = NoCall]
  /\ unset' = unset \ {c}
  /\ UNCHANGED <<now, traces, lastRow, used, removed, onPromote, wiredSince, exports,
                 delivered, busy, faults, crashes>>

(* SetOnPromote, through WireExporter: the new callback takes the place of *)
(* the registered one.                                                     *)
WireExporter(e) ==
  /\ onPromote /= e
  /\ onPromote' = e
  /\ wiredSince' = [wiredSince EXCEPT ![e] = IF @ = MaxRows THEN lastRow ELSE @]
  /\ UNCHANGED <<now, traces, lastRow, used, removed, calls, unset, exports, delivered,
                 busy, faults, crashes>>

(* SetOnPromote(nil): no exporter is wired any more.                       *)
Unwire ==
  /\ onPromote /= NoCallback
  /\ onPromote' = NoCallback /\ wiredSince' = NotWired
  /\ unset' = {c \in Callers : calls[c].stage = "notify"}
  /\ UNCHANGED <<now, traces, lastRow, used, removed, calls, exports, delivered, busy,
                 faults, crashes>>

-----------------------------------------------------------------------------
(* The export goroutine: getTrace (Store.Get), then Export.  It gives up   *)
(* when the trace is gone or either call fails.                            *)

GetTrace(x) ==
  /\ Free /\ x.got = NoTrace
  /\ exports' = IF traces[x.id] = NoTrace
                THEN exports \ {x}
                ELSE (exports \ {x}) \cup {[x EXCEPT !.got = traces[x.id]]}
  /\ UNCHANGED <<now, traces, lastRow, used, removed, calls, onPromote, unset, wiredSince,
                 delivered, busy, faults, crashes>>

Export(x) ==
  /\ x.got /= NoTrace
  /\ delivered' = Append(delivered, [exporter |-> x.exporter, row |-> x.got.row, by |-> x.by])
  /\ exports' = exports \ {x}
  /\ UNCHANGED <<now, traces, lastRow, used, removed, calls, onPromote, unset, wiredSince,
                 busy, faults, crashes>>

ExportFails(x) ==
  /\ faults < MaxFaults
  /\ faults' = faults + 1
  /\ exports' = exports \ {x}
  /\ UNCHANGED <<now, traces, lastRow, used, removed, calls, onPromote, unset, wiredSince,
                 delivered, busy, crashes>>

-----------------------------------------------------------------------------
DeleteTrace(i) ==
  /\ Free /\ traces[i] /= NoTrace
  /\ traces' = [traces EXCEPT ![i] = NoTrace]
  /\ removed' = removed + 1
  /\ UNCHANGED <<now, lastRow, used, calls, onPromote, unset, wiredSince, exports, delivered,
                 busy, faults, crashes>>

(* A restart: the table survives, everything in memory is lost, and the    *)
(* new process has no callback until it wires one.                         *)
Crash ==
  /\ crashes < MaxCrashes
  /\ crashes' = crashes + 1
  /\ calls' = [c \in Callers |-> NoCall]
  /\ onPromote' = NoCallback /\ unset' = {} /\ wiredSince' = NotWired
  /\ exports' = {} /\ busy' = 0
  /\ UNCHANGED <<now, traces, lastRow, used, removed, delivered, faults>>

(* Everything but a restart, which also hits whatever a module adds here.  *)
StoreStep ==
  \/ Tick
  \/ \E c \in Callers : \/ Promote(c) \/ PromoteAt(c)
                       \/ NotifyCheck(c) \/ NotifyCall(c) \/ NotifyNil(c)
  \/ Unwire \/ \E e \in Exporters : WireExporter(e)
  \/ \E x \in exports : GetTrace(x) \/ Export(x) \/ ExportFails(x)
  \/ \E i \in Ids : DeleteTrace(i)

Next == StoreStep \/ Crash

Spec == Init /\ [][Next]_storeVars

(* Goroutines that can run do run, and one that waits for a connection     *)
(* gets its turn if there is one again and again (database/sql serves the  *)
(* waiting requests in order); nobody has to promote, wire or delete.      *)
StoreFairness ==
  /\ \A c \in Callers : /\ WF_storeVars(NotifyCheck(c))
                        /\ WF_storeVars(NotifyCall(c) \/ NotifyNil(c))
  /\ SF_storeVars(\E x \in exports : GetTrace(x))
  /\ WF_storeVars(\E x \in exports : Export(x))

-----------------------------------------------------------------------------
CallStates == [stage : {"none", "inserted", "notify"}, id : Ids \cup {NoTrace},
               row : 0..MaxRows]
ExportStates == [id : Ids, by : 1..MaxRows, exporter : Exporters,
                 got : Row \cup {NoTrace}]
Deliveries == [exporter : Exporters, row : 1..MaxRows, by : 1..MaxRows]

(* Type invariant of the store.                                            *)
TypeOK ==
  /\ now \in 0..MaxTime
  /\ traces \in [Ids -> Row \cup {NoTrace}]
  /\ lastRow \in 0..MaxRows /\ removed \in Nat
  /\ used \subseteq Ids
  /\ calls \in [Callers -> CallStates]
  /\ onPromote \in Exporters \cup {NoCallback} /\ unset \subseteq Callers
  /\ wiredSince \in [Exporters -> 0..MaxRows]
  /\ exports \subseteq ExportStates
  /\ delivered \in Seq(Deliveries)
  /\ busy \in Nat /\ faults \in 0..MaxFaults /\ crashes \in 0..MaxCrashes

Settled == exports = {} /\ \A c \in Callers : calls[c] = NoCall

(* No trace is exported twice, and a goroutine exports the trace of the    *)
(* promotion that started it, never a later trace under the same request   *)
(* ID: duplicates, deletions, rewiring and restarts notwithstanding, as    *)
(* long as a request ID is not promoted again after its row is gone.       *)
(* promoteAt calls onPromote once per new row; WireExporter reads back by  *)
(* request ID only.                                                        *)
ExportedOnce ==
  /\ \A d \in DOMAIN delivered : delivered[d].row = delivered[d].by
  /\ \A d1, d2 \in DOMAIN delivered : delivered[d1].row = delivered[d2].row => d1 = d2

(* The two reads of s.onPromote may see different callbacks, but promoteAt *)
(* finds a nil one, and panics, only in a call that was already past its   *)
(* nil check when SetOnPromote(nil) took the callback away: never because  *)
(* none had been registered yet, nor in a later promotion.                 *)
NilOnlyIfUnset ==
  \A c \in Callers : calls[c].stage = "notify" /\ onPromote = NoCallback => c \in unset

(* A row promoted after the exporter was wired, and the exporter sent it.  *)
Owed(e, i) == traces[i] /= NoTrace /\ traces[i].row > wiredSince[e]
Sent(e, i) ==
  \E d \in DOMAIN delivered :
    delivered[d].exporter = e /\ delivered[d].row = traces[i].row

Unsent == {i \in Live : (\E e \in Exporters : Owed(e, i)) /\ \A e \in Exporters : ~Sent(e, i)}

(* Once everything started has finished, every stored trace promoted since *)
(* an exporter was wired has been sent, by that exporter or by one wired   *)
(* later in its place, also when the callback changed between promoteAt's  *)
(* check and its call; and each failure of a statement or an export costs  *)
(* at most one trace.  A restart and SetOnPromote(nil) unwire: they lose   *)
(* at most what was promoted before the next WireExporter.                 *)
EveryTraceIsSent == Settled => Cardinality(Unsent) <= faults

(* What the comment of WireExporter promises for several exporters: each   *)
(* of them is sent every stored trace promoted since it was wired.         *)
EveryWiredExporterIsSent ==
  Settled /\ faults = 0 /\ crashes = 0 =>
    \A e \in Exporters, i \in Ids : Owed(e, i) => Sent(e, i)

Exported(r) == \E d \in DOMAIN delivered : delivered[d].row = r
Stored(r)   == \E i \in Live : traces[i].row = r

(* A promotion that found a callback is exported in the end, unless the    *)
(* trace is deleted first, something fails, or the callback is taken away  *)
(* before the call: goroutines that export do not hang on each other, on   *)
(* their exporter, or on connections that others hold for a while.         *)
ExportedEventually ==
  \A c \in Callers, r \in 1..MaxRows :
    LET Called == calls[c].stage = "notify" /\ calls[c].row = r
    IN  Called ~> (\/ Exported(r) \/ ~Stored(r) \/ faults > 0 \/ crashes > 0
                   \/ Called /\ onPromote = NoCallback)
==============================================================================
