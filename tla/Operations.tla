----------------------------- MODULE Operations ------------------------------
(***************************************************************************)
(* Requests and detached operations (correlation.go, handler.go,            *)
(* operation.go, and the contexts of promolog.go): requests arrive, call    *)
(* other services, start operations, which outlive them and may be nested;  *)
(* everybody logs through the slog handler; traces of both are promoted.    *)
(*                                                                         *)
(* A context is what correlationMiddleware or StartOperation returned, or   *)
(* the background context, number 1.  Whoever got hold of one may use it at *)
(* any later time.  A buffer is the log of its lines: Buffer.tla shows that *)
(* the real one answers with the digest of that log.  Of the tags there is  *)
(* one key, and its value says how many lines had been logged.              *)
(***************************************************************************)
EXTENDS Correlation, Sequences

CONSTANTS
  MaxContexts,  \* bound: contexts, with the background
  RecordIds,    \* the operation_id that a record's own attributes may hold
  MaxEvents     \* bound: requests sent, lines logged, tags set and promotions, together

ASSUME BoundsAssumption ==
  {MaxContexts, MaxEvents} \subseteq Nat /\ RecordIds \subseteq ClientIds \cup {None}

VARIABLES
  minted,     \* IDs generated so far
  contexts,   \* the contexts, as the values they carry
  operations, \* the operations started
  buffers,    \* their buffers and those of the requests
  sent,       \* the requests sent to other services, and by whom
  logged,     \* history: the context of every line logged
  events,     \* what was sent, logged, tagged and promoted so far
  calls,      \* the promotions that are running
  stored      \* the traces in the store

vars == <<minted, contexts, operations, buffers, sent, logged, events, calls, stored>>

NewBuffer  == [entries |-> <<>>, tag |-> 0]
Background == [req |-> None, parent |-> None, op |-> 0, buf |-> 0,
               by |-> NoHeaders, from |-> 0]

Init ==
  /\ minted = 0
  /\ contexts = <<Background>>
  /\ operations = <<>> /\ buffers = <<>>
  /\ sent = {} /\ logged = <<>>
  /\ events = 0 /\ calls = {} /\ stored = {}

Event == events < MaxEvents /\ events' = events + 1

-----------------------------------------------------------------------------
(* A request arrives, from a client or from a service.  What was sent is   *)
(* received any number of times: transports retry.                         *)

ClientHeaders == [id : ClientIds \cup {None}, parent : ClientIds \cup {None}]

Receive(h, from) ==
  /\ Len(contexts) < MaxContexts
  /\ LET new == Correlate(h, minted + 1)
     IN  contexts' = Append(contexts, [req |-> new.req, parent |-> new.parent, op |-> 0,
                                       buf |-> Len(buffers) + 1, by |-> h, from |-> from])
  /\ minted' = IF BothGiven(h) THEN minted ELSE minted + 1
  /\ buffers' = Append(buffers, NewBuffer)
  /\ UNCHANGED <<operations, sent, logged, events, calls, stored>>

(* A request is sent from context c.  The headers it has already are none, *)
(* or, if it is a proxy that sends it, the incoming ones.                  *)
Send(c, h) ==
  /\ Event
  /\ sent' = sent \cup {[headers |-> RoundTrip(contexts[c].req, h), from |-> c]}
  /\ UNCHANGED <<minted, contexts, operations, buffers, logged, calls, stored>>

(* Mutant of StartOperation: the operation's ID is that of its request.    *)
StartSharingId(c, attr) ==
  /\ Len(contexts) < MaxContexts
  /\ operations' = Append(operations, [id |-> contexts[c].req, origin |-> contexts[c].req,
                                       parent |-> contexts[c].parent, attr |-> attr,
                                       buf |-> Len(buffers) + 1])
  /\ buffers' = Append(buffers, NewBuffer)
  /\ contexts' = Append(contexts, [contexts[c] EXCEPT !.op = Len(operations) + 1,
                                                      !.buf = Len(buffers) + 1])
  /\ UNCHANGED <<minted, sent, logged, events, calls, stored>>

(* Mutant of StartOperation: the new context keeps the buffer of the old.  *)
StartWithoutBuffer(c, attr) ==
  /\ Len(contexts) < MaxContexts
  /\ minted' = minted + 1
  /\ operations' = Append(operations, [id |-> minted + 1, origin |-> contexts[c].req,
                                       parent |-> contexts[c].parent, attr |-> attr,
                                       buf |-> Len(buffers) + 1])
  /\ buffers' = Append(buffers, NewBuffer)
  /\ contexts' = Append(contexts, [contexts[c] EXCEPT !.op = Len(operations) + 1])
  /\ UNCHANGED <<sent, logged, events, calls, stored>>

(* StartOperation, in a request, in another operation or in neither; attr  *)
(* says whether the operation is given a value for the tag.                *)
StartOperation(c, attr) ==
  /\ Len(contexts) < MaxContexts
  /\ minted' = minted + 1
  /\ operations' = Append(operations, [id |-> minted + 1, origin |-> contexts[c].req,
                                       parent |-> contexts[c].parent, attr |-> attr,
                                       buf |-> Len(buffers) + 1])
  /\ buffers' = Append(buffers, NewBuffer)
  /\ contexts' = Append(contexts, [contexts[c] EXCEPT !.op = Len(operations) + 1,
                                                      !.buf = Len(buffers) + 1])
  /\ UNCHANGED <<sent, logged, events, calls, stored>>

-----------------------------------------------------------------------------
(* Logging.                                                                *)

(* What WithAttrs can have bound a logger to: a request, or none.          *)
Bindings == {contexts[c].req : c \in DOMAIN contexts}

(* Handler.Handle, with a logger bound to a request ID or to none, of a    *)
(* record with or without an operation_id of its own.  The request ID only *)
(* decides whether the record is buffered: the buffer is the context's.    *)
Handle(c, bound, attr) ==
  LET ctx == contexts[c]
      op  == IF ctx.op /= 0 THEN operations[ctx.op].id ELSE attr
  IN  /\ Event
      /\ logged' = Append(logged, c)
      /\ buffers' = IF (bound /= None \/ ctx.req /= None \/ ctx.op /= 0) /\ ctx.buf /= 0
                    THEN [buffers EXCEPT ![ctx.buf].entries =
                            Append(@, [line |-> Len(logged) + 1, op |-> op])]
                    ELSE buffers
      /\ UNCHANGED <<minted, contexts, operations, sent, calls, stored>>

(* GetBuffer(ctx).Tag, in an operation; Buffer.tla has that of a request.  *)
Tag(c) ==
  LET b == contexts[c].buf
  IN  /\ Event
      /\ contexts[c].op /= 0 /\ b /= 0 /\ buffers[b].tag = 0
      /\ buffers' = [buffers EXCEPT ![b].tag = Len(logged) + 1]
      /\ UNCHANGED <<minted, contexts, operations, sent, logged, calls, stored>>

-----------------------------------------------------------------------------
(* Promotion.                                                              *)

(* INSERT OR IGNORE: the first trace of a key stays.                       *)
Insert(t) ==
  stored' = IF \E s \in stored : s.key = t.key THEN stored ELSE stored \cup {t}

(* promoteFromRequest in the context the middleware made; Buffer.tla has   *)
(* its four reads one by one.                                              *)
PromoteRequest(c) ==
  LET ctx == contexts[c]
  IN  /\ Event
      /\ ctx.op = 0 /\ ctx.req /= None /\ ctx.buf /= 0
      /\ Insert([key |-> ctx.req, parent |-> ctx.parent, op |-> 0, origin |-> None,
                 tag |-> buffers[ctx.buf].tag, entries |-> buffers[ctx.buf].entries,
                 by |-> c, since |-> Len(logged), upTo |-> Len(logged)])
      /\ UNCHANGED <<minted, contexts, operations, buffers, sent, logged, calls>>

FromStart == -1  \* the value given to StartOperation

(* Mutant of ReadTags: the value given at the start overrides the tag.     *)
ReadTagsAttrFirst(c) ==
  LET o == operations[contexts[c].op]
      t == buffers[o.buf].tag
  IN  /\ Event
      /\ contexts[c].op /= 0
      /\ calls' = calls \cup {[n |-> events, by |-> c, since |-> Len(logged),
                               tag |-> IF o.attr THEN FromStart ELSE t,
                               entries |-> <<>>, upTo |-> -1]}
      /\ UNCHANGED <<minted, contexts, operations, buffers, sent, logged, stored>>

(* PromoteOperation: ErrNoOperation without one; Operation.trace reads the *)
(* tags, adds those given at the start that are not set, ...               *)
ReadTags(c) ==
  LET o == operations[contexts[c].op]
      t == buffers[o.buf].tag
  IN  /\ Event
      /\ contexts[c].op /= 0
      /\ calls' = calls \cup {[n |-> events, by |-> c, since |-> Len(logged),
                               tag |-> IF t = 0 /\ o.attr THEN FromStart ELSE t,
                               entries |-> <<>>, upTo |-> -1]}
      /\ UNCHANGED <<minted, contexts, operations, buffers, sent, logged, stored>>

(* ... then reads the entries, ...                                         *)
ReadEntries(x) ==
  /\ x.upTo = -1
  /\ calls' = (calls \ {x}) \cup
       {[x EXCEPT !.entries = buffers[operations[contexts[x.by].op].buf].entries,
                  !.upTo = Len(logged)]}
  /\ UNCHANGED <<minted, contexts, operations, buffers, sent, logged, events, stored>>

(* ... and the trace is stored under the ID of the operation.              *)
PromoteOperation(x) ==
  LET o == operations[contexts[x.by].op]
  IN  /\ x.upTo /= -1
      /\ Insert([key |-> o.id, parent |-> o.parent, op |-> contexts[x.by].op,
                 origin |-> o.origin, tag |-> x.tag, entries |-> x.entries,
                 by |-> x.by, since |-> x.since, upTo |-> x.upTo])
      /\ calls' = calls \ {x}
      /\ UNCHANGED <<minted, contexts, operations, buffers, sent, logged, events>>

-----------------------------------------------------------------------------
ContextStep(c) ==
  \/ \E h \in {NoHeaders, contexts[c].by} : Send(c, h)
  \/ \E attr \in BOOLEAN : StartOperation(c, attr)
  \/ \E bound \in Bindings, attr \in RecordIds : Handle(c, bound, attr)
  \/ Tag(c)
  \/ PromoteRequest(c)
  \/ ReadTags(c)

Next ==
  \/ \E h \in ClientHeaders : Receive(h, 0)
  \/ \E m \in sent : Receive(m.headers, m.from)
  \/ \E c \in DOMAIN contexts : ContextStep(c)
  \/ \E x \in calls : ReadEntries(x) \/ PromoteOperation(x)

Spec == Init /\ [][Next]_vars

-----------------------------------------------------------------------------
Contexts   == [req : IdOrNone, parent : IdOrNone, op : Nat, buf : Nat,
               by : Headers, from : Nat]
Operation  == [id : Generated, origin : IdOrNone, parent : IdOrNone, attr : BOOLEAN, buf : Nat]
Entry      == [line : Nat, op : IdOrNone]
Buffers    == [entries : Seq(Entry), tag : Nat]
Calls      == [n : Nat, by : Nat, since : Nat, tag : Nat \cup {FromStart},
               entries : Seq(Entry), upTo : Nat \cup {-1}]
Traces     == [key : IdOrNone, parent : IdOrNone, op : Nat, origin : IdOrNone,
               tag : Nat \cup {FromStart}, entries : Seq(Entry),
               by : Nat, since : Nat, upTo : Nat]

(* Type invariant: in particular every context's operation and buffer are  *)
(* there, so that no handler and no promotion works with a nil.            *)
TypeOK ==
  /\ minted \in Nat
  /\ contexts \in Seq(Contexts)
  /\ operations \in Seq(Operation)
  /\ buffers \in Seq(Buffers)
  /\ sent \subseteq [headers : Headers, from : Nat]
  /\ logged \in Seq(Nat)
  /\ events \in 0..MaxEvents
  /\ calls \subseteq Calls
  /\ stored \subseteq Traces
  /\ \A c \in DOMAIN contexts :
       /\ contexts[c].op \in 0..Len(operations)
       /\ contexts[c].buf \in 0..Len(buffers)

Requests == {c \in DOMAIN contexts : contexts[c].op = 0 /\ c /= 1}

(* The lines logged on behalf of what was promoted from context c, in the  *)
(* context itself or in another one of the same operation.                 *)
OnBehalfOf(c, d) == IF contexts[c].op = 0 THEN d = c ELSE contexts[d].op = contexts[c].op

LinesFor(c, upTo) == {n \in 1..upTo : OnBehalfOf(c, logged[n])}

InOrder(entries, lines) ==
  /\ {entries[n].line : n \in DOMAIN entries} = lines
  /\ \A m, n \in DOMAIN entries : m < n => entries[m].line < entries[n].line

(* A trace shows exactly the lines logged on behalf of its request or its  *)
(* operation until it was read, in order: none of the operations a request *)
(* started, none of an operation inside the operation, none of another     *)
(* request whose logger was used, and none lost because the logger was     *)
(* bound to nothing or the request had long ended.  Lines of an operation  *)
(* carry its ID, whatever operation_id the record had (handler.go:76).     *)
TracesAreSeparate ==
  \A t \in stored :
    /\ InOrder(t.entries, LinesFor(t.by, t.upTo))
    /\ t.op /= 0 => \A n \in DOMAIN t.entries : t.entries[n].op = t.key

(* Requests and operations share the key of the store, and the first trace *)
(* of a key shuts out the others.  No operation has the key of another or  *)
(* of a request, and two requests have the same one only if one of them    *)
(* came with both headers: also when what a service sends is delivered     *)
(* twice and when requests are sent from inside operations.                *)
KeysAreUnique ==
  /\ \A o1, o2 \in DOMAIN operations : operations[o1].id = operations[o2].id => o1 = o2
  /\ \A o \in DOMAIN operations, c \in DOMAIN contexts : operations[o].id /= contexts[c].req
  /\ \A c, d \in Requests :
       c /= d /\ contexts[c].req = contexts[d].req =>
         BothGiven(contexts[c].by) \/ BothGiven(contexts[d].by)

(* The links between traces are true.  A service called from a request, or *)
(* from an operation it started, has the caller as its parent and an ID of *)
(* its own ("The ParentRequestID field on Trace links them", README 451);  *)
(* following parents goes back in time; and an operation's trace names the *)
(* request it came from, also through other operations, and its parent.    *)
(* X-Parent-Request-ID, which a client or a proxy passes on, overrides it. *)
LinksAreTrue ==
  /\ \A c \in Requests :
       LET d == contexts[c].from
       IN  d /= 0 /\ contexts[c].by.parent = None =>
             /\ contexts[c].parent = contexts[d].req
             /\ contexts[c].req /= contexts[d].req
  /\ \A c \in Requests :
       contexts[c].parent \in Generated /\ ~BothGiven(contexts[c].by) =>
         /\ contexts[c].parent < contexts[c].req
         /\ \E d \in Requests : d < c /\ contexts[d].req = contexts[c].parent
  /\ \A t \in stored : t.op /= 0 /\ t.origin /= None =>
       \E d \in Requests : contexts[d].req = t.origin /\ contexts[d].parent = t.parent

(* The tag in an operation's trace: set before the last line that preceded *)
(* the promotion, it is shown and not the value given at the start; and a  *)
(* tag is never shown without the lines logged before it was set, although *)
(* tags and entries are read one after the other.                          *)
TagsAreFresh ==
  \A t \in stored : t.op /= 0 =>
    LET tag == buffers[operations[t.op].buf].tag
    IN  /\ tag /= 0 /\ tag <= t.since => t.tag = tag
        /\ t.tag > 0 => t.tag <= t.upTo + 1
==============================================================================
