--------------------------- MODULE OperationsProofs --------------------------
(***************************************************************************)
(* Proofs about Operations, for every set of client IDs and every bound:    *)
(* types, whose keys are equal, that the links between traces are true, which *)
(* tag an operation's trace shows, and which lines a trace shows.            *)
(***************************************************************************)
EXTENDS Operations, TLAPS

LEMMA Appended ==
  ASSUME NEW S, NEW s \in Seq(S), NEW x \in S
  PROVE  /\ Append(s, x) \in Seq(S) /\ Len(s) \in Nat
         /\ Len(Append(s, x)) = Len(s) + 1 /\ Append(s, x)[Len(s) + 1] = x
         /\ \A i \in 1..Len(s) : Append(s, x)[i] = s[i] /\ i /= Len(s) + 1
         /\ \A i : i \in 1..(Len(s) + 1) <=> i \in 1..Len(s) \/ i = Len(s) + 1
  OBVIOUS

-----------------------------------------------------------------------------
(* Types.  An operation's buffer exists, and a call is one of an operation. *)
TypeInv ==
  /\ TypeOK
  /\ \A c \in 1..Len(contexts) :
       contexts[c].op \in 0..Len(operations) /\ contexts[c].buf \in 0..Len(buffers)
  /\ \A o \in 1..Len(operations) : operations[o].buf \in 1..Len(buffers)
  /\ \A x \in calls : x.by \in 1..Len(contexts) /\ contexts[x.by].op /= 0

LEMMA InitTypes == Init => TypeInv
  BY BoundsAssumption, IdAssumption
  DEF Init, TypeInv, TypeOK, Background, Contexts, IdOrNone, NoHeaders, Headers, Generated

(* What is appended to the contexts and the buffers.                       *)
LEMMA NewContext ==
  ASSUME TypeInv, NEW x \in Contexts, NEW k \in Nat,
         contexts' = Append(contexts, x), buffers' = Append(buffers, NewBuffer),
         \/ operations' = operations /\ k = Len(operations)
         \/ \E o \in Operation :
              /\ operations' = Append(operations, o)
              /\ o.buf = Len(buffers) + 1 /\ k = Len(operations) + 1,
         x.op \in 0..k, x.buf \in 0..(Len(buffers) + 1),
         UNCHANGED <<sent, logged, events, calls, stored>>, minted' \in Nat
  PROVE  TypeInv'
  <1>1. /\ contexts \in Seq(Contexts) /\ operations \in Seq(Operation) /\ buffers \in Seq(Buffers)
        /\ NewBuffer \in Buffers
    BY DEF TypeInv, TypeOK, NewBuffer, Buffers
  <1>2. /\ contexts' \in Seq(Contexts) /\ Len(contexts') = Len(contexts) + 1
        /\ contexts'[Len(contexts) + 1] = x
        /\ \A i \in 1..Len(contexts) : contexts'[i] = contexts[i] /\ i \in 1..Len(contexts')
        /\ \A i \in 1..Len(contexts') : i \in 1..Len(contexts) \/ i = Len(contexts) + 1
    BY <1>1, Appended
  <1>3. buffers' \in Seq(Buffers) /\ Len(buffers') = Len(buffers) + 1 /\ Len(buffers) \in Nat
    BY <1>1, Appended
  <1>4. /\ operations' \in Seq(Operation) /\ Len(operations') = k /\ Len(operations) \in Nat
        /\ k >= Len(operations)
        /\ \A o \in 1..Len(operations') :
             \/ o \in 1..Len(operations) /\ operations'[o] = operations[o]
             \/ operations'[o].buf = Len(buffers) + 1
    <2>1. CASE operations' = operations /\ k = Len(operations)
      BY <2>1, <1>1
    <2>2. ASSUME NEW o \in Operation, operations' = Append(operations, o),
                 o.buf = Len(buffers) + 1, k = Len(operations) + 1
          PROVE  /\ operations' \in Seq(Operation) /\ Len(operations') = k
                 /\ Len(operations) \in Nat /\ k >= Len(operations)
                 /\ \A i \in 1..Len(operations') :
                      \/ i \in 1..Len(operations) /\ operations'[i] = operations[i]
                      \/ operations'[i].buf = Len(buffers) + 1
      BY <2>2, <1>1, Appended
    <2> QED BY <2>1, <2>2
  <1>5. \A c \in 1..Len(contexts') :
          contexts'[c].op \in 0..Len(operations') /\ contexts'[c].buf \in 0..Len(buffers')
    BY <1>2, <1>3, <1>4 DEF TypeInv
  <1>6. \A o \in 1..Len(operations') : operations'[o].buf \in 1..Len(buffers')
    <2>1. 1..Len(buffers) \subseteq 1..Len(buffers') /\ Len(buffers) + 1 \in 1..Len(buffers')
      BY <1>3
    <2> QED BY <2>1, <1>4 DEF TypeInv
  <1>7. \A y \in calls' : y.by \in 1..Len(contexts') /\ contexts'[y.by].op /= 0
    BY <1>2 DEF TypeInv
  <1>8. DOMAIN contexts' = 1..Len(contexts')
    BY <1>2
  <1> QED BY <1>2, <1>3, <1>4, <1>5, <1>6, <1>7, <1>8 DEF TypeInv, TypeOK

LEMMA ReceiveTypes ==
  ASSUME TypeInv, NEW h \in Headers, NEW f \in Nat, Receive(h, f)
  PROVE  TypeInv'
  <1> DEFINE new == Correlate(h, minted + 1)
             x == [req |-> new.req, parent |-> new.parent, op |-> 0,
                   buf |-> Len(buffers) + 1, by |-> h, from |-> f]
  <1>1. minted \in Nat /\ Len(buffers) \in Nat /\ Len(operations) \in Nat
    BY DEF TypeInv, TypeOK
  <1>2. new.req \in IdOrNone /\ new.parent \in IdOrNone
    BY <1>1 DEF Correlate, Headers, IdOrNone, Generated
  <1> HIDE DEF new
  <1>3. x \in Contexts /\ x.op \in 0..Len(operations) /\ x.buf \in 0..(Len(buffers) + 1)
    BY <1>1, <1>2 DEF Contexts
  <1>4. /\ contexts' = Append(contexts, x) /\ buffers' = Append(buffers, NewBuffer)
        /\ operations' = operations /\ minted' \in Nat
        /\ UNCHANGED <<sent, logged, events, calls, stored>>
    BY <1>1 DEF Receive, new
  <1> HIDE DEF x
  <1> QED BY <1>1, <1>3, <1>4, NewContext

(* What StartOperation appends.                                            *)
NewOperation(c, a) ==
  [id |-> minted + 1, origin |-> contexts[c].req, parent |-> contexts[c].parent,
   attr |-> a, buf |-> Len(buffers) + 1]

Within(y, k, m) == [y EXCEPT !.op = k, !.buf = m]

Inside(c) == Within(contexts[c], Len(operations) + 1, Len(buffers) + 1)

LEMMA Nested ==
  ASSUME NEW y \in Contexts, NEW k \in Nat, NEW m \in Nat
  PROVE  /\ Within(y, k, m) \in Contexts /\ Within(y, k, m).op = k /\ Within(y, k, m).buf = m
         /\ Within(y, k, m).req = y.req /\ Within(y, k, m).parent = y.parent
         /\ Within(y, k, m).by = y.by /\ Within(y, k, m).from = y.from
  BY DEF Contexts, Within

LEMMA Started ==
  ASSUME TypeInv, NEW c \in 1..Len(contexts), NEW a \in BOOLEAN, StartOperation(c, a)
  PROVE  /\ NewOperation(c, a) \in Operation /\ Inside(c) \in Contexts
         /\ NewOperation(c, a).id = minted + 1 /\ NewOperation(c, a).buf = Len(buffers) + 1
         /\ NewOperation(c, a).origin = contexts[c].req
         /\ NewOperation(c, a).parent = contexts[c].parent
         /\ Inside(c).op = Len(operations) + 1 /\ Inside(c).buf = Len(buffers) + 1
         /\ Inside(c).req = contexts[c].req /\ Inside(c).parent = contexts[c].parent
         /\ Inside(c).by = contexts[c].by /\ Inside(c).from = contexts[c].from
         /\ operations' = Append(operations, NewOperation(c, a))
         /\ contexts' = Append(contexts, Inside(c))
         /\ buffers' = Append(buffers, NewBuffer) /\ minted' = minted + 1
         /\ UNCHANGED <<sent, logged, events, calls, stored>>
  <1>1. /\ contexts[c] \in Contexts
        /\ minted \in Nat /\ Len(buffers) + 1 \in Nat /\ Len(operations) + 1 \in Nat
    BY DEF TypeInv, TypeOK
  <1>2. /\ NewOperation(c, a) \in Operation
        /\ NewOperation(c, a).id = minted + 1 /\ NewOperation(c, a).buf = Len(buffers) + 1
        /\ NewOperation(c, a).origin = contexts[c].req
        /\ NewOperation(c, a).parent = contexts[c].parent
    BY <1>1 DEF Contexts, Operation, Generated, NewOperation
  <1>3. /\ Inside(c) \in Contexts
        /\ Inside(c).op = Len(operations) + 1 /\ Inside(c).buf = Len(buffers) + 1
        /\ Inside(c).req = contexts[c].req /\ Inside(c).parent = contexts[c].parent
        /\ Inside(c).by = contexts[c].by /\ Inside(c).from = contexts[c].from
    <2> DEFINE k == Len(operations) + 1
               m == Len(buffers) + 1
               y == contexts[c]
    <2>1. k \in Nat /\ m \in Nat /\ y \in Contexts
      BY <1>1
    <2>2. Inside(c) = Within(y, k, m)
      BY DEF Inside
    <2> HIDE DEF k, m, y
    <2>3. Within(y, k, m) \in Contexts
      BY <2>1, Nested
    <2>4. Within(y, k, m).op = k
      BY <2>1, Nested
    <2>5. Within(y, k, m).buf = m
      BY <2>1, Nested
    <2>6. Within(y, k, m).req = y.req /\ Within(y, k, m).parent = y.parent
      BY <2>1, Nested
    <2>7. Within(y, k, m).by = y.by /\ Within(y, k, m).from = y.from
      BY <2>1, Nested
    <2> QED BY <2>2, <2>3, <2>4, <2>5, <2>6, <2>7 DEF k, m, y
  <1> QED BY <1>2, <1>3 DEF StartOperation, NewOperation, Inside, Within

LEMMA StartTypes ==
  ASSUME TypeInv, NEW c \in 1..Len(contexts), NEW a \in BOOLEAN, StartOperation(c, a)
  PROVE  TypeInv'
  <1>1. minted \in Nat /\ Len(buffers) \in Nat /\ Len(operations) \in Nat
    BY DEF TypeInv, TypeOK
  <1>2. /\ NewOperation(c, a) \in Operation /\ Inside(c) \in Contexts
        /\ NewOperation(c, a).buf = Len(buffers) + 1
        /\ Inside(c).op = Len(operations) + 1 /\ Inside(c).buf = Len(buffers) + 1
        /\ operations' = Append(operations, NewOperation(c, a))
        /\ contexts' = Append(contexts, Inside(c))
        /\ buffers' = Append(buffers, NewBuffer) /\ minted' = minted + 1
        /\ UNCHANGED <<sent, logged, events, calls, stored>>
    BY Started
  <1>3. minted' \in Nat /\ Len(operations) + 1 \in Nat
        /\ Inside(c).op \in 0..(Len(operations) + 1) /\ Inside(c).buf \in 0..(Len(buffers) + 1)
    BY <1>1, <1>2
  <1> QED BY <1>1, <1>2, <1>3, NewContext

(* Steps that start no request and no operation.                           *)
LEMMA SameContexts ==
  ASSUME TypeInv, UNCHANGED <<minted, contexts, operations>>,
         buffers' \in Seq(Buffers), Len(buffers') = Len(buffers),
         sent' \subseteq [headers : Headers, from : Nat], logged' \in Seq(Nat),
         events' \in 0..MaxEvents, calls' \subseteq Calls, stored' \subseteq Traces,
         \A x \in calls' : x.by \in 1..Len(contexts) /\ contexts[x.by].op /= 0
  PROVE  TypeInv'
  BY DEF TypeInv, TypeOK

(* A line or a tag in a buffer.                                            *)
LEMMA BufferTypes ==
  ASSUME TypeInv, NEW b \in 1..Len(buffers), NEW x \in Buffers,
         buffers' = [buffers EXCEPT ![b] = x]
  PROVE  buffers' \in Seq(Buffers) /\ Len(buffers') = Len(buffers)
  <1>1. buffers \in Seq(Buffers)
    BY DEF TypeInv, TypeOK
  <1> QED BY <1>1

LEMMA HandleTypes ==
  ASSUME TypeInv, NEW c \in 1..Len(contexts), NEW bound, NEW attr \in RecordIds,
         Handle(c, bound, attr)
  PROVE  TypeInv'
  <1> DEFINE ctx == contexts[c]
             op  == IF ctx.op /= 0 THEN operations[ctx.op].id ELSE attr
             e   == [line |-> Len(logged) + 1, op |-> op]
             x   == [buffers[ctx.buf] EXCEPT !.entries = Append(@, e)]
  <1>1. /\ contexts \in Seq(Contexts) /\ operations \in Seq(Operation)
        /\ buffers \in Seq(Buffers) /\ logged \in Seq(Nat) /\ events \in Nat /\ MaxEvents \in Nat
        /\ ctx.op \in 0..Len(operations) /\ ctx.buf \in 0..Len(buffers)
    BY BoundsAssumption DEF TypeInv, TypeOK
  <1>2. logged' = Append(logged, c) /\ events' = events + 1 /\ events < MaxEvents
        /\ UNCHANGED <<minted, contexts, operations, sent, calls, stored>>
    BY DEF Handle, Event
  <1>3. logged' \in Seq(Nat) /\ events' \in 0..MaxEvents
    BY <1>1, <1>2
  <1>4. op \in IdOrNone
    <2>1. ctx.op /= 0 => operations[ctx.op] \in Operation
      BY <1>1
    <2> QED BY <2>1, BoundsAssumption DEF Operation, IdOrNone
  <1>5. e \in Entry
    BY <1>1, <1>4 DEF Entry
  <1>6. ASSUME ctx.buf /= 0 PROVE ctx.buf \in 1..Len(buffers) /\ x \in Buffers
    <2>1. ctx.buf \in 1..Len(buffers) /\ buffers[ctx.buf] \in Buffers
      BY <1>1, <1>6
    <2>2. Append(buffers[ctx.buf].entries, e) \in Seq(Entry)
      BY <2>1, <1>5 DEF Buffers
    <2> QED BY <2>1, <2>2 DEF Buffers
  <1>7. \/ buffers' = buffers
        \/ ctx.buf /= 0 /\ buffers' = [buffers EXCEPT ![ctx.buf] = x]
    BY DEF Handle
  <1> HIDE DEF x
  <1>8. buffers' \in Seq(Buffers) /\ Len(buffers') = Len(buffers)
    BY <1>1, <1>6, <1>7, BufferTypes
  <1> QED BY <1>2, <1>3, <1>8, SameContexts DEF TypeInv, TypeOK

LEMMA TagTypes ==
  ASSUME TypeInv, NEW c \in 1..Len(contexts), Tag(c)
  PROVE  TypeInv'
  <1> DEFINE b == contexts[c].buf
             x == [buffers[b] EXCEPT !.tag = Len(logged) + 1]
  <1>1. b \in 0..Len(buffers) /\ Len(logged) \in Nat /\ Len(buffers) \in Nat /\ events \in Nat /\ MaxEvents \in Nat
    BY BoundsAssumption DEF TypeInv, TypeOK
  <1>2. b \in 1..Len(buffers) /\ buffers' = [buffers EXCEPT ![b] = x]
        /\ events < MaxEvents /\ events' = events + 1
        /\ UNCHANGED <<minted, contexts, operations, sent, logged, calls, stored>>
    BY <1>1 DEF Tag, Event
  <1>3. buffers[b] \in Buffers
    BY <1>2 DEF TypeInv, TypeOK
  <1>4. x \in Buffers
    BY <1>1, <1>3 DEF Buffers
  <1> HIDE DEF x, b
  <1>5. buffers' \in Seq(Buffers) /\ Len(buffers') = Len(buffers)
    BY <1>2, <1>4, BufferTypes
  <1>6. events' \in 0..MaxEvents
    BY <1>1, <1>2
  <1> QED BY <1>2, <1>5, <1>6, SameContexts DEF TypeInv, TypeOK

LEMMA SendTypes ==
  ASSUME TypeInv, NEW c \in 1..Len(contexts), NEW h \in {NoHeaders, contexts[c].by}, Send(c, h)
  PROVE  TypeInv'
  <1>1. contexts[c] \in Contexts /\ c \in Nat /\ events \in Nat /\ MaxEvents \in Nat
    BY BoundsAssumption DEF TypeInv, TypeOK
  <1>2. h \in Headers
    BY <1>1 DEF Contexts, Headers, NoHeaders, IdOrNone
  <1>3. RoundTrip(contexts[c].req, h) \in Headers
    BY <1>1, <1>2 DEF RoundTrip, Headers, Contexts
  <1>4. sent' \subseteq [headers : Headers, from : Nat] /\ events' \in 0..MaxEvents
    BY <1>1, <1>3 DEF Send, Event, TypeInv, TypeOK
  <1>5. UNCHANGED <<minted, contexts, operations, buffers, logged, calls, stored>>
    BY DEF Send
  <1> QED BY <1>4, <1>5, SameContexts DEF TypeInv, TypeOK

(* A trace that is stored, if it is.                                       *)
LEMMA InsertTypes ==
  ASSUME TypeInv, NEW t \in Traces, Insert(t)
  PROVE  stored' \subseteq Traces /\ \A s \in stored' : s \in stored \/ s = t
  BY DEF Insert, TypeInv, TypeOK

LEMMA PromoteRequestTypes ==
  ASSUME TypeInv, NEW c \in 1..Len(contexts), PromoteRequest(c)
  PROVE  TypeInv'
  <1> DEFINE ctx == contexts[c]
             t == [key |-> ctx.req, parent |-> ctx.parent, op |-> 0, origin |-> None,
                   tag |-> buffers[ctx.buf].tag, entries |-> buffers[ctx.buf].entries,
                   by |-> c, since |-> Len(logged), upTo |-> Len(logged)]
  <1>1. ctx \in Contexts /\ c \in Nat /\ Len(logged) \in Nat /\ events \in Nat /\ MaxEvents \in Nat
    BY BoundsAssumption DEF TypeInv, TypeOK
  <1>2. ctx.buf \in 1..Len(buffers)
    BY DEF PromoteRequest, TypeInv, TypeOK
  <1>3. buffers[ctx.buf] \in Buffers
    BY <1>2 DEF TypeInv, TypeOK
  <1>4. t \in Traces
    BY <1>1, <1>3 DEF Traces, Contexts, Buffers, IdOrNone
  <1>5. Insert(t) /\ events < MaxEvents /\ events' = events + 1
        /\ UNCHANGED <<minted, contexts, operations, buffers, sent, logged, calls>>
    BY DEF PromoteRequest, Event
  <1> HIDE DEF t
  <1>6. stored' \subseteq Traces /\ events' \in 0..MaxEvents
    BY <1>1, <1>4, <1>5, InsertTypes
  <1> QED BY <1>5, <1>6, SameContexts DEF TypeInv, TypeOK

LEMMA ReadTagsTypes ==
  ASSUME TypeInv, NEW c \in 1..Len(contexts), ReadTags(c)
  PROVE  TypeInv'
  <1> DEFINE o == operations[contexts[c].op]
             t == buffers[o.buf].tag
             x == [n |-> events, by |-> c, since |-> Len(logged),
                   tag |-> IF t = 0 /\ o.attr THEN FromStart ELSE t,
                   entries |-> <<>>, upTo |-> -1]
  <1>1. contexts[c].op \in 1..Len(operations) /\ contexts[c].op /= 0 /\ c \in Nat
        /\ Len(logged) \in Nat /\ events \in Nat /\ MaxEvents \in Nat
    BY BoundsAssumption DEF ReadTags, TypeInv, TypeOK
  <1>2. o.buf \in 1..Len(buffers)
    BY <1>1 DEF TypeInv
  <1>3. buffers[o.buf] \in Buffers
    BY <1>2 DEF TypeInv, TypeOK
  <1>4. t \in Nat
    BY <1>3 DEF Buffers
  <1>5. calls' = calls \cup {x} /\ events < MaxEvents /\ events' = events + 1
        /\ UNCHANGED <<minted, contexts, operations, buffers, sent, logged, stored>>
    BY DEF ReadTags, Event
  <1> HIDE DEF t
  <1>6. x \in Calls /\ x.by = c
    BY <1>1, <1>4 DEF Calls, FromStart
  <1> HIDE DEF x
  <1>7. events' \in 0..MaxEvents
    BY <1>1, <1>5
  <1> QED BY <1>1, <1>5, <1>6, <1>7, SameContexts DEF TypeInv, TypeOK

LEMMA ReadEntriesTypes ==
  ASSUME TypeInv, NEW x \in calls, ReadEntries(x)
  PROVE  TypeInv'
  <1> DEFINE b == operations[contexts[x.by].op].buf
             y == [x EXCEPT !.entries = buffers[b].entries, !.upTo = Len(logged)]
  <1>1. x.by \in 1..Len(contexts) /\ contexts[x.by].op \in 1..Len(operations) /\ x \in Calls
        /\ Len(logged) \in Nat
    BY DEF TypeInv, TypeOK
  <1>2. b \in 1..Len(buffers)
    BY <1>1 DEF TypeInv
  <1>3. buffers[b].entries \in Seq(Entry)
    <2>1. buffers[b] \in Buffers
      BY <1>2 DEF TypeInv, TypeOK
    <2> QED BY <2>1 DEF Buffers
  <1>4. y \in Calls /\ y.by = x.by
    BY <1>1, <1>3 DEF Calls
  <1>5. calls' = (calls \ {x}) \cup {y}
        /\ UNCHANGED <<minted, contexts, operations, buffers, sent, logged, events, stored>>
    BY DEF ReadEntries
  <1> HIDE DEF y
  <1> QED BY <1>1, <1>4, <1>5, SameContexts DEF TypeInv, TypeOK

LEMMA PromoteOperationTypes ==
  ASSUME TypeInv, NEW x \in calls, PromoteOperation(x)
  PROVE  TypeInv'
  <1> DEFINE o == operations[contexts[x.by].op]
             t == [key |-> o.id, parent |-> o.parent, op |-> contexts[x.by].op,
                   origin |-> o.origin, tag |-> x.tag, entries |-> x.entries,
                   by |-> x.by, since |-> x.since, upTo |-> x.upTo]
  <1>1. x.by \in 1..Len(contexts) /\ contexts[x.by].op \in 1..Len(operations) /\ x \in Calls
        /\ x.upTo /= -1 /\ contexts[x.by].op \in Nat
    BY DEF TypeInv, TypeOK, PromoteOperation
  <1>2. o \in Operation
    BY <1>1 DEF TypeInv, TypeOK
  <1>3. t \in Traces
    BY <1>1, <1>2 DEF Traces, Operation, Calls, IdOrNone
  <1>4. Insert(t) /\ calls' = calls \ {x}
        /\ UNCHANGED <<minted, contexts, operations, buffers, sent, logged, events>>
    BY DEF PromoteOperation
  <1> HIDE DEF t
  <1> QED BY <1>3, <1>4, InsertTypes, SameContexts DEF TypeInv, TypeOK

LEMMA NextTypes ==
  ASSUME TypeInv, [Next]_vars
  PROVE  TypeInv'
  <1>0. DOMAIN contexts = 1..Len(contexts) /\ sent \subseteq [headers : Headers, from : Nat]
    BY DEF TypeInv, TypeOK
  <1>1. ASSUME NEW h \in ClientHeaders, Receive(h, 0) PROVE TypeInv'
    <2>1. h \in Headers
      BY DEF ClientHeaders, Headers, IdOrNone
    <2> QED BY <1>1, <2>1, ReceiveTypes
  <1>2. ASSUME NEW m \in sent, Receive(m.headers, m.from) PROVE TypeInv'
    BY <1>0, <1>2, ReceiveTypes
  <1>3. ASSUME NEW c \in DOMAIN contexts, ContextStep(c) PROVE TypeInv'
    BY <1>0, <1>3, SendTypes, StartTypes, HandleTypes, TagTypes, PromoteRequestTypes, ReadTagsTypes
    DEF ContextStep
  <1>4. ASSUME NEW x \in calls, ReadEntries(x) \/ PromoteOperation(x) PROVE TypeInv'
    BY <1>4, ReadEntriesTypes, PromoteOperationTypes
  <1>5. CASE UNCHANGED vars
    BY <1>5 DEF vars, TypeInv, TypeOK
  <1> QED BY <1>1, <1>2, <1>3, <1>4, <1>5 DEF Next

(* Types: no handler, no promotion and no operation works with a buffer or *)
(* an operation that is not there.                                         *)
THEOREM TypeCorrect == Spec => []TypeOK
  <1>1. TypeInv => TypeOK
    BY DEF TypeInv
  <1>2. TypeInv /\ [Next]_vars => TypeInv'
    BY NextTypes
  <1> QED BY InitTypes, <1>1, <1>2, PTL DEF Spec

-----------------------------------------------------------------------------
(* The IDs that requests may have, of which none is an operation's.        *)
OpIds == {operations[o].id : o \in 1..Len(operations)}
Known == ((1..minted) \ OpIds) \cup ClientIds \cup {None}

IsRequest(c) == contexts[c].op = 0 /\ c /= 1

Fresh(c) == IsRequest(c) /\ ~BothGiven(contexts[c].by)

IdsInv ==
  /\ 1 \in 1..Len(contexts)
  /\ \A o \in 1..Len(operations) : operations[o].id \in 1..minted
  /\ \A o, q \in 1..Len(operations) : operations[o].id = operations[q].id => o = q
  /\ \A c \in 1..Len(contexts) : contexts[c].req \in Known
  /\ \A c \in 1..Len(contexts) : Fresh(c) => contexts[c].req \in 1..minted
  /\ \A c, d \in 1..Len(contexts) :
       Fresh(c) /\ Fresh(d) /\ contexts[c].req = contexts[d].req => c = d

(* What is sent is the ID of who sends it; only clients set a parent.      *)
HeadersInv ==
  /\ \A m \in sent :
       /\ m.from \in 1..Len(contexts)
       /\ m.headers.id = contexts[m.from].req
       /\ m.headers.parent \in ClientIds \cup {None}
  /\ \A c \in 1..Len(contexts) :
       /\ contexts[c].by.parent \in ClientIds \cup {None}
       /\ contexts[c].req = None => contexts[c].by = NoHeaders

(* There is a request with this ID and parent, not after context c.        *)
Named(req, parent, c) ==
  \E d \in 1..Len(contexts) :
    IsRequest(d) /\ d <= c /\ contexts[d].req = req /\ contexts[d].parent = parent

(* The links of a request: to who called it, and back in time.             *)
Linked(c) ==
  /\ contexts[c].from \in 0..Len(contexts)
  /\ contexts[c].from /= 0 /\ contexts[c].by.parent = None =>
       /\ contexts[c].parent = contexts[contexts[c].from].req
       /\ contexts[c].req /= contexts[contexts[c].from].req
  /\ contexts[c].parent \in Generated /\ ~BothGiven(contexts[c].by) =>
       /\ contexts[c].parent < contexts[c].req
       /\ \E d \in 1..Len(contexts) : IsRequest(d) /\ d < c /\ contexts[d].req = contexts[c].parent

LinksInv ==
  /\ \A c \in 1..Len(contexts) :
       contexts[c].req /= None => Named(contexts[c].req, contexts[c].parent, c)
  /\ \A o \in 1..Len(operations) :
       operations[o].origin /= None =>
         Named(operations[o].origin, operations[o].parent, Len(contexts))
  /\ \A c \in 1..Len(contexts) : IsRequest(c) => Linked(c)
  /\ \A t \in stored :
       t.op /= 0 /\ t.origin /= None => Named(t.origin, t.parent, Len(contexts))

(* What arrives comes from a client, or from a context that sent its ID.   *)
Arrives(h, f) ==
  /\ h.parent \in ClientIds \cup {None}
  /\ \/ f = 0 /\ h.id \in ClientIds \cup {None}
     \/ f \in 1..Len(contexts) /\ h.id = contexts[f].req

LEMMA InitLinks == Init => IdsInv /\ HeadersInv /\ LinksInv
  <1> SUFFICES ASSUME Init PROVE IdsInv /\ HeadersInv /\ LinksInv
    OBVIOUS
  <1>1. /\ Len(contexts) = 1 /\ contexts[1] = Background /\ Len(operations) = 0
        /\ sent = {} /\ stored = {} /\ 1..1 = {1} /\ 1..0 = {}
    BY DEF Init
  <1>2. Background.req = None /\ Background.op = 0 /\ Background.by = NoHeaders
        /\ NoHeaders.parent = None
    BY DEF Background, NoHeaders
  <1> QED BY <1>1, <1>2 DEF IdsInv, HeadersInv, LinksInv, Known, Fresh, IsRequest

(* A request has arrived: everything is as before but for the last context. *)
LEMMA Arrived ==
  ASSUME TypeInv, NEW h \in Headers, NEW f \in Nat, Receive(h, f)
  PROVE  /\ Len(contexts) \in Nat /\ Len(contexts') = Len(contexts) + 1
         /\ \A i : i \in 1..Len(contexts') <=> i \in 1..Len(contexts) \/ i = Len(contexts) + 1
         /\ \A i \in 1..Len(contexts) : contexts'[i] = contexts[i] /\ i < Len(contexts) + 1
         /\ contexts'[Len(contexts) + 1].req = IF BothGiven(h) THEN h.id ELSE minted + 1
         /\ contexts'[Len(contexts) + 1].parent = IF h.parent = None THEN h.id ELSE h.parent
         /\ contexts'[Len(contexts) + 1].op = 0 /\ contexts'[Len(contexts) + 1].by = h
         /\ contexts'[Len(contexts) + 1].from = f
         /\ minted' = (IF BothGiven(h) THEN minted ELSE minted + 1)
         /\ minted \in Nat
         /\ UNCHANGED <<operations, sent, logged, events, calls, stored>>
  <1> DEFINE new == Correlate(h, minted + 1)
             x == [req |-> new.req, parent |-> new.parent, op |-> 0,
                   buf |-> Len(buffers) + 1, by |-> h, from |-> f]
  <1>1. /\ minted \in Nat /\ Len(buffers) \in Nat /\ contexts \in Seq(Contexts)
    BY DEF TypeInv, TypeOK
  <1>2. /\ new.req = IF BothGiven(h) THEN h.id ELSE minted + 1
        /\ new.parent = IF h.parent = None THEN h.id ELSE h.parent
    BY DEF Correlate
  <1>3. new.req \in IdOrNone /\ new.parent \in IdOrNone
    BY <1>1, <1>2 DEF Headers, IdOrNone, Generated
  <1>4. contexts' = Append(contexts, x)
        /\ minted' = (IF BothGiven(h) THEN minted ELSE minted + 1)
        /\ UNCHANGED <<operations, sent, logged, events, calls, stored>>
    BY DEF Receive
  <1> HIDE DEF new
  <1>5. /\ x \in Contexts /\ x.req = new.req /\ x.parent = new.parent /\ x.op = 0
        /\ x.by = h /\ x.from = f
    BY <1>1, <1>3 DEF Contexts
  <1> HIDE DEF x
  <1>6. /\ Len(contexts) \in Nat /\ Len(contexts') = Len(contexts) + 1
        /\ contexts'[Len(contexts) + 1] = x
        /\ \A i : i \in 1..Len(contexts') <=> i \in 1..Len(contexts) \/ i = Len(contexts) + 1
        /\ \A i \in 1..Len(contexts) : contexts'[i] = contexts[i]
    BY <1>1, <1>4, <1>5, Appended
  <1>7. \A i \in 1..Len(contexts) : i < Len(contexts) + 1
    BY <1>6
  <1> QED BY <1>1, <1>2, <1>4, <1>5, <1>6, <1>7

LEMMA ReceiveIds ==
  ASSUME TypeInv, IdsInv, NEW h \in Headers, NEW f \in Nat, Receive(h, f), Arrives(h, f)
  PROVE  IdsInv'
  <1>0. PICK n : n = Len(contexts) + 1
    OBVIOUS
  <1>1. /\ \A i : i \in 1..Len(contexts') <=> i \in 1..Len(contexts) \/ i = n
        /\ \A i \in 1..Len(contexts) : contexts'[i] = contexts[i] /\ i /= n
        /\ contexts'[n].req = IF BothGiven(h) THEN h.id ELSE minted + 1
        /\ contexts'[n].op = 0 /\ contexts'[n].by = h
        /\ minted' = (IF BothGiven(h) THEN minted ELSE minted + 1) /\ minted \in Nat
        /\ UNCHANGED operations
    BY <1>0, Arrived
  <1>2. h.id \in Known
    BY DEF Arrives, Known, IdsInv
  <1>3. minted + 1 \notin Known /\ 1..minted \subseteq 1..minted' /\ OpIds' = OpIds
        /\ OpIds \subseteq 1..minted
        /\ (~BothGiven(h) => minted' = minted + 1 /\ minted + 1 \in 1..minted')
    BY <1>1, IdAssumption DEF Known, OpIds, IdsInv
  <1>4. Known \subseteq Known' /\ (~BothGiven(h) => minted + 1 \in Known')
    BY <1>1, <1>3 DEF Known
  <1>5. \A c \in 1..Len(contexts) : Fresh(c)' = Fresh(c)
    BY <1>1 DEF Fresh, IsRequest
  <1>6. Fresh(n)' => contexts'[n].req = minted + 1 /\ ~BothGiven(h)
    BY <1>1 DEF Fresh
  <1>7. \A c \in 1..Len(contexts') : contexts'[c].req \in Known'
    BY <1>1, <1>2, <1>4 DEF IdsInv
  <1>8. \A c \in 1..Len(contexts') : Fresh(c)' => contexts'[c].req \in 1..minted'
    BY <1>1, <1>3, <1>5, <1>6 DEF IdsInv
  <1>9. \A c \in 1..Len(contexts) : contexts'[c].req /= minted + 1
    BY <1>1, <1>3 DEF IdsInv
  <1>10. \A c, d \in 1..Len(contexts') :
           Fresh(c)' /\ Fresh(d)' /\ contexts'[c].req = contexts'[d].req => c = d
    BY <1>1, <1>5, <1>6, <1>9 DEF IdsInv
  <1> QED BY <1>1, <1>3, <1>7, <1>8, <1>10 DEF IdsInv

LEMMA ReceiveHeaders ==
  ASSUME TypeInv, HeadersInv, NEW h \in Headers, NEW f \in Nat, Receive(h, f), Arrives(h, f)
  PROVE  HeadersInv'
  <1>0. PICK n : n = Len(contexts) + 1
    OBVIOUS
  <1>1. /\ \A i : i \in 1..Len(contexts') <=> i \in 1..Len(contexts) \/ i = n
        /\ \A i \in 1..Len(contexts) : contexts'[i] = contexts[i]
        /\ contexts'[n].req = IF BothGiven(h) THEN h.id ELSE minted + 1
        /\ contexts'[n].by = h /\ minted \in Nat /\ UNCHANGED sent
    BY <1>0, Arrived
  <1>2. contexts'[n].req /= None
    BY <1>1, IdAssumption DEF BothGiven
  <1> QED BY <1>1, <1>2 DEF HeadersInv, Arrives

LEMMA ReceiveLinks ==
  ASSUME TypeInv, IdsInv, LinksInv,
         NEW h \in Headers, NEW f \in Nat, Receive(h, f), Arrives(h, f)
  PROVE  LinksInv'
  <1>0. PICK n : n = Len(contexts) + 1
    OBVIOUS
  <1>1. /\ Len(contexts) \in Nat /\ Len(contexts') = n /\ n \in Nat
        /\ \A i : i \in 1..Len(contexts') <=> i \in 1..Len(contexts) \/ i = n
        /\ \A i \in 1..Len(contexts) : contexts'[i] = contexts[i] /\ i < n /\ i /= n
        /\ contexts'[n].req = IF BothGiven(h) THEN h.id ELSE minted + 1
        /\ contexts'[n].parent = IF h.parent = None THEN h.id ELSE h.parent
        /\ contexts'[n].op = 0 /\ contexts'[n].by = h /\ contexts'[n].from = f
        /\ minted \in Nat /\ UNCHANGED <<operations, stored>>
    BY <1>0, Arrived
  <1>2. n /= 1 /\ f \in 0..n /\ f \in 0..Len(contexts) /\ n <= n
    BY <1>1 DEF IdsInv, Arrives
  <1>3. \A c \in 1..Len(contexts) : IsRequest(c)' = IsRequest(c)
    BY <1>1 DEF IsRequest
  <1>4. IsRequest(n)'
    BY <1>1, <1>2 DEF IsRequest
  <1>5. \A r, q, c : Named(r, q, c) => Named(r, q, c)'
    BY <1>1, <1>3 DEF Named
  <1>6. \A r, q : Named(r, q, Len(contexts)) => Named(r, q, n)'
    <2>1. \A d \in 1..Len(contexts) : d <= n
      BY <1>1
    <2> QED BY <2>1, <1>1, <1>3 DEF Named
  <1>7. \A c \in 1..Len(contexts') :
          contexts'[c].req /= None => Named(contexts[c].req, contexts[c].parent, c)'
    <2>1. Named(contexts[n].req, contexts[n].parent, n)'
      BY <1>1, <1>2, <1>4 DEF Named
    <2>2. \A c \in 1..Len(contexts) :
            contexts'[c].req /= None => Named(contexts[c].req, contexts[c].parent, c)'
      BY <1>1, <1>3 DEF LinksInv, Named
    <2> QED BY <1>1, <2>1, <2>2
  <1>8. minted + 1 \notin Known
    BY <1>1, IdAssumption DEF Known
  <1>9. Linked(n)'
    <2>1. f \in 1..Len(contexts) =>
            h.id = contexts[f].req /\ contexts'[f] = contexts[f] /\ contexts[f].req \in Known
      BY <1>1, <1>2, IdAssumption DEF Arrives, IdsInv
    <2>2. f = 0 => h.id \notin Nat
      BY IdAssumption DEF Arrives
    <2>3. ASSUME f /= 0, h.parent = None
          PROVE  contexts'[n].parent = contexts'[f].req /\ contexts'[n].req /= contexts'[f].req
      <3>1. f \in 1..Len(contexts) /\ ~BothGiven(h)
        BY <2>3 DEF Arrives, BothGiven
      <3> QED BY <3>1, <2>1, <2>3, <1>1, <1>8
    <2>4. ASSUME contexts'[n].parent \in Generated, ~BothGiven(h)
          PROVE  /\ contexts'[n].parent < contexts'[n].req
                 /\ \E d \in 1..Len(contexts') :
                      IsRequest(d)' /\ d < n /\ contexts'[d].req = contexts'[n].parent
      <3>1. h.parent = None /\ contexts'[n].parent = h.id /\ h.id \in Nat
        BY <2>4, <1>1, IdAssumption DEF Arrives, Generated
      <3>2. f \in 1..Len(contexts) /\ h.id = contexts[f].req /\ h.id \in 1..minted
        BY <3>1, <2>1, <2>2, IdAssumption DEF Arrives, Known
      <3>3. contexts[f].req /= None
        BY <3>1, <3>2, IdAssumption
      <3>4. PICK d \in 1..Len(contexts) : IsRequest(d) /\ contexts[d].req = contexts[f].req
        BY <3>2, <3>3 DEF LinksInv, Named
      <3>5. contexts'[n].parent < contexts'[n].req
        BY <3>1, <3>2, <2>4, <1>1
      <3> QED BY <3>1, <3>2, <3>4, <3>5, <1>1, <1>3
    <2> QED BY <2>3, <2>4, <1>1, <1>2 DEF Linked
  <1>10. \A c \in 1..Len(contexts') : IsRequest(c)' => Linked(c)'
    <2>1. ASSUME NEW c \in 1..Len(contexts), IsRequest(c) PROVE Linked(c)'
      <3>1. Linked(c)
        BY <2>1 DEF LinksInv
      <3>2. contexts'[c] = contexts[c] /\ contexts[c].from \in 0..n
            /\ (contexts[c].from /= 0 => contexts'[contexts[c].from] = contexts[contexts[c].from])
        BY <3>1, <1>1 DEF Linked
      <3> QED BY <3>1, <3>2, <1>1, <1>3 DEF Linked
    <2> QED BY <2>1, <1>1, <1>3, <1>9
  <1> QED BY <1>1, <1>6, <1>7, <1>10 DEF LinksInv

(* An operation has started: the last context is inside it, and goes by    *)
(* the same request as the one it was started from.                        *)
LEMMA OneStarted ==
  ASSUME TypeInv, NEW c \in 1..Len(contexts), NEW a \in BOOLEAN, StartOperation(c, a),
         NEW n, n = Len(contexts) + 1, NEW k, k = Len(operations) + 1
  PROVE  /\ Len(contexts) \in Nat /\ Len(contexts') = n /\ minted \in Nat
         /\ \A i : i \in 1..Len(contexts') <=> i \in 1..Len(contexts) \/ i = n
         /\ \A i \in 1..Len(contexts) : contexts'[i] = contexts[i] /\ i < n /\ i /= n
         /\ contexts'[n].req = contexts[c].req /\ contexts'[n].parent = contexts[c].parent
         /\ contexts'[n].op /= 0 /\ contexts'[n].by = contexts[c].by
         /\ Len(operations') = k /\ k \in Nat
         /\ \A i : i \in 1..Len(operations') <=> i \in 1..Len(operations) \/ i = k
         /\ \A i \in 1..Len(operations) : operations'[i] = operations[i] /\ i /= k
         /\ operations'[k].id = minted + 1 /\ operations'[k].origin = contexts[c].req
         /\ operations'[k].parent = contexts[c].parent
         /\ minted' = minted + 1 /\ UNCHANGED <<sent, logged, events, calls, stored>>
  <1>1. /\ NewOperation(c, a) \in Operation /\ Inside(c) \in Contexts
        /\ NewOperation(c, a).id = minted + 1
        /\ NewOperation(c, a).origin = contexts[c].req
        /\ NewOperation(c, a).parent = contexts[c].parent
        /\ Inside(c).op = k
        /\ Inside(c).req = contexts[c].req /\ Inside(c).parent = contexts[c].parent
        /\ Inside(c).by = contexts[c].by
        /\ operations' = Append(operations, NewOperation(c, a))
        /\ contexts' = Append(contexts, Inside(c))
        /\ minted' = minted + 1
        /\ UNCHANGED <<sent, logged, events, calls, stored>>
    BY Started
  <1>2. contexts \in Seq(Contexts) /\ operations \in Seq(Operation) /\ minted \in Nat
    BY DEF TypeInv, TypeOK
  <1>3. /\ Len(contexts) \in Nat /\ Len(contexts') = n /\ contexts'[n] = Inside(c)
        /\ \A i : i \in 1..Len(contexts') <=> i \in 1..Len(contexts) \/ i = n
        /\ \A i \in 1..Len(contexts) : contexts'[i] = contexts[i] /\ i /= n
    BY <1>1, <1>2, Appended
  <1>4. /\ Len(operations) \in Nat /\ Len(operations') = k /\ operations'[k] = NewOperation(c, a)
        /\ \A i : i \in 1..Len(operations') <=> i \in 1..Len(operations) \/ i = k
        /\ \A i \in 1..Len(operations) : operations'[i] = operations[i] /\ i /= k
    BY <1>1, <1>2, Appended
  <1>5. k \in Nat /\ k /= 0 /\ \A i \in 1..Len(contexts) : i < n
    BY <1>3, <1>4
  <1> QED BY <1>1, <1>2, <1>3, <1>4, <1>5

LEMMA StartLinks ==
  ASSUME TypeInv, IdsInv, HeadersInv, LinksInv,
         NEW c \in 1..Len(contexts), NEW a \in BOOLEAN, StartOperation(c, a)
  PROVE  IdsInv' /\ HeadersInv' /\ LinksInv'
  <1>0. PICK n, k : n = Len(contexts) + 1 /\ k = Len(operations) + 1
    OBVIOUS
  <1>1. /\ Len(contexts) \in Nat /\ Len(contexts') = n /\ minted \in Nat
        /\ \A i : i \in 1..Len(contexts') <=> i \in 1..Len(contexts) \/ i = n
        /\ \A i \in 1..Len(contexts) : contexts'[i] = contexts[i] /\ i < n /\ i /= n
        /\ contexts'[n].req = contexts[c].req /\ contexts'[n].parent = contexts[c].parent
        /\ contexts'[n].op /= 0 /\ contexts'[n].by = contexts[c].by
    BY <1>0, OneStarted
  <1>2. /\ \A i : i \in 1..Len(operations') <=> i \in 1..Len(operations) \/ i = k
        /\ \A i \in 1..Len(operations) : operations'[i] = operations[i] /\ i /= k
        /\ operations'[k].id = minted + 1 /\ operations'[k].origin = contexts[c].req
        /\ operations'[k].parent = contexts[c].parent
        /\ minted' = minted + 1 /\ UNCHANGED <<sent, stored>>
    BY <1>0, OneStarted
  <1>3. /\ \A d \in 1..Len(contexts) : IsRequest(d)' = IsRequest(d) /\ Fresh(d)' = Fresh(d)
        /\ ~IsRequest(n)' /\ ~Fresh(n)'
    BY <1>1 DEF IsRequest, Fresh
  <1>4. IdsInv'
    <2>1. OpIds' = OpIds \cup {minted + 1}
      BY <1>2 DEF OpIds
    <2>2. 1..minted' = (1..minted) \cup {minted + 1} /\ minted + 1 \notin 1..minted
      BY <1>1, <1>2
    <2>3. Known' = Known
      BY <2>1, <2>2 DEF Known
    <2>4. \A o \in 1..Len(operations) : operations[o].id \in 1..minted /\ operations[o].id /= minted + 1
      BY <2>2 DEF IdsInv
    <2>5. \A o \in 1..Len(operations') : operations'[o].id \in 1..minted'
      BY <1>2, <2>2, <2>4
    <2>6. \A o, q \in 1..Len(operations') : operations'[o].id = operations'[q].id => o = q
      BY <1>2, <2>4 DEF IdsInv
    <2>7. \A d \in 1..Len(contexts') : contexts'[d].req \in Known'
      BY <1>1, <2>3 DEF IdsInv
    <2>8. /\ \A d \in 1..Len(contexts') : Fresh(d)' => contexts'[d].req \in 1..minted'
          /\ \A d, e \in 1..Len(contexts') :
               Fresh(d)' /\ Fresh(e)' /\ contexts'[d].req = contexts'[e].req => d = e
      BY <1>1, <1>3, <2>2 DEF IdsInv
    <2> QED BY <1>1, <2>5, <2>6, <2>7, <2>8 DEF IdsInv
  <1>5. HeadersInv'
    <2>1. ASSUME NEW m \in sent'
          PROVE  /\ m.from \in 1..Len(contexts') /\ m.headers.id = contexts'[m.from].req
                 /\ m.headers.parent \in ClientIds \cup {None}
      BY <1>1, <1>2 DEF HeadersInv
    <2>2. ASSUME NEW d \in 1..Len(contexts')
          PROVE  /\ contexts'[d].by.parent \in ClientIds \cup {None}
                 /\ contexts'[d].req = None => contexts'[d].by = NoHeaders
      <3>0. \A e \in 1..Len(contexts) :
              /\ contexts[e].by.parent \in ClientIds \cup {None}
              /\ contexts[e].req = None => contexts[e].by = NoHeaders
        BY DEF HeadersInv
      <3>1. CASE d \in 1..Len(contexts)
        <4>1. contexts'[d] = contexts[d]
          BY <3>1, <1>1
        <4> QED BY <3>0, <3>1, <4>1
      <3>2. CASE d = n
        <4>1. contexts'[d].by = contexts[c].by /\ contexts'[d].req = contexts[c].req
          BY <3>2, <1>1
        <4> QED BY <3>0, <4>1
      <3> QED BY <3>1, <3>2, <1>1
    <2> QED BY <2>1, <2>2 DEF HeadersInv
  <1>6. LinksInv'
    <2>1. \A r, q, d : Named(r, q, d) => Named(r, q, d)'
      BY <1>1, <1>3 DEF Named
    <2>2. \A r, q : \A d \in 1..Len(contexts) : Named(r, q, d) => Named(r, q, n)'
      <3>1. \A d \in 1..Len(contexts) : d <= n
        BY <1>1
      <3> QED BY <3>1, <1>1, <1>3 DEF Named
    <2>3. \A r, q : Named(r, q, Len(contexts)) => Named(r, q, n)'
      <3>1. \A d \in 1..Len(contexts) : d <= n
        BY <1>1
      <3> QED BY <3>1, <1>1, <1>3 DEF Named
    <2>4. contexts[c].req /= None => Named(contexts[c].req, contexts[c].parent, c)
      BY DEF LinksInv
    <2>5. contexts[c].req /= None =>
            \E d \in 1..Len(contexts') :
              /\ IsRequest(d)' /\ d <= n
              /\ contexts'[d].req = contexts[c].req /\ contexts'[d].parent = contexts[c].parent
      <3>1. \A d \in 1..Len(contexts) : d <= n
        BY <1>1
      <3> QED BY <2>4, <3>1, <1>1, <1>3 DEF Named
    <2>6. \A d \in 1..Len(contexts') :
            contexts'[d].req /= None => Named(contexts[d].req, contexts[d].parent, d)'
      <3>1. ASSUME NEW d \in 1..Len(contexts), contexts'[d].req /= None
            PROVE  Named(contexts[d].req, contexts[d].parent, d)'
        <4>1. contexts'[d] = contexts[d] /\ Named(contexts[d].req, contexts[d].parent, d)
          BY <3>1, <1>1 DEF LinksInv
        <4> QED BY <4>1, <1>1, <1>3 DEF Named
      <3>2. contexts'[n].req /= None => Named(contexts[n].req, contexts[n].parent, n)'
        BY <2>5, <1>1 DEF Named
      <3> QED BY <3>1, <3>2, <1>1
    <2>7. \A o \in 1..Len(operations') :
            operations'[o].origin /= None =>
              Named(operations[o].origin, operations[o].parent, Len(contexts))'
      <3>1. ASSUME NEW o \in 1..Len(operations), operations'[o].origin /= None
            PROVE  Named(operations[o].origin, operations[o].parent, Len(contexts))'
        <4>1. operations'[o] = operations[o]
              /\ Named(operations[o].origin, operations[o].parent, Len(contexts))
          BY <3>1, <1>2 DEF LinksInv
        <4>2. \A d \in 1..Len(contexts) : d <= n
          BY <1>1
        <4> QED BY <4>1, <4>2, <1>1, <1>3 DEF Named
      <3>2. operations'[k].origin /= None =>
              Named(operations[k].origin, operations[k].parent, Len(contexts))'
        BY <2>5, <1>1, <1>2 DEF Named
      <3> QED BY <3>1, <3>2, <1>2
    <2>8. \A d \in 1..Len(contexts') : IsRequest(d)' => Linked(d)'
      <3>1. ASSUME NEW d \in 1..Len(contexts), IsRequest(d) PROVE Linked(d)'
        <4>1. Linked(d)
          BY <3>1 DEF LinksInv
        <4>2. contexts'[d] = contexts[d] /\ contexts[d].from \in 0..n
              /\ (contexts[d].from /= 0 => contexts'[contexts[d].from] = contexts[contexts[d].from])
          BY <4>1, <1>1 DEF Linked
        <4> QED BY <4>1, <4>2, <1>1, <1>3 DEF Linked
      <3> QED BY <3>1, <1>1, <1>3
    <2>9. \A t \in stored' :
            t.op /= 0 /\ t.origin /= None => Named(t.origin, t.parent, n)'
      BY <2>3, <1>2 DEF LinksInv
    <2> QED BY <2>6, <2>7, <2>8, <2>9, <1>1 DEF LinksInv
  <1> QED BY <1>4, <1>5, <1>6

(* Steps that start nothing; what they send and store is true.             *)
LEMMA SameLinks ==
  ASSUME IdsInv, HeadersInv, LinksInv, UNCHANGED <<minted, contexts, operations>>,
         \A m \in sent' :
           \/ m \in sent
           \/ /\ m.from \in 1..Len(contexts)
              /\ m.headers.id = contexts[m.from].req
              /\ m.headers.parent \in ClientIds \cup {None},
         \A t \in stored' :
           \/ t \in stored \/ t.op = 0
           \/ \E o \in 1..Len(operations) :
                t.origin = operations[o].origin /\ t.parent = operations[o].parent
  PROVE  IdsInv' /\ HeadersInv' /\ LinksInv'
  <1>1. IdsInv'
    BY DEF IdsInv, Known, OpIds, Fresh, IsRequest
  <1>2. HeadersInv'
    BY DEF HeadersInv
  <1>3. LinksInv'
    <2>1. \A r, q, c : Named(r, q, c)' = Named(r, q, c)
      BY DEF Named, IsRequest
    <2>2. \A c \in 1..Len(contexts) : IsRequest(c)' = IsRequest(c) /\ Linked(c)' = Linked(c)
      BY DEF Linked, IsRequest
    <2>3. \A t \in stored' :
            t.op /= 0 /\ t.origin /= None => Named(t.origin, t.parent, Len(contexts))
      BY DEF LinksInv
    <2>4. \A t \in stored' :
            t.op /= 0 /\ t.origin /= None => Named(t.origin, t.parent, Len(contexts))'
      BY <2>3 DEF Named, IsRequest
    <2>5. \A c \in 1..Len(contexts) :
            contexts[c].req /= None => Named(contexts[c].req, contexts[c].parent, c)'
      BY DEF LinksInv, Named, IsRequest
    <2>6. \A o \in 1..Len(operations) :
            operations[o].origin /= None =>
              Named(operations[o].origin, operations[o].parent, Len(contexts))'
      BY DEF LinksInv, Named, IsRequest
    <2> QED BY <2>2, <2>4, <2>5, <2>6 DEF LinksInv
  <1> QED BY <1>1, <1>2, <1>3

LEMMA SendLinks ==
  ASSUME TypeInv, IdsInv, HeadersInv, LinksInv,
         NEW c \in 1..Len(contexts), NEW h \in {NoHeaders, contexts[c].by}, Send(c, h)
  PROVE  IdsInv' /\ HeadersInv' /\ LinksInv'
  <1> DEFINE r == RoundTrip(contexts[c].req, h)
             m == [headers |-> r, from |-> c]
  <1>1. h \in Headers
    <2>1. contexts[c] \in Contexts
      BY DEF TypeInv, TypeOK
    <2> QED BY <2>1 DEF Contexts, Headers, NoHeaders, IdOrNone
  <1>2. h.parent \in ClientIds \cup {None} /\ (contexts[c].req = None => h.id = None)
    <2>1. NoHeaders.id = None /\ NoHeaders.parent = None
      BY DEF NoHeaders
    <2>2. /\ contexts[c].by.parent \in ClientIds \cup {None}
          /\ contexts[c].req = None => contexts[c].by = NoHeaders
      BY DEF HeadersInv
    <2>3. CASE h = NoHeaders
      BY <2>1, <2>3
    <2>4. CASE h = contexts[c].by
      BY <2>1, <2>2, <2>4
    <2> QED BY <2>3, <2>4
  <1>3. r.id = contexts[c].req /\ r.parent \in ClientIds \cup {None}
    BY <1>1, <1>2 DEF RoundTrip, Headers
  <1>4. sent' = sent \cup {m} /\ UNCHANGED <<minted, contexts, operations, stored>>
    BY DEF Send
  <1> HIDE DEF r
  <1>5. m.headers = r /\ m.from = c
    OBVIOUS
  <1> HIDE DEF m
  <1> QED BY <1>3, <1>4, <1>5, SameLinks

LEMMA NextLinks ==
  ASSUME TypeInv, IdsInv, HeadersInv, LinksInv, [Next]_vars
  PROVE  IdsInv' /\ HeadersInv' /\ LinksInv'
  <1>0. DOMAIN contexts = 1..Len(contexts) /\ sent \subseteq [headers : Headers, from : Nat]
    BY DEF TypeInv, TypeOK
  <1>1. ASSUME NEW h \in ClientHeaders, Receive(h, 0)
        PROVE  IdsInv' /\ HeadersInv' /\ LinksInv'
    <2>1. h \in Headers /\ Arrives(h, 0)
      BY DEF ClientHeaders, Headers, IdOrNone, Arrives
    <2> QED BY <1>1, <2>1, ReceiveIds, ReceiveHeaders, ReceiveLinks
  <1>2. ASSUME NEW m \in sent, Receive(m.headers, m.from)
        PROVE  IdsInv' /\ HeadersInv' /\ LinksInv'
    <2>1. m.headers \in Headers /\ m.from \in Nat /\ Arrives(m.headers, m.from)
      BY <1>0 DEF Arrives, HeadersInv
    <2> QED BY <1>2, <2>1, ReceiveIds, ReceiveHeaders, ReceiveLinks
  <1>3. ASSUME NEW c \in 1..Len(contexts), NEW h \in {NoHeaders, contexts[c].by}, Send(c, h)
        PROVE  IdsInv' /\ HeadersInv' /\ LinksInv'
    BY <1>3, SendLinks
  <1>4. ASSUME NEW c \in 1..Len(contexts), NEW a \in BOOLEAN, StartOperation(c, a)
        PROVE  IdsInv' /\ HeadersInv' /\ LinksInv'
    BY <1>4, StartLinks
  <1>5. ASSUME UNCHANGED <<minted, contexts, operations, sent, stored>>
        PROVE  IdsInv' /\ HeadersInv' /\ LinksInv'
    BY <1>5, SameLinks
  <1>6. ASSUME NEW c \in 1..Len(contexts), PromoteRequest(c)
        PROVE  IdsInv' /\ HeadersInv' /\ LinksInv'
    <2>1. UNCHANGED <<minted, contexts, operations, sent>>
          /\ \A t \in stored' : t \in stored \/ t.op = 0
      BY <1>6 DEF PromoteRequest, Insert
    <2> QED BY <2>1, SameLinks
  <1>7. ASSUME NEW x \in calls, PromoteOperation(x)
        PROVE  IdsInv' /\ HeadersInv' /\ LinksInv'
    <2>1. contexts[x.by].op \in 1..Len(operations)
      BY DEF TypeInv
    <2>2. UNCHANGED <<minted, contexts, operations, sent>>
          /\ \A t \in stored' :
               \/ t \in stored
               \/ /\ t.origin = operations[contexts[x.by].op].origin
                  /\ t.parent = operations[contexts[x.by].op].parent
      BY <1>7 DEF PromoteOperation, Insert
    <2> QED BY <2>1, <2>2, SameLinks
  <1>8. ASSUME NEW c \in 1..Len(contexts), ContextStep(c)
        PROVE  IdsInv' /\ HeadersInv' /\ LinksInv'
    BY <1>3, <1>4, <1>5, <1>6, <1>8 DEF ContextStep, Handle, Tag, ReadTags
  <1>9. ASSUME NEW x \in calls, ReadEntries(x) PROVE IdsInv' /\ HeadersInv' /\ LinksInv'
    BY <1>5, <1>9 DEF ReadEntries
  <1>10. CASE UNCHANGED vars
    BY <1>5, <1>10 DEF vars
  <1> QED BY <1>0, <1>1, <1>2, <1>7, <1>8, <1>9, <1>10 DEF Next

(* Keys are those of one operation, or of one request unless somebody sent *)
(* both headers, however many requests and operations there are, how they  *)
(* are nested and how often what is sent is delivered.                     *)
THEOREM KeysStayUnique == Spec => []KeysAreUnique
  <1> DEFINE KInv == TypeInv /\ IdsInv /\ HeadersInv /\ LinksInv
  <1>1. Init => KInv
    BY InitTypes, InitLinks
  <1>2. KInv /\ [Next]_vars => KInv'
    BY NextTypes, NextLinks
  <1>3. KInv => KeysAreUnique
    <2> SUFFICES ASSUME KInv PROVE KeysAreUnique
      OBVIOUS
    <2>1. DOMAIN contexts = 1..Len(contexts) /\ DOMAIN operations = 1..Len(operations)
      BY DEF TypeInv, TypeOK
    <2>2. ASSUME NEW o \in 1..Len(operations), NEW c \in 1..Len(contexts)
          PROVE  operations[o].id /= contexts[c].req
      <3>1. operations[o].id \in OpIds /\ operations[o].id \in 1..minted
        BY DEF OpIds, IdsInv
      <3>2. contexts[c].req \in Known /\ minted \in Nat
        BY DEF IdsInv, TypeInv, TypeOK
      <3> QED BY <3>1, <3>2, IdAssumption DEF Known
    <2>3. \A c, d \in Requests :
            c /= d /\ contexts[c].req = contexts[d].req =>
              BothGiven(contexts[c].by) \/ BothGiven(contexts[d].by)
      BY <2>1 DEF IdsInv, Fresh, IsRequest, Requests
    <2> QED BY <2>1, <2>2, <2>3 DEF KeysAreUnique, IdsInv
  <1> QED BY <1>1, <1>2, <1>3, PTL DEF Spec

(* Links are true: whoever calls is the parent of what was called, parents *)
(* go back in time, and an operation's trace names its request, for every  *)
(* number of services, retries and nested operations.                      *)
THEOREM LinksStayTrue == Spec => []LinksAreTrue
  <1> DEFINE KInv == TypeInv /\ IdsInv /\ HeadersInv /\ LinksInv
  <1>1. Init => KInv
    BY InitTypes, InitLinks
  <1>2. KInv /\ [Next]_vars => KInv'
    BY NextTypes, NextLinks
  <1>3. KInv => LinksAreTrue
    <2> SUFFICES ASSUME KInv PROVE LinksAreTrue
      OBVIOUS
    <2>1. DOMAIN contexts = 1..Len(contexts)
      BY DEF TypeInv, TypeOK
    <2>2. \A c : c \in Requests <=> c \in 1..Len(contexts) /\ IsRequest(c)
      BY <2>1 DEF Requests, IsRequest
    <2>3. \A c \in Requests : Linked(c)
      BY <2>2 DEF LinksInv
    <2>4. \A t \in stored : t.op /= 0 /\ t.origin /= None =>
            \E d \in Requests : contexts[d].req = t.origin /\ contexts[d].parent = t.parent
      BY <2>2 DEF LinksInv, Named
    <2>5. \A c \in Requests : contexts[c].parent \in Generated /\ ~BothGiven(contexts[c].by) =>
            /\ contexts[c].parent < contexts[c].req
            /\ \E d \in Requests : d < c /\ contexts[d].req = contexts[c].parent
      BY <2>2, <2>3 DEF Linked
    <2>6. \A c \in Requests :
            LET d == contexts[c].from
            IN  d /= 0 /\ contexts[c].by.parent = None =>
                  /\ contexts[c].parent = contexts[d].req
                  /\ contexts[c].req /= contexts[d].req
      BY <2>3 DEF Linked
    <2> QED BY <2>4, <2>5, <2>6 DEF LinksAreTrue
  <1> QED BY <1>1, <1>2, <1>3, PTL DEF Spec

-----------------------------------------------------------------------------
(* A tag as it was read when since lines had been logged: what was set     *)
(* before the last of them is seen, what is set later is not.              *)
TagRead(b, tag, since) ==
  /\ buffers[b].tag /= 0 /\ buffers[b].tag <= since => tag = buffers[b].tag
  /\ tag > 0 => tag <= since + 1

TagsInv ==
  /\ \A b \in 1..Len(buffers) : buffers[b].tag <= Len(logged) + 1
  /\ \A x \in calls :
       /\ x.since <= Len(logged)
       /\ x.upTo /= -1 => x.since <= x.upTo
       /\ TagRead(operations[contexts[x.by].op].buf, x.tag, x.since)
  /\ \A t \in stored : t.op /= 0 =>
       /\ t.op \in 1..Len(operations)
       /\ t.since <= Len(logged) /\ t.since <= t.upTo
       /\ TagRead(operations[t.op].buf, t.tag, t.since)

LEMMA InitTags == Init => TagsInv
  BY DEF Init, TagsInv

(* Every step that keeps what was read: contexts and operations stay, a    *)
(* tag changes only when it is set, and then to after the last line.       *)
LEMMA SameTags ==
  ASSUME TypeInv, TagsInv,
         Len(logged') \in Nat, Len(logged) <= Len(logged'),
         \A c \in 1..Len(contexts) : contexts'[c] = contexts[c],
         Len(operations') \in Nat, Len(operations) <= Len(operations'),
         \A o \in 1..Len(operations) : operations'[o] = operations[o],
         \A b \in 1..Len(buffers) :
           \/ buffers'[b].tag = buffers[b].tag
           \/ buffers[b].tag = 0 /\ buffers'[b].tag = Len(logged) + 1,
         \A b \in 1..Len(buffers') : b \in 1..Len(buffers) \/ buffers'[b].tag = 0,
         \A x \in calls' :
           \/ x \in calls
           \/ /\ x.by \in 1..Len(contexts) /\ contexts[x.by].op \in 1..Len(operations)
              /\ x.since \in Nat /\ x.since <= Len(logged)
              /\ x.upTo /= -1 => x.since <= x.upTo
              /\ TagRead(operations[contexts[x.by].op].buf, x.tag, x.since),
         \A t \in stored' :
           \/ t \in stored \/ t.op = 0
           \/ /\ t.op \in 1..Len(operations)
              /\ t.since \in Nat /\ t.since <= Len(logged) /\ t.since <= t.upTo
              /\ TagRead(operations[t.op].buf, t.tag, t.since)
  PROVE  TagsInv'
  <1>1. /\ Len(logged) \in Nat /\ Len(operations) \in Nat
        /\ \A b \in 1..Len(buffers) : buffers[b].tag \in Nat
        /\ \A x \in calls : x.since \in Nat /\ contexts[x.by].op \in 1..Len(operations)
                            /\ x.by \in 1..Len(contexts)
        /\ \A t \in stored : t.since \in Nat
        /\ \A o \in 1..Len(operations) : operations[o].buf \in 1..Len(buffers)
    <2>1. \A b \in 1..Len(buffers) : buffers[b].tag \in Nat
      <3>1. \A b \in 1..Len(buffers) : buffers[b] \in Buffers
        BY DEF TypeInv, TypeOK
      <3> QED BY <3>1 DEF Buffers
    <2> QED BY <2>1 DEF TypeInv, TypeOK, Calls, Traces
  <1>2. \A b \in 1..Len(buffers') : buffers'[b].tag <= Len(logged') + 1
    <2> SUFFICES ASSUME NEW b \in 1..Len(buffers') PROVE buffers'[b].tag <= Len(logged') + 1
      OBVIOUS
    <2>1. CASE b \in 1..Len(buffers)
      <3>1. buffers[b].tag <= Len(logged) + 1 /\ buffers[b].tag \in Nat
        BY <2>1, <1>1 DEF TagsInv
      <3>2. buffers'[b].tag \in Nat /\ buffers'[b].tag <= Len(logged) + 1
        BY <2>1, <3>1, <1>1
      <3> QED BY <3>2, <1>1
    <2>2. CASE buffers'[b].tag = 0
      BY <2>2, <1>1
    <2> QED BY <2>1, <2>2
  <1>3. ASSUME NEW o \in 1..Len(operations), NEW tag, NEW since \in Nat, since <= Len(logged),
               TagRead(operations[o].buf, tag, since)
        PROVE  /\ TagRead(operations[o].buf, tag, since)'
               /\ o \in 1..Len(operations') /\ since <= Len(logged')
    <2>1. PICK b \in 1..Len(buffers) : b = operations[o].buf /\ b = operations'[o].buf
      BY <1>1
    <2>2. /\ buffers[b].tag \in Nat
          /\ buffers[b].tag /= 0 /\ buffers[b].tag <= since => tag = buffers[b].tag
          /\ tag > 0 => tag <= since + 1
      BY <1>1, <1>3, <2>1 DEF TagRead
    <2>3. buffers'[b].tag /= 0 /\ buffers'[b].tag <= since => tag = buffers'[b].tag
      <3>1. CASE buffers'[b].tag = buffers[b].tag
        BY <2>2, <3>1
      <3>2. CASE buffers'[b].tag = Len(logged) + 1
        BY <3>2, <1>1, <1>3
      <3> QED BY <3>1, <3>2
    <2>4. o \in 1..Len(operations') /\ since <= Len(logged')
      BY <1>1, <1>3
    <2> QED BY <2>1, <2>2, <2>3, <2>4 DEF TagRead
  <1>4. ASSUME NEW x \in calls'
        PROVE  /\ x.since <= Len(logged')
               /\ x.upTo /= -1 => x.since <= x.upTo
               /\ TagRead(operations[contexts[x.by].op].buf, x.tag, x.since)'
    <2>1. /\ x.by \in 1..Len(contexts) /\ contexts[x.by].op \in 1..Len(operations)
          /\ x.since \in Nat /\ x.since <= Len(logged)
          /\ x.upTo /= -1 => x.since <= x.upTo
          /\ TagRead(operations[contexts[x.by].op].buf, x.tag, x.since)
      BY <1>1 DEF TagsInv
    <2>2. PICK o \in 1..Len(operations) : o = contexts[x.by].op /\ o = contexts'[x.by].op
      BY <2>1
    <2> QED BY <2>1, <2>2, <1>3
  <1>5. ASSUME NEW t \in stored', t.op /= 0
        PROVE  /\ t.op \in 1..Len(operations')
               /\ t.since <= Len(logged') /\ t.since <= t.upTo
               /\ TagRead(operations[t.op].buf, t.tag, t.since)'
    <2>1. /\ t.op \in 1..Len(operations)
          /\ t.since \in Nat /\ t.since <= Len(logged) /\ t.since <= t.upTo
          /\ TagRead(operations[t.op].buf, t.tag, t.since)
      BY <1>1, <1>5 DEF TagsInv
    <2> QED BY <2>1, <1>3
  <1> QED BY <1>2, <1>4, <1>5 DEF TagsInv

LEMMA MoreContextsTags ==
  ASSUME TypeInv, TagsInv,
         \A c \in 1..Len(contexts) : contexts'[c] = contexts[c],
         Len(operations') \in Nat, Len(operations) <= Len(operations'),
         \A o \in 1..Len(operations) : operations'[o] = operations[o],
         buffers' = Append(buffers, NewBuffer), UNCHANGED <<logged, calls, stored>>
  PROVE  TagsInv'
  <1>1. /\ buffers \in Seq(Buffers) /\ NewBuffer \in Buffers /\ NewBuffer.tag = 0
        /\ Len(logged) \in Nat
    BY DEF TypeInv, TypeOK, NewBuffer, Buffers
  <1>2. /\ \A b \in 1..Len(buffers) : buffers'[b] = buffers[b]
        /\ \A b \in 1..Len(buffers') : b \in 1..Len(buffers) \/ buffers'[b] = NewBuffer
    BY <1>1, Appended
  <1> QED BY <1>1, <1>2, SameTags

LEMMA ReceiveTags ==
  ASSUME TypeInv, TagsInv, NEW h \in Headers, NEW f \in Nat, Receive(h, f)
  PROVE  TagsInv'
  <1>1. /\ \A c \in 1..Len(contexts) : contexts'[c] = contexts[c]
        /\ UNCHANGED <<operations, logged, calls, stored>>
    BY Arrived
  <1>2. buffers' = Append(buffers, NewBuffer)
    BY DEF Receive
  <1>3. Len(operations) \in Nat /\ Len(operations) <= Len(operations)
    BY DEF TypeInv, TypeOK
  <1> QED BY <1>1, <1>2, <1>3, MoreContextsTags

LEMMA StartTags ==
  ASSUME TypeInv, TagsInv, NEW c \in 1..Len(contexts), NEW a \in BOOLEAN, StartOperation(c, a)
  PROVE  TagsInv'
  <1>0. PICK n, k : n = Len(contexts) + 1 /\ k = Len(operations) + 1
    OBVIOUS
  <1>1. /\ \A d \in 1..Len(contexts) : contexts'[d] = contexts[d]
        /\ \A o \in 1..Len(operations) : operations'[o] = operations[o]
        /\ Len(operations') = k /\ k \in Nat
        /\ UNCHANGED <<logged, calls, stored>>
    BY <1>0, OneStarted
  <1>2. buffers' = Append(buffers, NewBuffer)
    BY DEF StartOperation
  <1>3. Len(operations) <= k
    BY <1>0 DEF TypeInv, TypeOK
  <1> QED BY <1>1, <1>2, <1>3, MoreContextsTags

(* Steps that start nothing.                                               *)
LEMMA LocalTags ==
  ASSUME TypeInv, TagsInv, UNCHANGED <<contexts, operations>>,
         Len(buffers') = Len(buffers),
         Len(logged') \in Nat, Len(logged) <= Len(logged'),
         \A b \in 1..Len(buffers) :
           \/ buffers'[b].tag = buffers[b].tag
           \/ buffers[b].tag = 0 /\ buffers'[b].tag = Len(logged) + 1,
         \A x \in calls' :
           \/ x \in calls
           \/ /\ x.by \in 1..Len(contexts) /\ contexts[x.by].op \in 1..Len(operations)
              /\ x.since \in Nat /\ x.since <= Len(logged)
              /\ x.upTo /= -1 => x.since <= x.upTo
              /\ TagRead(operations[contexts[x.by].op].buf, x.tag, x.since),
         \A t \in stored' :
           \/ t \in stored \/ t.op = 0
           \/ /\ t.op \in 1..Len(operations)
              /\ t.since \in Nat /\ t.since <= Len(logged) /\ t.since <= t.upTo
              /\ TagRead(operations[t.op].buf, t.tag, t.since)
  PROVE  TagsInv'
  <1>1. Len(operations) \in Nat /\ Len(operations) <= Len(operations)
    BY DEF TypeInv, TypeOK
  <1> QED BY <1>1, SameTags

LEMMA HandleTags ==
  ASSUME TypeInv, TagsInv, NEW c \in 1..Len(contexts), NEW bound, NEW attr, Handle(c, bound, attr)
  PROVE  TagsInv'
  <1>1. buffers \in Seq(Buffers) /\ logged \in Seq(Nat)
    BY DEF TypeInv, TypeOK
  <1>2. /\ logged' = Append(logged, c)
        /\ UNCHANGED <<contexts, operations, calls, stored>>
    BY DEF Handle
  <1>3. Len(logged) \in Nat /\ Len(logged') = Len(logged) + 1 /\ Len(logged) <= Len(logged')
        /\ Len(logged') \in Nat
    BY <1>1, <1>2
  <1>4. Len(buffers') = Len(buffers) /\ \A b \in 1..Len(buffers) : buffers'[b].tag = buffers[b].tag
    <2>1. CASE buffers' = buffers
      BY <2>1
    <2>2. CASE \E e : buffers' = [buffers EXCEPT ![contexts[c].buf].entries = Append(@, e)]
      <3>1. \A b \in 1..Len(buffers) : buffers[b] \in Buffers
        BY <1>1
      <3>2. DOMAIN buffers' = DOMAIN buffers /\ Len(buffers') = Len(buffers)
        BY <2>2, <1>1
      <3> QED BY <2>2, <1>1, <3>1, <3>2 DEF Buffers
    <2> QED BY <2>1, <2>2 DEF Handle
  <1> QED BY <1>2, <1>3, <1>4, LocalTags

LEMMA TagTags ==
  ASSUME TypeInv, TagsInv, NEW c \in 1..Len(contexts), Tag(c)
  PROVE  TagsInv'
  <1> DEFINE b == contexts[c].buf
  <1>1. buffers \in Seq(Buffers) /\ Len(logged) \in Nat /\ Len(logged) <= Len(logged)
    BY DEF TypeInv, TypeOK
  <1>2. /\ buffers[b].tag = 0 /\ buffers' = [buffers EXCEPT ![b].tag = Len(logged) + 1]
        /\ UNCHANGED <<contexts, operations, logged, calls, stored>>
    BY DEF Tag
  <1>3. Len(buffers') = Len(buffers)
    BY <1>1, <1>2
  <1>4. \A k \in 1..Len(buffers) :
           \/ buffers'[k].tag = buffers[k].tag
           \/ buffers[k].tag = 0 /\ buffers'[k].tag = Len(logged) + 1
    <2>1. \A k \in 1..Len(buffers) : buffers[k] \in Buffers
      BY <1>1
    <2> QED BY <1>1, <1>2, <2>1 DEF Buffers
  <1> QED BY <1>1, <1>2, <1>3, <1>4, LocalTags

LEMMA ReadTagsTags ==
  ASSUME TypeInv, TagsInv, NEW c \in 1..Len(contexts), ReadTags(c)
  PROVE  TagsInv'
  <1> DEFINE o == operations[contexts[c].op]
             t == buffers[o.buf].tag
             v == IF t = 0 /\ o.attr THEN FromStart ELSE t
             x == [n |-> events, by |-> c, since |-> Len(logged), tag |-> v,
                   entries |-> <<>>, upTo |-> -1]
  <1>1. contexts[c].op \in 1..Len(operations) /\ Len(logged) \in Nat /\ Len(logged) <= Len(logged)
    BY DEF ReadTags, TypeInv, TypeOK
  <1>2. o.buf \in 1..Len(buffers)
    BY <1>1 DEF TypeInv
  <1>3. t \in Nat /\ t <= Len(logged) + 1
    <2>1. buffers[o.buf] \in Buffers
      BY <1>2 DEF TypeInv, TypeOK
    <2> QED BY <1>2, <2>1 DEF Buffers, TagsInv
  <1>4. calls' = calls \cup {x} /\ UNCHANGED <<contexts, operations, buffers, logged, stored>>
    BY DEF ReadTags
  <1>5. TagRead(o.buf, v, Len(logged))
    <2>1. CASE t = 0
      BY <2>1 DEF TagRead, FromStart
    <2>2. CASE t /= 0
      BY <2>2, <1>3 DEF TagRead
    <2> QED BY <2>1, <2>2
  <1> HIDE DEF v
  <1>6. x.by = c /\ x.since = Len(logged) /\ x.tag = v /\ x.upTo = -1
    OBVIOUS
  <1> HIDE DEF x
  <1> QED BY <1>1, <1>4, <1>5, <1>6, LocalTags

LEMMA ReadEntriesTags ==
  ASSUME TypeInv, TagsInv, NEW x \in calls, ReadEntries(x)
  PROVE  TagsInv'
  <1> DEFINE y == [x EXCEPT !.entries = buffers[operations[contexts[x.by].op].buf].entries,
                            !.upTo = Len(logged)]
  <1>1. /\ x.by \in 1..Len(contexts) /\ contexts[x.by].op \in 1..Len(operations)
        /\ x \in Calls /\ Len(logged) \in Nat /\ Len(logged) <= Len(logged)
    BY DEF TypeInv, TypeOK
  <1>2. y.by = x.by /\ y.since = x.since /\ y.tag = x.tag /\ y.upTo = Len(logged) /\ x.since \in Nat
    BY <1>1 DEF Calls
  <1>3. calls' = (calls \ {x}) \cup {y} /\ UNCHANGED <<contexts, operations, buffers, logged, stored>>
    BY DEF ReadEntries
  <1>4. x.since <= Len(logged) /\ TagRead(operations[contexts[x.by].op].buf, x.tag, x.since)
    BY DEF TagsInv
  <1> HIDE DEF y
  <1> QED BY <1>1, <1>2, <1>3, <1>4, LocalTags

LEMMA PromoteOperationTags ==
  ASSUME TypeInv, TagsInv, NEW x \in calls, PromoteOperation(x)
  PROVE  TagsInv'
  <1> DEFINE o == operations[contexts[x.by].op]
             t == [key |-> o.id, parent |-> o.parent, op |-> contexts[x.by].op,
                   origin |-> o.origin, tag |-> x.tag, entries |-> x.entries,
                   by |-> x.by, since |-> x.since, upTo |-> x.upTo]
  <1>1. /\ contexts[x.by].op \in 1..Len(operations) /\ x.since \in Nat
        /\ Len(logged) \in Nat /\ Len(logged) <= Len(logged)
    BY DEF TypeInv, TypeOK, Calls
  <1>2. /\ x.upTo /= -1 /\ Insert(t) /\ calls' = calls \ {x}
        /\ UNCHANGED <<contexts, operations, buffers, logged>>
    BY DEF PromoteOperation
  <1>3. t.op = contexts[x.by].op /\ t.tag = x.tag /\ t.since = x.since /\ t.upTo = x.upTo
    OBVIOUS
  <1> HIDE DEF t, o
  <1>4. \A s \in stored' : s \in stored \/ s = t
    BY <1>2 DEF Insert
  <1>5. /\ x.since <= Len(logged) /\ x.since <= x.upTo
        /\ TagRead(operations[contexts[x.by].op].buf, x.tag, x.since)
    BY <1>2 DEF TagsInv
  <1>6. \A s \in stored' :
           \/ s \in stored \/ s.op = 0
           \/ /\ s.op \in 1..Len(operations)
              /\ s.since \in Nat /\ s.since <= Len(logged) /\ s.since <= s.upTo
              /\ TagRead(operations[s.op].buf, s.tag, s.since)
    BY <1>1, <1>3, <1>4, <1>5
  <1> QED BY <1>1, <1>2, <1>6, LocalTags

LEMMA NextTags ==
  ASSUME TypeInv, TagsInv, [Next]_vars
  PROVE  TagsInv'
  <1>0. /\ DOMAIN contexts = 1..Len(contexts) /\ sent \subseteq [headers : Headers, from : Nat]
        /\ Len(logged) \in Nat /\ Len(logged) <= Len(logged)
    BY DEF TypeInv, TypeOK
  <1>1. ASSUME NEW h \in ClientHeaders, Receive(h, 0) PROVE TagsInv'
    <2>1. h \in Headers
      BY DEF ClientHeaders, Headers, IdOrNone
    <2> QED BY <1>1, <2>1, ReceiveTags
  <1>2. ASSUME NEW m \in sent, Receive(m.headers, m.from) PROVE TagsInv'
    BY <1>0, <1>2, ReceiveTags
  <1>3. ASSUME UNCHANGED <<contexts, operations, buffers, logged, calls>>,
               \A t \in stored' : t \in stored \/ t.op = 0
        PROVE  TagsInv'
    BY <1>0, <1>3, LocalTags
  <1>4. ASSUME NEW c \in 1..Len(contexts), NEW h, Send(c, h) PROVE TagsInv'
    BY <1>3, <1>4 DEF Send
  <1>5. ASSUME NEW c \in 1..Len(contexts), PromoteRequest(c) PROVE TagsInv'
    <2>1. UNCHANGED <<contexts, operations, buffers, logged, calls>>
          /\ \A t \in stored' : t \in stored \/ t.op = 0
      BY <1>5 DEF PromoteRequest, Insert
    <2> QED BY <2>1, <1>3
  <1>6. ASSUME NEW c \in 1..Len(contexts), ContextStep(c) PROVE TagsInv'
    BY <1>4, <1>5, <1>6, StartTags, HandleTags, TagTags, ReadTagsTags DEF ContextStep
  <1>7. ASSUME NEW x \in calls, ReadEntries(x) \/ PromoteOperation(x) PROVE TagsInv'
    BY <1>7, ReadEntriesTags, PromoteOperationTags
  <1>8. CASE UNCHANGED vars
    BY <1>3, <1>8 DEF vars
  <1> QED BY <1>0, <1>1, <1>2, <1>6, <1>7, <1>8 DEF Next

(* A trace shows the tag that was set before the promotion began and none  *)
(* that is younger than its lines, although both are read one after the    *)
(* other while others log and tag.                                         *)
THEOREM TagsStayFresh == Spec => []TagsAreFresh
  <1>1. Init => TypeInv /\ TagsInv
    BY InitTypes, InitTags
  <1>2. TypeInv /\ TagsInv /\ [Next]_vars => (TypeInv /\ TagsInv)'
    BY NextTypes, NextTags
  <1>3. TypeInv /\ TagsInv => TagsAreFresh
    <2> SUFFICES ASSUME TypeInv, TagsInv, NEW t \in stored, t.op /= 0
                 PROVE  LET tag == buffers[operations[t.op].buf].tag
                        IN  /\ tag /= 0 /\ tag <= t.since => t.tag = tag
                            /\ t.tag > 0 => t.tag <= t.upTo + 1
      BY DEF TagsAreFresh
    <2>1. /\ t.since <= t.upTo /\ TagRead(operations[t.op].buf, t.tag, t.since)
          /\ t.since \in Nat /\ t.upTo \in Int /\ t.tag \in Int
      BY DEF TagsInv, TypeInv, TypeOK, Traces, FromStart
    <2>2. t.tag > 0 => t.tag <= t.upTo + 1
      BY <2>1 DEF TagRead
    <2> QED BY <2>1, <2>2 DEF TagRead
  <1> QED BY <1>1, <1>2, <1>3, PTL DEF Spec

-----------------------------------------------------------------------------
(* A buffer belongs to one request or to one operation, ...                *)
BuffersInv ==
  /\ \A c, d \in 1..Len(contexts) : contexts[c].buf /= 0 =>
       (contexts[d].buf = contexts[c].buf <=> OnBehalfOf(c, d))
  /\ \A c \in 1..Len(contexts) : contexts[c].buf /= 0 =>
       contexts[c].req /= None \/ contexts[c].op /= 0
  /\ \A c \in 1..Len(contexts) : contexts[c].op /= 0 =>
       contexts[c].buf /= 0 /\ operations[contexts[c].op].buf = contexts[c].buf

(* ... keeps all of the lines logged with it, in order, ...                *)
Buffered(b) == {n \in 1..Len(logged) : contexts[logged[n]].buf = b}

(* ... and those of an operation with its ID.                              *)
Signed(c, entries) ==
  contexts[c].op /= 0 =>
    \A n \in DOMAIN entries : entries[n].op = operations[contexts[c].op].id

LinesInv ==
  /\ \A n \in 1..Len(logged) : logged[n] \in 1..Len(contexts)
  /\ \A b \in 1..Len(buffers) : InOrder(buffers[b].entries, Buffered(b))
  /\ \A c \in 1..Len(contexts) :
       contexts[c].buf /= 0 => Signed(c, buffers[contexts[c].buf].entries)

(* What was read for a trace from context c after upTo lines.              *)
Shown(c, entries, upTo) ==
  /\ c \in 1..Len(contexts) /\ upTo \in 0..Len(logged)
  /\ InOrder(entries, LinesFor(c, upTo))
  /\ Signed(c, entries)

ShownInv ==
  /\ \A x \in calls : x.upTo /= -1 => Shown(x.by, x.entries, x.upTo)
  /\ \A t \in stored :
       /\ Shown(t.by, t.entries, t.upTo) /\ t.op = contexts[t.by].op
       /\ t.op /= 0 => t.key = operations[t.op].id

TracesInv == BuffersInv /\ LinesInv /\ ShownInv
LEMMA InitTraces == Init => TracesInv
  <1> SUFFICES ASSUME Init PROVE TracesInv
    OBVIOUS
  <1>1. /\ Len(contexts) = 1 /\ contexts[1] = Background /\ Len(buffers) = 0 /\ Len(logged) = 0
        /\ calls = {} /\ stored = {} /\ 1..1 = {1} /\ 1..0 = {}
    BY DEF Init
  <1>2. Background.op = 0 /\ Background.buf = 0
    BY DEF Background
  <1> QED BY <1>1, <1>2 DEF TracesInv, BuffersInv, LinesInv, ShownInv

(* What a buffer holds is what its context is to be shown with.            *)
LEMMA BufferShown ==
  ASSUME TypeInv, TracesInv, NEW c \in 1..Len(contexts), contexts[c].buf /= 0
  PROVE  Shown(c, buffers[contexts[c].buf].entries, Len(logged))
  <1>1. PICK b \in 1..Len(buffers) : b = contexts[c].buf
    BY DEF TypeInv, TypeOK
  <1>2. InOrder(buffers[b].entries, Buffered(b)) /\ Signed(c, buffers[b].entries)
    BY <1>1 DEF TracesInv, LinesInv
  <1>3. Buffered(b) = LinesFor(c, Len(logged))
    BY <1>1 DEF Buffered, LinesFor, TracesInv, LinesInv, BuffersInv
  <1>4. Len(logged) \in 0..Len(logged)
    BY DEF TypeInv, TypeOK
  <1> QED BY <1>1, <1>2, <1>3, <1>4 DEF Shown

(* What was shown stays so when contexts, operations and lines are added.  *)
LEMMA StaysShown ==
  ASSUME TypeInv, TracesInv, NEW c, NEW entries, NEW k, Shown(c, entries, k),
         \A d \in 1..Len(contexts) : contexts'[d] = contexts[d] /\ d \in 1..Len(contexts'),
         \A o \in 1..Len(operations) : operations'[o] = operations[o],
         Len(logged') \in Nat, Len(logged) <= Len(logged'),
         \A n \in 1..Len(logged) : logged'[n] = logged[n]
  PROVE  Shown(c, entries, k)'
  <1>1. c \in 1..Len(contexts) /\ k \in 0..Len(logged) /\ Len(logged) \in Nat
    BY DEF Shown, TypeInv, TypeOK
  <1>2. k \in 0..Len(logged') /\ 1..k \subseteq 1..Len(logged)
    BY <1>1
  <1>3. \A n \in 1..k : logged[n] \in 1..Len(contexts)
    BY <1>2 DEF TracesInv, LinesInv
  <1>4. \A n \in 1..k : OnBehalfOf(c, logged[n])' <=> OnBehalfOf(c, logged[n])
    <2> SUFFICES ASSUME NEW n \in 1..k
                 PROVE  OnBehalfOf(c, logged[n])' <=> OnBehalfOf(c, logged[n])
      OBVIOUS
    <2>1. logged'[n] = logged[n] /\ logged[n] \in 1..Len(contexts)
      BY <1>2, <1>3
    <2>2. PICK d \in 1..Len(contexts) : d = logged[n] /\ d = logged'[n]
      BY <2>1
    <2>3. contexts'[c] = contexts[c] /\ contexts'[d] = contexts[d]
      BY <1>1
    <2> QED BY <2>2, <2>3 DEF OnBehalfOf
  <1>5. LinesFor(c, k)' = LinesFor(c, k)
    BY <1>4 DEF LinesFor
  <1>6. Signed(c, entries)'
    <2>1. contexts[c].op \in 0..Len(operations) /\ Len(operations) \in Nat
      BY <1>1 DEF TypeInv, TypeOK
    <2>2. contexts[c].op /= 0 => contexts[c].op \in 1..Len(operations)
      BY <2>1
    <2> QED BY <1>1, <2>2 DEF Shown, Signed
  <1> QED BY <1>1, <1>2, <1>5, <1>6 DEF Shown, InOrder

LEMMA StayShown ==
  ASSUME TypeInv, TracesInv,
         \A d \in 1..Len(contexts) : contexts'[d] = contexts[d] /\ d \in 1..Len(contexts'),
         \A o \in 1..Len(operations) : operations'[o] = operations[o],
         Len(logged') \in Nat, Len(logged) <= Len(logged'),
         \A n \in 1..Len(logged) : logged'[n] = logged[n],
         \A x \in calls' :
           x \in calls \/ x.upTo = -1 \/ Shown(x.by, x.entries, x.upTo),
         \A t \in stored' :
           \/ t \in stored
           \/ /\ Shown(t.by, t.entries, t.upTo) /\ t.op = contexts[t.by].op
              /\ t.op /= 0 => t.key = operations[t.op].id
  PROVE  ShownInv'
  <1>1. ASSUME NEW x \in calls', x.upTo /= -1 PROVE Shown(x.by, x.entries, x.upTo)'
    <2>1. Shown(x.by, x.entries, x.upTo)
      BY <1>1 DEF TracesInv, ShownInv
    <2>2. PICK c, e, k : c = x.by /\ e = x.entries /\ k = x.upTo
      OBVIOUS
    <2>3. Shown(c, e, k)'
      BY <2>1, <2>2, StaysShown
    <2> QED BY <2>2, <2>3
  <1>2. ASSUME NEW t \in stored'
        PROVE  /\ Shown(t.by, t.entries, t.upTo)' /\ t.op = contexts'[t.by].op
               /\ t.op /= 0 => t.key = operations'[t.op].id
    <2>1. /\ Shown(t.by, t.entries, t.upTo) /\ t.op = contexts[t.by].op
          /\ t.op /= 0 => t.key = operations[t.op].id
      BY <1>2 DEF TracesInv, ShownInv
    <2>2. PICK c, e, k : c = t.by /\ e = t.entries /\ k = t.upTo
      OBVIOUS
    <2>3. Shown(c, e, k)'
      BY <2>1, <2>2, StaysShown
    <2>4. c \in 1..Len(contexts) /\ contexts[c].op \in 0..Len(operations) /\ Len(operations) \in Nat
      BY <2>1, <2>2 DEF Shown, TypeInv, TypeOK
    <2>5. t.op /= 0 => t.op \in 1..Len(operations)
      BY <2>1, <2>2, <2>4
    <2> QED BY <2>1, <2>2, <2>3, <2>4, <2>5
  <1> QED BY <1>1, <1>2 DEF ShownInv
(* A context with a buffer and, if it is one of an operation, an operation *)
(* of its own.                                                             *)
LEMMA NewContextTraces ==
  ASSUME TypeInv, TracesInv, NEW n, n \notin 1..Len(contexts),
         \A i : i \in 1..Len(contexts') <=> i \in 1..Len(contexts) \/ i = n,
         \A i \in 1..Len(contexts) : contexts'[i] = contexts[i],
         contexts'[n].buf = Len(buffers) + 1,
         contexts'[n].req /= None \/ contexts'[n].op /= 0,
         contexts'[n].op \notin 1..Len(operations),
         contexts'[n].op /= 0 => operations'[contexts'[n].op].buf = Len(buffers) + 1,
         \A o \in 1..Len(operations) : operations'[o] = operations[o],
         buffers' = Append(buffers, NewBuffer), UNCHANGED <<logged, calls, stored>>
  PROVE  TracesInv'
  <1>0. PICK m : m = Len(buffers) + 1
    OBVIOUS
  <1>1. /\ \A c \in 1..Len(contexts) :
             /\ contexts[c].buf \in 0..Len(buffers) /\ contexts[c].buf /= m
             /\ contexts[c].op = 0 \/ contexts[c].op \in 1..Len(operations)
        /\ Len(buffers) \in Nat /\ m /= 0 /\ Len(logged) \in Nat
    BY <1>0 DEF TypeInv, TypeOK
  <1>2. BuffersInv'
    <2>1. ASSUME NEW c \in 1..Len(contexts'), NEW d \in 1..Len(contexts'), contexts'[c].buf /= 0
          PROVE  contexts'[d].buf = contexts'[c].buf <=> OnBehalfOf(c, d)'
      <3>1. CASE c \in 1..Len(contexts) /\ d \in 1..Len(contexts)
        <4>1. contexts'[c] = contexts[c] /\ contexts'[d] = contexts[d]
          BY <3>1
        <4>2. contexts[d].buf = contexts[c].buf <=> OnBehalfOf(c, d)
          BY <2>1, <3>1, <4>1 DEF TracesInv, BuffersInv
        <4> QED BY <4>1, <4>2 DEF OnBehalfOf
      <3>2. CASE c = n /\ d = n
        BY <3>2 DEF OnBehalfOf
      <3>3. CASE c = n /\ d \in 1..Len(contexts)
        BY <3>3, <1>0, <1>1 DEF OnBehalfOf
      <3>4. CASE c \in 1..Len(contexts) /\ d = n
        BY <3>4, <1>0, <1>1 DEF OnBehalfOf
      <3> QED BY <3>1, <3>2, <3>3, <3>4
    <2>2. ASSUME NEW c \in 1..Len(contexts'), contexts'[c].buf /= 0
          PROVE  contexts'[c].req /= None \/ contexts'[c].op /= 0
      BY <2>2 DEF TracesInv, BuffersInv
    <2>3. ASSUME NEW c \in 1..Len(contexts'), contexts'[c].op /= 0
          PROVE  contexts'[c].buf /= 0 /\ operations'[contexts'[c].op].buf = contexts'[c].buf
      <3>1. CASE c = n
        BY <2>3, <3>1, <1>0, <1>1
      <3>2. CASE c \in 1..Len(contexts)
        <4>1. contexts'[c] = contexts[c] /\ contexts[c].op \in 1..Len(operations)
          BY <2>3, <3>2, <1>1
        <4>2. contexts[c].buf /= 0 /\ operations[contexts[c].op].buf = contexts[c].buf
          BY <2>3, <3>2, <4>1 DEF TracesInv, BuffersInv
        <4> QED BY <4>1, <4>2
      <3> QED BY <3>1, <3>2
    <2> QED BY <2>1, <2>2, <2>3 DEF BuffersInv
  <1>3. /\ \A b \in 1..Len(buffers) : buffers'[b] = buffers[b]
        /\ buffers'[m] = NewBuffer
        /\ \A b : b \in 1..Len(buffers') <=> b \in 1..Len(buffers) \/ b = m
    <2>1. buffers \in Seq(Buffers) /\ NewBuffer \in Buffers
      BY DEF TypeInv, TypeOK, NewBuffer, Buffers
    <2> QED BY <1>0, <2>1, Appended
  <1>4. NewBuffer.entries = <<>> /\ DOMAIN NewBuffer.entries = {}
    BY DEF NewBuffer
  <1>5. LinesInv'
    <2>1. ASSUME NEW i \in 1..Len(logged') PROVE logged'[i] \in 1..Len(contexts')
      BY DEF TracesInv, LinesInv
    <2>2. \A i \in 1..Len(logged) : contexts'[logged'[i]] = contexts[logged[i]]
                                   /\ contexts[logged[i]].buf /= m
      BY <1>1 DEF TracesInv, LinesInv
    <2>3. ASSUME NEW b \in 1..Len(buffers') PROVE InOrder(buffers'[b].entries, Buffered(b)')
      <3>1. CASE b \in 1..Len(buffers)
        <4>1. Buffered(b)' = Buffered(b)
          BY <2>2 DEF Buffered
        <4> QED BY <3>1, <4>1, <1>3 DEF TracesInv, LinesInv
      <3>2. CASE b = m
        <4>1. Buffered(b)' = {}
          BY <2>2, <3>2 DEF Buffered
        <4> QED BY <3>2, <4>1, <1>3, <1>4 DEF InOrder
      <3> QED BY <3>1, <3>2, <1>3
    <2>4. ASSUME NEW c \in 1..Len(contexts'), contexts'[c].buf /= 0
          PROVE  Signed(c, buffers[contexts[c].buf].entries)'
      <3>1. CASE c \in 1..Len(contexts)
        <4>1. contexts[c].buf \in 1..Len(buffers) /\ Signed(c, buffers[contexts[c].buf].entries)
          BY <2>4, <3>1, <1>1 DEF TracesInv, LinesInv
        <4>2. /\ contexts'[c] = contexts[c]
              /\ buffers'[contexts'[c].buf] = buffers[contexts[c].buf]
              /\ contexts[c].op /= 0 =>
                   operations'[contexts'[c].op] = operations[contexts[c].op]
          BY <3>1, <4>1, <1>1, <1>3
        <4> QED BY <4>1, <4>2 DEF Signed
      <3>2. CASE c = n
        BY <3>2, <1>0, <1>3, <1>4 DEF Signed
      <3> QED BY <3>1, <3>2
    <2> QED BY <2>1, <2>3, <2>4 DEF LinesInv
  <1>6. ShownInv'
    BY <1>1, StayShown
  <1> QED BY <1>2, <1>5, <1>6 DEF TracesInv

LEMMA ReceiveTraces ==
  ASSUME TypeInv, TracesInv, NEW h \in Headers, NEW f \in Nat, Receive(h, f)
  PROVE  TracesInv'
  <1>1. PICK n : n = Len(contexts) + 1
    OBVIOUS
  <1>2. /\ n \notin 1..Len(contexts)
        /\ \A i : i \in 1..Len(contexts') <=> i \in 1..Len(contexts) \/ i = n
        /\ \A i \in 1..Len(contexts) : contexts'[i] = contexts[i]
        /\ contexts'[n].op = 0 /\ contexts'[n].req = IF BothGiven(h) THEN h.id ELSE minted + 1
        /\ minted \in Nat /\ UNCHANGED <<operations, logged, calls, stored>>
    BY <1>1, Arrived
  <1>3. contexts'[n].req /= None
    BY <1>2, IdAssumption DEF BothGiven
  <1>4. contexts'[n].buf = Len(buffers) + 1 /\ buffers' = Append(buffers, NewBuffer)
    BY <1>1 DEF Receive, TypeInv, TypeOK
  <1>5. contexts'[n].op \notin 1..Len(operations)
    BY <1>2 DEF TypeInv, TypeOK
  <1> QED BY <1>2, <1>3, <1>4, <1>5, NewContextTraces

LEMMA StartTraces ==
  ASSUME TypeInv, TracesInv, NEW c \in 1..Len(contexts), NEW a \in BOOLEAN, StartOperation(c, a)
  PROVE  TracesInv'
  <1>1. PICK n, k : n = Len(contexts) + 1 /\ k = Len(operations) + 1
    OBVIOUS
  <1>2. /\ n \notin 1..Len(contexts)
        /\ \A i : i \in 1..Len(contexts') <=> i \in 1..Len(contexts) \/ i = n
        /\ \A i \in 1..Len(contexts) : contexts'[i] = contexts[i]
        /\ \A o \in 1..Len(operations) : operations'[o] = operations[o]
        /\ contexts'[n].op /= 0 /\ UNCHANGED <<logged, calls, stored>>
    BY <1>1, OneStarted
  <1>3. /\ contexts' = Append(contexts, Inside(c)) /\ Inside(c) \in Contexts
        /\ operations' = Append(operations, NewOperation(c, a)) /\ NewOperation(c, a) \in Operation
        /\ Inside(c).op = k /\ Inside(c).buf = Len(buffers) + 1
        /\ NewOperation(c, a).buf = Len(buffers) + 1
        /\ buffers' = Append(buffers, NewBuffer)
    BY <1>1, Started
  <1>4. contexts \in Seq(Contexts) /\ operations \in Seq(Operation)
    BY DEF TypeInv, TypeOK
  <1>5. contexts'[n] = Inside(c) /\ operations'[k] = NewOperation(c, a) /\ k \notin 1..Len(operations)
    BY <1>1, <1>3, <1>4, Appended
  <1> QED BY <1>2, <1>3, <1>5, NewContextTraces
(* A line goes to the buffer of its context, if there is one.              *)
LEMMA HandleTraces ==
  ASSUME TypeInv, TracesInv, NEW c \in 1..Len(contexts), NEW bound, NEW attr, Handle(c, bound, attr)
  PROVE  TracesInv'
  <1> DEFINE ctx == contexts[c]
             op  == IF ctx.op /= 0 THEN operations[ctx.op].id ELSE attr
             e   == [line |-> Len(logged) + 1, op |-> op]
  <1>1. /\ buffers \in Seq(Buffers) /\ logged \in Seq(Nat) /\ c \in Nat /\ Len(logged) \in Nat
        /\ ctx.buf \in 0..Len(buffers) /\ Len(buffers) \in Nat
    BY DEF TypeInv, TypeOK
  <1>2. /\ logged' = Append(logged, c)
        /\ UNCHANGED <<contexts, operations, calls, stored>>
    BY DEF Handle
  <1>3. PICK k : k = Len(logged) + 1
    OBVIOUS
  <1>4. /\ Len(logged') \in Nat /\ Len(logged) <= Len(logged') /\ logged'[k] = c
        /\ \A n \in 1..Len(logged) : logged'[n] = logged[n] /\ n < k
        /\ \A n : n \in 1..Len(logged') <=> n \in 1..Len(logged) \/ n = k
    BY <1>1, <1>2, <1>3, Appended
  <1>5. /\ Len(buffers') = Len(buffers)
        /\ \A b \in 1..Len(buffers) : b /= ctx.buf => buffers'[b] = buffers[b]
        /\ ctx.buf /= 0 => buffers'[ctx.buf].entries = Append(buffers[ctx.buf].entries, e)
    <2>1. CASE ctx.buf = 0
      <3>1. buffers' = buffers
        BY <2>1 DEF Handle
      <3> QED BY <2>1, <3>1
    <2>2. CASE ctx.buf /= 0
      <3>1. ctx.req /= None \/ ctx.op /= 0
        BY <2>2 DEF TracesInv, BuffersInv
      <3>2. buffers' = [buffers EXCEPT ![ctx.buf].entries = Append(@, e)]
        BY <2>2, <3>1 DEF Handle
      <3>3. ctx.buf \in 1..Len(buffers) /\ buffers[ctx.buf] \in Buffers
        BY <1>1, <2>2
      <3> QED BY <3>2, <3>3, <1>1 DEF Buffers
    <2> QED BY <2>1, <2>2
  <1>6. e.line = k /\ e.op = op /\ (ctx.op /= 0 => op = operations[ctx.op].id)
    BY <1>3
  <1> HIDE DEF e, op
  <1>7. \A b : Buffered(b)' = IF ctx.buf = b THEN Buffered(b) \cup {k} ELSE Buffered(b)
    BY <1>2, <1>4 DEF Buffered
  <1>8. ASSUME NEW b \in 1..Len(buffers)
        PROVE  InOrder(buffers'[b].entries, Buffered(b)')
    <2>1. InOrder(buffers[b].entries, Buffered(b)) /\ buffers[b].entries \in Seq(Entry)
      <3>1. buffers[b] \in Buffers
        BY <1>1
      <3> QED BY <3>1 DEF TracesInv, LinesInv, Buffers
    <2>2. CASE b /= ctx.buf
      BY <2>1, <2>2, <1>5, <1>7
    <2>3. CASE b = ctx.buf
      <3>1. PICK s : s = buffers[b].entries
        OBVIOUS
      <3>2. PICK t : t = Append(s, e)
        OBVIOUS
      <3>3. PICK z : z = Len(s) + 1
        OBVIOUS
      <3>4. s \in Seq(Entry) /\ Len(s) \in Nat /\ z \in Nat
        BY <2>1, <3>1, <3>3
      <3>5. /\ t[z] = e /\ \A i \in DOMAIN s : t[i] = s[i] /\ i < z
            /\ \A i : i \in DOMAIN t <=> i \in DOMAIN s \/ i = z
            /\ \A i \in DOMAIN t : i <= z
        BY <3>2, <3>3, <3>4
      <3>6. \A i \in DOMAIN s : s[i].line \in Buffered(b) /\ s[i].line < k
        <4>1. \A n \in Buffered(b) : n < k
          BY <1>4 DEF Buffered
        <4> QED BY <4>1, <2>1, <3>1 DEF InOrder
      <3>7. {t[i].line : i \in DOMAIN t} = Buffered(b) \cup {k}
        BY <3>1, <3>5, <2>1, <1>6 DEF InOrder
      <3>8. \A i, j \in DOMAIN t : i < j => t[i].line < t[j].line
        <4> SUFFICES ASSUME NEW i \in DOMAIN t, NEW j \in DOMAIN t, i < j
                     PROVE  t[i].line < t[j].line
          OBVIOUS
        <4>1. i \in DOMAIN s
          <5>1. i \in Int /\ j \in Int
            BY <3>4, <3>5
          <5> QED BY <3>4, <3>5, <5>1
        <4>2. CASE j \in DOMAIN s
          BY <4>1, <4>2, <3>1, <3>5, <2>1 DEF InOrder
        <4>3. CASE j = z
          BY <4>1, <4>3, <3>5, <3>6, <1>6
        <4> QED BY <4>2, <4>3, <3>5
      <3>9. buffers'[b].entries = t /\ Buffered(b)' = Buffered(b) \cup {k}
        BY <2>3, <3>1, <3>2, <1>1, <1>5, <1>7
      <3> QED BY <3>7, <3>8, <3>9 DEF InOrder
    <2> QED BY <2>2, <2>3
  <1>9. ASSUME NEW d \in 1..Len(contexts), contexts[d].buf /= 0
        PROVE  Signed(d, buffers[contexts[d].buf].entries)'
    <2>1. PICK b \in 1..Len(buffers) : b = contexts[d].buf
      BY <1>9 DEF TypeInv, TypeOK
    <2>2. Signed(d, buffers[b].entries) /\ buffers[b].entries \in Seq(Entry)
      <3>1. buffers[b] \in Buffers
        BY <1>1
      <3> QED BY <2>1, <3>1, <1>9 DEF TracesInv, LinesInv, Buffers
    <2>3. CASE b /= ctx.buf
      BY <2>1, <2>2, <2>3, <1>2, <1>5 DEF Signed
    <2>4. CASE b = ctx.buf
      <3>1. contexts[d].op /= 0 => ctx.op = contexts[d].op
        <4>1. ctx.buf = contexts[d].buf <=> OnBehalfOf(d, c)
          BY <1>9 DEF TracesInv, BuffersInv
        <4> QED BY <4>1, <2>1, <2>4 DEF OnBehalfOf
      <3>2. contexts[d].op /= 0 => e.op = operations[contexts[d].op].id
        BY <3>1, <1>6
      <3>3. buffers'[b].entries = Append(buffers[b].entries, e)
        BY <2>4, <1>5
      <3>4. \A n \in DOMAIN buffers'[b].entries :
              \/ buffers'[b].entries[n] = e
              \/ n \in DOMAIN buffers[b].entries /\ buffers'[b].entries[n] = buffers[b].entries[n]
        BY <2>2, <3>3
      <3> QED BY <2>1, <2>2, <3>2, <3>4, <1>2 DEF Signed
    <2> QED BY <2>3, <2>4
  <1>10. BuffersInv'
    BY <1>2 DEF TracesInv, BuffersInv, OnBehalfOf
  <1>11. LinesInv'
    <2>1. \A n \in 1..Len(logged') : logged'[n] \in 1..Len(contexts')
      BY <1>2, <1>4 DEF TracesInv, LinesInv
    <2> QED BY <2>1, <1>2, <1>5, <1>8, <1>9 DEF LinesInv
  <1>12. ShownInv'
    BY <1>2, <1>4, StayShown
  <1> QED BY <1>10, <1>11, <1>12 DEF TracesInv
(* Steps that log nothing and start nothing.                               *)
LEMMA LocalTraces ==
  ASSUME TypeInv, TracesInv, UNCHANGED <<contexts, operations, logged>>,
         Len(buffers') = Len(buffers),
         \A b \in 1..Len(buffers) : buffers'[b].entries = buffers[b].entries,
         \A x \in calls' :
           x \in calls \/ x.upTo = -1 \/ Shown(x.by, x.entries, x.upTo),
         \A t \in stored' :
           \/ t \in stored
           \/ /\ Shown(t.by, t.entries, t.upTo) /\ t.op = contexts[t.by].op
              /\ t.op /= 0 => t.key = operations[t.op].id
  PROVE  TracesInv'
  <1>1. Len(logged) \in Nat /\ Len(logged) <= Len(logged)
    BY DEF TypeInv, TypeOK
  <1>2. ShownInv'
    BY <1>1, StayShown
  <1>3. BuffersInv'
    BY DEF TracesInv, BuffersInv, OnBehalfOf
  <1>4. LinesInv'
    <2>1. ASSUME NEW b \in 1..Len(buffers') PROVE InOrder(buffers'[b].entries, Buffered(b)')
      BY DEF TracesInv, LinesInv, Buffered
    <2>2. ASSUME NEW c \in 1..Len(contexts'), contexts'[c].buf /= 0
          PROVE  Signed(c, buffers[contexts[c].buf].entries)'
      <3>1. contexts[c].buf \in 1..Len(buffers) /\ Signed(c, buffers[contexts[c].buf].entries)
        BY <2>2 DEF TracesInv, LinesInv, TypeInv, TypeOK
      <3> QED BY <3>1 DEF Signed
    <2> QED BY <2>1, <2>2 DEF TracesInv, LinesInv
  <1> QED BY <1>2, <1>3, <1>4 DEF TracesInv

LEMMA TagTraces ==
  ASSUME TypeInv, TracesInv, NEW c \in 1..Len(contexts), Tag(c)
  PROVE  TracesInv'
  <1> DEFINE b == contexts[c].buf
  <1>1. buffers \in Seq(Buffers)
    BY DEF TypeInv, TypeOK
  <1>2. /\ buffers' = [buffers EXCEPT ![b].tag = Len(logged) + 1]
        /\ UNCHANGED <<contexts, operations, logged, calls, stored>>
    BY DEF Tag
  <1>3. Len(buffers') = Len(buffers) /\ \A k \in 1..Len(buffers) : buffers[k] \in Buffers
    BY <1>1, <1>2
  <1>4. \A k \in 1..Len(buffers) : buffers'[k].entries = buffers[k].entries
    BY <1>1, <1>2, <1>3 DEF Buffers
  <1> QED BY <1>2, <1>3, <1>4, LocalTraces

LEMMA PromoteRequestTraces ==
  ASSUME TypeInv, TracesInv, NEW c \in 1..Len(contexts), PromoteRequest(c)
  PROVE  TracesInv'
  <1> DEFINE ctx == contexts[c]
             t == [key |-> ctx.req, parent |-> ctx.parent, op |-> 0, origin |-> None,
                   tag |-> buffers[ctx.buf].tag, entries |-> buffers[ctx.buf].entries,
                   by |-> c, since |-> Len(logged), upTo |-> Len(logged)]
  <1>1. ctx.op = 0 /\ ctx.buf /= 0 /\ Insert(t)
        /\ UNCHANGED <<contexts, operations, buffers, logged, calls>>
    BY DEF PromoteRequest
  <1>2. Shown(c, buffers[ctx.buf].entries, Len(logged))
    BY <1>1, BufferShown
  <1>3. t.by = c /\ t.op = 0 /\ t.entries = buffers[ctx.buf].entries /\ t.upTo = Len(logged)
    OBVIOUS
  <1> HIDE DEF t
  <1>4. \A s \in stored' : s \in stored \/ s = t
    BY <1>1 DEF Insert
  <1> QED BY <1>1, <1>2, <1>3, <1>4, LocalTraces

LEMMA ReadTagsTraces ==
  ASSUME TypeInv, TracesInv, NEW c \in 1..Len(contexts), ReadTags(c)
  PROVE  TracesInv'
  <1>1. UNCHANGED <<contexts, operations, buffers, logged, stored>>
        /\ \A x \in calls' : x \in calls \/ x.upTo = -1
    BY DEF ReadTags
  <1> QED BY <1>1, LocalTraces

LEMMA ReadEntriesTraces ==
  ASSUME TypeInv, TracesInv, NEW x \in calls, ReadEntries(x)
  PROVE  TracesInv'
  <1> DEFINE s == buffers[operations[contexts[x.by].op].buf].entries
             y == [x EXCEPT !.entries = s, !.upTo = Len(logged)]
  <1>1. x.by \in 1..Len(contexts) /\ contexts[x.by].op /= 0 /\ x \in Calls
    BY DEF TypeInv, TypeOK
  <1>2. contexts[x.by].buf /= 0 /\ operations[contexts[x.by].op].buf = contexts[x.by].buf
    BY <1>1 DEF TracesInv, BuffersInv
  <1>3. Shown(x.by, s, Len(logged))
    BY <1>1, <1>2, BufferShown
  <1>4. y.by = x.by /\ y.entries = s /\ y.upTo = Len(logged)
    BY <1>1 DEF Calls
  <1>5. calls' = (calls \ {x}) \cup {y} /\ UNCHANGED <<contexts, operations, buffers, logged, stored>>
    BY DEF ReadEntries
  <1> HIDE DEF y, s
  <1> QED BY <1>3, <1>4, <1>5, LocalTraces

LEMMA PromoteOperationTraces ==
  ASSUME TypeInv, TracesInv, NEW x \in calls, PromoteOperation(x)
  PROVE  TracesInv'
  <1> DEFINE o == operations[contexts[x.by].op]
             t == [key |-> o.id, parent |-> o.parent, op |-> contexts[x.by].op,
                   origin |-> o.origin, tag |-> x.tag, entries |-> x.entries,
                   by |-> x.by, since |-> x.since, upTo |-> x.upTo]
  <1>1. /\ x.upTo /= -1 /\ Insert(t) /\ calls' = calls \ {x}
        /\ UNCHANGED <<contexts, operations, buffers, logged>>
    BY DEF PromoteOperation
  <1>2. t.by = x.by /\ t.op = contexts[x.by].op /\ t.key = operations[contexts[x.by].op].id
        /\ t.entries = x.entries /\ t.upTo = x.upTo
    OBVIOUS
  <1> HIDE DEF t, o
  <1>3. \A s \in stored' : s \in stored \/ s = t
    BY <1>1 DEF Insert
  <1>4. Shown(x.by, x.entries, x.upTo)
    BY <1>1 DEF TracesInv, ShownInv
  <1> QED BY <1>1, <1>2, <1>3, <1>4, LocalTraces

LEMMA NextTraces ==
  ASSUME TypeInv, TracesInv, [Next]_vars
  PROVE  TracesInv'
  <1>0. DOMAIN contexts = 1..Len(contexts) /\ sent \subseteq [headers : Headers, from : Nat]
    BY DEF TypeInv, TypeOK
  <1>1. ASSUME NEW h \in ClientHeaders, Receive(h, 0) PROVE TracesInv'
    <2>1. h \in Headers
      BY DEF ClientHeaders, Headers, IdOrNone
    <2> QED BY <1>1, <2>1, ReceiveTraces
  <1>2. ASSUME NEW m \in sent, Receive(m.headers, m.from) PROVE TracesInv'
    BY <1>0, <1>2, ReceiveTraces
  <1>3. ASSUME NEW c \in 1..Len(contexts), NEW h, Send(c, h) PROVE TracesInv'
    <2>1. UNCHANGED <<contexts, operations, buffers, logged, calls, stored>>
      BY <1>3 DEF Send
    <2> QED BY <2>1, LocalTraces
  <1>4. ASSUME NEW c \in 1..Len(contexts), ContextStep(c) PROVE TracesInv'
    BY <1>3, <1>4, StartTraces, HandleTraces, TagTraces, PromoteRequestTraces, ReadTagsTraces
    DEF ContextStep
  <1>5. ASSUME NEW x \in calls, ReadEntries(x) \/ PromoteOperation(x) PROVE TracesInv'
    BY <1>5, ReadEntriesTraces, PromoteOperationTraces
  <1>6. CASE UNCHANGED vars
    BY <1>6, LocalTraces DEF vars
  <1> QED BY <1>0, <1>1, <1>2, <1>4, <1>5, <1>6 DEF Next

(* A trace shows the lines of its request or operation, all of those that  *)
(* were logged before it was read and no others, in order, although every  *)
(* context, also of a request that has ended, logs through the same        *)
(* handler; an operation's with its ID.                                    *)
THEOREM TracesStaySeparate == Spec => []TracesAreSeparate
  <1>1. Init => TypeInv /\ TracesInv
    BY InitTypes, InitTraces
  <1>2. TypeInv /\ TracesInv /\ [Next]_vars => (TypeInv /\ TracesInv)'
    BY NextTypes, NextTraces
  <1>3. TypeInv /\ TracesInv => TracesAreSeparate
    BY DEF TracesInv, ShownInv, Shown, Signed, TracesAreSeparate
  <1> QED BY <1>1, <1>2, <1>3, PTL DEF Spec
==============================================================================
