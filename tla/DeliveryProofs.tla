--------------------------- MODULE DeliveryProofs ----------------------------
(***************************************************************************)
(* Proofs about Delivery, for every set of exporters, callers and IDs and   *)
(* every bound: the exporters implement the one step for an export that     *)
(* Store has, the server receives a trace once, and the lines of the JSON   *)
(* exporters' files are whole.                                              *)
(***************************************************************************)
EXTENDS Delivery, StoreProofs, FiniteSetTheorems

(* Whoever holds the mutex or waits for an answer is an export goroutine   *)
(* that has read its trace back, and a JSON exporter's mutex has one       *)
(* holder.                                                                 *)
Jobs ==
  /\ writing \subseteq [x : exports, begun : BOOLEAN]
  /\ \A w \in writing : w.x.got /= NoTrace /\ w.x.exporter \in Writers
  /\ \A v, w \in writing : v.x.exporter = w.x.exporter => v = w
  /\ posted \subseteq exports
  /\ \A x \in posted : x.got /= NoTrace /\ x.exporter \notin Writers

LEMMA InitJobs == DeliveryInit => Jobs
  BY DEF DeliveryInit, Jobs

(* What Store does by itself removes no goroutine that is exporting.       *)
LEMMA StoreOnlyKeepsJobs ==
  ASSUME Jobs, StoreOnly, UNCHANGED deliveryVars
  PROVE  Jobs'
  <1>1. UNCHANGED <<writing, posted>>
    BY DEF deliveryVars
  <1>2. \A x \in exports : x.got /= NoTrace => x \in exports'
    <2>1. CASE UNCHANGED exports
      BY <2>1
    <2>2. ASSUME NEW c \in Callers, NotifyCall(c)
          PROVE  exports \subseteq exports'
      BY <2>2 DEF NotifyCall
    <2>3. ASSUME NEW x \in exports, GetTrace(x)
          PROVE  x.got = NoTrace /\ exports \ {x} \subseteq exports'
      BY <2>3 DEF GetTrace
    <2>4. ASSUME \/ Tick
                 \/ \E c \in Callers : Promote(c) \/ PromoteAt(c) \/ NotifyCheck(c) \/ NotifyNil(c)
                 \/ Unwire \/ \E e \in Exporters : WireExporter(e)
                 \/ \E i \in Ids : DeleteTrace(i)
          PROVE  UNCHANGED exports
      BY <2>4 DEF Tick, Promote, PromoteAt, Insert, NotifyCheck, NotifyNil, Unwire, WireExporter,
         DeleteTrace
    <2> QED BY <2>1, <2>2, <2>3, <2>4 DEF StoreOnly
  <1>3. writing' \subseteq [x : exports', begun : BOOLEAN]
    <2> SUFFICES ASSUME NEW w \in writing PROVE w \in [x : exports', begun : BOOLEAN]
      BY <1>1
    <2>1. w \in [x : exports, begun : BOOLEAN] /\ w.x.got /= NoTrace
      BY DEF Jobs
    <2>2. w.x \in exports'
      BY <2>1, <1>2
    <2> QED BY <2>1, <2>2
  <1>4. posted' \subseteq exports'
    BY <1>1, <1>2 DEF Jobs
  <1> QED BY <1>1, <1>3, <1>4 DEF Jobs

(* The end of a goroutine that is exporting ends none of the others.       *)
LEMMA EndKeepsJobs ==
  ASSUME Jobs, NEW x, exports' = exports \ {x},
         writing' = {v \in writing : v.x /= x}, posted' = posted \ {x}
  PROVE  Jobs'
  <1>1. writing' \subseteq [x : exports', begun : BOOLEAN]
    <2> SUFFICES ASSUME NEW v \in writing, v.x /= x PROVE v \in [x : exports', begun : BOOLEAN]
      OBVIOUS
    <2>1. v \in [x : exports, begun : BOOLEAN]
      BY DEF Jobs
    <2>2. v.x \in exports'
      BY <2>1
    <2> QED BY <2>1, <2>2
  <1> QED BY <1>1 DEF Jobs

(* The steps of an export: what each of them does to the jobs.             *)
LEMMA WriterEnds ==
  ASSUME Jobs, NEW w \in writing
  PROVE  writing \ {w} = {v \in writing : v.x /= w.x} /\ posted = posted \ {w.x}
  BY DEF Jobs

LEMMA PosterEnds ==
  ASSUME Jobs, NEW x \in posted
  PROVE  writing = {v \in writing : v.x /= x}
  BY DEF Jobs

LEMMA NextJobs == Jobs /\ [DeliveryNext]_allVars => Jobs'
  <1> SUFFICES ASSUME Jobs, [DeliveryNext]_allVars PROVE Jobs'
    OBVIOUS
  <1>1. CASE StoreOnly /\ UNCHANGED deliveryVars
    BY <1>1, StoreOnlyKeepsJobs
  <1>2. ASSUME NEW x \in exports, Lock(x) PROVE Jobs'
    <2>1. [x |-> x, begun |-> FALSE] \in [x : exports, begun : BOOLEAN]
      OBVIOUS
    <2> DEFINE new == [x |-> x, begun |-> FALSE]
    <2>2. UNCHANGED <<exports, posted>>
      BY <1>2 DEF Lock, storeVars
    <2>3. writing' = writing \cup {new} /\ new.x = x
          /\ \A w \in writing : w.x.exporter /= x.exporter
      BY <1>2 DEF Lock
    <2>4. x.exporter \in Writers /\ x.got /= NoTrace
      BY <1>2 DEF Lock, Ready
    <2> HIDE DEF new
    <2> QED BY <2>1, <2>2, <2>3, <2>4 DEF Jobs, new
  <1>3. ASSUME NEW x \in exports, Post(x) PROVE Jobs'
    BY <1>3 DEF Post, Ready, Jobs, storeVars
  <1>4. ASSUME NEW x \in exports, NothingSent(x) PROVE Jobs'
    <2>1. writing' = {v \in writing : v.x /= x} /\ posted' = posted \ {x}
          /\ exports' = exports \ {x}
      BY <1>4 DEF NothingSent, ExportFails, deliveryVars
    <2> QED BY <2>1, EndKeepsJobs
  <1>5. ASSUME NEW w \in writing, WriteSome(w) PROVE Jobs'
    <2> DEFINE v == [w EXCEPT !.begun = TRUE]
    <2>1. w \in [x : exports, begun : BOOLEAN] /\ v \in [x : exports, begun : BOOLEAN]
          /\ v.x = w.x
      BY DEF Jobs
    <2>2. UNCHANGED <<exports, posted>> /\ writing' = (writing \ {w}) \cup {v}
      BY <1>5 DEF WriteSome, storeVars
    <2> HIDE DEF v
    <2> QED BY <2>1, <2>2 DEF Jobs
  <1>6. ASSUME NEW w \in writing, WriteRest(w) \/ WriteFails(w) PROVE Jobs'
    <2>1. exports' = exports \ {w.x} /\ writing' = writing \ {w} /\ posted' = posted
      BY <1>6 DEF WriteRest, WriteFails, Export, ExportFails
    <2> QED BY <2>1, WriterEnds, EndKeepsJobs
  <1>7. ASSUME NEW x \in posted, Answered(x) \/ AnswerFails(x) PROVE Jobs'
    <2>1. exports' = exports \ {x} /\ writing' = writing /\ posted' = posted \ {x}
      BY <1>7 DEF Answered, AnswerFails, Export, ExportFails
    <2> QED BY <2>1, PosterEnds, EndKeepsJobs
  <1>8. CASE Restart
    BY <1>8 DEF Restart, Crash, Jobs
  <1>9. CASE UNCHANGED allVars
    BY <1>9 DEF allVars, storeVars, deliveryVars, Jobs
  <1> QED BY <1>1, <1>2, <1>3, <1>4, <1>5, <1>6, <1>7, <1>8, <1>9 DEF DeliveryNext

(* Every step is one of Store's, or leaves what Store has as it was.       *)
LEMMA StepImplements == Jobs /\ [DeliveryNext]_allVars => [Next]_storeVars
  <1> SUFFICES ASSUME Jobs, [DeliveryNext]_allVars PROVE [Next]_storeVars
    OBVIOUS
  <1>1. CASE StoreOnly
    BY <1>1 DEF StoreOnly, Next, StoreStep
  <1>2. ASSUME NEW x \in exports, Lock(x) \/ Post(x) PROVE UNCHANGED storeVars
    BY <1>2 DEF Lock, Post
  <1>3. ASSUME NEW x \in exports, NothingSent(x) PROVE Next
    BY <1>3 DEF NothingSent, Next, StoreStep
  <1>4. ASSUME NEW w \in writing, WriteSome(w) PROVE UNCHANGED storeVars
    BY <1>4 DEF WriteSome
  <1>5. ASSUME NEW w \in writing, WriteRest(w) \/ WriteFails(w) PROVE Next
    <2>1. w.x \in exports
      BY DEF Jobs
    <2> QED BY <1>5, <2>1 DEF WriteRest, WriteFails, Next, StoreStep
  <1>6. ASSUME NEW x \in posted, Answered(x) \/ AnswerFails(x) PROVE Next
    <2>1. x \in exports
      BY DEF Jobs
    <2> QED BY <1>6, <2>1 DEF Answered, AnswerFails, Next, StoreStep
  <1>7. CASE Restart
    BY <1>7 DEF Restart, Next
  <1>8. CASE UNCHANGED allVars
    BY <1>8 DEF allVars
  <1> QED BY <1>1, <1>2, <1>3, <1>4, <1>5, <1>6, <1>7, <1>8 DEF DeliveryNext

(* The exporters, with their mutex, their half-written lines and their     *)
(* posts, implement the store's view of them: one step that delivers or    *)
(* fails.  So what StoreProofs shows of Store holds with the exporters.    *)
THEOREM ExportersImplementStore == DeliverySpec => ImplementsStore
  <1>1. DeliveryInit => Init
    BY DEF DeliveryInit
  <1> QED BY <1>1, InitJobs, NextJobs, StepImplements, PTL DEF DeliverySpec, ImplementsStore, Spec

-----------------------------------------------------------------------------
(* A row that is past its call: no promotion is under way for it.          *)
Spent(r) == r \in 0..lastRow /\ \A c \in Callers : Active(c) => calls[c].row /= r

LEMMA SpentStays ==
  ASSUME XInv, [Next]_storeVars, NEW r, Spent(r)
  PROVE  Spent(r)'
  <1>1. lastRow \in Nat
    BY RowsAreNumbers DEF XInv, TInv
  <1>2. CASE UNCHANGED lastRow /\ \A c \in Callers : Active(c)' =>
                 Active(c) /\ calls'[c].row = calls[c].row
    BY <1>2 DEF Spent
  <1>3. ASSUME NEW c \in Callers, NEW i \in Ids, NEW k \in Classes, NEW t, Insert(c, i, k, t)
        PROVE  Spent(r)'
    <2>1. lastRow' = lastRow + 1 /\ calls'[c].row = lastRow + 1
          /\ \A d \in Callers \ {c} : calls'[d] = calls[d]
      BY <1>3 DEF Insert, XInv, TInv, TypeOK
    <2> QED BY <1>1, <2>1 DEF Spent, Active
  <1>4. ASSUME NEW c \in Callers, NotifyCheck(c) \/ NotifyCall(c) \/ NotifyNil(c)
        PROVE  UNCHANGED lastRow /\ \A d \in Callers : Active(d)' =>
                 Active(d) /\ calls'[d].row = calls[d].row
    <2>1. calls \in [Callers -> CallStates]
      BY DEF XInv, TInv, TypeOK
    <2>2. UNCHANGED lastRow /\ \A d \in Callers \ {c} : calls'[d] = calls[d]
      BY <1>4, <2>1 DEF NotifyCheck, NotifyCall, NotifyNil
    <2>3. Active(c) /\ (Active(c)' => calls'[c].row = calls[c].row)
      <3>1. CASE NotifyCheck(c)
        BY <2>1, <3>1 DEF NotifyCheck, Active, NoCall, CallStates
      <3>2. CASE NotifyCall(c)
        BY <2>1, <3>2 DEF NotifyCall, Active, NoCall
      <3>3. CASE NotifyNil(c)
        BY <2>1, <3>3 DEF NotifyNil, Active, NoCall
      <3> QED BY <1>4, <3>1, <3>2, <3>3
    <2> QED BY <2>2, <2>3 DEF Active
  <1>5. CASE Crash
    BY <1>2, <1>5 DEF Crash, Active, NoCall
  <1>6. ASSUME \/ Tick \/ UNCHANGED storeVars
               \/ Unwire \/ \E e \in Exporters : WireExporter(e)
               \/ \E x \in exports : GetTrace(x) \/ Export(x) \/ ExportFails(x)
               \/ \E i \in Ids : DeleteTrace(i)
        PROVE  UNCHANGED <<lastRow, calls>>
    BY <1>6 DEF Tick, storeVars, Unwire, WireExporter, GetTrace, Export, ExportFails,
       DeleteTrace
  <1>7. UNCHANGED <<lastRow, calls>> => Spent(r)'
    BY <1>2 DEF Active
  <1> QED BY <1>2, <1>3, <1>4, <1>5, <1>6, <1>7 DEF Next, StoreStep, Promote, PromoteAt

(* Nobody new comes to stand for such a row.                               *)
LEMMA NobodyNew ==
  ASSUME XInv, [Next]_storeVars, NEW y \in exports', Spent(y.by)
  PROVE  y \in exports \/ \E x \in exports : x.by = y.by /\ x.got = NoTrace
  <1>1. CASE exports' \subseteq exports
    BY <1>1
  <1>2. ASSUME NEW c \in Callers, NotifyCall(c), y \notin exports
        PROVE  FALSE
    <2>1. y.by = calls[c].row /\ Active(c)
      BY <1>2 DEF NotifyCall, Active
    <2> QED BY <2>1 DEF Spent
  <1>3. ASSUME NEW x \in exports, GetTrace(x), y \notin exports
        PROVE  x.by = y.by /\ x.got = NoTrace
    <2>1. y = [x EXCEPT !.got = traces[x.id]] /\ x.got = NoTrace
      BY <1>3 DEF GetTrace
    <2>2. x \in ExportStates
      BY DEF XInv, TInv, TypeOK
    <2> QED BY <2>1, <2>2 DEF ExportStates
  <1>4. ASSUME \/ Tick \/ Crash \/ UNCHANGED storeVars
               \/ \E c \in Callers : Promote(c) \/ PromoteAt(c) \/ NotifyCheck(c) \/ NotifyNil(c)
               \/ Unwire \/ \E e \in Exporters : WireExporter(e)
               \/ \E x \in exports : Export(x) \/ ExportFails(x)
               \/ \E i \in Ids : DeleteTrace(i)
        PROVE  exports' \subseteq exports
    BY <1>4 DEF Tick, Crash, storeVars, Promote, PromoteAt, Insert, NotifyCheck, NotifyNil,
       Unwire, WireExporter, Export, ExportFails, DeleteTrace
  <1> QED BY <1>1, <1>2, <1>3, <1>4 DEF Next, StoreStep

(* Who has read a trace back has read the row it stands for, which is      *)
(* spent, and nobody else stands for it.                                   *)
LEMMA ReadersStandAlone ==
  ASSUME XInv, NEW x \in exports, x.got /= NoTrace
  PROVE  /\ x.got.row = x.by /\ Spent(x.by)
         /\ \A y \in exports : y.by = x.by => y = x
         /\ x.got.row \in 1..MaxRows
  <1>1. x.got.row = x.by /\ \A y \in exports : y.by = x.by => y = x
    BY DEF XInv, SameRow, OneHolder
  <1>2. x.by \in 1..MaxRows /\ lastRow \in 0..MaxRows /\ MaxRows \in Nat
    BY StoreAssumption DEF XInv, TInv, TypeOK, ExportStates
  <1>3. x.by <= lastRow
    BY DEF XInv, NoneAhead
  <1>4. \A c \in Callers : Active(c) => calls[c].row /= x.by
    BY DEF XInv, OneHolder
  <1> QED BY <1>1, <1>2, <1>3, <1>4 DEF Spent

-----------------------------------------------------------------------------
(* What the server has is spent, and of the goroutines only those that     *)
(* wait for its answer stand for it.                                       *)
Posts ==
  /\ received \in Seq(Nat)
  /\ \A i \in 1..Len(received) :
       /\ Spent(received[i])
       /\ \A x \in exports : x.by = received[i] => x \in posted
  /\ \A i, j \in 1..Len(received) : received[i] = received[j] => i = j
  /\ \A x \in posted : \E i \in 1..Len(received) : received[i] = x.got.row
  /\ \A d \in 1..Len(delivered) : delivered[d].exporter \notin Writers =>
       \E i \in 1..Len(received) : received[i] = delivered[d].row
  /\ faults = 0 /\ crashes = 0 => \A i \in 1..Len(received) :
       \/ \E x \in posted : x.got.row = received[i]
       \/ \E d \in 1..Len(delivered) :
            delivered[d].exporter \notin Writers /\ delivered[d].row = received[i]

LEMMA InitPosts == DeliveryInit => Posts
  BY DEF DeliveryInit, Init, Posts

(* Steps in which nothing is posted and no answer comes.                   *)
LEMMA SamePosts ==
  ASSUME XInv, Jobs, Posts, [Next]_storeVars, UNCHANGED <<received>>,
         posted' \subseteq posted, \A x \in posted : x \in exports' => x \in posted',
         \/ posted' = posted /\ (faults' = 0 /\ crashes' = 0 => faults = 0 /\ crashes = 0)
         \/ faults' /= 0 \/ crashes' /= 0,
         \/ UNCHANGED delivered
         \/ \E x \in exports : x.exporter \in Writers /\ Export(x)
  PROVE  Posts'
  <1>1. ASSUME NEW i \in 1..Len(received)
        PROVE  /\ Spent(received[i])'
               /\ \A y \in exports' : y.by = received[i] => y \in posted'
    <2>1. Spent(received[i])
      BY DEF Posts
    <2>2. ASSUME NEW y \in exports', y.by = received[i] PROVE y \in posted'
      <3>1. y \in exports \/ \E x \in exports : x.by = y.by /\ x.got = NoTrace
        BY <2>1, <2>2, NobodyNew
      <3> QED BY <2>2, <3>1 DEF Posts, Jobs
    <2> QED BY <2>1, <2>2, SpentStays
  <1>2. delivered \in Seq(Deliveries)
    BY DEF XInv, TInv, TypeOK
  <1>3. \A d \in 1..Len(delivered)' : \/ d \in 1..Len(delivered) /\ delivered'[d] = delivered[d]
                                      \/ delivered'[d].exporter \in Writers
    <2>1. CASE UNCHANGED delivered
      BY <2>1
    <2>2. ASSUME NEW x \in exports, x.exporter \in Writers, Export(x)
          PROVE  \A d \in 1..Len(delivered') :
                   \/ d \in 1..Len(delivered) /\ delivered'[d] = delivered[d]
                   \/ delivered'[d].exporter \in Writers
      BY <1>2, <2>2 DEF Export
    <2> QED BY <2>1, <2>2
  <1>4. \A d \in 1..Len(delivered) : d \in 1..Len(delivered') /\ delivered'[d] = delivered[d]
    <2>1. CASE UNCHANGED delivered
      BY <2>1
    <2>2. ASSUME NEW x \in exports, Export(x)
          PROVE  \A d \in 1..Len(delivered) :
                   d \in 1..Len(delivered') /\ delivered'[d] = delivered[d]
      BY <1>2, <2>2 DEF Export
    <2> QED BY <2>1, <2>2
  <1>5. faults' = 0 /\ crashes' = 0 => \A i \in 1..Len(received) :
          \/ \E x \in posted' : x.got.row = received[i]
          \/ \E d \in 1..Len(delivered') :
               delivered'[d].exporter \notin Writers /\ delivered'[d].row = received[i]
    <2> SUFFICES ASSUME faults' = 0, crashes' = 0, NEW i \in 1..Len(received)
                 PROVE  \/ \E x \in posted' : x.got.row = received[i]
                        \/ \E d \in 1..Len(delivered') :
                             delivered'[d].exporter \notin Writers
                             /\ delivered'[d].row = received[i]
      OBVIOUS
    <2>1. posted' = posted /\ faults = 0 /\ crashes = 0
      OBVIOUS
    <2> QED BY <2>1, <1>4 DEF Posts
  <1>6. \A x \in posted' : \E i \in 1..Len(received) : received[i] = x.got.row
    BY DEF Posts
  <1>7. \A d \in 1..Len(delivered') : delivered'[d].exporter \notin Writers =>
          \E i \in 1..Len(received) : received[i] = delivered'[d].row
    BY <1>3 DEF Posts
  <1>8. received' = received /\ received \in Seq(Nat)
        /\ \A i, j \in 1..Len(received) : received[i] = received[j] => i = j
    BY DEF Posts
  <1> QED BY <1>1, <1>5, <1>6, <1>7, <1>8 DEF Posts

LEMMA PostStep ==
  ASSUME XInv, Jobs, Posts, NEW x \in exports, Post(x)
  PROVE  Posts'
  <1> DEFINE r == x.got.row
             m == Len(received)
             n == m + 1
  <1>1. /\ received' = Append(received, r) /\ posted' = posted \cup {x} /\ x \notin posted
        /\ x.got /= NoTrace /\ UNCHANGED storeVars
    BY DEF Post, Ready
  <1>2. r = x.by /\ Spent(r) /\ (\A y \in exports : y.by = r => y = x) /\ r \in Nat
    BY <1>1, ReadersStandAlone, StoreAssumption
  <1>3. received \in Seq(Nat) /\ m \in Nat
    BY DEF Posts
  <1>4. /\ Len(received') = n /\ received'[n] = r /\ received' \in Seq(Nat)
        /\ \A i \in 1..m : received'[i] = received[i]
    BY <1>1, <1>2, <1>3
  <1>5. /\ UNCHANGED <<exports, delivered, faults, crashes, calls, lastRow>>
    BY <1>1 DEF storeVars
  <1>6. /\ \A i \in 1..m : Spent(received[i]) /\ \A y \in exports : y.by = received[i] => y \in posted
        /\ \A i, j \in 1..m : received[i] = received[j] => i = j
        /\ \A y \in posted : \E i \in 1..m : received[i] = y.got.row
        /\ \A d \in 1..Len(delivered) : delivered[d].exporter \notin Writers =>
             \E i \in 1..m : received[i] = delivered[d].row
        /\ faults = 0 /\ crashes = 0 => \A i \in 1..m :
             \/ \E y \in posted : y.got.row = received[i]
             \/ \E d \in 1..Len(delivered) :
                  delivered[d].exporter \notin Writers /\ delivered[d].row = received[i]
    BY DEF Posts
  <1>7. \A i \in 1..m : received[i] /= r
    BY <1>1, <1>2, <1>6
  <1> HIDE DEF r, m
  <1>8. n \in 1..n /\ (\A i \in 1..m : i \in 1..n /\ i /= n) /\ \A i \in 1..n : i \in 1..m \/ i = n
    BY <1>3
  <1> HIDE DEF n
  <1>9. \A i \in 1..n : /\ Spent(received'[i])
                        /\ \A y \in exports : y.by = received'[i] => y \in posted'
    BY <1>1, <1>2, <1>4, <1>6, <1>8
  <1>10. \A i \in 1..n : Spent(received[i])'
    BY <1>5, <1>9 DEF Spent, Active
  <1>11. \A i, j \in 1..n : received'[i] = received'[j] => i = j
    BY <1>4, <1>6, <1>7, <1>8
  <1>12. \A y \in posted' : \E i \in 1..n : received'[i] = y.got.row
    BY <1>1, <1>4, <1>6, <1>8 DEF r
  <1>13. \A d \in 1..Len(delivered) : delivered[d].exporter \notin Writers =>
           \E i \in 1..n : received'[i] = delivered[d].row
    BY <1>4, <1>6, <1>8
  <1>14. faults = 0 /\ crashes = 0 => \A i \in 1..n :
           \/ \E y \in posted' : y.got.row = received'[i]
           \/ \E d \in 1..Len(delivered) :
                delivered[d].exporter \notin Writers /\ delivered[d].row = received'[i]
    BY <1>1, <1>4, <1>6, <1>8 DEF r
  <1> QED BY <1>4, <1>5, <1>9, <1>10, <1>11, <1>12, <1>13, <1>14 DEF Posts

(* The answer comes, and the trace is delivered.                           *)
LEMMA AnsweredStep ==
  ASSUME XInv, Jobs, Posts, NEW x \in posted, Answered(x), Next
  PROVE  Posts'
  <1> DEFINE m == Len(delivered)
             d1 == [exporter |-> x.exporter, row |-> x.got.row, by |-> x.by]
  <1>1. /\ delivered' = Append(delivered, d1) /\ posted' = posted \ {x} /\ received' = received
        /\ exports' = exports \ {x} /\ UNCHANGED <<calls, lastRow, faults, crashes>>
    BY DEF Answered, Export
  <1>2. delivered \in Seq(Deliveries) /\ x \in exports /\ x.exporter \notin Writers
        /\ d1 \in Deliveries
    <2>1. x \in exports /\ x \in ExportStates /\ x.got /= NoTrace
      BY DEF XInv, TInv, TypeOK, Jobs
    <2>2. x.got.row \in 1..MaxRows
      BY <2>1, ReadersStandAlone
    <2> QED BY <2>1, <2>2 DEF XInv, TInv, TypeOK, Jobs, ExportStates, Deliveries
  <1>3. d1.exporter = x.exporter /\ d1.row = x.got.row
    OBVIOUS
  <1> HIDE DEF d1
  <1>4. /\ Len(delivered') = m + 1 /\ m \in Nat /\ delivered'[m + 1] = d1
        /\ \A d \in 1..m : delivered'[d] = delivered[d]
    BY <1>1, <1>2
  <1> HIDE DEF m
  <1>5. m + 1 \in 1..(m + 1) /\ (\A d \in 1..m : d \in 1..(m + 1))
        /\ \A d \in 1..(m + 1) : d \in 1..m \/ d = m + 1
    BY <1>4
  <1>6. \A i \in 1..Len(received) :
          Spent(received[i])' /\ \A y \in exports' : y.by = received[i] => y \in posted'
    BY <1>1 DEF Posts, Spent, Active
  <1>7. \A d \in 1..(m + 1) : delivered'[d].exporter \notin Writers =>
          \E i \in 1..Len(received) : received[i] = delivered'[d].row
    <2>1. \E i \in 1..Len(received) : received[i] = x.got.row
      BY DEF Posts
    <2> QED BY <2>1, <1>3, <1>4, <1>5 DEF Posts, m
  <1>8. faults = 0 /\ crashes = 0 => \A i \in 1..Len(received) :
          \/ \E y \in posted' : y.got.row = received[i]
          \/ \E d \in 1..(m + 1) :
               delivered'[d].exporter \notin Writers /\ delivered'[d].row = received[i]
    <2> SUFFICES ASSUME faults = 0, crashes = 0, NEW i \in 1..Len(received)
                 PROVE  \/ \E y \in posted' : y.got.row = received[i]
                        \/ \E d \in 1..(m + 1) :
                             delivered'[d].exporter \notin Writers
                             /\ delivered'[d].row = received[i]
      OBVIOUS
    <2>1. \/ \E y \in posted : y.got.row = received[i]
          \/ \E d \in 1..m : delivered[d].exporter \notin Writers /\ delivered[d].row = received[i]
      BY DEF Posts, m
    <2>2. CASE x.got.row = received[i]
      BY <2>2, <1>2, <1>3, <1>4, <1>5
    <2> QED BY <2>1, <2>2, <1>1, <1>4, <1>5
  <1>9. received \in Seq(Nat)
        /\ (\A i, j \in 1..Len(received) : received[i] = received[j] => i = j)
        /\ \A y \in posted' : \E i \in 1..Len(received) : received[i] = y.got.row
    BY <1>1 DEF Posts
  <1>10. received' = received /\ faults' = faults /\ crashes' = crashes
         /\ Len(delivered') = m + 1
    BY <1>1, <1>4
  <1>11. /\ received' \in Seq(Nat)
         /\ \A i, j \in 1..Len(received') : received'[i] = received'[j] => i = j
         /\ \A y \in posted' : \E i \in 1..Len(received') : received'[i] = y.got.row
    BY <1>9, <1>10
  <1>12. \A i \in 1..Len(received') :
           Spent(received[i])' /\ \A y \in exports' : y.by = received'[i] => y \in posted'
    BY <1>6, <1>10
  <1>13. \A d \in 1..Len(delivered') : delivered'[d].exporter \notin Writers =>
           \E i \in 1..Len(received') : received'[i] = delivered'[d].row
    BY <1>7, <1>10
  <1>14. faults' = 0 /\ crashes' = 0 => \A i \in 1..Len(received') :
           \/ \E y \in posted' : y.got.row = received'[i]
           \/ \E d \in 1..Len(delivered') :
                delivered'[d].exporter \notin Writers /\ delivered'[d].row = received'[i]
    BY <1>8, <1>10
  <1> QED BY <1>11, <1>12, <1>13, <1>14 DEF Posts

LEMMA NextPosts ==
  ASSUME ~Repromote, XInv, Jobs, Posts, [DeliveryNext]_allVars
  PROVE  Posts'
  <1>0. [Next]_storeVars /\ faults \in Nat /\ crashes \in Nat
    BY StepImplements DEF XInv, TInv, TypeOK
  <1>1. ASSUME StoreOnly, UNCHANGED deliveryVars PROVE Posts'
    <2>1. UNCHANGED <<delivered, faults>> /\ (crashes' = crashes)
      BY <1>1 DEF StoreOnly, Tick, Promote, PromoteAt, Insert, NotifyCheck, NotifyCall,
         NotifyNil, Unwire, WireExporter, GetTrace, DeleteTrace
    <2>2. UNCHANGED <<received, posted>>
      BY <1>1 DEF deliveryVars
    <2> QED BY <1>0, <2>1, <2>2, SamePosts
  <1>2. ASSUME NEW x \in exports, Lock(x) PROVE Posts'
    BY <1>0, <1>2, SamePosts DEF Lock, storeVars
  <1>3. ASSUME NEW x \in exports, Post(x) PROVE Posts'
    BY <1>3, PostStep
  <1>4. ASSUME NEW x \in exports, NothingSent(x) PROVE Posts'
    <2>1. UNCHANGED <<delivered, received, posted, crashes>> /\ faults' = faults + 1
      BY <1>4 DEF NothingSent, ExportFails, deliveryVars
    <2> QED BY <1>0, <2>1, SamePosts
  <1>5. ASSUME NEW w \in writing, WriteSome(w) PROVE Posts'
    BY <1>0, <1>5, SamePosts DEF WriteSome, storeVars
  <1>6. ASSUME NEW w \in writing, WriteRest(w) PROVE Posts'
    <2>1. w.x \in exports /\ w.x.exporter \in Writers /\ Export(w.x)
      BY <1>6 DEF WriteRest, Jobs
    <2>2. UNCHANGED <<received, posted, faults, crashes>>
      BY <1>6 DEF WriteRest, Export
    <2> QED BY <1>0, <2>1, <2>2, SamePosts
  <1>7. ASSUME NEW w \in writing, WriteFails(w) PROVE Posts'
    <2>1. UNCHANGED <<delivered, received, posted, crashes>> /\ faults' = faults + 1
      BY <1>7 DEF WriteFails, ExportFails
    <2> QED BY <1>0, <2>1, SamePosts
  <1>8. ASSUME NEW x \in posted, Answered(x) PROVE Posts'
    <2>1. Next
      BY <1>8 DEF Jobs, Answered, Next, StoreStep
    <2> QED BY <1>8, <2>1, AnsweredStep
  <1>9. ASSUME NEW x \in posted, AnswerFails(x) PROVE Posts'
    <2>1. UNCHANGED <<delivered, received, crashes>> /\ faults' = faults + 1
          /\ posted' = posted \ {x} /\ x \notin exports'
      BY <1>9 DEF AnswerFails, ExportFails
    <2> QED BY <1>0, <2>1, SamePosts
  <1>10. CASE Restart
    <2>1. UNCHANGED <<delivered, received, faults>> /\ crashes' = crashes + 1
          /\ posted' = {} /\ exports' = {}
      BY <1>10 DEF Restart, Crash
    <2> QED BY <1>0, <2>1, SamePosts
  <1>11. CASE UNCHANGED allVars
    BY <1>0, <1>11, SamePosts DEF allVars, storeVars, deliveryVars
  <1> QED BY <1>1, <1>2, <1>3, <1>4, <1>5, <1>6, <1>7, <1>8, <1>9, <1>10, <1>11 DEF DeliveryNext

(* The server receives a trace at most once, whatever fails and whenever   *)
(* the process restarts; it has every trace that was delivered; and one    *)
(* whose sender does not know so only after a failure or while it answers. *)
THEOREM TracesAreReceivedOnce ==
  ASSUME ~Repromote
  PROVE  DeliverySpec => []ReceivedOnce
  <1> DEFINE PInv == XInv /\ Jobs /\ Posts
  <1>1. DeliveryInit => PInv
    BY InitXInv, InitJobs, InitPosts DEF DeliveryInit
  <1>2. PInv /\ [DeliveryNext]_allVars => PInv'
    BY NextXInv, NextJobs, NextPosts, StepImplements
  <1>3. PInv => ReceivedOnce
    <2>1. ASSUME PInv
          PROVE  DOMAIN received = 1..Len(received) /\ DOMAIN delivered = 1..Len(delivered)
      BY <2>1 DEF Posts, XInv, TInv, TypeOK
    <2> QED BY <2>1 DEF Posts, ReceivedOnce
  <1> QED BY <1>1, <1>2, <1>3, PTL DEF DeliverySpec

-----------------------------------------------------------------------------
(* The files of the JSON exporters: types, and that lines are whole.       *)

Pieces == [row : 1..MaxRows, half : {1, 2}]

FileTypes == file \in [Writers -> Seq(Pieces)] /\ received \in Seq(1..MaxRows)

LEMMA InitFileTypes == DeliveryInit => FileTypes
  BY DEF DeliveryInit, FileTypes

LEMMA PieceTyped ==
  ASSUME TypeOK, NEW x \in exports, x.got /= NoTrace, NEW h \in {1, 2}
  PROVE  Piece(x, h) \in Pieces /\ x.got.row \in 1..MaxRows
  <1>1. x.got \in Row
    BY DEF TypeOK, ExportStates
  <1> QED BY <1>1 DEF Row, Piece, Pieces

LEMMA NextFileTypes ==
  ASSUME TypeOK, Jobs, FileTypes, [DeliveryNext]_allVars
  PROVE  FileTypes'
  <1>1. ASSUME NEW w \in writing, NEW h \in {1, 2},
               file' = [file EXCEPT ![w.x.exporter] = Append(@, Piece(w.x, h))],
               UNCHANGED received
        PROVE  FileTypes'
    <2>1. w.x \in exports /\ w.x.exporter \in Writers /\ Piece(w.x, h) \in Pieces
      BY PieceTyped DEF Jobs
    <2>2. Append(file[w.x.exporter], Piece(w.x, h)) \in Seq(Pieces)
      BY <2>1 DEF FileTypes
    <2> QED BY <1>1, <2>1, <2>2 DEF FileTypes
  <1>2. ASSUME NEW x \in exports, Post(x) PROVE FileTypes'
    <2>1. x.got.row \in 1..MaxRows
      BY <1>2, PieceTyped DEF Post, Ready
    <2> QED BY <1>2, <2>1 DEF Post, FileTypes
  <1>3. UNCHANGED <<file, received>> => FileTypes'
    BY DEF FileTypes
  <1>4. ASSUME \/ StoreOnly /\ UNCHANGED deliveryVars
               \/ \E x \in exports : Lock(x) \/ NothingSent(x)
               \/ \E w \in writing : WriteFails(w)
               \/ \E x \in posted : Answered(x) \/ AnswerFails(x)
               \/ Restart \/ UNCHANGED allVars
        PROVE  UNCHANGED <<file, received>>
    BY <1>4 DEF deliveryVars, allVars, Lock, NothingSent, WriteFails, Answered, AnswerFails, Restart
  <1>5. ASSUME NEW w \in writing, WriteSome(w) PROVE FileTypes'
    BY <1>1, <1>5 DEF WriteSome
  <1>6. ASSUME NEW w \in writing, WriteRest(w) PROVE FileTypes'
    BY <1>1, <1>6 DEF WriteRest
  <1> QED BY <1>2, <1>3, <1>4, <1>5, <1>6 DEF DeliveryNext

(* Types, for every number of everything; in particular the mutex and the  *)
(* pending posts are those of goroutines that are running.                 *)
THEOREM DeliveryTypeCorrect == DeliverySpec => []DeliveryTypeOK
  <1>1. DeliveryInit => TInv /\ Jobs /\ FileTypes
    BY InitTInv, InitJobs, InitFileTypes DEF DeliveryInit
  <1>2. TInv /\ Jobs /\ FileTypes /\ [DeliveryNext]_allVars => (TInv /\ Jobs /\ FileTypes)'
    BY NextTInv, NextJobs, NextFileTypes, StepImplements DEF TInv
  <1>3. TInv /\ Jobs /\ FileTypes => DeliveryTypeOK
    BY DEF TInv, Jobs, FileTypes, Pieces, DeliveryTypeOK
  <1> QED BY <1>1, <1>2, <1>3, PTL DEF DeliverySpec

-----------------------------------------------------------------------------
(* The mutex of e is held by a goroutine that has written half a line.     *)
Begun(e) == \E w \in writing : w.x.exporter = e /\ w.begun

(* Whose trace is in a file is past its promotion, and a goroutine that    *)
(* still stands for it is about to write its second half.                  *)
Written(e) ==
  \A i \in 1..Len(file[e]) :
    /\ Spent(file[e][i].row)
    /\ \A x \in exports : x.by = file[e][i].row =>
         file[e][i].half = 1 /\ \E w \in writing : w.x = x /\ w.begun

(* The line that was begun is the last one.                                *)
Last(e) ==
  \A w \in writing : w.x.exporter = e /\ w.begun =>
    Len(file[e]) > 0 /\ file[e][Len(file[e])] = Piece(w.x, 1)

Whole(e) ==
  \A i \in 1..Len(file[e]) :
    file[e][i].half = 2 => i > 1 /\ file[e][i - 1] = [file[e][i] EXCEPT !.half = 1]

Single(e) == \A i, j \in 1..Len(file[e]) : file[e][i] = file[e][j] => i = j

HasLines(e) ==
  \A d \in 1..Len(delivered) : delivered[d].exporter = e =>
    \E i \in 1..Len(file[e]) : file[e][i] = [row |-> delivered[d].row, half |-> 2]

FewTorn(e) ==
  /\ IsFiniteSet(Torn(e))
  /\ Cardinality(Torn(e)) <= faults + crashes + 1
  /\ ~Begun(e) => Cardinality(Torn(e)) <= faults + crashes

Lines(e) == Written(e) /\ Last(e) /\ Whole(e) /\ Single(e) /\ HasLines(e) /\ FewTorn(e)

LEMMA InitLines ==
  ASSUME DeliveryInit, NEW e \in Writers
  PROVE  Lines(e)
  <1>1. file[e] = <<>> /\ writing = {} /\ delivered = <<>> /\ faults = 0 /\ crashes = 0
    BY DEF DeliveryInit, Init
  <1>2. Torn(e) = {}
    BY <1>1 DEF Torn
  <1>3. FewTorn(e)
    BY <1>1, <1>2, FS_EmptySet DEF FewTorn
  <1> QED BY <1>1, <1>3 DEF Lines, Written, Last, Whole, Single, HasLines

(* What a count may grow to when the bound does not shrink.                *)
LEMMA Room ==
  ASSUME NEW t \in Nat, NEW f \in Nat, NEW c \in Nat, NEW g \in Nat, NEW d \in Nat,
         t <= f + c + 1
  PROVE  /\ f + c <= g + d => t <= g + d + 1
         /\ f + c < g + d => t <= g + d
         /\ t <= f + c /\ f + c <= g + d => t <= g + d
  OBVIOUS

(* Steps that do not write to the file of e.                               *)
LEMMA SameLines ==
  ASSUME XInv, Jobs, [Next]_storeVars, NEW e \in Writers, Lines(e), file'[e] = file[e],
         faults' \in Nat, crashes' \in Nat,
         \A w \in writing' : w.x.exporter = e /\ w.begun => w \in writing,
         \A w \in writing : w.begun /\ w.x \in exports' => w \in writing',
         faults + crashes <= faults' + crashes',
         (Begun(e)' <=> Begun(e)) \/ faults + crashes < faults' + crashes',
         \/ UNCHANGED delivered
         \/ \E x \in exports : x.exporter /= e /\ Export(x)
  PROVE  Lines(e)'
  <1>1. Written(e)'
    <2> SUFFICES ASSUME NEW i \in 1..Len(file[e])
                 PROVE  /\ Spent(file[e][i].row)'
                        /\ \A y \in exports' : y.by = file[e][i].row =>
                             file[e][i].half = 1 /\ \E w \in writing' : w.x = y /\ w.begun
      BY DEF Written
    <2>1. Spent(file[e][i].row)
      BY DEF Lines, Written
    <2>2. ASSUME NEW y \in exports', y.by = file[e][i].row
          PROVE  file[e][i].half = 1 /\ \E w \in writing' : w.x = y /\ w.begun
      <3>1. y \in exports \/ \E x \in exports : x.by = y.by /\ x.got = NoTrace
        BY <2>1, <2>2, NobodyNew
      <3>2. y \in exports
        BY <2>2, <3>1 DEF Lines, Written, Jobs
      <3> QED BY <2>2, <3>2 DEF Lines, Written
    <2> QED BY <2>1, <2>2, SpentStays
  <1>2. Last(e)' /\ Whole(e)' /\ Single(e)'
    BY DEF Lines, Last, Whole, Single
  <1>3. HasLines(e)'
    <2>1. delivered \in Seq(Deliveries)
      BY DEF XInv, TInv, TypeOK
    <2>2. \A d \in 1..Len(delivered') : \/ d \in 1..Len(delivered) /\ delivered'[d] = delivered[d]
                                        \/ delivered'[d].exporter /= e
      <3>1. CASE UNCHANGED delivered
        BY <3>1
      <3>2. ASSUME NEW x \in exports, x.exporter /= e, Export(x)
            PROVE  \A d \in 1..Len(delivered') :
                     \/ d \in 1..Len(delivered) /\ delivered'[d] = delivered[d]
                     \/ delivered'[d].exporter /= e
        BY <2>1, <3>2 DEF Export
      <3> QED BY <3>1, <3>2
    <2> QED BY <2>2 DEF Lines, HasLines
  <1>4. FewTorn(e)'
    <2>1. Torn(e)' = Torn(e)
      BY DEF Torn
    <2>2. /\ IsFiniteSet(Torn(e)) /\ Cardinality(Torn(e)) \in Nat
          /\ Cardinality(Torn(e)) <= faults + crashes + 1
          /\ ~Begun(e) => Cardinality(Torn(e)) <= faults + crashes
      BY FS_CardinalityType DEF Lines, FewTorn
    <2>3. faults \in Nat /\ crashes \in Nat
      BY DEF XInv, TInv, TypeOK
    <2>4. Cardinality(Torn(e)) <= faults' + crashes' + 1
      BY <2>2, <2>3, Room
    <2>5. ASSUME ~Begun(e)' PROVE Cardinality(Torn(e)) <= faults' + crashes'
      <3>1. CASE faults + crashes < faults' + crashes'
        BY <3>1, <2>2, <2>3, Room
      <3>2. CASE ~Begun(e)
        BY <3>2, <2>2, <2>3, Room
      <3> QED BY <2>5, <3>1, <3>2
    <2> QED BY <2>1, <2>2, <2>4, <2>5 DEF FewTorn
  <1> QED BY <1>1, <1>2, <1>3, <1>4 DEF Lines

(* The first half of a line.                                               *)
LEMMA LineBegins ==
  ASSUME XInv, Jobs, FileTypes, NEW e \in Writers, Lines(e),
         NEW w \in writing, WriteSome(w), w.x.exporter = e
  PROVE  Lines(e)'
  <1> DEFINE n == Len(file[e])
             p == Piece(w.x, 1)
             m == n + 1
             v == [w EXCEPT !.begun = TRUE]
  <1>1. w.x \in exports /\ w.x.got /= NoTrace /\ ~w.begun /\ v.x = w.x /\ v.begun
    BY DEF Jobs, WriteSome
  <1>2. /\ w.x.got.row = w.x.by /\ Spent(w.x.by) /\ w.x.got.row \in 1..MaxRows
        /\ \A y \in exports : y.by = w.x.by => y = w.x
    BY <1>1, ReadersStandAlone
  <1>3. p \in Pieces /\ p.row = w.x.by /\ p.half = 1
    BY <1>2 DEF Piece, Pieces
  <1>4. file[e] \in Seq(Pieces) /\ n \in Nat
    BY DEF FileTypes
  <1>5. file'[e] = Append(file[e], p) /\ writing' = (writing \ {w}) \cup {v}
        /\ UNCHANGED <<exports, delivered, faults, crashes, calls, lastRow>>
    BY DEF WriteSome, FileTypes, storeVars
  <1>6. \A u \in writing : u.x.exporter = e => u = w
    BY DEF Jobs
  <1>7. \A i \in 1..n : file[e][i].row /= w.x.by
    BY <1>1, <1>6 DEF Lines, Written
  <1>8. Len(file'[e]) = m /\ file'[e][m] = p /\ \A i \in 1..n : file'[e][i] = file[e][i]
    BY <1>3, <1>4, <1>5
  <1>9. m \in 1..m /\ m > 0 /\ (\A i \in 1..m : i \in 1..n \/ i = m)
        /\ \A i \in 1..n : i \in 1..m /\ i /= m /\ (i > 1 => i - 1 \in 1..n)
    BY <1>4
  <1> HIDE DEF p, v
  <1>10. Written(e)'
    <2>1. \A i \in 1..m : Spent(file'[e][i].row)
      BY <1>2, <1>3, <1>8, <1>9 DEF Lines, Written
    <2>2. \A i \in 1..m : Spent(file[e][i].row)'
      BY <2>1, <1>5 DEF Spent, Active
    <2>3. ASSUME NEW i \in 1..m, NEW x \in exports, x.by = file'[e][i].row
          PROVE  file'[e][i].half = 1 /\ \E u \in writing' : u.x = x /\ u.begun
      <3>1. CASE i = m
        BY <3>1, <2>3, <1>1, <1>2, <1>3, <1>5, <1>8
      <3>2. CASE i \in 1..n
        BY <3>2, <2>3, <1>1, <1>5, <1>8 DEF Lines, Written
      <3> QED BY <3>1, <3>2, <1>9
    <2> QED BY <2>2, <2>3, <1>5, <1>8 DEF Written
  <1>11. Last(e)'
    BY <1>1, <1>5, <1>6, <1>8, <1>9 DEF Last, p, Piece
  <1>12. Whole(e)'
    BY <1>3, <1>8, <1>9 DEF Lines, Whole
  <1>13. Single(e)'
    BY <1>3, <1>7, <1>8, <1>9 DEF Lines, Single
  <1>14. HasLines(e)'
    BY <1>5, <1>8, <1>9 DEF Lines, HasLines
  <1>15. FewTorn(e)'
    <2>1. Torn(e)' = Torn(e) \cup {m}
      <3>1. DOMAIN file[e] = 1..n /\ DOMAIN file'[e] = 1..m
        BY <1>4, <1>5
      <3>2. m \in Torn(e)'
        BY <3>1, <1>3, <1>4, <1>8, <1>9 DEF Torn
      <3>3. \A i \in 1..n : i \in Torn(e)' <=> i \in Torn(e)
        <4> SUFFICES ASSUME NEW i \in 1..n PROVE i \in Torn(e)' <=> i \in Torn(e)
          OBVIOUS
        <4>1. CASE i = n
          <5>1. ~(i < n) /\ i + 1 = m /\ p /= [file[e][i] EXCEPT !.half = 2]
            <6>1. file[e][i] \in Pieces /\ n \in Int
              BY <1>4
            <6>2. [file[e][i] EXCEPT !.half = 2].half = 2
              BY <6>1 DEF Pieces
            <6>3. p.half /= [file[e][i] EXCEPT !.half = 2].half
              BY <6>2, <1>3
            <6>4. ~(n < n) /\ n + 1 = m
              BY <1>4
            <6> QED BY <6>3, <6>4, <4>1
          <5> QED BY <5>1, <3>1, <1>8, <1>9 DEF Torn
        <4>2. CASE i /= n
          <5>1. i < n /\ i < m /\ i + 1 \in 1..n
            BY <4>2, <1>4
          <5> QED BY <5>1, <3>1, <1>8, <1>9 DEF Torn
        <4> QED BY <4>1, <4>2
      <3> QED BY <3>1, <3>2, <3>3, <1>9 DEF Torn
    <2>2. m \notin Torn(e)
      BY <1>4 DEF Torn
    <2>3. ~Begun(e) /\ Begun(e)'
      BY <1>1, <1>5, <1>6 DEF Begun
    <2>4. IsFiniteSet(Torn(e)) /\ Cardinality(Torn(e)) <= faults + crashes
      BY <2>3 DEF Lines, FewTorn, XInv, TInv, TypeOK
    <2>5. /\ IsFiniteSet(Torn(e) \cup {m})
          /\ Cardinality(Torn(e) \cup {m}) = Cardinality(Torn(e)) + 1
          /\ Cardinality(Torn(e)) \in Nat
      BY <2>2, <2>4, FS_AddElement, FS_CardinalityType
    <2>6. faults \in Nat /\ crashes \in Nat
      BY DEF XInv, TInv, TypeOK
    <2> QED BY <1>5, <2>1, <2>3, <2>4, <2>5, <2>6 DEF FewTorn
  <1> QED BY <1>10, <1>11, <1>12, <1>13, <1>14, <1>15 DEF Lines

(* Its second half, and the trace is delivered.                            *)
LEMMA LineEnds ==
  ASSUME XInv, Jobs, FileTypes, NEW e \in Writers, Lines(e),
         NEW w \in writing, WriteRest(w), w.x.exporter = e
  PROVE  Lines(e)'
  <1> DEFINE n == Len(file[e])
             p == Piece(w.x, 2)
             m == n + 1
             d1 == [exporter |-> e, row |-> w.x.got.row, by |-> w.x.by]
  <1>1. w.x \in exports /\ w.x.got /= NoTrace /\ w.begun
    BY DEF Jobs, WriteRest
  <1>2. /\ w.x.got.row = w.x.by /\ Spent(w.x.by) /\ w.x.got.row \in 1..MaxRows
        /\ \A y \in exports : y.by = w.x.by => y = w.x
    BY <1>1, ReadersStandAlone
  <1>3. p \in Pieces /\ p.row = w.x.by /\ p.half = 2 /\ p = [row |-> w.x.got.row, half |-> 2]
        /\ Piece(w.x, 1) = [p EXCEPT !.half = 1]
    BY <1>2 DEF Piece, Pieces
  <1>4. file[e] \in Seq(Pieces) /\ n \in Nat
    BY DEF FileTypes
  <1>5. file'[e] = Append(file[e], p) /\ writing' = writing \ {w} /\ exports' = exports \ {w.x}
        /\ delivered' = Append(delivered, d1)
        /\ UNCHANGED <<faults, crashes, calls, lastRow>>
    BY DEF WriteRest, Export, FileTypes
  <1>6. \A u \in writing : u.x.exporter = e => u = w
    BY DEF Jobs
  <1>7. n \in 1..n /\ file[e][n] = Piece(w.x, 1)
    BY <1>1, <1>4 DEF Lines, Last
  <1>8. \A i \in 1..n : file[e][i] /= p
    BY <1>1, <1>3 DEF Lines, Written
  <1>9. Len(file'[e]) = m /\ file'[e][m] = p /\ \A i \in 1..n : file'[e][i] = file[e][i]
    BY <1>3, <1>4, <1>5
  <1>10. m \in 1..m /\ m > 1 /\ m - 1 = n /\ (\A i \in 1..m : i \in 1..n \/ i = m)
         /\ \A i \in 1..n : i \in 1..m /\ i /= m /\ (i > 1 => i - 1 \in 1..n)
    BY <1>4, <1>7
  <1> HIDE DEF p
  <1>11. Written(e)'
    <2>1. \A i \in 1..m : Spent(file'[e][i].row)
      BY <1>2, <1>3, <1>9, <1>10 DEF Lines, Written
    <2>2. \A i \in 1..m : Spent(file[e][i].row)'
      BY <2>1, <1>5 DEF Spent, Active
    <2>3. ASSUME NEW i \in 1..m, NEW x \in exports', x.by = file'[e][i].row
          PROVE  file'[e][i].half = 1 /\ \E u \in writing' : u.x = x /\ u.begun
      <3>1. i /= m
        BY <2>3, <1>2, <1>3, <1>5, <1>9
      <3>2. i \in 1..n /\ x \in exports /\ x /= w.x /\ file'[e][i] = file[e][i]
        BY <3>1, <1>5, <1>9, <1>10
      <3> QED BY <3>2, <2>3, <1>5 DEF Lines, Written
    <2> QED BY <2>2, <2>3, <1>9 DEF Written
  <1>12. Last(e)'
    BY <1>5, <1>6 DEF Last
  <1>13. Whole(e)'
    <2> SUFFICES ASSUME NEW i \in 1..m, file'[e][i].half = 2
                 PROVE  i > 1 /\ file'[e][i - 1] = [file'[e][i] EXCEPT !.half = 1]
      BY <1>9 DEF Whole
    <2>1. CASE i = m
      BY <2>1, <1>3, <1>7, <1>9, <1>10
    <2>2. CASE i \in 1..n
      <3>1. i > 1 /\ file[e][i - 1] = [file[e][i] EXCEPT !.half = 1] /\ i - 1 \in 1..n
        BY <2>2, <1>9, <1>10 DEF Lines, Whole
      <3> QED BY <2>2, <3>1, <1>9
    <2> QED BY <2>1, <2>2, <1>10
  <1>14. Single(e)'
    BY <1>8, <1>9, <1>10 DEF Lines, Single
  <1>15. HasLines(e)'
    <2>1. delivered \in Seq(Deliveries)
      BY DEF XInv, TInv, TypeOK
    <2> SUFFICES ASSUME NEW d \in 1..Len(delivered'), delivered'[d].exporter = e
                 PROVE  \E i \in 1..m : file'[e][i] = [row |-> delivered'[d].row, half |-> 2]
      BY <1>9 DEF HasLines
    <2>2. CASE d \in 1..Len(delivered) /\ delivered'[d] = delivered[d]
      <3>1. PICK i \in 1..n : file[e][i] = [row |-> delivered[d].row, half |-> 2]
        BY <2>2 DEF Lines, HasLines
      <3> QED BY <2>2, <3>1, <1>9, <1>10
    <2>3. CASE delivered'[d].row = w.x.got.row
      BY <2>3, <1>3, <1>9, <1>10
    <2> QED BY <1>5, <2>1, <2>2, <2>3
  <1>16. FewTorn(e)'
    <2>1. Torn(e)' = Torn(e) \ {n}
      <3>1. DOMAIN file[e] = 1..n /\ DOMAIN file'[e] = 1..m
        BY <1>4, <1>5
      <3>2. p = [file[e][n] EXCEPT !.half = 2]
        BY <1>3, <1>7 DEF Piece
      <3>3. m \notin Torn(e)' /\ n \notin Torn(e)'
        <4>1. n < m /\ n + 1 = m
          BY <1>4
        <4> QED BY <4>1, <3>1, <3>2, <1>3, <1>7, <1>9, <1>10 DEF Torn
      <3>4. \A i \in 1..n : i /= n => (i \in Torn(e)' <=> i \in Torn(e))
        <4> SUFFICES ASSUME NEW i \in 1..n, i /= n PROVE i \in Torn(e)' <=> i \in Torn(e)
          OBVIOUS
        <4>1. i < n /\ i < m /\ i + 1 \in 1..n
          BY <1>4
        <4> QED BY <4>1, <3>1, <1>9, <1>10 DEF Torn
      <3>5. Torn(e) \subseteq 1..n /\ Torn(e)' \subseteq 1..m
        BY <3>1 DEF Torn
      <3>6. ASSUME NEW i PROVE i \in Torn(e)' <=> i \in Torn(e) /\ i /= n
        BY <3>3, <3>4, <3>5, <1>10
      <3> QED BY <3>6
    <2>2. n \in Torn(e)
      BY <1>4, <1>7 DEF Torn, Piece
    <2>3. Begun(e) /\ ~Begun(e)'
      BY <1>1, <1>5, <1>6 DEF Begun
    <2>4. faults \in Nat /\ crashes \in Nat
      BY DEF XInv, TInv, TypeOK
    <2>5. IsFiniteSet(Torn(e)) /\ Cardinality(Torn(e)) <= faults + crashes + 1
      BY <2>3 DEF Lines, FewTorn
    <2>6. /\ IsFiniteSet(Torn(e) \ {n})
          /\ Cardinality(Torn(e) \ {n}) = Cardinality(Torn(e)) - 1
          /\ Cardinality(Torn(e)) \in Nat
      BY <2>2, <2>5, FS_RemoveElement, FS_CardinalityType
    <2> QED BY <1>5, <2>1, <2>3, <2>4, <2>5, <2>6 DEF FewTorn
  <1> QED BY <1>11, <1>12, <1>13, <1>14, <1>15, <1>16 DEF Lines

(* Every step keeps the lines of e: those of the goroutine that writes     *)
(* them by the two lemmas above, all others by SameLines.                  *)
LEMMA NextLines ==
  ASSUME ~Repromote, XInv, Jobs, FileTypes, [DeliveryNext]_allVars, NEW e \in Writers, Lines(e)
  PROVE  Lines(e)'
  <1>0. [Next]_storeVars /\ faults \in Nat /\ crashes \in Nat /\ e \in Exporters
    BY StepImplements, WritersAssumption DEF XInv, TInv, TypeOK
  <1>1. ASSUME UNCHANGED <<faults, crashes, delivered, file, writing>> PROVE Lines(e)'
    <2>1. Begun(e)' <=> Begun(e)
      BY <1>1 DEF Begun
    <2> QED BY <1>0, <1>1, <2>1, SameLines
  <1>2. ASSUME UNCHANGED <<crashes, delivered, file>>, faults' = faults + 1,
               writing' \subseteq writing,
               \A u \in writing : u \notin writing' => u.x \notin exports'
        PROVE  Lines(e)'
    BY <1>0, <1>2, SameLines
  <1>3. CASE StoreOnly /\ UNCHANGED deliveryVars
    <2>1. UNCHANGED <<delivered, faults, crashes>>
      BY <1>3 DEF StoreOnly, Tick, Promote, PromoteAt, Insert, NotifyCheck, NotifyCall,
         NotifyNil, Unwire, WireExporter, GetTrace, DeleteTrace
    <2> QED BY <1>1, <1>3, <2>1 DEF deliveryVars
  <1>4. ASSUME NEW x \in exports, Lock(x) PROVE Lines(e)'
    <2>1. /\ writing' = writing \cup {[x |-> x, begun |-> FALSE]}
          /\ UNCHANGED <<faults, crashes, delivered, file, exports>>
      BY <1>4 DEF Lock, storeVars
    <2>2. Begun(e)' <=> Begun(e)
      BY <2>1 DEF Begun
    <2> QED BY <1>0, <2>1, <2>2, SameLines
  <1>5. ASSUME NEW x \in exports, Post(x) PROVE Lines(e)'
    BY <1>1, <1>5 DEF Post, storeVars
  <1>6. ASSUME NEW x \in exports, NothingSent(x) PROVE Lines(e)'
    BY <1>2, <1>6 DEF NothingSent, ExportFails, deliveryVars
  <1>7. ASSUME NEW w \in writing, WriteSome(w) PROVE Lines(e)'
    <2>1. CASE w.x.exporter = e
      BY <1>7, <2>1, LineBegins
    <2>2. CASE w.x.exporter /= e
      <3>1. /\ writing' = (writing \ {w}) \cup {[w EXCEPT !.begun = TRUE]} /\ ~w.begun
            /\ UNCHANGED <<faults, crashes, delivered, exports>>
        BY <1>7 DEF WriteSome, storeVars
      <3>2. file'[e] = file[e]
        BY <1>7, <2>2 DEF WriteSome, FileTypes
      <3>3. [w EXCEPT !.begun = TRUE].x = w.x
        BY DEF Jobs
      <3>4. Begun(e)' <=> Begun(e)
        BY <2>2, <3>1, <3>3 DEF Begun
      <3>5. \A u \in writing' : u.x.exporter = e /\ u.begun => u \in writing
        BY <2>2, <3>1, <3>3
      <3>6. \A u \in writing : u.begun => u \in writing'
        BY <3>1
      <3> QED BY <1>0, <3>1, <3>2, <3>4, <3>5, <3>6, SameLines
    <2> QED BY <2>1, <2>2
  <1>8. ASSUME NEW w \in writing, WriteRest(w) PROVE Lines(e)'
    <2>1. CASE w.x.exporter = e
      BY <1>8, <2>1, LineEnds
    <2>2. CASE w.x.exporter /= e
      <3>1. /\ writing' = writing \ {w} /\ w.x \in exports /\ w.x \notin exports' /\ Export(w.x)
            /\ UNCHANGED <<faults, crashes>>
        BY <1>8 DEF WriteRest, Export, Jobs
      <3>2. file'[e] = file[e]
        BY <1>8, <2>2 DEF WriteRest, FileTypes
      <3>3. Begun(e)' <=> Begun(e)
        BY <2>2, <3>1 DEF Begun
      <3> QED BY <1>0, <2>2, <3>1, <3>2, <3>3, SameLines
    <2> QED BY <2>1, <2>2
  <1>9. ASSUME NEW w \in writing, WriteFails(w) PROVE Lines(e)'
    BY <1>2, <1>9 DEF WriteFails, ExportFails
  <1>10. ASSUME NEW x \in posted, Answered(x) PROVE Lines(e)'
    <2>1. /\ x \in exports /\ x.exporter /= e /\ Export(x)
          /\ UNCHANGED <<faults, crashes, file, writing>>
      BY <1>10 DEF Answered, Export, Jobs
    <2>2. Begun(e)' <=> Begun(e)
      BY <2>1 DEF Begun
    <2> QED BY <1>0, <2>1, <2>2, SameLines
  <1>11. ASSUME NEW x \in posted, AnswerFails(x) PROVE Lines(e)'
    BY <1>2, <1>11 DEF AnswerFails, ExportFails
  <1>12. CASE Restart
    <2>1. UNCHANGED <<delivered, file, faults>> /\ crashes' = crashes + 1
          /\ writing' = {} /\ exports' = {}
      BY <1>12 DEF Restart, Crash
    <2> QED BY <1>0, <2>1, SameLines
  <1>13. CASE UNCHANGED allVars
    BY <1>1, <1>13 DEF allVars, storeVars, deliveryVars
  <1> QED BY <1>3, <1>4, <1>5, <1>6, <1>7, <1>8, <1>9, <1>10, <1>11, <1>12, <1>13 DEF DeliveryNext

LEMMA LinesSuffice ==
  ASSUME FileTypes, TypeOK, \A e \in Writers : Lines(e)
  PROVE  LinesAreWhole
  <1> SUFFICES ASSUME NEW e \in Writers
               PROVE  /\ \A i \in DOMAIN file[e] : file[e][i].half = 2 =>
                           i > 1 /\ file[e][i - 1] = [file[e][i] EXCEPT !.half = 1]
                      /\ \A i, j \in DOMAIN file[e] : file[e][i] = file[e][j] => i = j
                      /\ \A d \in DOMAIN delivered : delivered[d].exporter = e =>
                           \E i \in DOMAIN file[e] :
                             file[e][i] = [row |-> delivered[d].row, half |-> 2]
                      /\ Cardinality(Torn(e)) <= faults + crashes +
                           (IF \E w \in writing : w.x.exporter = e /\ w.begun THEN 1 ELSE 0)
    BY DEF LinesAreWhole
  <1>1. DOMAIN file[e] = 1..Len(file[e]) /\ DOMAIN delivered = 1..Len(delivered)
    BY DEF FileTypes, TypeOK
  <1>2. Whole(e) /\ Single(e) /\ HasLines(e) /\ FewTorn(e)
    BY DEF Lines
  <1>3. Cardinality(Torn(e)) <= faults + crashes +
          (IF \E w \in writing : w.x.exporter = e /\ w.begun THEN 1 ELSE 0)
    <2>1. CASE \E w \in writing : w.x.exporter = e /\ w.begun
      BY <2>1, <1>2 DEF FewTorn
    <2>2. CASE ~\E w \in writing : w.x.exporter = e /\ w.begun
      <3>1. Cardinality(Torn(e)) <= faults + crashes
        BY <2>2, <1>2 DEF FewTorn, Begun
      <3>2. faults + crashes + 0 = faults + crashes
        BY DEF TypeOK
      <3> QED BY <2>2, <3>1, <3>2
    <2> QED BY <2>1, <2>2
  <1> QED BY <1>1, <1>2, <1>3 DEF Whole, Single, HasLines

(* The lines of a file are whole, whoever exports at the same time,        *)
(* whatever fails in the middle of a line and whenever the process         *)
(* restarts: as long as a promotion that was promoted is not repeated.     *)
THEOREM LinesStayWhole ==
  ASSUME ~Repromote
  PROVE  DeliverySpec => []LinesAreWhole
  <1> DEFINE AllLines == \A e \in Writers : Lines(e)
             LInv == XInv /\ Jobs /\ FileTypes /\ AllLines
  <1>1. DeliveryInit => LInv
    BY InitXInv, InitJobs, InitFileTypes, InitLines DEF DeliveryInit
  <1>2. LInv /\ [DeliveryNext]_allVars => LInv'
    <2> SUFFICES ASSUME LInv, [DeliveryNext]_allVars PROVE LInv'
      OBVIOUS
    <2>1. XInv' /\ Jobs' /\ FileTypes'
      BY NextXInv, NextJobs, NextFileTypes, StepImplements DEF XInv, TInv
    <2>2. AllLines'
      BY NextLines
    <2> QED BY <2>1, <2>2
  <1>3. LInv => LinesAreWhole
    BY LinesSuffice DEF XInv, TInv
  <1> QED BY <1>1, <1>2, <1>3, PTL DEF DeliverySpec
==============================================================================
