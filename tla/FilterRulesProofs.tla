-------------------------- MODULE FilterRulesProofs ---------------------------
(***************************************************************************)
(* Proofs about Schema and FilterRules, for every set of processes, every   *)
(* list of columns and indexes, every content a rule can have and every     *)
(* bound: a process that is up has the schema it needs, nobody is refused   *)
(* because of the schema, an id stays with its rule, and the oldest enabled *)
(* rule that matches decides.                                              *)
(***************************************************************************)
EXTENDS FilterRules, TLAPS, FiniteSetTheorems, FunctionTheorems, WellFoundedInduction

(* What the statements a process has behind it have done stays done.       *)
HasColumns(p) == \A k \in 1..Len(Added) : boot[p] > k + 1 => Added[k] \in columns
HasIndexes(p) == \A k \in 1..Len(Indexed) : boot[p] > FirstIndex + k - 1 => Indexed[k] \in indexes
HasTables(p)  == /\ boot[p] > 1 => "error_traces" \in tables
                 /\ boot[p] > LastIndex + 1 => "filter_rules" \in tables
                 /\ boot[p] > LastIndex + 2 => "retention_rules" \in tables

(* The inductive invariant behind SchemaIsEnsured and NobodyIsRefused.     *)
SchemaInv ==
  /\ SchemaTypeOK
  /\ refused = 0
  /\ "error_traces" \notin tables => columns = {}
  /\ \A p \in Processes : HasColumns(p) /\ HasIndexes(p) /\ HasTables(p)

LEMMA Lists ==
  /\ Len(Added) \in Nat /\ Len(Indexed) \in Nat
  /\ \A k \in 1..Len(Added) : Added[k] \in Range(Added)
  /\ \A c \in Range(Added) : \E k \in 1..Len(Added) : Added[k] = c
  /\ \A k \in 1..Len(Indexed) : Indexed[k] \in Range(Indexed)
  /\ \A c \in Range(Indexed) : \E k \in 1..Len(Indexed) : Indexed[k] = c
  /\ Range(Indexed) \subseteq Range(Added) /\ Created \subseteq Range(Added)
  <1>1. /\ Len(Added) \in Nat /\ DOMAIN Added = 1..Len(Added)
        /\ Len(Indexed) \in Nat /\ DOMAIN Indexed = 1..Len(Indexed)
    BY SchemaAssumption
  <1> QED BY <1>1, SchemaAssumption DEF Range

LEMMA InitSchemaInv == SchemaInit => SchemaInv
  BY Lists, SchemaAssumption DEF SchemaInit, SchemaInv, SchemaTypeOK, HasColumns, HasIndexes, HasTables,
     FirstIndex, LastIndex, Up

(* A statement of p that succeeds, when all it has to do is done.          *)
LEMMA StatementDone ==
  ASSUME SchemaInv, NEW p \in Processes,
         boot' = [boot EXCEPT ![p] = @ + 1], boot[p] < Up,
         UNCHANGED <<refused, failures>>,
         tables \subseteq tables', columns \subseteq columns', indexes \subseteq indexes',
         tables' \subseteq Tables, columns' \subseteq Range(Added), indexes' \subseteq columns',
         "error_traces" \in tables',
         boot[p] \in 2..(FirstIndex - 1) => Added[boot[p] - 1] \in columns',
         boot[p] \in FirstIndex..LastIndex => Indexed[boot[p] - FirstIndex + 1] \in indexes',
         boot[p] = LastIndex + 1 => "filter_rules" \in tables',
         boot[p] = LastIndex + 2 => "retention_rules" \in tables'
  PROVE  SchemaInv'
  <1> DEFINE n == boot[p]
  <1>1. /\ n \in Nat /\ boot \in [Processes -> 0..Up] /\ Up \in Nat
        /\ \A q \in Processes : boot'[q] = IF q = p THEN n + 1 ELSE boot[q]
    BY Lists DEF SchemaInv, SchemaTypeOK, Up, LastIndex
  <1>2. boot' \in [Processes -> 0..Up]
    BY <1>1
  <1>3. SchemaTypeOK'
    BY <1>2 DEF SchemaInv, SchemaTypeOK, Up, LastIndex
  <1> HIDE DEF n
  <1>4. ASSUME NEW q \in Processes PROVE HasColumns(q)'
    <2>1. CASE q /= p
      BY <1>1, <2>1 DEF SchemaInv, HasColumns
    <2>2. ASSUME q = p, NEW k \in 1..Len(Added), n + 1 > k + 1 PROVE Added[k] \in columns'
      <3>1. CASE n > k + 1
        BY <3>1, <2>2 DEF SchemaInv, HasColumns, n
      <3>2. CASE n = k + 1
        BY <3>2, Lists DEF n, FirstIndex
      <3> QED BY <1>1, <2>2, <3>1, <3>2, Lists
    <2> QED BY <1>1, <2>1, <2>2 DEF HasColumns
  <1>5. ASSUME NEW q \in Processes PROVE HasIndexes(q)'
    <2>1. CASE q /= p
      BY <1>1, <2>1 DEF SchemaInv, HasIndexes, FirstIndex
    <2>2. ASSUME q = p, NEW k \in 1..Len(Indexed), n + 1 > FirstIndex + k - 1
          PROVE  Indexed[k] \in indexes'
      <3>1. CASE n > FirstIndex + k - 1
        BY <3>1, <2>2 DEF SchemaInv, HasIndexes, n
      <3>2. CASE n = FirstIndex + k - 1
        <4>1. n \in FirstIndex..LastIndex /\ n - FirstIndex + 1 = k
          BY <3>2, Lists DEF FirstIndex, LastIndex
        <4> QED BY <4>1 DEF n
      <3>3. FirstIndex + k - 1 \in Int
        BY Lists DEF FirstIndex
      <3> QED BY <1>1, <2>2, <3>1, <3>2, <3>3
    <2> QED BY <1>1, <2>1, <2>2 DEF HasIndexes, FirstIndex
  <1>6. ASSUME NEW q \in Processes PROVE HasTables(q)'
    <2>1. LastIndex \in Nat
      BY Lists DEF LastIndex
    <2> QED BY <1>1, <2>1 DEF SchemaInv, HasTables, LastIndex, n
  <1> QED BY <1>3, <1>4, <1>5, <1>6 DEF SchemaInv

(* A process that starts or goes down.                                     *)
LEMMA ProcessDown ==
  ASSUME SchemaInv, NEW p \in Processes, NEW n \in 0..1, boot' = [boot EXCEPT ![p] = n],
         UNCHANGED <<tables, columns, indexes, refused>>, failures' \in 0..MaxFailures
  PROVE  SchemaInv'
  <1>1. /\ boot \in [Processes -> 0..Up] /\ Up \in Nat /\ 1 \in 0..Up /\ 0 \in 0..Up
        /\ \A q \in Processes : boot'[q] = IF q = p THEN n ELSE boot[q]
    BY Lists DEF SchemaInv, SchemaTypeOK, Up, LastIndex
  <1>2. boot' \in [Processes -> 0..Up]
    BY <1>1
  <1>3. SchemaTypeOK'
    BY <1>2 DEF SchemaInv, SchemaTypeOK, Up, LastIndex
  <1>4. \A q \in Processes : HasColumns(q)' /\ HasIndexes(q)' /\ HasTables(q)'
    BY <1>1, Lists DEF SchemaInv, HasColumns, HasIndexes, HasTables, FirstIndex, LastIndex
  <1> QED BY <1>3, <1>4 DEF SchemaInv

LEMMA NextSchemaInv ==
  ASSUME SchemaInv, [SchemaNext]_schemaVars
  PROVE  SchemaInv'
  <1>0. \A p \in Processes : boot[p] \in Nat /\ Up \in Nat /\ FirstIndex \in Nat /\ LastIndex \in Nat
                             /\ FirstIndex >= 2 /\ LastIndex >= FirstIndex - 1 /\ Up = LastIndex + 3
    BY Lists DEF SchemaInv, SchemaTypeOK, Up, LastIndex, FirstIndex
  <1>1. ASSUME NEW p \in Processes, CreateTraces(p) PROVE SchemaInv'
    <2>1. columns' = IF "error_traces" \in tables THEN columns ELSE Created
      BY <1>1 DEF CreateTraces
    <2>2. columns \subseteq columns' /\ columns' \subseteq Range(Added)
      BY <2>1, Lists DEF SchemaInv, SchemaTypeOK
    <2>3. /\ boot[p] = 1 /\ boot' = [boot EXCEPT ![p] = @ + 1]
          /\ tables' = tables \cup {"error_traces"} /\ UNCHANGED <<indexes, refused, failures>>
      BY <1>1 DEF CreateTraces, Done
    <2>4. /\ boot[p] \notin 2..(FirstIndex - 1) /\ boot[p] \notin FirstIndex..LastIndex
          /\ boot[p] /= LastIndex + 1 /\ boot[p] /= LastIndex + 2 /\ boot[p] < Up
      BY <1>0, <2>3
    <2>5. /\ tables \subseteq tables' /\ tables' \subseteq Tables /\ "error_traces" \in tables'
          /\ indexes' \subseteq columns'
      BY <2>2, <2>3 DEF SchemaInv, SchemaTypeOK, Tables
    <2> QED BY <2>2, <2>3, <2>4, <2>5, StatementDone
  <1>2. ASSUME NEW p \in Processes, AddColumn(p) PROVE SchemaInv'
    <2>1. "error_traces" \in tables
      BY <1>0, <1>2 DEF AddColumn, SchemaInv, HasTables
    <2>2. /\ columns' = columns \cup {Added[boot[p] - 1]} /\ Added[boot[p] - 1] \in Range(Added)
      BY <1>0, <1>2, <2>1, Lists DEF AddColumn, FirstIndex
    <2> QED BY <1>0, <1>2, <2>1, <2>2, StatementDone DEF AddColumn, Done, SchemaInv, SchemaTypeOK
  <1>3. ASSUME NEW p \in Processes, CreateIndex(p) PROVE SchemaInv'
    <2> DEFINE i == boot[p] - FirstIndex + 1
               c == Indexed[i]
    <2>1. i \in 1..Len(Indexed) /\ boot[p] \in FirstIndex..LastIndex
      BY <1>0, <1>3, Lists DEF CreateIndex, FirstIndex, LastIndex
    <2>2. c \in Range(Added)
      BY <2>1, Lists
    <2>3. PICK k \in 1..Len(Added) : Added[k] = c
      BY <2>2, Lists
    <2>4. c \in columns
      <3>1. boot[p] > k + 1
        BY <1>0, <2>1, <2>3, Lists DEF FirstIndex
      <3> QED BY <2>3, <3>1 DEF SchemaInv, HasColumns
    <2>5. indexes' = indexes \cup {c} /\ Done(p) /\ UNCHANGED <<tables, columns, failures>>
      BY <1>3, <2>4 DEF CreateIndex
    <2>6. "error_traces" \in tables
      BY <2>4 DEF SchemaInv
    <2>7. /\ boot[p] \notin 2..(FirstIndex - 1) /\ boot[p] < Up
          /\ boot[p] /= LastIndex + 1 /\ boot[p] /= LastIndex + 2
      BY <1>0, <2>1
    <2>8. /\ tables' \subseteq Tables /\ columns' \subseteq Range(Added) /\ indexes' \subseteq columns'
          /\ indexes \subseteq indexes' /\ Indexed[i] \in indexes'
      BY <2>4, <2>5 DEF SchemaInv, SchemaTypeOK
    <2> HIDE DEF c
    <2> QED BY <2>5, <2>6, <2>7, <2>8, StatementDone DEF Done
  <1>4. ASSUME NEW p \in Processes, CreateRuleTable(p) PROVE SchemaInv'
    <2>1. "error_traces" \in tables
      BY <1>0, <1>4 DEF CreateRuleTable, SchemaInv, HasTables
    <2>2. /\ boot[p] \in {LastIndex + 1, LastIndex + 2} /\ boot' = [boot EXCEPT ![p] = @ + 1]
          /\ UNCHANGED <<columns, indexes, refused, failures>>
          /\ tables' = tables \cup
               {IF boot[p] = LastIndex + 1 THEN "filter_rules" ELSE "retention_rules"}
      BY <1>4 DEF CreateRuleTable, Done
    <2>3. /\ boot[p] \notin 2..(FirstIndex - 1) /\ boot[p] \notin FirstIndex..LastIndex
          /\ boot[p] < Up
      BY <1>0, <2>2
    <2>4. /\ tables \subseteq tables' /\ tables' \subseteq Tables /\ "error_traces" \in tables'
          /\ columns' \subseteq Range(Added) /\ indexes' \subseteq columns'
      BY <2>1, <2>2 DEF SchemaInv, SchemaTypeOK, Tables
    <2>5. /\ boot[p] = LastIndex + 1 => "filter_rules" \in tables'
          /\ boot[p] = LastIndex + 2 => "retention_rules" \in tables'
      BY <1>0, <2>2
    <2> QED BY <2>2, <2>3, <2>4, <2>5, StatementDone
  <1>5. ASSUME NEW p \in Processes, StartProcess(p) PROVE SchemaInv'
    <2>1. 1 \in 0..1
      OBVIOUS
    <2> QED BY <1>5, <2>1, ProcessDown DEF StartProcess, SchemaInv, SchemaTypeOK
  <1>6. ASSUME NEW p \in Processes, BootFails(p) \/ CrashProcess(p) PROVE SchemaInv'
    BY <1>6, ProcessDown, SchemaAssumption
       DEF BootFails, CrashProcess, Failure, SchemaInv, SchemaTypeOK
  <1>7. CASE UNCHANGED schemaVars
    BY <1>7 DEF schemaVars, SchemaInv, SchemaTypeOK, HasColumns, HasIndexes, HasTables
  <1> QED BY <1>1, <1>2, <1>3, <1>4, <1>5, <1>6, <1>7 DEF SchemaNext, BootStep, EnsureSchema

LEMMA SchemaInvSuffices == SchemaInv => SchemaIsEnsured /\ NobodyIsRefused
  <1> SUFFICES ASSUME SchemaInv PROVE SchemaIsEnsured
    BY DEF SchemaInv, NobodyIsRefused
  <1> SUFFICES ASSUME NEW p \in Processes, boot[p] = Up
               PROVE  tables = Tables /\ columns = Range(Added) /\ Range(Indexed) \subseteq indexes
    BY DEF SchemaIsEnsured, IsUp
  <1>1. \A k \in 1..Len(Added) : Added[k] \in columns
    BY Lists DEF SchemaInv, HasColumns, Up, LastIndex
  <1>2. \A k \in 1..Len(Indexed) : Indexed[k] \in indexes
    BY Lists DEF SchemaInv, HasIndexes, Up, LastIndex, FirstIndex
  <1>3. tables = Tables
    <2>1. boot[p] > 1 /\ boot[p] > LastIndex + 1 /\ boot[p] > LastIndex + 2
      BY Lists DEF Up, LastIndex
    <2> QED BY <2>1 DEF SchemaInv, HasTables, SchemaTypeOK, Tables
  <1> QED BY <1>1, <1>2, <1>3, Lists DEF SchemaInv, SchemaTypeOK

-----------------------------------------------------------------------------
(* What clients and services do with the rules leaves the schema alone.    *)
LEMMA RulesLeaveSchema == [Next]_vars => [SchemaNext]_schemaVars
  <1> SUFFICES ASSUME [Next]_vars PROVE [SchemaNext]_schemaVars
    OBVIOUS
  <1>1. CASE \E p \in Processes : BootStep(p) \/ Crash(p)
    BY <1>1 DEF SchemaNext, Crash
  <1>2. ASSUME NEW p \in Processes, RuleStep(p) PROVE UNCHANGED schemaVars
    BY <1>2 DEF RuleStep, InsertRule, UpdateRule, DeleteRule, ListRules, LoadRuleEngine
  <1>3. CASE Tick \/ UNCHANGED vars \/ \E c \in calls : ReadBack(c) \/ ReadBackFails(c)
    BY <1>3 DEF Tick, vars, ReadBack, ReadBackFails
  <1> QED BY <1>1, <1>2, <1>3 DEF Next

(* However many processes migrate the database at the same time, whatever  *)
(* version it stems from, and wherever one of them crashed: a process that *)
(* is up finds every table, column and index.                              *)
THEOREM SchemaEnsured == Spec => []SchemaIsEnsured
  BY InitSchemaInv, NextSchemaInv, SchemaInvSuffices, RulesLeaveSchema, PTL DEF Spec, Init

(* And nobody is kept from starting by the state of the schema.            *)
THEOREM NoRefusal == Spec => []NobodyIsRefused
  BY InitSchemaInv, NextSchemaInv, SchemaInvSuffices, RulesLeaveSchema, PTL DEF Spec, Init

-----------------------------------------------------------------------------
(* A CreateRule call that has not read back means the rule it inserted.    *)
CallsMeanTheirRule ==
  \A c \in calls, r \in rules : r.id = c.id => r.born = c.born

(* The inductive invariant behind TypeOK and IdsStayWithTheirRule.         *)
RulesInv == SchemaInv /\ TypeOK /\ CallsMeanTheirRule /\ IdsStayWithTheirRule

LEMMA InitRulesInv == Init => RulesInv
  BY InitSchemaInv DEF Init, RulesInv, SchemaInv, TypeOK, CallsMeanTheirRule, IdsStayWithTheirRule,
     NoEngine, Ids

LEMMA InsertStep ==
  ASSUME RulesInv, SchemaTypeOK', NEW p \in Processes, NEW x \in Contents, InsertRule(p, x)
  PROVE  (TypeOK /\ CallsMeanTheirRule /\ IdsStayWithTheirRule)'
  <1> DEFINE n == lastId + 1
             r == [id |-> n, what |-> x, created |-> now, born |-> changes + 1]
             c == [by |-> p, id |-> n, born |-> changes + 1]
  <1>1. /\ lastId' = n /\ rules' = rules \cup {r} /\ calls' = calls \cup {c}
        /\ changes' = changes + 1 /\ UNCHANGED <<now, known, engine>>
    BY DEF InsertRule, Change
  <1>2. /\ lastId \in Nat /\ now \in Nat /\ changes \in Nat /\ n \in 1..n
        /\ n \notin 1..lastId /\ 1..lastId \subseteq 1..n
    BY DEF RulesInv, TypeOK
  <1>3. /\ r \in Rules /\ c \in [by : Processes, id : 1..n, born : Nat]
        /\ r.id = n /\ c.id = n /\ r.born = c.born
    BY <1>2 DEF Rules
  <1> HIDE DEF n, r, c
  <1>4. /\ \A s \in rules : s \in Rules /\ s.id \in 1..lastId
        /\ \A d \in calls : d \in [by : Processes, id : 1..lastId, born : Nat]
        /\ \A k \in known : k \in [id : 1..lastId, born : Nat, created : Nat]
    BY DEF RulesInv, TypeOK, Ids, Handles
  <1>5. TypeOK'
    <2>1. rules' \subseteq Rules /\ \A s, t \in rules' : s.id \in 1..n /\ (s.id = t.id => s = t)
      BY <1>1, <1>2, <1>3, <1>4 DEF RulesInv, TypeOK
    <2>2. calls' \subseteq [by : Processes, id : 1..n, born : Nat]
      BY <1>1, <1>2, <1>3, <1>4
    <2>3. known' \subseteq [id : 1..n, born : Nat, created : Nat]
      BY <1>1, <1>2, <1>4
    <2>4. engine'.from \subseteq Rules /\ lastId' \in Nat /\ now' \in Nat /\ changes' \in Nat
      BY <1>1, <1>2 DEF RulesInv, TypeOK, n
    <2> QED BY <1>1, <2>1, <2>2, <2>3, <2>4 DEF TypeOK, Ids, Handles, Rules
  <1>6. CallsMeanTheirRule'
    <2> SUFFICES ASSUME NEW d \in calls', NEW s \in rules', s.id = d.id PROVE s.born = d.born
      BY DEF CallsMeanTheirRule
    <2>1. d \in calls => d.id \in 1..lastId
      BY <1>4
    <2> QED BY <1>1, <1>2, <1>3, <1>4, <2>1 DEF RulesInv, CallsMeanTheirRule
  <1>7. IdsStayWithTheirRule'
    <2>1. \A k \in known : k.id \in 1..lastId
      BY <1>4
    <2> QED BY <1>1, <1>2, <1>3, <2>1 DEF RulesInv, IdsStayWithTheirRule
  <1> QED BY <1>5, <1>6, <1>7

LEMMA ReadBackStep ==
  ASSUME RulesInv, SchemaTypeOK', NEW c \in calls, ReadBack(c)
  PROVE  (TypeOK /\ CallsMeanTheirRule /\ IdsStayWithTheirRule)'
  <1>1. /\ calls' \subseteq calls /\ UNCHANGED <<rules, lastId, now, changes, engine>>
        /\ known' = known \cup {[id |-> c.id, born |-> c.born, created |-> r.created] :
                                  r \in {x \in rules : x.id = c.id}}
    BY DEF ReadBack
  <1>2. c \in [by : Processes, id : Ids, born : Nat]
    BY DEF RulesInv, TypeOK
  <1>3. ASSUME NEW k \in known', k \notin known
        PROVE  /\ k \in Handles
               /\ \A r \in rules : r.id = k.id => r.born = k.born /\ r.created = k.created
    <2>1. PICK x \in rules : x.id = c.id /\ k = [id |-> c.id, born |-> c.born, created |-> x.created]
      BY <1>1, <1>3
    <2>2. x \in Rules /\ \A r \in rules : r.id = x.id => r = x
      BY DEF RulesInv, TypeOK
    <2>3. x.born = c.born
      BY <2>1 DEF RulesInv, CallsMeanTheirRule
    <2> QED BY <1>2, <2>1, <2>2, <2>3 DEF Handles, Rules
  <1>4. TypeOK'
    BY <1>1, <1>3 DEF RulesInv, TypeOK, Ids, Handles, Rules
  <1>5. CallsMeanTheirRule'
    BY <1>1 DEF RulesInv, CallsMeanTheirRule
  <1>6. IdsStayWithTheirRule'
    BY <1>1, <1>3 DEF RulesInv, IdsStayWithTheirRule
  <1> QED BY <1>4, <1>5, <1>6

LEMMA UpdateStep ==
  ASSUME RulesInv, SchemaTypeOK', NEW p \in Processes, NEW k \in known, NEW x \in Contents,
         UpdateRule(p, k, x)
  PROVE  (TypeOK /\ CallsMeanTheirRule /\ IdsStayWithTheirRule)'
  <1>1. /\ rules' = {r \in rules : r.id /= k.id} \cup
                     {[r EXCEPT !.what = x] : r \in {y \in rules : y.id = k.id}}
        /\ changes' = changes + 1
        /\ UNCHANGED <<lastId, now, calls, known, engine>>
    BY DEF UpdateRule, Change
  <1>2. ASSUME NEW r \in rules
        PROVE  LET s == [r EXCEPT !.what = x]
               IN  s \in Rules /\ s.id = r.id /\ s.born = r.born /\ s.created = r.created
    BY DEF RulesInv, TypeOK, Rules
  <1>3. \A s \in rules' : \E r \in rules :
          s \in Rules /\ s.id = r.id /\ s.born = r.born /\ s.created = r.created
          /\ (r.id = k.id => s = [r EXCEPT !.what = x]) /\ (r.id /= k.id => s = r)
    <2> SUFFICES ASSUME NEW s \in rules'
                 PROVE  \E r \in rules :
                          s \in Rules /\ s.id = r.id /\ s.born = r.born /\ s.created = r.created
                          /\ (r.id = k.id => s = [r EXCEPT !.what = x]) /\ (r.id /= k.id => s = r)
      OBVIOUS
    <2>1. CASE s \in rules /\ s.id /= k.id
      BY <2>1 DEF RulesInv, TypeOK
    <2>2. CASE \E r \in rules : r.id = k.id /\ s = [r EXCEPT !.what = x]
      BY <2>2, <1>2
    <2> QED BY <1>1, <2>1, <2>2
  <1>4. TypeOK'
    <2>1. rules' \subseteq Rules /\ \A s \in rules' : s.id \in Ids
      BY <1>3 DEF RulesInv, TypeOK
    <2>2. ASSUME NEW s \in rules', NEW t \in rules', s.id = t.id PROVE s = t
      <3>1. PICK r \in rules : /\ s.id = r.id /\ (r.id = k.id => s = [r EXCEPT !.what = x])
                               /\ (r.id /= k.id => s = r)
        BY <1>3
      <3>2. PICK q \in rules : /\ t.id = q.id /\ (q.id = k.id => t = [q EXCEPT !.what = x])
                               /\ (q.id /= k.id => t = q)
        BY <1>3
      <3>3. r = q
        BY <2>2, <3>1, <3>2 DEF RulesInv, TypeOK
      <3> QED BY <3>1, <3>2, <3>3
    <2>3. changes' \in Nat
      BY <1>1 DEF RulesInv, TypeOK
    <2> QED BY <1>1, <2>1, <2>2, <2>3 DEF RulesInv, TypeOK, Ids, Handles, Rules
  <1>5. CallsMeanTheirRule'
    BY <1>1, <1>3 DEF RulesInv, CallsMeanTheirRule
  <1>6. IdsStayWithTheirRule'
    BY <1>1, <1>3 DEF RulesInv, IdsStayWithTheirRule
  <1> QED BY <1>4, <1>5, <1>6

LEMMA ListStep ==
  ASSUME RulesInv, SchemaTypeOK', NEW p \in Processes, ListRules(p)
  PROVE  (TypeOK /\ CallsMeanTheirRule /\ IdsStayWithTheirRule)'
  <1>1. /\ known' = known \cup {Handle(r) : r \in rules}
        /\ UNCHANGED <<rules, lastId, now, changes, calls, engine>>
    BY DEF ListRules
  <1>2. ASSUME NEW r \in rules
        PROVE  /\ Handle(r) \in Handles
               /\ \A s \in rules : s.id = Handle(r).id =>
                    s.born = Handle(r).born /\ s.created = Handle(r).created
    BY DEF Handle, Handles, RulesInv, TypeOK, Rules
  <1>3. TypeOK'
    BY <1>1, <1>2 DEF RulesInv, TypeOK, Ids, Handles, Rules
  <1>4. IdsStayWithTheirRule'
    BY <1>1, <1>2 DEF RulesInv, IdsStayWithTheirRule
  <1> QED BY <1>1, <1>3, <1>4 DEF RulesInv, CallsMeanTheirRule

(* Steps that add no rule, no call and no handle.                          *)
LEMMA FewerRules ==
  ASSUME RulesInv, SchemaTypeOK',
         rules' \subseteq rules, calls' \subseteq calls, UNCHANGED <<lastId, known>>,
         now' \in Nat, changes' \in Nat, engine'.from \subseteq Rules
  PROVE  (TypeOK /\ CallsMeanTheirRule /\ IdsStayWithTheirRule)'
  <1>1. TypeOK'
    BY DEF RulesInv, TypeOK, Ids, Handles, Rules
  <1>2. CallsMeanTheirRule'
    BY DEF RulesInv, CallsMeanTheirRule
  <1>3. IdsStayWithTheirRule'
    BY DEF RulesInv, IdsStayWithTheirRule
  <1> QED BY <1>1, <1>2, <1>3

LEMMA NextRulesInv ==
  ASSUME RulesInv, [Next]_vars
  PROVE  RulesInv'
  <1>1. SchemaInv' /\ SchemaTypeOK'
    BY RulesLeaveSchema, NextSchemaInv DEF RulesInv, SchemaInv
  <1>2. /\ now \in Nat /\ changes \in Nat /\ engine.from \subseteq Rules /\ rules \subseteq Rules
    BY DEF RulesInv, TypeOK
  <1> SUFFICES (TypeOK /\ CallsMeanTheirRule /\ IdsStayWithTheirRule)'
    BY <1>1 DEF RulesInv
  <1>3. CASE \E p \in Processes, x \in Contents : InsertRule(p, x)
    BY <1>1, <1>3, InsertStep
  <1>4. CASE \E c \in calls : ReadBack(c)
    BY <1>1, <1>4, ReadBackStep
  <1>5. CASE \E p \in Processes, k \in known, x \in Contents : UpdateRule(p, k, x)
    BY <1>1, <1>5, UpdateStep
  <1>6. CASE \E p \in Processes : ListRules(p)
    BY <1>1, <1>6, ListStep
  <1>7. ASSUME NEW p \in Processes, NEW k \in known, DeleteRule(p, k)
        PROVE  (TypeOK /\ CallsMeanTheirRule /\ IdsStayWithTheirRule)'
    <2>1. rules' \subseteq rules /\ changes' \in Nat /\ UNCHANGED <<lastId, now, calls, known, engine>>
      BY <1>2, <1>7 DEF DeleteRule, Change
    <2> QED BY <1>1, <1>2, <2>1, FewerRules
  <1>8. ASSUME NEW p \in Processes, LoadRuleEngine(p)
        PROVE  (TypeOK /\ CallsMeanTheirRule /\ IdsStayWithTheirRule)'
    <2>1. engine'.from = rules /\ UNCHANGED <<rules, lastId, now, changes, calls, known>>
      BY <1>8 DEF LoadRuleEngine
    <2> QED BY <1>1, <1>2, <2>1, FewerRules
  <1>9. CASE Tick \/ UNCHANGED vars \/ (\E c \in calls : ReadBackFails(c))
             \/ \E p \in Processes : Crash(p) \/ (BootStep(p) /\ UNCHANGED ruleVars)
    <2>1. /\ rules' \subseteq rules /\ calls' \subseteq calls
          /\ now' \in Nat /\ UNCHANGED <<lastId, changes, known, engine>>
      BY <1>2, <1>9 DEF Tick, vars, ruleVars, ReadBackFails, Crash
    <2> QED BY <1>1, <1>2, <2>1, FewerRules
  <1> QED BY <1>3, <1>4, <1>5, <1>6, <1>7, <1>8, <1>9 DEF Next, RuleStep

(* Types, for every number of processes, rules and changes.                *)
THEOREM RulesTypeCorrect == Spec => []TypeOK
  <1>1. RulesInv => TypeOK
    BY DEF RulesInv
  <1> QED BY <1>1, InitRulesInv, NextRulesInv, PTL DEF Spec

(* Whatever a client was ever told about an id names the rule it was told  *)
(* about, or none: no update or delete by id hits a rule somebody else     *)
(* created since.                                                          *)
THEOREM IdsStay == Spec => []IdsStayWithTheirRule
  <1>1. RulesInv => IdsStayWithTheirRule
    BY DEF RulesInv
  <1> QED BY <1>1, InitRulesInv, NextRulesInv, PTL DEF Spec

-----------------------------------------------------------------------------
(* What NewRuleEngine makes of a list, by induction on its length.         *)
LEMMA LeastNumber ==
  ASSUME NEW T \in SUBSET Nat, T /= {}
  PROVE  \E x \in T : \A y \in T : x <= y
  <1>1. PICK x \in T : \A y \in T : ~(<<y, x>> \in OpToRel(<, Nat))
    BY NatLessThanWellFounded, WFMin, Zenon
  <1>2. \A y \in T : ~(y < x)
    BY <1>1 DEF OpToRel
  <1> QED BY <1>2

LEMMA CountUp ==
  ASSUME NEW m \in Nat, NEW T, 0 \in T, \A n \in 1..m : n - 1 \in T => n \in T
  PROVE  \A n \in 0..m : n \in T
  <1> SUFFICES ASSUME NEW n \in 0..m, n \notin T PROVE FALSE
    OBVIOUS
  <1> DEFINE Missing == {k \in 0..m : k \notin T}
  <1>1. Missing \in SUBSET Nat /\ Missing /= {}
    OBVIOUS
  <1>2. PICK k \in Missing : \A j \in Missing : k <= j
    BY <1>1, LeastNumber
  <1>3. k /= 0 /\ k \in 1..m
    OBVIOUS
  <1>4. k - 1 \in T
    BY <1>2, <1>3
  <1> QED BY <1>3, <1>4

(* The loop of NewRuleEngine after n rules, if f is what it had before.    *)
Loop(list, f, n) ==
  IF n = 0 THEN <<>>
  ELSE IF list[n].what.enabled THEN Append(f[n - 1], list[n]) ELSE f[n - 1]

IsLoop(list, f, m) == f = [n \in 0..m |-> Loop(list, f, n)]

LEMMA LoopExists ==
  ASSUME NEW R, NEW list \in Seq(R)
  PROVE  \E f : IsLoop(list, f, Len(list))
  <1> DEFINE T == {m \in 0..Len(list) : \E f : IsLoop(list, f, m)}
  <1>1. 0 \in T
    <2> DEFINE f == [n \in 0..0 |-> <<>>]
    <2>1. IsLoop(list, f, 0)
      BY DEF IsLoop, Loop
    <2> QED BY <2>1
  <1>2. ASSUME NEW m \in 1..Len(list), m - 1 \in T PROVE m \in T
    <2>1. PICK f : IsLoop(list, f, m - 1)
      BY <1>2
    <2> DEFINE g == [n \in 0..m |-> IF n = m THEN Loop(list, f, m) ELSE f[n]]
    <2>2. \A n \in 0..m : n /= m => n \in 0..(m - 1) /\ f[n] = Loop(list, f, n)
      BY <2>1 DEF IsLoop
    <2>3. \A n \in 0..m : n /= 0 => n - 1 \in 0..(m - 1) /\ g[n - 1] = f[n - 1]
      OBVIOUS
    <2>4. \A n \in 0..m : g[n] = Loop(list, g, n)
      BY <2>2, <2>3 DEF Loop
    <2>5. IsLoop(list, g, m)
      BY <2>4 DEF IsLoop
    <2> QED BY <2>5
  <1>3. Len(list) \in Nat /\ Len(list) \in 0..Len(list)
    OBVIOUS
  <1> HIDE DEF T
  <1>4. Len(list) \in T
    BY <1>1, <1>2, <1>3, CountUp
  <1> QED BY <1>4 DEF T

LEMMA EngineIsLoop ==
  ASSUME NEW R, NEW list \in Seq(R)
  PROVE  \E f : IsLoop(list, f, Len(list)) /\ NewRuleEngine(list) = f[Len(list)]
  <1> DEFINE f == CHOOSE g : IsLoop(list, g, Len(list))
  <1>1. IsLoop(list, f, Len(list))
    BY LoopExists
  <1>2. NewRuleEngine(list) = f[Len(list)]
    BY DEF NewRuleEngine, IsLoop, Loop
  <1> QED BY <1>1, <1>2
Ascending(list) == \A i, j \in DOMAIN list : i < j => list[i].created <= list[j].created

(* The enabled ones of the first n rules of the list, in their order.      *)
Kept(list, e, n) ==
  /\ e \in Seq(Rules) /\ Ascending(e)
  /\ \A i \in DOMAIN e : \E j \in 1..n : e[i] = list[j] /\ list[j].what.enabled
  /\ \A j \in 1..n : list[j].what.enabled => \E i \in DOMAIN e : e[i] = list[j]

LEMMA KeptNext ==
  ASSUME NEW list \in Seq(Rules), Ascending(list), NEW n \in 1..Len(list),
         NEW e, Kept(list, e, n - 1)
  PROVE  Kept(list, IF list[n].what.enabled THEN Append(e, list[n]) ELSE e, n)
  <1>1. n \in Nat /\ \A j \in 1..n : j \in 1..(n - 1) \/ j = n
    OBVIOUS
  <1>2. \A j \in 1..(n - 1) : j \in 1..n /\ j \in DOMAIN list /\ j < n
    OBVIOUS
  <1>3. CASE ~list[n].what.enabled
    BY <1>1, <1>2, <1>3 DEF Kept
  <1>4. CASE list[n].what.enabled
    <2> DEFINE k == Len(e) + 1
               t == Append(e, list[n])
    <2>1. e \in Seq(Rules) /\ list[n] \in Rules /\ n \in DOMAIN list
      BY DEF Kept
    <2>2. /\ t \in Seq(Rules) /\ t[k] = list[n] /\ k \in Nat
          /\ \A i \in DOMAIN e : t[i] = e[i] /\ i < k /\ i \in Nat
          /\ \A i : i \in DOMAIN t <=> i \in DOMAIN e \/ i = k
      BY <2>1
    <2> HIDE DEF t, k
    <2>3. \A i \in DOMAIN e : e[i].created <= list[n].created
      BY <1>2, <2>1 DEF Kept, Ascending
    <2>4. Ascending(t)
      <3> SUFFICES ASSUME NEW i \in DOMAIN t, NEW j \in DOMAIN t, i < j
                   PROVE  t[i].created <= t[j].created
        BY DEF Ascending
      <3>1. CASE i \in DOMAIN e /\ j \in DOMAIN e
        BY <3>1, <2>2 DEF Kept, Ascending
      <3>2. CASE i \in DOMAIN e /\ j = k
        BY <3>2, <2>2, <2>3
      <3>3. CASE i = k
        BY <3>3, <2>2
      <3> QED BY <2>2, <3>1, <3>2, <3>3
    <2>5. \A i \in DOMAIN t : \E j \in 1..n : t[i] = list[j] /\ list[j].what.enabled
      <3>1. \A i \in DOMAIN e : \E j \in 1..n : e[i] = list[j] /\ list[j].what.enabled
        BY <1>2 DEF Kept
      <3>2. n \in 1..n
        BY <1>1
      <3> QED BY <3>1, <3>2, <2>2, <1>4
    <2>6. \A j \in 1..n : list[j].what.enabled => \E i \in DOMAIN t : t[i] = list[j]
      <3>1. \A j \in 1..(n - 1) : list[j].what.enabled => \E i \in DOMAIN e : e[i] = list[j]
        BY DEF Kept
      <3> QED BY <3>1, <2>2, <1>1
    <2> QED BY <1>4, <2>2, <2>4, <2>5, <2>6 DEF Kept, t
  <1> QED BY <1>3, <1>4

LEMMA EngineKeeps ==
  ASSUME NEW list \in Seq(Rules), Ascending(list)
  PROVE  Kept(list, NewRuleEngine(list), Len(list))
  <1>1. PICK f : IsLoop(list, f, Len(list)) /\ NewRuleEngine(list) = f[Len(list)]
    BY EngineIsLoop
  <1> DEFINE T == {n \in 0..Len(list) : Kept(list, f[n], n)}
  <1>2. \A n \in 0..Len(list) : f[n] = Loop(list, f, n)
    BY <1>1 DEF IsLoop
  <1>3. Len(list) \in Nat /\ 0 \in 0..Len(list) /\ Len(list) \in 0..Len(list)
    OBVIOUS
  <1>4. 0 \in T
    <2>1. f[0] = <<>>
      BY <1>2, <1>3 DEF Loop
    <2>2. Kept(list, <<>>, 0)
      BY DEF Kept, Ascending
    <2> QED BY <2>1, <2>2, <1>3
  <1>5. ASSUME NEW n \in 1..Len(list), n - 1 \in T PROVE n \in T
    <2>1. n \in 0..Len(list) /\ n /= 0
      OBVIOUS
    <2>2. f[n] = IF list[n].what.enabled THEN Append(f[n - 1], list[n]) ELSE f[n - 1]
      BY <2>1, <1>2 DEF Loop
    <2>3. Kept(list, IF list[n].what.enabled THEN Append(f[n - 1], list[n]) ELSE f[n - 1], n)
      BY <1>5, KeptNext
    <2> QED BY <2>1, <2>2, <2>3
  <1> HIDE DEF T
  <1>6. Len(list) \in T
    BY <1>3, <1>4, <1>5, CountUp
  <1> QED BY <1>1, <1>6 DEF T

(* A listing holds every rule.                                             *)
LEMMA ListingsAreComplete ==
  ASSUME RulesInv, IsFiniteSet(rules), NEW list \in Listings
  PROVE  /\ list \in Seq(Rules) /\ Ascending(list)
         /\ \A r : r \in rules <=> \E i \in DOMAIN list : list[i] = r
  <1> DEFINE n == Cardinality(rules)
  <1>1. n \in Nat
    BY FS_CardinalityType
  <1>2. /\ list \in [1..n -> rules] /\ Ascending(list)
        /\ \A i, j \in 1..n : i /= j => list[i] /= list[j]
    BY DEF Listings, SetToSeqs, Ascending
  <1>3. IsFiniteSet(1..n) /\ Cardinality(1..n) = n
    BY <1>1, FS_Interval
  <1> HIDE DEF n
  <1>4. list \in Injection(1..n, rules)
    BY <1>2, Fun_IsInj
  <1>5. list \in Surjection(1..n, rules)
    BY <1>3, <1>4, FS_Injection DEF n
  <1>6. \A r \in rules : \E i \in 1..n : list[i] = r
    BY <1>5 DEF Surjection
  <1>7. list \in Seq(Rules)
    <2>1. rules \subseteq Rules
      BY DEF RulesInv, TypeOK
    <2> QED BY <1>1, <1>2, <2>1
  <1> QED BY <1>2, <1>6, <1>7

(* What an engine holds of the table it was loaded from.                   *)
EngineInv ==
  /\ IsFiniteSet(rules)
  /\ engine.list \in Seq(Rules) /\ Ascending(engine.list)
  /\ \A r : (r \in engine.from /\ r.what.enabled) <=> \E i \in DOMAIN engine.list : engine.list[i] = r

LEMMA InitEngine == Init => EngineInv
  BY FS_EmptySet DEF Init, EngineInv, NoEngine, Ascending

LEMMA FiniteChanges ==
  ASSUME IsFiniteSet(rules), [Next]_vars
  PROVE  IsFiniteSet(rules')
  <1>1. CASE rules' \subseteq rules
    BY <1>1, FS_Subset
  <1>2. ASSUME NEW p \in Processes, NEW x \in Contents, InsertRule(p, x) PROVE IsFiniteSet(rules')
    BY <1>2, FS_AddElement DEF InsertRule
  <1>3. ASSUME NEW p \in Processes, NEW k \in known, NEW x \in Contents, UpdateRule(p, k, x)
        PROVE  IsFiniteSet(rules')
    <2> DEFINE g(r) == IF r.id /= k.id THEN r ELSE [r EXCEPT !.what = x]
               f == [r \in rules |-> g(r)]
               S == {g(r) : r \in rules}
    <2>1. rules' \subseteq S
      BY <1>3 DEF UpdateRule
    <2>2. f \in [rules -> S] /\ \A y \in S : \E r \in rules : f[r] = y
      OBVIOUS
    <2> HIDE DEF f, S
    <2>3. f \in Surjection(rules, S)
      BY <2>2, Fun_IsSurj
    <2>4. IsFiniteSet(S)
      BY <2>3, FS_Surjection
    <2> QED BY <2>1, <2>4, FS_Subset
  <1>4. ASSUME NEW p \in Processes,
               (\E k \in known : DeleteRule(p, k)) \/ ListRules(p) \/ LoadRuleEngine(p)
        PROVE  rules' \subseteq rules
    BY <1>4 DEF DeleteRule, ListRules, LoadRuleEngine
  <1>5. CASE Tick \/ UNCHANGED vars \/ (\E c \in calls : ReadBack(c) \/ ReadBackFails(c))
             \/ \E p \in Processes : Crash(p) \/ (BootStep(p) /\ UNCHANGED ruleVars)
    BY <1>1, <1>5 DEF Tick, vars, ruleVars, ReadBack, ReadBackFails, Crash
  <1> QED BY <1>1, <1>2, <1>3, <1>4, <1>5 DEF Next, RuleStep

LEMMA NextEngine ==
  ASSUME RulesInv, EngineInv, [Next]_vars
  PROVE  EngineInv'
  <1>1. IsFiniteSet(rules) /\ IsFiniteSet(rules')
    BY FiniteChanges DEF EngineInv
  <1>2. ASSUME NEW p \in Processes, LoadRuleEngine(p) PROVE EngineInv'
    <2>1. PICK s \in Listings : engine' = [list |-> NewRuleEngine(s), from |-> rules]
      BY <1>2 DEF LoadRuleEngine
    <2>2. /\ s \in Seq(Rules) /\ Ascending(s) /\ DOMAIN s = 1..Len(s)
          /\ \A r : r \in rules <=> \E i \in DOMAIN s : s[i] = r
      BY <1>1, ListingsAreComplete
    <2>3. Kept(s, engine'.list, Len(s)) /\ engine'.from = rules
      BY <2>1, <2>2, EngineKeeps
    <2> QED BY <1>1, <2>2, <2>3 DEF EngineInv, Kept
  <1>3. ASSUME UNCHANGED engine PROVE EngineInv'
    BY <1>1, <1>3 DEF EngineInv
  <1>4. ASSUME NEW p \in Processes, RuleStep(p) PROVE EngineInv'
    BY <1>2, <1>3, <1>4 DEF RuleStep, InsertRule, UpdateRule, DeleteRule, ListRules
  <1>5. CASE Tick \/ UNCHANGED vars \/ (\E c \in calls : ReadBack(c) \/ ReadBackFails(c))
             \/ \E p \in Processes : Crash(p) \/ (BootStep(p) /\ UNCHANGED ruleVars)
    BY <1>3, <1>5 DEF Tick, vars, ruleVars, ReadBack, ReadBackFails, Crash
  <1> QED BY <1>4, <1>5 DEF Next

(* The first match of an ascending list is an oldest one.                  *)
LEMMA FirstIsOldest == EngineInv => OldestRuleDecides
  <1> SUFFICES ASSUME EngineInv, NEW class \in Classes
               PROVE  LET able == {r \in engine.from : r.what.enabled /\ class \in r.what.matches}
                          by   == Match(engine.list, class)
                      IN  /\ by \subseteq able
                          /\ able /= {} => by /= {}
                          /\ \A r \in by, s \in able : r.created <= s.created
    BY DEF OldestRuleDecides
  <1> DEFINE list == engine.list
             able == {r \in engine.from : r.what.enabled /\ class \in r.what.matches}
             by   == Match(list, class)
             M    == {i \in DOMAIN list : class \in list[i].what.matches}
  <1>1. list \in Seq(Rules) /\ Ascending(list) /\ DOMAIN list \subseteq Nat
    BY DEF EngineInv
  <1>2. \A r : r \in able <=> \E i \in M : list[i] = r
    BY DEF EngineInv
  <1>3. \A r : r \in by <=> \E i \in M : r = list[i] /\ \A k \in 1..(i - 1) : class \notin list[k].what.matches
    BY DEF Match
  <1>4. M \in SUBSET Nat
    BY <1>1
  <1>5. by \subseteq able
    BY <1>2, <1>3
  <1>6. ASSUME able /= {} PROVE by /= {}
    <2>1. PICK i \in M : \A j \in M : i <= j
      BY <1>2, <1>4, <1>6, LeastNumber
    <2>2. \A k \in 1..(i - 1) : k \notin M /\ k \in DOMAIN list
      BY <1>1, <1>4, <2>1
    <2> QED BY <1>3, <2>1, <2>2
  <1>7. ASSUME NEW r \in by, NEW s \in able PROVE r.created <= s.created
    <2>1. PICK i \in M : r = list[i] /\ \A k \in 1..(i - 1) : class \notin list[k].what.matches
      BY <1>3
    <2>2. PICK j \in M : s = list[j]
      BY <1>2
    <2>3. i \in Nat /\ j \in Nat /\ j >= 1 /\ list[i].created \in Nat
      <3>1. i \in DOMAIN list /\ j \in DOMAIN list /\ list[i] \in Rules
        BY <1>1
      <3> QED BY <3>1, <1>1 DEF Rules
    <2>4. j \notin 1..(i - 1)
      BY <2>1
    <2>5. i = j \/ i < j
      BY <2>3, <2>4
    <2> QED BY <2>1, <2>2, <2>3, <2>5, <1>1 DEF Ascending
  <1> QED BY <1>5, <1>6, <1>7

(* Whatever was created, changed, disabled or deleted before an engine was *)
(* loaded, and in whichever order rules of one second were listed: the     *)
(* rule that decides is enabled, matches, and no older one does; and one   *)
(* decides whenever one can.                                               *)
THEOREM OldestDecides == Spec => []OldestRuleDecides
  BY InitRulesInv, NextRulesInv, InitEngine, NextEngine, FirstIsOldest, PTL DEF Spec
==============================================================================
