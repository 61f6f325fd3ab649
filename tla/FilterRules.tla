----------------------------- MODULE FilterRules -----------------------------
(***************************************************************************)
(* The filter rules (sqlite/store.go, rule.go): processes that share a      *)
(* database create, change, delete and list rules, and load them into a     *)
(* RuleEngine, which decides by the first rule that matches.                *)
(*                                                                         *)
(* Of a rule's contents there is what decides: the classes of requests its  *)
(* field, operator and value match, and whether it is enabled.  Clients     *)
(* keep the IDs they were given, also over a restart of the process.        *)
(***************************************************************************)
EXTENDS Schema, SequencesExt

CONSTANTS
  Classes,     \* requests, by the fields that rules test
  Contents,    \* what a rule can say
  MaxChanges,  \* bound: rules created, updated and deleted
  MaxTime      \* bound: seconds

ASSUME RulesAssumption ==
  /\ Contents \subseteq [matches : SUBSET Classes, enabled : BOOLEAN]
  /\ {MaxChanges, MaxTime} \subseteq Nat

VARIABLES
  rules,    \* the filter_rules table
  lastId,   \* the largest id there ever was (AUTOINCREMENT)
  now,      \* the database's clock
  changes,  \* rules created, updated and deleted so far
  calls,    \* the CreateRule calls that have inserted and not read back
  known,    \* what clients know: an id, the rule they mean by it, its created_at
  engine    \* the RuleEngine loaded last, and (history) the table it was loaded from

ruleVars == <<rules, lastId, now, changes, calls, known, engine>>
vars     == <<schemaVars, ruleVars>>

NoEngine == [list |-> <<>>, from |-> {}]

Init ==
  /\ SchemaInit
  /\ rules = {} /\ lastId = 0 /\ now = 0 /\ changes = 0
  /\ calls = {} /\ known = {} /\ engine = NoEngine

Change == changes < MaxChanges /\ changes' = changes + 1

Tick == now < MaxTime /\ now' = now + 1
        /\ UNCHANGED <<schemaVars, rules, lastId, changes, calls, known, engine>>

-----------------------------------------------------------------------------
(* CreateRule: an INSERT, and a SELECT that reads created_at back.  The    *)
(* field born names the rule, whatever its contents become.                *)

(* Mutant of InsertRule: the key is one more than the largest in use.      *)
InsertReusing(p, x) ==
  LET id == 1 + (CHOOSE n \in 0..lastId :
                   /\ \A r \in rules : r.id <= n
                   /\ n = 0 \/ \E r \in rules : r.id = n)
  IN  /\ IsUp(p) /\ Change
      /\ rules' = rules \cup {[id |-> id, what |-> x, created |-> now, born |-> changes']}
      /\ lastId' = IF id > lastId THEN id ELSE lastId
      /\ calls' = calls \cup {[by |-> p, id |-> id, born |-> changes']}
      /\ UNCHANGED <<schemaVars, now, known, engine>>

InsertRule(p, x) ==
  /\ IsUp(p) /\ Change
  /\ lastId' = lastId + 1
  /\ rules' = rules \cup {[id |-> lastId', what |-> x, created |-> now, born |-> changes']}
  /\ calls' = calls \cup {[by |-> p, id |-> lastId', born |-> changes']}
  /\ UNCHANGED <<schemaVars, now, known, engine>>

Handle(r) == [id |-> r.id, born |-> r.born, created |-> r.created]

(* Mutant of ReadBack: the rule is returned without its id.                *)
ReadBackWithoutId(c) ==
  /\ calls' = calls \ {c}
  /\ known' = known \cup {[id |-> 0, born |-> c.born, created |-> r.created] :
                            r \in {x \in rules : x.id = c.id}}
  /\ UNCHANGED <<schemaVars, rules, lastId, now, changes, engine>>

ReadBack(c) ==
  /\ calls' = calls \ {c}
  /\ known' = known \cup {[id |-> c.id, born |-> c.born, created |-> r.created] :
                            r \in {x \in rules : x.id = c.id}}
  /\ UNCHANGED <<schemaVars, rules, lastId, now, changes, engine>>

(* The caller's context is done, or the database is locked: the client     *)
(* gets an error, and the rule stays.                                      *)
ReadBackFails(c) ==
  /\ calls' = calls \ {c}
  /\ UNCHANGED <<schemaVars, rules, lastId, now, changes, known, engine>>

(* UpdateRule and DeleteRule: no row affected is an error.                 *)
UpdateRule(p, k, x) ==
  /\ IsUp(p) /\ Change
  /\ \E r \in rules : r.id = k.id
  /\ rules' = {r \in rules : r.id /= k.id} \cup
       {[r EXCEPT !.what = x] : r \in {y \in rules : y.id = k.id}}
  /\ UNCHANGED <<schemaVars, lastId, now, calls, known, engine>>

DeleteRule(p, k) ==
  /\ IsUp(p) /\ Change
  /\ \E r \in rules : r.id = k.id
  /\ rules' = {r \in rules : r.id /= k.id}
  /\ UNCHANGED <<schemaVars, lastId, now, calls, known, engine>>

(* ListRules, for a client: ...                                            *)
ListRules(p) ==
  /\ IsUp(p)
  /\ known' = known \cup {Handle(r) : r \in rules}
  /\ UNCHANGED <<schemaVars, rules, lastId, now, changes, calls, engine>>

-----------------------------------------------------------------------------
(* ... ORDER BY created_at: rules of the same second come in any order.    *)
Listings ==
  {s \in SetToSeqs(rules) : \A i, j \in DOMAIN s : i < j => s[i].created <= s[j].created}

(* Mutant of NewRuleEngine: disabled rules are kept.                       *)
EngineOfAll(list) == list

NewRuleEngine(list) ==
  LET kept[n \in 0..Len(list)] ==
        IF n = 0 THEN <<>>
        ELSE IF list[n].what.enabled THEN Append(kept[n - 1], list[n]) ELSE kept[n - 1]
  IN  kept[Len(list)]

(* Match: the first rule whose field the request has and whose value       *)
(* matches; the set of the deciding rule, or the empty set.                *)
Match(list, class) ==
  {list[i] : i \in {j \in DOMAIN list :
     class \in list[j].what.matches
     /\ \A k \in 1..(j - 1) : class \notin list[k].what.matches}}

(* LoadRuleEngine.                                                         *)
LoadRuleEngine(p) ==
  /\ IsUp(p)
  /\ \E s \in Listings : engine' = [list |-> NewRuleEngine(s), from |-> rules]
  /\ UNCHANGED <<schemaVars, rules, lastId, now, changes, calls, known>>

(* A process that crashes takes its calls with it.                         *)
Crash(p) ==
  /\ CrashProcess(p)
  /\ calls' = {c \in calls : c.by /= p}
  /\ UNCHANGED <<rules, lastId, now, changes, known, engine>>

RuleStep(p) ==
  \/ \E x \in Contents : InsertRule(p, x)
  \/ \E k \in known, x \in Contents : UpdateRule(p, k, x)
  \/ \E k \in known : DeleteRule(p, k)
  \/ ListRules(p)
  \/ LoadRuleEngine(p)

Next ==
  \/ \E p \in Processes : (BootStep(p) /\ UNCHANGED ruleVars) \/ Crash(p) \/ RuleStep(p)
  \/ \E c \in calls : ReadBack(c) \/ ReadBackFails(c)
  \/ Tick

Spec == Init /\ [][Next]_vars

-----------------------------------------------------------------------------
Ids     == 1..lastId
Rules   == [id : Nat, what : Contents, created : Nat, born : Nat]
Handles == [id : Ids, born : Nat, created : Nat]

(* Type invariant: the id is a primary key, and every id a client holds    *)
(* was given to some rule.                                                 *)
TypeOK ==
  /\ SchemaTypeOK
  /\ rules \subseteq Rules
  /\ lastId \in Nat /\ now \in Nat /\ changes \in Nat
  /\ \A r, s \in rules : r.id \in Ids /\ (r.id = s.id => r = s)
  /\ calls \subseteq [by : Processes, id : Ids, born : Nat]
  /\ known \subseteq Handles
  /\ engine.from \subseteq Rules

(* An id stays with its rule: whatever a client was told about an id, by   *)
(* CreateRule or by ListRules, and however long ago, the id names that     *)
(* rule, with the same created_at, or none.  So an update or a delete      *)
(* never hits a rule that somebody else created in the meantime, no        *)
(* CreateRule returns the created_at of another rule, and editing a rule   *)
(* does not move it in the order in which the rules decide.                *)
IdsStayWithTheirRule ==
  \A k \in known, r \in rules :
    r.id = k.id => r.born = k.born /\ r.created = k.created

(* The rule that decides is an enabled one that matches, and no older one  *)
(* does ("the first matching rule's action", rule.go:54); none decides     *)
(* only if none does.  Deleting, disabling and editing rules, also of the  *)
(* same second, never leaves an engine in which a younger rule decides.    *)
OldestRuleDecides ==
  \A class \in Classes :
    LET able == {r \in engine.from : r.what.enabled /\ class \in r.what.matches}
        by   == Match(engine.list, class)
    IN  /\ by \subseteq able
        /\ able /= {} => by /= {}
        /\ \A r \in by, s \in able : r.created <= s.created
==============================================================================
