------------------------------ MODULE Retention ------------------------------
(***************************************************************************)
(* promolog.RetentionEngine (rule.go) and the age test the cleanup makes    *)
(* with it (sqlite/store.go), as pure operators.                            *)
(*                                                                         *)
(* A rule's field, operator and value together are one condition, and the   *)
(* six fields of a trace together are its class: Satisfies[cond] is the set *)
(* of classes the condition matches.  The order of the rules is left out:   *)
(* MinTTL and Match take the shortest TTL, and of the matching rule the     *)
(* cleanup uses nothing but its TTL.  Times and TTLs are in hours.          *)
(***************************************************************************)
EXTENDS Integers, FiniteSets, FiniteSetsExt

CONSTANTS
  Conditions,  \* what a rule can test
  Satisfies,   \* the classes each condition matches
  HourSpan,    \* a time.Duration holds -HourSpan..HourSpan-1 whole hours
  DefaultTTL   \* the TTL of a trace no rule matches

ASSUME SatisfiesAssumption == DOMAIN Satisfies = Conditions
ASSUME SpanAssumption == HourSpan \in Nat \ {0}
ASSUME DefaultTTLAssumption == DefaultTTL \in Int

Rule == [cond : Conditions, ttl : Int, enabled : BOOLEAN]

(* time.Duration(h) * time.Hour: int64 nanoseconds, which wrap around.     *)
Hours(h) == ((h + HourSpan) % (2 * HourSpan)) - HourSpan

(* Mutant of NewRetentionEngine: a disabled rule is loaded too.            *)
EngineWithDisabled(rules) == rules

(* NewRetentionEngine keeps the enabled rules.  The empty engine stands    *)
(* for nil as well: neither matches anything.                              *)
NewRetentionEngine(rules) == {r \in rules : r.enabled}

HasRules(engine) == engine /= {}

(* The shortest TTL among the rules, or 0 when there is none.              *)
MinTTL(engine) ==
  IF engine = {} THEN 0 ELSE Hours(Min({r.ttl : r \in engine}))

Matching(engine, class) == {r \in engine : class \in Satisfies[r.cond]}

(* Match, and the TTL the cleanup gives a trace: the shortest among the    *)
(* matching rules, or else the default.                                    *)
EffectiveTTL(engine, class) ==
  IF Matching(engine, class) = {}
  THEN DefaultTTL
  ELSE Hours(Min({r.ttl : r \in Matching(engine, class)}))

(* Mutant of PrefilterTTL: the shortest rule TTL alone, the default        *)
(* forgotten.                                                              *)
PrefilterByRules(engine) == IF MinTTL(engine) > 0 THEN MinTTL(engine) ELSE DefaultTTL

(* The age a row must have reached to be a candidate of a cleanup pass.    *)
PrefilterTTL(engine) ==
  IF MinTTL(engine) > 0 /\ MinTTL(engine) < DefaultTTL
  THEN MinTTL(engine)
  ELSE DefaultTTL

(* The test a candidate row is deleted by.                                 *)
Expired(row, engine, at) == at - row.createdAt > EffectiveTTL(engine, row.class)
==============================================================================
