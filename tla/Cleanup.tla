------------------------------- MODULE Cleanup -------------------------------
(***************************************************************************)
(* Retention (sqlite/store.go: StartCleanup, RunCleanup,                    *)
(* runCleanupWithEngine, deleteOlderThan, the retention rule CRUD) over the *)
(* store: cleaners load the rules, pick the candidate rows, decide which of *)
(* them have expired and delete those one statement at a time, while traces *)
(* are promoted and deleted, rules are edited, statements fail, the         *)
(* background loop is cancelled and the process restarts.                   *)
(*                                                                         *)
(* A cleaner is a goroutine running passes: a caller of RunCleanup, or, if  *)
(* in Background, the loop of StartCleanup.                                 *)
(***************************************************************************)
EXTENDS Store, Retention

CONSTANTS
  Cleaners,     \* goroutines that run cleanup passes
  Background,   \* those of them started by StartCleanup
  RuleIds,      \* keys of the retention_rules table
  NoRule,       \* no rule under this key
  TTLs,         \* the TTLHours a rule may have
  StartRules,   \* the tables a run may start with
  MaxEdits,     \* bound: rules created, updated or deleted
  Zone          \* hours that time.Local is ahead of UTC

ASSUME CleanersAssumption == Background \subseteq Cleaners
ASSUME RulesAssumption ==
  /\ \A x \in Conditions : Satisfies[x] \subseteq Classes
  /\ TTLs \subseteq Int
  /\ NoRule \notin Rule
  /\ StartRules \subseteq [RuleIds -> Rule \cup {NoRule}]
  /\ MaxEdits \in Nat
ASSUME ZoneAssumption == Zone \in Int

VARIABLES
  rules,      \* the retention_rules table
  edits,      \* rule edits so far
  cancelled,  \* the context given to StartCleanup is done
  pass,       \* each cleaner's pass: its stage and its local variables
  swept       \* history: rows the finished and the lost passes deleted

cleanVars == <<rules, edits, cancelled, pass, swept>>
vars      == <<storeVars, cleanVars>>

(* The locals of runCleanupWithEngine, and a history: upTo, the last row   *)
(* there was when the candidates were selected.                            *)
NoPass == [stage |-> "idle", engine |-> {}, start |-> 0, found |-> {}, toDelete |-> {},
           deleted |-> 0, upTo |-> 0]

CleanInit ==
  /\ Init
  /\ rules \in StartRules
  /\ edits = 0 /\ cancelled = FALSE
  /\ pass = [c \in Cleaners |-> NoPass]
  /\ swept = 0

RuleSet == {rules[r] : r \in {x \in RuleIds : rules[x] /= NoRule}}

-----------------------------------------------------------------------------
(* Rule edits: CreateRetentionRule, UpdateRetentionRule,                   *)
(* DeleteRetentionRule; an update or a delete of an absent key fails.      *)

Edit(new) ==
  /\ Free /\ edits < MaxEdits
  /\ rules' = new
  /\ edits' = edits + 1
  /\ UNCHANGED <<storeVars, cancelled, pass, swept>>

NewRules == [cond : Conditions, ttl : TTLs, enabled : BOOLEAN]

CreateRule(r) == rules[r] = NoRule /\ \E x \in NewRules : Edit([rules EXCEPT ![r] = x])
UpdateRule(r) == rules[r] /= NoRule /\ \E x \in NewRules : Edit([rules EXCEPT ![r] = x])
DeleteRule(r) == rules[r] /= NoRule /\ Edit([rules EXCEPT ![r] = NoRule])

-----------------------------------------------------------------------------
(* One pass.                                                               *)

Step(c, from, new) ==
  /\ pass[c].stage = from
  /\ pass' = [pass EXCEPT ![c] = new]

Cancelled(c) == cancelled /\ c \in Background

(* A statement of c runs: there is a connection and its context is alive.  *)
CanRun(c) == Free /\ ~Cancelled(c)

(* A statement of c fails: its context is done, or, up to the bound,       *)
(* anything else went wrong.                                               *)
Fails(c) ==
  IF Cancelled(c) THEN UNCHANGED faults
  ELSE faults < MaxFaults /\ faults' = faults + 1

KeepStore ==
  UNCHANGED <<now, traces, lastRow, used, removed, calls, onPromote, unset, wiredSince,
              exports, delivered, crashes>>

(* RunCleanup is called, or the ticker fires and the loop's select takes   *)
(* it (it may even when the context is done: select picks either).         *)
Start(c) ==
  /\ Step(c, "idle", [NoPass EXCEPT !.stage = "load"])
  /\ UNCHANGED <<storeVars, rules, edits, cancelled, swept>>

(* LoadRetentionEngine: the enabled rules as they are now.                 *)
Load(c) ==
  /\ CanRun(c)
  /\ Step(c, "load", [pass[c] EXCEPT !.stage = "cutoff",
                                     !.engine = NewRetentionEngine(RuleSet)])
  /\ UNCHANGED <<storeVars, rules, edits, cancelled, swept>>

(* Mutant of LoadFails: RunCleanup swallows the error as the loop does.    *)
LoadFailsQuietly(c) ==
  /\ Fails(c)
  /\ Step(c, "load", [pass[c] EXCEPT !.stage = "cutoff"])
  /\ KeepStore /\ UNCHANGED <<busy, rules, edits, cancelled, swept>>

(* It fails: RunCleanup returns the error, the background loop goes on     *)
(* with no engine.                                                         *)
LoadFails(c) ==
  /\ Fails(c)
  /\ Step(c, "load", IF c \in Background THEN [pass[c] EXCEPT !.stage = "cutoff"] ELSE NoPass)
  /\ KeepStore /\ UNCHANGED <<busy, rules, edits, cancelled, swept>>

(* created_at < ?, as SQLite sees it: the driver writes a time.Time as the *)
(* text of its wall clock, SQLite compares the texts, rows hold UTC (as     *)
(* Promote writes them) and time.Now() is local.                           *)
Before(row, t) == row.createdAt < t + Zone

(* time.Now() is read for the cutoff; without rules the pass is a single   *)
(* DELETE by the default TTL, with rules it selects candidates.            *)
Cutoff(c) ==
  /\ Step(c, "cutoff", [pass[c] EXCEPT !.start = now,
                          !.stage = IF HasRules(pass[c].engine) THEN "query" ELSE "sweep"])
  /\ UNCHANGED <<storeVars, rules, edits, cancelled, swept>>

(* deleteOlderThan: DELETE ... WHERE created_at < cutoff.                  *)
Sweep(c) ==
  /\ CanRun(c)
  /\ LET old == {i \in Live : Before(traces[i], pass[c].start - DefaultTTL)}
     IN  /\ traces' = [i \in Ids |-> IF i \in old THEN NoTrace ELSE traces[i]]
         /\ Step(c, "sweep", [pass[c] EXCEPT !.stage = "delete", !.upTo = lastRow,
                                             !.deleted = Cardinality(old)])
  /\ UNCHANGED <<now, lastRow, used, removed, calls, onPromote, unset, wiredSince, exports,
                 delivered, busy, faults, crashes, rules, edits, cancelled, swept>>

(* The SELECT of the candidates; the rows stay open, holding a connection, *)
(* and show the table as of this moment.                                   *)
Query(c) ==
  /\ CanRun(c)
  /\ LET cutoff == pass[c].start - PrefilterTTL(pass[c].engine)
     IN  Step(c, "query", [pass[c] EXCEPT !.stage = "scan", !.upTo = lastRow,
           !.found = {[id |-> i, row |-> traces[i]] :
                        i \in {j \in Live : Before(traces[j], cutoff)}}])
  /\ busy' = busy + 1
  /\ KeepStore /\ UNCHANGED <<faults, rules, edits, cancelled, swept>>

(* Mutant of Scan: the rows are left open while the deletes run.           *)
ScanKeepsRows(c) ==
  /\ Step(c, "scan", [pass[c] EXCEPT !.stage = "delete", !.found = {},
       !.toDelete = {f.id : f \in {g \in pass[c].found : Expired(g.row, pass[c].engine, now)}}])
  /\ KeepStore /\ UNCHANGED <<busy, faults, rules, edits, cancelled, swept>>

(* time.Now() is read again, each candidate gets its TTL, and the rows are *)
(* closed before the first delete.                                         *)
Scan(c) ==
  /\ Step(c, "scan", [pass[c] EXCEPT !.stage = "delete", !.found = {},
       !.toDelete = {f.id : f \in {g \in pass[c].found : Expired(g.row, pass[c].engine, now)}}])
  /\ busy' = busy - 1
  /\ KeepStore /\ UNCHANGED <<faults, rules, edits, cancelled, swept>>

(* Mutant of DeleteOne: every statement counts as one deleted trace.       *)
DeleteCounted(c, i) ==
  /\ CanRun(c) /\ i \in pass[c].toDelete
  /\ Step(c, "delete", [pass[c] EXCEPT !.toDelete = @ \ {i}, !.deleted = @ + 1])
  /\ traces' = [traces EXCEPT ![i] = NoTrace]
  /\ UNCHANGED <<now, lastRow, used, removed, calls, onPromote, unset, wiredSince, exports,
                 delivered, busy, faults, crashes, rules, edits, cancelled, swept>>

(* DELETE ... WHERE request_id = ?, whatever row has that ID by now; it is *)
(* RowsAffected that is counted.                                           *)
DeleteOne(c, i) ==
  /\ CanRun(c) /\ i \in pass[c].toDelete
  /\ Step(c, "delete", [pass[c] EXCEPT !.toDelete = @ \ {i},
                          !.deleted = @ + (IF traces[i] = NoTrace THEN 0 ELSE 1)])
  /\ traces' = [traces EXCEPT ![i] = NoTrace]
  /\ UNCHANGED <<now, lastRow, used, removed, calls, onPromote, unset, wiredSince, exports,
                 delivered, busy, faults, crashes, rules, edits, cancelled, swept>>

(* A statement of the pass fails and the pass returns, with the number of  *)
(* rows deleted so far; open rows are closed.                              *)
StatementFails(c) ==
  /\ pass[c].stage \in {"sweep", "query", "scan", "delete"}
  /\ pass[c].stage = "delete" => pass[c].toDelete /= {}
  /\ Fails(c)
  /\ pass' = [pass EXCEPT ![c] = NoPass]
  /\ swept' = swept + pass[c].deleted
  /\ busy' = IF pass[c].stage = "scan" THEN busy - 1 ELSE busy
  /\ KeepStore /\ UNCHANGED <<rules, edits, cancelled>>

Complete(c) == pass[c].stage = "delete" /\ pass[c].toDelete = {}

(* Mutant of Finish: the deferred Close gives the connection back again.   *)
FinishReleases(c) ==
  /\ Complete(c)
  /\ Step(c, "delete", NoPass)
  /\ swept' = swept + pass[c].deleted
  /\ busy' = busy - 1
  /\ KeepStore /\ UNCHANGED <<faults, rules, edits, cancelled>>

(* The pass returns the number of traces deleted.                          *)
Finish(c) ==
  /\ Complete(c)
  /\ Step(c, "delete", NoPass)
  /\ swept' = swept + pass[c].deleted
  /\ UNCHANGED <<storeVars, rules, edits, cancelled>>

-----------------------------------------------------------------------------
Cancel ==
  /\ Background /= {} /\ ~cancelled
  /\ cancelled' = TRUE
  /\ UNCHANGED <<storeVars, rules, edits, pass, swept>>

(* Mutant of Stop: the context is looked at only after a pass that worked. *)
StopAfterPass(c) ==
  /\ Cancelled(c) /\ Complete(c)
  /\ Step(c, "delete", [NoPass EXCEPT !.stage = "stopped"])
  /\ UNCHANGED <<storeVars, rules, edits, cancelled, swept>>

(* The loop's select takes ctx.Done.                                       *)
Stop(c) ==
  /\ Cancelled(c)
  /\ Step(c, "idle", [NoPass EXCEPT !.stage = "stopped"])
  /\ UNCHANGED <<storeVars, rules, edits, cancelled, swept>>

(* The rows deleted by the passes under way, each by its pass and number.  *)
InFlight == Cardinality(UNION {{c} \X (1..pass[c].deleted) : c \in Cleaners})

(* A restart loses the passes, each with what it has deleted so far; the   *)
(* new process starts its loops afresh.                                    *)
Restart ==
  /\ Crash
  /\ pass' = [c \in Cleaners |-> NoPass]
  /\ swept' = swept + InFlight
  /\ cancelled' = FALSE
  /\ UNCHANGED <<rules, edits>>

PassStep(c) ==
  \/ Load(c) \/ Cutoff(c) \/ Sweep(c) \/ Query(c) \/ Scan(c)
  \/ \E i \in Ids : DeleteOne(c, i)
  \/ Finish(c)

FailStep(c) == LoadFails(c) \/ StatementFails(c)

CleanNext ==
  \/ StoreStep /\ UNCHANGED cleanVars
  \/ \E r \in RuleIds : CreateRule(r) \/ UpdateRule(r) \/ DeleteRule(r)
  \/ \E c \in Cleaners : Start(c) \/ PassStep(c) \/ FailStep(c) \/ Stop(c)
  \/ Cancel
  \/ Restart

CleanSpec == CleanInit /\ [][CleanNext]_vars

(* A pass that has begun goes on, a statement that keeps finding the pool  *)
(* free for a while gets its turn, the ticker keeps firing, and a select   *)
(* with two ready cases does not pick the same one for ever.  Statements   *)
(* fail only up to the bound, except under a cancelled context, where they *)
(* always do.                                                              *)
CleanFairness ==
  \A c \in Cleaners :
    /\ SF_vars(PassStep(c))
    /\ WF_vars(FailStep(c) /\ Cancelled(c))
    /\ c \in Background => WF_vars(Start(c)) /\ SF_vars(Stop(c))

FairCleanSpec == CleanSpec /\ CleanFairness /\ StoreFairness

-----------------------------------------------------------------------------
Stages == {"idle", "load", "cutoff", "sweep", "query", "scan", "delete", "stopped"}

Passes == [stage : Stages, engine : SUBSET Rule, start : 0..MaxTime,
           found : SUBSET [id : Ids, row : Row], toDelete : SUBSET Ids,
           deleted : Nat, upTo : 0..MaxRows]

(* Type invariant of the cleanup.                                          *)
CleanTypeOK ==
  /\ TypeOK
  /\ rules \in [RuleIds -> Rule \cup {NoRule}]
  /\ edits \in 0..MaxEdits /\ cancelled \in BOOLEAN /\ swept \in Nat
  /\ pass \in [Cleaners -> Passes]

(* What the documentation of RunCleanup promises, independent of how the   *)
(* engine computes it: a trace is due when it has outlived the TTL of some *)
(* enabled rule that matches it or, if none does, the default TTL.         *)
Due(row, engine, at) ==
  LET applicable == {r \in engine : r.enabled /\ row.class \in Satisfies[r.cond]}
  IN  IF applicable = {}
      THEN at - row.createdAt > DefaultTTL
      ELSE \E r \in applicable : at - row.createdAt > r.ttl

Current == NewRetentionEngine(RuleSet)

DeletedBy(c) == pass'[c].deleted > pass[c].deleted

(* The row was there when the cleaner made its selection.  The deletes go  *)
(* by request ID and also take a row that was promoted after that under    *)
(* the ID of a selected one, fresh as it is and against the TTL RunCleanup *)
(* promises: the properties below are only about the other rows.           *)
Selectable(c, row) == row.row <= pass'[c].upTo

(* A trace that disappears was deleted by DeleteTrace or, if it was there  *)
(* when its cleaner made the selection, was due at that moment under the   *)
(* rules the cleaner had loaded, however old the selection is by then.     *)
NoEarlyDeletion ==
  [][\A i \in Live : traces'[i] = NoTrace =>
       \/ removed' /= removed
       \/ \E c \in Cleaners :
            DeletedBy(c) /\ (Selectable(c, traces[i]) => Due(traces[i], pass[c].engine, now))]_vars

(* RunCleanup never falls back to the default TTL: what it deletes is due  *)
(* under the rules in the table, as long as nobody edits them (store.go,   *)
(* "the public API does not silently degrade").                            *)
RunCleanupNeverDegrades ==
  [][\A i \in Live, c \in Cleaners \ Background :
       edits = 0 /\ DeletedBy(c) /\ traces'[i] = NoTrace /\ Selectable(c, traces[i]) =>
         Due(traces[i], Current, now)]_vars

(* When a pass ends without an error, no row that was there when it made   *)
(* its selection and that was due when it began is left: the prefilter,    *)
(* meant to save work, loses none of them.                                 *)
PassIsComplete ==
  \A c \in Cleaners : Complete(c) =>
    \A i \in Live : traces[i].row <= pass[c].upTo =>
      ~Due(traces[i], pass[c].engine, pass[c].start)

(* Every row ever inserted is still there, or was deleted by DeleteTrace,  *)
(* or is counted exactly once by the cleanup pass that deleted it, however *)
(* many passes select the same row.                                        *)
EveryRowIsCounted == lastRow = Cardinality(Live) + removed + swept + InFlight

(* While a background loop runs, a trace that is due under the rules in    *)
(* the table goes, unless an edit makes it no longer due.  A failed load,  *)
(* an error in the middle of a pass or a restart only delays it.           *)
ExpiredEventuallyGone ==
  \A i \in Ids :
    (i \in Live /\ Due(traces[i], Current, now))
      ~> (cancelled \/ i \notin Live \/ ~Due(traces[i], Current, now))

(* Once the context is cancelled every background loop ends, unless the    *)
(* process restarts: no pass hangs, and the ticker does not keep it alive. *)
CancelStops ==
  cancelled ~> (~cancelled \/ \A c \in Background : pass[c].stage = "stopped")
==============================================================================
