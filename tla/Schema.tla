------------------------------- MODULE Schema --------------------------------
(***************************************************************************)
(* EnsureSchema (sqlite/store.go): a list of statements, outside a          *)
(* transaction, that every process runs when it starts, on a database that  *)
(* may be new, may stem from an earlier version, or may have been left      *)
(* half-way by a process that crashed, while other processes do the same.   *)
(***************************************************************************)
EXTENDS Integers, Sequences, FiniteSets, Functions

CONSTANTS
  Processes,    \* the processes that use the database
  Added,        \* addColumnMigrations: the columns, in this order
  Created,      \* those of them that CREATE TABLE has in this version
  Indexed,      \* indexMigrations: the columns, in this order
  MaxFailures   \* bound: crashes, and statements that fail for other reasons

ASSUME SchemaAssumption ==
  /\ Added \in Seq(Range(Added)) /\ Indexed \in Seq(Range(Indexed))
  /\ Created \subseteq Range(Added) /\ Range(Indexed) \subseteq Range(Added)
  /\ MaxFailures \in Nat

Tables == {"error_traces", "filter_rules", "retention_rules"}

VARIABLES
  tables,    \* the tables there are
  columns,   \* those of the added columns that error_traces has
  indexes,   \* the columns of error_traces with an index
  boot,      \* each process: the statement it runs next; 0 when it is down
  refused,   \* history: starts that failed because the schema was in the way
  failures   \* crashes and failing statements so far

schemaVars == <<tables, columns, indexes, boot, refused, failures>>

(* The statements: the table, the columns, the indexes, and two tables.    *)
FirstIndex == Len(Added) + 2
LastIndex  == Len(Added) + Len(Indexed) + 1
Up         == LastIndex + 3
IsUp(p)    == boot[p] = Up

(* Any database an earlier version or a crash can have left.               *)
SchemaInit ==
  /\ tables \in SUBSET Tables
  /\ columns \in SUBSET Range(Added)
  /\ indexes \in SUBSET columns
  /\ "error_traces" \notin tables => columns = {}
  /\ boot = [p \in Processes |-> 0]
  /\ refused = 0 /\ failures = 0

StartProcess(p) ==
  /\ boot[p] = 0
  /\ boot' = [boot EXCEPT ![p] = 1]
  /\ UNCHANGED <<tables, columns, indexes, refused, failures>>

Done(p) == boot' = [boot EXCEPT ![p] = @ + 1] /\ UNCHANGED refused

(* EnsureSchema returns an error, and the process does not come up.        *)
Refuse(p) == boot' = [boot EXCEPT ![p] = 0] /\ refused' = refused + 1

(* CREATE TABLE IF NOT EXISTS: a table that is there keeps its columns.    *)
(* Two indexes on columns that every version has are created with it.      *)
CreateTraces(p) ==
  /\ boot[p] = 1
  /\ tables' = tables \cup {"error_traces"}
  /\ columns' = IF "error_traces" \in tables THEN columns ELSE Created
  /\ Done(p)
  /\ UNCHANGED <<indexes, failures>>

(* Mutant of AddColumn: a duplicate column ends the migration.             *)
AddColumnOrStop(p) ==
  /\ boot[p] \in 2..(FirstIndex - 1)
  /\ LET c == Added[boot[p] - 1]
     IN  IF c \in columns
         THEN boot' = [boot EXCEPT ![p] = Up] /\ UNCHANGED <<columns, refused>>
         ELSE columns' = columns \cup {c} /\ Done(p)
  /\ UNCHANGED <<tables, indexes, failures>>

(* Mutant of AddColumn: a duplicate column is an error like any other.     *)
AddColumnStrict(p) ==
  /\ boot[p] \in 2..(FirstIndex - 1)
  /\ LET c == Added[boot[p] - 1]
     IN  IF "error_traces" \in tables /\ c \notin columns
         THEN columns' = columns \cup {c} /\ Done(p)
         ELSE Refuse(p) /\ UNCHANGED columns
  /\ UNCHANGED <<tables, indexes, failures>>

(* ALTER TABLE ... ADD COLUMN: "duplicate column" is no error; another     *)
(* process may have added the column a moment ago.                         *)
AddColumn(p) ==
  /\ boot[p] \in 2..(FirstIndex - 1)
  /\ IF "error_traces" \in tables
     THEN columns' = columns \cup {Added[boot[p] - 1]} /\ Done(p)
     ELSE Refuse(p) /\ UNCHANGED columns
  /\ UNCHANGED <<tables, indexes, failures>>

(* CREATE INDEX IF NOT EXISTS fails if the column is not there.            *)
CreateIndex(p) ==
  /\ boot[p] \in FirstIndex..LastIndex
  /\ LET c == Indexed[boot[p] - FirstIndex + 1]
     IN  IF c \in columns \cup indexes
         THEN indexes' = indexes \cup {c} /\ Done(p)
         ELSE Refuse(p) /\ UNCHANGED indexes
  /\ UNCHANGED <<tables, columns, failures>>

CreateRuleTable(p) ==
  /\ boot[p] \in {LastIndex + 1, LastIndex + 2}
  /\ tables' = tables \cup {IF boot[p] = LastIndex + 1 THEN "filter_rules" ELSE "retention_rules"}
  /\ Done(p)
  /\ UNCHANGED <<columns, indexes, failures>>

Failure(p) ==
  /\ failures < MaxFailures /\ failures' = failures + 1
  /\ boot' = [boot EXCEPT ![p] = 0]
  /\ UNCHANGED <<tables, columns, indexes, refused>>

(* A statement fails for a reason that has nothing to do with the schema,  *)
(* or the process crashes: it is down and may start again.                 *)
BootFails(p) ==
  /\ boot[p] \in 1..(Up - 1)
  /\ Failure(p)

CrashProcess(p) ==
  /\ boot[p] /= 0
  /\ Failure(p)

EnsureSchema(p) ==
  CreateTraces(p) \/ AddColumn(p) \/ CreateIndex(p) \/ CreateRuleTable(p)

BootStep(p) == StartProcess(p) \/ EnsureSchema(p) \/ BootFails(p)

SchemaNext == \E p \in Processes : BootStep(p) \/ CrashProcess(p)

SchemaSpec == SchemaInit /\ [][SchemaNext]_schemaVars

-----------------------------------------------------------------------------
SchemaTypeOK ==
  /\ tables \subseteq Tables
  /\ columns \subseteq Range(Added) /\ indexes \subseteq columns
  /\ boot \in [Processes -> 0..Up]
  /\ refused \in Nat /\ failures \in 0..MaxFailures

(* "It is safe to call on every startup" (store.go:99): when EnsureSchema  *)
(* has returned without an error, everything the statements of this        *)
(* version use is there, whatever the database was before, whoever else    *)
(* was migrating it and wherever that one crashed ...                      *)
SchemaIsEnsured ==
  \A p \in Processes : IsUp(p) =>
    tables = Tables /\ columns = Range(Added) /\ Range(Indexed) \subseteq indexes

(* ... and it returns no error that stems from the state of the schema.    *)
NobodyIsRefused == refused = 0
==============================================================================
