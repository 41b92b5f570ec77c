------------------------------ MODULE Migrations ------------------------------
(* _migrate() of persistence/db.py: every process that opens the audit        *)
(* database brings its schema to the current version, one autocommitted       *)
(* statement at a time and with no transaction around them, so two boots may  *)
(* interleave at any statement and a boot may end after any of them.          *)
EXTENDS Naturals, Sequences

CONSTANTS
    Procs,      \* the processes that migrate, each of them once
    Schema      \* by version, the sequence of its statements

(* A statement makes one table, index or column. CREATE ... IF NOT EXISTS has *)
(* no effect the second time; ALTER TABLE is preceded by a look at the        *)
(* columns and fails when the column is there. Indexes are left out: they go  *)
(* with their table.                                                          *)
Creates(o) == [makes |-> o, alters |-> FALSE]
Alters(o) == [makes |-> o, alters |-> TRUE]

(* The migrations the code has. *)
AuditSchema ==
    << << Creates("calls") >>,
       << Creates("workspaces"), Creates("artifacts") >>,
       << Creates("approvals"), Creates("rule_hit_stats") >>,
       << Creates("background_processes"), Alters("artifacts.sealed") >>,
       << Creates("authorized_windows") >> >>

Statement == [makes : STRING, alters : BOOLEAN]
ASSUME SchemaAssumption == Schema \in Seq(Seq(Statement))

CURRENT_SCHEMA_VERSION == Len(Schema)

VARIABLES
    objects,    \* the tables and columns of the database
    versions,   \* the rows of schema_version
    at,         \* per process, what its _migrate() does next
    going,      \* per process, the version it is bringing the schema to
    next        \* per process, its next statement of that version

dbVars == <<objects, versions, at, going, next>>

Stage == {"idle", "table", "read", "run", "alter", "ready", "duplicate", "locked"}

DbTypeOK ==
    /\ objects \in SUBSET STRING
    /\ versions \in SUBSET (1..CURRENT_SCHEMA_VERSION)
    /\ at \in [Procs -> Stage]
    /\ going \in [Procs -> 1..(CURRENT_SCHEMA_VERSION + 1)]
    /\ next \in [Procs -> Nat \ {0}]

DbInit ==
    /\ objects = {}
    /\ versions = {}
    /\ at = [p \in Procs |-> "idle"]
    /\ going = [p \in Procs |-> 1]
    /\ next = [p \in Procs |-> 1]

(* What each version makes, and what it needs: that and all before it.        *)
Made == [v \in 1..CURRENT_SCHEMA_VERSION |->
            {Schema[v][i].makes : i \in 1..Len(Schema[v])}]
Needed == [v \in 1..CURRENT_SCHEMA_VERSION |-> UNION {Made[u] : u \in 1..v}]

(* _read_schema_version() returns v: the highest recorded version, or 0.      *)
Recorded(v) == v \in versions \union {0} /\ \A u \in versions : u <= v

Stmt(p) == Schema[going[p]][next[p]]
HasStmt(p) == next[p] <= Len(Schema[going[p]])

(* init_db() opens the database.                                              *)
Open(p) ==
    /\ at[p] = "idle"
    /\ at' = [at EXCEPT ![p] = "table"]
    /\ UNCHANGED <<objects, versions, going, next>>

(* CREATE TABLE IF NOT EXISTS schema_version.                                 *)
CreateVersionTable(p) ==
    /\ at[p] = "table"
    /\ at' = [at EXCEPT ![p] = "read"]
    /\ UNCHANGED <<objects, versions, going, next>>

(* The version is read once; the process goes on from it.                     *)
ReadVersion(p) ==
    /\ at[p] = "read"
    /\ \E current \in 0..CURRENT_SCHEMA_VERSION :
        /\ Recorded(current)
        /\ going' = [going EXCEPT ![p] = current + 1]
        /\ at' = [at EXCEPT ![p] = IF current < CURRENT_SCHEMA_VERSION
                                   THEN "run" ELSE "ready"]
    /\ UNCHANGED <<objects, versions, next>>

(* CREATE TABLE IF NOT EXISTS.                                                *)
Create(p) ==
    /\ at[p] = "run" /\ HasStmt(p) /\ ~Stmt(p).alters
    /\ objects' = objects \union {Stmt(p).makes}
    /\ next' = [next EXCEPT ![p] = @ + 1]
    /\ UNCHANGED <<versions, at, going>>

(* PRAGMA table_info: is the column there already?                            *)
MutInspect(p) ==
    /\ at[p] = "run" /\ HasStmt(p) /\ Stmt(p).alters
    /\ at' = [at EXCEPT ![p] = "alter"]
    /\ UNCHANGED <<objects, versions, going, next>>
Inspect(p) ==
    /\ at[p] = "run" /\ HasStmt(p) /\ Stmt(p).alters
    /\ IF Stmt(p).makes \in objects
       THEN next' = [next EXCEPT ![p] = @ + 1] /\ UNCHANGED at
       ELSE at' = [at EXCEPT ![p] = "alter"] /\ UNCHANGED next
    /\ UNCHANGED <<objects, versions, going>>

(* ALTER TABLE ... ADD COLUMN, which another process may have run since.      *)
Alter(p) ==
    /\ at[p] = "alter"
    /\ IF Stmt(p).makes \in objects
       THEN /\ at' = [at EXCEPT ![p] = "duplicate"]
            /\ UNCHANGED <<objects, next>>
       ELSE /\ objects' = objects \union {Stmt(p).makes}
            /\ next' = [next EXCEPT ![p] = @ + 1]
            /\ at' = [at EXCEPT ![p] = "run"]
    /\ UNCHANGED <<versions, going>>

(* INSERT OR REPLACE of the version, once its statements have run.            *)
MutRecord(p) ==
    /\ at[p] = "run" /\ (HasStmt(p) => Stmt(p).alters)
    /\ versions' = versions \union {going[p]}
    /\ going' = [going EXCEPT ![p] = @ + 1]
    /\ next' = [next EXCEPT ![p] = 1]
    /\ at' = [at EXCEPT ![p] = IF going[p] = CURRENT_SCHEMA_VERSION
                               THEN "ready" ELSE "run"]
    /\ UNCHANGED objects
Record(p) ==
    /\ at[p] = "run" /\ ~HasStmt(p)
    /\ versions' = versions \union {going[p]}
    /\ going' = [going EXCEPT ![p] = @ + 1]
    /\ next' = [next EXCEPT ![p] = 1]
    /\ at' = [at EXCEPT ![p] = IF going[p] = CURRENT_SCHEMA_VERSION
                               THEN "ready" ELSE "run"]
    /\ UNCHANGED objects

Migrating == {"table", "read", "run", "alter"}

(* A statement that waits ten seconds for the lock of another writer raises.  *)
Locked(p) ==
    /\ at[p] \in Migrating
    /\ \E q \in Procs \ {p} : at[q] # "idle"
    /\ at' = [at EXCEPT ![p] = "locked"]
    /\ UNCHANGED <<objects, versions, going, next>>

(* The process ends, wherever it is; what it committed stays.                 *)
Close(p) ==
    /\ at' = [at EXCEPT ![p] = "idle"]
    /\ going' = [going EXCEPT ![p] = 1]
    /\ next' = [next EXCEPT ![p] = 1]
    /\ UNCHANGED <<objects, versions>>

Migrate(p) ==
    \/ CreateVersionTable(p)
    \/ ReadVersion(p)
    \/ Create(p)
    \/ Inspect(p)
    \/ Alter(p)
    \/ Record(p)

(* A recorded version means that its schema, and that of every version below, *)
(* is there, whatever boots interleaved and wherever they ended: _migrate()   *)
(* trusts the highest recorded version and runs nothing below it again.       *)
RecordedMeansMade == \A v \in versions : Needed[v] \subseteq objects

(* A process whose _migrate() returned finds the whole schema.                *)
ReadyMeansMade ==
    \A p \in Procs : at[p] = "ready" =>
        \A v \in 1..CURRENT_SCHEMA_VERSION : Made[v] \subseteq objects

(* "Safe to call on every boot" (init_db): no statement of it fails because   *)
(* another process has run it.                                                *)
BootIsSafe == \A p \in Procs : at[p] # "duplicate"

================================================================================
