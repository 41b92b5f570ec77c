---------------------------- MODULE LifecycleProofs ----------------------------
(* What ServerLifecycle guarantees for any number of processes and any list   *)
(* of migrations: a recorded version means its schema, whoever serves serves  *)
(* on all of it, and a start that is left alone never gives up and is found.  *)
EXTENDS ServerLifecycle, TLAPS

(* The statements before the n-th of version v, and of every version below.   *)
Past(v, n) ==
    /\ \A u \in 1..CURRENT_SCHEMA_VERSION : u < v => Made[u] \subseteq objects
    /\ v \in 1..CURRENT_SCHEMA_VERSION =>
        \A i \in 1..Len(Schema[v]) : i < n => Schema[v][i].makes \in objects

(* Where a process is in the list tells what is behind it in the database,    *)
(* whoever put it there: objects are only ever added.                         *)
Progress(p) ==
    /\ at[p] \in {"idle", "table", "read"} => next[p] = 1
    /\ at[p] \in {"run", "alter"} =>
        going[p] \in 1..CURRENT_SCHEMA_VERSION /\ Past(going[p], next[p])
    /\ at[p] = "alter" => HasStmt(p)
    /\ at[p] = "ready" => Past(CURRENT_SCHEMA_VERSION + 1, 1)

DbInv == DbTypeOK /\ RecordedMeansMade /\ \A p \in Procs : Progress(p)

(* A process serves only after its _migrate() has returned, and the database  *)
(* state of a process that runs is not reset.                                 *)
ServesReady == \A p \in Procs : pc[p] \in {"token", "bind", "serving", "drain"} => at[p] = "ready"

IInv == TypeOK /\ DbInv /\ ServesReady

--------------------------------------------------------------------------------
LEMMA SchemaFacts ==
  /\ CURRENT_SCHEMA_VERSION \in Nat
  /\ \A v \in 1..CURRENT_SCHEMA_VERSION :
        /\ Len(Schema[v]) \in Nat
        /\ \A i \in 1..Len(Schema[v]) :
              Schema[v][i].makes \in STRING /\ Schema[v][i].alters \in BOOLEAN
<1> DEFINE Statements == Seq(Statement)
<1>1. Schema \in Seq(Statements)
  BY SchemaAssumption
<1> HIDE DEF Statements
<1>2. /\ CURRENT_SCHEMA_VERSION \in Nat
      /\ \A v \in 1..CURRENT_SCHEMA_VERSION : Schema[v] \in Statements
  BY <1>1 DEF CURRENT_SCHEMA_VERSION
<1> USE DEF Statements
<1>3. ASSUME NEW v \in 1..CURRENT_SCHEMA_VERSION
      PROVE  /\ Len(Schema[v]) \in Nat
             /\ \A i \in 1..Len(Schema[v]) :
                   Schema[v][i].makes \in STRING /\ Schema[v][i].alters \in BOOLEAN
  <2>1. Schema[v] \in Seq(Statement)
    BY <1>2
  <2>2. Len(Schema[v]) \in Nat /\ \A i \in 1..Len(Schema[v]) : Schema[v][i] \in Statement
    BY <2>1
  <2> QED
    BY <2>2 DEF Statement
<1> QED
  BY <1>2, <1>3

(* What a version makes is in the database when each of its statements' is.   *)
LEMMA MadeWhenPast ==
  ASSUME NEW v \in 1..CURRENT_SCHEMA_VERSION, NEW n \in Nat,
         Past(v, n), n > Len(Schema[v])
  PROVE  Past(v + 1, 1) /\ Needed[v] \subseteq objects
<1>1. \A i \in 1..Len(Schema[v]) : Schema[v][i].makes \in objects
  BY SchemaFacts DEF Past
<1>2. Made[v] \subseteq objects
  BY <1>1 DEF Made
<1>3. \A u \in 1..v : Made[u] \subseteq objects
  BY <1>2, SchemaFacts DEF Past
<1>4. Past(v + 1, 1)
  BY <1>3, SchemaFacts DEF Past
<1> QED
  BY <1>3, <1>4 DEF Needed

(* A step of p that only adds objects leaves what is behind the others.       *)
LEMMA OthersProgress ==
  ASSUME NEW p \in Procs, NEW q \in Procs \ {p}, Progress(q),
         objects \subseteq objects',
         at'[q] = at[q], going'[q] = going[q], next'[q] = next[q]
  PROVE  Progress(q)'
<1>1. \A v, n : Past(v, n) => Past(v, n)'
  BY DEF Past, Made, CURRENT_SCHEMA_VERSION
<1> QED
  BY <1>1 DEF Progress, HasStmt, CURRENT_SCHEMA_VERSION

(* The database is in order after any step of one process that migrates.      *)
LEMMA MigrateStep ==
  ASSUME DbInv, NEW p \in Procs, Open(p) \/ Migrate(p) \/ Locked(p) \/ Close(p)
  PROVE  DbInv'
<1> USE SchemaFacts
<1>0. /\ objects \in SUBSET STRING /\ versions \in SUBSET (1..CURRENT_SCHEMA_VERSION)
      /\ at \in [Procs -> Stage] /\ next \in [Procs -> Nat \ {0}]
      /\ going \in [Procs -> 1..(CURRENT_SCHEMA_VERSION + 1)]
      /\ RecordedMeansMade /\ \A q \in Procs : Progress(q)
  BY DEF DbTypeOK, DbInv
<1>K. \A v, n : objects' = objects => (Past(v, n) <=> Past(v, n)')
  BY DEF Past, Made, CURRENT_SCHEMA_VERSION
<1>O. ASSUME objects \subseteq objects',
             \A q \in Procs \ {p} :
                at'[q] = at[q] /\ going'[q] = going[q] /\ next'[q] = next[q],
             Progress(p)'
      PROVE  \A q \in Procs : Progress(q)'
  BY <1>0, <1>O, OthersProgress
<1>1. CASE Open(p) \/ CreateVersionTable(p) \/ Locked(p) \/ Close(p)
  <2> USE <1>1 DEF Open, CreateVersionTable, Locked, Close
  <2>1. /\ objects' = objects /\ versions' = versions
        /\ at' \in [Procs -> Stage] /\ next' \in [Procs -> Nat \ {0}]
        /\ going' \in [Procs -> 1..(CURRENT_SCHEMA_VERSION + 1)]
    BY <1>0 DEF Stage
  <2>2. at'[p] \in {"idle", "table", "read", "locked"}
    BY <1>0
  <2>3. next'[p] = 1 \/ at'[p] = "locked"
    BY <1>0 DEF Progress
  <2>4. Progress(p)'
    BY <2>2, <2>3 DEF Progress
  <2>5. \A q \in Procs \ {p} : at'[q] = at[q] /\ going'[q] = going[q] /\ next'[q] = next[q]
    BY <1>0
  <2> QED
    BY <1>0, <1>O, <2>1, <2>4, <2>5 DEF DbInv, DbTypeOK, RecordedMeansMade, CURRENT_SCHEMA_VERSION, Needed, Made
<1>2. CASE ReadVersion(p)
  <2>1. PICK current \in 0..CURRENT_SCHEMA_VERSION :
           /\ Recorded(current)
           /\ going' = [going EXCEPT ![p] = current + 1]
           /\ at' = [at EXCEPT ![p] = IF current < CURRENT_SCHEMA_VERSION
                                      THEN "run" ELSE "ready"]
    BY <1>2 DEF ReadVersion
  <2>2. objects' = objects /\ versions' = versions /\ next' = next /\ at[p] = "read"
    BY <1>2 DEF ReadVersion
  <2>3. current + 1 \in 1..(CURRENT_SCHEMA_VERSION + 1)
    OBVIOUS
  <2>4. \A u \in 1..CURRENT_SCHEMA_VERSION : u < current + 1 => Made[u] \subseteq objects
    <3> TAKE u \in 1..CURRENT_SCHEMA_VERSION
    <3> HAVE u < current + 1
    <3>1. current \in versions /\ u \in 1..current
      BY <2>1 DEF Recorded
    <3>2. current \in 1..CURRENT_SCHEMA_VERSION /\ Needed[current] \subseteq objects
      BY <1>0, <3>1 DEF RecordedMeansMade
    <3>3. Made[u] \subseteq Needed[current]
      BY <3>1, <3>2 DEF Needed
    <3> QED
      BY <3>2, <3>3
  <2>5. Past(current + 1, 1)
    BY <2>4 DEF Past
  <2>6. /\ at'[p] \in {"run", "ready"} /\ going'[p] = current + 1 /\ next'[p] = 1
        /\ at'[p] = "run" => going'[p] \in 1..CURRENT_SCHEMA_VERSION
        /\ at'[p] = "ready" => current = CURRENT_SCHEMA_VERSION
    BY <1>0, <2>1, <2>2 DEF Progress
  <2>7. Progress(p)'
    BY <1>K, <2>2, <2>5, <2>6 DEF Progress, CURRENT_SCHEMA_VERSION
  <2>8. at' \in [Procs -> Stage] /\ going' \in [Procs -> 1..(CURRENT_SCHEMA_VERSION + 1)]
    BY <1>0, <2>1, <2>3 DEF Stage
  <2>9. \A q \in Procs \ {p} : at'[q] = at[q] /\ going'[q] = going[q] /\ next'[q] = next[q]
    BY <1>0, <2>1, <2>2
  <2> QED
    BY <1>0, <1>O, <2>2, <2>7, <2>8, <2>9 DEF DbInv, DbTypeOK, RecordedMeansMade, CURRENT_SCHEMA_VERSION, Needed, Made
<1>3. CASE Create(p) \/ Inspect(p) \/ Alter(p)
  <2> DEFINE made == Schema[going[p]][next[p]].makes
  <2>1. going[p] \in 1..CURRENT_SCHEMA_VERSION /\ Past(going[p], next[p]) /\ HasStmt(p)
    BY <1>0, <1>3 DEF Create, Inspect, Alter, Progress
  <2>2. next[p] \in 1..Len(Schema[going[p]]) /\ made \in STRING
    BY <1>0, <2>1 DEF HasStmt
  <2>3. versions' = versions /\ going' = going
    BY <1>3 DEF Create, Inspect, Alter
  <2>4. objects' = objects \/ objects' = objects \union {made}
    BY <1>3 DEF Create, Inspect, Alter, Stmt
  <2>a. \/ at' = at
        \/ at' = [at EXCEPT ![p] = "alter"]
        \/ at' = [at EXCEPT ![p] = "duplicate"]
        \/ at' = [at EXCEPT ![p] = "run"]
    BY <1>3 DEF Create, Inspect, Alter
  <2>b. next' = next \/ next' = [next EXCEPT ![p] = next[p] + 1]
    BY <1>3 DEF Create, Inspect, Alter
  <2>5. /\ at' \in [Procs -> Stage] /\ next' \in [Procs -> Nat \ {0}]
        /\ \A q \in Procs \ {p} : at'[q] = at[q] /\ going'[q] = going[q] /\ next'[q] = next[q]
    BY <1>0, <2>3, <2>a, <2>b DEF Stage
  <2>6. \/ next'[p] = next[p] + 1 /\ made \in objects' /\ at'[p] = "run"
        \/ next'[p] = next[p] /\ at'[p] \in {"alter", "duplicate"}
    BY <1>0, <1>3 DEF Create, Inspect, Alter, Stmt
  <2>7. next'[p] = next[p] => Past(going[p], next[p])'
    BY <2>1, <2>3, <2>4 DEF Past, Made, CURRENT_SCHEMA_VERSION
  <2>8. next'[p] = next[p] + 1 /\ made \in objects' => Past(going[p], next[p])'
    <3> SUFFICES ASSUME next'[p] = next[p] + 1, made \in objects'
                 PROVE  Past(going[p], next[p])'
      OBVIOUS
    <3>1. \A u \in 1..CURRENT_SCHEMA_VERSION : u < going[p] => Made[u] \subseteq objects'
      BY <2>1, <2>4 DEF Past
    <3>2. \A i \in 1..Len(Schema[going[p]]) : i < next[p] + 1 =>
             i < next[p] \/ i = next[p]
      BY <2>2
    <3>3. \A i \in 1..Len(Schema[going[p]]) : i < next[p] + 1 =>
             Schema[going[p]][i].makes \in objects'
      BY <2>1, <2>4, <3>2 DEF Past
    <3> QED
      BY <2>3, <3>1, <3>3 DEF Past, Made, CURRENT_SCHEMA_VERSION
  <2>9. Progress(p)'
    BY <1>0, <2>1, <2>3, <2>6, <2>7, <2>8 DEF Progress, HasStmt, CURRENT_SCHEMA_VERSION
  <2>10. DbTypeOK'
    BY <1>0, <2>2, <2>3, <2>4, <2>5 DEF DbTypeOK, CURRENT_SCHEMA_VERSION
  <2>11. RecordedMeansMade'
    BY <1>0, <2>3, <2>4 DEF RecordedMeansMade, Needed, Made, CURRENT_SCHEMA_VERSION
  <2> QED
    BY <1>O, <2>4, <2>5, <2>9, <2>10, <2>11 DEF DbInv
<1>4. CASE Record(p)
  <2>1. going[p] \in 1..CURRENT_SCHEMA_VERSION /\ Past(going[p], next[p]) /\ at[p] = "run"
    BY <1>0, <1>4 DEF Record, Progress
  <2>2. next[p] > Len(Schema[going[p]])
    BY <1>0, <1>4, <2>1 DEF Record, HasStmt
  <2>3. Past(going[p] + 1, 1) /\ Needed[going[p]] \subseteq objects
    BY <1>0, <2>1, <2>2, MadeWhenPast
  <2>4. /\ objects' = objects /\ versions' = versions \union {going[p]}
        /\ going' = [going EXCEPT ![p] = @ + 1] /\ next' = [next EXCEPT ![p] = 1]
        /\ at' = [at EXCEPT ![p] = IF going[p] = CURRENT_SCHEMA_VERSION
                                   THEN "ready" ELSE "run"]
    BY <1>4 DEF Record
  <2>5. /\ at'[p] \in {"run", "ready"} /\ going'[p] = going[p] + 1 /\ next'[p] = 1
        /\ at'[p] = "run" => going'[p] \in 1..CURRENT_SCHEMA_VERSION
        /\ at'[p] = "ready" => going[p] = CURRENT_SCHEMA_VERSION
    BY <1>0, <2>1, <2>4
  <2>6. Progress(p)'
    BY <1>K, <2>3, <2>4, <2>5 DEF Progress, CURRENT_SCHEMA_VERSION
  <2>c. going' \in [Procs -> 1..(CURRENT_SCHEMA_VERSION + 1)] /\ next' \in [Procs -> Nat \ {0}]
    BY <1>0, <2>1, <2>4
  <2>7. DbTypeOK'
    BY <1>0, <2>1, <2>4, <2>c DEF DbTypeOK, Stage, CURRENT_SCHEMA_VERSION
  <2>8. RecordedMeansMade'
    BY <1>0, <2>3, <2>4 DEF RecordedMeansMade, Needed, Made, CURRENT_SCHEMA_VERSION
  <2>9. \A q \in Procs \ {p} : at'[q] = at[q] /\ going'[q] = going[q] /\ next'[q] = next[q]
    BY <1>0, <2>4
  <2> QED
    BY <1>O, <2>4, <2>6, <2>7, <2>8, <2>9 DEF DbInv
<1> QED
  BY <1>1, <1>2, <1>3, <1>4 DEF Migrate

--------------------------------------------------------------------------------
LEMMA DbUnchanged ==
  ASSUME DbInv, UNCHANGED dbVars
  PROVE  DbInv'
<1>1. \A v, n : Past(v, n) <=> Past(v, n)'
  BY DEF dbVars, Past, Made, CURRENT_SCHEMA_VERSION
<1> QED
  BY <1>1 DEF dbVars, DbInv, DbTypeOK, RecordedMeansMade, Progress, HasStmt,
              CURRENT_SCHEMA_VERSION, Needed, Made

(* What the steps of a process leave in server.json is a whole entry of one   *)
(* process, or no file, or a torn one.                                        *)
LEMMA MetaType ==
  ASSUME meta \in Entries \union {NoFile, Torn}
  PROVE  /\ Unlink => meta' \in Entries \union {NoFile, Torn}
         /\ \A p \in Procs, t \in BOOLEAN :
               Write(Entry(p, t)) => meta' \in Entries \union {NoFile, Torn}
         /\ meta \in Entries => meta.pid \in Pids
<1>1. \A p \in Procs, t \in BOOLEAN : Entry(p, t) \in Entries
  BY DEF Entries
<1>2. meta \in Entries => meta.pid \in Pids
  BY DEF Entries, Entry, Pids
<1>3. Unlink => meta' \in Entries \union {NoFile, Torn}
  BY DEF Unlink
<1> QED
  BY <1>1, <1>2, <1>3 DEF Write

(* The type of everything but the database.                                   *)
LifeTypeOK ==
    /\ pc \in [Procs -> Live \union {"off", "ended", "killed"}]
    /\ http \in SUBSET Procs
    /\ meta \in Entries \union {NoFile, Torn}
    /\ foreign \in SUBSET Pids
    /\ cmd \in Cmds \union {NoCmd}
    /\ asked \in SUBSET Procs
    /\ alone \in SUBSET Procs
    /\ looked \in SUBSET Procs

(* A step of a process either moves it, with a step of its migration or none, *)
(* and to service only when the migration is over, or leaves pc.              *)
Moves(p) ==
    /\ \/ UNCHANGED dbVars
       \/ Open(p) \/ Migrate(p) \/ Locked(p) \/ Close(p)
    /\ \/ UNCHANGED pc /\ (at[p] = "ready" => UNCHANGED dbVars)
       \/ \E where \in Live \union {"off", "ended", "killed"} :
            /\ Goto(p, where)
            /\ where \in {"token", "bind", "serving", "drain"} =>
                /\ UNCHANGED dbVars
                /\ at[p] = "ready" \/ pc[p] \in {"token", "bind", "serving", "drain"}

LEMMA MovesKeep ==
  ASSUME LifeTypeOK, DbInv, ServesReady, NEW p \in Procs, Moves(p)
  PROVE  DbInv' /\ ServesReady' /\ pc' \in [Procs -> Live \union {"off", "ended", "killed"}]
<1>1. DbInv'
  BY MigrateStep, DbUnchanged DEF Moves
<1>2. at \in [Procs -> Stage]
  BY DEF DbInv, DbTypeOK
<1>3. \A q \in Procs \ {p} : at'[q] = at[q]
  BY <1>2 DEF Moves, dbVars, Open, Locked, Close, Migrate, CreateVersionTable,
              ReadVersion, Create, Inspect, Alter, Record
<1>4. \/ pc' = pc /\ (at[p] = "ready" => at' = at)
      \/ \E where \in Live \union {"off", "ended", "killed"} :
            /\ pc' = [pc EXCEPT ![p] = where]
            /\ where \in {"token", "bind", "serving", "drain"} => at' = at /\ at[p] = "ready"
  <2>1. pc[p] \in {"token", "bind", "serving", "drain"} => at[p] = "ready"
    BY DEF ServesReady
  <2>2. CASE UNCHANGED pc /\ (at[p] = "ready" => UNCHANGED dbVars)
    BY <2>2 DEF dbVars
  <2>3. ASSUME NEW where \in Live \union {"off", "ended", "killed"}, Goto(p, where),
               where \in {"token", "bind", "serving", "drain"} =>
                /\ UNCHANGED dbVars
                /\ at[p] = "ready" \/ pc[p] \in {"token", "bind", "serving", "drain"}
        PROVE  /\ pc' = [pc EXCEPT ![p] = where]
               /\ where \in {"token", "bind", "serving", "drain"} => at' = at /\ at[p] = "ready"
    BY <2>1, <2>3 DEF Goto, dbVars
  <2>4. CASE \E where \in Live \union {"off", "ended", "killed"} :
                /\ Goto(p, where)
                /\ where \in {"token", "bind", "serving", "drain"} =>
                    /\ UNCHANGED dbVars
                    /\ at[p] = "ready" \/ pc[p] \in {"token", "bind", "serving", "drain"}
    BY <2>3, <2>4
  <2> QED
    BY <2>2, <2>4 DEF Moves
<1>5. pc' \in [Procs -> Live \union {"off", "ended", "killed"}]
  BY <1>4 DEF LifeTypeOK
<1>6. ServesReady'
  BY <1>2, <1>3, <1>4 DEF ServesReady, LifeTypeOK
<1> QED
  BY <1>1, <1>5, <1>6

LEMMA InitOK == Init => IInv
<1> SUFFICES ASSUME Init PROVE IInv
  OBVIOUS
<1>1. CURRENT_SCHEMA_VERSION \in Nat
  BY SchemaFacts
<1>2. DbTypeOK
  BY <1>1 DEF Init, DbInit, DbTypeOK, Stage
<1>3. TypeOK
  BY <1>2 DEF Init, TypeOK
<1>4. RecordedMeansMade /\ \A p \in Procs : Progress(p)
  BY DEF Init, DbInit, RecordedMeansMade, Progress
<1> QED
  BY <1>2, <1>3, <1>4 DEF Init, IInv, DbInv, ServesReady

LEMMA StepOK == IInv /\ [Next]_vars => IInv'
<1> SUFFICES ASSUME IInv, [Next]_vars PROVE IInv'
  OBVIOUS
<1>0. LifeTypeOK /\ DbInv /\ ServesReady
  BY DEF IInv, TypeOK, LifeTypeOK
<1>1. ASSUME NEW p \in Procs,
             Start(p) \/ Proceed(p) \/ AskShutdown(p) \/ Interrupt(p) \/ Crash(p)
      PROVE  Moves(p) /\ LifeTypeOK'
  <2> USE <1>0 DEF LifeTypeOK
  <2>1. CASE Start(p)
    BY <2>1 DEF Start, Moves, Goto, Live, dbVars
  <2>2. CASE WriteFirst(p)
    <3>1. meta' \in Entries \union {NoFile, Torn}
      BY <2>2, MetaType DEF WriteFirst
    <3>2. PICK where \in {"guard", "boot"} : Goto(p, where)
      BY <2>2 DEF WriteFirst, Goto
    <3> QED
      BY <2>2, <3>1, <3>2 DEF WriteFirst, Moves, Goto, Live, dbVars
  <2>3. CASE Guard(p)
    <3>1. PICK where \in {"leave", "boot"} : Goto(p, where)
      BY <2>3 DEF Guard, Goto
    <3> QED
      BY <2>3, <3>1 DEF Guard, Moves, Goto, Live, dbVars
  <2>4. CASE Boot(p)
    <3>1. at[p] # "ready"
      BY <2>4 DEF Boot, Open, Migrate, Locked, Migrating, CreateVersionTable,
                  ReadVersion, Create, Inspect, Alter, Record
    <3> QED
      BY <2>4, <3>1 DEF Boot, Moves, lifeVars
  <2>5. CASE BootFails(p)
    BY <2>5 DEF BootFails, Moves, Goto, Live, dbVars
  <2>6. CASE Booted(p)
    BY <2>6 DEF Booted, Moves, Goto, Live, dbVars
  <2>7. CASE WriteToken(p)
    <3>1. meta' \in Entries \union {NoFile, Torn}
      BY <2>7, MetaType DEF WriteToken
    <3> QED
      BY <2>7, <3>1 DEF WriteToken, Moves, Goto, Live, dbVars
  <2>8. CASE Bind(p)
    <3>1. PICK where \in {"drain", "serving"} : Goto(p, where)
      BY <2>8 DEF Bind, Goto
    <3> QED
      BY <2>8, <3>1 DEF Bind, Moves, Goto, Live, dbVars
  <2>9. CASE Drain(p)
    <3>1. meta' \in Entries \union {NoFile, Torn}
      BY <2>9, MetaType DEF Drain
    <3> QED
      BY <2>9, <3>1 DEF Drain, Moves, Goto, Live, dbVars
  <2>10. CASE Leave(p)
    <3>1. PICK where \in {"remove", "ended"} : Goto(p, where)
      BY <2>10 DEF Leave, Goto
    <3> QED
      BY <2>10, <3>1 DEF Leave, Moves, Goto, Live, dbVars
  <2>11. CASE Remove(p)
    <3>1. meta' \in Entries \union {NoFile, Torn}
      BY <2>11, MetaType DEF Remove
    <3> QED
      BY <2>11, <3>1 DEF Remove, Moves, Goto, Live, dbVars
  <2>12. CASE AskShutdown(p)
    BY <2>12 DEF AskShutdown, Moves, dbVars
  <2>13. CASE Interrupt(p)
    BY <2>13 DEF Interrupt, Moves, Goto, Live, dbVars
  <2>14. CASE Crash(p)
    BY <2>14 DEF Crash, Killed, Moves, Goto, Live
  <2> QED
    BY <1>1, <2>1, <2>2, <2>3, <2>4, <2>5, <2>6, <2>7, <2>8, <2>9, <2>10, <2>11,
       <2>12, <2>13, <2>14 DEF Proceed
<1>2. ASSUME Command \/ Reuse \/ UNCHANGED vars
      PROVE  /\ LifeTypeOK'
             /\ UNCHANGED <<dbVars, pc>> \/ \E p \in Procs : Moves(p)
  <2> USE <1>0 DEF LifeTypeOK
  <2>1. CASE Status \/ Stop
    BY <2>1, MetaType DEF Status, Stop, Cmds
  <2>2. CASE StatusLooks
    <3>1. cmd \in Cmds
      BY <2>2 DEF StatusLooks, NoCmd
    <3>2. [cmd EXCEPT !.kind = "stale"] \in Cmds
      BY <3>1 DEF Cmds
    <3> QED
      BY <2>2, <3>2 DEF StatusLooks
  <2>3. CASE StopKills
    <3>1. cmd \in Cmds
      BY <2>3 DEF StopKills, NoCmd
    <3>2. [cmd EXCEPT !.kind = "stopped"] \in Cmds
      BY <3>1 DEF Cmds
    <3>3. cmd' \in Cmds \union {NoCmd} /\ foreign' \in SUBSET Pids
      BY <2>3, <3>2 DEF StopKills
    <3>4. CASE \E p \in Procs : Pid[p] = cmd.pid /\ Killed(p)
      <4>1. PICK p \in Procs : Killed(p)
        BY <3>4
      <4>2. Moves(p)
        BY <4>1 DEF Killed, Moves, Goto, Live
      <4> QED
        BY <2>3, <3>3, <4>1, <4>2 DEF StopKills, Killed, Goto, Live
    <3>5. CASE UNCHANGED <<dbVars, pc, asked>>
      BY <2>3, <3>3, <3>5 DEF StopKills
    <3> QED
      BY <2>3, <3>4, <3>5 DEF StopKills
  <2>4. CASE Unlinks
    BY <2>4, MetaType DEF Unlinks
  <2>5. CASE Reuse
    <3>1. foreign' \in SUBSET Pids
      BY <2>5 DEF Reuse, Pids
    <3> QED
      BY <2>5, <3>1 DEF Reuse
  <2>6. CASE UNCHANGED vars
    BY <2>6 DEF vars, lifeVars
  <2> QED
    BY <1>2, <2>1, <2>2, <2>3, <2>4, <2>5, <2>6 DEF Command
<1>3. LifeTypeOK' /\ (UNCHANGED <<dbVars, pc>> \/ \E p \in Procs : Moves(p))
  BY <1>1, <1>2 DEF Next
<1>4. CASE UNCHANGED <<dbVars, pc>>
  BY <1>0, <1>3, <1>4, DbUnchanged DEF IInv, TypeOK, LifeTypeOK, DbInv, ServesReady, dbVars
<1>5. CASE \E p \in Procs : Moves(p)
  BY <1>0, <1>3, <1>5, MovesKeep DEF IInv, TypeOK, LifeTypeOK, DbInv
<1> QED
  BY <1>3, <1>4, <1>5

LEMMA Inductive == Spec => []IInv
BY InitOK, StepOK, PTL DEF Spec

(* Every variable stays in its type, whatever starts, commands and crashes    *)
(* meet.                                                                      *)
THEOREM TypeCorrect == Spec => []TypeOK
<1>1. IInv => TypeOK
  BY DEF IInv
<1> QED
  BY <1>1, Inductive, PTL

(* For any number of processes and any list of migrations: the recorded       *)
(* version of the database of _migrate() never runs ahead of its schema, and  *)
(* run_http() and run_stdio() serve only on the whole of it.                  *)
THEOREM SchemaSafe == Spec => []MigratedBeforeService
<1>1. IInv => MigratedBeforeService
  <2> SUFFICES ASSUME IInv, NEW p \in Procs, pc[p] = "serving",
                      NEW v \in 1..CURRENT_SCHEMA_VERSION
               PROVE  Made[v] \subseteq objects
    BY DEF IInv, DbInv, MigratedBeforeService
  <2>1. Past(CURRENT_SCHEMA_VERSION + 1, 1)
    BY DEF IInv, DbInv, ServesReady, Progress
  <2> QED
    BY <2>1, SchemaFacts DEF Past
<1> QED
  BY <1>1, Inductive, PTL
--------------------------------------------------------------------------------
(* Nothing runs beside a process that is left alone. *)
Solitary == \A p \in alone : \A q \in Procs : Running(q) => q = p

(* A step of a process that runs is a step of the one that is alone, if one   *)
(* is, and moves no other.                                                    *)
LEMMA RunnerStep ==
  ASSUME LifeTypeOK, Solitary, NEW p \in Procs,
         Proceed(p) \/ AskShutdown(p) \/ Interrupt(p) \/ Crash(p)
  PROVE  /\ alone' \subseteq alone /\ cmd' = cmd /\ http' = http
         /\ p \in alone' => looked' = looked
         /\ \A q \in alone : q = p
         /\ \A q \in Procs \ {p} : pc'[q] = pc[q]
<1> DEFINE Old == /\ alone' \subseteq alone /\ cmd' = cmd /\ http' = http
                  /\ p \in alone' => looked' = looked
                  /\ Running(p)
                  /\ \A q \in Procs \ {p} : pc'[q] = pc[q]
<1>1. CASE WriteFirst(p) \/ Guard(p) \/ BootFails(p) \/ Booted(p) \/ WriteToken(p)
  <2>1. Old
    BY <1>1 DEF WriteFirst, Guard, BootFails, Booted, WriteToken, Goto, Running, Live, LifeTypeOK
  <2> QED
    BY <2>1 DEF Solitary, LifeTypeOK
<1>2. CASE Bind(p) \/ Drain(p) \/ Leave(p) \/ Remove(p)
  <2>1. Old
    BY <1>2 DEF Bind, Drain, Leave, Remove, Goto, Running, Live, LifeTypeOK
  <2> QED
    BY <2>1 DEF Solitary, LifeTypeOK
<1>3. CASE Boot(p) \/ AskShutdown(p) \/ Interrupt(p) \/ Crash(p)
  <2>1. Old
    BY <1>3 DEF Boot, lifeVars, AskShutdown, Holder, Interrupt, Crash, Killed, Goto,
                Running, Live, LifeTypeOK
  <2> QED
    BY <2>1 DEF Solitary, LifeTypeOK
<1> QED
  BY <1>1, <1>2, <1>3 DEF Proceed

Up == {"first", "guard", "boot", "token", "bind", "serving"}

(* The database is open to processes that boot, serve or leave only. *)
OpenInv ==
    \A p \in Procs : at[p] # "idle" =>
        pc[p] \in {"boot", "token", "bind", "serving", "drain", "leave"}

(* What a process that is left alone meets: no `stop`, no metadata but its    *)
(* own once it has written, and no column that it has not seen.               *)
Undisturbed(p) ==
    /\ \A q \in Procs : Running(q) => q = p
    /\ cmd.kind \notin {"stop", "stopped"}
    /\ pc[p] \in Up \union {"killed"}
    /\ at[p] \notin {"duplicate", "locked"}
    /\ at[p] = "alter" => Stmt(p).makes \notin objects
    /\ pc[p] = "first" => meta \in {NoFile, Torn}
    /\ pc[p] = "guard" => meta \in {NoFile, Torn} \/ meta.pid = Pid[p]

AloneInv == OpenInv /\ \A p \in alone : Undisturbed(p)

(* Of the database, a step of p moves its own state only.                     *)
LEMMA OthersStay ==
  ASSUME DbTypeOK, NEW p \in Procs, NEW q \in Procs \ {p},
         Open(p) \/ Migrate(p) \/ Locked(p) \/ Close(p)
  PROVE  at'[q] = at[q]
BY DEF DbTypeOK, Open, Locked, Close, Migrate, CreateVersionTable, ReadVersion, Create,
       Inspect, Alter, Record

(* What a boot finds that nobody runs beside.                                 *)
LEMMA BootAlone ==
  ASSUME DbTypeOK, NEW p \in Procs, at[p] \notin {"duplicate", "locked"},
         at[p] = "alter" => Stmt(p).makes \notin objects,
         \A q \in Procs \ {p} : at[q] = "idle",
         Open(p) \/ Migrate(p) \/ Locked(p)
  PROVE  /\ at'[p] \notin {"duplicate", "locked"}
         /\ at'[p] = "alter" => Stmt(p)'.makes \notin objects'
<1>1. CASE Open(p) \/ CreateVersionTable(p) \/ ReadVersion(p) \/ Record(p)
  BY <1>1 DEF Open, CreateVersionTable, ReadVersion, Record, DbTypeOK
<1>2. CASE Create(p)
  BY <1>2 DEF Create, DbTypeOK
<1>3. CASE Inspect(p)
  BY <1>3 DEF Inspect, DbTypeOK, Stmt
<1>4. CASE Alter(p)
  BY <1>4 DEF Alter, DbTypeOK
<1>5. CASE Locked(p)
  BY <1>5 DEF Locked
<1> QED
  BY <1>1, <1>2, <1>3, <1>4, <1>5 DEF Migrate

LEMMA OpenStep == LifeTypeOK /\ DbTypeOK /\ OpenInv /\ [Next]_vars => OpenInv'
<1> SUFFICES ASSUME LifeTypeOK, DbTypeOK, OpenInv, [Next]_vars PROVE OpenInv'
  OBVIOUS
<1> USE DEF LifeTypeOK, OpenInv
<1>1. ASSUME NEW p \in Procs,
             Start(p) \/ Proceed(p) \/ AskShutdown(p) \/ Interrupt(p) \/ Crash(p)
      PROVE  OpenInv'
  <2>1. CASE Start(p)
    BY <2>1 DEF Start, Goto, dbVars
  <2>2. CASE WriteFirst(p) \/ Guard(p)
    BY <2>2 DEF WriteFirst, Guard, Goto, dbVars
  <2>3. CASE Boot(p)
    <3>1. pc' = pc /\ pc[p] = "boot" /\ \A q \in Procs \ {p} : at'[q] = at[q]
      BY <2>3, OthersStay DEF Boot, lifeVars
    <3> QED
      BY <3>1
  <2>4. CASE BootFails(p) \/ Booted(p) \/ WriteToken(p) \/ Bind(p)
    BY <2>4 DEF BootFails, Booted, WriteToken, Bind, Goto, dbVars
  <2>5. CASE Drain(p) \/ Remove(p) \/ AskShutdown(p) \/ Interrupt(p)
    BY <2>5 DEF Drain, Remove, AskShutdown, Interrupt, Goto, dbVars
  <2>6. CASE Leave(p) \/ Crash(p)
    BY <2>6 DEF Leave, Crash, Killed, Close, Goto, DbTypeOK
  <2> QED
    BY <1>1, <2>1, <2>2, <2>3, <2>4, <2>5, <2>6 DEF Proceed
<1>2. CASE StopKills
  <2>1. CASE UNCHANGED <<dbVars, pc, asked>>
    BY <2>1 DEF dbVars
  <2>2. ASSUME NEW p \in Procs, Killed(p) PROVE OpenInv'
    BY <2>2 DEF Killed, Close, Goto, DbTypeOK
  <2> QED
    BY <1>2, <2>1, <2>2 DEF StopKills
<1>3. CASE Status \/ StatusLooks \/ Stop \/ Unlinks \/ Reuse \/ UNCHANGED vars
  BY <1>3 DEF Status, StatusLooks, Stop, Unlinks, Reuse, vars, lifeVars, dbVars
<1> QED
  BY <1>1, <1>2, <1>3 DEF Next, Command

(* No step of a process that is left alone makes it give up.                  *)
LEMMA GoesOn ==
  ASSUME LifeTypeOK, DbTypeOK, AloneInv, NEW p \in alone, p \in alone',
         Proceed(p) \/ AskShutdown(p) \/ Interrupt(p) \/ Crash(p)
  PROVE  Undisturbed(p)'
<1>0. p \in Procs /\ Undisturbed(p) /\ pc \in [Procs -> Live \union {"off", "ended", "killed"}]
  BY DEF LifeTypeOK, AloneInv
<1>1. /\ cmd' = cmd /\ http' = http
      /\ \A q \in Procs \ {p} : pc'[q] = pc[q]
  <2>1. Solitary
    BY DEF AloneInv, Undisturbed, Solitary
  <2> QED
    BY <1>0, <2>1, RunnerStep
<1>2. /\ \A q \in Procs : Running(q)' => q = p
      /\ cmd'.kind \notin {"stop", "stopped"}
  BY <1>0, <1>1 DEF Undisturbed, Running
<1>3. \A q \in Procs \ {p} : at[q] = "idle"
  BY <1>0 DEF AloneInv, OpenInv, Undisturbed, Running, Live
<1> SUFFICES /\ pc'[p] \in Up \union {"killed"}
             /\ at'[p] \notin {"duplicate", "locked"}
             /\ at'[p] = "alter" => Stmt(p)'.makes \notin objects'
             /\ pc'[p] = "first" => meta' \in {NoFile, Torn}
             /\ pc'[p] = "guard" => meta' \in {NoFile, Torn} \/ meta'.pid = Pid[p]
  BY <1>2 DEF Undisturbed
<1> USE <1>0 DEF Up, Undisturbed
<1>4. CASE WriteFirst(p)
  <2>1. meta' \in {NoFile, Entry(p, FALSE)}
    BY <1>4, PidAssumption DEF WriteFirst, Write
  <2>2. meta' = NoFile \/ meta'.pid = Pid[p]
    BY <2>1 DEF Entry
  <2> QED
    BY <1>4, <2>2 DEF WriteFirst, Goto, dbVars, Stmt
<1>5. CASE Guard(p)
  <2>1. ~Refuses(p)
    BY <1>5, EntryAssumption DEF Guard, Refuses
  <2> QED
    BY <1>5, <2>1 DEF Guard, Goto, dbVars, Stmt
<1>6. CASE Boot(p)
  <2>1. /\ at'[p] \notin {"duplicate", "locked"}
        /\ at'[p] = "alter" => Stmt(p)'.makes \notin objects'
    BY <1>3, <1>6, BootAlone DEF Boot
  <2> QED
    BY <1>6, <2>1 DEF Boot, lifeVars
<1>7. CASE BootFails(p)
  BY <1>7 DEF BootFails
<1>8. CASE Booted(p) \/ WriteToken(p)
  BY <1>8 DEF Booted, WriteToken, Goto, dbVars, Stmt
<1>9. CASE Bind(p)
  <2>1. \A q \in Procs : ~Holder(q)
    BY <1>9 DEF Bind, Holder, Running, Live
  <2> QED
    BY <1>9, <2>1 DEF Bind, Goto, dbVars, Stmt
<1>10. CASE Drain(p) \/ Leave(p) \/ Remove(p)
  BY <1>10 DEF Drain, Leave, Remove
<1>11. CASE AskShutdown(p)
  BY <1>11 DEF AskShutdown, dbVars, Stmt
<1>12. CASE Interrupt(p)
  BY <1>12 DEF Interrupt
<1>13. CASE Crash(p)
  BY <1>13 DEF Crash, Killed, Close, Goto, DbTypeOK
<1> QED
  BY <1>4, <1>5, <1>6, <1>7, <1>8, <1>9, <1>10, <1>11, <1>12, <1>13 DEF Proceed

LEMMA AloneInvStep == IInv /\ AloneInv /\ [Next]_vars => AloneInv'
<1> SUFFICES ASSUME IInv, AloneInv, [Next]_vars PROVE AloneInv'
  OBVIOUS
<1>0. LifeTypeOK /\ DbTypeOK /\ OpenInv'
  BY OpenStep DEF IInv, TypeOK, LifeTypeOK, AloneInv
<1> SUFFICES ASSUME NEW q \in Procs, q \in alone' PROVE Undisturbed(q)'
  <2>1. alone' \subseteq Procs
    BY <1>0, StepOK DEF IInv, TypeOK
  <2> QED
    BY <1>0, <2>1 DEF AloneInv
<1>1. ASSUME NEW p \in Procs, Start(p) PROVE Undisturbed(q)'
  <2>1. /\ q = p /\ cmd' = NoCmd /\ meta' = Torn /\ UNCHANGED dbVars
        /\ \A r \in Procs : ~Running(r)
        /\ pc[p] = "off" /\ pc' = [pc EXCEPT ![p] = "first"]
    BY <1>1 DEF Start, Goto
  <2>2. pc'[p] = "first" /\ \A r \in Procs \ {p} : pc'[r] = pc[r]
    BY <1>0, <2>1 DEF LifeTypeOK
  <2>3. at'[p] = "idle"
    BY <2>1 DEF AloneInv, OpenInv, dbVars
  <2> QED
    BY <2>1, <2>2, <2>3 DEF Undisturbed, NoCmd, Running, Up
<1>2. ASSUME NEW p \in Procs,
             Proceed(p) \/ AskShutdown(p) \/ Interrupt(p) \/ Crash(p)
      PROVE  Undisturbed(q)'
  <2>1. Solitary
    BY DEF AloneInv, Undisturbed, Solitary
  <2>2. q = p /\ p \in alone
    BY <1>0, <1>2, <2>1, RunnerStep
  <2> QED
    BY <1>0, <1>2, <2>2, GoesOn
<1>3. CASE Command \/ Reuse \/ UNCHANGED vars
  <2>1. q \in alone /\ Undisturbed(q)
    BY <1>3 DEF AloneInv, Command, Status, StatusLooks, Stop, StopKills, Unlinks,
                Reuse, vars, lifeVars
  <2>2. UNCHANGED <<dbVars, pc>>
    BY <1>3, <2>1 DEF Undisturbed, Command, Status, StatusLooks, Stop, StopKills,
                      Unlinks, Reuse, vars, lifeVars
  <2>3. cmd'.kind \notin {"stop", "stopped"}
    <3>1. CASE StatusLooks
      <4>1. cmd \in Cmds
        BY <1>0, <3>1 DEF LifeTypeOK, StatusLooks, NoCmd
      <4> QED
        BY <3>1, <4>1 DEF StatusLooks, Cmds, NoCmd
    <3>2. CASE Stop \/ StopKills
      BY <2>1, <3>2 DEF Stop, StopKills, Undisturbed
    <3>3. CASE Status \/ Unlinks \/ Reuse \/ UNCHANGED vars
      BY <2>1, <3>3 DEF Status, Unlinks, Reuse, vars, lifeVars, NoCmd, Undisturbed
    <3> QED
      BY <1>3, <3>1, <3>2, <3>3 DEF Command
  <2>4. meta' = meta \/ meta' \in {NoFile, Torn}
    BY <1>3, <2>1 DEF Command, Status, StatusLooks, Stop, StopKills, Unlinks, Unlink,
                      Reuse, vars, lifeVars
  <2> QED
    BY <2>1, <2>2, <2>3, <2>4 DEF Undisturbed, Running, dbVars, Stmt
<1> QED
  BY <1>1, <1>2, <1>3 DEF Next

(* For any number of processes and any list of migrations: a start that is    *)
(* left alone never gives up. The guard of run_http() does not refuse it for  *)
(* what a server that was killed has left in server.json, whoever has the pid *)
(* now, no statement of _migrate() fails on a schema that was left half-way,  *)
(* and the port is free.                                                      *)
THEOREM AloneNeverGivesUp == Spec => []AloneGoesOn
<1>1. Init => AloneInv
  BY DEF Init, DbInit, AloneInv, OpenInv
<1>2. IInv /\ AloneInv /\ [Next]_vars => AloneInv'
  BY AloneInvStep
<1>3. AloneInv => AloneGoesOn
  BY DEF AloneInv, Undisturbed, AloneGoesOn, Up
<1> QED
  BY <1>1, <1>2, <1>3, Inductive, PTL DEF Spec
--------------------------------------------------------------------------------
(* A start on its way to serve has server.json open, or its pid in it, or,    *)
(* once it is about to bind, its token as well.                               *)
Shown(p) ==
    IF pc[p] \in {"first", "token"} THEN Torn
    ELSE Entry(p, p \in http /\ pc[p] \in {"bind", "serving"})

(* Nothing runs beside a process that is left alone, no `stop` is on its way, *)
(* and only a `status` asked beside it may have removed the file.             *)
LeftAlone(p) ==
    /\ \A q \in Procs : Running(q) => q = p
    /\ cmd.kind \notin {"stop", "stopped"}
    /\ pc[p] \in Up =>
        /\ meta = Shown(p) \/ (meta = NoFile /\ p \in looked)
        /\ cmd.kind \in {"status", "stale"} => p \in looked
        /\ pc[p] \in {"guard", "token", "bind"} => p \in http

FileInv == \A p \in alone : LeftAlone(p)

(* What a process writes into a file it has open, when no one else has.       *)
LEMMA WriteTorn ==
  ASSUME meta = Torn, NEW entry, Write(entry)
  PROVE  meta' = entry
BY PidAssumption DEF Write

(* And into a file that is gone: nothing that can be found.                   *)
LEMMA WriteGone ==
  ASSUME meta = NoFile, NEW entry, Write(entry)
  PROVE  meta' = NoFile
BY DEF Write

(* Each step of a process that is alone leaves server.json as it should be    *)
(* where it goes.                                                             *)
LEMMA AloneStep ==
  ASSUME LifeTypeOK, FileInv, NEW p \in alone, p \in alone',
         Proceed(p) \/ AskShutdown(p) \/ Interrupt(p) \/ Crash(p)
  PROVE  LeftAlone(p)'
<1>0. p \in Procs /\ LeftAlone(p) /\ pc \in [Procs -> Live \union {"off", "ended", "killed"}]
  BY DEF LifeTypeOK, FileInv
<1>1. /\ cmd' = cmd /\ http' = http /\ looked' = looked
      /\ \A q \in Procs \ {p} : pc'[q] = pc[q]
  <2>1. Solitary
    BY DEF FileInv, LeftAlone, Solitary
  <2> QED
    BY <1>0, <2>1, RunnerStep
<1>2. /\ \A q \in Procs : Running(q)' => q = p
      /\ cmd'.kind \notin {"stop", "stopped"}
  BY <1>0, <1>1 DEF LeftAlone, Running
<1> SUFFICES ASSUME pc'[p] \in Up
             PROVE  /\ pc[p] \in Up
                    /\ meta' = Shown(p)' \/ (meta' = NoFile /\ p \in looked)
                    /\ pc'[p] \in {"guard", "token", "bind"} => p \in http
  BY <1>0, <1>1, <1>2 DEF LeftAlone
<1> USE <1>0, <1>1 DEF LeftAlone, Shown, Up
<1>3. CASE WriteFirst(p)
  <2>1. meta' = Entry(p, FALSE) \/ (meta' = NoFile /\ p \in looked)
    BY <1>3, WriteTorn, WriteGone DEF WriteFirst
  <2> QED
    BY <1>3, <2>1 DEF WriteFirst, Goto
<1>4. CASE Guard(p)
  <2>1. meta = NoFile \/ meta.pid = Pid[p]
    BY <1>4 DEF Guard, Entry
  <2> QED
    BY <1>4, <2>1, EntryAssumption DEF Guard, Refuses, Goto
<1>5. CASE Boot(p)
  BY <1>5 DEF Boot, lifeVars
<1>6. CASE BootFails(p)
  BY <1>6 DEF BootFails, Goto
<1>7. CASE Booted(p)
  BY <1>7 DEF Booted, Goto
<1>8. CASE WriteToken(p)
  <2>1. meta' = Entry(p, TRUE) \/ (meta' = NoFile /\ p \in looked)
    BY <1>8, WriteTorn, WriteGone DEF WriteToken
  <2> QED
    BY <1>8, <2>1 DEF WriteToken, Goto
<1>9. CASE Bind(p)
  BY <1>9 DEF Bind, Goto
<1>10. CASE Drain(p) \/ Leave(p) \/ Remove(p)
  BY <1>10 DEF Drain, Leave, Remove, Goto
<1>11. CASE AskShutdown(p)
  BY <1>11 DEF AskShutdown, Holder
<1>12. CASE Interrupt(p) \/ Crash(p)
  BY <1>12 DEF Interrupt, Crash, Killed, Goto
<1> QED
  BY <1>3, <1>4, <1>5, <1>6, <1>7, <1>8, <1>9, <1>10, <1>11, <1>12 DEF Proceed

(* A `status` asked beside the process that is alone may remove its file; the *)
(* other commands and other programs leave it.                                *)
LEMMA CommandStep ==
  ASSUME LifeTypeOK, FileInv, Command \/ Reuse \/ UNCHANGED vars
  PROVE  FileInv'
<1> SUFFICES ASSUME NEW p \in Procs, p \in alone' PROVE LeftAlone(p)'
  BY DEF FileInv, LifeTypeOK, Command, Status, StatusLooks, Stop, StopKills, Unlinks,
         Reuse, vars, lifeVars
<1>1. p \in alone /\ LeftAlone(p) /\ http' = http
  BY DEF FileInv, Command, Status, StatusLooks, Stop, StopKills, Unlinks,
         Reuse, vars, lifeVars
<1> USE <1>1 DEF LeftAlone
<1>2. CASE Status
  <2>1. /\ cmd' = [kind |-> "status", pid |-> meta.pid]
        /\ pc' = pc /\ meta' = meta /\ looked \subseteq looked'
        /\ Running(p) => p \in looked'
    BY <1>2 DEF Status
  <2>2. pc[p] \in Up => Running(p)
    BY DEF Up, Running, Live
  <2> QED
    BY <2>1, <2>2 DEF Shown, Running
<1>3. CASE StatusLooks
  <2>1. /\ pc' = pc /\ meta' = meta /\ looked' = looked /\ cmd.kind = "status"
        /\ cmd' \in {NoCmd, [cmd EXCEPT !.kind = "stale"]}
    BY <1>3 DEF StatusLooks
  <2>2. cmd \in Cmds
    BY <2>1 DEF LifeTypeOK, NoCmd
  <2>3. cmd'.kind \in {"none", "stale"}
    BY <2>1, <2>2 DEF Cmds, NoCmd
  <2> QED
    BY <2>1, <2>3 DEF Shown, Running
<1>4. CASE Stop \/ StopKills
  BY <1>4 DEF Stop, StopKills
<1>5. CASE Unlinks
  <2>1. /\ cmd.kind = "stale" /\ cmd' = NoCmd /\ pc' = pc /\ looked' = looked
        /\ meta' = NoFile \/ meta' = meta
    BY <1>5 DEF Unlinks, Unlink
  <2> QED
    BY <2>1 DEF NoCmd, Running, Shown
<1>6. CASE Reuse \/ UNCHANGED vars
  BY <1>6 DEF Reuse, vars, lifeVars, Shown, Running
<1> QED
  BY <1>2, <1>3, <1>4, <1>5, <1>6 DEF Command

LEMMA FileStep == IInv /\ FileInv /\ [Next]_vars => FileInv'
<1> SUFFICES ASSUME IInv, FileInv, [Next]_vars PROVE FileInv'
  OBVIOUS
<1>0. LifeTypeOK
  BY DEF IInv, TypeOK, LifeTypeOK
<1>1. ASSUME NEW p \in Procs, Start(p) PROVE FileInv'
  <2>1. SUFFICES ASSUME NEW q \in alone' PROVE LeftAlone(q)'
    BY DEF FileInv
  <2>2. /\ q = p /\ cmd' = NoCmd /\ meta' = Torn
        /\ \A r \in Procs : ~Running(r)
        /\ pc' = [pc EXCEPT ![p] = "first"]
    BY <1>1, <2>1 DEF Start, Goto
  <2>3. pc'[p] = "first" /\ \A r \in Procs \ {p} : pc'[r] = pc[r]
    BY <1>0, <2>2 DEF LifeTypeOK
  <2> QED
    BY <2>2, <2>3 DEF LeftAlone, Shown, NoCmd, Running
<1>2. ASSUME NEW p \in Procs,
             Proceed(p) \/ AskShutdown(p) \/ Interrupt(p) \/ Crash(p)
      PROVE  FileInv'
  <2>1. SUFFICES ASSUME NEW q \in alone' PROVE LeftAlone(q)'
    BY DEF FileInv
  <2>2. Solitary
    BY DEF FileInv, LeftAlone, Solitary
  <2>3. q = p /\ p \in alone
    BY <1>0, <1>2, <2>2, RunnerStep
  <2> QED
    BY <1>0, <1>2, <2>3, AloneStep
<1> QED
  BY <1>0, <1>1, <1>2, CommandStep DEF Next

(* For any number of processes: a start beside which nobody started or        *)
(* stopped another is in server.json when it serves, over HTTP with its token, *)
(* whatever _cmd_start() and run_http() found there; or the file is gone, and  *)
(* only if _cmd_status() was asked while the server ran.                       *)
THEOREM ServerIsFound == Spec => []Findable
<1>1. Init => FileInv
  BY DEF Init, FileInv
<1>2. IInv /\ FileInv /\ [Next]_vars => FileInv'
  BY FileStep
<1>3. FileInv => Findable
  BY DEF FileInv, LeftAlone, Findable, Shown, Up
<1> QED
  BY <1>1, <1>2, <1>3, Inductive, PTL DEF Spec
================================================================================
