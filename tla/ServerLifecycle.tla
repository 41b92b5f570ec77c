---------------------------- MODULE ServerLifecycle ----------------------------
(* `localmcptools start`, `stop` and `status` over one data directory: what    *)
(* each start does from cli.py through run_http() or run_stdio(), and what     *)
(* happens to server.json, the file by which agents and the CLI find the       *)
(* server, when several of these commands, crashes and reused pids meet.       *)
EXTENDS Migrations

CONSTANTS
    Agents,     \* the processes an agent may start, which is without --http
    Pid,        \* the pid of each process; a later one may have the same
    NoFile,     \* server.json does not exist
    Torn,       \* it was opened for writing and is not written yet
    None        \* no pid

ASSUME PidAssumption ==
    /\ Agents \subseteq Procs
    /\ \A p \in Procs : None # Pid[p]
    /\ NoFile # Torn

VARIABLES
    pc,         \* per process, what it does next
    http,       \* the processes started with --http
    meta,       \* the content of server.json
    foreign,    \* pids that other programs have
    cmd,        \* the CLI command `stop` or `status` in progress
    asked,      \* history: the servers that were asked to stop by POST /api/shutdown
    alone,      \* history: processes that had no other start or stop beside them
    looked      \* history: those of them that ran when a `status` was asked

lifeVars == <<pc, http, meta, foreign, cmd, asked, alone, looked>>
vars == <<dbVars, lifeVars>>

Pids == {Pid[p] : p \in Procs}
Live == {"first", "guard", "boot", "token", "bind", "serving",
         "drain", "leave", "remove"}

(* What a start writes: first its pid, and before it binds its token as well. *)
Entry(p, hasToken) == [by |-> p, pid |-> Pid[p], token |-> hasToken]
Entries == {Entry(p, t) : p \in Procs, t \in BOOLEAN}
ASSUME EntryAssumption == {NoFile, Torn} \cap Entries = {}

NoCmd == [kind |-> "none", pid |-> None]
Cmds == [kind : {"status", "stale", "stop", "stopped"}, pid : Pids]

TypeOK ==
    /\ DbTypeOK
    /\ pc \in [Procs -> Live \union {"off", "ended", "killed"}]
    /\ http \in SUBSET Procs
    /\ meta \in Entries \union {NoFile, Torn}
    /\ foreign \in SUBSET Pids
    /\ cmd \in Cmds \union {NoCmd}
    /\ asked \in SUBSET Procs
    /\ alone \in SUBSET Procs
    /\ looked \in SUBSET Procs

Init ==
    /\ DbInit
    /\ pc = [p \in Procs |-> "off"]
    /\ http = {}
    /\ meta = NoFile
    /\ foreign = {}
    /\ cmd = NoCmd
    /\ asked = {}
    /\ alone = {}
    /\ looked = {}

Running(p) == pc[p] \in Live
Alive(pid) == pid \in foreign \/ \E p \in Procs : Running(p) /\ Pid[p] = pid
Goto(p, where) == pc' = [pc EXCEPT ![p] = where]

(* unlink(missing_ok=True); Windows refuses while a writer has the file open. *)
Unlink == meta' \in {NoFile} \union (IF meta = Torn THEN {Torn} ELSE {})

(* The second half of write_text(). What another wrote since the file was     *)
(* truncated may leave a tail behind; a file unlinked since stays unlinked.   *)
Write(entry) ==
    meta' \in IF meta = NoFile THEN {NoFile}
              ELSE IF meta = Torn THEN {entry} ELSE {entry, Torn}

--------------------------------------------------------------------------------
(* _cmd_start() opens server.json before it looks at what is in it.           *)
Start(p) ==
    /\ pc[p] = "off" /\ ~Alive(Pid[p])
    /\ Goto(p, "first")
    /\ \/ http' = http \union {p}
       \/ p \in Agents /\ UNCHANGED http
    /\ meta' = Torn
    /\ alone' = IF cmd = NoCmd /\ \A q \in Procs : ~Running(q) THEN {p} ELSE {}
    /\ looked' = {}
    /\ UNCHANGED <<dbVars, foreign, cmd, asked>>

WriteFirst(p) ==
    /\ pc[p] = "first"
    /\ Write(Entry(p, FALSE))
    /\ Goto(p, IF p \in http THEN "guard" ELSE "boot")
    /\ UNCHANGED <<dbVars, http, foreign, cmd, asked, alone, looked>>

(* run_http() refuses when server.json names another process that is alive;   *)
(* a file that is missing or does not parse is passed over.                   *)
MutRefuses(p) == meta \in Entries /\ Alive(meta.pid)
Refuses(p) == meta \in Entries /\ meta.pid # Pid[p] /\ Alive(meta.pid)
Guard(p) ==
    /\ pc[p] = "guard"
    /\ Goto(p, IF Refuses(p) THEN "leave" ELSE "boot")
    /\ UNCHANGED <<dbVars, http, meta, foreign, cmd, asked, alone, looked>>

(* build_server() calls init_db(); an error of it leaves by _cmd_start().     *)
Boot(p) ==
    /\ pc[p] = "boot"
    /\ Open(p) \/ Migrate(p) \/ Locked(p)
    /\ UNCHANGED lifeVars

BootFails(p) ==
    /\ pc[p] = "boot" /\ at[p] \in {"duplicate", "locked"}
    /\ Goto(p, "leave")
    /\ UNCHANGED <<dbVars, http, meta, foreign, cmd, asked, alone, looked>>

(* The tools are registered, the runtime started; over HTTP the token is      *)
(* generated and server.json written again, with it, before the port is bound. *)
Booted(p) ==
    /\ pc[p] = "boot" /\ at[p] = "ready"
    /\ Goto(p, IF p \in http THEN "token" ELSE "serving")
    /\ meta' = IF p \in http THEN Torn ELSE meta
    /\ UNCHANGED <<dbVars, http, foreign, cmd, asked, alone, looked>>

MutWriteToken(p) ==
    /\ pc[p] = "token"
    /\ Write(Entry(p, FALSE))
    /\ Goto(p, "bind")
    /\ UNCHANGED <<dbVars, http, foreign, cmd, asked, alone, looked>>
WriteToken(p) ==
    /\ pc[p] = "token"
    /\ Write(Entry(p, TRUE))
    /\ Goto(p, "bind")
    /\ UNCHANGED <<dbVars, http, foreign, cmd, asked, alone, looked>>

(* uvicorn binds the port, or exits through the same clean-up as a server.    *)
Holder(p) == p \in http /\ pc[p] = "serving"
Bind(p) ==
    /\ pc[p] = "bind"
    /\ Goto(p, IF \E q \in Procs : Holder(q) THEN "drain" ELSE "serving")
    /\ UNCHANGED <<dbVars, http, meta, foreign, cmd, asked, alone, looked>>

(* POST /api/shutdown looks for app.state.uvicorn_server, which nothing sets: *)
(* it answers and changes nothing.                                            *)
AskShutdown(p) ==
    /\ Holder(p)
    /\ asked' = asked \union {p}
    /\ UNCHANGED <<dbVars, pc, http, meta, foreign, cmd, alone, looked>>

(* Ctrl+C, or the end of stdin: what is started is drained.                   *)
Interrupt(p) ==
    /\ \/ pc[p] \in {"bind", "serving"} /\ Goto(p, "drain")
       \/ pc[p] \in {"guard", "boot", "token"} /\ Goto(p, "leave")
    /\ alone' = alone \ {p}
    /\ asked' = asked \ {p}
    /\ looked' = looked \ {p}
    /\ UNCHANGED <<dbVars, http, meta, foreign, cmd>>

(* The finally clause: begin_shutdown(), shutdown_runtime(), and over HTTP    *)
(* the unlink of server.json, whoever it names.                               *)
Drain(p) ==
    /\ pc[p] = "drain"
    /\ IF p \in http THEN Unlink ELSE UNCHANGED meta
    /\ Goto(p, "leave")
    /\ UNCHANGED <<dbVars, http, foreign, cmd, asked, alone, looked>>

(* The finally clause of _cmd_start(): read, and unlink what is one's own.    *)
Own(p) == meta \in Entries /\ meta.pid = Pid[p]
Leave(p) ==
    /\ pc[p] = "leave"
    /\ Goto(p, IF Own(p) THEN "remove" ELSE "ended")
    /\ Close(p)
    /\ UNCHANGED <<http, meta, foreign, cmd, asked, alone, looked>>

Remove(p) ==
    /\ pc[p] = "remove"
    /\ Unlink
    /\ Goto(p, "ended")
    /\ UNCHANGED <<dbVars, http, foreign, cmd, asked, alone, looked>>

(* The process is ended from outside: no clean-up runs. A SIGTERM is one of   *)
(* these: uvicorn raises it again before the finally clauses.                 *)
Killed(p) == Running(p) /\ Goto(p, "killed") /\ Close(p) /\ asked' = asked \ {p}

Crash(p) ==
    /\ Killed(p)
    /\ UNCHANGED <<http, meta, foreign, cmd, alone, looked>>
--------------------------------------------------------------------------------
(* _cmd_status(): read the pid, look for it, and unlink the file if it is not *)
(* there. Nothing ties the file it unlinks to the one it read, and the look    *)
(* tells nothing: signal 0 is Ctrl+C on Windows, which fails for a process on  *)
(* another console, alive or not. (A server on the console of the status is    *)
(* interrupted by it, which Interrupt stands for.)                             *)
Status ==
    /\ cmd = NoCmd /\ meta \in Entries
    /\ cmd' = [kind |-> "status", pid |-> meta.pid]
    /\ looked' = looked \union {p \in alone : Running(p)}
    /\ UNCHANGED <<dbVars, pc, http, meta, foreign, asked, alone>>

StatusLooks ==
    /\ cmd.kind = "status"
    /\ cmd' \in {NoCmd, [cmd EXCEPT !.kind = "stale"]}
    /\ UNCHANGED <<dbVars, pc, http, meta, foreign, asked, alone, looked>>

(* _cmd_stop(): read the pid, end that process, and unlink the file.          *)
Stop ==
    /\ cmd = NoCmd /\ meta \in Entries
    /\ cmd' = [kind |-> "stop", pid |-> meta.pid]
    /\ alone' = {} /\ looked' = {}
    /\ UNCHANGED <<dbVars, pc, http, meta, foreign, asked>>

StopKills ==
    /\ cmd.kind = "stop"
    /\ IF Alive(cmd.pid)
       THEN cmd' = [cmd EXCEPT !.kind = "stopped"] ELSE cmd' = NoCmd
    /\ foreign' = foreign \ {cmd.pid}
    /\ \/ \E p \in Procs : Pid[p] = cmd.pid /\ Killed(p)
       \/ /\ \A p \in Procs : Running(p) => Pid[p] # cmd.pid
          /\ UNCHANGED <<dbVars, pc, asked>>
    /\ UNCHANGED <<http, meta, alone, looked>>

(* taskkill may report a failure after all: then the file is left.            *)
Unlinks ==
    /\ cmd.kind \in {"stale", "stopped"}
    /\ \/ Unlink
       \/ cmd.kind = "stopped" /\ UNCHANGED meta
    /\ cmd' = NoCmd
    /\ UNCHANGED <<dbVars, pc, http, foreign, asked, alone, looked>>

(* Other programs get the pids of processes that ended, and end.              *)
Reuse ==
    /\ \E p \in Procs :
        \/ /\ pc[p] \in {"ended", "killed"} /\ ~Alive(Pid[p])
           /\ foreign' = foreign \union {Pid[p]}
        \/ Pid[p] \in foreign /\ foreign' = foreign \ {Pid[p]}
    /\ UNCHANGED <<dbVars, pc, http, meta, cmd, asked, alone, looked>>
--------------------------------------------------------------------------------
Proceed(p) ==
    \/ WriteFirst(p)
    \/ Guard(p)
    \/ Boot(p)
    \/ BootFails(p)
    \/ Booted(p)
    \/ WriteToken(p)
    \/ Bind(p)
    \/ Drain(p)
    \/ Leave(p)
    \/ Remove(p)

Command == Status \/ StatusLooks \/ Stop \/ StopKills \/ Unlinks

Next ==
    \/ \E p \in Procs :
        \/ Start(p)
        \/ Proceed(p)
        \/ AskShutdown(p)
        \/ Interrupt(p)
        \/ Crash(p)
    \/ Command
    \/ Reuse

(* A process that runs takes its steps; starts, commands and ends need not    *)
(* come.                                                                      *)
Fairness == \A p \in Procs : WF_vars(Proceed(p))

Spec == Init /\ [][Next]_vars /\ Fairness
--------------------------------------------------------------------------------
(* A recorded version means its schema, at every step of every boot; and who  *)
(* serves serves on the whole schema. Several first boots, boots that end     *)
(* half-way and boots beside a server all share one unlocked sequence of      *)
(* statements.                                                                *)
MigratedBeforeService ==
    /\ RecordedMeansMade
    /\ \A p \in Procs : pc[p] = "serving" =>
        \A v \in 1..CURRENT_SCHEMA_VERSION : Made[v] \subseteq objects

(* A server beside which nobody started or stopped another is found through   *)
(* server.json, by its pid and over HTTP by its token, whatever was in the    *)
(* file before. Only a `status` that was asked while it ran may cost it the   *)
(* file (cli.py:211-214, as the program does on Windows), and then the file   *)
(* is gone: it is never left torn, without the token, or naming another.      *)
(* Nothing is said of a server beside which another command starts or stops.  *)
Findable ==
    \A p \in alone : pc[p] = "serving" =>
        \/ meta = Entry(p, p \in http)
        \/ meta = NoFile /\ p \in looked

(* A start that is left alone serves: neither the metadata of a crashed       *)
(* server, nor its pid in other hands, nor a half migrated database stops it. *)
StartsAlone ==
    \A p \in Procs :
        (pc[p] = "first" /\ p \in alone)
            ~> (pc[p] \in {"serving", "killed"} \/ p \notin alone)

(* Its safety half: while it is alone, nothing makes it give up. The guard    *)
(* does not take the file for another server's, no statement of the migration *)
(* is refused for what a boot that ended half-way has left, and the port is   *)
(* free.                                                                      *)
AloneGoesOn ==
    \A p \in alone :
        /\ pc[p] \in {"first", "guard", "boot", "token", "bind", "serving", "killed"}
        /\ at[p] \notin {"duplicate", "locked"}

(* "Check for stale server.json - refuse to overwrite a live instance":       *)
(* nobody starts over the metadata of a server that serves.                   *)
KeepsLiveInstance ==
    [][\A p \in Procs :
        (Holder(p) /\ meta = Entry(p, TRUE) /\ Holder(p)') =>
            \/ meta' = meta
            \/ cmd # NoCmd]_vars

(* "Blocks until the operator hits POST /api/shutdown": a server that is      *)
(* asked to shut down does.                                                   *)
ShutdownStops == \A p \in Procs : p \in asked ~> pc[p] # "serving"
================================================================================
