---------------------------- MODULE ManagedProcesses ----------------------------
(***************************************************************************)
(* execution/background.py on the background_processes table of            *)
(* process/manager.py: managed development servers, from                   *)
(* start_dev_server() to the row that says how they ended.  At work on one *)
(* row are the thread that starts the process, the thread that copies its  *)
(* output into the log (_monitor_process), the reconciler, a thread in     *)
(* stop(), shutdown_runtime(), and the end and the restart of the server.  *)
(*                                                                         *)
(* A member of Procs is one call of start_dev_server(), the child it       *)
(* spawns, the row it inserts and the log it creates.                      *)
(***************************************************************************)
EXTENDS StreamArtifacts, FiniteSets

CONSTANTS Maximum,    \* managed_max_concurrent
          MaxOutput,  \* bound: chunks of output a child writes
          MaxCrashes  \* bound: how often the server ends

ASSUME ConstantsAssumption ==
    /\ IsFiniteSet(Procs)
    /\ Maximum \in Nat
    /\ MaxOutput \in Nat
    /\ MaxCrashes \in Nat

VARIABLES nt,       \* os.name = "nt": job objects and taskkill
          server,   \* the server process
          crashes,  \* how often it has ended
          child,    \* the process that the row's pid names
          output,   \* the chunks it has written to its pipe
          job,      \* an open job handle holds the child
          row,      \* status of the row
          code,     \* exit_code of the row
          owned,    \* the row's id is in _processes
          starter,  \* where start_dev_server() is
          monitor,  \* where _monitor_process() is
          stopper,  \* where stop() is
          holds,    \* its local variable process is not None
          sized,    \* the size of the log that its seal() has read
          rec,      \* where reconcile_once() is
          struck,   \* history: stop() has ended a foreign process
          unsealed  \* history: seal() failed after the end of the output

lifeVars == <<nt, server, crashes>>
childVars == <<child, output, job>>
rowVars == <<row, code>>
stopVars == <<stopper, holds, sized>>
history == <<struck, unsealed>>
vars == <<logVars, lifeVars, childVars, rowVars, owned, starter, monitor,
          stopVars, rec, history>>

Servers == {"down", "booting", "up", "stopping"}

(* "reused": the child is dead and the system gave its pid to a process    *)
(* that is none of the server's business.                                  *)
Children == {"none", "alive", "dead", "reused"}

Starts == {"idle", "checked", "streamed", "spawned", "attached", "rowed",
           "done", "refused", "failed"}

Monitors == {"none", "reading", "appending", "counting", "sealing", "marking",
             "forgetting", "ended", "died"}

Stops == {"idle", "found", "killing", "marking", "reading", "sealing",
          "waiting", "done"}

Nobody == "nobody"

TypeOK ==
    /\ LogTypeOK
    /\ nt \in BOOLEAN
    /\ server \in Servers
    /\ crashes \in 0..MaxCrashes
    /\ child \in [Procs -> Children]
    /\ output \in [Procs -> 0..MaxOutput]
    /\ job \in [Procs -> BOOLEAN]
    /\ row \in [Procs -> {"absent", "running", "exited"}]
    /\ code \in [Procs -> {"null", "set"}]
    /\ owned \in [Procs -> BOOLEAN]
    /\ starter \in [Procs -> Starts]
    /\ monitor \in [Procs -> Monitors]
    /\ stopper \in [Procs -> Stops]
    /\ holds \in [Procs -> BOOLEAN]
    /\ sized \in [Procs -> Nat]
    /\ rec \in [at : {"off", "idle", "scan", "read", "seal", "failed"},
                todo : SUBSET Procs, item : Procs \cup {Nobody}, size : Nat]
    /\ struck \in SUBSET Procs /\ unsealed \in SUBSET Procs

All(value) == [p \in Procs |-> value]
Become(var, p, value) == [var EXCEPT ![p] = value]

RecAt(at, todo, item, size) == [at |-> at, todo |-> todo, item |-> item, size |-> size]
RecOff == RecAt("off", {}, Nobody, 0)
RecFailed == RecAt("failed", {}, Nobody, 0)
RecIdle == RecAt("idle", {}, Nobody, 0)

Running == {p \in Procs : row[p] = "running"}
RecScan == RecAt("scan", Running, Nobody, 0)

Init ==
    /\ LogInit
    /\ nt \in BOOLEAN
    /\ server = "up" /\ crashes = 0
    /\ child = All("none") /\ output = All(0) /\ job = All(FALSE)
    /\ row = All("absent") /\ code = All("null")
    /\ owned = All(FALSE) /\ starter = All("idle") /\ monitor = All("none")
    /\ stopper = All("idle") /\ holds = All(FALSE) /\ sized = All(0)
    /\ rec = RecIdle
    /\ struck = {} /\ unsealed = {}

Serving == server \in {"up", "stopping"}
--------------------------------------------------------------------------------
Ended(p) == Become(child, p, IF child[p] = "alive" THEN "dead" ELSE child[p])

MutMarkExited(p, c) ==    \* without AND status='running'
    /\ row' = Become(row, p, "exited")
    /\ code' = Become(code, p, c)

MutMarkSwapped(p, c) ==   \* the parameters in the wrong order
    IF row[p] = "running"
    THEN row' = Become(row, p, c) /\ code' = Become(code, p, "set")
    ELSE UNCHANGED rowVars

(* manager.mark_exited(): UPDATE ... WHERE id=? AND status='running'. *)
MarkExited(p, c) ==
    IF row[p] = "running"
    THEN row' = Become(row, p, "exited") /\ code' = Become(code, p, c)
    ELSE UNCHANGED rowVars

--------------------------------------------------------------------------------
(* start_dev_server().  The limit is checked under the lock; everything    *)
(* that follows is not.                                                    *)
Live == {p \in Procs : owned[p] /\ child[p] = "alive"}

StartCheck(p) ==
    /\ server = "up" /\ starter[p] = "idle"
    /\ starter' = Become(starter, p, IF Cardinality(Live) >= Maximum
                                     THEN "refused" ELSE "checked")
    /\ UNCHANGED <<logVars, lifeVars, childVars, rowVars, owned, monitor, stopVars,
                   rec, history>>

StartStream(p) ==
    /\ starter[p] = "checked"
    /\ \/ CreateStream(p) /\ starter' = Become(starter, p, "streamed")
       \/ UNCHANGED logVars /\ starter' = Become(starter, p, "failed")
    /\ UNCHANGED <<lifeVars, childVars, rowVars, owned, monitor, stopVars, rec, history>>

(* Popen() succeeds, or the log is sealed and the call fails; it stays     *)
(* open when _make_job() or seal() is what failed.  No one else knows the  *)
(* log yet, so seal() is one step here.                                    *)
StartPopen(p) ==
    /\ starter[p] = "streamed"
    /\ \/ /\ child' = Become(child, p, "alive")
          /\ starter' = Become(starter, p, "spawned")
          /\ UNCHANGED logVars
       \/ /\ Seal(p, file[p]) \/ UNCHANGED logVars
          /\ starter' = Become(starter, p, "failed")
          /\ UNCHANGED child
    /\ UNCHANGED <<lifeVars, output, job, rowVars, owned, monitor, stopVars, rec, history>>

MutAttach(p) ==           \* the child is never assigned to the job
    /\ starter[p] = "spawned"
    /\ starter' = Become(starter, p, "attached")
    /\ UNCHANGED <<logVars, lifeVars, childVars, rowVars, owned, monitor, stopVars,
                   rec, history>>

(* _attach(), a no-op when there are no job objects.  When it fails, the   *)
(* job and the log are closed (the log if seal() can) and the child goes   *)
(* on by itself.                                                           *)
StartAttach(p) ==
    /\ starter[p] = "spawned"
    /\ \/ /\ job' = Become(job, p, nt)
          /\ starter' = Become(starter, p, "attached")
          /\ UNCHANGED logVars
       \/ /\ nt
          /\ Seal(p, file[p]) \/ UNCHANGED logVars
          /\ starter' = Become(starter, p, "failed")
          /\ UNCHANGED job
    /\ UNCHANGED <<lifeVars, child, output, rowVars, owned, monitor, stopVars, rec, history>>

(* manager.create_row().  When the INSERT fails, the exception drops the   *)
(* last reference to the job handle, which closes it.                      *)
StartRow(p) ==
    /\ starter[p] = "attached"
    /\ \/ /\ row' = Become(row, p, "running")
          /\ starter' = Become(starter, p, "rowed")
          /\ UNCHANGED <<child, job>>
       \/ /\ starter' = Become(starter, p, "failed")
          /\ child' = IF job[p] THEN Ended(p) ELSE child
          /\ job' = Become(job, p, FALSE)
          /\ UNCHANGED row
    /\ UNCHANGED <<logVars, lifeVars, output, code, owned, monitor, stopVars, rec, history>>

StartRegister(p) ==
    /\ starter[p] = "rowed"
    /\ starter' = Become(starter, p, "done")
    /\ owned' = Become(owned, p, TRUE)
    /\ monitor' = Become(monitor, p, "reading")
    /\ UNCHANGED <<logVars, lifeVars, childVars, rowVars, stopVars, rec, history>>

Starting(p) == \/ StartCheck(p) \/ StartStream(p) \/ StartPopen(p)
               \/ StartAttach(p) \/ StartRow(p) \/ StartRegister(p)
--------------------------------------------------------------------------------
(* _monitor_process(): append() every line, and after the end of the       *)
(* output seal the log, mark the row and forget the process.  Nothing in   *)
(* it catches what append(), the UPDATE of the row or sqlite raise: the    *)
(* thread dies.  append() raises when another thread has sealed the log.   *)
MonitorTo(p, place) == monitor' = Become(monitor, p, place)

MonitorRead(p) ==
    /\ monitor[p] = "reading" /\ file[p] < output[p]
    /\ MonitorTo(p, IF Appendable(p) THEN "appending" ELSE "died")
    /\ UNCHANGED <<logVars, lifeVars, childVars, rowVars, owned, starter, stopVars,
                   rec, history>>

MonitorFails(p) ==
    /\ \/ monitor[p] \in {"appending", "counting", "sealing", "marking"}
       \/ monitor[p] = "reading" /\ file[p] < output[p]
    /\ MonitorTo(p, "died")
    /\ UNCHANGED <<logVars, lifeVars, childVars, rowVars, owned, starter, stopVars,
                   rec, history>>

MonitorWrite(p) ==
    /\ monitor[p] = "appending"
    /\ AppendWrite(p)
    /\ MonitorTo(p, "counting")
    /\ UNCHANGED <<lifeVars, childVars, rowVars, owned, starter, stopVars, rec, history>>

MonitorCount(p) ==
    /\ monitor[p] = "counting"
    /\ AppendCount(p)
    /\ MonitorTo(p, "reading")
    /\ UNCHANGED <<lifeVars, childVars, rowVars, owned, starter, stopVars, rec, history>>

MutMonitorEof(p) ==       \* waits for the child only, not for its output
    /\ monitor[p] = "reading" /\ child[p] # "alive"
    /\ MonitorTo(p, "sealing")
    /\ UNCHANGED <<logVars, lifeVars, childVars, rowVars, owned, starter, stopVars,
                   rec, history>>

MonitorEof(p) ==
    /\ monitor[p] = "reading" /\ file[p] = output[p] /\ child[p] # "alive"
    /\ MonitorTo(p, "sealing")
    /\ UNCHANGED <<logVars, lifeVars, childVars, rowVars, owned, starter, stopVars,
                   rec, history>>

(* _safe_seal().  Nobody appends any more: reading the size and sealing    *)
(* are one step.  A log that cannot be read stays as it is, and the thread *)
(* goes on.                                                                *)
MonitorSeal(p) ==
    /\ monitor[p] = "sealing"
    /\ \/ Seal(p, file[p]) /\ UNCHANGED unsealed
       \/ unsealed' = unsealed \cup {p} /\ UNCHANGED logVars
    /\ MonitorTo(p, "marking")
    /\ UNCHANGED <<lifeVars, childVars, rowVars, owned, starter, stopVars, rec, struck>>

MonitorMark(p) ==
    /\ monitor[p] = "marking"
    /\ MarkExited(p, "set")
    /\ MonitorTo(p, "forgetting")
    /\ UNCHANGED <<logVars, lifeVars, childVars, owned, starter, stopVars, rec, history>>

MonitorForget(p) ==
    /\ monitor[p] = "forgetting"
    /\ owned' = Become(owned, p, FALSE)
    /\ job' = Become(job, p, FALSE)
    /\ MonitorTo(p, "ended")
    /\ UNCHANGED <<logVars, lifeVars, child, output, rowVars, starter, stopVars, rec, history>>

Monitoring(p) == \/ MonitorRead(p) \/ MonitorWrite(p) \/ MonitorCount(p) \/ MonitorEof(p)
                 \/ MonitorSeal(p) \/ MonitorMark(p) \/ MonitorForget(p) \/ MonitorFails(p)
--------------------------------------------------------------------------------
(* reconcile_once(), from start_runtime() and then from the loop: a        *)
(* snapshot of the running rows, and for each row whose pid names no live  *)
(* process mark_exited() and seal().                                       *)
ReconcileBegin ==
    /\ rec.at = "idle"
    /\ rec' = RecScan
    /\ UNCHANGED <<logVars, lifeVars, childVars, rowVars, owned, starter, monitor,
                   stopVars, history>>

PidAlive(p) == child[p] \in {"alive", "reused"}

ReconcileSkip(p) ==
    /\ rec.at = "scan" /\ p \in rec.todo /\ PidAlive(p)
    /\ rec' = RecAt("scan", rec.todo \ {p}, Nobody, 0)
    /\ UNCHANGED <<logVars, lifeVars, childVars, rowVars, owned, starter, monitor,
                   stopVars, history>>

ReconcileMark(p) ==
    /\ rec.at = "scan" /\ p \in rec.todo /\ ~PidAlive(p)
    /\ MarkExited(p, "null")
    /\ rec' = RecAt("read", rec.todo \ {p}, p, 0)
    /\ UNCHANGED <<logVars, lifeVars, childVars, owned, starter, monitor, stopVars, history>>

(* _safe_seal() reads the log, or goes on without it when it cannot.       *)
ReconcileRead ==
    /\ rec.at = "read"
    /\ rec' \in {RecAt("seal", rec.todo, rec.item, file[rec.item]),
                 RecAt("scan", rec.todo, Nobody, 0)}
    /\ UNCHANGED <<logVars, lifeVars, childVars, rowVars, owned, starter, monitor,
                   stopVars, history>>

ReconcileSeal ==
    /\ rec.at = "seal"
    /\ Seal(rec.item, rec.size)
    /\ rec' = RecAt("scan", rec.todo, Nobody, 0)
    /\ UNCHANGED <<lifeVars, childVars, rowVars, owned, starter, monitor, stopVars, history>>


(* The first round ends the boot; a round that finds the stop event set is *)
(* the last.                                                               *)
ReconcileEnd ==
    /\ rec.at = "scan" /\ rec.todo = {}
    /\ rec' = IF server = "stopping" THEN RecOff ELSE RecIdle
    /\ server' = IF server = "booting" THEN "up" ELSE server
    /\ UNCHANGED <<logVars, nt, crashes, childVars, rowVars, owned, starter, monitor,
                   stopVars, history>>

(* sqlite raises in all_running(), mark_exited() or seal(), and nothing    *)
(* catches it: the thread ends for good, or the boot.                      *)
ReconcileFails ==
    /\ \/ rec.at \in {"idle", "read", "seal"}
       \/ rec.at = "scan" /\ \E p \in rec.todo : ~PidAlive(p)
    /\ IF server = "booting"
       THEN rec' = RecOff /\ server' = "down"
       ELSE rec' = RecFailed /\ UNCHANGED server
    /\ UNCHANGED <<logVars, nt, crashes, childVars, rowVars, owned, starter, monitor,
                   stopVars, history>>

Reconciling ==
    \/ ReconcileBegin \/ ReconcileRead \/ ReconcileSeal \/ ReconcileEnd
    \/ \E p \in Procs : ReconcileSkip(p) \/ ReconcileMark(p)
    \/ ReconcileFails
--------------------------------------------------------------------------------
(* stop(): reads the row and the registry, ends the process and, when the  *)
(* registry does not have it, marks the row and seals the log itself.      *)
StopFind(p) ==
    /\ server = "up" /\ stopper[p] = "idle" /\ row[p] = "running"
    /\ stopper' = Become(stopper, p, "found")
    /\ UNCHANGED <<logVars, lifeVars, childVars, rowVars, owned, starter, monitor,
                   holds, sized, rec, history>>

StopLookup(p) ==
    /\ stopper[p] = "found"
    /\ stopper' = Become(stopper, p, "killing")
    /\ holds' = Become(holds, p, owned[p])
    /\ UNCHANGED <<logVars, lifeVars, childVars, rowVars, owned, starter, monitor,
                   sized, rec, history>>

(* taskkill, in the end with /F, goes by the pid of the row; terminate()   *)
(* and kill() by the Popen object, if there is one.  subprocess.run() may  *)
(* also raise TimeoutExpired out of stop().                                *)
StopKill(p) ==
    /\ stopper[p] = "killing"
    /\ \/ /\ child' = IF nt /\ PidAlive(p) THEN Become(child, p, "dead")
                      ELSE IF holds[p] THEN Ended(p) ELSE child
          /\ struck' = IF nt /\ child[p] = "reused" THEN struck \cup {p} ELSE struck
          /\ stopper' = Become(stopper, p, IF holds[p] THEN "waiting" ELSE "marking")
          /\ UNCHANGED <<holds, unsealed>>
       \/ /\ nt
          /\ stopper' = Become(stopper, p, "idle")
          /\ holds' = Become(holds, p, FALSE)
          /\ UNCHANGED <<child, history>>
    /\ UNCHANGED <<logVars, lifeVars, output, job, rowVars, owned, starter, monitor,
                   sized, rec>>

MutStopMark(p) ==         \* marks the row before the process has been ended
    /\ stopper[p] \in {"found", "marking"}
    /\ MarkExited(p, "null")
    /\ stopper' = Become(stopper, p, "reading")
    /\ UNCHANGED <<logVars, lifeVars, childVars, owned, starter, monitor, holds, sized,
                   rec, history>>

StopMark(p) ==
    /\ stopper[p] = "marking"
    /\ MarkExited(p, "null")
    /\ stopper' = Become(stopper, p, "reading")
    /\ UNCHANGED <<logVars, lifeVars, childVars, owned, starter, monitor, holds, sized,
                   rec, history>>

StopRead(p) ==
    /\ stopper[p] = "reading"
    /\ sized' = Become(sized, p, file[p])
    /\ stopper' = Become(stopper, p, "sealing")
    /\ UNCHANGED <<logVars, lifeVars, childVars, rowVars, owned, starter, monitor,
                   holds, rec, history>>

StopSeal(p) ==
    /\ stopper[p] = "sealing"
    /\ Seal(p, sized[p])
    /\ sized' = Become(sized, p, 0)
    /\ stopper' = Become(stopper, p, "idle")
    /\ UNCHANGED <<lifeVars, childVars, rowVars, owned, starter, monitor, holds, rec, history>>

(* The log cannot be read, which is passed over, or sqlite raises out of   *)
(* stop().                                                                 *)
StopFails(p) ==
    /\ stopper[p] \in {"marking", "reading", "sealing"}
    /\ sized' = Become(sized, p, 0)
    /\ stopper' = Become(stopper, p, "idle")
    /\ UNCHANGED <<logVars, lifeVars, childVars, rowVars, owned, starter, monitor,
                   holds, rec, history>>

(* The row has been marked by the monitor, or the grace period is over. *)
StopReturn(p) ==
    /\ stopper[p] = "waiting"
    /\ stopper' = Become(stopper, p, "idle")
    /\ holds' = Become(holds, p, FALSE)
    /\ UNCHANGED <<logVars, lifeVars, childVars, rowVars, owned, starter, monitor,
                   sized, rec, history>>

Stopping(p) == \/ StopFind(p) \/ StopLookup(p) \/ StopKill(p) \/ StopMark(p)
               \/ StopRead(p) \/ StopSeal(p) \/ StopFails(p) \/ StopReturn(p)
--------------------------------------------------------------------------------
(* shutdown_runtime(): the reconciler is told to stop and the registered   *)
(* jobs are closed.  Without jobs the children get SIGTERM, which they may *)
(* heed (ChildExits) or not.  Starts in flight go on.                      *)
Shutdown ==
    /\ server = "up"
    /\ server' = "stopping"
    /\ rec' = IF rec.at = "idle" THEN RecOff ELSE rec
    /\ child' = [p \in Procs |-> IF job[p] /\ owned[p] /\ child[p] = "alive"
                                 THEN "dead" ELSE child[p]]
    /\ job' = [p \in Procs |-> job[p] /\ ~owned[p]]
    /\ UNCHANGED <<logVars, nt, crashes, output, rowVars, owned, starter, monitor,
                   stopVars, history>>

(* The server exits or is killed: its threads are gone, and the system     *)
(* closes its job handles.                                                 *)
ServerEnds ==
    /\ server # "down" /\ crashes < MaxCrashes
    /\ server' = "down" /\ crashes' = crashes + 1
    /\ child' = [p \in Procs |-> IF job[p] /\ child[p] = "alive" THEN "dead" ELSE child[p]]
    /\ job' = All(FALSE) /\ owned' = All(FALSE)
    /\ starter' = [p \in Procs |-> IF starter[p] \in {"idle", "done", "refused"}
                                   THEN starter[p] ELSE "failed"]
    /\ monitor' = All("none")
    /\ stopper' = All("idle") /\ holds' = All(FALSE) /\ sized' = All(0)
    /\ rec' = RecOff
    /\ UNCHANGED <<logVars, nt, output, rowVars, history>>

(* start_runtime() reconciles before the server takes calls. *)
Restart ==
    /\ server = "down"
    /\ server' = "booting"
    /\ rec' = RecScan
    /\ UNCHANGED <<logVars, nt, crashes, childVars, rowVars, owned, starter, monitor,
                   stopVars, history>>

--------------------------------------------------------------------------------
(* The environment: the children, and what the system does with a pid that *)
(* is free again.  On Windows an open process handle keeps it in use; else *)
(* it is free once any poll() or wait() has reaped the zombie, the limit   *)
(* check of another start included.                                        *)
ChildWrites(p) ==
    /\ child[p] = "alive" /\ output[p] < MaxOutput
    /\ output' = [output EXCEPT ![p] = @ + 1]
    /\ UNCHANGED <<logVars, lifeVars, child, job, rowVars, owned, starter, monitor,
                   stopVars, rec, history>>

ChildExits(p) ==
    /\ child[p] = "alive"
    /\ child' = Become(child, p, "dead")
    /\ UNCHANGED <<logVars, lifeVars, output, job, rowVars, owned, starter, monitor,
                   stopVars, rec, history>>

PidFree(p) ==
    /\ starter[p] \notin {"spawned", "attached", "rowed"}
    /\ nt => monitor[p] \in {"none", "ended"} /\ ~owned[p] /\ ~holds[p]

PidReused(p) ==
    /\ child[p] = "dead" /\ PidFree(p)
    /\ child' = Become(child, p, "reused")
    /\ UNCHANGED <<logVars, lifeVars, output, job, rowVars, owned, starter, monitor,
                   stopVars, rec, history>>

ForeignExits(p) ==
    /\ child[p] = "reused"
    /\ child' = Become(child, p, "dead")
    /\ UNCHANGED <<logVars, lifeVars, output, job, rowVars, owned, starter, monitor,
                   stopVars, rec, history>>

Environment(p) == ChildWrites(p) \/ ChildExits(p) \/ PidReused(p) \/ ForeignExits(p)

Next ==
    \/ \E p \in Procs : Starting(p) \/ Monitoring(p) \/ Stopping(p) \/ Environment(p)
    \/ Reconciling
    \/ Shutdown \/ ServerEnds \/ Restart

(* Threads run, until an error ends them; nothing is assumed of the        *)
(* children, of the operator or of when the server ends and is started     *)
(* again.                                                                  *)
Fairness == WF_vars(Reconciling) /\ \A p \in Procs : WF_vars(Monitoring(p))

Spec == Init /\ [][Next]_vars /\ Fairness
--------------------------------------------------------------------------------
(* A row that is exited stays so, with the exit code it has: whoever comes *)
(* second, monitor, reconciler or stop(), changes nothing (manager.py      *)
(* 118-124).                                                               *)
ExitIsFinal ==
    [][\A p \in Procs : row[p] = "exited" => row'[p] = "exited" /\ code'[p] = code[p]]_vars

(* With job objects no row says exited while its process runs: not after a *)
(* crash, a pid that was reused, or a stop() of a process this server did  *)
(* not start (background.py 136-138, 153-154).                             *)
ExitedIsDead ==
    nt => \A p \in Procs : row[p] = "exited" => child[p] # "alive"

(* REQ-MP-5: a process that has a row does not outlive the server, also    *)
(* when the server is killed in the middle of a start: it is in its job    *)
(* before it gets a row (background.py 84-93).                             *)
DiesWithServer ==
    nt /\ server \in {"down", "booting"} =>
        \A p \in Procs : row[p] # "absent" => child[p] # "alive"

(* REQ-MP-2: a row that has its exit code has its whole output in its log, *)
(* and the log's row says how long it is, whatever the reconciler and      *)
(* stop() did to the log meanwhile and whichever step of theirs or of the  *)
(* monitor failed (background.py 198-210).  It is sealed, unless that very *)
(* seal() failed and _safe_seal() passed over it (233-237).                *)
ExitCodeMeansLog ==
    \A p \in Procs : code[p] = "set" =>
        /\ total[p] = file[p]
        /\ file[p] = output[p]
        /\ log[p] = "sealed" \/ p \in unsealed

(* A running row whose process has died is marked, by the monitor or by    *)
(* the reconciler, also when one of the two has died of an error, unless   *)
(* the server goes away or the pid is taken first (background.py 149-157,  *)
(* 210).  When both have died nobody is left to mark it before a restart.  *)
NobodyLeft(p) == rec.at = "failed" /\ monitor[p] \in {"none", "died"}


(* managed_max_concurrent: "managed process concurrency limit reached".    *)
LimitHeld == Cardinality(Live) <= Maximum

(* "Stop only a process registered and owned by this server."              *)
StopsOnlyItsOwn == struck = {}

(* "Finalize a streaming artifact and freeze its final metadata": what a   *)
(* sealed row says is what the file has (artifacts.py 312-324).            *)
SealedIsFinal ==
    \A p \in Procs : log[p] = "sealed" => total[p] = file[p]
================================================================================
