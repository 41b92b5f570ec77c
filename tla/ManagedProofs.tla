----------------------------- MODULE ManagedProofs -----------------------------
(***************************************************************************)
(* What ManagedProcesses guarantees for any number of processes, of chunks *)
(* of output and of ends of the server: rows are final, they say exited of *)
(* dead processes only, processes die with the server, and an exit code    *)
(* means a complete log. And, in the second part, what LogReading          *)
(* guarantees to the readers of such a log, of any length and read in      *)
(* pieces of any size: tail() is exact, and what was found or read under a *)
(* number stays there.                                                     *)
(***************************************************************************)
EXTENDS ManagedProcesses, LogReading, FiniteSetTheorems, SequenceTheorems,
        WellFoundedInduction, TLAPS

InFlight == {"idle", "checked", "streamed", "spawned", "attached"}

(* A start goes from the log over the job to the row, and only then to the *)
(* registry and the monitor.                                               *)
StartInv(p) ==
    /\ starter[p] \in InFlight => row[p] = "absent"
    /\ starter[p] # "done" => monitor[p] = "none" /\ ~owned[p]
    /\ nt /\ starter[p] = "attached" => job[p]
    /\ nt /\ row[p] # "absent" /\ child[p] = "alive" => job[p]

(* Whoever marks a row has seen its process dead, or ended it. *)
MarkInv(p) ==
    /\ nt /\ row[p] = "exited" => child[p] # "alive"
    /\ nt /\ stopper[p] = "marking" => child[p] # "alive"
    /\ stopper[p] # "idle" => row[p] # "absent"
    /\ stopper[p] \in {"reading", "sealing"} => row[p] = "exited"
    /\ monitor[p] \in {"sealing", "marking", "forgetting", "ended"} =>
          child[p] # "alive" /\ file[p] = output[p]

(* Until a row is marked only its own start and monitor work on its log,   *)
(* and the row of the log counts what they append.                         *)
SizeInv(p) ==
    /\ starter[p] \in {"idle", "checked"} => total[p] = file[p]
    /\ starter[p] \in {"streamed", "spawned", "attached"} =>
          log[p] = "open" /\ total[p] = file[p]
    /\ starter[p] = "rowed" /\ row[p] = "running" =>
          log[p] = "open" /\ total[p] = file[p]
    /\ row[p] = "running" /\ monitor[p] \in {"reading", "appending", "sealing"} =>
          log[p] = "open" /\ total[p] = file[p]
    /\ row[p] = "running" /\ monitor[p] = "counting" =>
          log[p] = "open" /\ total[p] + 1 = file[p]

(* Only the monitor writes an exit code, after the log is complete; a seal *)
(* that comes later has read the final size.                               *)
CodeInv(p) ==
    /\ monitor[p] = "marking" /\ row[p] = "running" =>
          total[p] = file[p] /\ (log[p] = "sealed" \/ p \in unsealed)
    /\ code[p] = "set" =>
          /\ row[p] = "exited" /\ starter[p] = "done" /\ child[p] # "alive"
          /\ monitor[p] \in {"none", "forgetting", "ended"}
          /\ total[p] = file[p] /\ file[p] = output[p]
          /\ log[p] = "sealed" \/ p \in unsealed
          /\ stopper[p] = "sealing" => sized[p] = file[p]

(* The reconciler is at rows that it has marked, or found marked; rows do  *)
(* not go away.                                                            *)
RecInv ==
    /\ \A p \in rec.todo : row[p] # "absent"
    /\ rec.at \in {"read", "seal"} =>
          /\ rec.item \in Procs
          /\ row[rec.item] = "exited"
          /\ rec.at = "seal" /\ code[rec.item] = "set" => rec.size = file[rec.item]

(* A server that is not up holds nothing. *)
DownInv ==
    server \in {"down", "booting"} =>
        \A p \in Procs : /\ ~job[p] /\ monitor[p] = "none" /\ stopper[p] = "idle"
                         /\ starter[p] \in {"idle", "done", "refused", "failed"}

ProcInv(p) == StartInv(p) /\ MarkInv(p) /\ SizeInv(p) /\ CodeInv(p)

IInv == TypeOK /\ (\A p \in Procs : ProcInv(p)) /\ RecInv /\ DownInv

--------------------------------------------------------------------------------
LEMMA InitOK == Init => IInv
<1> SUFFICES ASSUME Init PROVE IInv
  OBVIOUS
<1> USE DEF Init, LogInit, All
<1>1. TypeOK
  BY ConstantsAssumption DEF TypeOK, LogTypeOK, Children, Servers, Starts, Monitors, Stops,
                             RecIdle, RecAt, Nobody
<1>2. ASSUME NEW p \in Procs PROVE ProcInv(p)
  BY DEF ProcInv, StartInv, MarkInv, SizeInv, CodeInv, InFlight
<1>3. RecInv /\ DownInv
  BY DEF RecInv, DownInv, RecIdle, RecAt
<1> QED
  BY <1>1, <1>2, <1>3 DEF IInv

RecType == [at : {"off", "idle", "scan", "read", "seal", "failed"},
            todo : SUBSET Procs, item : Procs \cup {Nobody}, size : Nat]

LEMMA RecTypes ==
  /\ RecOff \in RecType /\ RecFailed \in RecType /\ RecIdle \in RecType
  /\ RecScan \in RecType
  /\ RecOff.at = "off" /\ RecFailed.at = "failed" /\ RecIdle.at = "idle"
  /\ RecScan.at = "scan"
  /\ RecOff.todo = {} /\ RecFailed.todo = {} /\ RecIdle.todo = {}
  /\ \A p \in RecScan.todo : row[p] = "running"
  BY DEF RecType, RecOff, RecFailed, RecIdle, RecScan, RecAt, Running

--------------------------------------------------------------------------------
(* What an UPDATE that marks a row, and the end of a process, change. *)
LEMMA Marked ==
  ASSUME TypeOK, NEW p \in Procs, NEW c \in {"null", "set"}, MarkExited(p, c)
  PROVE  /\ row' \in [Procs -> {"absent", "running", "exited"}]
         /\ code' \in [Procs -> {"null", "set"}]
         /\ \A q \in Procs : q # p => row'[q] = row[q] /\ code'[q] = code[q]
         /\ row[p] = "running" => row'[p] = "exited" /\ code'[p] = c
         /\ row[p] # "running" => row'[p] = row[p] /\ code'[p] = code[p]
<1>1. CASE row[p] = "running"
  <2>1. row' = Become(row, p, "exited") /\ code' = Become(code, p, c)
    BY <1>1 DEF MarkExited
  <2> QED
    BY <1>1, <2>1 DEF TypeOK, Become
<1>2. CASE row[p] # "running"
  <2>1. UNCHANGED rowVars
    BY <1>2 DEF MarkExited
  <2> QED
    BY <1>2, <2>1 DEF TypeOK, rowVars
<1> QED
  BY <1>1, <1>2

LEMMA Ending ==
  ASSUME TypeOK, NEW p \in Procs
  PROVE  /\ Ended(p) \in [Procs -> Children]
         /\ Become(child, p, "dead") \in [Procs -> Children]
         /\ \A q \in Procs : q # p => Ended(p)[q] = child[q]
         /\ \A q \in Procs : Ended(p)[q] = "alive" => child[q] = "alive"
         /\ Ended(p)[p] # "alive"
  BY DEF TypeOK, Ended, Become, Children

LEMMA TypeStep == TypeOK /\ RecInv /\ [Next]_vars => TypeOK'
<1> SUFFICES ASSUME TypeOK, RecInv, [Next]_vars PROVE TypeOK'
  OBVIOUS
<1> USE DEF TypeOK, LogTypeOK, logVars, lifeVars, childVars, rowVars, stopVars, history, Become
<1>1. ASSUME NEW p \in Procs, Starting(p) PROVE TypeOK'
  <2>1. ASSUME StartCheck(p) \/ StartStream(p) PROVE TypeOK'
    BY <2>1 DEF StartCheck, StartStream, CreateStream, Starts
  <2>2. ASSUME StartPopen(p) PROVE TypeOK'
    BY <2>2 DEF StartPopen, Seal, Children, Starts
  <2>3. ASSUME StartAttach(p) PROVE TypeOK'
    BY <2>3 DEF StartAttach, Seal, Starts
  <2>4. ASSUME StartRow(p) PROVE TypeOK'
    <3>1. child' \in [Procs -> Children]
      BY <2>4, Ending DEF StartRow
    <3> QED
      BY <2>4, <3>1, ZenonT(30) DEF StartRow, Starts
  <2>5. ASSUME StartRegister(p) PROVE TypeOK'
    BY <2>5 DEF StartRegister, Starts, Monitors
  <2> QED
    BY <1>1, <2>1, <2>2, <2>3, <2>4, <2>5 DEF Starting
<1>2. ASSUME NEW p \in Procs, Monitoring(p) PROVE TypeOK'
  <2>1. ASSUME MonitorRead(p) \/ MonitorWrite(p) PROVE TypeOK'
    BY <2>1 DEF MonitorTo, MonitorRead, MonitorWrite, AppendWrite, Monitors
  <2>2. ASSUME MonitorCount(p) \/ MonitorEof(p) PROVE TypeOK'
    BY <2>2 DEF MonitorTo, MonitorCount, MonitorEof, AppendCount, Monitors
  <2>3. ASSUME MonitorSeal(p) PROVE TypeOK'
    BY <2>3 DEF MonitorTo, MonitorSeal, Seal, Monitors
  <2>5. ASSUME MonitorForget(p) \/ MonitorFails(p) PROVE TypeOK'
    BY <2>5 DEF MonitorTo, MonitorForget, MonitorFails, Monitors
  <2>4. ASSUME MonitorMark(p) PROVE TypeOK'
    BY <2>4, Marked DEF MonitorTo, MonitorMark, Monitors
  <2> QED
    BY <1>2, <2>1, <2>2, <2>3, <2>4, <2>5 DEF Monitoring
<1>3. ASSUME NEW p \in Procs, Stopping(p) PROVE TypeOK'
  <2>1. ASSUME StopFind(p) PROVE TypeOK'
    BY <2>1 DEF StopFind, Stops
  <2>6. ASSUME StopLookup(p) \/ StopReturn(p) PROVE TypeOK'
    <3>1. holds' \in [Procs -> BOOLEAN]
      BY <2>6 DEF StopLookup, StopReturn
    <3>2. stopper' \in [Procs -> Stops]
      BY <2>6 DEF StopLookup, StopReturn, Stops
    <3> QED
      BY <2>6, <3>1, <3>2 DEF StopLookup, StopReturn
  <2>2. ASSUME StopKill(p) PROVE TypeOK'
    <3>1. child' \in [Procs -> Children]
      BY <2>2, Ending, SMTT(30) DEF StopKill
    <3>2. struck' \in SUBSET Procs
      BY <2>2 DEF StopKill
    <3>3. /\ stopper' \in [Procs -> Stops]
          /\ holds' \in [Procs -> BOOLEAN]
      BY <2>2, ZenonT(30) DEF StopKill, Stops
    <3> QED
      BY <2>2, <3>1, <3>2, <3>3 DEF StopKill
  <2>3. ASSUME StopMark(p) PROVE TypeOK'
    BY <2>3, Marked DEF StopMark, Stops
  <2>4. ASSUME StopRead(p) PROVE TypeOK'
    BY <2>4 DEF StopRead, Stops
  <2>5. ASSUME StopSeal(p) \/ StopFails(p) PROVE TypeOK'
    BY <2>5 DEF StopSeal, StopFails, Seal, Stops
  <2> QED
    BY <1>3, <2>1, <2>2, <2>3, <2>4, <2>5, <2>6 DEF Stopping
<1>4. ASSUME NEW p \in Procs, Environment(p) PROVE TypeOK'
  BY <1>4, ConstantsAssumption
     DEF Environment, ChildWrites, ChildExits, PidReused, ForeignExits, Children
<1>5. ASSUME ReconcileBegin \/ ReconcileEnd \/ ReconcileFails PROVE TypeOK'
  BY <1>5, RecTypes DEF ReconcileBegin, ReconcileEnd, ReconcileFails, Servers, RecType
<1>6. ASSUME NEW p \in Procs, ReconcileSkip(p) \/ ReconcileMark(p) PROVE TypeOK'
  <2>1. /\ RecAt("scan", rec.todo \ {p}, Nobody, 0) \in RecType
        /\ RecAt("read", rec.todo \ {p}, p, 0) \in RecType
    BY DEF RecAt, RecType
  <2>2. ASSUME ReconcileSkip(p) PROVE TypeOK'
    BY <2>1, <2>2 DEF ReconcileSkip, RecType
  <2>3. ASSUME ReconcileMark(p) PROVE TypeOK'
    BY <2>1, <2>3, Marked DEF ReconcileMark, RecType
  <2> QED
    BY <1>6, <2>2, <2>3
<1>7. ASSUME ReconcileRead \/ ReconcileSeal PROVE TypeOK'
  <2>1. rec.item \in Procs /\ file[rec.item] \in Nat
    BY <1>7 DEF ReconcileRead, ReconcileSeal, RecInv
  <2>2. /\ RecAt("seal", rec.todo, rec.item, file[rec.item]) \in RecType
        /\ RecAt("scan", rec.todo, Nobody, 0) \in RecType
    BY <2>1 DEF RecAt, RecType
  <2> QED
    BY <1>7, <2>1, <2>2 DEF ReconcileRead, ReconcileSeal, Seal, RecType
<1>8. ASSUME Shutdown PROVE TypeOK'
  BY <1>8, RecTypes DEF Shutdown, Servers, Children, RecType
<1>10. ASSUME ServerEnds PROVE TypeOK'
  <2>1. crashes' \in 0..MaxCrashes
    BY <1>10, ConstantsAssumption DEF ServerEnds
  <2> QED
    BY <1>10, <2>1, RecTypes
       DEF ServerEnds, All, Servers, Children, Starts, Monitors, Stops, RecType
<1>11. ASSUME Restart PROVE TypeOK'
  BY <1>11, RecTypes DEF Restart, Servers, RecType
<1>9. ASSUME UNCHANGED vars PROVE TypeOK'
  BY <1>9 DEF vars
<1> QED
  BY <1>1, <1>2, <1>3, <1>4, <1>5, <1>6, <1>7, <1>8, <1>9, <1>10, <1>11
     DEF Next, Reconciling

--------------------------------------------------------------------------------
(* A server that has ended holds nothing until it is up again. *)
LEMMA DownStep == IInv /\ [Next]_vars => DownInv'
<1> SUFFICES ASSUME IInv, [Next]_vars PROVE DownInv'
  OBVIOUS
<1>t. TypeOK /\ TypeOK' /\ (\A q \in Procs : ProcInv(q)) /\ RecInv /\ DownInv
  BY TypeStep DEF IInv
<1> USE <1>t DEF TypeOK, LogTypeOK, DownInv, ProcInv, StartInv, logVars, lifeVars,
                 childVars, rowVars, stopVars, history, Become
<1>1. ASSUME NEW p \in Procs, Starting(p) PROVE DownInv'
  BY <1>1, Ending
     DEF Starting, StartCheck, StartStream, CreateStream, StartPopen, Seal,
         StartAttach, StartRow, StartRegister
<1>2. ASSUME NEW p \in Procs, Monitoring(p) PROVE DownInv'
  BY <1>2, Marked
     DEF Monitoring, MonitorRead, MonitorTo, MonitorWrite, AppendWrite,
         MonitorCount, AppendCount, MonitorEof, MonitorSeal, Seal, MonitorMark,
         MonitorForget, MonitorFails
<1>3. ASSUME NEW p \in Procs, Stopping(p) PROVE DownInv'
  BY <1>3, Ending, Marked
     DEF Stopping, StopFind, StopLookup, StopKill, PidAlive, StopMark, StopRead,
         StopSeal, Seal, StopFails, StopReturn
<1>4. ASSUME NEW p \in Procs, Environment(p) PROVE DownInv'
  BY <1>4 DEF Environment, ChildWrites, ChildExits, PidReused, ForeignExits
<1>5. ASSUME Reconciling PROVE DownInv'
  BY <1>5, RecTypes, Marked
     DEF Reconciling, ReconcileBegin, ReconcileSkip, RecAt, ReconcileMark,
         PidAlive, ReconcileRead, ReconcileSeal, Seal, ReconcileEnd,
         ReconcileFails
<1>6. ASSUME Shutdown PROVE DownInv'
  BY <1>6, RecTypes DEF Shutdown
<1>7. ASSUME ServerEnds PROVE DownInv'
  BY <1>7, RecTypes DEF ServerEnds, All
<1>8. ASSUME Restart PROVE DownInv'
  BY <1>8, RecTypes DEF Restart
<1>9. ASSUME UNCHANGED vars PROVE DownInv'
  BY <1>9 DEF vars
<1> QED
  BY <1>1, <1>2, <1>3, <1>4, <1>5, <1>6, <1>7, <1>8, <1>9 DEF Next

(* A start takes its steps in order, and others work on it only afterwards. *)
LEMMA StartStep == IInv /\ [Next]_vars => \A q \in Procs : StartInv(q)'
<1> SUFFICES ASSUME IInv, [Next]_vars PROVE \A q \in Procs : StartInv(q)'
  OBVIOUS
<1>t. TypeOK /\ TypeOK' /\ (\A q \in Procs : ProcInv(q)) /\ RecInv /\ DownInv
  BY TypeStep DEF IInv
<1> USE <1>t DEF TypeOK, LogTypeOK, DownInv, ProcInv, StartInv, InFlight, MarkInv,
                 logVars, lifeVars, childVars, rowVars, stopVars, history, Become
<1>1. ASSUME NEW p \in Procs, Starting(p) PROVE \A q \in Procs : StartInv(q)'
  BY <1>1, Ending
     DEF Starting, StartCheck, StartStream, CreateStream, StartPopen, Seal,
         StartAttach, StartRow, StartRegister
<1>2. ASSUME NEW p \in Procs, Monitoring(p) PROVE \A q \in Procs : StartInv(q)'
  BY <1>2, Marked
     DEF Monitoring, MonitorRead, MonitorTo, MonitorWrite, AppendWrite,
         MonitorCount, AppendCount, MonitorEof, MonitorSeal, Seal, MonitorMark,
         MonitorForget, MonitorFails
<1>3. ASSUME NEW p \in Procs, Stopping(p) PROVE \A q \in Procs : StartInv(q)'
  BY <1>3, Ending, Marked
     DEF Stopping, StopFind, StopLookup, StopKill, PidAlive, StopMark, StopRead,
         StopSeal, Seal, StopFails, StopReturn
<1>4. ASSUME NEW p \in Procs, Environment(p) PROVE \A q \in Procs : StartInv(q)'
  BY <1>4 DEF Environment, ChildWrites, ChildExits, PidReused, ForeignExits
<1>5. ASSUME Reconciling PROVE \A q \in Procs : StartInv(q)'
  BY <1>5, RecTypes, Marked
     DEF Reconciling, ReconcileBegin, ReconcileSkip, RecAt, ReconcileMark,
         PidAlive, ReconcileRead, ReconcileSeal, Seal, ReconcileEnd,
         ReconcileFails
<1>6. ASSUME Shutdown PROVE \A q \in Procs : StartInv(q)'
  BY <1>6, RecTypes DEF Shutdown
<1>7. ASSUME ServerEnds PROVE \A q \in Procs : StartInv(q)'
  BY <1>7, RecTypes DEF ServerEnds, All
<1>8. ASSUME Restart PROVE \A q \in Procs : StartInv(q)'
  BY <1>8, RecTypes DEF Restart
<1>9. ASSUME UNCHANGED vars PROVE \A q \in Procs : StartInv(q)'
  BY <1>9 DEF vars
<1> QED
  BY <1>1, <1>2, <1>3, <1>4, <1>5, <1>6, <1>7, <1>8, <1>9 DEF Next

(* Nobody marks the row of a process that lives. *)
LEMMA MarkStep == IInv /\ [Next]_vars => \A q \in Procs : MarkInv(q)'
<1> SUFFICES ASSUME IInv, [Next]_vars PROVE \A q \in Procs : MarkInv(q)'
  OBVIOUS
<1>t. TypeOK /\ TypeOK' /\ (\A q \in Procs : ProcInv(q)) /\ RecInv /\ DownInv
  BY TypeStep DEF IInv
<1> USE <1>t DEF TypeOK, LogTypeOK, ProcInv, StartInv, InFlight, MarkInv, DownInv,
                 logVars, lifeVars, childVars, rowVars, stopVars, history, Become
<1>1. ASSUME NEW p \in Procs, Starting(p) PROVE \A q \in Procs : MarkInv(q)'
  BY <1>1, Ending
     DEF Starting, StartCheck, StartStream, CreateStream, StartPopen, Seal,
         StartAttach, StartRow, StartRegister
<1>2. ASSUME NEW p \in Procs, Monitoring(p) PROVE \A q \in Procs : MarkInv(q)'
  BY <1>2, Marked
     DEF Monitoring, MonitorRead, MonitorTo, MonitorWrite, AppendWrite,
         MonitorCount, AppendCount, MonitorEof, MonitorSeal, Seal, MonitorMark,
         MonitorForget, MonitorFails
<1>3. ASSUME NEW p \in Procs, Stopping(p) PROVE \A q \in Procs : MarkInv(q)'
  BY <1>3, Ending, Marked
     DEF Stopping, StopFind, StopLookup, StopKill, PidAlive, StopMark, StopRead,
         StopSeal, Seal, StopFails, StopReturn
<1>4. ASSUME NEW p \in Procs, Environment(p) PROVE \A q \in Procs : MarkInv(q)'
  BY <1>4 DEF Environment, ChildWrites, ChildExits, PidReused, ForeignExits
<1>5. ASSUME Reconciling PROVE \A q \in Procs : MarkInv(q)'
  BY <1>5, RecTypes, Marked
     DEF Reconciling, ReconcileBegin, ReconcileSkip, RecAt, ReconcileMark,
         PidAlive, ReconcileRead, ReconcileSeal, Seal, ReconcileEnd,
         ReconcileFails
<1>6. ASSUME Shutdown PROVE \A q \in Procs : MarkInv(q)'
  BY <1>6, RecTypes DEF Shutdown
<1>7. ASSUME ServerEnds PROVE \A q \in Procs : MarkInv(q)'
  BY <1>7, RecTypes DEF ServerEnds, All
<1>8. ASSUME Restart PROVE \A q \in Procs : MarkInv(q)'
  BY <1>8, RecTypes DEF Restart
<1>9. ASSUME UNCHANGED vars PROVE \A q \in Procs : MarkInv(q)'
  BY <1>9 DEF vars
<1> QED
  BY <1>1, <1>2, <1>3, <1>4, <1>5, <1>6, <1>7, <1>8, <1>9 DEF Next

(* Nobody else comes near the log of a row that is not marked. *)
LEMMA SizeStep == IInv /\ [Next]_vars => \A q \in Procs : SizeInv(q)'
<1> SUFFICES ASSUME IInv, [Next]_vars PROVE \A q \in Procs : SizeInv(q)'
  OBVIOUS
<1>t. TypeOK /\ TypeOK' /\ (\A q \in Procs : ProcInv(q)) /\ RecInv /\ DownInv
  BY TypeStep DEF IInv
<1> USE <1>t DEF TypeOK, LogTypeOK, ProcInv, StartInv, InFlight, MarkInv, SizeInv,
                 RecInv, DownInv, logVars, lifeVars, childVars, rowVars, stopVars, history, Become
<1>1. ASSUME NEW p \in Procs, Starting(p) PROVE \A q \in Procs : SizeInv(q)'
  BY <1>1, Ending
     DEF Starting, StartCheck, StartStream, CreateStream, StartPopen, Seal,
         StartAttach, StartRow, StartRegister
<1>2. ASSUME NEW p \in Procs, Monitoring(p) PROVE \A q \in Procs : SizeInv(q)'
  BY <1>2, Marked
     DEF Monitoring, MonitorRead, MonitorTo, MonitorWrite, AppendWrite,
         MonitorCount, AppendCount, MonitorEof, MonitorSeal, Seal, MonitorMark,
         MonitorForget, MonitorFails
<1>3. ASSUME NEW p \in Procs, Stopping(p) PROVE \A q \in Procs : SizeInv(q)'
  BY <1>3, Ending, Marked
     DEF Stopping, StopFind, StopLookup, StopKill, PidAlive, StopMark, StopRead,
         StopSeal, Seal, StopFails, StopReturn
<1>4. ASSUME NEW p \in Procs, Environment(p) PROVE \A q \in Procs : SizeInv(q)'
  BY <1>4 DEF Environment, ChildWrites, ChildExits, PidReused, ForeignExits
<1>5. ASSUME Reconciling PROVE \A q \in Procs : SizeInv(q)'
  BY <1>5, RecTypes, Marked
     DEF Reconciling, ReconcileBegin, ReconcileSkip, RecAt, ReconcileMark,
         PidAlive, ReconcileRead, ReconcileSeal, Seal, ReconcileEnd,
         ReconcileFails
<1>6. ASSUME Shutdown PROVE \A q \in Procs : SizeInv(q)'
  BY <1>6, RecTypes DEF Shutdown
<1>7. ASSUME ServerEnds PROVE \A q \in Procs : SizeInv(q)'
  BY <1>7, RecTypes DEF ServerEnds, All
<1>8. ASSUME Restart PROVE \A q \in Procs : SizeInv(q)'
  BY <1>8, RecTypes DEF Restart
<1>9. ASSUME UNCHANGED vars PROVE \A q \in Procs : SizeInv(q)'
  BY <1>9 DEF vars
<1> QED
  BY <1>1, <1>2, <1>3, <1>4, <1>5, <1>6, <1>7, <1>8, <1>9 DEF Next

(* A complete log stays complete. *)
LEMMA CodeStep == IInv /\ [Next]_vars => \A q \in Procs : CodeInv(q)'
<1> SUFFICES ASSUME IInv, [Next]_vars PROVE \A q \in Procs : CodeInv(q)'
  OBVIOUS
<1>t. TypeOK /\ TypeOK' /\ (\A q \in Procs : ProcInv(q)) /\ RecInv /\ DownInv
  BY TypeStep DEF IInv
<1> USE <1>t DEF TypeOK, LogTypeOK, ProcInv, StartInv, InFlight, MarkInv, SizeInv,
                 CodeInv, RecInv, logVars, lifeVars, childVars, rowVars, stopVars, history, Become
<1>1. ASSUME NEW p \in Procs, Starting(p) PROVE \A q \in Procs : CodeInv(q)'
  BY <1>1, Ending
     DEF Starting, StartCheck, StartStream, CreateStream, StartPopen, Seal,
         StartAttach, StartRow, StartRegister
<1>2. ASSUME NEW p \in Procs, Monitoring(p) PROVE \A q \in Procs : CodeInv(q)'
  BY <1>2, Marked
     DEF Monitoring, MonitorRead, MonitorTo, MonitorWrite, AppendWrite,
         MonitorCount, AppendCount, MonitorEof, MonitorSeal, Seal, MonitorMark,
         MonitorForget, MonitorFails
<1>3. ASSUME NEW p \in Procs, Stopping(p) PROVE \A q \in Procs : CodeInv(q)'
  BY <1>3, Ending, Marked
     DEF Stopping, StopFind, StopLookup, StopKill, PidAlive, StopMark, StopRead,
         StopSeal, Seal, StopFails, StopReturn
<1>4. ASSUME NEW p \in Procs, Environment(p) PROVE \A q \in Procs : CodeInv(q)'
  BY <1>4 DEF Environment, ChildWrites, ChildExits, PidReused, ForeignExits
<1>5. ASSUME Reconciling PROVE \A q \in Procs : CodeInv(q)'
  BY <1>5, RecTypes, Marked
     DEF Reconciling, ReconcileBegin, ReconcileSkip, RecAt, ReconcileMark,
         PidAlive, ReconcileRead, ReconcileSeal, Seal, ReconcileEnd,
         ReconcileFails
<1>6. ASSUME Shutdown PROVE \A q \in Procs : CodeInv(q)'
  BY <1>6, RecTypes DEF Shutdown
<1>7. ASSUME ServerEnds PROVE \A q \in Procs : CodeInv(q)'
  BY <1>7, RecTypes DEF ServerEnds, All
<1>8. ASSUME Restart PROVE \A q \in Procs : CodeInv(q)'
  BY <1>8, RecTypes DEF Restart
<1>9. ASSUME UNCHANGED vars PROVE \A q \in Procs : CodeInv(q)'
  BY <1>9 DEF vars
<1> QED
  BY <1>1, <1>2, <1>3, <1>4, <1>5, <1>6, <1>7, <1>8, <1>9 DEF Next

(* The reconciler seals only logs of rows that are marked. *)
LEMMA RecStep == IInv /\ [Next]_vars => RecInv'
<1> SUFFICES ASSUME IInv, [Next]_vars PROVE RecInv'
  OBVIOUS
<1>t. TypeOK /\ TypeOK' /\ (\A q \in Procs : ProcInv(q)) /\ RecInv /\ DownInv
  BY TypeStep DEF IInv
<1> USE <1>t DEF TypeOK, LogTypeOK, ProcInv, StartInv, InFlight, MarkInv, CodeInv,
                 RecInv, logVars, lifeVars, childVars, rowVars, stopVars, history, Become
<1>1. ASSUME NEW p \in Procs, Starting(p) PROVE RecInv'
  BY <1>1, Ending
     DEF Starting, StartCheck, StartStream, CreateStream, StartPopen, Seal,
         StartAttach, StartRow, StartRegister
<1>2. ASSUME NEW p \in Procs, Monitoring(p) PROVE RecInv'
  BY <1>2, Marked
     DEF Monitoring, MonitorRead, MonitorTo, MonitorWrite, AppendWrite,
         MonitorCount, AppendCount, MonitorEof, MonitorSeal, Seal, MonitorMark,
         MonitorForget, MonitorFails
<1>3. ASSUME NEW p \in Procs, Stopping(p) PROVE RecInv'
  BY <1>3, Ending, Marked
     DEF Stopping, StopFind, StopLookup, StopKill, PidAlive, StopMark, StopRead,
         StopSeal, Seal, StopFails, StopReturn
<1>4. ASSUME NEW p \in Procs, Environment(p) PROVE RecInv'
  BY <1>4 DEF Environment, ChildWrites, ChildExits, PidReused, ForeignExits
<1>5. ASSUME Reconciling PROVE RecInv'
  <2>1. ASSUME ReconcileBegin PROVE RecInv'
    BY <2>1, RecTypes DEF ReconcileBegin
  <2>2. ASSUME NEW p \in Procs, ReconcileSkip(p) PROVE RecInv'
    BY <2>2 DEF ReconcileSkip, RecAt
  <2>3. ASSUME NEW p \in Procs, ReconcileMark(p) PROVE RecInv'
    <3>1. row[p] # "absent" /\ row'[p] = "exited"
      BY <2>3, Marked DEF ReconcileMark
    <3>2. \A q \in Procs : row[q] # "absent" => row'[q] # "absent"
      BY <2>3, Marked DEF ReconcileMark
    <3>3. rec' = RecAt("read", rec.todo \ {p}, p, 0)
      BY <2>3 DEF ReconcileMark
    <3>4. rec'.at = "read" /\ rec'.item = p /\ rec'.todo = rec.todo \ {p}
      BY <3>3 DEF RecAt
    <3> QED
      BY <3>1, <3>2, <3>4
  <2>4. ASSUME ReconcileRead PROVE RecInv'
    BY <2>4 DEF ReconcileRead, RecAt
  <2>5. ASSUME ReconcileSeal PROVE RecInv'
    BY <2>5 DEF ReconcileSeal, Seal, RecAt
  <2>6. ASSUME ReconcileEnd PROVE RecInv'
    BY <2>6, RecTypes DEF ReconcileEnd
  <2>7. ASSUME ReconcileFails PROVE RecInv'
    BY <2>7, RecTypes DEF ReconcileFails
  <2> QED
    BY <1>5, <2>1, <2>2, <2>3, <2>4, <2>5, <2>6, <2>7 DEF Reconciling
<1>6. ASSUME Shutdown PROVE RecInv'
  BY <1>6, RecTypes DEF Shutdown
<1>7. ASSUME ServerEnds PROVE RecInv'
  BY <1>7, RecTypes DEF ServerEnds, All
<1>8. ASSUME Restart PROVE RecInv'
  BY <1>8, RecTypes DEF Restart
<1>9. ASSUME UNCHANGED vars PROVE RecInv'
  BY <1>9 DEF vars
<1> QED
  BY <1>1, <1>2, <1>3, <1>4, <1>5, <1>6, <1>7, <1>8, <1>9 DEF Next

--------------------------------------------------------------------------------
LEMMA Invariant == Spec => []IInv
<1>1. IInv /\ [Next]_vars => IInv'
  BY TypeStep, DownStep, StartStep, MarkStep, SizeStep, CodeStep, RecStep DEF IInv, ProcInv
<1> QED
  BY InitOK, <1>1, PTL DEF Spec

(* The types of all variables: the reconciler is always at a row, and the  *)
(* metadata of every log are what create_stream(), append() and seal() can *)
(* write, in every interleaving.                                           *)
THEOREM ManagedTyped == Spec => []TypeOK
<1>1. IInv => TypeOK
  BY DEF IInv
<1> QED
  BY Invariant, <1>1, PTL

(* With job objects no row says exited while its process runs, for any     *)
(* number of processes, crashes and reused pids (background.py 136-138,    *)
(* 153-154): the monitor marks after the end of the process, stop() after  *)
(* it has ended it, and the reconciler when the pid names no live process. *)
THEOREM DeadBeforeExited == Spec => []ExitedIsDead
<1>1. IInv => ExitedIsDead
  BY DEF IInv, ProcInv, MarkInv, ExitedIsDead
<1> QED
  BY Invariant, <1>1, PTL

(* REQ-MP-5 (background.py 84-93): the process of a row does not outlive   *)
(* the server, wherever in start_dev_server() the server is killed.        *)
THEOREM NoneOutlives == Spec => []DiesWithServer
<1>1. IInv => DiesWithServer
  BY DEF IInv, ProcInv, StartInv, DownInv, DiesWithServer
<1> QED
  BY Invariant, <1>1, PTL

(* REQ-MP-2 (background.py 198-210, 233-237): an exit code means that the  *)
(* log holds all the process has written, that its row says how long it    *)
(* is, and that it is sealed or its seal() has failed, whatever the        *)
(* reconciler and stop() do to the log meanwhile and whatever fails.       *)
THEOREM CodeMeansLog == Spec => []ExitCodeMeansLog
<1>1. IInv => ExitCodeMeansLog
  BY DEF IInv, ProcInv, CodeInv, ExitCodeMeansLog
<1> QED
  BY Invariant, <1>1, PTL

(* Whoever marks a row second changes nothing (manager.py 118-124): an     *)
(* exited row is final, and so is its exit code.                           *)
THEOREM ExitStays == Spec => ExitIsFinal
<1> DEFINE Final(p) == row[p] = "exited" => row'[p] = "exited" /\ code'[p] = code[p]
<1>1. ASSUME IInv, Next, NEW p \in Procs PROVE Final(p)
  <2> USE <1>1 DEF rowVars, Become
  <2>1. TypeOK /\ \A q \in Procs : StartInv(q)
    BY DEF IInv, ProcInv
  <2>2. ASSUME NEW q \in Procs, Starting(q) PROVE Final(p)
    BY <2>1, <2>2 DEF TypeOK, Starting, StartInv, InFlight, StartCheck, StartStream,
                      StartPopen, StartAttach, StartRow, StartRegister
  <2>3. ASSUME NEW q \in Procs, Monitoring(q) PROVE Final(p)
    BY <2>1, <2>3, Marked
       DEF Monitoring, MonitorRead, MonitorWrite, MonitorCount, MonitorEof,
           MonitorSeal, MonitorMark, MonitorForget, MonitorFails
  <2>4. ASSUME NEW q \in Procs, Stopping(q) PROVE Final(p)
    BY <2>1, <2>4, Marked
       DEF Stopping, StopFind, StopLookup, StopKill, StopMark, StopRead, StopSeal,
           StopFails, StopReturn
  <2>5. ASSUME Reconciling PROVE Final(p)
    BY <2>1, <2>5, Marked
       DEF Reconciling, ReconcileBegin, ReconcileSkip, ReconcileMark, ReconcileRead,
           ReconcileSeal, ReconcileEnd, ReconcileFails
  <2>6. CASE Shutdown \/ ServerEnds \/ Restart \/ \E q \in Procs : Environment(q)
    BY <2>6 DEF Shutdown, ServerEnds, Restart, Environment, ChildWrites, ChildExits,
                PidReused, ForeignExits
  <2> QED
    BY <2>2, <2>3, <2>4, <2>5, <2>6 DEF Next
<1>2. IInv /\ [Next]_vars => [\A p \in Procs : Final(p)]_vars
  BY <1>1
<1> QED
  BY Invariant, <1>2, PTL DEF Spec, ExitIsFinal

--------------------------------------------------------------------------------
(* Reading a log. The lines of a text are cut at a set of positions; the k-th  *)
(* cut is the position with k positions up to it.                              *)
(* Positions up to p in a set of positions. *)
Rank(C, p) == Cardinality({q \in C : q <= p})

Within(C, n) == \A q \in C : q \in 1 .. n
Agree(C, D, d, n) == \A p \in 1 .. n : p \in D <=> d + p \in C

(* t is in s behind the first d elements. *)
Holds(s, t, d) == d + Len(t) <= Len(s) /\ \A i \in 1 .. Len(t) : t[i] = s[d + i]

Less == {ss \in Nat \X Nat : ss[1] < ss[2]}

(* A set of natural numbers has a least element, and a bounded one a greatest. *)
LEMMA Least ==
    ASSUME NEW T, \A t \in T : t \in Nat, T # {}
    PROVE  \E m \in T : \A n \in T : m <= n
<1>1. IsWellFoundedOn(Less, Nat)
  BY NatLessThanWellFounded DEF OpToRel, Less
<1>2. PICK m \in T : \A n \in Nat : <<n, m>> \in Less => n \notin T
  BY <1>1, WFMin, Zenon
<1>3. \A n \in T : ~ (n < m)
  <2>1. ASSUME NEW n \in T, n < m PROVE <<n, m>> \in Less
    BY <2>1 DEF Less
  <2> QED BY <1>2, <2>1
<1> QED
  BY <1>3

LEMMA Greatest ==
    ASSUME NEW n \in Nat, NEW T, \A t \in T : t \in 0 .. n, T # {}
    PROVE  /\ Max(T) \in T
           /\ \A y \in T : y <= Max(T)
<1> DEFINE D == {i \in Nat : n - i \in T}
<1>1. PICK x \in T : TRUE
  OBVIOUS
<1>2. n - x \in D
  BY <1>1
<1>3. PICK i \in D : \A j \in D : i <= j
  <2>1. \A j \in D : j \in Nat
    OBVIOUS
  <2> HIDE DEF D
  <2> QED BY <1>2, <2>1, Least
<1>4. \A y \in T : n - y \in D
  OBVIOUS
<1>5. n - i \in T /\ \A y \in T : n - i >= y
  <2>1. \A y \in T : y \in 0 .. n /\ i <= n - y
    BY <1>3, <1>4
  <2> QED BY <1>3, <2>1
<1>6. \A x1 \in T : x1 \in Int
  OBVIOUS
<1>7. /\ Max(T) \in T /\ \A y \in T : Max(T) >= y
  BY <1>5 DEF Max
<1> QED
  BY <1>6, <1>7

LEMMA Smaller ==
    ASSUME NEW a \in Int, NEW b \in Int
    PROVE  /\ Min({a, b}) = IF a <= b THEN a ELSE b
           /\ Max({a, b}) = IF a <= b THEN b ELSE a
  BY DEF Min, Max

LEMMA MaxOne ==
    \A z \in Int : Max({1, z}) = IF 1 <= z THEN z ELSE 1
<1> SUFFICES ASSUME NEW z \in Int
             PROVE  Max({1, z}) = IF 1 <= z THEN z ELSE 1
  OBVIOUS
<1> QED
  BY Smaller

LEMMA MaxZero ==
    \A z \in Int : Max({0, z}) = IF 0 <= z THEN z ELSE 0
<1> SUFFICES ASSUME NEW z \in Int
             PROVE  Max({0, z}) = IF 0 <= z THEN z ELSE 0
  OBVIOUS
<1> QED
  BY Smaller

LEMMA RankSteps ==
    ASSUME NEW n \in Nat, NEW C, Within(C, n)
    PROVE  /\ IsFiniteSet(C) /\ Cardinality(C) \in 0 .. n
           /\ Rank(C, 0) = 0 /\ Rank(C, n) = Cardinality(C)
           /\ \A p \in Nat : /\ Rank(C, p) \in 0 .. Cardinality(C)
                             /\ Rank(C, p + 1) = IF p + 1 \in C THEN Rank(C, p) + 1
                                                 ELSE Rank(C, p)
<1> USE DEF Within
<1>1. IsFiniteSet(1 .. n) /\ Cardinality(1 .. n) = n
  BY FS_Interval
<1>2. IsFiniteSet(C) /\ Cardinality(C) \in 0 .. n
  BY <1>1, FS_Subset, FS_CardinalityType
<1>3. Rank(C, 0) = 0
  <2>1. {q \in C : q <= 0} = {}
    OBVIOUS
  <2> QED BY <2>1, FS_EmptySet DEF Rank
<1>4. Rank(C, n) = Cardinality(C)
  <2>1. {q \in C : q <= n} = C
    OBVIOUS
  <2> QED BY <2>1 DEF Rank
<1>5. ASSUME NEW p \in Nat
      PROVE  /\ Rank(C, p) \in 0 .. Cardinality(C)
             /\ Rank(C, p + 1) = IF p + 1 \in C THEN Rank(C, p) + 1 ELSE Rank(C, p)
  <2> DEFINE S == {q \in C : q <= p}
  <2>1. S \subseteq C /\ IsFiniteSet(S)
    BY <1>2, FS_Subset
  <2>2. Rank(C, p) = Cardinality(S) /\ Rank(C, p) \in 0 .. Cardinality(C)
    BY <1>2, <2>1, FS_Subset, FS_CardinalityType DEF Rank
  <2>3. CASE p + 1 \in C
    <3>1. {q \in C : q <= p + 1} = S \union {p + 1} /\ p + 1 \notin S
      BY <2>3
    <3> QED BY <2>1, <2>2, <3>1, <2>3, FS_AddElement DEF Rank
  <2>4. CASE p + 1 \notin C
    <3>1. {q \in C : q <= p + 1} = S
      BY <2>4
    <3> QED BY <2>2, <3>1, <2>4 DEF Rank
  <2> QED BY <2>2, <2>3, <2>4
<1> QED
  BY <1>2, <1>3, <1>4, <1>5

LEMMA RankNext ==
    ASSUME NEW n \in Nat, NEW C, Within(C, n)
    PROVE  /\ Rank(C, 0) = 0
           /\ \A i \in Nat : /\ Rank(C, i) \in Nat
                             /\ Rank(C, i + 1) = IF i + 1 \in C THEN Rank(C, i) + 1
                                                 ELSE Rank(C, i)
  BY RankSteps

LEMMA RankGrows ==
    ASSUME NEW n \in Nat, NEW C, Within(C, n), NEW p \in Nat, NEW q \in Nat, p <= q
    PROVE  /\ Rank(C, p) <= Rank(C, q)
           /\ p < q /\ q \in C => Rank(C, p) < Rank(C, q)
<1> USE DEF Within
<1>1. ASSUME NEW a \in Nat, NEW b \in Nat, a <= b
      PROVE  Rank(C, a) <= Rank(C, b)
  <2>1. \A r \in C : r \in Nat
    OBVIOUS
  <2>2. {r \in C : r <= a} \subseteq {r \in C : r <= b}
    BY <1>1, <2>1
  <2>3. IsFiniteSet(C)
    BY RankSteps
  <2>4. {r \in C : r <= b} \subseteq C
    OBVIOUS
  <2>5. IsFiniteSet({r \in C : r <= b})
    BY <2>3, <2>4, FS_Subset
  <2> QED BY <2>2, <2>5, FS_Subset DEF Rank
<1>2. ASSUME p < q, q \in C
      PROVE  Rank(C, p) < Rank(C, q)
  <2>1. q - 1 \in Nat /\ p <= q - 1 /\ (q - 1) + 1 = q
    BY <1>2
  <2> DEFINE r == q - 1
  <2>2. \A i \in Nat : /\ Rank(C, i) \in 0 .. Cardinality(C)
                       /\ i + 1 \in C => Rank(C, i + 1) = Rank(C, i) + 1
    BY RankSteps
  <2>3. /\ Rank(C, q) = Rank(C, r) + 1 /\ Rank(C, r) \in Int /\ Rank(C, p) \in Int
    BY <1>2, <2>1, <2>2
  <2> QED BY <1>1, <2>1, <2>3
<1> QED
  BY <1>1, <1>2

(* The k-th position of a set is the one of rank k. *)
LEMMA NthRank ==
    ASSUME NEW n \in Nat, NEW C, Within(C, n)
    PROVE  /\ \A k \in 1 .. Cardinality(C) : Nth(C, k) \in C /\ Rank(C, Nth(C, k)) = k
           /\ \A p \in C : /\ Rank(C, p) \in 1 .. Cardinality(C)
                           /\ Nth(C, Rank(C, p)) = p
<1> USE DEF Within
<1> DEFINE N == Cardinality(C)
<1>0. /\ N \in Nat /\ Rank(C, 0) = 0 /\ Rank(C, n) = N
      /\ \A p \in C : p \in Nat /\ 0 < p
      /\ \A p \in Nat : /\ Rank(C, p) \in 0 .. N
                        /\ Rank(C, p + 1) = IF p + 1 \in C THEN Rank(C, p) + 1
                                            ELSE Rank(C, p)
  BY RankSteps
<1>1. ASSUME NEW k \in 1 .. Cardinality(C)
      PROVE  Nth(C, k) \in C /\ Rank(C, Nth(C, k)) = k
  <2> DEFINE T == {p \in Nat : Rank(C, p) >= k}
  <2>1. n \in T
    BY <1>0
  <2>2. PICK p \in T : \A r \in T : p <= r
    BY <2>1, Least
  <2>3. p # 0
    BY <1>0
  <2>4. p - 1 \in Nat /\ p - 1 \notin T /\ (p - 1) + 1 = p
    BY <2>2, <2>3
  <2>5. p \in C /\ Rank(C, p) = k
    <3>1. /\ Rank(C, p - 1) \in Nat /\ Rank(C, p - 1) < k
          /\ Rank(C, p) = IF p \in C THEN Rank(C, p - 1) + 1 ELSE Rank(C, p - 1)
      BY <1>0, <2>4
    <3> QED BY <3>1
  <2> QED BY <2>5 DEF Nth, Rank
<1>2. ASSUME NEW p \in C
      PROVE  Rank(C, p) \in 1 .. Cardinality(C) /\ Nth(C, Rank(C, p)) = p
  <2>1. ASSUME NEW i \in Nat, NEW j \in C, i < j
        PROVE  Rank(C, i) < Rank(C, j)
    BY <1>0, <2>1, RankGrows
  <2>2. Rank(C, p) \in 1 .. N
    BY <1>0, <2>1
  <2>3. PICK r \in C : r = Nth(C, Rank(C, p)) /\ Rank(C, r) = Rank(C, p)
    BY <1>1, <2>2
  <2>4. r = p
    <3>1. r \in Nat /\ p \in Nat /\ Rank(C, r) \in Int /\ Rank(C, p) \in Int
      BY <1>0
    <3>2. ~ (r < p) /\ ~ (p < r)
      BY <2>1, <2>3, <3>1
    <3> QED BY <3>1, <3>2
  <2> QED BY <2>2, <2>3, <2>4
<1> QED
  BY <1>1, <1>2

(* Positions that agree after a shift by d have the same ranks, but for those  *)
(* up to d.                                                                    *)
LEMMA RankShift ==
    ASSUME NEW n \in Nat, NEW C, Within(C, n),
           NEW m \in Nat, NEW D, Within(D, m), NEW d \in Nat,
           Agree(C, D, d, m)
    PROVE  \A p \in 0 .. m : Rank(C, d + p) = Rank(C, d) + Rank(D, p)
<1> USE DEF Within, Agree
<1> DEFINE T == {p \in 0 .. m : Rank(C, d + p) # Rank(C, d) + Rank(D, p)}
<1> SUFFICES ASSUME T # {} PROVE FALSE
  OBVIOUS
<1>0. T \in SUBSET Nat
  OBVIOUS
<1>1. PICK p \in T : \A r \in T : p <= r
  BY <1>0, Least
<1> HIDE DEF T
<1>2. \A i \in Nat : /\ Rank(C, i) \in Nat
                     /\ Rank(C, i + 1) = IF i + 1 \in C THEN Rank(C, i) + 1 ELSE Rank(C, i)
  BY RankNext, Zenon
<1>3. /\ Rank(D, 0) = 0
      /\ \A i \in Nat : /\ Rank(D, i) \in Nat
                        /\ Rank(D, i + 1) = IF i + 1 \in D THEN Rank(D, i) + 1 ELSE Rank(D, i)
  BY RankNext, Zenon
<1>4. p \in 0 .. m /\ p # 0
  <2>1. d + 0 = d
    OBVIOUS
  <2> QED BY <1>2, <1>3, <2>1 DEF T
<1>5. PICK i \in 0 .. m : i \in Nat /\ p = i + 1 /\ i \notin T /\ (d + i) + 1 = d + p /\ d + i \in Nat
  <2>1. p - 1 \in 0 .. m /\ p = (p - 1) + 1 /\ ~(p <= p - 1) /\ (d + (p - 1)) + 1 = d + p
    BY <1>4
  <2> QED BY <1>1, <2>1
<1>6. Rank(C, d + i) = Rank(C, d) + Rank(D, i)
  BY <1>5 DEF T
<1>7. p \in 1 .. m /\ Rank(C, d) \in Nat
  BY <1>4, <1>2
<1>8. /\ Rank(C, d + i) \in Nat
      /\ Rank(C, d + p) = IF d + p \in C THEN Rank(C, d + i) + 1 ELSE Rank(C, d + i)
  <2> DEFINE j == d + i
  <2>1. j \in Nat /\ j + 1 = d + p
    BY <1>5
  <2> HIDE DEF j
  <2>2. Rank(C, j) \in Nat /\ Rank(C, j + 1) = IF j + 1 \in C THEN Rank(C, j) + 1 ELSE Rank(C, j)
    BY <1>2, <2>1
  <2> QED BY <2>1, <2>2 DEF j
<1>9. /\ Rank(D, i) \in Nat
      /\ Rank(D, p) = IF p \in D THEN Rank(D, i) + 1 ELSE Rank(D, i)
  BY <1>3, <1>5
<1>10. p \in D <=> d + p \in C
  BY <1>7
<1>11. Rank(C, d + p) = Rank(C, d) + Rank(D, p)
  BY <1>6, <1>7, <1>8, <1>9, <1>10
<1> QED
  BY <1>11 DEF T

LEMMA NthShift ==
    ASSUME NEW n \in Nat, NEW C, Within(C, n),
           NEW m \in Nat, NEW D, Within(D, m), NEW d \in Nat, d + m <= n,
           Agree(C, D, d, m),
           NEW k \in 1 .. Cardinality(D)
    PROVE  /\ Rank(C, d) + k \in 1 .. Cardinality(C)
           /\ Nth(C, Rank(C, d) + k) = d + Nth(D, k)
<1> USE DEF Within, Agree
<1>1. PICK p \in D : p = Nth(D, k) /\ Rank(D, p) = k
  BY NthRank
<1>2. p \in 0 .. m /\ p \in 1 .. m /\ d + p \in C
  BY <1>1
<1>3. \A i \in 0 .. m : Rank(C, d + i) = Rank(C, d) + Rank(D, i)
  BY RankShift
<1>4. Rank(C, d + p) = Rank(C, d) + k
  BY <1>1, <1>2, <1>3
<1>5. /\ Rank(C, d + p) \in 1 .. Cardinality(C)
      /\ Nth(C, Rank(C, d + p)) = d + p
  BY <1>2, NthRank
<1> QED
  BY <1>1, <1>4, <1>5

--------------------------------------------------------------------------------
LEMMA Part ==
    ASSUME NEW A, NEW s \in Seq(A), NEW a \in Int, NEW b \in Int, 1 <= a, b <= Len(s)
    PROVE  /\ SubSeq(s, a, b) \in Seq(A)
           /\ Len(SubSeq(s, a, b)) = IF a <= b THEN b - a + 1 ELSE 0
           /\ \A i \in 1 .. b - a + 1 : SubSeq(s, a, b)[i] = s[a + i - 1]
<1>1. \A i \in a .. b : s[i] \in A
  <2>1. \A i \in a .. b : i \in 1 .. Len(s)
    BY LenProperties
  <2> QED BY <2>1, ElementOfSeq
<1> QED
  BY <1>1, SubSeqProperties

LEMMA FrontType ==
    ASSUME NEW A, NEW s \in Seq(A), Len(s) >= 1
    PROVE  /\ Front(s) \in Seq(A) /\ Len(Front(s)) = Len(s) - 1
           /\ \A i \in 1 .. Len(s) - 1 : Front(s)[i] = s[i]
<1> DEFINE n == Len(s) - 1
<1>1. n \in Nat /\ n <= Len(s) /\ (~ (1 <= n) => n = 0)
  <2>1. Len(s) \in Nat
    BY LenProperties
  <2> QED BY <2>1
<1> HIDE DEF n
<1>2. SubSeq(s, 1, n) \in Seq(A) /\ Len(SubSeq(s, 1, n)) = n
  BY <1>1, Part
<1>3. \A i \in 1 .. n : SubSeq(s, 1, n)[i] = s[i]
  <2>1. \A i \in 1 .. n : i \in 1 .. (n - 1) + 1 /\ 1 + i - 1 = i
    BY <1>1
  <2>2. \A i \in 1 .. (n - 1) + 1 : SubSeq(s, 1, n)[i] = s[1 + i - 1]
    BY <1>1, Part
  <2> QED BY <2>1, <2>2
<1> QED
  BY <1>2, <1>3 DEF Front, n

(* Parts with the same elements, d apart; a part of a part. *)
LEMMA SamePart ==
    ASSUME NEW A, NEW s \in Seq(A), NEW t \in Seq(A), NEW d \in Nat,
           NEW a \in Int, NEW b \in Int, 1 <= a, b <= Len(t), d + b <= Len(s),
           \A i \in a .. b : t[i] = s[d + i]
    PROVE  SubSeq(s, d + a, d + b) = SubSeq(t, a, b)
<1>1. /\ SubSeq(t, a, b) \in Seq(A)
      /\ Len(SubSeq(t, a, b)) = IF a <= b THEN b - a + 1 ELSE 0
      /\ \A i \in 1 .. b - a + 1 : SubSeq(t, a, b)[i] = t[a + i - 1]
  BY Part
<1> DEFINE e == d + a
           f == d + b
<1>2. e \in Int /\ f \in Int /\ 1 <= e /\ f <= Len(s)
  OBVIOUS
<1> HIDE DEF e, f
<1>3. /\ SubSeq(s, e, f) \in Seq(A)
      /\ Len(SubSeq(s, e, f)) = IF e <= f THEN f - e + 1 ELSE 0
      /\ \A i \in 1 .. f - e + 1 : SubSeq(s, e, f)[i] = s[e + i - 1]
  BY <1>2, Part
<1>4. Len(SubSeq(s, e, f)) = Len(SubSeq(t, a, b))
  BY <1>1, <1>3 DEF e, f
<1>5. ASSUME NEW i \in 1 .. Len(SubSeq(t, a, b))
      PROVE  SubSeq(s, e, f)[i] = SubSeq(t, a, b)[i]
  <2>1. i \in 1 .. b - a + 1 /\ i \in 1 .. f - e + 1
    BY <1>1 DEF e, f
  <2>2. a + i - 1 \in a .. b /\ d + (a + i - 1) = e + i - 1
    BY <2>1 DEF e
  <2> QED BY <1>1, <1>3, <2>1, <2>2
<1>6. SubSeq(s, e, f) = SubSeq(t, a, b)
  BY <1>1, <1>3, <1>4, <1>5, SeqEqual
<1> QED
  BY <1>6 DEF e, f

LEMMA PartOfLines ==
    ASSUME NEW L \in Seq(Seq(Chars)), NEW M \in Seq(Seq(Chars)), NEW m \in Nat,
           NEW a \in Int, NEW e \in Int, 1 <= a, e <= Len(L), m + e <= Len(M),
           \A i \in a .. e : L[i] = M[m + i]
    PROVE  SubSeq(M, m + a, m + e) = SubSeq(L, a, e)
  BY SamePart

LEMMA PartOfPart ==
    ASSUME NEW A, NEW s \in Seq(A), NEW t \in Seq(A), NEW d \in Nat, Holds(s, t, d),
           NEW a \in Int, NEW b \in Int, 1 <= a, b <= Len(t)
    PROVE  SubSeq(s, d + a, d + b) = SubSeq(t, a, b)
<1>1. Len(s) \in Nat /\ Len(t) \in Nat
  BY LenProperties
<1>2. d + b <= Len(s) /\ \A i \in a .. b : t[i] = s[d + i]
  BY <1>1 DEF Holds
<1> QED
  BY <1>2, SamePart

LEMMA LineEndsType ==
    ASSUME NEW s \in Seq(Chars)
    PROVE  /\ Len(s) \in Nat /\ DOMAIN s = 1 .. Len(s)
           /\ Within(LineEnds(s), Len(s))
           /\ LineFeeds(s) \in 0 .. Len(s)
<1>1. Len(s) \in Nat /\ DOMAIN s = 1 .. Len(s)
  BY LenProperties
<1>2. Within(LineEnds(s), Len(s))
  BY <1>1 DEF LineEnds, Within
<1> QED
  BY <1>1, <1>2, RankSteps DEF LineFeeds

LEMMA BareType ==
    ASSUME NEW x \in Seq(Chars)
    PROVE  Bare(x) \in Seq(Chars)
<1> DEFINE S == {0} \union {i \in DOMAIN x : x[i] # CR}
<1>1. Len(x) \in Nat /\ DOMAIN x = 1 .. Len(x)
  BY LenProperties
<1>2. S # {} /\ \A i \in S : i \in 0 .. Len(x)
  BY <1>1
<1> HIDE DEF S
<1>3. Max(S) \in 0 .. Len(x)
  BY <1>1, <1>2, Greatest
<1>4. SubSeq(x, 1, Max(S)) \in Seq(Chars)
  BY <1>1, <1>3, Part
<1> QED
  BY <1>4 DEF Bare, S

(* rstrip("\r") of a line with one more carriage return. *)
LEMMA BareDrops ==
    ASSUME NEW x \in Seq(Chars), NEW y \in Seq(Chars), Len(x) = Len(y) + 1, x[Len(x)] = CR,
           \A i \in 1 .. Len(y) : y[i] = x[i]
    PROVE  Bare(x) = Bare(y)
<1>1. /\ Len(x) \in Nat /\ DOMAIN x = 1 .. Len(x)
      /\ Len(y) \in Nat /\ DOMAIN y = 1 .. Len(y)
  BY LenProperties
<1> DEFINE S == {0} \union {i \in DOMAIN y : y[i] # CR}
<1>2. {0} \union {i \in DOMAIN x : x[i] # CR} = S
  <2>1. \A i \in 1 .. Len(x) : i \in 1 .. Len(y) \/ i = Len(x)
    BY <1>1
  <2>2. \A i \in 1 .. Len(y) : i \in 1 .. Len(x)
    BY <1>1
  <2> QED BY <1>1, <2>1, <2>2
<1>3. S # {} /\ \A i \in S : i \in 0 .. Len(y)
  BY <1>1
<1> HIDE DEF S
<1>4. Max(S) \in 0 .. Len(y)
  BY <1>1, <1>3, Greatest
<1> DEFINE k == Max(S)
<1> HIDE DEF k
<1>5. SubSeq(x, 0 + 1, 0 + k) = SubSeq(y, 1, k)
  BY <1>1, <1>4, PartOfPart DEF k, Holds
<1>6. SubSeq(x, 1, k) = SubSeq(y, 1, k)
  BY <1>4, <1>5 DEF k
<1> QED
  BY <1>2, <1>6 DEF Bare, S, k

LEMMA BorderType ==
    ASSUME NEW s \in Seq(Chars), NEW C, Within(C, Len(s)),
           NEW k \in 0 .. Cardinality(C) + 1
    PROVE  /\ Border(s, C, k) \in 0 .. Len(s) + 1
           /\ k >= 1 => Border(s, C, k) \in 1 .. Len(s) + 1
           /\ k <= Cardinality(C) => Border(s, C, k) \in 0 .. Len(s)
           /\ k \in 1 .. Cardinality(C) => Border(s, C, k) = Nth(C, k) /\ Nth(C, k) \in 1 .. Len(s)
<1> USE DEF Within
<1>1. Len(s) \in Nat /\ Cardinality(C) \in Nat
  BY LenProperties, RankSteps
<1>2. k \in 1 .. Cardinality(C) => Nth(C, k) \in 1 .. Len(s)
  BY <1>1, NthRank
<1> QED
  BY <1>1, <1>2 DEF Border

LEMMA CutType ==
    ASSUME NEW s \in Seq(Chars), NEW C, Within(C, Len(s))
    PROVE  /\ Cut(s, C) \in Seq(Seq(Chars))
           /\ Cardinality(C) \in 0 .. Len(s) /\ Len(Cut(s, C)) = Cardinality(C) + 1
           /\ \A k \in 1 .. Cardinality(C) + 1 :
                 Cut(s, C)[k] = Bare(SubSeq(s, Border(s, C, k - 1) + 1, Border(s, C, k) - 1))
<1> DEFINE N == Cardinality(C) + 1
<1>1. Len(s) \in Nat /\ Cardinality(C) \in Nat /\ N \in Nat /\ Cardinality(C) \in 0 .. Len(s)
  <2>1. Len(s) \in Nat
    BY LenProperties
  <2>2. Cardinality(C) \in 0 .. Len(s)
    BY <2>1, RankSteps
  <2> QED BY <2>1, <2>2
<1>2. ASSUME NEW k \in 1 .. N
      PROVE  Bare(SubSeq(s, Border(s, C, k - 1) + 1, Border(s, C, k) - 1)) \in Seq(Chars)
  <2>1. k - 1 \in 0 .. Cardinality(C) + 1 /\ k \in 0 .. Cardinality(C) + 1 /\ k - 1 <= Cardinality(C)
    BY <1>1
  <2> DEFINE a == Border(s, C, k - 1)
             b == Border(s, C, k)
  <2>2. a \in 0 .. Len(s)
    BY <1>1, <2>1, BorderType
  <2>3. b \in 1 .. Len(s) + 1
    BY <1>1, <2>1, BorderType
  <2> HIDE DEF a, b
  <2> DEFINE i == a + 1
             j == b - 1
  <2>4. i \in Int /\ j \in Int /\ 1 <= i /\ j <= Len(s)
    BY <1>1, <2>2, <2>3
  <2> HIDE DEF i, j
  <2>5. SubSeq(s, i, j) \in Seq(Chars)
    BY <2>4, Part
  <2>6. Bare(SubSeq(s, i, j)) \in Seq(Chars)
    BY <2>5, BareType
  <2> QED BY <2>6 DEF i, j, a, b
<1>3. Cut(s, C) \in [1 .. N -> Seq(Chars)]
  BY <1>2, Zenon DEF Cut
<1>4. Cut(s, C) \in Seq(Seq(Chars))
  BY <1>1, <1>3, SeqDef
<1>5. DOMAIN Cut(s, C) = 1 .. N
  BY <1>3
<1>6. Len(Cut(s, C)) = N
  BY <1>1, <1>4, <1>5, LenProperties
<1> QED
  BY <1>1, <1>4, <1>6 DEF Cut

(* Lines of s whose ends are those of t, d characters further on, are the      *)
(* lines of t.                                                                 *)
LEMMA CutShift ==
    ASSUME NEW s \in Seq(Chars), NEW t \in Seq(Chars), NEW d \in Nat, Holds(s, t, d),
           NEW C, Within(C, Len(s)), NEW D, Within(D, Len(t)),
           Agree(C, D, d, Len(t)),
           NEW k \in 1 .. Cardinality(D) + 1,
           k = 1 => d = 0,
           k = Cardinality(D) + 1 =>
               /\ Rank(C, d) + k <= Cardinality(C) + 1
               /\ Border(s, C, Rank(C, d) + k) = d + Len(t) + 1
    PROVE  /\ Rank(C, d) + k \in 1 .. Cardinality(C) + 1
           /\ Cut(s, C)[Rank(C, d) + k] = Cut(t, D)[k]
<1> DEFINE m == Rank(C, d)
<1>1. /\ Len(s) \in Nat /\ Len(t) \in Nat
      /\ Cardinality(C) \in Nat /\ Cardinality(D) \in Nat /\ m \in Nat
      /\ d = 0 => m = 0
  <2>1. Len(s) \in Nat /\ Len(t) \in Nat
    BY LenProperties
  <2>2. Cardinality(C) \in Nat /\ Rank(C, 0) = 0 /\ Rank(C, d) \in Nat
    BY <2>1, RankSteps, RankNext
  <2>3. Cardinality(D) \in Nat
    BY <2>1, RankSteps
  <2> QED BY <2>1, <2>2, <2>3
<1>2. ASSUME NEW j \in 1 .. Cardinality(D)
      PROVE  /\ m + j \in 1 .. Cardinality(C)
             /\ Border(t, D, j) \in 1 .. Len(t)
             /\ Border(s, C, m + j) = d + Border(t, D, j)
  <2>1. Nth(D, j) \in 1 .. Len(t)
    <3>1. Nth(D, j) \in D
      BY <1>1, NthRank
    <3> QED BY <3>1 DEF Within
  <2>2. m + j \in 1 .. Cardinality(C) /\ Nth(C, m + j) = d + Nth(D, j)
    BY <1>1, NthShift DEF Holds
  <2> HIDE DEF m
  <2>3. Border(t, D, j) = Nth(D, j)
    BY <1>1 DEF Border
  <2>4. Border(s, C, m + j) = Nth(C, m + j)
    BY <1>1, <2>2 DEF Border
  <2> QED BY <2>1, <2>2, <2>3, <2>4
<1> HIDE DEF m
<1> DEFINE a == Border(t, D, k - 1)
           b == Border(t, D, k)
<1>3. m + k \in 1 .. Cardinality(C) + 1
  <2>1. CASE k \in 1 .. Cardinality(D)
    BY <1>1, <1>2, <2>1
  <2>2. CASE k = Cardinality(D) + 1
    BY <1>1, <2>2 DEF m
  <2> QED BY <1>1, <2>1, <2>2
<1>4. a \in 0 .. Len(t) /\ Border(s, C, (m + k) - 1) = d + a
  <2>1. CASE k = 1
    BY <1>1, <2>1 DEF Border
  <2>2. CASE k # 1
    <3>1. k - 1 \in 1 .. Cardinality(D) /\ m + (k - 1) = (m + k) - 1
      BY <1>1, <2>2
    <3> HIDE DEF a
    <3> QED BY <1>1, <1>2, <3>1 DEF a
  <2> QED BY <2>1, <2>2
<1>5. b \in 1 .. Len(t) + 1 /\ Border(s, C, m + k) = d + b
  <2>1. CASE k \in 1 .. Cardinality(D)
    BY <1>1, <1>2, <2>1
  <2>2. CASE k = Cardinality(D) + 1
    <3>1. b = Len(t) + 1
      BY <1>1, <2>2 DEF Border
    <3> HIDE DEF b
    <3> QED BY <1>1, <2>2, <3>1 DEF m
  <2> QED BY <1>1, <2>1, <2>2
<1> HIDE DEF a, b
<1> DEFINE e == a + 1
           f == b - 1
<1>6. /\ e \in Int /\ f \in Int /\ 1 <= e /\ f <= Len(t)
      /\ d + e = (d + a) + 1 /\ d + f = (d + b) - 1
  BY <1>1, <1>4, <1>5
<1> HIDE DEF e, f
<1>7. SubSeq(s, d + e, d + f) = SubSeq(t, e, f)
  BY <1>6, PartOfPart
<1>8. Cut(t, D)[k] = Bare(SubSeq(t, e, f))
  BY CutType DEF e, f, a, b
<1>9. Cut(s, C)[m + k] = Bare(SubSeq(s, (d + a) + 1, (d + b) - 1))
  <2> DEFINE h == m + k
             x == Border(s, C, h - 1)
             y == Border(s, C, h)
  <2>1. h \in 1 .. Cardinality(C) + 1 /\ x = d + a /\ y = d + b
    BY <1>3, <1>4, <1>5, Zenon
  <2>2. Cut(s, C)[h] = Bare(SubSeq(s, x + 1, y - 1))
    <3> HIDE DEF h
    <3>1. h \in 1 .. Cardinality(C) + 1
      BY <2>1
    <3> QED BY <3>1, CutType
  <2> HIDE DEF x, y
  <2> QED BY <2>1, <2>2, Zenon
<1> QED
  BY <1>3, <1>6, <1>7, <1>8, <1>9 DEF m

(* Without the last line, the lines of a text that ends with an end of a line  *)
(* are those of the text without that end.                                     *)
LEMMA CutDrops ==
    ASSUME NEW s \in Seq(Chars), NEW C, Within(C, Len(s)), Len(s) \in C
    PROVE  /\ Front(s) \in Seq(Chars) /\ Len(Front(s)) = Len(s) - 1 /\ Len(s) \in Nat \ {0}
           /\ \A i \in 1 .. Len(s) - 1 : Front(s)[i] = s[i]
           /\ Cardinality(C) \in Nat /\ Cardinality(C \ {Len(s)}) = Cardinality(C) - 1
           /\ Cardinality(C) >= 1
           /\ Front(Cut(s, C)) = Cut(Front(s), C \ {Len(s)})
<1> DEFINE t == Front(s)
           D == C \ {Len(s)}
<1>1. Len(s) \in Nat \ {0}
  <2>1. Len(s) \in Nat
    BY LenProperties
  <2>2. Len(s) \in 1 .. Len(s)
    BY DEF Within
  <2> QED BY <2>1, <2>2
<1>2. /\ t \in Seq(Chars) /\ Len(t) = Len(s) - 1
      /\ \A i \in 1 .. Len(t) : t[i] = s[i]
  <2>1. Len(s) >= 1
    BY <1>1
  <2> QED BY <2>1, FrontType
<1>3. /\ IsFiniteSet(C) /\ Cardinality(C) \in Nat /\ Cardinality(D) = Cardinality(C) - 1
      /\ Cardinality(D) \in Nat
  <2>1. IsFiniteSet(C) /\ Cardinality(C) \in Nat
    BY <1>1, RankSteps
  <2>2. IsFiniteSet(D) /\ Cardinality(D) = Cardinality(C) - 1
    BY <2>1, FS_RemoveElement
  <2> QED BY <2>1, <2>2, FS_CardinalityType
<1>4. Within(D, Len(t))
  BY <1>1, <1>2 DEF Within
<1>5. Agree(C, D, 0, Len(t))
  BY <1>1, <1>2 DEF Agree
<1>6. Rank(C, 0) = 0 /\ Rank(C, Len(s)) = Cardinality(C)
  BY <1>1, RankSteps
<1>7. Nth(C, Cardinality(C)) = Len(s)
  BY <1>1, <1>6, NthRank
<1>8. Border(s, C, Cardinality(C)) = Len(s)
  BY <1>1, <1>3, <1>7 DEF Border
<1> DEFINE L == Cut(s, C)
           M == Cut(t, D)
<1>9. /\ L \in Seq(Seq(Chars)) /\ Len(L) = Cardinality(C) + 1
  BY CutType
<1>10. M \in Seq(Seq(Chars)) /\ Len(M) = Cardinality(C)
  <2> HIDE DEF t, D
  <2>1. M \in Seq(Seq(Chars)) /\ Len(M) = Cardinality(D) + 1
    BY <1>2, <1>4, CutType
  <2> QED BY <2>1, <1>3
<1>11. ASSUME NEW k \in 1 .. Cardinality(C)
       PROVE  L[k] = M[k]
  <2>1. Holds(s, t, 0)
    BY <1>1, <1>2 DEF Holds
  <2>2. 0 \in Nat /\ k \in 1 .. Cardinality(D) + 1
    BY <1>1, <1>2, <1>3
  <2>3. k = Cardinality(D) + 1 =>
            /\ Rank(C, 0) + k <= Cardinality(C) + 1
            /\ Border(s, C, Rank(C, 0) + k) = 0 + Len(t) + 1
    BY <1>1, <1>2, <1>3, <1>6, <1>8
  <2> HIDE DEF t, D
  <2>4. Cut(s, C)[Rank(C, 0) + k] = Cut(t, D)[k]
    BY <1>2, <1>4, <1>5, <2>1, <2>2, <2>3, CutShift
  <2> QED BY <2>4, <1>6
<1> HIDE DEF L, M
<1>12. Front(L) \in Seq(Seq(Chars)) /\ Len(Front(L)) = Cardinality(C)
       /\ \A i \in 1 .. Cardinality(C) : Front(L)[i] = L[i]
  BY <1>3, <1>9, Part DEF Front
<1>13. Front(L) = M
  BY <1>10, <1>11, <1>12, SeqEqual
<1> QED
  BY <1>1, <1>2, <1>3, <1>13 DEF L, M

(* A carriage return behind the last line is stripped from it. *)
LEMMA CutBare ==
    ASSUME NEW s \in Seq(Chars), NEW t \in Seq(Chars), Len(t) = Len(s) - 1, s[Len(s)] = CR,
           \A i \in 1 .. Len(s) - 1 : t[i] = s[i],
           NEW D, Within(D, Len(s)), Len(s) \notin D
    PROVE  Cut(t, D) = Cut(s, D)
<1>1. Len(s) \in Nat /\ Len(t) \in Nat
  BY LenProperties
<1>2. Within(D, Len(t)) /\ Agree(D, D, 0, Len(t)) /\ Holds(s, t, 0)
  BY <1>1 DEF Within, Agree, Holds
<1> DEFINE N == Cardinality(D)
           L == Cut(t, D)
           M == Cut(s, D)
<1>3. Rank(D, 0) = 0
  BY <1>1, RankSteps
<1>4. /\ L \in Seq(Seq(Chars)) /\ Len(L) = N + 1 /\ N \in Nat
      /\ M \in Seq(Seq(Chars)) /\ Len(M) = N + 1
  <2>1. L \in Seq(Seq(Chars)) /\ Len(L) = N + 1 /\ N \in 0 .. Len(t)
    BY <1>2, CutType
  <2>2. M \in Seq(Seq(Chars)) /\ Len(M) = N + 1
    BY CutType
  <2> QED BY <1>1, <2>1, <2>2
<1>5. ASSUME NEW k \in 1 .. N
      PROVE  M[k] = L[k]
  <2>1. 0 \in Nat /\ k \in 1 .. Cardinality(D) + 1 /\ k # Cardinality(D) + 1
    BY <1>4
  <2> HIDE DEF L, M
  <2>2. Cut(s, D)[Rank(D, 0) + k] = Cut(t, D)[k]
    BY <1>2, <2>1, CutShift
  <2> QED BY <1>3, <2>2 DEF L, M
<1>6. M[N + 1] = L[N + 1]
  <2> DEFINE a == Border(t, D, N)
  <2>1. a \in 0 .. Len(t)
    <3>1. N \in 0 .. N + 1 /\ N <= N
      BY <1>4
    <3> HIDE DEF N
    <3>2. N = Cardinality(D)
      BY DEF N
    <3> QED BY <1>2, <3>1, <3>2, BorderType
  <2>2. Border(s, D, N) = a
    BY <1>4 DEF Border
  <2>3. Border(t, D, N + 1) = Len(t) + 1 /\ Border(s, D, N + 1) = Len(s) + 1
    BY <1>4 DEF Border
  <2>4. N + 1 \in 1 .. N + 1 /\ (N + 1) - 1 = N
    BY <1>4
  <2> DEFINE c == a + 1
             x == SubSeq(s, c, Len(s))
             y == SubSeq(t, c, Len(t))
  <2>5. M[N + 1] = Bare(x)
    <3> DEFINE h == N + 1
    <3> HIDE DEF h
    <3>1. h \in 1 .. N + 1 => M[h] = Bare(SubSeq(s, Border(s, D, h - 1) + 1, Border(s, D, h) - 1))
      BY CutType
    <3>2. (Len(s) + 1) - 1 = Len(s)
      BY <1>1
    <3> QED BY <2>2, <2>3, <2>4, <3>1, <3>2 DEF h
  <2>6. L[N + 1] = Bare(y)
    <3> DEFINE h == N + 1
    <3> HIDE DEF h
    <3>1. h \in 1 .. N + 1 => L[h] = Bare(SubSeq(t, Border(t, D, h - 1) + 1, Border(t, D, h) - 1))
      BY <1>2, CutType
    <3>2. (Len(t) + 1) - 1 = Len(t)
      BY <1>1
    <3> QED BY <2>3, <2>4, <3>1, <3>2 DEF h
  <2> HIDE DEF a
  <2>7. c \in Int /\ 1 <= c /\ c <= Len(t) + 1
    BY <1>1, <2>1
  <2> HIDE DEF c
  <2>8. /\ x \in Seq(Chars) /\ Len(x) = IF c <= Len(s) THEN Len(s) - c + 1 ELSE 0
        /\ \A i \in 1 .. Len(s) - c + 1 : x[i] = s[c + i - 1]
    BY <1>1, <2>7, Part
  <2>9. /\ y \in Seq(Chars) /\ Len(y) = IF c <= Len(t) THEN Len(t) - c + 1 ELSE 0
        /\ \A i \in 1 .. Len(t) - c + 1 : y[i] = t[c + i - 1]
    BY <1>1, <2>7, Part
  <2> HIDE DEF x, y
  <2>10. Len(x) = Len(y) + 1 /\ Len(x) = Len(s) - c + 1
    BY <1>1, <2>7, <2>8, <2>9
  <2>11. x[Len(x)] = CR
    <3>1. Len(x) \in 1 .. Len(s) - c + 1 /\ c + Len(x) - 1 = Len(s)
      BY <1>1, <2>7, <2>10
    <3> QED BY <2>8, <3>1
  <2>12. ASSUME NEW i \in 1 .. Len(y) PROVE y[i] = x[i]
    <3>1. i \in 1 .. Len(t) - c + 1 /\ i \in 1 .. Len(s) - c + 1 /\ c + i - 1 \in 1 .. Len(s) - 1
      BY <1>1, <2>7, <2>9
    <3> QED BY <2>8, <2>9, <3>1
  <2> QED BY <2>5, <2>6, <2>8, <2>9, <2>10, <2>11, <2>12, BareDrops
<1> HIDE DEF L, M
<1>7. \A k \in 1 .. Len(L) : L[k] = M[k]
  <2>1. \A k \in 1 .. N + 1 : k \in 1 .. N \/ k = N + 1
    BY <1>4
  <2> QED BY <1>4, <1>5, <1>6, <2>1
<1>8. L = M
  BY <1>4, <1>7, SeqEqual
<1> QED
  BY <1>8 DEF L, M

LEMMA SplitType ==
    ASSUME NEW s \in Seq(Chars)
    PROVE  /\ Whole(s) \in Seq(Chars)
           /\ Split(s) \in Seq(Seq(Chars)) /\ Len(Split(s)) \in Nat \ {0}
           /\ Len(Split(s)) = LineFeeds(Whole(s)) + 1
<1>1. Whole(s) \in Seq(Chars)
  <2>1. CASE EndsLine(s)
    <3>1. s # <<>> /\ Len(s) \in Nat
      BY <2>1, LenProperties DEF EndsLine
    <3> QED BY <2>1, <3>1, Part DEF Whole, Front
  <2>2. CASE ~ EndsLine(s)
    BY <2>2 DEF Whole
  <2> QED BY <2>1, <2>2
<1>2. LineFeeds(Whole(s)) \in Nat
  BY <1>1, LineEndsType
<1> QED
  BY <1>1, <1>2, LineEndsType, CutType DEF Split, LineFeeds

(* A text that ends with a line feed has as many lines as line feeds. *)
LEMMA SplitEnds ==
    ASSUME NEW s \in Seq(Chars), EndsLine(s)
    PROVE  /\ Len(s) \in LineEnds(s)
           /\ Split(s) = Front(Cut(s, LineEnds(s)))
           /\ Len(Split(s)) = LineFeeds(s) /\ LineFeeds(s) \in Nat \ {0}
<1>1. s # <<>> /\ s[Len(s)] = LF /\ Len(s) \in Nat \ {0} /\ DOMAIN s = 1 .. Len(s)
  BY EmptySeq, LenProperties DEF EndsLine, Last
<1>2. Len(s) \in LineEnds(s) /\ Within(LineEnds(s), Len(s))
  BY <1>1, LineEndsType DEF LineEnds
<1>3. /\ Front(s) \in Seq(Chars) /\ Len(Front(s)) = Len(s) - 1
      /\ \A i \in 1 .. Len(s) - 1 : Front(s)[i] = s[i]
      /\ LineFeeds(s) \in Nat /\ Cardinality(LineEnds(s) \ {Len(s)}) = LineFeeds(s) - 1
      /\ LineFeeds(s) >= 1
      /\ Front(Cut(s, LineEnds(s))) = Cut(Front(s), LineEnds(s) \ {Len(s)})
  BY <1>1, <1>2, CutDrops DEF LineFeeds
<1>4. LineEnds(Front(s)) = LineEnds(s) \ {Len(s)}
  <2>0. Len(s) \in Nat \ {0}
    BY <1>1
  <2>1. DOMAIN Front(s) = 1 .. Len(s) - 1
    BY <1>3, LenProperties
  <2>2. \A i \in 1 .. Len(s) : (i \in 1 .. Len(s) - 1) <=> (i # Len(s))
    BY <2>0
  <2>3. \A i \in 1 .. Len(s) - 1 : i \in 1 .. Len(s)
    BY <2>0
  <2> QED BY <1>1, <1>3, <2>1, <2>2, <2>3 DEF LineEnds
<1>5. Whole(s) = Front(s)
  BY DEF Whole
<1>6. Split(s) = Front(Cut(s, LineEnds(s)))
  BY <1>3, <1>4, <1>5 DEF Split
<1>7. Len(Split(s)) = LineFeeds(s)
  <2>1. Len(Split(s)) = LineFeeds(Front(s)) + 1
    BY <1>5, SplitType
  <2> QED BY <1>3, <1>4, <2>1 DEF LineFeeds
<1> QED
  BY <1>2, <1>3, <1>6, <1>7

LEMMA TextLinesType ==
    ASSUME NEW s \in Seq(Chars)
    PROVE  /\ Within(TextEnds(s), Len(s))
           /\ TextLines(s) \in Seq(Seq(Chars)) /\ Len(TextLines(s)) \in 0 .. Len(s)
<1> DEFINE C == TextEnds(s)
           L == Cut(s, C)
<1>1. Len(s) \in Nat /\ DOMAIN s = 1 .. Len(s)
  BY LenProperties
<1>2. Within(C, Len(s))
  BY <1>1 DEF TextEnds, Within
<1>3. /\ L \in Seq(Seq(Chars)) /\ Len(L) = Cardinality(C) + 1 /\ Cardinality(C) \in 0 .. Len(s)
  BY <1>2, CutType
<1>4. /\ Front(L) \in Seq(Seq(Chars)) /\ Len(Front(L)) = Cardinality(C)
  <2> HIDE DEF L, C
  <2>1. Len(L) >= 1
    BY <1>3
  <2>2. Front(L) \in Seq(Seq(Chars)) /\ Len(Front(L)) = Len(L) - 1
    BY <1>3, <2>1, FrontType
  <2> QED BY <1>3, <2>2
<1>5. Len(s) \notin C \union {0} => Cardinality(C) \in 0 .. Len(s) - 1
  <2>0. Len(s) \in Nat
    BY <1>1
  <2> HIDE DEF C
  <2>1. ASSUME Len(s) \notin C, Len(s) # 0
        PROVE  Cardinality(C) \in 0 .. Len(s) - 1
    <3>1. Len(s) - 1 \in Nat /\ Within(C, Len(s) - 1)
      BY <1>2, <2>0, <2>1 DEF Within
    <3> QED BY <3>1, RankSteps
  <2> QED BY <2>1
<1>6. TextLines(s) = IF Len(s) \in C \union {0} THEN Front(L) ELSE L
  BY DEF TextLines
<1> HIDE DEF C, L
<1>7. TextLines(s) \in Seq(Seq(Chars)) /\ Len(TextLines(s)) \in 0 .. Len(s)
  <2>0. Len(s) \in Nat
    BY <1>1
  <2>1. CASE Len(s) \in C \union {0}
    BY <1>3, <1>4, <1>6, <2>1
  <2>2. CASE Len(s) \notin C \union {0}
    <3>1. TextLines(s) = L /\ Cardinality(C) \in 0 .. Len(s) - 1
      BY <1>5, <1>6, <2>2
    <3> QED BY <1>3, <2>0, <3>1
  <2> QED BY <2>1, <2>2
<1> QED
  BY <1>2, <1>7 DEF C

(* Unless a carriage return ends no line, the lines that Python reads and the  *)
(* lines that _read_text() splits off are the same.                            *)
LEMMA SameLines ==
    ASSUME NEW s \in Seq(Chars), s # <<>>, NoBare(s)
    PROVE  TextLines(s) = Split(s)
<1> DEFINE C == TextEnds(s)
           D == LineEnds(s)
<1>1. /\ Len(s) \in Nat \ {0}
  BY EmptySeq
<1>2. DOMAIN s = 1 .. Len(s)
  BY LenProperties
<1>3. /\ \A i \in D : i \in 1 .. Len(s) /\ s[i] = LF
      /\ \A i \in 1 .. Len(s) : s[i] = LF => i \in D
  BY <1>2 DEF LineEnds
<1>4. LF # CR
  BY DEF LF, CR
<1>5. C = IF s[Len(s)] = CR THEN D \union {Len(s)} ELSE D
  <2>1. ASSUME NEW i \in 1 .. Len(s)
        PROVE  i \in C <=> s[i] = LF \/ (s[i] = CR /\ i = Len(s))
    <3>1. i \in C <=> s[i] = LF \/ (s[i] = CR /\ (i < Len(s) => s[i + 1] # LF))
      BY <1>2 DEF TextEnds
    <3>2. s[i] = CR /\ i < Len(s) => s[i + 1] = LF
      BY <1>2 DEF NoBare
    <3>3. i < Len(s) <=> i # Len(s)
      BY <1>1
    <3> QED BY <3>1, <3>2, <3>3
  <2>2. \A i \in C : i \in 1 .. Len(s)
    BY TextLinesType DEF Within
  <2>3. Len(s) \in 1 .. Len(s)
    BY <1>1
  <2> HIDE DEF C, D
  <2> QED BY <1>3, <1>4, <2>1, <2>2, <2>3
<1>6. /\ Within(C, Len(s)) /\ Within(D, Len(s))
  BY TextLinesType, LineEndsType
<1>7. TextLines(s) = IF Len(s) \in C \union {0} THEN Front(Cut(s, C)) ELSE Cut(s, C)
  BY DEF TextLines
<1>8. EndsLine(s) <=> s[Len(s)] = LF
  BY DEF EndsLine, Last
<1>9. ~ EndsLine(s) => Split(s) = Cut(s, D)
  BY DEF Split, Whole
<1>10. Len(s) \in D <=> s[Len(s)] = LF
  <2>1. Len(s) \in 1 .. Len(s)
    BY <1>1
  <2> HIDE DEF D
  <2> QED BY <1>3, <2>1
<1>11. CASE s[Len(s)] = LF
  <2>1. C = D /\ Len(s) \in D
    BY <1>4, <1>5, <1>10, <1>11
  <2>2. Split(s) = Front(Cut(s, D))
    BY <1>8, <1>11, SplitEnds
  <2> QED BY <1>7, <2>1, <2>2
<1>12. CASE s[Len(s)] = CR
  <2>1. C = D \union {Len(s)} /\ Len(s) \notin D /\ ~ EndsLine(s)
    BY <1>4, <1>5, <1>8, <1>10, <1>12
  <2> HIDE DEF C, D
  <2>2. C \ {Len(s)} = D /\ Len(s) \in C
    BY <2>1
  <2>3. TextLines(s) = Cut(Front(s), D)
    BY <1>6, <1>7, <2>2, CutDrops
  <2>4. Cut(Front(s), D) = Cut(s, D)
    <3>1. Len(s) >= 1
      BY <1>1
    <3>2. Front(s) \in Seq(Chars) /\ Len(Front(s)) = Len(s) - 1
          /\ \A i \in 1 .. Len(s) - 1 : Front(s)[i] = s[i]
      BY <3>1, FrontType
    <3> QED BY <1>6, <1>12, <2>1, <3>2, CutBare
  <2> QED BY <1>9, <2>1, <2>3, <2>4
<1>13. CASE s[Len(s)] # LF /\ s[Len(s)] # CR
  <2>1. C = D /\ Len(s) \notin D /\ Len(s) # 0
    BY <1>1, <1>5, <1>10, <1>13
  <2> QED BY <1>7, <1>8, <1>9, <1>13, <2>1
<1> QED
  BY <1>11, <1>12, <1>13

(* Reading backwards: the last n lines of a part that holds more than n line   *)
(* feeds, up to the end, are those of the whole.                               *)
LEMMA LastLinesOfPart ==
    ASSUME NEW s \in Seq(Chars), NEW b \in Seq(Chars), NEW d \in Nat,
           Holds(s, b, d), d + Len(b) = Len(s),
           NEW n \in Nat \ {0}, LineFeeds(b) > n
    PROVE  LastLines(n, Split(b)) = LastLines(n, Split(s))
<1> DEFINE t == Whole(b)
           w == Whole(s)
           D == LineEnds(t)
           C == LineEnds(w)
           N == Cardinality(D)
           m == Rank(C, d)
           L == Split(b)
           M == Split(s)
<1>1. Len(s) \in Nat /\ Len(b) \in Nat /\ Len(b) >= 1
  BY LineEndsType
<1>2. b # <<>> /\ s # <<>>
  <2>1. ASSUME b = <<>> \/ s = <<>> PROVE FALSE
    <3>1. Len(b) = 0 \/ Len(s) = 0
      BY <2>1, EmptySeq
    <3> QED BY <1>1, <3>1
  <2> QED BY <2>1
<1>3. EndsLine(b) <=> EndsLine(s)
  <2>1. Len(b) \in 1 .. Len(b)
    BY <1>1
  <2>2. b[Len(b)] = s[Len(s)]
    BY <2>1 DEF Holds
  <2> QED BY <1>2, <2>2 DEF EndsLine, Last
<1>4. /\ t \in Seq(Chars) /\ w \in Seq(Chars)
      /\ Len(t) \in Nat /\ Len(w) \in Nat /\ d + Len(t) = Len(w) /\ Holds(w, t, d)
  <2>1. CASE EndsLine(b)
    <3>1. Len(s) >= 1
      BY <1>1
    <3>2. /\ Front(b) \in Seq(Chars) /\ Len(Front(b)) = Len(b) - 1
          /\ \A i \in 1 .. Len(b) - 1 : Front(b)[i] = b[i]
      BY <1>1, FrontType
    <3>3. /\ Front(s) \in Seq(Chars) /\ Len(Front(s)) = Len(s) - 1
          /\ \A i \in 1 .. Len(s) - 1 : Front(s)[i] = s[i]
      BY <3>1, FrontType
    <3>4. t = Front(b) /\ w = Front(s)
      BY <1>3, <2>1 DEF Whole
    <3>5. d + (Len(b) - 1) = Len(s) - 1 /\ Len(b) - 1 \in Nat /\ Len(s) - 1 \in Nat
      BY <1>1
    <3>6. \A i \in 1 .. Len(b) - 1 : i \in 1 .. Len(b) /\ d + i \in 1 .. Len(s) - 1
      BY <1>1
    <3>7. \A i \in 1 .. Len(b) : b[i] = s[d + i]
      BY DEF Holds
    <3>8. \A i \in 1 .. Len(b) - 1 : Front(b)[i] = Front(s)[d + i]
      BY <3>2, <3>3, <3>6, <3>7
    <3> HIDE DEF t, w
    <3> QED BY <3>2, <3>3, <3>4, <3>5, <3>8 DEF Holds
  <2>2. CASE ~ EndsLine(b)
    BY <1>1, <1>3, <2>2 DEF Whole
  <2> QED BY <2>1, <2>2
<1>5. Within(C, Len(w)) /\ Within(D, Len(t))
  <2> HIDE DEF t, w
  <2> QED BY <1>4, LineEndsType
<1>6. Agree(C, D, d, Len(t))
  <2> HIDE DEF t, w
  <2>1. C = {i \in 1 .. Len(w) : w[i] = LF} /\ D = {i \in 1 .. Len(t) : t[i] = LF}
    <3>1. DOMAIN w = 1 .. Len(w) /\ DOMAIN t = 1 .. Len(t)
      BY <1>4, LenProperties
    <3> QED BY <3>1 DEF LineEnds
  <2> HIDE DEF C, D
  <2>2. ASSUME NEW p \in 1 .. Len(t)
        PROVE  p \in D <=> d + p \in C
    <3>1. d + p \in 1 .. Len(w) /\ t[p] = w[d + p]
      BY <1>4 DEF Holds
    <3> QED BY <2>1, <3>1
  <2> QED BY <2>2 DEF Agree
<1>7. /\ L = Cut(t, D) /\ L \in Seq(Seq(Chars)) /\ Len(L) = N + 1 /\ N \in Nat
      /\ M = Cut(w, C) /\ M \in Seq(Seq(Chars)) /\ Len(M) = Cardinality(C) + 1
  <2>1. L = Cut(t, D) /\ M = Cut(w, C)
    BY DEF Split
  <2> HIDE DEF t, w, C, D, L, M
  <2>2. /\ L \in Seq(Seq(Chars)) /\ Len(L) = N + 1 /\ N \in 0 .. Len(t)
    BY <1>4, <1>5, <2>1, CutType
  <2>3. /\ M \in Seq(Seq(Chars)) /\ Len(M) = Cardinality(C) + 1
    BY <1>4, <1>5, <2>1, CutType
  <2> QED BY <1>4, <2>1, <2>2, <2>3
<1>8. N >= n
  <2>1. CASE EndsLine(b)
    <3>1. Len(L) = LineFeeds(b) /\ LineFeeds(b) \in Nat
      BY <2>1, SplitEnds
    <3> HIDE DEF L, N
    <3> QED BY <1>7, <3>1
  <2>2. CASE ~ EndsLine(b)
    <3>1. N = LineFeeds(b)
      BY <2>2 DEF Whole, LineFeeds
    <3> HIDE DEF N
    <3> QED BY <1>7, <3>1
  <2> QED BY <2>1, <2>2
<1> HIDE DEF t, w, C, D, L, M
<1>9. m \in Nat /\ Cardinality(C) = m + N
  <2>1. Rank(C, Len(w)) = Cardinality(C) /\ m \in Nat
    BY <1>4, <1>5, RankSteps
  <2>2. Rank(D, Len(t)) = N
    BY <1>4, <1>5, RankSteps
  <2>3. Len(t) \in 0 .. Len(t)
    BY <1>4
  <2>4. Rank(C, d + Len(t)) = m + Rank(D, Len(t))
    <3>1. \A p \in 0 .. Len(t) : Rank(C, d + p) = Rank(C, d) + Rank(D, p)
      BY <1>4, <1>5, <1>6, RankShift
    <3> QED BY <2>3, <3>1
  <2> QED BY <1>4, <2>1, <2>2, <2>4
<1> HIDE DEF m, N
<1>10. ASSUME NEW k \in 2 .. N + 1
       PROVE  M[m + k] = L[k]
  <2>1. k \in 1 .. Cardinality(D) + 1 /\ k # 1
    BY <1>7 DEF N
  <2>2. k = Cardinality(D) + 1 =>
            /\ Rank(C, d) + k <= Cardinality(C) + 1
            /\ Border(w, C, Rank(C, d) + k) = d + Len(t) + 1
    <3>1. ASSUME k = N + 1
          PROVE  m + k <= Cardinality(C) + 1 /\ Border(w, C, m + k) = d + Len(t) + 1
      <4>1. m + k > Cardinality(C) /\ m + k # 0 /\ m + k <= Cardinality(C) + 1
        BY <1>7, <1>9, <3>1
      <4>2. Border(w, C, m + k) = Len(w) + 1
        BY <4>1 DEF Border
      <4> QED BY <1>4, <4>1, <4>2
    <3> QED BY <3>1 DEF m, N
  <2>3. Cut(w, C)[Rank(C, d) + k] = Cut(t, D)[k]
    BY <1>4, <1>5, <1>6, <2>1, <2>2, CutShift
  <2> QED BY <1>7, <2>3 DEF m
<1>11. SubSeq(M, m + (N + 1 - n + 1), m + (N + 1)) = SubSeq(L, N + 1 - n + 1, N + 1)
  <2> DEFINE a == N + 1 - n + 1
             e == N + 1
  <2>1. a \in Int /\ e \in Int /\ 2 <= a /\ e <= Len(L) /\ m + e <= Len(M)
    BY <1>7, <1>8, <1>9
  <2>2. \A i \in a .. e : i \in 2 .. N + 1
    BY <1>7, <2>1
  <2>3. \A i \in a .. e : L[i] = M[m + i]
    BY <1>10, <2>2
  <2>4. 1 <= a
    BY <2>1
  <2> HIDE DEF a, e
  <2>5. SubSeq(M, m + a, m + e) = SubSeq(L, a, e)
    <3>1. L \in Seq(Seq(Chars)) /\ M \in Seq(Seq(Chars)) /\ m \in Nat
      BY <1>7, <1>9
    <3> QED BY <2>1, <2>3, <2>4, <3>1, PartOfLines
  <2> QED BY <2>5 DEF a, e
<1>12. /\ LastLines(n, L) = SubSeq(L, N + 1 - n + 1, N + 1)
       /\ LastLines(n, M) = SubSeq(M, m + (N + 1 - n + 1), m + (N + 1))
  <2> DEFINE x == Len(L) - n + 1
             y == Len(M) - n + 1
  <2>1. /\ x \in Int /\ x >= 2 /\ x = N + 1 - n + 1 /\ Len(L) = N + 1
        /\ y \in Int /\ y >= 2 /\ y = m + (N + 1 - n + 1) /\ Len(M) = m + (N + 1)
    BY <1>7, <1>8, <1>9
  <2>2. LastLines(n, L) = SubSeq(L, Max({1, x}), Len(L)) /\ LastLines(n, M) = SubSeq(M, Max({1, y}), Len(M))
    BY DEF LastLines
  <2> HIDE DEF x, y
  <2>3. \A z \in Int : z >= 2 => Max({1, z}) = z
    BY MaxOne
  <2>4. Max({1, x}) = x /\ Max({1, y}) = y
    BY <2>1, <2>3
  <2> QED BY <2>1, <2>2, <2>4
<1> QED
  BY <1>11, <1>12 DEF L, M

LEMMA PrefixIs ==
    ASSUME NEW L \in Seq(Seq(Chars)), NEW M \in Seq(Seq(Chars))
    PROVE  /\ IsPrefix(L, M) => Len(L) <= Len(M) /\ \A i \in 1 .. Len(L) : L[i] = M[i]
           /\ Len(L) <= Len(M) /\ (\A i \in 1 .. Len(L) : L[i] = M[i]) => IsPrefix(L, M)
<1> DEFINE n == Len(L)
<1>1. n \in Nat /\ Len(M) \in Nat
  BY LenProperties
<1>2. SubSeq(L, 1, n) = L
  BY SubSeqFull
<1>3. IsPrefix(L, M) <=> n <= Len(M) /\ SubSeq(L, 1, n) = SubSeq(M, 1, n)
  BY DEF IsPrefix
<1>4. ASSUME n <= Len(M), SubSeq(M, 1, n) = L
      PROVE  \A i \in 1 .. n : L[i] = M[i]
  <2> HIDE DEF n
  <2>1. \A i \in 1 .. n - 1 + 1 : SubSeq(M, 1, n)[i] = M[1 + i - 1]
    BY <1>1, <1>4, Part
  <2>2. \A i \in 1 .. n : i \in 1 .. n - 1 + 1 /\ 1 + i - 1 = i
    BY <1>1
  <2> QED BY <1>4, <2>1, <2>2
<1>5. ASSUME n <= Len(M), \A i \in 1 .. n : L[i] = M[i]
      PROVE  SubSeq(M, 1, n) = SubSeq(L, 1, n)
  <2>1. \A i \in 1 .. n : L[i] = M[0 + i]
    BY <1>5
  <2>2. 0 + n <= Len(M) /\ n <= Len(L) /\ n \in Int
    BY <1>1, <1>5
  <2> HIDE DEF n
  <2>3. SubSeq(M, 0 + 1, 0 + n) = SubSeq(L, 1, n)
    BY <2>1, <2>2, PartOfLines
  <2> QED BY <1>1, <2>3
<1> HIDE DEF n
<1> QED
  BY <1>2, <1>3, <1>4, <1>5 DEF n

LEMMA SplitEmpty ==
    ASSUME NEW s \in Seq(Chars), Len(s) = 0
    PROVE  Len(Split(s)) = 1 /\ Split(s)[1] = <<>>
<1> DEFINE C == LineEnds(s)
           L == Cut(s, C)
<1>1. s = <<>>
  BY EmptySeq
<1>2. Within(C, Len(s)) /\ Cardinality(C) = 0
  <2>1. Within(C, Len(s)) /\ LineFeeds(s) \in 0 .. Len(s)
    BY LineEndsType
  <2> QED BY <2>1 DEF LineFeeds
<1>3. Split(s) = L
  BY <1>1 DEF Split, Whole, EndsLine
<1> HIDE DEF C
<1>4. /\ Len(L) = 1
      /\ \A k \in 1 .. 1 : L[k] = Bare(SubSeq(s, Border(s, C, k - 1) + 1, Border(s, C, k) - 1))
  <2>1. /\ Len(L) = Cardinality(C) + 1
        /\ \A k \in 1 .. Cardinality(C) + 1 :
              L[k] = Bare(SubSeq(s, Border(s, C, k - 1) + 1, Border(s, C, k) - 1))
    BY <1>2, CutType
  <2> HIDE DEF L
  <2> QED BY <1>2, <2>1
<1> HIDE DEF L
<1>5. L[1] = Bare(SubSeq(s, 1, 0))
  <2>1. Border(s, C, 0) = 0 /\ Border(s, C, 1) = 1
    BY <1>2 DEF Border
  <2>2. L[1] = Bare(SubSeq(s, Border(s, C, 0) + 1, Border(s, C, 1) - 1))
    BY <1>4
  <2> QED BY <2>1, <2>2
<1>6. \A x \in Seq(Chars) : SubSeq(x, 1, 0) = <<>>
  BY SubSeqEmpty
<1>7. Bare(s) = <<>>
  <2>1. DOMAIN s = {}
    BY LenProperties
  <2>2. {0} \union {i \in DOMAIN s : s[i] # CR} = {0}
    BY <2>1
  <2>3. Max({0}) = 0
    BY DEF Max
  <2> QED BY <1>6, <2>2, <2>3 DEF Bare
<1> QED
  BY <1>1, <1>3, <1>4, <1>5, <1>6, <1>7

(* Behind an end of a line, no text changes the lines before it. *)
LEMMA SplitGrows ==
    ASSUME NEW s \in Seq(Chars), NEW u \in Seq(Chars), EndsLine(s)
    PROVE  IsPrefix(Split(s), Split(s \o u))
<1> DEFINE t == s \o u
           w == Whole(t)
           D == LineEnds(s)
           C == LineEnds(w)
           N == LineFeeds(s)
           L == Cut(s, D)
           M == Split(t)
<1>1. /\ Len(s) \in Nat /\ Len(u) \in Nat /\ t \in Seq(Chars)
      /\ Len(t) = Len(s) + Len(u)
      /\ \A i \in 1 .. Len(s) + Len(u) : t[i] = IF i <= Len(s) THEN s[i] ELSE u[i - Len(s)]
  BY LenProperties, ConcatProperties
<1>2. /\ Split(s) = Front(L) /\ Len(Split(s)) = N /\ N \in Nat \ {0}
      /\ Split(s) \in Seq(Seq(Chars)) /\ M \in Seq(Seq(Chars))
  BY <1>1, SplitEnds, SplitType
<1>3. CASE Len(u) = 0
  <2>1. u = <<>>
    BY <1>3, EmptySeq
  <2>2. t = s
    BY <2>1, ConcatEmptySeq
  <2>3. \A i \in 1 .. Len(Split(s)) : Split(s)[i] = M[i]
    BY <2>2
  <2>4. Len(Split(s)) <= Len(M)
    BY <1>2, <2>2
  <2> QED BY <1>2, <2>3, <2>4, PrefixIs
<1>4. CASE Len(u) # 0
  <2>1. /\ w \in Seq(Chars) /\ Len(s) <= Len(w) /\ Len(w) \in Nat
        /\ \A i \in 1 .. Len(s) : w[i] = s[i]
    <3>0. \A i \in 1 .. Len(s) : t[i] = s[i]
      BY <1>1
    <3> HIDE DEF t
    <3>1. CASE EndsLine(t)
      <4>1. Len(t) >= 1
        BY <1>1, <1>4
      <4>2. /\ Front(t) \in Seq(Chars) /\ Len(Front(t)) = Len(t) - 1
            /\ \A i \in 1 .. Len(t) - 1 : Front(t)[i] = t[i]
        BY <1>1, <4>1, FrontType
      <4>3. Len(s) <= Len(t) - 1 /\ Len(t) - 1 \in Nat /\ \A i \in 1 .. Len(s) : i \in 1 .. Len(t) - 1
        BY <1>1, <1>4
      <4> QED BY <3>0, <3>1, <4>2, <4>3 DEF Whole
    <3>2. CASE ~ EndsLine(t)
      BY <1>1, <3>0, <3>2 DEF Whole
    <3> QED BY <3>1, <3>2
  <2>2. Within(D, Len(s)) /\ Within(C, Len(w)) /\ N = Cardinality(D)
    <3> HIDE DEF w
    <3> QED BY <2>1, LineEndsType DEF LineFeeds
  <2>3. Agree(C, D, 0, Len(s)) /\ Holds(w, s, 0)
    <3> HIDE DEF w
    <3>1. C = {i \in 1 .. Len(w) : w[i] = LF} /\ D = {i \in 1 .. Len(s) : s[i] = LF}
      <4>1. DOMAIN w = 1 .. Len(w) /\ DOMAIN s = 1 .. Len(s)
        BY <2>1, LenProperties
      <4> QED BY <4>1 DEF LineEnds
    <3> HIDE DEF C, D
    <3>2. ASSUME NEW p \in 1 .. Len(s)
          PROVE  p \in D <=> 0 + p \in C
      <4>1. 0 + p = p /\ p \in 1 .. Len(w) /\ w[p] = s[p]
        BY <1>1, <2>1
      <4> QED BY <3>1, <4>1
    <3>3. 0 + Len(s) <= Len(w) /\ \A i \in 1 .. Len(s) : s[i] = w[0 + i]
      BY <1>1, <2>1
    <3> QED BY <3>2, <3>3 DEF Agree, Holds
  <2>4. M = Cut(w, C)
    BY DEF Split
  <2>5. Rank(C, 0) = 0
    BY <2>1, <2>2, RankSteps
  <2> HIDE DEF t, w, C, D, M, L
  <2>6. ASSUME NEW k \in 1 .. N
        PROVE  k \in 1 .. Cardinality(C) + 1 /\ M[k] = L[k]
    <3>1. 0 \in Nat /\ k \in 1 .. Cardinality(D) + 1 /\ k # Cardinality(D) + 1
      BY <1>2, <2>2
    <3>2. Rank(C, 0) + k \in 1 .. Cardinality(C) + 1 /\ Cut(w, C)[Rank(C, 0) + k] = Cut(s, D)[k]
      BY <2>1, <2>2, <2>3, <3>1, CutShift
    <3>3. Rank(C, 0) + k = k
      BY <2>5
    <3> QED BY <2>4, <3>2, <3>3 DEF L
  <2>7. Len(M) = Cardinality(C) + 1 /\ Cardinality(C) \in Nat
    <3>1. Len(M) = Cardinality(C) + 1 /\ Cardinality(C) \in 0 .. Len(w)
      BY <2>1, <2>2, <2>4, CutType
    <3> QED BY <2>1, <3>1
  <2>8. N <= Len(M)
    <3>1. N \in 1 .. N
      BY <1>2
    <3> QED BY <1>2, <2>6, <2>7, <3>1
  <2>9. \A i \in 1 .. N : Split(s)[i] = L[i]
    <3>1. L \in Seq(Seq(Chars)) /\ Len(L) = N + 1
      BY <2>2, CutType DEF L
    <3>2. Len(L) >= 1 /\ Len(L) - 1 = N
      BY <1>2, <3>1
    <3> QED BY <1>2, <3>1, <3>2, FrontType
  <2>10. \A i \in 1 .. Len(Split(s)) : Split(s)[i] = M[i]
    BY <1>2, <2>6, <2>9
  <2> QED BY <1>2, <2>8, <2>10, PrefixIs DEF M, t
<1> QED
  BY <1>3, <1>4

LEMMA SliceType ==
    ASSUME NEW L \in Seq(Seq(Chars)), NEW start \in Nat, NEW end \in Nat, start < end
    PROVE  /\ Slice(L, start, end) \in Seq(Seq(Chars))
           /\ Len(Slice(L, start, end)) =
                 IF Len(L) <= start THEN 0
                 ELSE IF end <= Len(L) THEN end - start ELSE Len(L) - start
           /\ \A i \in 1 .. Len(Slice(L, start, end)) : Slice(L, start, end)[i] = L[start + i]
<1> DEFINE b == IF end <= Len(L) THEN end ELSE Len(L)
           a == start + 1
           x == SubSeq(L, a, b)
<1>1. Len(L) \in Nat
  BY LenProperties
<1>2. Min({end, Len(L)}) = b
  BY <1>1, Smaller
<1>3. Slice(L, start, end) = x
  BY <1>2 DEF Slice
<1>4. a \in Int /\ b \in Int /\ 1 <= a /\ b <= Len(L)
  BY <1>1
<1> HIDE DEF a, b
<1>5. /\ x \in Seq(Seq(Chars)) /\ Len(x) = IF a <= b THEN b - a + 1 ELSE 0
      /\ \A i \in 1 .. b - a + 1 : x[i] = L[a + i - 1]
  BY <1>4, Part, SMTT(30)
<1> HIDE DEF x
<1>6. /\ Len(x) = IF Len(L) <= start THEN 0
                   ELSE IF end <= Len(L) THEN end - start ELSE Len(L) - start
  BY <1>1, <1>5 DEF a, b
<1>7. \A i \in 1 .. Len(x) : x[i] = L[start + i]
  <2>1. \A i \in 1 .. Len(x) : i \in 1 .. b - a + 1 /\ a + i - 1 = start + i
    BY <1>4, <1>5 DEF a
  <2> QED BY <1>5, <2>1
<1> QED
  BY <1>3, <1>5, <1>6, <1>7

LEMMA SliceGrows ==
    ASSUME NEW L \in Seq(Seq(Chars)), NEW M \in Seq(Seq(Chars)), IsPrefix(L, M),
           NEW start \in Nat, NEW end \in Nat, start < end
    PROVE  IsPrefix(Slice(L, start, end), Slice(M, start, end))
<1> DEFINE x == Slice(L, start, end)
           y == Slice(M, start, end)
<1>1. /\ Len(L) \in Nat /\ Len(M) \in Nat
      /\ Len(L) <= Len(M) /\ \A i \in 1 .. Len(L) : L[i] = M[i]
  BY PrefixIs, LenProperties
<1>2. /\ x \in Seq(Seq(Chars))
      /\ Len(x) = IF Len(L) <= start THEN 0
                  ELSE IF end <= Len(L) THEN end - start ELSE Len(L) - start
      /\ \A i \in 1 .. Len(x) : x[i] = L[start + i]
  BY SliceType
<1>3. /\ y \in Seq(Seq(Chars))
      /\ Len(y) = IF Len(M) <= start THEN 0
                  ELSE IF end <= Len(M) THEN end - start ELSE Len(M) - start
      /\ \A i \in 1 .. Len(y) : y[i] = M[start + i]
  BY SliceType
<1> HIDE DEF x, y
<1>4. Len(x) <= Len(y) /\ Len(x) \in Nat /\ Len(y) \in Nat
  <2>1. Len(L) \in Nat /\ Len(M) \in Nat /\ Len(L) <= Len(M)
    BY <1>1
  <2>2. Len(x) = IF Len(L) <= start THEN 0
                 ELSE IF end <= Len(L) THEN end - start ELSE Len(L) - start
    BY <1>2
  <2>3. Len(y) = IF Len(M) <= start THEN 0
                 ELSE IF end <= Len(M) THEN end - start ELSE Len(M) - start
    BY <1>3
  <2> QED BY <2>1, <2>2, <2>3, SMTT(30)
<1>5. ASSUME NEW i \in 1 .. Len(x) PROVE x[i] = y[i]
  <2>1. i \in 1 .. Len(y) /\ start + i \in 1 .. Len(L)
    BY <1>1, <1>2, <1>4, SMTT(30)
  <2> QED BY <1>1, <1>2, <1>3, <2>1
<1>6. IsPrefix(x, y)
  BY <1>2, <1>3, <1>4, <1>5, PrefixIs
<1> QED
  BY <1>6 DEF x, y

(* Whichever way it reads, and whatever the row counts, read_range() returns   *)
(* lines that _read_text() splits off.                                         *)
LEMMA ReadsLines ==
    ASSUME NEW s \in Seq(Chars), NoBare(s), NEW c \in 0 .. LineFeeds(s),
           NEW start \in Nat, NEW end \in Nat
    PROVE  ReadRange(c, s, start, end) =
               IF end <= start THEN <<>> ELSE Slice(Split(s), start, end)
<1>1. STREAM_ABOVE \in Nat
  BY ReadingAssumption
<1>2. ASSUME ~ (c <= STREAM_ABOVE) PROVE TextLines(s) = Split(s)
  <2>1. Len(s) \in Nat /\ LineFeeds(s) \in 0 .. Len(s)
    BY LineEndsType
  <2>2. Len(s) # 0
    BY <1>1, <1>2, <2>1
  <2>3. s # <<>>
    BY <2>2, EmptySeq
  <2> QED BY <2>3, SameLines
<1> QED
  BY <1>2 DEF ReadRange, Streamed

LEMMA LineFeedsAdd ==
    ASSUME NEW s \in Seq(Chars), NEW u \in Seq(Chars)
    PROVE  LineFeeds(s \o u) = LineFeeds(s) + LineFeeds(u)
<1> DEFINE t == s \o u
           C == LineEnds(t)
           D == LineEnds(s)
           E == LineEnds(u)
           n == Len(s)
<1>1. /\ n \in Nat /\ Len(u) \in Nat /\ t \in Seq(Chars) /\ Len(t) = n + Len(u)
      /\ \A i \in 1 .. n + Len(u) : t[i] = IF i <= n THEN s[i] ELSE u[i - n]
  BY LenProperties, ConcatProperties
<1>2. Within(C, Len(t)) /\ Within(D, n) /\ Within(E, Len(u))
  BY <1>1, LineEndsType
<1>3. /\ C = {i \in 1 .. Len(t) : t[i] = LF} /\ D = {i \in 1 .. n : s[i] = LF}
      /\ E = {i \in 1 .. Len(u) : u[i] = LF}
  <2>1. DOMAIN t = 1 .. Len(t) /\ DOMAIN s = 1 .. n /\ DOMAIN u = 1 .. Len(u)
    BY <1>1, LenProperties
  <2> QED BY <2>1 DEF LineEnds
<1> HIDE DEF t, C, D, E, n
<1>4. Agree(C, D, 0, n)
  <2>1. ASSUME NEW p \in 1 .. n PROVE p \in D <=> 0 + p \in C
    <3>1. 0 + p = p /\ p \in 1 .. Len(t) /\ t[p] = s[p]
      BY <1>1
    <3> QED BY <1>3, <3>1
  <2> QED BY <2>1 DEF Agree
<1>5. Agree(C, E, n, Len(u))
  <2>1. ASSUME NEW p \in 1 .. Len(u) PROVE p \in E <=> n + p \in C
    <3>1. n + p \in 1 .. Len(t) /\ ~ (n + p <= n) /\ (n + p) - n = p
      BY <1>1
    <3>2. t[n + p] = u[p]
      BY <1>1, <3>1
    <3> QED BY <1>3, <3>1, <3>2
  <2> QED BY <2>1 DEF Agree
<1>6. /\ Rank(C, Len(t)) = Cardinality(C) /\ Rank(C, 0) = 0 /\ Rank(C, n) \in Nat
      /\ Rank(D, n) = Cardinality(D) /\ Cardinality(D) \in Nat
      /\ Rank(E, Len(u)) = Cardinality(E) /\ Cardinality(E) \in Nat
  <2>1. Len(t) \in Nat
    BY <1>1
  <2>2. Rank(C, Len(t)) = Cardinality(C) /\ Rank(C, 0) = 0 /\ Rank(C, n) \in Nat
    BY <1>1, <1>2, <2>1, RankSteps
  <2>3. Rank(D, n) = Cardinality(D) /\ Cardinality(D) \in Nat
    BY <1>1, <1>2, RankSteps
  <2>4. Rank(E, Len(u)) = Cardinality(E) /\ Cardinality(E) \in Nat
    BY <1>1, <1>2, RankSteps
  <2> QED BY <2>2, <2>3, <2>4
<1>7. Rank(C, n) = Cardinality(D)
  <2>1. \A p \in 0 .. n : Rank(C, 0 + p) = Rank(C, 0) + Rank(D, p)
    <3>1. Len(t) \in Nat /\ 0 \in Nat
      BY <1>1
    <3> QED BY <1>1, <1>2, <1>4, <3>1, RankShift
  <2>2. n \in 0 .. n /\ 0 + n = n
    BY <1>1
  <2>3. Rank(C, n) = 0 + Rank(D, n)
    BY <1>6, <2>1, <2>2
  <2> QED BY <1>6, <2>3
<1>8. Rank(C, Len(t)) = Rank(C, n) + Cardinality(E)
  <2>1. \A p \in 0 .. Len(u) : Rank(C, n + p) = Rank(C, n) + Rank(E, p)
    <3>1. Len(t) \in Nat
      BY <1>1
    <3> QED BY <1>1, <1>2, <1>5, <3>1, RankShift
  <2>2. Len(u) \in 0 .. Len(u)
    BY <1>1
  <2> QED BY <1>1, <1>6, <2>1, <2>2
<1> QED
  BY <1>6, <1>7, <1>8 DEF LineFeeds, C, D, E, t

LEMMA LastLinesType ==
    ASSUME NEW L \in Seq(Seq(Chars)), NEW n \in Nat \ {0}
    PROVE  LastLines(n, L) \in Seq(Seq(Chars))
<1> DEFINE x == Len(L) - n + 1
           a == Max({1, x})
<1>1. Len(L) \in Nat
  BY LenProperties
<1>2. a \in Int /\ 1 <= a
  BY <1>1, MaxOne
<1> HIDE DEF a
<1>3. SubSeq(L, a, Len(L)) \in Seq(Seq(Chars))
  BY <1>1, <1>2, Part
<1> QED
  BY <1>3 DEF LastLines, a

--------------------------------------------------------------------------------
(* What tail() has in its buffer is the log from pos on, as far as the log     *)
(* went when the call began.                                                   *)
TailInv ==
    /\ tailing \in [at : {"idle", "reading", "done"}, n : Nat \ {0}, size : Nat, pos : Nat,
                    buf : Seq(Chars), lines : Seq(Seq(Chars))]
    /\ tailing.pos <= tailing.size /\ tailing.size <= Len(text)
    /\ tailing.at = "reading" =>
          tailing.size > 0 /\ tailing.buf = SubSeq(text, tailing.pos + 1, tailing.size)
    /\ TailIsLast

(* The log was p once: since then it has not changed, or p is empty or ends    *)
(* with an end of a line.                                                      *)
Was(p) ==
    \E u \in Seq(Chars) : text = p \o u /\ (u = <<>> \/ p = <<>> \/ EndsLine(p))

FoundInv ==
    found.seen =>
        \E p \in Seq(Chars) :
            /\ Was(p)
            /\ \E i \in 1 .. Len(TextLines(p)) :
                  found.line = i - 1 /\ found.text = TextLines(p)[i]

PageInv ==
    /\ page.start \in Nat /\ page.end \in Nat
    /\ \E p \in Seq(Chars) :
          /\ Was(p)
          /\ \E c \in 0 .. LineFeeds(p) :
                page.lines = ReadRange(c, p, page.start, page.end)

ReadInv == ReadTypeOK /\ TailInv /\ FoundInv /\ PageInv

LEMMA WasNow ==
    ASSUME text \in Seq(Chars)
    PROVE  Was(text)
<1>1. text = text \o <<>> /\ <<>> \in Seq(Chars)
  BY ConcatEmptySeq, EmptySeq
<1> QED
  BY <1>1 DEF Was

LEMMA TextsAppended ==
    ASSUME NEW p \in Seq(Chars), NEW u \in Seq(Chars), NEW v \in Seq(Chars)
    PROVE  (p \o u) \o v = p \o (u \o v)
  BY ConcatAssociative, SMT

LEMMA WasThen ==
    ASSUME text \in Seq(Chars), NEW payload \in Seq(Chars), text = <<>> \/ EndsLine(text),
           text' = text \o payload, NEW p \in Seq(Chars), Was(p)
    PROVE  Was(p)'
<1>1. PICK u \in Seq(Chars) : text = p \o u /\ (u = <<>> \/ p = <<>> \/ EndsLine(p))
  BY DEF Was
<1>2. u \o payload \in Seq(Chars) /\ text' = p \o (u \o payload)
  <2>1. u \o payload \in Seq(Chars)
    BY ConcatProperties
  <2>2. (p \o u) \o payload = p \o (u \o payload)
    BY TextsAppended, Zenon
  <2> QED BY <1>1, <2>1, <2>2
<1>3. u = <<>> => p = text
  BY <1>1, ConcatEmptySeq
<1>4. p = <<>> \/ EndsLine(p)
  BY <1>1, <1>3
<1>5. \E v \in Seq(Chars) : text' = p \o v /\ (v = <<>> \/ p = <<>> \/ EndsLine(p))
  BY <1>2, <1>4
<1> QED
  BY <1>5 DEF Was, EndsLine

(* The lines of an earlier log are the first lines of the log, and it has no   *)
(* bare carriage return that the log has not.                                  *)
LEMMA WasPrefix ==
    ASSUME text \in Seq(Chars), NoBare(text), NEW p \in Seq(Chars), Was(p)
    PROVE  NoBare(p) /\ (p # <<>> => IsPrefix(Split(p), Split(text)))
<1>1. PICK u \in Seq(Chars) : text = p \o u /\ (u = <<>> \/ p = <<>> \/ EndsLine(p))
  BY DEF Was
<1>2. NoBare(p)
  <2>1. /\ Len(p) \in Nat /\ Len(u) \in Nat /\ DOMAIN p = 1 .. Len(p)
    BY LenProperties
  <2>2. /\ Len(text) = Len(p) + Len(u) /\ DOMAIN text = 1 .. Len(text)
        /\ \A i \in 1 .. Len(p) + Len(u) : text[i] = IF i <= Len(p) THEN p[i] ELSE u[i - Len(p)]
    BY <1>1, ConcatProperties, LenProperties
  <2>3. ASSUME NEW i \in 1 .. Len(p), p[i] = CR, i < Len(p)
        PROVE  p[i + 1] = LF
    <3>1. i \in 1 .. Len(text) /\ i < Len(text) /\ i + 1 \in 1 .. Len(p)
      BY <2>1, <2>2, <2>3
    <3>2. i \in 1 .. Len(p) + Len(u) /\ i + 1 \in 1 .. Len(p) + Len(u) /\ i <= Len(p) /\ i + 1 <= Len(p)
      BY <2>1, <3>1
    <3>3. text[i] = p[i] /\ text[i + 1] = p[i + 1]
      BY <2>2, <3>2
    <3> QED BY <2>2, <2>3, <3>1, <3>3 DEF NoBare
  <2> QED BY <2>1, <2>3 DEF NoBare
<1>3. ASSUME p # <<>> PROVE IsPrefix(Split(p), Split(text))
  <2>1. CASE u = <<>>
    <3>1. text = p
      BY <1>1, <2>1, ConcatEmptySeq
    <3>2. Split(p) \in Seq(Seq(Chars)) /\ Len(Split(p)) \in Nat
      BY SplitType
    <3> QED BY <3>1, <3>2, PrefixIs
  <2>2. CASE EndsLine(p)
    BY <1>1, <2>2, SplitGrows
  <2> QED BY <1>1, <1>3, <2>1, <2>2
<1> QED
  BY <1>2, <1>3

LEMMA FoundFollows ==
    ASSUME ReadTypeOK, FoundInv
    PROVE  FoundStaysReadable
<1> SUFFICES ASSUME found.seen, NoBare(text), NEW c \in 0 .. counted
             PROVE  ReadRange(c, text, found.line, found.line + 1) = <<found.text>>
  BY DEF FoundStaysReadable
<1>1. text \in Seq(Chars) /\ c \in 0 .. LineFeeds(text)
  BY DEF ReadTypeOK
<1>0. PICK p \in Seq(Chars) :
          /\ Was(p)
          /\ \E i \in 1 .. Len(TextLines(p)) :
                found.line = i - 1 /\ found.text = TextLines(p)[i]
  BY DEF FoundInv
<1>2. PICK i \in 1 .. Len(TextLines(p)) : found.line = i - 1 /\ found.text = TextLines(p)[i]
  BY <1>0
<1> DEFINE L == Split(p)
           M == Split(text)
<1>3. i \in Nat \ {0} /\ Len(p) # 0
  <2>1. Len(TextLines(p)) \in 0 .. Len(p) /\ Len(p) \in Nat
    BY TextLinesType, LenProperties
  <2> QED BY <2>1
<1>4. p # <<>>
  BY <1>3, EmptySeq
<1>5. NoBare(p) /\ IsPrefix(L, M)
  BY <1>0, <1>1, <1>4, WasPrefix
<1>6. TextLines(p) = L
  BY <1>4, <1>5, SameLines
<1>7. L \in Seq(Seq(Chars)) /\ M \in Seq(Seq(Chars)) /\ Len(L) \in Nat /\ Len(M) \in Nat
  BY <1>1, SplitType
<1> HIDE DEF L, M
<1>8. i <= Len(M) /\ M[i] = L[i]
  <2>1. Len(L) <= Len(M) /\ \A j \in 1 .. Len(L) : L[j] = M[j]
    BY <1>5, <1>7, PrefixIs
  <2>2. i \in 1 .. Len(L)
    BY <1>6
  <2> QED BY <1>7, <2>1, <2>2
<1>9. Slice(M, i - 1, i) = <<M[i]>>
  <2> DEFINE j == i - 1
             x == Slice(M, j, i)
  <2>1. j \in Nat /\ i \in Nat /\ j < i /\ j + 1 = i /\ ~ (Len(M) <= j) /\ i <= Len(M) /\ i - j = 1
    BY <1>3, <1>7, <1>8
  <2> HIDE DEF j
  <2>2. x \in Seq(Seq(Chars)) /\ Len(x) = 1 /\ x[1] = M[j + 1]
    <3>1. /\ x \in Seq(Seq(Chars))
          /\ Len(x) = IF Len(M) <= j THEN 0 ELSE IF i <= Len(M) THEN i - j ELSE Len(M) - j
          /\ \A k \in 1 .. Len(x) : x[k] = M[j + k]
      <4>1. M \in Seq(Seq(Chars)) /\ j \in Nat /\ i \in Nat /\ j < i
        BY <1>7, <2>1
      <4> QED BY <4>1, SliceType
    <3> HIDE DEF x
    <3>2. Len(x) = 1
      <4>1. Len(x) = IF Len(M) <= j THEN 0 ELSE IF i <= Len(M) THEN i - j ELSE Len(M) - j
        BY <3>1
      <4> QED BY <2>1, <4>1
    <3>3. 1 \in 1 .. Len(x)
      BY <3>2
    <3> QED BY <3>1, <3>2, <3>3
  <2> HIDE DEF x
  <2>3. x = <<x[1]>>
    BY <2>2
  <2> QED BY <2>1, <2>2, <2>3 DEF x, j
<1>10. ReadRange(c, text, i - 1, i) = Slice(M, i - 1, i)
  <2> DEFINE j == i - 1
  <2>1. j \in Nat /\ i \in Nat /\ ~ (i <= j)
    BY <1>3
  <2> HIDE DEF j
  <2>2. ReadRange(c, text, j, i) = Slice(M, j, i)
    BY <1>1, <2>1, ReadsLines DEF M
  <2> QED BY <2>2 DEF j
<1>11. found.line + 1 = i
  BY <1>2, <1>3
<1> QED
  BY <1>2, <1>6, <1>8, <1>9, <1>10, <1>11

LEMMA PageFollows ==
    ASSUME ReadTypeOK, PageInv
    PROVE  PagesOnlyGrow
<1> SUFFICES ASSUME NoBare(text), NEW c \in 0 .. counted
             PROVE  \/ IsPrefix(page.lines, ReadRange(c, text, page.start, page.end))
                    \/ /\ page.lines = << <<>> >>
                       /\ ReadRange(c, text, page.start, page.end) # <<>>
  BY DEF PagesOnlyGrow
<1> DEFINE start == page.start
           end == page.end
           M == Split(text)
           y == ReadRange(c, text, start, end)
<1>1. text \in Seq(Chars) /\ c \in 0 .. LineFeeds(text) /\ start \in Nat /\ end \in Nat
  BY DEF ReadTypeOK, PageInv
<1>0. PICK p \in Seq(Chars) :
          /\ Was(p)
          /\ \E b \in 0 .. LineFeeds(p) : page.lines = ReadRange(b, p, start, end)
  BY DEF PageInv
<1> HIDE DEF start, end
<1>2. PICK b \in 0 .. LineFeeds(p) : page.lines = ReadRange(b, p, start, end)
  BY <1>0
<1>3. NoBare(p) /\ (p # <<>> => IsPrefix(Split(p), M))
  BY <1>0, <1>1, WasPrefix
<1>4. y = IF end <= start THEN <<>> ELSE Slice(M, start, end)
  BY <1>1, ReadsLines
<1>5. page.lines = IF end <= start THEN <<>> ELSE Slice(Split(p), start, end)
  BY <1>1, <1>2, <1>3, ReadsLines
<1>6. /\ M \in Seq(Seq(Chars)) /\ Len(M) \in Nat \ {0}
      /\ Split(p) \in Seq(Seq(Chars))
  BY <1>1, SplitType
<1> HIDE DEF M, y
<1>7. CASE end <= start
  <2>1. PICK x \in Seq(Seq(Chars)) : x = <<>> /\ Len(x) = 0
    BY EmptySeq
  <2>2. page.lines = x /\ y = x
    BY <1>4, <1>5, <1>7, <2>1
  <2>3. IsPrefix(x, x)
    <3>1. Len(x) <= Len(x) /\ \A i \in 1 .. Len(x) : x[i] = x[i]
      BY <2>1
    <3> QED BY <3>1, PrefixIs
  <2> QED BY <2>2, <2>3 DEF y, start, end
<1>8. CASE ~ (end <= start) /\ p # <<>>
  <2>1. start < end
    BY <1>1, <1>8
  <2>2. IsPrefix(Slice(Split(p), start, end), Slice(M, start, end))
    BY <1>1, <1>3, <1>6, <1>8, <2>1, SliceGrows
  <2>3. IsPrefix(page.lines, y)
    BY <1>4, <1>5, <1>8, <2>2
  <2> QED BY <2>3 DEF y, start, end
<1>9. CASE ~ (end <= start) /\ p = <<>>
  <2>1. start < end
    BY <1>1, <1>9
  <2>2. Len(Split(p)) = 1 /\ Split(p)[1] = <<>>
    BY <1>9, EmptySeq, SplitEmpty
  <2> DEFINE x == Slice(Split(p), start, end)
  <2>3. /\ x \in Seq(Seq(Chars))
        /\ Len(x) = IF 1 <= start THEN 0 ELSE 1
        /\ \A i \in 1 .. Len(x) : x[i] = Split(p)[start + i]
    <3>1. /\ x \in Seq(Seq(Chars))
          /\ Len(x) = IF Len(Split(p)) <= start THEN 0
                      ELSE IF end <= Len(Split(p)) THEN end - start ELSE Len(Split(p)) - start
          /\ \A i \in 1 .. Len(x) : x[i] = Split(p)[start + i]
      BY <1>1, <1>6, <2>1, SliceType
    <3> HIDE DEF x
    <3>2. Len(x) = IF 1 <= start THEN 0 ELSE 1
      BY <1>1, <2>1, <2>2, <3>1
    <3> QED BY <3>1, <3>2
  <2>4. /\ y \in Seq(Seq(Chars)) /\ Len(y) \in Nat
        /\ Len(y) = IF Len(M) <= start THEN 0
                    ELSE IF end <= Len(M) THEN end - start ELSE Len(M) - start
    <3>1. y = Slice(M, start, end)
      BY <1>4, <1>9
    <3>2. /\ y \in Seq(Seq(Chars))
          /\ Len(y) = IF Len(M) <= start THEN 0
                      ELSE IF end <= Len(M) THEN end - start ELSE Len(M) - start
      BY <1>1, <1>6, <2>1, <3>1, SliceType
    <3> QED BY <3>2, LenProperties
  <2>5. page.lines = x
    BY <1>5, <1>9
  <2> HIDE DEF x
  <2>6. CASE start = 0
    <3>1. Len(x) = 1 /\ 1 \in 1 .. Len(x) /\ start + 1 = 1
      BY <2>3, <2>6
    <3>2. x[1] = <<>>
      BY <2>2, <2>3, <3>1
    <3>3. x = << <<>> >>
      BY <2>3, <3>1, <3>2
    <3>4. Len(y) # 0
      BY <1>1, <1>6, <2>1, <2>4, <2>6
    <3>5. y # <<>>
      BY <3>4, EmptySeq
    <3> QED BY <2>5, <3>3, <3>5 DEF y, start, end
  <2>7. CASE start # 0
    <3>1. Len(x) = 0
      BY <1>1, <2>3, <2>7
    <3>2. Len(x) <= Len(y) /\ \A i \in 1 .. Len(x) : x[i] = y[i]
      BY <2>4, <3>1
    <3>3. IsPrefix(x, y)
      BY <2>3, <2>4, <3>2, PrefixIs
    <3> QED BY <2>5, <3>3 DEF y, start, end
  <2> QED BY <2>6, <2>7
<1> QED
  BY <1>7, <1>8, <1>9

LEMMA ReadInitOK == ReadInit => ReadInv
<1> SUFFICES ASSUME ReadInit PROVE ReadInv
  OBVIOUS
<1> USE DEF ReadInit
<1>1. <<>> \in Seq(Chars) /\ <<>> \in Seq(Seq(Chars)) /\ Len(<<>>) = 0
  BY EmptySeq
<1>2. LineFeeds(text) = 0
  <2>1. text \in Seq(Chars) /\ Len(text) = 0
    BY <1>1
  <2>2. LineFeeds(text) \in 0 .. 0
    BY <2>1, LineEndsType
  <2> QED BY <2>2
<1>3. MaxLength \in Nat
  BY ReadingAssumption
<1>4. ReadTypeOK
  BY <1>1, <1>2, <1>3 DEF ReadTypeOK, Idle, Nothing
<1>5. TailInv
  BY <1>1 DEF TailInv, TailIsLast, Idle
<1>6. FoundInv
  BY DEF FoundInv, Nothing
<1>7. PageInv
  <2>1. page.start = 0 /\ page.end = 0 /\ page.lines = <<>>
    BY DEF NoPage
  <2>2. text \in Seq(Chars) /\ Was(text)
    BY <1>1, WasNow
  <2>3. 0 \in 0 .. LineFeeds(text) /\ ReadRange(0, text, 0, 0) = <<>>
    BY <1>2 DEF ReadRange
  <2>4. \E c \in 0 .. LineFeeds(text) : page.lines = ReadRange(c, text, page.start, page.end)
    BY <2>1, <2>3, Zenon
  <2>5. page.start \in Nat /\ page.end \in Nat
    BY <2>1
  <2> QED BY <2>2, <2>4, <2>5, Zenon DEF PageInv
<1> QED
  BY <1>4, <1>5, <1>6, <1>7 DEF ReadInv

LEMMA ReadUnchanged ==
    ASSUME ReadInv, UNCHANGED text
    PROVE  /\ UNCHANGED tailing => TailInv'
           /\ UNCHANGED found => FoundInv'
           /\ UNCHANGED page => PageInv'
           /\ UNCHANGED <<counted, writing, tailing, found>> => ReadTypeOK'
<1>1. \A p : Was(p)' <=> Was(p)
  BY DEF Was
<1>2. UNCHANGED tailing => TailInv'
  BY DEF ReadInv, TailInv, TailIsLast
<1>3. UNCHANGED found => FoundInv'
  BY <1>1 DEF ReadInv, FoundInv
<1>4. UNCHANGED page => PageInv'
  BY <1>1 DEF ReadInv, PageInv
<1>5. UNCHANGED <<counted, writing, tailing, found>> => ReadTypeOK'
  BY DEF ReadInv, ReadTypeOK
<1> QED
  BY <1>2, <1>3, <1>4, <1>5

LEMMA AppendTextOK ==
    ASSUME ReadInv, NEW payload \in Payloads, AppendText(payload)
    PROVE  ReadInv'
<1>1. /\ text \in Seq(Chars) /\ payload \in Seq(Chars) /\ MaxLength \in Nat
      /\ Len(text) + Len(payload) <= MaxLength /\ text' = text \o payload
      /\ text = <<>> \/ EndsLine(text)
  BY ReadingAssumption DEF ReadInv, ReadTypeOK, AppendText
<1>2. /\ Len(text) \in Nat /\ Len(payload) \in Nat
      /\ text' \in Seq(Chars) /\ Len(text') = Len(text) + Len(payload)
  BY <1>1, ConcatProperties, LenProperties
<1>3. /\ LineFeeds(text') = LineFeeds(text) + LineFeeds(payload)
      /\ LineFeeds(text) \in 0 .. Len(text) /\ LineFeeds(payload) \in 0 .. Len(payload)
  BY <1>1, LineFeedsAdd, LineEndsType
<1>4. UNCHANGED <<counted, tailing, found, page>> /\ writing = 0 /\ writing' = LineFeeds(payload)
  BY DEF AppendText
<1>5. ReadTypeOK'
  <2>1. /\ text' \in Seq(Chars) /\ Len(text') <= MaxLength
        /\ counted' \in 0 .. MaxLength /\ found'.line \in 0 .. MaxLength
    BY <1>1, <1>2, <1>4 DEF ReadInv, ReadTypeOK
  <2>2. writing' \in 0 .. MaxLength
    BY <1>1, <1>2, <1>3, <1>4
  <2>3. counted' + writing' = LineFeeds(text')
    <3>1. counted + 0 = LineFeeds(text) /\ counted \in Int
      BY <1>4 DEF ReadInv, ReadTypeOK
    <3> QED BY <1>3, <1>4, <3>1
  <2>4. /\ tailing'.at \in {"idle", "reading", "done"} /\ tailing'.pos \in 0 .. tailing'.size
    BY <1>4 DEF ReadInv, ReadTypeOK
  <2>5. tailing'.size <= Len(text')
    <3>1. tailing.size \in Nat /\ tailing.size <= Len(text)
      BY DEF ReadInv, TailInv
    <3> QED BY <1>2, <1>4, <3>1
  <2>6. LineFeeds(text)' = LineFeeds(text')
    BY DEF LineFeeds, LineEnds
  <2> QED BY <2>1, <2>2, <2>3, <2>4, <2>5, <2>6 DEF ReadTypeOK
<1>6. TailInv'
  <2>1. /\ tailing.size \in Nat /\ tailing.pos \in Nat /\ tailing.pos <= tailing.size
        /\ tailing.size <= Len(text)
    BY DEF ReadInv, TailInv
  <2>2. ASSUME NEW a \in Nat, NEW b \in Nat, 1 <= a, b <= Len(text)
        PROVE  SubSeq(text', a, b) = SubSeq(text, a, b)
    <3>1. 0 \in Nat /\ Holds(text', text, 0)
      <4>1. \A i \in 1 .. Len(text) : i \in 1 .. Len(text) + Len(payload) /\ i <= Len(text) /\ 0 + i = i
        BY <1>2
      <4>2. \A i \in 1 .. Len(text) + Len(payload) :
               text'[i] = IF i <= Len(text) THEN text[i] ELSE payload[i - Len(text)]
        BY <1>1, ConcatProperties
      <4>3. \A i \in 1 .. Len(text) : text[i] = text'[0 + i]
        BY <4>1, <4>2
      <4> QED BY <1>2, <4>3 DEF Holds
    <3>2. SubSeq(text', 0 + a, 0 + b) = SubSeq(text, a, b)
      BY <1>1, <1>2, <2>2, <3>1, PartOfPart
    <3> QED BY <3>2
  <2> DEFINE a == tailing.pos + 1
             b == tailing.size
  <2> HIDE DEF a, b
  <2>3. SubSeq(text', a, b) = SubSeq(text, a, b) /\ SubSeq(text', 1, b) = SubSeq(text, 1, b)
    <3>1. a \in Nat /\ b \in Nat /\ 1 <= a /\ b <= Len(text) /\ 1 \in Nat /\ 1 <= 1
      BY <2>1 DEF a, b
    <3> QED BY <2>2, <3>1
  <2>4. SubSeq(text', 1, tailing.size) = SubSeq(text, 1, tailing.size)
    BY <2>3 DEF b
  <2>5. TailIsLast'
    BY <1>4, <2>4 DEF ReadInv, TailInv, TailIsLast
  <2>6. tailing.size <= Len(text')
    BY <1>2, <2>1
  <2> QED BY <1>4, <2>3, <2>5, <2>6 DEF ReadInv, TailInv, a, b
<1>7. ASSUME NEW p \in Seq(Chars), Was(p) PROVE Was(p)'
  BY <1>1, <1>7, WasThen
<1>8. FoundInv'
  BY <1>4, <1>7 DEF ReadInv, FoundInv
<1>9. PageInv'
  BY <1>4, <1>7 DEF ReadInv, PageInv
<1> QED
  BY <1>5, <1>6, <1>8, <1>9 DEF ReadInv

LEMMA AppendLineCountOK ==
    ASSUME ReadInv, AppendLineCount
    PROVE  ReadInv'
<1>1. UNCHANGED <<text, tailing, found, page>> /\ counted' = counted + writing /\ writing' = 0
  BY DEF AppendLineCount
<1>2. /\ text \in Seq(Chars) /\ Len(text) <= MaxLength /\ MaxLength \in Nat
      /\ counted + writing = LineFeeds(text)
  BY ReadingAssumption DEF ReadInv, ReadTypeOK
<1>3. LineFeeds(text) \in 0 .. Len(text) /\ Len(text) \in Nat
  BY <1>2, LineEndsType
<1>4. counted' \in 0 .. MaxLength /\ writing' \in 0 .. MaxLength /\ counted' + writing' = LineFeeds(text)
  BY <1>1, <1>2, <1>3
<1>5. ReadTypeOK'
  BY <1>1, <1>4 DEF ReadInv, ReadTypeOK
<1> QED
  BY <1>1, <1>5, ReadUnchanged DEF ReadInv

LEMMA OutputTailOK ==
    ASSUME ReadInv, NEW n \in Tails, OutputTail(n)
    PROVE  ReadInv'
<1> DEFINE r == [at |-> IF text = <<>> THEN "done" ELSE "reading", n |-> Max({n, 1}),
                 size |-> Len(text), pos |-> Len(text), buf |-> <<>>, lines |-> <<>>]
<1>1. UNCHANGED <<text, counted, writing, found, page>> /\ tailing' = r
  BY DEF OutputTail
<1>2. text \in Seq(Chars) /\ Len(text) \in Nat /\ (text # <<>> => Len(text) > 0) /\ (text = <<>> => Len(text) = 0)
  BY EmptySeq, LenProperties DEF ReadInv, ReadTypeOK
<1>3. Max({n, 1}) \in Nat \ {0}
  <2>1. n \in Int /\ {n, 1} = {1, n}
    BY ReadingAssumption
  <2> QED BY <2>1, MaxOne
<1>4. <<>> \in Seq(Chars) /\ <<>> \in Seq(Seq(Chars))
  BY EmptySeq
<1>5. SubSeq(text, Len(text) + 1, Len(text)) = <<>>
  BY <1>2, SubSeqEmpty
<1>6. TailInv'
  BY <1>1, <1>2, <1>3, <1>4, <1>5 DEF TailInv, TailIsLast
<1>7. ReadTypeOK'
  BY <1>1, <1>2 DEF ReadInv, ReadTypeOK
<1> QED
  BY <1>1, <1>6, <1>7, ReadUnchanged DEF ReadInv

LEMMA TailChunkOK ==
    ASSUME ReadInv, TailChunk
    PROVE  ReadInv'
<1> DEFINE from == Max({0, tailing.pos - CHUNK})
<1>1. /\ UNCHANGED <<text, counted, writing, found, page>>
      /\ tailing.at = "reading"
      /\ tailing' = [tailing EXCEPT !.pos = from, !.buf = SubSeq(text, from + 1, tailing.pos) \o tailing.buf]
  BY DEF TailChunk
<1>2. /\ tailing \in [at : {"idle", "reading", "done"}, n : Nat \ {0}, size : Nat, pos : Nat,
                      buf : Seq(Chars), lines : Seq(Seq(Chars))]
      /\ tailing.pos <= tailing.size /\ tailing.size <= Len(text)
      /\ tailing.size > 0 /\ tailing.buf = SubSeq(text, tailing.pos + 1, tailing.size)
      /\ text \in Seq(Chars) /\ Len(text) \in Nat /\ CHUNK \in Nat
  BY <1>1, ReadingAssumption, LenProperties DEF ReadInv, ReadTypeOK, TailInv
<1>3. from \in Nat /\ from <= tailing.pos
  <2>1. tailing.pos \in Nat /\ tailing.pos - CHUNK \in Int /\ tailing.pos - CHUNK <= tailing.pos
    BY <1>2
  <2>2. from = IF 0 <= tailing.pos - CHUNK THEN tailing.pos - CHUNK ELSE 0
    BY <2>1, MaxZero
  <2> HIDE DEF from
  <2> QED BY <2>1, <2>2
<1> HIDE DEF from
<1>4. SubSeq(text, from + 1, tailing.pos) \o tailing.buf = SubSeq(text, from + 1, tailing.size)
  <2> DEFINE a == from + 1
             k == tailing.pos
             e == tailing.size
  <2>1. a \in 1 .. Len(text) + 1 /\ k \in a - 1 .. Len(text) /\ e \in k .. Len(text)
    BY <1>2, <1>3
  <2> HIDE DEF a, k, e
  <2>2. SubSeq(text, a, k) \o SubSeq(text, k + 1, e) = SubSeq(text, a, e)
    BY <1>2, <2>1, ConcatAdjacentSubSeq, SMTT(30)
  <2> QED BY <1>2, <2>2 DEF a, k, e
<1>5. SubSeq(text, from + 1, tailing.size) \in Seq(Chars)
  BY <1>2, <1>3, Part
<1>6. /\ tailing' = [tailing EXCEPT !.pos = from, !.buf = SubSeq(text, from + 1, tailing.size)]
  BY <1>1, <1>4
<1> DEFINE z == SubSeq(text, from + 1, tailing.size)
<1> HIDE DEF z
<1>7. /\ tailing'.at = "reading" /\ tailing'.buf = z /\ tailing'.size = tailing.size
      /\ tailing'.pos = from
      /\ tailing' \in [at : {"idle", "reading", "done"}, n : Nat \ {0}, size : Nat, pos : Nat,
                       buf : Seq(Chars), lines : Seq(Seq(Chars))]
  BY <1>1, <1>2, <1>3, <1>5, <1>6 DEF z
<1>8. from <= tailing.size
  BY <1>2, <1>3
<1>9. TailInv'
  BY <1>1, <1>2, <1>7, <1>8 DEF TailInv, TailIsLast, z
<1>10. ReadTypeOK'
  BY <1>1, <1>2, <1>3, <1>7, <1>8 DEF ReadInv, ReadTypeOK
<1> QED
  BY <1>1, <1>9, <1>10, ReadUnchanged DEF ReadInv

LEMMA TailReturnsOK ==
    ASSUME ReadInv, TailReturns
    PROVE  ReadInv'
<1> DEFINE x == LastLines(tailing.n, Split(tailing.buf))
           s == SubSeq(text, 1, tailing.size)
<1>1. /\ UNCHANGED <<text, counted, writing, found, page>>
      /\ tailing.at = "reading" /\ Enough
      /\ tailing' = [tailing EXCEPT !.at = "done", !.lines = x]
  BY DEF TailReturns
<1>2. /\ tailing \in [at : {"idle", "reading", "done"}, n : Nat \ {0}, size : Nat, pos : Nat,
                      buf : Seq(Chars), lines : Seq(Seq(Chars))]
      /\ tailing.pos <= tailing.size /\ tailing.size <= Len(text)
      /\ tailing.size > 0 /\ tailing.buf = SubSeq(text, tailing.pos + 1, tailing.size)
      /\ text \in Seq(Chars) /\ Len(text) \in Nat
  BY <1>1, LenProperties DEF ReadInv, ReadTypeOK, TailInv
<1>3. x \in Seq(Seq(Chars))
  BY <1>2, SplitType, LastLinesType
<1>4. x = LastLines(tailing.n, Split(s))
  <2>1. CASE tailing.pos = 0
    BY <1>2, <2>1
  <2>2. CASE tailing.pos # 0
    <3> DEFINE b == tailing.buf
               d == tailing.pos
               e == tailing.size
               n == tailing.n
    <3>1. LineFeeds(b) > n /\ n \in Nat \ {0} /\ d \in Nat /\ e \in Nat /\ d <= e /\ e <= Len(text)
          /\ b \in Seq(Chars) /\ b = SubSeq(text, d + 1, e)
      BY <1>1, <1>2, <2>2 DEF Enough
    <3> HIDE DEF b, d, e, n
    <3>2. /\ SubSeq(text, 1, e) \in Seq(Chars) /\ Len(SubSeq(text, 1, e)) = e
          /\ \A i \in 1 .. e : SubSeq(text, 1, e)[i] = text[i]
      <4>1. /\ SubSeq(text, 1, e) \in Seq(Chars)
            /\ Len(SubSeq(text, 1, e)) = IF 1 <= e THEN e - 1 + 1 ELSE 0
            /\ \A i \in 1 .. e - 1 + 1 : SubSeq(text, 1, e)[i] = text[1 + i - 1]
        <5>1. text \in Seq(Chars) /\ e \in Int /\ e <= Len(text) /\ 1 \in Int /\ 1 <= 1
          BY <1>2, <3>1
        <5> QED BY <5>1, Part
      <4>2. \A i \in 1 .. e : i \in 1 .. e - 1 + 1 /\ 1 + i - 1 = i
        BY <3>1
      <4>3. (IF 1 <= e THEN e - 1 + 1 ELSE 0) = e
        BY <3>1
      <4> QED BY <4>1, <4>2, <4>3
    <3>3. /\ Len(b) = e - d
          /\ \A i \in 1 .. e - d : b[i] = text[d + i]
      <4> DEFINE a == d + 1
      <4>1. a \in Int /\ 1 <= a
        BY <3>1
      <4> HIDE DEF a
      <4>2. /\ Len(SubSeq(text, a, e)) = IF a <= e THEN e - a + 1 ELSE 0
            /\ \A i \in 1 .. e - a + 1 : SubSeq(text, a, e)[i] = text[a + i - 1]
        <5>1. text \in Seq(Chars) /\ e \in Int /\ e <= Len(text)
          BY <1>2, <3>1
        <5> QED BY <4>1, <5>1, Part
      <4>3. \A i \in 1 .. e - d : i \in 1 .. e - a + 1 /\ a + i - 1 = d + i
        BY <3>1 DEF a
      <4>4. (IF a <= e THEN e - a + 1 ELSE 0) = e - d
        BY <3>1 DEF a
      <4>5. b = SubSeq(text, a, e)
        BY <3>1 DEF a
      <4> QED BY <4>2, <4>3, <4>4, <4>5
    <3> DEFINE z == SubSeq(text, 1, e)
    <3> HIDE DEF z
    <3>4. z \in Seq(Chars) /\ d + Len(b) = Len(z) /\ Holds(z, b, d)
      <4>1. z \in Seq(Chars) /\ Len(z) = e /\ \A i \in 1 .. e : z[i] = text[i]
        BY <3>2 DEF z
      <4>2. d + (e - d) = e /\ e <= e /\ \A i \in 1 .. e - d : d + i \in 1 .. e
        BY <3>1
      <4>3. \A i \in 1 .. e - d : b[i] = z[d + i]
        BY <3>3, <4>1, <4>2
      <4> QED BY <3>3, <4>1, <4>2, <4>3 DEF Holds
    <3>5. LastLines(n, Split(b)) = LastLines(n, Split(z))
      BY <3>1, <3>4, LastLinesOfPart
    <3> QED BY <3>5 DEF b, e, n, z
  <2> QED BY <2>1, <2>2
<1> HIDE DEF x, s
<1>5. /\ tailing'.at = "done" /\ tailing'.lines = x /\ tailing'.n = tailing.n
      /\ tailing'.size = tailing.size /\ tailing'.pos = tailing.pos /\ tailing'.buf = tailing.buf
      /\ tailing' \in [at : {"idle", "reading", "done"}, n : Nat \ {0}, size : Nat, pos : Nat,
                       buf : Seq(Chars), lines : Seq(Seq(Chars))]
  BY <1>1, <1>2, <1>3
<1>6. TailIsLast'
  BY <1>1, <1>2, <1>4, <1>5 DEF TailIsLast, s
<1>7. TailInv'
  BY <1>1, <1>2, <1>5, <1>6 DEF TailInv
<1>8. ReadTypeOK'
  BY <1>1, <1>2, <1>5 DEF ReadInv, ReadTypeOK
<1> QED
  BY <1>1, <1>7, <1>8, ReadUnchanged DEF ReadInv

LEMMA OutputSearchOK ==
    ASSUME ReadInv, OutputSearch
    PROVE  ReadInv'
<1> DEFINE L == TextLines(text)
<1>1. UNCHANGED <<text, counted, writing, tailing, page>>
  BY DEF OutputSearch
<1>2. text \in Seq(Chars) /\ Len(text) <= MaxLength /\ MaxLength \in Nat /\ Len(text) \in Nat
  BY ReadingAssumption, LenProperties DEF ReadInv, ReadTypeOK
<1>3. L \in Seq(Seq(Chars)) /\ Len(L) \in 0 .. Len(text) /\ DOMAIN L = 1 .. Len(L)
  BY <1>2, TextLinesType, LenProperties
<1>4. PICK i \in 1 .. Len(L) : found' = [line |-> i - 1, text |-> L[i], seen |-> TRUE]
  <2>1. \E i \in DOMAIN L : found' = [line |-> i - 1, text |-> L[i], seen |-> TRUE]
    BY DEF OutputSearch
  <2> HIDE DEF L
  <2> QED BY <1>3, <2>1
<1>5. found'.line = i - 1 /\ found'.text = L[i]
  BY <1>4
<1>6. ReadTypeOK'
  <2>1. Len(L) \in 0 .. Len(text)
    BY <1>3
  <2> HIDE DEF L
  <2>2. found'.line \in 0 .. MaxLength
    BY <1>2, <1>5, <2>1
  <2> QED BY <1>1, <2>2 DEF ReadInv, ReadTypeOK
<1>7. FoundInv'
  <2>1. Was(text) /\ (\A p : Was(p)' <=> Was(p))
    BY <1>1, <1>2, WasNow DEF Was
  <2> QED BY <1>2, <1>4, <1>5, <2>1 DEF FoundInv
<1> QED
  BY <1>1, <1>6, <1>7, ReadUnchanged DEF ReadInv

LEMMA OutputReadRangeOK ==
    ASSUME ReadInv, NEW range \in Ranges, OutputReadRange(range[1], range[2])
    PROVE  ReadInv'
<1>1. /\ UNCHANGED <<text, counted, writing, tailing, found>>
      /\ page'.start = range[1] /\ page'.end = range[2]
      /\ page'.lines = ReadRange(counted, text, range[1], range[2])
  BY DEF OutputReadRange
<1>2. range[1] \in Nat /\ range[2] \in Nat
  BY ReadingAssumption
<1>3. text \in Seq(Chars) /\ counted \in 0 .. LineFeeds(text)
  BY DEF ReadInv, ReadTypeOK
<1>4. Was(text) /\ (\A p : Was(p)' <=> Was(p))
  BY <1>1, <1>3, WasNow DEF Was
<1>5. PageInv'
  BY <1>1, <1>2, <1>3, <1>4 DEF PageInv
<1> QED
  BY <1>1, <1>5, ReadUnchanged DEF ReadInv

LEMMA ReadStepOK == ReadInv /\ [ReadNext]_readVars => ReadInv'
<1> SUFFICES ASSUME ReadInv, [ReadNext]_readVars PROVE ReadInv'
  OBVIOUS
<1>1. ASSUME NEW payload \in Payloads, AppendText(payload) PROVE ReadInv'
  BY <1>1, AppendTextOK
<1>2. CASE AppendLineCount
  BY <1>2, AppendLineCountOK
<1>3. ASSUME NEW n \in Tails, OutputTail(n) PROVE ReadInv'
  BY <1>3, OutputTailOK
<1>4. CASE TailChunk
  BY <1>4, TailChunkOK
<1>5. CASE TailReturns
  BY <1>5, TailReturnsOK
<1>6. CASE OutputSearch
  BY <1>6, OutputSearchOK
<1>7. ASSUME NEW range \in Ranges, OutputReadRange(range[1], range[2]) PROVE ReadInv'
  BY <1>7, OutputReadRangeOK
<1>8. CASE UNCHANGED readVars
  BY <1>8, ReadUnchanged DEF readVars, ReadInv
<1> QED
  BY <1>1, <1>2, <1>3, <1>4, <1>5, <1>6, <1>7, <1>8 DEF ReadNext

(* Rows count what the log holds, but for the line that is being appended;     *)
(* tail() stays within the log, search() within the number of its lines.       *)
THEOREM ReadTypeCorrect == ReadSpec => []ReadTypeOK
<1>1. ReadInv => ReadTypeOK
  BY DEF ReadInv
<1> QED
  BY <1>1, ReadInitOK, ReadStepOK, PTL DEF ReadSpec

(* tail(), which reads backwards in pieces of any size while the log grows,    *)
(* returns the last n lines of the log as it was when the call began.          *)
THEOREM TailIsExact == ReadSpec => []TailIsLast
<1>1. ReadInv => TailIsLast
  BY DEF ReadInv, TailInv
<1> QED
  BY <1>1, ReadInitOK, ReadStepOK, PTL DEF ReadSpec

(* What search() has found, every later read_range() returns for its number.   *)
THEOREM FoundIsReadable == ReadSpec => []FoundStaysReadable
<1>1. ReadInv => FoundStaysReadable
  BY FoundFollows DEF ReadInv
<1> QED
  BY <1>1, ReadInitOK, ReadStepOK, PTL DEF ReadSpec

(* A range that was read is read again as it was, with new lines behind it.    *)
THEOREM PagesGrow == ReadSpec => []PagesOnlyGrow
<1>1. ReadInv => PagesOnlyGrow
  BY PageFollows DEF ReadInv
<1> QED
  BY <1>1, ReadInitOK, ReadStepOK, PTL DEF ReadSpec
================================================================================
