--------------------------- MODULE ToolServiceProofs ---------------------------
(***************************************************************************)
(* What ToolService guarantees for any finite set of calls: the drain is   *)
(* exact, rows and replies agree, and handles lead to artifacts.           *)
(***************************************************************************)
EXTENDS ToolService, FiniteSetTheorems, TLAPS

Busy == {c \in Calls : pc[c] \in InProgress}

(* A server that has ended has no calls, one that runs has lost none. *)
CountInv ==
    /\ ActiveCounted
    /\ ~up => Busy = {}
    /\ up => \A c \in Calls : pc[c] # "lost"

(* The door is closed before the calls are counted, and only a server that *)
(* runs waits.                                                             *)
DrainInv ==
    /\ shutdown # "no" => ~accepting
    /\ shutdown \in {"testing", "waiting"} => up
    /\ DrainedIsQuiet

(* What a call carries to the end of its row: the handle that               *)
(* RecordFinish writes is the one in the envelope, and it resolves.         *)
CarryInv ==
    \A c \in Calls :
        /\ pc[c] \in {"idle", "admitted", "body"} => stored[c] = "none"
        /\ pc[c] \in {"idle", "admitted", "body", "persisting", "finishing"} =>
              reply[c] = "none"
        /\ stored[c] = "own" => envelope[c].handle = "own"
        /\ stored[c] = "none" /\ envelope[c].kind # "response" =>
              envelope[c].handle = "none"
        /\ envelope[c].handle = "own" => c \in artifacts

IInv == TypeOK /\ CountInv /\ DrainInv /\ CarryInv /\ RowMatchesReply /\ HandlesResolve

--------------------------------------------------------------------------------
LEMMA BusySizes ==
  /\ IsFiniteSet(Busy) /\ Cardinality(Busy) \in Nat
  /\ \A c \in Calls \ Busy : Cardinality(Busy \cup {c}) = Cardinality(Busy) + 1
  /\ \A c \in Busy : Cardinality(Busy \ {c}) = Cardinality(Busy) - 1
  /\ Cardinality(Busy) = 0 => Busy = {}
  /\ Cardinality(Busy) = 0 \/ Cardinality(Busy) > 0
<1>1. IsFiniteSet(Busy)
  BY CallsAssumption, FS_Subset DEF Busy
<1>2. Cardinality(Busy) \in Nat
  BY <1>1, FS_CardinalityType
<1> QED
  BY <1>1, <1>2, FS_AddElement, FS_RemoveElement, FS_EmptySet

LEMMA InitOK == Init => IInv
<1> SUFFICES ASSUME Init PROVE IInv
  OBVIOUS
<1>1. TypeOK
  BY DEF Init, TypeOK, Envelope, NoEnvelope, Kinds, Codes, Handles, InProgress
<1>2. Busy = {} /\ Cardinality(Busy) = 0
  BY FS_EmptySet DEF Init, Busy, InProgress
<1>3. CountInv
  BY <1>2 DEF Init, CountInv, ActiveCounted, Busy
<1>4. DrainInv
  BY DEF Init, DrainInv, DrainedIsQuiet
<1>5. CarryInv /\ RowMatchesReply /\ HandlesResolve
  BY DEF Init, CarryInv, RowMatchesReply, HandlesResolve, NoEnvelope
<1> QED
  BY <1>1, <1>3, <1>4, <1>5 DEF IInv

(* The next-state relation, action by action. *)
LEMMA Actions ==
  ASSUME [Next]_vars
  PROVE  \/ \E c \in Calls : \/ Invoke(c) \/ RunBody(c) \/ RecordStart(c) \/ Persist(c)
                             \/ RecordFinish(c) \/ Leave(c)
         \/ BeginShutdown \/ TestActive \/ Deadline \/ ServerEnds
         \/ UNCHANGED vars
  BY DEF Next, Answering, ShuttingDown

--------------------------------------------------------------------------------
(* A call in progress means that the server runs and counts it: Leave does *)
(* not take the count below zero.                                          *)
LEMMA LeaveCounts ==
  ASSUME IInv, NEW c \in Calls, pc[c] \in InProgress
  PROVE  up /\ active_calls = Cardinality(Busy) /\ active_calls > 0 /\ c \in Busy
<1>1. c \in Busy
  BY DEF Busy
<1>2. up
  BY <1>1 DEF IInv, CountInv
<1>3. active_calls = Cardinality(Busy)
  BY <1>2 DEF IInv, CountInv, ActiveCounted, Busy
<1> QED
  BY <1>1, <1>2, <1>3, BusySizes

(* What the three ways out of Persist change; the envelope only gets a     *)
(* handle.                                                                 *)
LEMMA Persisted ==
  ASSUME TypeOK, NEW c \in Calls, Persist(c)
  PROVE  \/ Raise(c, "persisting")
         \/ /\ Go(c, "persisting", "finishing")
            /\ UNCHANGED <<serverVars, envelope, stored, reply, artifacts, row, log_path>>
         \/ /\ Go(c, "persisting", "finishing")
            /\ artifacts' = artifacts \cup {c}
            /\ stored' = [stored EXCEPT ![c] = "own"]
            /\ \E e \in Envelope : /\ e.handle = "own"
                                   /\ envelope' = [envelope EXCEPT ![c] = e]
            /\ UNCHANGED <<serverVars, reply, row, log_path>>
<1> DEFINE e == [envelope[c] EXCEPT !.handle = "own"]
<1>1. e \in Envelope /\ e.handle = "own"
  BY DEF TypeOK, Envelope, Handles
<1>2. /\ envelope[c].big /\ Go(c, "persisting", "finishing")
      /\ envelope' = [envelope EXCEPT ![c] = [@ EXCEPT !.handle = "own"]]
      => envelope' = [envelope EXCEPT ![c] = e]
  OBVIOUS
<1> HIDE DEF e
<1> QED
  BY <1>1, <1>2, Zenon DEF Persist

LEMMA TypeStep == IInv /\ [Next]_vars => TypeOK'
<1> SUFFICES ASSUME IInv, [Next]_vars PROVE TypeOK'
  OBVIOUS
<1>t. TypeOK
  BY DEF IInv
<1> USE <1>t DEF TypeOK, InProgress
<1>1. ASSUME NEW c \in Calls, Invoke(c) PROVE TypeOK'
  BY <1>1 DEF Invoke, Go, Reply
<1>2. ASSUME NEW c \in Calls, RecordStart(c) PROVE TypeOK'
  BY <1>2 DEF RecordStart, Raise, Go, Reply, serverVars
<1>3. ASSUME NEW c \in Calls, RunBody(c) PROVE TypeOK'
  <2>1. Outcomes \subseteq Envelope
    BY DEF Outcomes, Envelope, Handles
  <2> QED
    BY <1>3, <2>1 DEF RunBody, Go, serverVars
<1>4. ASSUME NEW c \in Calls, Persist(c) PROVE TypeOK'
  BY <1>4, Persisted DEF Raise, Go, Reply, serverVars
<1>5. ASSUME NEW c \in Calls, RecordFinish(c) PROVE TypeOK'
  <2>1. Handle(c) \in Handles
    BY DEF Handle, Handles, Envelope
  <2>2. \A code : StatusFrom(code) \in {"success", "invalid_args", "failed"}
    BY DEF StatusFrom
  <2> QED
    BY <1>5, <2>1, <2>2 DEF RecordFinish, Raise, Go, Reply, serverVars
<1>6. ASSUME NEW c \in Calls, Leave(c) PROVE TypeOK'
  <2>1. active_calls > 0
    BY <1>6, LeaveCounts DEF Leave, Go
  <2> QED
    BY <1>6, <2>1 DEF Leave, Go
<1>7. ASSUME BeginShutdown \/ TestActive \/ Deadline \/ ServerEnds PROVE TypeOK'
  BY <1>7 DEF BeginShutdown, TestActive, Verdict, Deadline, ServerEnds, callVars
<1>8. ASSUME UNCHANGED vars PROVE TypeOK'
  BY <1>8 DEF vars, serverVars, callVars
<1> QED
  BY <1>1, <1>2, <1>3, <1>4, <1>5, <1>6, <1>7, <1>8, Actions

--------------------------------------------------------------------------------
(* A step of a call that goes on, on a server that stays as it is. *)
LEMMA GoingOn ==
  ASSUME IInv, NEW c \in Calls, NEW from \in InProgress, NEW to \in InProgress,
         Go(c, from, to), UNCHANGED serverVars
  PROVE  CountInv' /\ DrainInv'
<1>t. pc \in [Calls -> InProgress \cup {"idle", "done", "lost"}]
  BY DEF IInv, TypeOK
<1>1. \A d \in Calls : pc'[d] = IF d = c THEN to ELSE pc[d]
  BY <1>t DEF Go
<1>2. Busy' = Busy /\ c \in Busy
  BY <1>1 DEF Busy, Go
<1>3. up /\ active_calls = Cardinality(Busy)
  BY LeaveCounts DEF Go
<1>4. CountInv'
  <2>1. ActiveCounted'
    BY <1>2, <1>3 DEF ActiveCounted, Busy, serverVars
  <2>2. to # "lost"
    BY DEF InProgress
  <2> QED
    BY <1>1, <1>2, <1>3, <2>1, <2>2 DEF IInv, CountInv, serverVars
<1>5. shutdown # "drained"
  BY DEF IInv, DrainInv, DrainedIsQuiet, Go, InProgress
<1> QED
  BY <1>4, <1>5 DEF IInv, DrainInv, DrainedIsQuiet, serverVars

LEMMA CountStep == IInv /\ [Next]_vars => CountInv' /\ DrainInv'
<1> SUFFICES ASSUME IInv, [Next]_vars PROVE CountInv' /\ DrainInv'
  OBVIOUS
<1>t. TypeOK /\ CountInv /\ DrainInv
  BY DEF IInv
<1>p. pc \in [Calls -> InProgress \cup {"idle", "done", "lost"}] /\ active_calls \in Nat
  BY <1>t DEF TypeOK
<1>1. ASSUME NEW c \in Calls, Invoke(c), accepting PROVE CountInv' /\ DrainInv'
  <2>1. \A d \in Calls : pc'[d] = IF d = c THEN "admitted" ELSE pc[d]
    BY <1>1, <1>p DEF Invoke, Go
  <2>2. Busy' = Busy \cup {c} /\ c \notin Busy
    BY <1>1, <2>1 DEF Busy, Invoke, Go, InProgress
  <2>3. active_calls' = Cardinality(Busy)'
    <3>1. Cardinality(Busy') = Cardinality(Busy) + 1
      BY <2>2, BusySizes
    <3>2. active_calls = Cardinality(Busy)
      BY <1>1, <1>t DEF Invoke, CountInv, ActiveCounted, Busy
    <3> QED
      BY <1>1, <3>1, <3>2 DEF Invoke
  <2>4. CountInv'
    BY <1>1, <1>t, <2>1, <2>3 DEF Invoke, CountInv, ActiveCounted, Busy
  <2> QED
    BY <1>1, <1>t, <2>4 DEF Invoke, DrainInv, DrainedIsQuiet
<1>2. ASSUME NEW c \in Calls, Invoke(c), ~accepting PROVE CountInv' /\ DrainInv'
  <2>1. \A d \in Calls : pc'[d] = IF d = c THEN "done" ELSE pc[d]
    BY <1>2, <1>p DEF Invoke, Go
  <2>2. Busy' = Busy
    BY <1>2, <2>1 DEF Busy, Invoke, Go, InProgress
  <2>3. CountInv'
    BY <1>2, <1>t, <2>1, <2>2 DEF Invoke, CountInv, ActiveCounted, Busy
  <2> QED
    BY <1>2, <1>t, <2>1, <2>3 DEF Invoke, DrainInv, DrainedIsQuiet
<1>3. ASSUME NEW c \in Calls,
             RecordStart(c) \/ RunBody(c) \/ Persist(c) \/ RecordFinish(c)
      PROVE  CountInv' /\ DrainInv'
  <2>1. \E from, to \in InProgress : Go(c, from, to)
    BY <1>3, <1>t, Persisted DEF RecordStart, RunBody, RecordFinish, Raise, InProgress
  <2>2. UNCHANGED serverVars
    BY <1>3, <1>t, Persisted DEF RecordStart, RunBody, RecordFinish, Raise
  <2> QED
    BY <2>1, <2>2, GoingOn
<1>4. ASSUME NEW c \in Calls, Leave(c) PROVE CountInv' /\ DrainInv'
  <2>1. \A d \in Calls : pc'[d] = IF d = c THEN "done" ELSE pc[d]
    BY <1>4, <1>p DEF Leave, Go
  <2>2. Busy' = Busy \ {c} /\ c \in Busy
    BY <1>4, <2>1 DEF Busy, Leave, Go, InProgress
  <2>3. up /\ active_calls = Cardinality(Busy)
    BY <1>4, LeaveCounts DEF Leave, Go, InProgress
  <2>4. active_calls' = Cardinality(Busy')
    <3>1. Cardinality(Busy') = Cardinality(Busy) - 1
      BY <2>2, BusySizes
    <3> QED
      BY <1>4, <2>3, <3>1 DEF Leave
  <2>5. CountInv'
    BY <1>4, <1>t, <2>1, <2>3, <2>4 DEF Leave, CountInv, ActiveCounted, Busy
  <2> QED
    BY <1>4, <1>t, <2>1, <2>3, <2>5 DEF Leave, DrainInv, DrainedIsQuiet, Go
<1>5. ASSUME BeginShutdown \/ Deadline PROVE CountInv' /\ DrainInv'
  BY <1>5, <1>t DEF BeginShutdown, Deadline, callVars, CountInv, ActiveCounted, Busy,
                    DrainInv, DrainedIsQuiet
<1>6. ASSUME TestActive PROVE CountInv' /\ DrainInv'
  <2>1. CountInv'
    BY <1>6, <1>t DEF TestActive, callVars, CountInv, ActiveCounted, Busy
  <2>2. ASSUME shutdown' = "drained" PROVE \A c \in Calls : pc[c] \in {"idle", "done"}
    <3>1. up /\ active_calls = 0
      BY <1>6, <1>t, <2>2 DEF TestActive, Verdict, DrainInv
    <3>2. Busy = {}
      BY <1>t, <3>1, BusySizes DEF CountInv, ActiveCounted, Busy
    <3> QED
      BY <1>t, <1>p, <3>1, <3>2 DEF CountInv, Busy
  <2> QED
    BY <1>6, <1>t, <2>1, <2>2 DEF TestActive, Verdict, callVars, DrainInv, DrainedIsQuiet
<1>7. ASSUME ServerEnds PROVE CountInv' /\ DrainInv'
  <2>1. \A c \in Calls : pc'[c] \notin InProgress
    BY <1>7, <1>p DEF ServerEnds, InProgress
  <2>2. CountInv'
    BY <1>7, <2>1 DEF ServerEnds, CountInv, ActiveCounted, Busy
  <2> QED
    BY <1>7, <1>t, <2>2 DEF ServerEnds, DrainInv, DrainedIsQuiet, InProgress
<1>8. ASSUME UNCHANGED vars PROVE CountInv' /\ DrainInv'
  BY <1>8, <1>t DEF vars, serverVars, callVars, CountInv, ActiveCounted, Busy,
                    DrainInv, DrainedIsQuiet
<1> QED
  BY <1>1, <1>2, <1>3, <1>4, <1>5, <1>6, <1>7, <1>8, Actions

--------------------------------------------------------------------------------
(* Nobody but the call itself touches what it carries, its row and its     *)
(* reply.                                                                  *)
ReplyInv == CarryInv /\ RowMatchesReply /\ HandlesResolve

LEMMA ReplyStep == IInv /\ [Next]_vars => ReplyInv'
<1> SUFFICES ASSUME IInv, [Next]_vars PROVE ReplyInv'
  OBVIOUS
<1>t. TypeOK /\ CarryInv /\ RowMatchesReply /\ HandlesResolve
  BY DEF IInv
<1> USE <1>t DEF TypeOK, ReplyInv, CarryInv, RowMatchesReply, HandlesResolve
<1>1. ASSUME NEW c \in Calls, Invoke(c) PROVE ReplyInv'
  BY <1>1 DEF Invoke, Go, Reply
<1>2. ASSUME NEW c \in Calls, RecordStart(c) PROVE ReplyInv'
  BY <1>2 DEF RecordStart, Raise, Go, Reply, serverVars
<1>3. ASSUME NEW c \in Calls, RunBody(c) PROVE ReplyInv'
  <2>1. \A o \in Outcomes : /\ o.handle \in {"none", "tool"}
                            /\ o.kind # "response" => o.handle = "none"
    BY DEF Outcomes, Kinds
  <2> QED
    BY <1>3, <2>1 DEF RunBody, Go, serverVars
<1>4. ASSUME NEW c \in Calls, Persist(c) PROVE ReplyInv'
  BY <1>4, Persisted DEF Raise, Go, Reply, serverVars
<1>5. ASSUME NEW c \in Calls, RecordFinish(c) PROVE ReplyInv'
  <2>1. pc[c] = "finishing" => Handle(c) = envelope[c].handle
    BY DEF Handle
  <2> QED
    BY <1>5, <2>1 DEF RecordFinish, Raise, Go, Reply, StatusFrom, serverVars
<1>6. ASSUME NEW c \in Calls, Leave(c) PROVE ReplyInv'
  BY <1>6 DEF Leave, Go
<1>7. ASSUME BeginShutdown \/ TestActive \/ Deadline PROVE ReplyInv'
  BY <1>7 DEF BeginShutdown, TestActive, Deadline, callVars
<1>8. ASSUME ServerEnds PROVE ReplyInv'
  BY <1>8 DEF ServerEnds, InProgress
<1>9. ASSUME UNCHANGED vars PROVE ReplyInv'
  BY <1>9 DEF vars, serverVars, callVars
<1> QED
  BY <1>1, <1>2, <1>3, <1>4, <1>5, <1>6, <1>7, <1>8, <1>9, Actions

(* The invariant is inductive. *)
LEMMA Invariant == Spec => []IInv
<1>1. IInv /\ [Next]_vars => IInv'
  BY TypeStep, CountStep, ReplyStep DEF IInv, ReplyInv
<1> QED
  BY InitOK, <1>1, PTL DEF Spec

--------------------------------------------------------------------------------
(* The variables of the service keep their types; the count of the calls   *)
(* never goes below zero (lines 307-313).                                  *)
THEOREM ServiceTyped == Spec => []TypeOK
<1>1. IInv => TypeOK
  BY DEF IInv
<1> QED
  BY Invariant, <1>1, PTL

(* _active_calls is exact, however calls leave invoke(): any number of     *)
(* them, failing wherever they may (lines 289-313).                        *)
THEOREM CallsCounted == Spec => []ActiveCounted
<1>1. IInv => ActiveCounted
  BY DEF IInv, CountInv
<1> QED
  BY Invariant, <1>1, PTL

(* begin_shutdown() returns True only when nothing is in progress, and     *)
(* nothing starts afterwards (lines 315-325).                              *)
THEOREM DrainIsComplete == Spec => []DrainedIsQuiet
<1>1. IInv => DrainedIsQuiet
  BY DEF IInv, DrainInv
<1> QED
  BY Invariant, <1>1, PTL

(* The audit row agrees with the reply in status and in handle (lines      *)
(* 408-496).                                                               *)
THEOREM RowsAgree == Spec => []RowMatchesReply
<1>1. IInv => RowMatchesReply
  BY DEF IInv
<1> QED
  BY Invariant, <1>1, PTL

(* A handle in a row or in a reply leads to an artifact (lines 681-717).   *)
THEOREM HandlesLead == Spec => []HandlesResolve
<1>1. IInv => HandlesResolve
  BY DEF IInv
<1> QED
  BY Invariant, <1>1, PTL

(* begin_shutdown() gives up only while a call is in progress (lines       *)
(* 320-324).                                                               *)
THEOREM GivingUpIsHonest == Spec => GivesUpOnlyBusy
<1>1. ASSUME IInv, [Next]_vars, shutdown # "gave_up", shutdown' = "gave_up"
      PROVE  active_calls > 0
  <2>1. ASSUME TestActive PROVE active_calls > 0
    BY <1>1, <2>1 DEF TestActive, Verdict, IInv, TypeOK
  <2>2. ASSUME ~TestActive PROVE FALSE
    BY <1>1, <2>2, Actions, Persisted
       DEF IInv, Invoke, RunBody, RecordStart, RecordFinish, Leave, Raise,
           BeginShutdown, Deadline, ServerEnds, vars, serverVars
  <2> QED
    BY <2>1, <2>2
<1>2. IInv /\ [Next]_vars =>
        [shutdown # "gave_up" /\ shutdown' = "gave_up" => active_calls > 0]_vars
  BY <1>1
<1> QED
  BY Invariant, <1>2, PTL DEF Spec, GivesUpOnlyBusy
================================================================================
