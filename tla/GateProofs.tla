------------------------------ MODULE GateProofs ------------------------------
(***************************************************************************)
(* What ConcurrencyGate and the runner inside it guarantee for any finite  *)
(* set of calls and any max_concurrent: the counters agree with the calls, *)
(* the gate implements BoundedSlots, and no more children are alive than   *)
(* there are slots.                                                        *)
(***************************************************************************)
EXTENDS CommandRunner, FiniteSetTheorems, TLAPS

GateIInv == GateTypeOK /\ Counted

--------------------------------------------------------------------------------
LEMMA GateSetsFinite ==
  /\ \A place : IsFiniteSet(At(place))
  /\ IsFiniteSet(Holding) /\ Cardinality(Holding) \in Nat
  /\ IsFiniteSet(InQueue) /\ Cardinality(InQueue) \in Nat
  /\ IsFiniteSet(At("inside")) /\ Cardinality(At("inside")) \in Nat
<1>1. \A S \in SUBSET Calls : IsFiniteSet(S) /\ Cardinality(S) \in Nat
  BY GateAssumption, FS_Subset, FS_CardinalityType
<1> QED
  BY <1>1 DEF At, Holding, InQueue

(* A call that moves is alone in moving. *)
LEMMA OnlyOneMoves ==
  ASSUME GateTypeOK, NEW c \in Calls, NEW from, NEW to \in Places, Move(c, from, to)
  PROVE  /\ pc' \in [Calls -> Places]
         /\ pc[c] = from
         /\ \A d \in Calls : pc'[d] = IF d = c THEN to ELSE pc[d]
  BY DEF GateTypeOK, Move

(* The sizes of the three sets that the gate counts, when one call joins   *)
(* or leaves them.                                                         *)
LEMMA Sizes ==
  /\ \A c : c \notin Holding =>
        Cardinality(Holding \cup {c}) = Cardinality(Holding) + 1
  /\ \A c : c \in Holding => Cardinality(Holding \ {c}) = Cardinality(Holding) - 1
  /\ \A c : c \notin InQueue =>
        Cardinality(InQueue \cup {c}) = Cardinality(InQueue) + 1
  /\ \A c : c \in InQueue => Cardinality(InQueue \ {c}) = Cardinality(InQueue) - 1
  /\ \A c : c \notin At("inside") =>
        Cardinality(At("inside") \cup {c}) = Cardinality(At("inside")) + 1
  /\ \A c : c \in At("inside") =>
        Cardinality(At("inside") \ {c}) = Cardinality(At("inside")) - 1
  BY GateSetsFinite, FS_AddElement, FS_RemoveElement

LEMMA GateInitOK == GateInit => GateIInv
<1> SUFFICES ASSUME GateInit PROVE GateIInv
  OBVIOUS
<1>1. Holding = {} /\ InQueue = {} /\ At("inside") = {}
  BY DEF GateInit, Holding, InQueue, At
<1> QED
  BY <1>1, FS_EmptySet, GateAssumption DEF GateInit, GateIInv, GateTypeOK, Counted, Places

LEMMA GateStepOK == GateIInv /\ [GateNext]_gateVars => GateIInv'
<1> SUFFICES ASSUME GateIInv, [GateNext]_gateVars PROVE GateIInv'
  OBVIOUS
<1> USE GateAssumption
<1>t. GateTypeOK /\ Counted
  BY DEF GateIInv
<1>f. /\ Cardinality(Holding) \in Nat
      /\ Cardinality(InQueue) \in Nat
      /\ Cardinality(At("inside")) \in Nat
  BY GateSetsFinite
<1>1. ASSUME NEW c \in Calls, Arrive(c) PROVE GateIInv'
  <2>1. /\ pc' \in [Calls -> Places] /\ pc[c] = "out"
        /\ \A d \in Calls : pc'[d] = IF d = c THEN "queued" ELSE pc[d]
    BY <1>1, <1>t, OnlyOneMoves DEF Arrive, Places
  <2>2. /\ Holding' = Holding /\ At("inside")' = At("inside")
        /\ InQueue' = InQueue \cup {c} /\ c \notin InQueue
    BY <2>1 DEF Holding, InQueue, At
  <2>3. Cardinality(InQueue)' = Cardinality(InQueue) + 1
    BY <2>2, Sizes
  <2> QED
    BY <1>1, <1>t, <1>f, <2>1, <2>2, <2>3 DEF Arrive, GateIInv, GateTypeOK, Counted
<1>2. ASSUME NEW c \in Calls, Acquire(c) PROVE GateIInv'
  <2>1. /\ pc' \in [Calls -> Places] /\ pc[c] = "queued"
        /\ \A d \in Calls : pc'[d] = IF d = c THEN "granted" ELSE pc[d]
    BY <1>2, <1>t, OnlyOneMoves DEF Acquire, Places
  <2>2. /\ Holding' = Holding \cup {c} /\ c \notin Holding
        /\ At("inside")' = At("inside") /\ InQueue' = InQueue
    BY <2>1 DEF Holding, InQueue, At
  <2>3. Cardinality(Holding)' = Cardinality(Holding) + 1
    BY <2>2, Sizes
  <2> QED
    BY <1>2, <1>t, <1>f, <2>1, <2>2, <2>3 DEF Acquire, GateIInv, GateTypeOK, Counted
<1>3. ASSUME NEW c \in Calls, TimeOut(c) PROVE GateIInv'
  <2>1. /\ pc' \in [Calls -> Places] /\ pc[c] = "queued"
        /\ \A d \in Calls : pc'[d] = IF d = c THEN "refused" ELSE pc[d]
    BY <1>3, <1>t, OnlyOneMoves DEF TimeOut, Places
  <2>2. Holding' = Holding /\ At("inside")' = At("inside") /\ InQueue' = InQueue
    BY <2>1 DEF Holding, InQueue, At
  <2> QED
    BY <1>3, <1>t, <2>1, <2>2 DEF TimeOut, GateIInv, GateTypeOK, Counted
<1>4. ASSUME NEW c \in Calls, Admit(c) PROVE GateIInv'
  <2>1. /\ pc' \in [Calls -> Places] /\ pc[c] = "granted"
        /\ \A d \in Calls : pc'[d] = IF d = c THEN "inside" ELSE pc[d]
    BY <1>4, <1>t, OnlyOneMoves DEF Admit, Places
  <2>2. /\ Holding' = Holding
        /\ At("inside")' = At("inside") \cup {c} /\ c \notin At("inside")
        /\ InQueue' = InQueue \ {c} /\ c \in InQueue
    BY <2>1 DEF Holding, InQueue, At
  <2>3. /\ Cardinality(InQueue)' = Cardinality(InQueue) - 1
        /\ Cardinality(At("inside"))' = Cardinality(At("inside")) + 1
        /\ Cardinality(InQueue)' \in Nat
    BY <2>2, Sizes, GateSetsFinite, FS_RemoveElement, FS_CardinalityType
  <2> QED
    BY <1>4, <1>t, <1>f, <2>1, <2>2, <2>3 DEF Admit, GateIInv, GateTypeOK, Counted
<1>5. ASSUME NEW c \in Calls, Leave(c) PROVE GateIInv'
  <2>1. /\ pc' \in [Calls -> Places] /\ pc[c] = "inside"
        /\ \A d \in Calls : pc'[d] = IF d = c THEN "leaving" ELSE pc[d]
    BY <1>5, <1>t, OnlyOneMoves DEF Leave, Places
  <2>2. /\ Holding' = Holding /\ InQueue' = InQueue
        /\ At("inside")' = At("inside") \ {c} /\ c \in At("inside")
    BY <2>1 DEF Holding, InQueue, At
  <2>3. /\ Cardinality(At("inside"))' = Cardinality(At("inside")) - 1
        /\ Cardinality(At("inside"))' \in Nat
    BY <2>2, Sizes, GateSetsFinite, FS_RemoveElement, FS_CardinalityType
  <2> QED
    BY <1>5, <1>t, <1>f, <2>1, <2>2, <2>3 DEF Leave, GateIInv, GateTypeOK, Counted
<1>6. ASSUME NEW c \in Calls, Release(c) PROVE GateIInv'
  <2>1. /\ pc' \in [Calls -> Places] /\ pc[c] = "leaving"
        /\ \A d \in Calls : pc'[d] = IF d = c THEN "out" ELSE pc[d]
    BY <1>6, <1>t, OnlyOneMoves DEF Release, Places
  <2>2. /\ Holding' = Holding \ {c} /\ c \in Holding
        /\ InQueue' = InQueue /\ At("inside")' = At("inside")
    BY <2>1 DEF Holding, InQueue, At
  <2>3. /\ Cardinality(Holding)' = Cardinality(Holding) - 1
        /\ Cardinality(Holding)' \in Nat
    BY <2>2, Sizes, GateSetsFinite, FS_RemoveElement, FS_CardinalityType
  <2> QED
    BY <1>6, <1>t, <1>f, <2>1, <2>2, <2>3 DEF Release, GateIInv, GateTypeOK, Counted
<1>7. ASSUME NEW c \in Calls, GiveUp(c) PROVE GateIInv'
  <2>1. /\ pc' \in [Calls -> Places] /\ pc[c] = "refused"
        /\ \A d \in Calls : pc'[d] = IF d = c THEN "out" ELSE pc[d]
    BY <1>7, <1>t, OnlyOneMoves DEF GiveUp, Places
  <2>2. /\ Holding' = Holding /\ At("inside")' = At("inside")
        /\ InQueue' = InQueue \ {c} /\ c \in InQueue
    BY <2>1 DEF Holding, InQueue, At
  <2>3. /\ Cardinality(InQueue)' = Cardinality(InQueue) - 1
        /\ Cardinality(InQueue)' \in Nat
    BY <2>2, Sizes, GateSetsFinite, FS_RemoveElement, FS_CardinalityType
  <2> QED
    BY <1>7, <1>t, <1>f, <2>1, <2>2, <2>3 DEF GiveUp, GateIInv, GateTypeOK, Counted
<1>8. ASSUME UNCHANGED gateVars PROVE GateIInv'
  BY <1>8, <1>t DEF gateVars, GateIInv, GateTypeOK, Counted, Holding, InQueue, At
<1> QED
  BY <1>1, <1>2, <1>3, <1>4, <1>5, <1>6, <1>7, <1>8 DEF GateNext, GateStep

LEMMA AlwaysGateIInv == GateSpec => []GateIInv
  BY GateInitOK, GateStepOK, PTL DEF GateSpec

(* The two counters and the semaphore agree with what the calls do, after  *)
(* any interleaving of arrivals, timeouts and returns.                     *)
THEOREM GateCounts == GateSpec => []Counted
<1>1. GateIInv => Counted
  BY DEF GateIInv
<1> QED
  BY <1>1, AlwaysGateIInv, PTL

--------------------------------------------------------------------------------
(* The instance has a copy of Cardinality of its own. *)
LEMMA SameCardinality == Slots!Cardinality(Holding) = Cardinality(Holding)
  BY DEF Slots!Cardinality, Cardinality

LEMMA GateStepRefines == GateIInv /\ [GateNext]_gateVars => [Slots!Next]_(Slots!vars)
<1> SUFFICES ASSUME GateIInv, [GateNext]_gateVars
             PROVE  Slots!Next \/ UNCHANGED Slots!vars
  OBVIOUS
<1>t. GateTypeOK /\ Counted
  BY DEF GateIInv
<1>f. Cardinality(Holding) \in Nat /\ MaxConcurrent \in Nat
  BY GateSetsFinite, GateAssumption
<1>1. ASSUME NEW c \in Calls, Arrive(c) PROVE Slots!Next
  <2>1. /\ pc[c] = "out"
        /\ \A d \in Calls : pc'[d] = IF d = c THEN "queued" ELSE pc[d]
    BY <1>1, <1>t, OnlyOneMoves DEF Arrive, Places
  <2>2. /\ c \notin Waiting \cup Holding
        /\ Waiting' = Waiting \cup {c} /\ Holding' = Holding
    BY <2>1 DEF Waiting, Holding, At
  <2>3. Slots!Join(c)
    BY <2>2 DEF Slots!Join
  <2> QED
    BY <2>3 DEF Slots!Next
<1>2. ASSUME NEW c \in Calls, Acquire(c) PROVE Slots!Next
  <2>1. /\ pc[c] = "queued"
        /\ \A d \in Calls : pc'[d] = IF d = c THEN "granted" ELSE pc[d]
    BY <1>2, <1>t, OnlyOneMoves DEF Acquire, Places
  <2>2. /\ c \in Waiting
        /\ Waiting' = Waiting \ {c} /\ Holding' = Holding \cup {c}
    BY <2>1 DEF Waiting, Holding, At
  <2>3. Cardinality(Holding) < MaxConcurrent
    <3>1. permits > 0 /\ permits \in Int
      BY <1>2, <1>t, GateAssumption DEF Acquire, GateTypeOK
    <3>2. permits = MaxConcurrent - Cardinality(Holding)
      BY <1>t DEF Counted
    <3> QED
      BY <3>1, <3>2, <1>f
  <2>4. Slots!Take(c)
    BY <2>2, <2>3, SameCardinality DEF Slots!Take
  <2> QED
    BY <2>4 DEF Slots!Next
<1>3. ASSUME NEW c \in Calls, TimeOut(c) PROVE Slots!Next
  <2>1. /\ pc[c] = "queued"
        /\ \A d \in Calls : pc'[d] = IF d = c THEN "refused" ELSE pc[d]
    BY <1>3, <1>t, OnlyOneMoves DEF TimeOut, Places
  <2>2. /\ c \in Waiting
        /\ Waiting' = Waiting \ {c} /\ Holding' = Holding
    BY <2>1 DEF Waiting, Holding, At
  <2>3. Cardinality(Holding) = MaxConcurrent
    <3>1. permits = 0
      BY <1>3 DEF TimeOut
    <3>2. permits = MaxConcurrent - Cardinality(Holding)
      BY <1>t DEF Counted
    <3> QED
      BY <3>1, <3>2, <1>f
  <2>4. Slots!TurnAway(c)
    BY <2>2, <2>3, SameCardinality DEF Slots!TurnAway
  <2> QED
    BY <2>4 DEF Slots!Next
<1>4. ASSUME NEW c \in Calls, Release(c) PROVE Slots!Next
  <2>1. /\ pc[c] = "leaving"
        /\ \A d \in Calls : pc'[d] = IF d = c THEN "out" ELSE pc[d]
    BY <1>4, <1>t, OnlyOneMoves DEF Release, Places
  <2>2. /\ c \in Holding
        /\ Waiting' = Waiting /\ Holding' = Holding \ {c}
    BY <2>1 DEF Waiting, Holding, At
  <2>3. Slots!GiveBack(c)
    BY <2>2 DEF Slots!GiveBack
  <2> QED
    BY <2>3 DEF Slots!Next
<1>5. ASSUME NEW c \in Calls, Admit(c) \/ Leave(c) \/ GiveUp(c)
      PROVE  UNCHANGED Slots!vars
  <2>1. CASE Admit(c)
    <3>1. \A d \in Calls : pc'[d] = IF d = c THEN "inside" ELSE pc[d]
      BY <2>1, <1>t, OnlyOneMoves DEF Admit, Places
    <3> QED
      BY <2>1, <3>1 DEF Slots!vars, Waiting, Holding, At, Admit, Move
  <2>2. CASE Leave(c)
    <3>1. \A d \in Calls : pc'[d] = IF d = c THEN "leaving" ELSE pc[d]
      BY <2>2, <1>t, OnlyOneMoves DEF Leave, Places
    <3> QED
      BY <2>2, <3>1 DEF Slots!vars, Waiting, Holding, At, Leave, Move
  <2>3. CASE GiveUp(c)
    <3>1. \A d \in Calls : pc'[d] = IF d = c THEN "out" ELSE pc[d]
      BY <2>3, <1>t, OnlyOneMoves DEF GiveUp, Places
    <3> QED
      BY <2>3, <3>1 DEF Slots!vars, Waiting, Holding, At, GiveUp, Move
  <2> QED
    BY <1>5, <2>1, <2>2, <2>3
<1>6. ASSUME UNCHANGED gateVars PROVE UNCHANGED Slots!vars
  BY <1>6 DEF gateVars, Slots!vars, Waiting, Holding, At
<1> QED
  BY <1>1, <1>2, <1>3, <1>4, <1>5, <1>6 DEF GateNext, GateStep

(* The semaphore and the counters implement the slots: at most             *)
(* MaxConcurrent holders, and nobody is turned away while a slot is free.  *)
THEOREM GateImplementsSlots == GateSpec => RefinesSlots
<1>1. GateInit => Slots!Init
  BY DEF GateInit, Slots!Init, Waiting, Holding, At
<1> QED
  BY <1>1, GateStepRefines, AlwaysGateIInv, PTL DEF GateSpec, RefinesSlots, Slots!Spec

--------------------------------------------------------------------------------
(* The runner takes every step of the gate whole: what holds of the gate   *)
(* holds of the runner.                                                    *)
LEMMA RunnerUsesGate == Spec => GateSpec
<1>1. Init => GateInit
  BY DEF Init
<1>2. [Next]_vars => [GateNext]_gateVars
  BY DEF Next, vars, gateVars, GateNext, GateStep, Reject, Ask, Return, Runs, Wait,
         Enter, QueueTimeout, Spawn, WaitReturns, WaitTimesOut, Terminate, GraceEnds,
         Drained, Finish, Depart, Eof, Environment, Exit, Inherit, LetGo, TooLong
<1> QED
  BY <1>1, <1>2, PTL DEF Spec, GateSpec

(* A child is alive only while its call is in its slot and waits for it;   *)
(* until the call is over, it has a child and pumps.                       *)
ChildInSlot ==
    \A c \in Calls :
        /\ body[c] # "none" => pc[c] = "inside"
        /\ child[c] = "alive" => body[c] \in {"waiting", "terminating", "grace"}
        /\ body[c] \in {"waiting", "terminating", "grace", "draining"} =>
              child[c] # "none" /\ pumps[c] # "none"

RunIInv == TypeOK /\ ChildInSlot /\ ResultComplete

LEMMA RunInitOK == Init => RunIInv
  BY GateInitOK DEF Init, RunIInv, GateIInv, TypeOK, Bodies, Results, ChildInSlot,
                    ResultComplete

LEMMA RunTypeStep == RunIInv /\ GateTypeOK' /\ [Next]_vars => TypeOK'
<1> SUFFICES ASSUME TypeOK, GateTypeOK', [Next]_vars PROVE TypeOK'
  BY DEF RunIInv
<1> USE DEF TypeOK, Become, Bodies, Results
<1>1. ASSUME NEW c \in Calls, Reject(c) \/ Ask(c) \/ Return(c) PROVE TypeOK'
  BY <1>1 DEF Reject, Ask, Return, runVars
<1>2. ASSUME NEW c \in Calls, Wait(c) \/ Enter(c) \/ QueueTimeout(c) \/ Depart(c)
      PROVE TypeOK'
  BY <1>2 DEF Wait, Enter, QueueTimeout, Depart, runVars
<1>3. ASSUME NEW c \in Calls, Spawn(c) PROVE TypeOK'
  BY <1>3 DEF Spawn
<1>4. ASSUME NEW c \in Calls, WaitReturns(c) \/ WaitTimesOut(c) PROVE TypeOK'
  BY <1>4 DEF WaitReturns, WaitTimesOut
<1>5. ASSUME NEW c \in Calls, Terminate(c) \/ GraceEnds(c) PROVE TypeOK'
  BY <1>5 DEF Terminate, GraceEnds
<1>6. ASSUME NEW c \in Calls, Drained(c) \/ Eof(c) PROVE TypeOK'
  BY <1>6 DEF Drained, Verdict, Eof
<1>7. ASSUME NEW c \in Calls, Finish(c) PROVE TypeOK'
  BY <1>7 DEF Finish
<1>8. ASSUME NEW c \in Calls, Environment(c) PROVE TypeOK'
  BY <1>8 DEF Environment, Exit, Inherit, LetGo, TooLong
<1>9. ASSUME UNCHANGED vars PROVE TypeOK'
  BY <1>9 DEF vars, runVars
<1> QED
  BY <1>1, <1>2, <1>3, <1>4, <1>5, <1>6, <1>7, <1>8, <1>9 DEF Next, Runs

LEMMA RunStep == RunIInv /\ GateTypeOK' /\ [Next]_vars => RunIInv'
<1> SUFFICES ASSUME RunIInv, GateTypeOK', [Next]_vars
             PROVE  ChildInSlot' /\ ResultComplete'
  BY RunTypeStep DEF RunIInv
<1> USE DEF RunIInv, TypeOK, Become, ChildInSlot, ResultComplete
<1>1. ASSUME NEW c \in Calls, Reject(c) \/ Return(c)
      PROVE  ChildInSlot' /\ ResultComplete'
  BY <1>1 DEF Reject, Return, gateVars
<1>2. ASSUME NEW c \in Calls, Ask(c) \/ Wait(c) \/ Enter(c) \/ Depart(c)
      PROVE  ChildInSlot' /\ ResultComplete'
  <2>1. PICK from \in Places \ {"inside"}, to \in Places : Move(c, from, to)
    BY <1>2 DEF Ask, Wait, Enter, Depart, Arrive, Acquire, TimeOut, Admit, Release,
                Places
  <2>2. UNCHANGED runVars
    BY <1>2 DEF Ask, Wait, Enter, Depart
  <2> QED
    BY <2>1, <2>2 DEF runVars, Move, GateTypeOK
<1>3. ASSUME NEW c \in Calls, QueueTimeout(c)
      PROVE  ChildInSlot' /\ ResultComplete'
  BY <1>3 DEF QueueTimeout, GiveUp, Move, GateTypeOK
<1>4. ASSUME NEW c \in Calls, Spawn(c) PROVE ChildInSlot' /\ ResultComplete'
  BY <1>4 DEF Spawn, gateVars
<1>5. ASSUME NEW c \in Calls, WaitReturns(c) \/ WaitTimesOut(c)
      PROVE  ChildInSlot' /\ ResultComplete'
  BY <1>5 DEF WaitReturns, WaitTimesOut, gateVars
<1>6. ASSUME NEW c \in Calls, Terminate(c) \/ GraceEnds(c)
      PROVE  ChildInSlot' /\ ResultComplete'
  BY <1>6 DEF Terminate, GraceEnds, gateVars
<1>7. ASSUME NEW c \in Calls, Drained(c) PROVE ChildInSlot' /\ ResultComplete'
  BY <1>7 DEF Drained, Verdict, gateVars
<1>8. ASSUME NEW c \in Calls, Finish(c) PROVE ChildInSlot' /\ ResultComplete'
  BY <1>8 DEF Finish, Leave, Move, GateTypeOK
<1>9. ASSUME NEW c \in Calls, Environment(c) \/ Eof(c)
      PROVE  ChildInSlot' /\ ResultComplete'
  BY <1>9 DEF Environment, Exit, Inherit, LetGo, TooLong, Eof, gateVars
<1>10. ASSUME UNCHANGED vars PROVE ChildInSlot' /\ ResultComplete'
  BY <1>10 DEF vars, runVars, gateVars
<1> QED
  BY <1>1, <1>2, <1>3, <1>4, <1>5, <1>6, <1>7, <1>8, <1>9, <1>10 DEF Next, Runs

LEMMA AlwaysRunIInv == Spec => [](RunIInv /\ GateIInv)
<1>1. GateIInv => GateTypeOK
  BY DEF GateIInv
<1>2. Spec => []GateIInv
  BY RunnerUsesGate, AlwaysGateIInv, PTL
<1> QED
  BY <1>1, <1>2, RunInitOK, RunStep, PTL DEF Spec

(* The state of the runner always has its type. *)
THEOREM RunnerTyped == Spec => []TypeOK
<1>1. RunIInv => TypeOK
  BY DEF RunIInv
<1> QED
  BY <1>1, AlwaysRunIInv, PTL

(* A result is complete when run() returns it, and no child outlives it.   *)
THEOREM ResultsComplete == Spec => []ResultComplete
<1>1. RunIInv => ResultComplete
  BY DEF RunIInv
<1> QED
  BY <1>1, AlwaysRunIInv, PTL

(* Once run() waits for its pumps, only a descendant that holds the pipes  *)
(* keeps the call from its end: the safety half of RunEndsUnlessHeld.      *)
THEOREM OnlyStraysHoldUp == Spec => []WaitsForStraysOnly
<1>1. RunIInv => WaitsForStraysOnly
  BY DEF RunIInv, TypeOK, ChildInSlot, WaitsForStraysOnly
<1> QED
  BY <1>1, AlwaysRunIInv, PTL

(* However many calls there are, never more children are alive than        *)
(* max_concurrent.                                                         *)
THEOREM BoundedChildren == Spec => []ChildrenBounded
<1>1. ASSUME RunIInv, GateIInv PROVE ChildrenBounded
  <2>1. {c \in Calls : child[c] = "alive"} \in SUBSET Holding
    BY <1>1 DEF RunIInv, ChildInSlot, Holding, At
  <2>2. Cardinality({c \in Calls : child[c] = "alive"}) <= Cardinality(Holding)
    BY <2>1, GateSetsFinite, FS_Subset
  <2>3. Cardinality({c \in Calls : child[c] = "alive"}) \in Nat
    BY <2>1, GateSetsFinite, FS_Subset, FS_CardinalityType
  <2>4. Cardinality(Holding) <= MaxConcurrent /\ Cardinality(Holding) \in Nat
    BY <1>1, GateSetsFinite, GateAssumption DEF GateIInv, GateTypeOK, Counted
  <2> QED
    BY <2>2, <2>3, <2>4, GateAssumption DEF ChildrenBounded
<1> QED
  BY <1>1, AlwaysRunIInv, PTL
================================================================================
