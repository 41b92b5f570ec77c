---------------------------- MODULE ConcurrencyGate ----------------------------
(***************************************************************************)
(* execution/concurrency.py: ConcurrencyGate.slot().  A thread semaphore   *)
(* hands out the slots; two counters, guarded by a lock, report who waits  *)
(* and who runs.  Every call runs slot() in an event loop of its own, and  *)
(* waits for the semaphore in a worker thread, so the steps of the calls   *)
(* interleave between the counters and the semaphore.                      *)
(***************************************************************************)
EXTENDS Integers, FiniteSets

CONSTANTS Calls,         \* the calls that may be in progress
          MaxConcurrent  \* max_concurrent

ASSUME GateAssumption ==
    /\ IsFiniteSet(Calls)
    /\ MaxConcurrent \in Nat \ {0}      \* else __init__ raises ValueError

VARIABLES pc,           \* where each call is in slot()
          permits,      \* the semaphore's value
          queue_depth,  \* _queue_depth
          active        \* _active

gateVars == <<pc, permits, queue_depth, active>>

(* "queued": in acquire().  "granted", "refused": acquire() has returned   *)
(* in the worker thread, the coroutine has not gone on yet.  "inside": the *)
(* body of the with statement.  "leaving": before the semaphore's release. *)
Places == {"out", "queued", "granted", "refused", "inside", "leaving"}

At(place) == {c \in Calls : pc[c] = place}

Waiting == At("queued")
InQueue == At("queued") \cup At("granted") \cup At("refused")
Holding == At("granted") \cup At("inside") \cup At("leaving")

GateTypeOK ==
    /\ pc \in [Calls -> Places]
    /\ permits \in 0..MaxConcurrent
    /\ queue_depth \in Nat
    /\ active \in Nat

GateInit ==
    /\ pc = [c \in Calls |-> "out"]
    /\ permits = MaxConcurrent
    /\ queue_depth = 0
    /\ active = 0

Move(c, from, to) ==
    /\ pc[c] = from
    /\ pc' = [pc EXCEPT ![c] = to]

Arrive(c) ==
    /\ Move(c, "out", "queued")
    /\ queue_depth' = queue_depth + 1
    /\ UNCHANGED <<permits, active>>

Acquire(c) ==
    /\ Move(c, "queued", "granted")
    /\ permits > 0
    /\ permits' = permits - 1
    /\ UNCHANGED <<queue_depth, active>>

MutTimeOut(c) ==      \* a timeout that is not checked against the semaphore
    /\ Move(c, "queued", "refused")
    /\ UNCHANGED <<permits, queue_depth, active>>

MutNoTimeOut(c) ==    \* waits for a permit without a deadline
    /\ FALSE
    /\ UNCHANGED gateVars

(* acquire() gives up at its deadline, unless it then finds a permit. *)
TimeOut(c) ==
    /\ Move(c, "queued", "refused")
    /\ permits = 0
    /\ UNCHANGED <<permits, queue_depth, active>>

MutAdmit(c) ==        \* the call stays in the queue's count
    /\ Move(c, "granted", "inside")
    /\ active' = active + 1
    /\ UNCHANGED <<permits, queue_depth>>

Admit(c) ==
    /\ Move(c, "granted", "inside")
    /\ queue_depth' = queue_depth - 1
    /\ active' = active + 1
    /\ UNCHANGED permits

(* The body ends, with a value or an exception: the finally clause. *)
Leave(c) ==
    /\ Move(c, "inside", "leaving")
    /\ active' = active - 1
    /\ UNCHANGED <<permits, queue_depth>>

Release(c) ==
    /\ Move(c, "leaving", "out")
    /\ permits' = permits + 1
    /\ UNCHANGED <<queue_depth, active>>

MutGiveUp(c) ==       \* releases a permit that was not acquired
    /\ Move(c, "refused", "out")
    /\ queue_depth' = queue_depth - 1
    /\ permits' = permits + 1
    /\ UNCHANGED active

(* QueueTimeout leaves slot(). *)
GiveUp(c) ==
    /\ Move(c, "refused", "out")
    /\ queue_depth' = queue_depth - 1
    /\ UNCHANGED <<permits, active>>

GateStep(c) ==
    \/ Arrive(c) \/ Acquire(c) \/ TimeOut(c) \/ Admit(c)
    \/ Leave(c) \/ Release(c) \/ GiveUp(c)

GateNext == \E c \in Calls : GateStep(c)

GateSpec == GateInit /\ [][GateNext]_gateVars
--------------------------------------------------------------------------------
(* The counters never drift from the calls they count, whatever the calls  *)
(* do between the lock and the semaphore, timeouts included (lines 43-66): *)
(* one increment without its decrement would report a queue for ever.      *)
Counted ==
    /\ permits = MaxConcurrent - Cardinality(Holding)
    /\ active = Cardinality(At("inside"))
    /\ queue_depth = Cardinality(InQueue)

(* The gate implements the slots: never more than MaxConcurrent holders,   *)
(* and QueueTimeout only when all of them are taken (lines 48-54).         *)
Slots == INSTANCE BoundedSlots WITH
    Callers <- Calls, Limit <- MaxConcurrent,
    waiting <- Waiting, holding <- Holding

RefinesSlots == Slots!Spec
================================================================================
