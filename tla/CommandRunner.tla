----------------------------- MODULE CommandRunner -----------------------------
(***************************************************************************)
(* execution/runner.py: run() and _terminate_tree(), inside the slot that  *)
(* ConcurrencyGate hands out.  The child process, its descendants and the  *)
(* clock are the environment: a child may run for ever, ignore SIGTERM,    *)
(* write a line longer than the reader's limit, or leave a descendant      *)
(* behind that keeps the output pipes open.                                *)
(***************************************************************************)
EXTENDS ConcurrencyGate

VARIABLES body,      \* where each call is in the body of its slot
          child,     \* the process it spawned
          held,      \* a descendant of that process holds the output pipes
          pumps,     \* the two tasks that read the pipes
          timed_out, \* the local variable of run()
          result     \* what run() returned or raised

runVars == <<body, child, held, pumps, timed_out, result>>
vars == <<gateVars, runVars>>

Bodies == {"none", "waiting", "terminating", "grace", "draining", "over"}
Results == {"none", "rejected", "queue_timeout", "spawn_error", "line_too_long",
            "timed_out", "exited"}

TypeOK ==
    /\ GateTypeOK
    /\ body \in [Calls -> Bodies]
    /\ child \in [Calls -> {"none", "alive", "exited"}]
    /\ held \in [Calls -> BOOLEAN]
    /\ pumps \in [Calls -> {"none", "reading", "eof", "failed"}]
    /\ timed_out \in [Calls -> BOOLEAN]
    /\ result \in [Calls -> Results]

Init ==
    /\ GateInit
    /\ body = [c \in Calls |-> "none"]
    /\ child = [c \in Calls |-> "none"]
    /\ held = [c \in Calls |-> FALSE]
    /\ pumps = [c \in Calls |-> "none"]
    /\ timed_out = [c \in Calls |-> FALSE]
    /\ result = [c \in Calls |-> "none"]

Become(var, c, value) == [var EXCEPT ![c] = value]

--------------------------------------------------------------------------------
(* A call starts afresh: an empty argv, a timeout that is not positive or  *)
(* one that belongs to a managed process is refused before the gate.       *)
Reject(c) ==
    /\ pc[c] = "out" /\ result[c] = "none"
    /\ result' = Become(result, c, "rejected")
    /\ UNCHANGED <<gateVars, body, child, held, pumps, timed_out>>

Ask(c) == result[c] = "none" /\ Arrive(c) /\ UNCHANGED runVars

Wait(c) == (Acquire(c) \/ TimeOut(c)) /\ UNCHANGED runVars

Enter(c) == Admit(c) /\ UNCHANGED runVars

QueueTimeout(c) ==
    /\ GiveUp(c)
    /\ result' = Become(result, c, "queue_timeout")
    /\ UNCHANGED <<body, child, held, pumps, timed_out>>

(* create_subprocess_exec() raises when there is no such program. *)
Spawn(c) ==
    /\ pc[c] = "inside" /\ body[c] = "none"
    /\ \/ /\ body' = Become(body, c, "waiting")
          /\ child' = Become(child, c, "alive")
          /\ pumps' = Become(pumps, c, "reading")
          /\ UNCHANGED result
       \/ /\ body' = Become(body, c, "over")
          /\ result' = Become(result, c, "spawn_error")
          /\ UNCHANGED <<child, pumps>>
    /\ UNCHANGED <<gateVars, held, timed_out>>

(* process.wait() returns at the latest when the child has exited and the  *)
(* pipes are closed; some versions of asyncio return at the exit.          *)
WaitReturns(c) ==
    /\ body[c] = "waiting" /\ child[c] = "exited"
    /\ body' = Become(body, c, "draining")
    /\ UNCHANGED <<gateVars, child, held, pumps, timed_out, result>>

MutWaitTimesOut(c) ==      \* does not terminate the child
    /\ body[c] = "waiting"
    /\ timed_out' = Become(timed_out, c, TRUE)
    /\ body' = Become(body, c, "draining")
    /\ UNCHANGED <<gateVars, child, held, pumps, result>>

MutWaitForever(c) ==       \* waits for the child without a timeout
    /\ FALSE
    /\ UNCHANGED vars

(* _terminate_tree() returns at once when the child has exited. *)
WaitTimesOut(c) ==
    /\ body[c] = "waiting"
    /\ timed_out' = Become(timed_out, c, TRUE)
    /\ body' = Become(body, c, IF child[c] = "alive" THEN "terminating" ELSE "draining")
    /\ UNCHANGED <<gateVars, child, held, pumps, result>>

(* taskkill /T /F ends the descendants whose parents still run, SIGTERM    *)
(* reaches the child only, and a child may ignore it.                      *)
Terminate(c) ==
    /\ body[c] = "terminating"
    /\ body' = Become(body, c, "grace")
    /\ child' \in {child, Become(child, c, "exited")}
    /\ held' \in {held, Become(held, c, FALSE)}
    /\ UNCHANGED <<gateVars, pumps, timed_out, result>>

(* The child has exited within five seconds, or kill() ends it. *)
GraceEnds(c) ==
    /\ body[c] = "grace"
    /\ body' = Become(body, c, "draining")
    /\ child' = Become(child, c, "exited")
    /\ UNCHANGED <<gateVars, held, pumps, timed_out, result>>

Verdict(c) == IF pumps[c] = "failed" THEN "line_too_long"
              ELSE IF timed_out[c] THEN "timed_out" ELSE "exited"

MutDrained(c) ==           \* does not wait for the pumps
    /\ body[c] = "draining"
    /\ body' = Become(body, c, "over")
    /\ result' = Become(result, c, Verdict(c))
    /\ UNCHANGED <<gateVars, child, held, pumps, timed_out>>

(* The finally clause waits for both pumps and raises what one raised. *)
Drained(c) ==
    /\ body[c] = "draining" /\ pumps[c] \in {"eof", "failed"}
    /\ body' = Become(body, c, "over")
    /\ result' = Become(result, c, Verdict(c))
    /\ UNCHANGED <<gateVars, child, held, pumps, timed_out>>

Finish(c) ==
    /\ body[c] = "over"
    /\ Leave(c)
    /\ body' = Become(body, c, "none")
    /\ child' = Become(child, c, IF child[c] = "exited" THEN "none" ELSE child[c])
    /\ held' = Become(held, c, FALSE)
    /\ pumps' = Become(pumps, c, "none")
    /\ timed_out' = Become(timed_out, c, FALSE)
    /\ UNCHANGED result

Depart(c) == Release(c) /\ UNCHANGED runVars

(* The caller has its result and may call again. *)
Return(c) ==
    /\ pc[c] = "out" /\ result[c] # "none"
    /\ result' = Become(result, c, "none")
    /\ UNCHANGED <<gateVars, body, child, held, pumps, timed_out>>

--------------------------------------------------------------------------------
(* The environment: the child and its descendants. *)
Exit(c) ==
    /\ child[c] = "alive"
    /\ child' = Become(child, c, "exited")
    /\ UNCHANGED <<gateVars, body, held, pumps, timed_out, result>>

Inherit(c) ==
    /\ child[c] = "alive" /\ ~held[c]
    /\ held' = Become(held, c, TRUE)
    /\ UNCHANGED <<gateVars, body, child, pumps, timed_out, result>>

LetGo(c) ==
    /\ held[c]
    /\ held' = Become(held, c, FALSE)
    /\ UNCHANGED <<gateVars, body, child, pumps, timed_out, result>>

(* A pump reads a line beyond StreamReader's limit: readline() raises. *)
TooLong(c) ==
    /\ pumps[c] = "reading"
    /\ pumps' = Become(pumps, c, "failed")
    /\ UNCHANGED <<gateVars, body, child, held, timed_out, result>>

Eof(c) ==
    /\ pumps[c] = "reading" /\ child[c] = "exited" /\ ~held[c]
    /\ pumps' = Become(pumps, c, "eof")
    /\ UNCHANGED <<gateVars, body, child, held, timed_out, result>>

Environment(c) == Exit(c) \/ Inherit(c) \/ LetGo(c) \/ TooLong(c)

(* The steps of run() itself, which the event loop and the operating       *)
(* system take sooner or later.                                            *)
Runs(c) ==
    \/ Wait(c) \/ Enter(c) \/ QueueTimeout(c) \/ Spawn(c)
    \/ WaitReturns(c) \/ WaitTimesOut(c) \/ Terminate(c) \/ GraceEnds(c)
    \/ Drained(c) \/ Finish(c) \/ Depart(c)

Next == \E c \in Calls :
            Reject(c) \/ Ask(c) \/ Return(c) \/ Runs(c) \/ Eof(c) \/ Environment(c)

Fairness == \A c \in Calls : WF_vars(Runs(c)) /\ WF_vars(Eof(c))

Spec == Init /\ [][Next]_vars /\ Fairness
--------------------------------------------------------------------------------
(* At most MaxConcurrent children of the runner are alive (lines 43-46):   *)
(* a slot is given back only when its child has ended, also after a        *)
(* timeout, a child that ignores SIGTERM or a pump that fails.             *)
ChildrenBounded == Cardinality({c \in Calls : child[c] = "alive"}) <= MaxConcurrent

(* run() never returns "exited" or "timed_out" before the output is        *)
(* complete, nor leaves a live child behind (lines 59-69).                 *)
ResultComplete ==
    \A c \in Calls : body[c] = "over" =>
        /\ child[c] # "alive"
        /\ result[c] \in {"exited", "timed_out"} => pumps[c] = "eof"

(* A slot is never held up by anything but a descendant of its child: when *)
(* run() waits for its pumps, which it does without a timeout, the child   *)
(* has exited and the pumps read until the pipes are closed (lines 65-69). *)
WaitsForStraysOnly ==
    \A c \in Calls : body[c] = "draining" /\ pumps[c] \notin {"eof", "failed"} =>
        child[c] = "exited" /\ pumps[c] = "reading"

(* A queued call gets its slot or QueueTimeout, even when no slot is ever  *)
(* given back (lines 47-54).                                               *)
Answered == \A c \in Calls : (pc[c] = "queued") ~> (pc[c] \in {"inside", "out"})

(* REQ-EXEC-1 promises that a command that runs too long is terminated and *)
(* answered.  What the code keeps of it (lines 59-69): whatever the child  *)
(* does, ignore signals, hang or write lines that are too long, its call   *)
(* returns and gives its slot back, or it waits for ever, with the child   *)
(* ended, for a descendant that never lets go of the pipes.                *)
HeldUp(c) == body[c] = "draining" /\ child[c] = "exited" /\ held[c]

RunEndsUnlessHeld ==
    \A c \in Calls : (pc[c] = "inside") ~> (pc[c] = "out" \/ []HeldUp(c))
================================================================================
