------------------------------ MODULE ToolService ------------------------------
(***************************************************************************)
(* execution/service.py: ToolExecutionService.invoke(), through which every *)
(* tool call goes, and begin_shutdown(), with the calls table of           *)
(* persistence/audit.py and the artifacts that keep oversize replies.      *)
(* Calls run in threads of their own; begin_shutdown() runs in the main    *)
(* thread while calls are in progress, and the server exits when it        *)
(* returns.  Any write to the database or to the disk may fail.            *)
(***************************************************************************)
EXTENDS Integers, FiniteSets

CONSTANT Calls   \* the calls of invoke(), each with a fresh call_id

ASSUME CallsAssumption == IsFiniteSet(Calls)

VARIABLES up,           \* the server process runs
          accepting,    \* _accepting
          active_calls, \* _active_calls
          shutdown,     \* where begin_shutdown() is
          expired,      \* its deadline has passed
          pc,           \* where each call is
          envelope,     \* the response the call builds
          stored,       \* what _maybe_persist_artifact() returned
          artifacts,    \* the calls whose reply is in an artifact
          row,          \* status of the call's row in the calls table
          log_path,     \* log_path of that row
          reply         \* what the agent got

serverVars == <<up, accepting, active_calls, shutdown, expired>>
callVars == <<pc, envelope, stored, reply>>
vars == <<serverVars, callVars, artifacts, row, log_path>>

(* A handle: none, the artifact of this reply, or one from the tool body. *)
Handles == {"none", "own", "tool"}

(* What a tool body can come to: it returns a value or a ToolResponse, or  *)
(* raises a typed error (fail()) or anything else.  A response may carry a *)
(* handle, a typed error may not; the message of internal_error is capped. *)
Kinds == {"value", "response", "typed", "raised"}
Codes == {"ok", "invalid_args", "other"}

Outcomes ==
    {o \in [kind : Kinds, code : Codes, handle : {"none", "tool"}, big : BOOLEAN] :
        /\ o.kind = "value" => o.code = "ok" /\ o.handle = "none"
        /\ o.kind = "typed" => o.code # "ok" /\ o.handle = "none"
        /\ o.kind = "raised" => o.code = "other" /\ o.handle = "none" /\ ~o.big}

Envelope == [kind : Kinds \cup {"none"}, code : Codes, handle : Handles, big : BOOLEAN]
NoEnvelope == [kind |-> "none", code |-> "ok", handle |-> "none", big |-> FALSE]

InProgress == {"admitted", "body", "persisting", "finishing", "leaving"}

TypeOK ==
    /\ up \in BOOLEAN
    /\ accepting \in BOOLEAN
    /\ active_calls \in Nat
    /\ shutdown \in {"no", "testing", "waiting", "drained", "gave_up"}
    /\ expired \in BOOLEAN
    /\ pc \in [Calls -> InProgress \cup {"idle", "done", "lost"}]
    /\ envelope \in [Calls -> Envelope]
    /\ stored \in [Calls -> {"none", "own"}]
    /\ artifacts \in SUBSET Calls
    /\ row \in [Calls -> {"absent", "running", "success", "failed", "invalid_args"}]
    /\ log_path \in [Calls -> Handles]
    /\ reply \in [Calls -> {"none", "refused", "envelope", "exception"}]

Init ==
    /\ up = TRUE /\ accepting = TRUE /\ active_calls = 0
    /\ shutdown = "no" /\ expired = FALSE
    /\ pc = [c \in Calls |-> "idle"]
    /\ envelope = [c \in Calls |-> NoEnvelope]
    /\ stored = [c \in Calls |-> "none"]
    /\ artifacts = {}
    /\ row = [c \in Calls |-> "absent"]
    /\ log_path = [c \in Calls |-> "none"]
    /\ reply = [c \in Calls |-> "none"]

Go(c, from, to) ==
    /\ pc[c] = from
    /\ pc' = [pc EXCEPT ![c] = to]

Reply(c, what) == reply' = [reply EXCEPT ![c] = what]

--------------------------------------------------------------------------------
MutInvoke(c) ==           \* does not look at _accepting
    /\ up
    /\ Go(c, "idle", "admitted")
    /\ active_calls' = active_calls + 1
    /\ UNCHANGED <<up, accepting, shutdown, expired, envelope, stored, reply,
                   artifacts, row, log_path>>

MutUncounted(c) ==        \* the call runs without being counted
    /\ up /\ accepting
    /\ Go(c, "idle", "admitted")
    /\ UNCHANGED <<serverVars, envelope, stored, reply, artifacts, row, log_path>>

(* invoke(): under the lock, counted or refused without an audit row. *)
Invoke(c) ==
    /\ up
    /\ IF accepting
       THEN /\ Go(c, "idle", "admitted")
            /\ active_calls' = active_calls + 1
            /\ UNCHANGED reply
       ELSE /\ Go(c, "idle", "done")
            /\ Reply(c, "refused")
            /\ UNCHANGED active_calls
    /\ UNCHANGED <<up, accepting, shutdown, expired, envelope, stored, artifacts,
                   row, log_path>>

(* An exception that _invoke_core() does not catch. *)
Raise(c, from) ==
    /\ Go(c, from, "leaving")
    /\ Reply(c, "exception")
    /\ UNCHANGED <<serverVars, envelope, stored, artifacts, row, log_path>>

(* audit.record_start(). *)
RecordStart(c) ==
    \/ /\ Go(c, "admitted", "body")
       /\ row' = [row EXCEPT ![c] = "running"]
       /\ UNCHANGED <<serverVars, envelope, stored, reply, artifacts, log_path>>
    \/ Raise(c, "admitted")

(* registration.logic(args); an exception becomes internal_error, whose    *)
(* row is finished at once.                                                *)
RunBody(c) ==
    /\ \E o \in Outcomes :
          /\ envelope' = [envelope EXCEPT ![c] = o]
          /\ Go(c, "body", IF o.kind = "raised" THEN "finishing" ELSE "persisting")
    /\ UNCHANGED <<serverVars, stored, reply, artifacts, row, log_path>>

MutPersist(c) ==          \* the handle is out before the artifact is written
    /\ Go(c, "persisting", "finishing")
    /\ stored' = [stored EXCEPT ![c] = IF envelope[c].big THEN "own" ELSE "none"]
    /\ envelope' = [envelope EXCEPT ![c] =
                    IF @.big THEN [@ EXCEPT !.handle = "own"] ELSE @]
    /\ UNCHANGED <<serverVars, reply, artifacts, row, log_path>>

(* _maybe_persist_artifact(): artifacts.write() may raise. *)
Persist(c) ==
    \/ /\ ~envelope[c].big
       /\ Go(c, "persisting", "finishing")
       /\ UNCHANGED <<serverVars, envelope, stored, reply, artifacts, row, log_path>>
    \/ /\ envelope[c].big
       /\ Go(c, "persisting", "finishing")
       /\ artifacts' = artifacts \cup {c}
       /\ stored' = [stored EXCEPT ![c] = "own"]
       /\ envelope' = [envelope EXCEPT ![c] = [@ EXCEPT !.handle = "own"]]
       /\ UNCHANGED <<serverVars, reply, row, log_path>>
    \/ envelope[c].big /\ Raise(c, "persisting")

(* audit._status_from(). *)
StatusFrom(code) ==
    IF code = "ok" THEN "success"
    ELSE IF code = "invalid_args" THEN "invalid_args" ELSE "failed"

MutHandle(c) == stored[c]    \* the handle of the tool body is lost

(* "_maybe_persist_artifact(...) or output_handle", taken before meta is   *)
(* rewritten; the error branches have no second choice.                    *)
Handle(c) ==
    IF stored[c] # "none" \/ envelope[c].kind # "response"
    THEN stored[c] ELSE envelope[c].handle

(* audit.record_finish(), then the return. *)
RecordFinish(c) ==
    \/ /\ Go(c, "finishing", "leaving")
       /\ row' = [row EXCEPT ![c] = StatusFrom(envelope[c].code)]
       /\ log_path' = [log_path EXCEPT ![c] = Handle(c)]
       /\ Reply(c, "envelope")
       /\ UNCHANGED <<serverVars, envelope, stored, artifacts>>
    \/ Raise(c, "finishing")

MutLeave(c) ==            \* notifies, but the call stays counted
    /\ Go(c, "leaving", "done")
    /\ shutdown' = IF shutdown = "waiting" THEN "testing" ELSE shutdown
    /\ UNCHANGED <<up, accepting, active_calls, expired, envelope, stored, reply,
                   artifacts, row, log_path>>

(* The finally clause of invoke(): one call less, and notify_all(). *)
Leave(c) ==
    /\ Go(c, "leaving", "done")
    /\ active_calls' = active_calls - 1
    /\ shutdown' = IF shutdown = "waiting" THEN "testing" ELSE shutdown
    /\ UNCHANGED <<up, accepting, expired, envelope, stored, reply, artifacts, row,
                   log_path>>

--------------------------------------------------------------------------------
BeginShutdown ==
    /\ up /\ shutdown = "no"
    /\ accepting' = FALSE
    /\ shutdown' = "testing"
    /\ UNCHANGED <<up, active_calls, expired, callVars, artifacts, row, log_path>>

MutVerdict == IF expired THEN "gave_up"     \* the deadline is tested first
              ELSE IF active_calls = 0 THEN "drained" ELSE "waiting"

(* while self._active_calls: ... return False; return True *)
Verdict == IF active_calls = 0 THEN "drained"
           ELSE IF expired THEN "gave_up" ELSE "waiting"

TestActive ==
    /\ shutdown = "testing"
    /\ shutdown' = Verdict
    /\ UNCHANGED <<up, accepting, active_calls, expired, callVars, artifacts, row, log_path>>

MutDeadline ==            \* wait() without a timeout
    /\ FALSE
    /\ UNCHANGED vars

(* The grace period ends; wait(timeout) returns. *)
Deadline ==
    /\ shutdown \in {"testing", "waiting"} /\ ~expired
    /\ expired' = TRUE
    /\ shutdown' = "testing"
    /\ UNCHANGED <<up, accepting, active_calls, callVars, artifacts, row, log_path>>

(* The server exits once begin_shutdown() has returned, or it is killed:   *)
(* the calls in progress are gone, their rows stay as they are.            *)
ServerEnds ==
    /\ up
    /\ up' = FALSE
    /\ pc' = [c \in Calls |-> IF pc[c] \in InProgress THEN "lost" ELSE pc[c]]
    /\ shutdown' = IF shutdown \in {"testing", "waiting"} THEN "no" ELSE shutdown
    /\ UNCHANGED <<accepting, active_calls, expired, envelope, stored, reply, artifacts,
                   row, log_path>>

Answering(c) == RecordStart(c) \/ Persist(c) \/ RecordFinish(c) \/ Leave(c)

ShuttingDown == TestActive \/ Deadline

Next ==
    \/ \E c \in Calls : Invoke(c) \/ RunBody(c) \/ Answering(c)
    \/ BeginShutdown \/ ShuttingDown \/ ServerEnds

(* A tool body may run for ever; the service's own steps do not. *)
Fairness == WF_vars(ShuttingDown) /\ \A c \in Calls : WF_vars(Answering(c))

Spec == Init /\ [][Next]_vars /\ Fairness
--------------------------------------------------------------------------------
(* _active_calls is the number of calls in progress, whichever way they    *)
(* leave (lines 307-313): begin_shutdown() would wait for ever for a call  *)
(* that is counted and gone, or drop one that is not counted.              *)
ActiveCounted ==
    up => active_calls = Cardinality({c \in Calls : pc[c] \in InProgress})

(* Once begin_shutdown() has returned True no call is in progress, none    *)
(* starts any more, and none is cut off by the exit (lines 315-325).       *)
DrainedIsQuiet ==
    shutdown = "drained" => \A c \in Calls : pc[c] \in {"idle", "done"}

(* begin_shutdown() returns False only while a call is in progress, also   *)
(* when the last call ends right at the deadline (lines 320-324).          *)
GivesUpOnlyBusy ==
    [][shutdown # "gave_up" /\ shutdown' = "gave_up" => active_calls > 0]_vars

(* The audit row says what the agent was told: its status, and for a reply *)
(* with a handle the same handle, "so log_path and meta.output_handle      *)
(* agree" (lines 482-496, audit.py 224-229).                               *)
RowMatchesReply ==
    \A c \in Calls : reply[c] = "envelope" =>
        /\ row[c] \in {"success", "invalid_args", "failed"}
        /\ row[c] = "success" <=> envelope[c].code = "ok"
        /\ row[c] = "invalid_args" <=> envelope[c].code = "invalid_args"
        /\ log_path[c] = envelope[c].handle

(* No row and no reply names an artifact that does not exist, whatever     *)
(* fails between writing it and finishing the row (lines 681-717).         *)
HandlesResolve ==
    \A c \in Calls :
        /\ log_path[c] = "own" => c \in artifacts
        /\ reply[c] = "envelope" /\ envelope[c].handle = "own" => c \in artifacts

(* begin_shutdown() returns, even when a tool body never does.             *)
ShutdownEnds ==
    (shutdown = "testing") ~> (shutdown \in {"drained", "gave_up"} \/ ~up)

(* "Always writes both ``record_start`` and ``record_finish`` audit rows": *)
(* a call that is over has no row that says it is running.                 *)
RowFinished == \A c \in Calls : pc[c] = "done" => row[c] # "running"
================================================================================
