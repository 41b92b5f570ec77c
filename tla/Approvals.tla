------------------------------- MODULE Approvals -------------------------------
(***************************************************************************)
(* policy/approval.py: the approvals table of audit.sqlite and the calls   *)
(* that work on it.  Connections are in autocommit mode, so one SQL        *)
(* statement is one atomic step and every call is a SELECT, a reading of   *)
(* the clock and at most one UPDATE, with the statements of other threads, *)
(* of other server processes and of the operator in between.  A process    *)
(* may die between two statements.  The clock is time.time(), which the    *)
(* system may set forward or back.                                         *)
(***************************************************************************)
EXTENDS Integers

CONSTANTS Ids,      \* the approval ids that request() may draw
          Digests,  \* the action digests
          Tasks,    \* the threads that run a call, over all processes
          None,     \* no approval, no digest
          TTL,      \* ttl_ms
          MaxTime   \* bound on the clock

ASSUME ConstantsAssumption ==
    /\ None \notin Ids
    /\ None \notin Digests
    /\ TTL \in Nat \ {0}
    /\ MaxTime \in Nat

VARIABLES now,       \* the wall clock
          approvals, \* the rows of the approvals table
          op,        \* the call each task is in
          uses,      \* history: how often consume returned True for a row
          usedFor    \* history: the digest presented by the last such consume

vars == <<now, approvals, op, uses, usedFor>>

Null == -1   \* SQL NULL in a time column

Statuses == {"absent", "pending", "approved", "consumed", "expired"}

(* A row; "absent" stands for an id that is not in the table. *)
Row == [digest      : Digests \cup {None},
        status      : Statuses,
        expires_at  : Nat,
        approved_at : Nat \cup {Null},
        consumed_at : Nat \cup {Null}]

NoRow == [digest |-> None, status |-> "absent", expires_at |-> 0,
          approved_at |-> Null, consumed_at |-> Null]

Steps == {"idle", "consume_decide", "consume_mark", "consume_expire",
          "approve_decide", "approve_mark", "approve_expire",
          "sweep", "done"}

Results == {"none", "granted", "approved", "not_changed", "not_found",
            "expired", "digest_mismatch", "not_approved", "swept"}

Call == [step : Steps, id : Ids \cup {None}, digest : Digests \cup {None},
         seen : Row, at : Nat, result : Results]

Idle == [step |-> "idle", id |-> None, digest |-> None, seen |-> NoRow,
         at |-> 0, result |-> "none"]

TypeOK ==
    /\ now \in 0..MaxTime
    /\ approvals \in [Ids -> Row]
    /\ op \in [Tasks -> Call]
    /\ uses \in [Ids -> Nat]
    /\ usedFor \in [Ids -> Digests \cup {None}]

Init ==
    /\ now = 0
    /\ approvals = [i \in Ids |-> NoRow]
    /\ op = [t \in Tasks |-> Idle]
    /\ uses = [i \in Ids |-> 0]
    /\ usedFor = [i \in Ids |-> None]

--------------------------------------------------------------------------------
(* The call has decided what to do next, at the time it read. *)
Go(t, step) ==
    op' = [op EXCEPT ![t] = [@ EXCEPT !.step = step, !.seen = NoRow, !.at = now]]

(* The call returns or raises: what it read is gone, the result remains. *)
Finish(t, result) ==
    op' = [op EXCEPT ![t] = [Idle EXCEPT !.step = "done", !.id = op[t].id,
                                         !.digest = op[t].digest,
                                         !.result = result]]

(* The caller goes on with the result. *)
Return(t) ==
    /\ op[t].step = "done"
    /\ op' = [op EXCEPT ![t] = Idle]
    /\ UNCHANGED <<now, approvals, uses, usedFor>>

Due(row, time) == row.expires_at <= time

(* What the INSERT and the UPDATE statements write. *)
MutAsked(digest, time) == [NoRow EXCEPT !.digest = digest, !.status = "pending",
                                        !.expires_at = time - TTL]

Asked(digest, time) == [NoRow EXCEPT !.digest = digest, !.status = "pending",
                                     !.expires_at = time + TTL]
Granted(row, time) == [row EXCEPT !.status = "approved", !.approved_at = time]
Spent(row, time) == [row EXCEPT !.status = "consumed", !.consumed_at = time]
Voided(row) == [row EXCEPT !.status = "expired"]

(* request(): the id is a fresh uuid4.  A clock that moves between its     *)
(* reading and the INSERT is a clock that moves after the INSERT: no other *)
(* task knows the id yet.                                                  *)
Request(i, d) ==
    /\ approvals[i].status = "absent"
    /\ approvals' = [approvals EXCEPT ![i] = Asked(d, now)]
    /\ UNCHANGED <<now, op, uses, usedFor>>

--------------------------------------------------------------------------------
(* _get_row(): the SELECT that opens consume() and _transition_to_approved(). *)
GetRow(t, i, d, next) ==
    /\ op[t].step = "idle"
    /\ op' = [op EXCEPT ![t] =
                 IF approvals[i].status = "absent"
                 THEN [Idle EXCEPT !.step = "done", !.id = i, !.digest = d,
                                   !.result = "not_found"]
                 ELSE [Idle EXCEPT !.step = next, !.id = i, !.digest = d,
                                   !.seen = approvals[i]]]
    /\ UNCHANGED <<now, approvals, uses, usedFor>>

ConsumeSelect(t, i, d) == GetRow(t, i, d, "consume_decide")

MutConsumeVerdict(row, digest, time) ==      \* forgets the deadline
    IF row.digest # digest THEN "digest_mismatch"
    ELSE IF row.status # "approved" THEN "not_approved"
    ELSE "mark"

MutConsumeNoDigest(row, digest, time) ==     \* forgets the digest
    IF Due(row, time) THEN "expire"
    ELSE IF row.status # "approved" THEN "not_approved"
    ELSE "mark"

(* What consume() decides from the row it read and the clock. *)
ConsumeVerdict(row, digest, time) ==
    IF Due(row, time) THEN "expire"
    ELSE IF row.digest # digest THEN "digest_mismatch"
    ELSE IF row.status # "approved" THEN "not_approved"
    ELSE "mark"

ConsumeDecide(t) ==
    LET verdict == ConsumeVerdict(op[t].seen, op[t].digest, now) IN
    /\ op[t].step = "consume_decide"
    /\ CASE verdict = "expire" -> Go(t, "consume_expire")
         [] verdict = "mark" -> Go(t, "consume_mark")
         [] OTHER -> Finish(t, verdict)
    /\ UNCHANGED <<now, approvals, uses, usedFor>>

(* Whether an UPDATE ... WHERE status = 'approved' finds its row. *)
MutMarkable(row) == TRUE
Markable(row) == row.status = "approved"

(* The UPDATE that spends the approval, and the check of its rowcount. *)
ConsumeMark(t) ==
    LET i == op[t].id IN
    /\ op[t].step = "consume_mark"
    /\ \/ /\ Markable(approvals[i])
          /\ approvals' = [approvals EXCEPT ![i] = Spent(@, op[t].at)]
          /\ uses' = [uses EXCEPT ![i] = @ + 1]
          /\ usedFor' = [usedFor EXCEPT ![i] = op[t].digest]
          /\ Finish(t, "granted")
       \/ /\ ~Markable(approvals[i])
          /\ Finish(t, "not_approved")
          /\ UNCHANGED <<approvals, uses, usedFor>>
    /\ UNCHANGED now

MutVoidable(row) == row.status # "consumed"
Voidable(row) == row.status \in {"pending", "approved"}

ConsumeExpire(t) ==
    LET i == op[t].id IN
    /\ op[t].step = "consume_expire"
    /\ approvals' = [approvals EXCEPT ![i] = IF Voidable(@) THEN Voided(@) ELSE @]
    /\ Finish(t, "expired")
    /\ UNCHANGED <<now, uses, usedFor>>

--------------------------------------------------------------------------------
ApproveSelect(t, i) == GetRow(t, i, None, "approve_decide")

ApproveDecide(t) ==
    /\ op[t].step = "approve_decide"
    /\ IF Due(op[t].seen, now)
       THEN Go(t, "approve_expire")
       ELSE Go(t, "approve_mark")
    /\ UNCHANGED <<now, approvals, uses, usedFor>>

MutApprovable(row) == row.status \in {"pending", "expired"}
Approvable(row) == row.status = "pending"

(* approve() reports in its result whether the UPDATE found a pending row. *)
ApproveMark(t) ==
    LET i == op[t].id IN
    /\ op[t].step = "approve_mark"
    /\ \/ /\ Approvable(approvals[i])
          /\ approvals' = [approvals EXCEPT ![i] = Granted(@, op[t].at)]
          /\ Finish(t, "approved")
       \/ /\ ~Approvable(approvals[i])
          /\ Finish(t, "not_changed")
          /\ UNCHANGED approvals
    /\ UNCHANGED <<now, uses, usedFor>>

(* This UPDATE has no condition on the status. *)
ApproveExpire(t) ==
    /\ op[t].step = "approve_expire"
    /\ approvals' = [approvals EXCEPT ![op[t].id] = Voided(@)]
    /\ Finish(t, "expired")
    /\ UNCHANGED <<now, uses, usedFor>>

--------------------------------------------------------------------------------
(* expire_due(): the clock is read first, then one UPDATE takes every row  *)
(* that was due by that reading.                                           *)
SweepStart(t) ==
    /\ op[t].step = "idle"
    /\ Go(t, "sweep")
    /\ UNCHANGED <<now, approvals, uses, usedFor>>

SweepUpdate(t) ==
    /\ op[t].step = "sweep"
    /\ approvals' = [i \in Ids |->
                        IF Voidable(approvals[i]) /\ Due(approvals[i], op[t].at)
                        THEN Voided(approvals[i])
                        ELSE approvals[i]]
    /\ Finish(t, "swept")
    /\ UNCHANGED <<now, uses, usedFor>>

--------------------------------------------------------------------------------
(* The process that runs the call is killed: rows stay, the call is lost. *)
Crash(t) ==
    /\ op[t].step # "idle"
    /\ op' = [op EXCEPT ![t] = Idle]
    /\ UNCHANGED <<now, approvals, uses, usedFor>>

(* Time passes, or the clock is set. *)
SetClock ==
    /\ \E n \in 0..MaxTime : n # now /\ now' = n
    /\ UNCHANGED <<approvals, op, uses, usedFor>>

Step(t) ==
    \/ ConsumeDecide(t) \/ ConsumeMark(t) \/ ConsumeExpire(t)
    \/ ApproveDecide(t) \/ ApproveMark(t) \/ ApproveExpire(t)
    \/ SweepUpdate(t)

Next ==
    \/ \E i \in Ids, d \in Digests : Request(i, d)
    \/ \E t \in Tasks :
        \/ \E i \in Ids, d \in Digests : ConsumeSelect(t, i, d)
        \/ \E i \in Ids : ApproveSelect(t, i)
        \/ SweepStart(t)
        \/ Step(t)
        \/ Return(t)
        \/ Crash(t)
    \/ SetClock

Spec == Init /\ [][Next]_vars
--------------------------------------------------------------------------------
(* However many retries, processes and operators work on a row at once,    *)
(* consume() returns True for it at most once (lines 101-128).             *)
OneShot == \A i \in Ids : uses[i] <= 1

(* The action an approval was used for is the action that the operator saw *)
(* when it was requested (lines 68, 112).                                  *)
UsedAsApproved == \A i \in Ids : uses[i] > 0 => usedFor[i] = approvals[i].digest

(* A used approval was granted by approve(), and both the grant and the    *)
(* use read a clock that had not reached the deadline, whichever way the   *)
(* clock was set in between (lines 106, 151).                              *)
UsedInTime ==
    \A i \in Ids : uses[i] > 0 =>
        /\ approvals[i].approved_at \in 0..(approvals[i].expires_at - 1)
        /\ approvals[i].consumed_at \in 0..(approvals[i].expires_at - 1)

(* Once a row is expired, no late approve() and no clock that is set back  *)
(* revives it (lines 108, 135, 155).                                       *)
ExpiredIsFinal ==
    [][\A i \in Ids : approvals[i].status = "expired" =>
                      approvals'[i].status = "expired"]_vars

(* The table implements the one-shot contract.  A row that was used maps   *)
(* to "used" whatever its status column says later: ApproveExpire may      *)
(* overwrite it.                                                           *)
OneShotContract == INSTANCE OneShotApproval WITH
    phase <- [i \in Ids |-> IF uses[i] > 0 THEN "used" ELSE approvals[i].status],
    bound <- [i \in Ids |-> approvals[i].digest],
    usedFor <- usedFor

RefinesOneShot == OneShotContract!Spec

(* The status column keeps the fact that an approval was spent: what       *)
(* test_approval.py:63 asserts after a consume, and what approve()'s       *)
(* docstring (line 97) says, that it marks pending approvals.              *)
ConsumedIsFinal ==
    [][\A i \in Ids : approvals[i].status = "consumed" =>
                      approvals'[i].status = "consumed"]_vars
================================================================================
