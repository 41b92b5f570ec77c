---------------------------- MODULE ApprovalsProofs ----------------------------
(***************************************************************************)
(* What Approvals guarantees for any number of ids, tasks and digests and  *)
(* any clock: type correctness, one use per approval, for the approved     *)
(* action and before the deadline, and that it implements OneShotApproval. *)
(***************************************************************************)
EXTENDS Approvals, TLAPS

(* A row that is absent is blank, and a used row was consumed or had its   *)
(* status overwritten since; only used rows are "consumed".                *)
RowInv(i) ==
    /\ approvals[i].status = "absent" => approvals[i] = NoRow /\ uses[i] = 0
    /\ approvals[i].status # "absent" => approvals[i].digest \in Digests
    /\ approvals[i].status = "consumed" => uses[i] = 1
    /\ uses[i] > 0 => approvals[i].status \in {"consumed", "expired"}
    /\ approvals[i].status \in {"approved", "consumed"} =>
          approvals[i].approved_at \in 0..(approvals[i].expires_at - 1)

(* What a call knows of the row it is working on: the columns that no      *)
(* UPDATE touches, and the verdict it reached from them.                   *)
CallInv(t) ==
    LET i == op[t].id IN
    /\ op[t].step \in {"consume_decide", "approve_decide"} =>
          /\ i \in Ids
          /\ approvals[i].status # "absent"
          /\ op[t].seen.expires_at = approvals[i].expires_at
          /\ op[t].seen.digest = approvals[i].digest
    /\ op[t].step \in {"consume_mark", "approve_mark"} =>
          /\ i \in Ids
          /\ approvals[i].status # "absent"
          /\ op[t].at < approvals[i].expires_at
    /\ op[t].step = "consume_mark" => op[t].digest = approvals[i].digest
    /\ op[t].step \in {"consume_expire", "approve_expire"} =>
          /\ i \in Ids
          /\ approvals[i].status # "absent"

IInv ==
    /\ TypeOK
    /\ \A i \in Ids : RowInv(i)
    /\ \A t \in Tasks : CallInv(t)
    /\ OneShot
    /\ UsedAsApproved
    /\ UsedInTime

--------------------------------------------------------------------------------
LEMMA InitIInv == Init => IInv
<1> SUFFICES ASSUME Init PROVE IInv
  OBVIOUS
<1> USE ConstantsAssumption DEF Init, NoRow, Idle
<1>1. NoRow \in Row /\ Idle \in Call
  BY DEF Row, Call, Null, Statuses, Steps, Results
<1>2. TypeOK
  BY <1>1 DEF TypeOK
<1>3. \A i \in Ids : RowInv(i)
  <2> TAKE i \in Ids
  <2>1. approvals[i] = NoRow /\ uses[i] = 0 /\ approvals[i].status = "absent"
    BY DEF Init
  <2> QED
    BY <2>1 DEF RowInv
<1>4. \A t \in Tasks : CallInv(t)
  BY DEF CallInv
<1> QED
  BY <1>2, <1>3, <1>4 DEF IInv, OneShot, UsedAsApproved, UsedInTime

(* What the statements write is a row, and which columns they leave. *)
LEMMA RowUpdate ==
  ASSUME NEW r \in Row, NEW time \in Nat
  PROVE  /\ Granted(r, time) \in Row
         /\ Granted(r, time).status = "approved"
         /\ Granted(r, time).approved_at = time
         /\ Granted(r, time).digest = r.digest
         /\ Granted(r, time).expires_at = r.expires_at
         /\ Spent(r, time) \in Row
         /\ Spent(r, time).status = "consumed"
         /\ Spent(r, time).consumed_at = time
         /\ Spent(r, time).approved_at = r.approved_at
         /\ Spent(r, time).digest = r.digest
         /\ Spent(r, time).expires_at = r.expires_at
         /\ Voided(r) \in Row
         /\ Voided(r) = [r EXCEPT !.status = "expired"]
         /\ Voided(r).status = "expired"
         /\ Voided(r).approved_at = r.approved_at
         /\ Voided(r).consumed_at = r.consumed_at
         /\ Voided(r).digest = r.digest
         /\ Voided(r).expires_at = r.expires_at
  BY DEF Row, Granted, Spent, Voided, Statuses

LEMMA RowInsert ==
  ASSUME NEW d \in Digests, NEW time \in Nat
  PROVE  /\ Asked(d, time) \in Row
         /\ Asked(d, time).status = "pending"
         /\ Asked(d, time).digest = d
<1>1. NoRow \in Row
  BY DEF Row, NoRow, Null, Statuses
<1>2. time + TTL \in Nat
  BY ConstantsAssumption
<1> QED
  BY <1>1, <1>2 DEF Row, Asked, Statuses

(* A call that goes on or ends is a call. *)
LEMMA CallUpdate ==
  ASSUME TypeOK, NEW t \in Tasks
  PROVE  /\ \A step \in Steps : Go(t, step) => op' \in [Tasks -> Call]
         /\ \A result \in Results : Finish(t, result) => op' \in [Tasks -> Call]
<1> USE ConstantsAssumption DEF TypeOK
<1>1. NoRow \in Row
  BY DEF Row, NoRow, Null, Statuses
<1>2. now \in Nat
  OBVIOUS
<1>3. ASSUME NEW step \in Steps, Go(t, step) PROVE op' \in [Tasks -> Call]
  BY <1>1, <1>2, <1>3 DEF Go, Call
<1>4. ASSUME NEW result \in Results, Finish(t, result) PROVE op' \in [Tasks -> Call]
  BY <1>1, <1>4 DEF Finish, Call, Idle, Steps
<1> QED
  BY <1>3, <1>4

--------------------------------------------------------------------------------
LEMMA TypeStep == IInv /\ [Next]_vars => TypeOK'
<1> SUFFICES ASSUME IInv, [Next]_vars PROVE TypeOK'
  OBVIOUS
<1> USE ConstantsAssumption
<1>t. TypeOK
  BY DEF IInv
<1>n. NoRow \in Row /\ Idle \in Call
  BY DEF NoRow, Idle, Row, Call, Null, Statuses, Steps, Results
<1>1. ASSUME NEW i \in Ids, NEW d \in Digests, Request(i, d) PROVE TypeOK'
  <2>1. Asked(d, now) \in Row
    BY <1>t, RowInsert DEF TypeOK
  <2> QED
    BY <1>1, <1>t, <2>1 DEF Request, TypeOK
<1>2. ASSUME NEW t \in Tasks, NEW i \in Ids, NEW d \in Digests \cup {None},
             NEW step \in Steps, GetRow(t, i, d, step)
      PROVE TypeOK'
  <2>1. [Idle EXCEPT !.step = "done", !.id = i, !.digest = d,
                     !.result = "not_found"] \in Call
    BY <1>n DEF Call, Idle, Steps, Results
  <2>2. [Idle EXCEPT !.step = step, !.id = i, !.digest = d,
                     !.seen = approvals[i]] \in Call
    BY <1>n, <1>t DEF Call, Idle, TypeOK
  <2> QED
    BY <1>2, <1>t, <2>1, <2>2 DEF GetRow, TypeOK
<1>3. ASSUME NEW t \in Tasks, ConsumeDecide(t) PROVE TypeOK'
  BY <1>3, <1>t, CallUpdate DEF ConsumeDecide, ConsumeVerdict, TypeOK, Steps, Results
<1>4. ASSUME NEW t \in Tasks, ConsumeMark(t) PROVE TypeOK'
  <2>1. op' \in [Tasks -> Call]
    BY <1>4, <1>t, CallUpdate DEF ConsumeMark, Results
  <2>2. op[t].id \in Ids /\ op[t].at \in Nat /\ op[t].digest \in Digests \cup {None}
    BY <1>4, <1>t DEF ConsumeMark, IInv, CallInv, TypeOK, Call
  <2>3. Spent(approvals[op[t].id], op[t].at) \in Row
    BY <1>t, <2>2, RowUpdate DEF TypeOK
  <2> QED
    BY <1>4, <1>t, <2>1, <2>2, <2>3 DEF ConsumeMark, TypeOK
<1>5. ASSUME NEW t \in Tasks, ConsumeExpire(t) PROVE TypeOK'
  <2>1. op' \in [Tasks -> Call]
    BY <1>5, <1>t, CallUpdate DEF ConsumeExpire, Results
  <2>2. op[t].id \in Ids
    BY <1>5, <1>t DEF ConsumeExpire, IInv, CallInv
  <2>3. Voided(approvals[op[t].id]) \in Row
    BY <1>t, <2>2, RowUpdate DEF TypeOK
  <2> QED
    BY <1>5, <1>t, <2>1, <2>2, <2>3 DEF ConsumeExpire, TypeOK
<1>6. ASSUME NEW t \in Tasks, ApproveDecide(t) PROVE TypeOK'
  BY <1>6, <1>t, CallUpdate DEF ApproveDecide, TypeOK, Steps
<1>7. ASSUME NEW t \in Tasks, ApproveMark(t) PROVE TypeOK'
  <2>1. op' \in [Tasks -> Call]
    BY <1>7, <1>t, CallUpdate DEF ApproveMark, Results
  <2>2. op[t].id \in Ids /\ op[t].at \in Nat
    BY <1>7, <1>t DEF ApproveMark, IInv, CallInv, TypeOK, Call
  <2>3. Granted(approvals[op[t].id], op[t].at) \in Row
    BY <1>t, <2>2, RowUpdate DEF TypeOK
  <2> QED
    BY <1>7, <1>t, <2>1, <2>2, <2>3 DEF ApproveMark, TypeOK
<1>8. ASSUME NEW t \in Tasks, ApproveExpire(t) PROVE TypeOK'
  <2>1. op' \in [Tasks -> Call]
    BY <1>8, <1>t, CallUpdate DEF ApproveExpire, Results
  <2>2. op[t].id \in Ids
    BY <1>8, <1>t DEF ApproveExpire, IInv, CallInv
  <2>3. Voided(approvals[op[t].id]) \in Row
    BY <1>t, <2>2, RowUpdate DEF TypeOK
  <2> QED
    BY <1>8, <1>t, <2>1, <2>2, <2>3 DEF ApproveExpire, TypeOK
<1>9. ASSUME NEW t \in Tasks, SweepStart(t) PROVE TypeOK'
  BY <1>9, <1>t, CallUpdate DEF SweepStart, TypeOK, Steps
<1>10. ASSUME NEW t \in Tasks, SweepUpdate(t) PROVE TypeOK'
  <2>1. op' \in [Tasks -> Call]
    BY <1>10, <1>t, CallUpdate DEF SweepUpdate, Results
  <2>2. \A i \in Ids : Voided(approvals[i]) \in Row
    BY <1>t, RowUpdate DEF TypeOK
  <2> QED
    BY <1>10, <1>t, <2>1, <2>2 DEF SweepUpdate, TypeOK
<1>11. ASSUME NEW t \in Tasks, Return(t) \/ Crash(t) PROVE TypeOK'
  BY <1>11, <1>t, <1>n DEF Return, Crash, TypeOK
<1>12. ASSUME SetClock PROVE TypeOK'
  BY <1>12, <1>t DEF SetClock, TypeOK
<1>13. ASSUME UNCHANGED vars PROVE TypeOK'
  BY <1>13, <1>t DEF vars, TypeOK
<1> QED
  BY <1>1, <1>2, <1>3, <1>4, <1>5, <1>6, <1>7, <1>8, <1>9, <1>10, <1>11,
     <1>12, <1>13
  DEF Next, Step, ConsumeSelect, ApproveSelect, Steps

--------------------------------------------------------------------------------
(* The five things a step of the system may do to a row and its history.   *)
Kept(i) ==
    /\ approvals'[i] = approvals[i]
    /\ uses'[i] = uses[i]
    /\ usedFor'[i] = usedFor[i]

IsAsked(i) ==
    /\ approvals[i].status = "absent"
    /\ \E d \in Digests : approvals'[i] = Asked(d, now)
    /\ uses'[i] = uses[i]
    /\ usedFor'[i] = usedFor[i]

IsGranted(i) ==
    /\ approvals[i].status = "pending"
    /\ \E t \in Tasks : /\ op[t].step = "approve_mark"
                        /\ op[t].id = i
                        /\ approvals'[i] = Granted(approvals[i], op[t].at)
    /\ uses'[i] = uses[i]
    /\ usedFor'[i] = usedFor[i]

IsSpent(i) ==
    /\ approvals[i].status = "approved"
    /\ \E t \in Tasks : /\ op[t].step = "consume_mark"
                        /\ op[t].id = i
                        /\ approvals'[i] = Spent(approvals[i], op[t].at)
                        /\ usedFor'[i] = op[t].digest
    /\ uses'[i] = uses[i] + 1

IsVoided(i) ==
    /\ approvals[i].status # "absent"
    /\ approvals'[i] = Voided(approvals[i])
    /\ uses'[i] = uses[i]
    /\ usedFor'[i] = usedFor[i]

RowChange(i) == Kept(i) \/ IsAsked(i) \/ IsGranted(i) \/ IsSpent(i) \/ IsVoided(i)

LEMMA RowsStep == IInv /\ [Next]_vars => \A i \in Ids : RowChange(i)
<1> SUFFICES ASSUME IInv, [Next]_vars, NEW j \in Ids PROVE RowChange(j)
  OBVIOUS
<1>t. TypeOK
  BY DEF IInv
<1>1. ASSUME NEW i \in Ids, NEW d \in Digests, Request(i, d) PROVE RowChange(j)
  BY <1>1, <1>t DEF Request, TypeOK, RowChange, Kept, IsAsked
<1>2. ASSUME NEW t \in Tasks, ConsumeMark(t) PROVE RowChange(j)
  BY <1>2, <1>t DEF ConsumeMark, Markable, TypeOK, RowChange, Kept, IsSpent
<1>3. ASSUME NEW t \in Tasks, ConsumeExpire(t) PROVE RowChange(j)
  BY <1>3, <1>t DEF ConsumeExpire, Voidable, TypeOK, RowChange, Kept, IsVoided
<1>4. ASSUME NEW t \in Tasks, ApproveMark(t) PROVE RowChange(j)
  BY <1>4, <1>t DEF ApproveMark, Approvable, TypeOK, RowChange, Kept, IsGranted
<1>5. ASSUME NEW t \in Tasks, ApproveExpire(t) PROVE RowChange(j)
  <2>1. op[t].id \in Ids /\ approvals[op[t].id].status # "absent"
    BY <1>5 DEF ApproveExpire, IInv, CallInv
  <2> QED
    BY <1>5, <1>t, <2>1 DEF ApproveExpire, TypeOK, RowChange, Kept, IsVoided
<1>6. ASSUME NEW t \in Tasks, SweepUpdate(t) PROVE RowChange(j)
  BY <1>6, <1>t DEF SweepUpdate, Voidable, TypeOK, RowChange, Kept, IsVoided
<1>7. ASSUME UNCHANGED <<approvals, uses, usedFor>> PROVE RowChange(j)
  BY <1>7 DEF RowChange, Kept
<1> QED
  BY <1>1, <1>2, <1>3, <1>4, <1>5, <1>6, <1>7
  DEF Next, Step, vars, GetRow, ConsumeSelect, ApproveSelect, ConsumeDecide,
      ApproveDecide, SweepStart, Return, Crash, SetClock

(* Each of the five keeps what is known of the row. *)
LEMMA RowInvStep ==
  ASSUME IInv, NEW i \in Ids, RowChange(i)
  PROVE  /\ RowInv(i)'
         /\ uses'[i] <= 1
         /\ uses'[i] > 0 => usedFor'[i] = approvals'[i].digest
         /\ uses'[i] > 0 =>
              /\ approvals'[i].approved_at \in 0..(approvals'[i].expires_at - 1)
              /\ approvals'[i].consumed_at \in 0..(approvals'[i].expires_at - 1)
<1> USE DEF IInv, OneShot, UsedAsApproved, UsedInTime
<1>t. /\ approvals[i] \in Row /\ uses[i] \in Nat /\ now \in Nat
      /\ \A t \in Tasks : op[t].at \in Nat
  BY DEF TypeOK, Call
<1>c. /\ approvals[i].expires_at \in Nat
      /\ approvals[i].status \in Statuses
  BY <1>t DEF Row
<1>1. CASE Kept(i)
  BY <1>1 DEF Kept, RowInv
<1>2. CASE IsAsked(i)
  <2>1. uses'[i] = 0
    BY <1>2 DEF IsAsked, RowInv
  <2>2. approvals'[i].status = "pending" /\ approvals'[i].digest \in Digests
    BY <1>2, <1>t, RowInsert DEF IsAsked
  <2> QED
    BY <2>1, <2>2 DEF RowInv
<1>3. CASE IsGranted(i)
  <2>1. uses'[i] = 0
    BY <1>3, <1>t DEF IsGranted, RowInv
  <2>2. PICK t \in Tasks : /\ op[t].step = "approve_mark" /\ op[t].id = i
                           /\ approvals'[i] = Granted(approvals[i], op[t].at)
    BY <1>3 DEF IsGranted
  <2>3. op[t].at \in 0..(approvals[i].expires_at - 1)
    BY <2>2, <1>t, <1>c DEF CallInv
  <2>4. /\ approvals'[i].status = "approved"
        /\ approvals'[i].approved_at = op[t].at
        /\ approvals'[i].digest = approvals[i].digest
        /\ approvals'[i].expires_at = approvals[i].expires_at
    BY <2>2, <1>t, RowUpdate
  <2> QED
    BY <1>3, <2>1, <2>3, <2>4 DEF RowInv, IsGranted
<1>4. CASE IsSpent(i)
  <2>1. uses'[i] = 1
    BY <1>4, <1>t DEF IsSpent, RowInv
  <2>2. PICK t \in Tasks : /\ op[t].step = "consume_mark" /\ op[t].id = i
                           /\ approvals'[i] = Spent(approvals[i], op[t].at)
                           /\ usedFor'[i] = op[t].digest
    BY <1>4 DEF IsSpent
  <2>3. /\ op[t].at \in 0..(approvals[i].expires_at - 1)
        /\ op[t].digest = approvals[i].digest
    BY <2>2, <1>t, <1>c DEF CallInv
  <2>4. /\ approvals'[i].status = "consumed"
        /\ approvals'[i].consumed_at = op[t].at
        /\ approvals'[i].approved_at = approvals[i].approved_at
        /\ approvals'[i].digest = approvals[i].digest
        /\ approvals'[i].expires_at = approvals[i].expires_at
    BY <2>2, <1>t, RowUpdate
  <2> QED
    BY <1>4, <2>1, <2>2, <2>3, <2>4 DEF RowInv, IsSpent
<1>5. CASE IsVoided(i)
  <2>1. /\ approvals'[i].status = "expired"
        /\ approvals'[i].consumed_at = approvals[i].consumed_at
        /\ approvals'[i].approved_at = approvals[i].approved_at
        /\ approvals'[i].digest = approvals[i].digest
        /\ approvals'[i].expires_at = approvals[i].expires_at
    BY <1>5, <1>t, RowUpdate DEF IsVoided
  <2> QED
    BY <1>5, <2>1 DEF RowInv, IsVoided
<1> QED
  BY <1>1, <1>2, <1>3, <1>4, <1>5 DEF RowChange

(* A row in the table stays there, with its digest and its deadline. *)
LEMMA ColumnsKept ==
  ASSUME IInv, NEW i \in Ids, RowChange(i), approvals[i].status # "absent"
  PROVE  /\ approvals'[i].status # "absent"
         /\ approvals'[i].digest = approvals[i].digest
         /\ approvals'[i].expires_at = approvals[i].expires_at
<1>1. approvals[i] \in Row /\ \A t \in Tasks : op[t].at \in Nat
  BY DEF IInv, TypeOK, Call
<1> QED
  BY <1>1, RowUpdate DEF RowChange, Kept, IsAsked, IsGranted, IsSpent, IsVoided

--------------------------------------------------------------------------------
(* What a step does to one call: nothing, or it opens it with a SELECT,    *)
(* or it takes the decision from the row it read, or the call is over.     *)
Opened(t) ==
    /\ op'[t].step \in {"consume_decide", "approve_decide"}
    /\ op'[t].id \in Ids
    /\ approvals[op'[t].id].status # "absent"
    /\ op'[t].seen = approvals[op'[t].id]

Decided(t) ==
    /\ op'[t].id = op[t].id
    /\ op'[t].digest = op[t].digest
    /\ op'[t].at = now
    /\ \/ /\ op[t].step = "consume_decide"
          /\ op'[t].step = "consume_expire"
       \/ /\ op[t].step = "approve_decide"
          /\ op'[t].step = "approve_expire"
       \/ /\ op[t].step = "approve_decide"
          /\ op'[t].step = "approve_mark"
          /\ ~Due(op[t].seen, now)
       \/ /\ op[t].step = "consume_decide"
          /\ op'[t].step = "consume_mark"
          /\ ~Due(op[t].seen, now)
          /\ op[t].seen.digest = op[t].digest

Over(t) == op'[t].step \in {"idle", "done", "sweep"}

CallChange(t) == op'[t] = op[t] \/ Opened(t) \/ Decided(t) \/ Over(t)

(* Go and Finish touch one call only. *)
LEMMA CallFrame ==
  ASSUME TypeOK, NEW t \in Tasks, NEW u \in Tasks
  PROVE  /\ \A step \in Steps : Go(t, step) =>
              IF u = t THEN /\ op'[u].step = step
                            /\ op'[u].at = now
                            /\ op'[u].id = op[u].id
                            /\ op'[u].digest = op[u].digest
                       ELSE op'[u] = op[u]
         /\ \A result : Finish(t, result) =>
              IF u = t THEN op'[u].step = "done" ELSE op'[u] = op[u]
<1>1. op \in [Tasks -> Call]
  BY DEF TypeOK
<1>2. ASSUME NEW step \in Steps, Go(t, step)
      PROVE IF u = t THEN /\ op'[u].step = step
                          /\ op'[u].at = now
                          /\ op'[u].id = op[u].id
                          /\ op'[u].digest = op[u].digest
                     ELSE op'[u] = op[u]
  BY <1>1, <1>2 DEF Go, Call
<1>3. ASSUME NEW result, Finish(t, result)
      PROVE IF u = t THEN op'[u].step = "done" ELSE op'[u] = op[u]
  BY <1>1, <1>3 DEF Finish, Idle
<1> QED
  BY <1>2, <1>3

LEMMA CallsStep == IInv /\ [Next]_vars => \A t \in Tasks : CallChange(t)
<1> SUFFICES ASSUME IInv, [Next]_vars, NEW u \in Tasks PROVE CallChange(u)
  OBVIOUS
<1>t. TypeOK
  BY DEF IInv
<1>1. ASSUME NEW t \in Tasks, NEW i \in Ids, NEW d,
             NEW step \in {"consume_decide", "approve_decide"}, GetRow(t, i, d, step)
      PROVE CallChange(u)
  BY <1>1, <1>t DEF GetRow, Idle, TypeOK, CallChange, Opened, Over
<1>2. ASSUME NEW t \in Tasks, ConsumeDecide(t) PROVE CallChange(u)
  BY <1>2, <1>t, CallFrame
  DEF ConsumeDecide, ConsumeVerdict, CallChange, Decided, Over, Steps
<1>3. ASSUME NEW t \in Tasks, ApproveDecide(t) PROVE CallChange(u)
  BY <1>3, <1>t, CallFrame DEF ApproveDecide, CallChange, Decided, Steps
<1>4. ASSUME NEW t \in Tasks, NEW result, Finish(t, result) PROVE CallChange(u)
  BY <1>4, <1>t, CallFrame DEF CallChange, Over
<1>5. ASSUME NEW t \in Tasks, SweepStart(t) PROVE CallChange(u)
  BY <1>5, <1>t, CallFrame DEF SweepStart, CallChange, Over, Steps
<1>6. ASSUME NEW t \in Tasks, Return(t) \/ Crash(t) PROVE CallChange(u)
  BY <1>6, <1>t DEF Return, Crash, Idle, TypeOK, CallChange, Over
<1>7. ASSUME UNCHANGED op PROVE CallChange(u)
  BY <1>7 DEF CallChange
<1> QED
  BY <1>1, <1>2, <1>3, <1>4, <1>5, <1>6, <1>7
  DEF Next, Step, vars, Request, ConsumeSelect, ApproveSelect, ConsumeMark,
      ConsumeExpire, ApproveMark, ApproveExpire, SweepUpdate, SetClock

(* The invariant of a call survives its own steps and everybody else's. *)
LEMMA CallInvStep ==
  ASSUME IInv, TypeOK', \A i \in Ids : RowChange(i), NEW t \in Tasks, CallChange(t)
  PROVE  CallInv(t)'
<1>t. /\ \A i \in Ids : approvals[i].expires_at \in Nat
      /\ now \in Nat
  BY DEF IInv, TypeOK, Row
<1>c. CallInv(t)
  BY DEF IInv
<1>r. ASSUME NEW i \in Ids, approvals[i].status # "absent"
      PROVE  /\ approvals'[i].status # "absent"
             /\ approvals'[i].digest = approvals[i].digest
             /\ approvals'[i].expires_at = approvals[i].expires_at
  BY <1>r, ColumnsKept
<1>1. CASE op'[t] = op[t]
  BY <1>1, <1>c, <1>r DEF CallInv
<1>2. CASE Opened(t)
  BY <1>2, <1>r DEF Opened, CallInv
<1>3. CASE Decided(t)
  BY <1>3, <1>c, <1>r, <1>t DEF Decided, CallInv, Due
<1>4. CASE Over(t)
  BY <1>4 DEF Over, CallInv
<1> QED
  BY <1>1, <1>2, <1>3, <1>4 DEF CallChange

LEMMA StepIInv == IInv /\ [Next]_vars => IInv'
<1> SUFFICES ASSUME IInv, [Next]_vars PROVE IInv'
  OBVIOUS
<1>1. TypeOK'
  BY TypeStep
<1>2. \A i \in Ids : RowChange(i)
  BY RowsStep
<1>3. \A t \in Tasks : CallInv(t)'
  BY <1>1, <1>2, CallsStep, CallInvStep
<1> QED
  BY <1>1, <1>2, <1>3, RowInvStep DEF IInv, OneShot, UsedAsApproved, UsedInTime

LEMMA AlwaysIInv == Spec => []IInv
  BY InitIInv, StepIInv, PTL DEF Spec

--------------------------------------------------------------------------------
(* The table and the calls in progress always have the shape the code gives *)
(* them.                                                                    *)
THEOREM Typed == Spec => []TypeOK
<1>1. IInv => TypeOK
  BY DEF IInv
<1> QED
  BY <1>1, AlwaysIInv, PTL

(* consume() returns True at most once for an approval, whatever number of  *)
(* threads and processes present it at the same time.                       *)
THEOREM UsedOnce == Spec => []OneShot
<1>1. IInv => OneShot
  BY DEF IInv
<1> QED
  BY <1>1, AlwaysIInv, PTL

(* An approval is only ever used for the action it was requested for.       *)
THEOREM UsedForItsAction == Spec => []UsedAsApproved
<1>1. IInv => UsedAsApproved
  BY DEF IInv
<1> QED
  BY <1>1, AlwaysIInv, PTL

(* An approval that was used was granted, and then used, at times before    *)
(* its deadline, even when the clock is set back in between.                *)
THEOREM UsedBeforeDeadline == Spec => []UsedInTime
<1>1. IInv => UsedInTime
  BY DEF IInv
<1> QED
  BY <1>1, AlwaysIInv, PTL

(* No call in any order takes a row out of "expired".                       *)
THEOREM ExpiryIsFinal == Spec => ExpiredIsFinal
<1>1. ASSUME IInv, [Next]_vars
      PROVE  [\A i \in Ids : approvals[i].status = "expired" =>
                            approvals'[i].status = "expired"]_vars
  <2>1. ASSUME NEW i \in Ids, approvals[i].status = "expired"
        PROVE  approvals'[i].status = "expired"
    <3>1. approvals[i] \in Row
      BY <1>1 DEF IInv, TypeOK
    <3> QED
      BY <1>1, <2>1, <3>1, RowsStep, RowUpdate
      DEF RowChange, Kept, IsAsked, IsGranted, IsSpent, IsVoided
  <2> QED
    BY <2>1
<1> QED
  BY <1>1, AlwaysIInv, PTL DEF Spec, ExpiredIsFinal

--------------------------------------------------------------------------------
(* Every step of the table is a step of the contract or leaves it alone. *)
LEMMA StepRefines == IInv /\ [Next]_vars => [OneShotContract!Next]_(OneShotContract!vars)
<1> SUFFICES ASSUME IInv, [Next]_vars
             PROVE  OneShotContract!Next \/ UNCHANGED OneShotContract!vars
  OBVIOUS
<1> DEFINE phase == [i \in Ids |-> IF uses[i] > 0 THEN "used" ELSE approvals[i].status]
           bound == [i \in Ids |-> approvals[i].digest]
<1>t. TypeOK
  BY DEF IInv
<1>r. \A i \in Ids : RowInv(i)
  BY DEF IInv
<1>v. \A i \in Ids : /\ Voided(approvals[i]).status = "expired"
                      /\ Voided(approvals[i]).digest = approvals[i].digest
  BY <1>t, RowUpdate DEF TypeOK
<1>0. ASSUME UNCHANGED <<approvals, uses, usedFor>>
      PROVE  UNCHANGED OneShotContract!vars
  BY <1>0 DEF OneShotContract!vars
<1>1. ASSUME NEW i \in Ids, NEW d \in Digests, Request(i, d)
      PROVE  OneShotContract!Ask(i, d)
  <2>1. /\ Asked(d, now).status = "pending"
        /\ Asked(d, now).digest = d
    BY <1>t, RowInsert DEF TypeOK
  <2>2. uses[i] = 0
    BY <1>1, <1>r DEF Request, RowInv
  <2>a. \A j \in Ids : phase'[j] = IF j = i THEN "pending" ELSE phase[j]
    BY <1>1, <1>t, <2>1, <2>2 DEF Request, TypeOK
  <2>3. phase' = [phase EXCEPT ![i] = "pending"]
    BY <2>a
  <2>4. bound' = [bound EXCEPT ![i] = d]
    BY <1>1, <1>t, <2>1 DEF Request, TypeOK
  <2> QED
    BY <1>1, <2>2, <2>3, <2>4 DEF Request, OneShotContract!Ask
<1>2. ASSUME NEW t \in Tasks, ConsumeMark(t)
      PROVE  OneShotContract!Next \/ UNCHANGED OneShotContract!vars
  <2>i. PICK i \in Ids : i = op[t].id
    BY <1>2 DEF ConsumeMark, IInv, CallInv
  <2>1. CASE Markable(approvals[i])
    <3>1. /\ op[t].digest = approvals[i].digest
          /\ op[t].at \in Nat /\ uses[i] = 0
      BY <1>2, <2>i, <2>1, <1>t, <1>r DEF ConsumeMark, Markable, IInv, CallInv, TypeOK,
                                    Call, RowInv
    <3>2. /\ Spent(approvals[i], op[t].at).status = "consumed"
          /\ Spent(approvals[i], op[t].at).digest = approvals[i].digest
      <4>1. approvals[i] \in Row
        BY <1>t DEF TypeOK
      <4> QED
        BY <3>1, <4>1, RowUpdate
    <3>a. \A j \in Ids : phase'[j] = IF j = i THEN "used" ELSE phase[j]
      BY <1>2, <2>i, <2>1, <1>t, <3>1, <3>2 DEF ConsumeMark, TypeOK
    <3>3. phase' = [phase EXCEPT ![i] = "used"]
      BY <3>a
    <3>4. bound' = bound /\ usedFor' = [usedFor EXCEPT ![i] = bound[i]]
      BY <1>2, <2>i, <2>1, <1>t, <3>1, <3>2 DEF ConsumeMark, TypeOK
    <3>5. phase[i] = "approved"
      BY <2>1, <3>1 DEF Markable
    <3>6. OneShotContract!Use(i)
      BY <3>1, <3>3, <3>4, <3>5 DEF OneShotContract!Use
    <3> QED
      BY <3>1, <3>6 DEF OneShotContract!Next
  <2>2. CASE ~Markable(approvals[i])
    BY <1>2, <2>i, <2>2, <1>0 DEF ConsumeMark
  <2> QED
    BY <2>1, <2>2
<1>3. ASSUME NEW t \in Tasks, ApproveMark(t)
      PROVE  OneShotContract!Next \/ UNCHANGED OneShotContract!vars
  <2>i. PICK i \in Ids : i = op[t].id
    BY <1>3 DEF ApproveMark, IInv, CallInv
  <2>1. CASE Approvable(approvals[i])
    <3>1. op[t].at \in Nat /\ uses[i] = 0
      BY <1>3, <2>i, <2>1, <1>t, <1>r DEF ApproveMark, Approvable, IInv, CallInv, TypeOK,
                                    Call, RowInv
    <3>2. /\ Granted(approvals[i], op[t].at).status = "approved"
          /\ Granted(approvals[i], op[t].at).digest = approvals[i].digest
      <4>1. approvals[i] \in Row
        BY <1>t DEF TypeOK
      <4> QED
        BY <3>1, <4>1, RowUpdate
    <3>a. \A j \in Ids : phase'[j] = IF j = i THEN "approved" ELSE phase[j]
      BY <1>3, <2>i, <2>1, <1>t, <3>1, <3>2 DEF ApproveMark, TypeOK
    <3>3. phase' = [phase EXCEPT ![i] = "approved"]
      BY <3>a
    <3>4. bound' = bound /\ usedFor' = usedFor
      BY <1>3, <2>i, <2>1, <1>t, <3>1, <3>2 DEF ApproveMark, TypeOK
    <3>5. phase[i] = "pending"
      BY <2>1, <3>1 DEF Approvable
    <3>6. OneShotContract!Grant(i)
      BY <3>3, <3>4, <3>5 DEF OneShotContract!Grant
    <3> QED
      BY <3>1, <3>6 DEF OneShotContract!Next
  <2>2. CASE ~Approvable(approvals[i])
    BY <1>3, <2>i, <2>2, <1>0 DEF ApproveMark
  <2> QED
    BY <2>1, <2>2
<1>4. ASSUME \A i \in Ids : Kept(i) \/ IsVoided(i), UNCHANGED usedFor
      PROVE  OneShotContract!Next
  <2> DEFINE S == {i \in Ids : phase[i] \in {"pending", "approved"} /\ IsVoided(i)}
  <2>1. S \in SUBSET {i \in Ids : phase[i] \in {"pending", "approved"}}
    OBVIOUS
  <2>2. ASSUME NEW i \in Ids
        PROVE  phase'[i] = IF i \in S THEN "expired" ELSE phase[i]
    <3>1. CASE Kept(i) /\ ~IsVoided(i)
      BY <3>1 DEF Kept
    <3>2. CASE IsVoided(i)
      <4>1. uses[i] > 0 \/ phase[i] \in {"pending", "approved", "expired"}
        BY <3>2, <1>r, <1>t DEF RowInv, IsVoided, TypeOK, Row, Statuses
      <4>2. uses'[i] = uses[i] /\ approvals'[i].status = "expired"
        BY <3>2, <1>v DEF IsVoided
      <4>3. CASE uses[i] > 0
        BY <4>2, <4>3
      <4>4. CASE ~(uses[i] > 0)
        BY <3>2, <4>1, <4>2, <4>4
      <4> QED
        BY <4>3, <4>4
    <3> QED
      BY <1>4, <3>1, <3>2
  <2>3. phase' = [i \in Ids |-> IF i \in S THEN "expired" ELSE phase[i]]
    BY <2>2
  <2>4. bound' = bound
    BY <1>4, <1>v DEF Kept, IsVoided
  <2>5. OneShotContract!Void
    BY <1>4, <2>1, <2>3, <2>4 DEF OneShotContract!Void
  <2> QED
    BY <2>5 DEF OneShotContract!Next
<1>5. ASSUME NEW t \in Tasks, ConsumeExpire(t) \/ ApproveExpire(t) \/ SweepUpdate(t)
      PROVE  \A i \in Ids : Kept(i) \/ IsVoided(i)
  <2>1. CASE ConsumeExpire(t)
    BY <2>1, <1>t DEF ConsumeExpire, Voidable, TypeOK, Kept, IsVoided
  <2>2. CASE ApproveExpire(t)
    <3>1. op[t].id \in Ids /\ approvals[op[t].id].status # "absent"
      BY <2>2 DEF ApproveExpire, IInv, CallInv
    <3> QED
      BY <2>2, <3>1, <1>t DEF ApproveExpire, TypeOK, Kept, IsVoided
  <2>3. CASE SweepUpdate(t)
    BY <2>3, <1>t DEF SweepUpdate, Voidable, TypeOK, Kept, IsVoided
  <2> QED
    BY <1>5, <2>1, <2>2, <2>3
<1>6. ASSUME NEW t \in Tasks, ConsumeExpire(t) \/ ApproveExpire(t) \/ SweepUpdate(t)
      PROVE  OneShotContract!Next
  <2>1. UNCHANGED usedFor
    BY <1>6 DEF ConsumeExpire, ApproveExpire, SweepUpdate
  <2> QED
    BY <1>4, <1>5, <1>6, <2>1
<1>7. ASSUME NEW i \in Ids, NEW d \in Digests, Request(i, d)
      PROVE  OneShotContract!Next
  BY <1>1, <1>7 DEF OneShotContract!Next
<1> QED
  BY <1>0, <1>2, <1>3, <1>6, <1>7
  DEF Next, Step, vars, GetRow, ConsumeSelect, ApproveSelect, ConsumeDecide,
      ApproveDecide, SweepStart, Return, Crash, SetClock

(* The table, its statements interleaved in any way, keeps the promise of   *)
(* OneShotApproval: asked for once, granted once, used once for that        *)
(* action, void for good.                                                   *)
THEOREM ImplementsOneShot == Spec => RefinesOneShot
<1>1. Init => OneShotContract!Init
  BY DEF Init, NoRow, OneShotContract!Init
<1> QED
  BY <1>1, StepRefines, AlwaysIInv, PTL DEF Spec, RefinesOneShot, OneShotContract!Spec
================================================================================
