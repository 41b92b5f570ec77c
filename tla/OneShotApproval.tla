---------------------------- MODULE OneShotApproval ----------------------------
(***************************************************************************)
(* What policy/approval.py promises its callers, with no table, clock or   *)
(* SQL statement in sight: a request is bound to one action when it is     *)
(* asked for, an operator may grant it once, it may then be used once, for *)
(* exactly the action it is bound to, and it may become void at any time   *)
(* before that.  Approvals refines this module.                            *)
(***************************************************************************)
CONSTANTS Ids,      \* the approval ids
          Digests,  \* the action digests
          None      \* the absence of a digest

VARIABLES phase,    \* how far each request has come
          bound,    \* the action a request is bound to
          usedFor   \* the action a request was used for

vars == <<phase, bound, usedFor>>

Phases == {"absent", "pending", "approved", "used", "expired"}

TypeOK ==
    /\ phase \in [Ids -> Phases]
    /\ bound \in [Ids -> Digests \cup {None}]
    /\ usedFor \in [Ids -> Digests \cup {None}]

Init ==
    /\ phase = [i \in Ids |-> "absent"]
    /\ bound = [i \in Ids |-> None]
    /\ usedFor = [i \in Ids |-> None]

Ask(i, d) ==
    /\ phase[i] = "absent"
    /\ phase' = [phase EXCEPT ![i] = "pending"]
    /\ bound' = [bound EXCEPT ![i] = d]
    /\ UNCHANGED usedFor

Grant(i) ==
    /\ phase[i] = "pending"
    /\ phase' = [phase EXCEPT ![i] = "approved"]
    /\ UNCHANGED <<bound, usedFor>>

Use(i) ==
    /\ phase[i] = "approved"
    /\ phase' = [phase EXCEPT ![i] = "used"]
    /\ usedFor' = [usedFor EXCEPT ![i] = bound[i]]
    /\ UNCHANGED bound

(* expire_due voids every request that is due in one statement. *)
Void ==
    \E S \in SUBSET {i \in Ids : phase[i] \in {"pending", "approved"}} :
        /\ phase' = [i \in Ids |-> IF i \in S THEN "expired" ELSE phase[i]]
        /\ UNCHANGED <<bound, usedFor>>

Next ==
    \/ \E i \in Ids, d \in Digests : Ask(i, d)
    \/ \E i \in Ids : Grant(i) \/ Use(i)
    \/ Void

Spec == Init /\ [][Next]_vars
================================================================================
