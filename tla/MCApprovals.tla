------------------------------ MODULE MCApprovals ------------------------------
(* Instance of Approvals for TLC: ids, digests and tasks are interchangeable. *)
EXTENDS Approvals, TLC

Symmetry ==
    Permutations(Ids) \cup Permutations(Digests) \cup Permutations(Tasks)
================================================================================
