----------------------------- MODULE BoundedSlots -----------------------------
(***************************************************************************)
(* What execution/concurrency.py promises: callers wait for one of Limit   *)
(* slots, at most Limit of them hold one, and a caller is turned away only *)
(* while every slot is taken.  ConcurrencyGate refines this module.        *)
(***************************************************************************)
EXTENDS Naturals, FiniteSets

CONSTANTS Callers,  \* who may ask for a slot
          Limit     \* how many slots there are

VARIABLES waiting,  \* the callers that wait
          holding   \* the callers that hold a slot

vars == <<waiting, holding>>

Init == waiting = {} /\ holding = {}

Join(c) ==
    /\ c \notin waiting \cup holding
    /\ waiting' = waiting \cup {c}
    /\ UNCHANGED holding

Take(c) ==
    /\ c \in waiting
    /\ Cardinality(holding) < Limit
    /\ waiting' = waiting \ {c}
    /\ holding' = holding \cup {c}

TurnAway(c) ==
    /\ c \in waiting
    /\ Cardinality(holding) = Limit
    /\ waiting' = waiting \ {c}
    /\ UNCHANGED holding

GiveBack(c) ==
    /\ c \in holding
    /\ holding' = holding \ {c}
    /\ UNCHANGED waiting

Next == \E c \in Callers : Join(c) \/ Take(c) \/ TurnAway(c) \/ GiveBack(c)

Spec == Init /\ [][Next]_vars
================================================================================
