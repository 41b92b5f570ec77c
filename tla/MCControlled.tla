------------------------------ MODULE MCControlled ------------------------------
(* ControlledExec for TLC. Calls and project types are interchangeable: no     *)
(* definition names one.                                                       *)
EXTENDS ControlledExec, TLC

Symmetry == Permutations(Calls) \union Permutations(Projects)
================================================================================
