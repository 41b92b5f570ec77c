------------------------------- MODULE MCControl -------------------------------
(* ControlPlane for TLC: three agents, two directories, and an id for each     *)
(* agent; patches of one list and of two settings at once; and a page that the *)
(* server serves itself beside one that names no port.                         *)
EXTENDS ControlPlane, TLC

CONSTANTS i, j, k, v, w

Set(key, value) == [Nothing EXCEPT ![key] = value]
Symmetry == Permutations(Agents) \union Permutations(Roots)
SomePatches == {Set(i, {v}), Set(i, {w}), Merge(Set(j, {v}), Set(Other, {v}))}
================================================================================
