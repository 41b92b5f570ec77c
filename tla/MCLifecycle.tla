------------------------------ MODULE MCLifecycle ------------------------------
(* ServerLifecycle for TLC: two starts with pids of their own, and the schema  *)
(* of the code.                                                                *)
EXTENDS ServerLifecycle, TLC

CONSTANTS a, b

Starts == {a, b}
OwnPids == (a :> 1 @@ b :> 2)
================================================================================
