--------------------------- MODULE MCCircuitBreaker ---------------------------
(***************************************************************************)
(* Instances of CircuitBreaker: two tasks suffice for every race between a *)
(* read of the state and its use; three were also explored.                *)
(***************************************************************************)
EXTENDS CircuitBreaker

CONSTANTS t1, t2

MCTasks == {t1, t2}
===============================================================================
