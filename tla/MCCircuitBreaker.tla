-------------------------- MODULE MCCircuitBreaker --------------------------
(* Small instances of CircuitBreaker for TLC. *)
EXTENDS CircuitBreaker

CONSTANTS t1, n1, n2

(* One thread on each node. *)
Apart == [th \in Threads |-> IF th = t1 THEN n1 ELSE n2]

(* All threads on one node. *)
Together == [th \in Threads |-> n1]
=============================================================================
