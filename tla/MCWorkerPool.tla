---------------------------- MODULE MCWorkerPool ----------------------------
(* Small instances of WorkerPool for TLC. *)
EXTENDS WorkerPool

CONSTANTS t1, t2, w1

(* t2 is enqueued with the higher number. *)
Numbers == [t \in Tasks |-> IF t = t2 THEN 1 ELSE 0]

(* Every worker polls one queue that holds every task. *)
OneQueue == [w \in Workers |-> <<Tasks>>]

(* w1 polls the queue of t1 and then that of t2, the others that of t1. *)
OneShared == [w \in Workers |-> IF w = w1 THEN <<{t1}, {t2}>> ELSE <<{t1}>>]
=============================================================================
