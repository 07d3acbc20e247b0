--------------------------- MODULE MCLockManager ---------------------------
(* Small instances of LockManager for TLC. *)
EXTENDS LockManager

CONSTANTS m1, m2, a1, b1, a2

(* The first process acquires from two places, the second from one. *)
TwoManagers == {m1, m2}
ThreeHandles == {a1, b1, a2}
OwnerOf == [h \in ThreeHandles |-> IF h = a2 THEN m2 ELSE m1]
=============================================================================
