---------------------------- MODULE MCLockOrder ----------------------------
(* Two imports of one source, for TLC. *)
EXTENDS LockOrder

CONSTANTS i1, i2, s1

OneSource == [i \in {i1, i2} |-> s1]
=============================================================================
