------------------------ MODULE MCSalesImportIntake ------------------------
(* Small instances of SalesImportIntake for TLC. *)
EXTENDS SalesImportIntake, TLC

CONSTANTS q1, q2, k1, k2

Symmetry == Permutations({q1, q2}) \cup Permutations({k1, k2})
=============================================================================
