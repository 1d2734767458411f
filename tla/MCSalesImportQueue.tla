------------------------- MODULE MCSalesImportQueue -------------------------
(* Small instances of SalesImportQueue for TLC. *)
EXTENDS SalesImportQueue, TLC

\* Workers and tokens are interchangeable; imports are ordered, hence not.
Symmetry == Permutations(Workers) \cup Permutations(Tokens)
=============================================================================
