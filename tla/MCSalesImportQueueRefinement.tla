-------------------- MODULE MCSalesImportQueueRefinement --------------------
(* A small instance of SalesImportQueueRefinement for TLC. *)
EXTENDS SalesImportQueueRefinement, TLC

\* Holder chooses among workers, but never has more than one to choose from.
Symmetry == Permutations(Workers) \cup Permutations(Tokens)
=============================================================================
