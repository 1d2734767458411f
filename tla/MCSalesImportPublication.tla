---------------------- MODULE MCSalesImportPublication ----------------------
(* Small files about the same source records, for TLC. *)
EXTENDS SalesImportPublication, TLC

CONSTANTS w1, w2

Row(id, value, ref) == [id |-> id, value |-> value, ref |-> ref, clean |-> TRUE]

BadRow(id) == [id |-> id, value |-> 1, ref |-> "old", clean |-> FALSE]

Whole(rows) == [rows |-> rows, broken |-> FALSE]

Cut(rows) == [rows |-> rows, broken |-> TRUE]

\* Two imports of one source that agree or disagree about records a and b; the
\* second may also have a file the contract refuses.
SharedFiles ==
    [j \in {"first", "second"} |->
        IF j = "first"
        THEN {Whole(<<Row("a", 1, "old")>>)}
        ELSE {Whole(<<Row("b", 1, "old"), Row("a", 1, "new")>>),
              Whole(<<Row("a", 2, "new")>>), Cut(<<BadRow("a")>>)}]

\* A conflict that follows another issue of its file.
LateConflict ==
    [j \in {"first", "second"} |->
        {Whole(IF j = "first" THEN <<Row("a", 1, "old")>>
               ELSE <<Row("c", 1, "new"), Row("a", 2, "old")>>)}]

SameSource == [j \in Jobs |-> "erp"]

Symmetry == Permutations({w1, w2})
=============================================================================
