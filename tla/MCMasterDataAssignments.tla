---------------------- MODULE MCMasterDataAssignments ----------------------
(* A few relations of three kinds, for TLC. *)
EXTENDS MasterDataAssignments, TLC

CONSTANTS a1, a2, g1, g2, h1, r1, r2

Relation(kind, holder, target, primary) ==
    [kind |-> kind, holder |-> holder, target |-> target, primary |-> primary]

SomeRelations ==
    {Relation("hierarchy", g1, g2, FALSE),
     Relation("hospital", h1, g1, FALSE), Relation("hospital", h1, g2, FALSE),
     Relation("coverage", r1, g1, TRUE), Relation("coverage", r2, g1, TRUE)}

Row(kind, holder, target, day) ==
    [kind |-> kind, holder |-> holder, target |-> target, day |-> day]

SomeChunks ==
    {{Row("hospital", h1, g1, 1), Row("hospital", h1, g1, 2), Row("coverage", r1, g1, 2)}}

Symmetry == Permutations({a1, a2})
=============================================================================
