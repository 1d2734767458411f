SPECIFICATION Spec
CONSTANTS
    c1 = c1
    c2 = c2
    Commands = {c1, c2}
    Ranges <- SomeRanges
    BatchSize = 200
SYMMETRY Symmetry
INVARIANTS
    VerificationNeverFails
    RunsTellTheTruth
CHECK_DEADLOCK FALSE
