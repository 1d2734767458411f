SPECIFICATION Spec
CONSTANTS
    Jobs = {"first", "second"}
    w1 = w1
    w2 = w2
    Workers = {w1, w2}
    Sources = {"erp"}
    Refs = {"new"}
    NoJob = NoJob
    SourceOf <- SameSource
    Files <- LateConflict
    ChunkSize = 1
    StartAttempts = 1
    AttemptLimit = 2
    MaxIssues = 2
SYMMETRY Symmetry
PROPERTIES
    ConflictsStayRejected
