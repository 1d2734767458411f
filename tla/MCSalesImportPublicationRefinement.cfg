SPECIFICATION Spec
CONSTANTS
    Jobs = {"first", "second"}
    w1 = w1
    w2 = w2
    Workers = {w1, w2}
    Sources = {"erp"}
    Refs = {"new"}
    NoJob = NoJob
    Nobody = Nobody
    SourceOf <- SameSource
    Files <- SharedFiles
    ChunkSize = 1
    StartAttempts = 1
    AttemptLimit = 2
    MaxIssues = 3
SYMMETRY Symmetry
INVARIANTS
    PublishedAsAWhole
    CountsAddUp
    LinksAreRight
    PublicationsSerialized
    LocksAreInUse
    SourceRecordsUnique
    LinkingNeverConflicts
PROPERTIES
    EvidenceIsSealed
    ConflictsStayRejected
    ImplementsLeasedWork
