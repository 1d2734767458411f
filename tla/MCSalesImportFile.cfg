SPECIFICATION Spec
CONSTANTS
    Headers <- AllHeaders
    Records <- AllRecords
    Findings <- AllFindings
    ChunkSize = 2
    MaxRows = 3
    MaxAttempts = 2
    MaxLine = 5
    MaxIssues = 3
INVARIANTS
    OnlyLongHeadersAreRefused
    WholeFileIsStaged
    IssuesAccountedFor
CHECK_DEADLOCK FALSE
