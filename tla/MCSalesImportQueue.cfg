SPECIFICATION Spec
CONSTANTS
    Imports = {1}
    CsvImports = {1}
    Workers = {w1, w2}
    Tokens = {t1, t2, t3}
    NoToken = NoToken
    NoImport = NoImport
    DefaultMaxAttempts = 2
    AttemptLimit = 3
    LeaseDuration = 2
    RetryBaseDelay = 2
    RetryMaxDelay = 3
    CleanupBatchSize = 1
    MaxClock = 4
SYMMETRY Symmetry
INVARIANTS
    TypeOK
    RunningAttemptOwnsJob
    AttemptHistory
    WaitingWorkHasBudget
PROPERTIES
    StaleWorkerIsPowerless
    LeaseTakenOnlyAfterExpiry
    LeaseNeverShrinks
    HistoryIsImmutable
    SettledForever
