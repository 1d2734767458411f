SPECIFICATION Spec
CONSTANTS
    Imports = {1, 2, 3}
    CsvImports = {1, 2}
    Workers = {w1, w2}
    Tokens = {t1, t2}
    NoToken = NoToken
    NoImport = NoImport
    Nobody = Nobody
    DefaultMaxAttempts = 1
    AttemptLimit = 2
    LeaseDuration = 1
    RetryBaseDelay = 1
    RetryMaxDelay = 1
    CleanupBatchSize = 1
    MaxClock = 1
SYMMETRY Symmetry
INVARIANTS
    IntakeAgreesWithJob
PROPERTIES
    ImplementsLeasedWork
