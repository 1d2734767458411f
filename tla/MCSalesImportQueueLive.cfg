SPECIFICATION LiveSpec
CONSTANTS
    Imports = {1}
    CsvImports = {1}
    w1 = w1
    w2 = w2
    Workers = {w1, w2}
    Reliable = {w1}
    Tokens = {t1, t2}
    NoToken = NoToken
    NoImport = NoImport
    DefaultMaxAttempts = 2
    AttemptLimit = 2
    LeaseDuration = 1
    RetryBaseDelay = 1
    RetryMaxDelay = 1
    CleanupBatchSize = 1
    MaxClock = 1
PROPERTIES
    EveryImportSettles
