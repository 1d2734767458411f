SPECIFICATION LiveSpec
CONSTANTS
    q1 = q1
    q2 = q2
    k1 = k1
    k2 = k2
    Imports = {1, 2}
    Legacy = {1}
    Files = {f1, f2}
    Submitted = {f1}
    CsvFiles = {}
    NoFile = NoFile
    Keys = {k1}
    NoKey = NoKey
    Requests = {q1, q2}
    Reconcilers = {r1}
    Operators = {}
    GraceCoversUploads = FALSE
    MaxVersions = 2
INVARIANTS
    AnswersAreTrue
PROPERTIES
    EveryUploadIsDecided
