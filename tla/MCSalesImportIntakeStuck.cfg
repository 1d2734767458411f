SPECIFICATION AssistedSpec
CONSTANTS
    q1 = q1
    q2 = q2
    k1 = k1
    k2 = k2
    Imports = {1}
    Legacy = {1}
    Files = {f1}
    Submitted = {f1}
    CsvFiles = {f1}
    NoFile = NoFile
    Keys = {k1}
    NoKey = NoKey
    Requests = {q1}
    Reconcilers = {r1}
    Operators = {o1}
    GraceCoversUploads = FALSE
    MaxVersions = 2
PROPERTIES
    EveryAnsweredRowIsDecided
