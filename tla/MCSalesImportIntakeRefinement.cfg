SPECIFICATION Spec
CONSTANTS
    q1 = q1
    q2 = q2
    k1 = k1
    k2 = k2
    Imports = {1, 2}
    Legacy = {1}
    Files = {f1, f2}
    Submitted = {f1, f2}
    CsvFiles = {f1}
    NoFile = NoFile
    Keys = {k1, k2}
    NoKey = NoKey
    Requests = {q1}
    Reconcilers = {r1}
    Operators = {o1, o2}
    GraceCoversUploads = TRUE
    MaxVersions = 2
SYMMETRY Symmetry
INVARIANTS
    JobAgreesWithIntake
    EvidenceIsGenuine
    RefusedOnlyWithoutFile
PROPERTIES
    ImplementsQueueIntake
    EvidenceIsSealed
