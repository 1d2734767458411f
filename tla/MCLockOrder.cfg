SPECIFICATION LiveSpec
CONSTANTS
    i1 = i1
    i2 = i2
    s1 = s1
    Workers = {w1, w2}
    Clients = {c1}
    Imports = {i1, i2}
    Sources = {s1}
    SourceOf <- OneSource
    Nobody = Nobody
INVARIANTS
    DeadlockNeedsRequeue
PROPERTIES
    TransactionsEnd
