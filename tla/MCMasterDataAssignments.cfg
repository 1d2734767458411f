SPECIFICATION Spec
CONSTANTS
    a1 = a1
    a2 = a2
    g1 = g1
    g2 = g2
    h1 = h1
    r1 = r1
    r2 = r2
    Administrators = {a1, a2}
    Territories = {g1, g2}
    Participants = {g1, g2, h1, r1, r2}
    Relations <- SomeRelations
    Levels = {"area", "territory"}
    Switched = {g2}
    LastDay = 2
    Chunks <- SomeChunks
    MaxAssignments = 2
SYMMETRY Symmetry
INVARIANTS
    OneAssignmentPerDay
    HierarchyDescends
    LookupsAgree
PROPERTIES
    HistoryKept
