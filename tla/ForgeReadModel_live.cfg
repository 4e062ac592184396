SPECIFICATION FairSpec
CONSTANTS
    Items = {1}
    Sources = {s1}
    Declarations <- AnyDeclared
    SourceOf <- OneSource
    Pods = {p1}
    Batch = 1
    PerPage = 1
    TicksPerSecond = 2
    Skew = 0
    Refused <- FirstRefused
    SameSecond = FALSE
    Deletes = TRUE
    RestoreWhileReading = FALSE
    MaxTime = 4
    MaxRev = 1
    MaxFaults = 1
    MaxRestores = 1
INVARIANTS NoLostChange
PROPERTIES StoredIsProjected ViewConverges
CHECK_DEADLOCK FALSE
