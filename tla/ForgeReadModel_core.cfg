SPECIFICATION Spec
CONSTANTS
    Items = {1, 2}
    Sources = {s1}
    Declarations <- AllDeclared
    SourceOf <- OneSource
    Pods = {p1}
    Batch = 1
    PerPage = 1
    TicksPerSecond = 2
    Skew = 0
    Refused <- NoneRefused
    SameSecond = FALSE
    Deletes = FALSE
    RestoreWhileReading = FALSE
    MaxTime = 5
    MaxRev = 2
    MaxFaults = 1
    MaxRestores = 0
INVARIANTS TypeOK NoLostChange
PROPERTIES OnlyReadsGoBack
