SPECIFICATION Spec
CONSTANTS
    Others = {"operator"}
    TTL = 30
    BeehiivTimeout = 3
    PostgresTimeout = 2
    ProbePeriod = 10
    ProbeTimeout = 3
    FailureThreshold = 3
INVARIANTS TypeOK OneRoundTrip VerdictIsBeehiivs FirstCheckOnce VerdictIsRecent StaysInRotation
