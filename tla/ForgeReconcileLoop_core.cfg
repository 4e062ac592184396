SPECIFICATION FairSpec
CONSTANTS
    s1 = s1
    s2 = s2
    Order <- TwoSources
    Flaky = {s1, s2}
    Period = 4
    Retry = 1
    ReadTime = 1
    MaxCalls = 2
    Limit = 4
    Hour = 5
    Hangs = TRUE
    MaxRestarts = 1
INVARIANTS TypeOK WithinCeiling NoFalseAlarm FailedIsRetried
PROPERTIES HealthyLeftAlone OnlyAHangStopsReads
