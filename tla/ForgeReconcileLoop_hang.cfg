SPECIFICATION FairSpec
CONSTANTS
    s1 = s1
    s2 = s2
    Order <- TwoSources
    Flaky = {s1}
    Period = 4
    Retry = 1
    ReadTime = 1
    MaxCalls = 1
    Limit = 3
    Hour = 5
    Hangs = TRUE
    MaxRestarts = 0
PROPERTIES EverySourceIsRead
