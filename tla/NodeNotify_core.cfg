SPECIFICATION FairSpec
CONSTANTS
    u1 = u1
    Units = {u1}
    Reminder = 1
    TTL = 2
    MaxAge = 1
    Merges = FALSE
    MaxRuns = 3
    MaxHands = 1
    MaxDeaths = 1
INVARIANTS TypeOK NoOvertaking SilencedOnlyIfSent RemindersAreFolded AlarmIsTrue
PROPERTIES OneIncident NoneSkipped SpoolDrains
