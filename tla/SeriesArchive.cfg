SPECIFICATION Spec
CONSTANTS
    Date = {1}
    Gap = {}
    VersionInput <- OneDay
    Runner = {c1, a1}
    Cron = {c1}
    Manager = {m1}
    DayTicks = 2
    Duration = 2
    StaleAfter = 0
    Horizon = 1
    CatchUp = 1
    Prompt = TRUE
    MaxVersions = 2
    MaxRequests = 1
    MaxCrashes = 1
    MaxTime = 4
PROPERTIES ArchivedIsSilent
CHECK_DEADLOCK FALSE
