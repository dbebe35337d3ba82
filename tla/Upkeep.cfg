SPECIFICATION UpkeepSpec
CONSTANTS
    Date = {1, 2}
    Gap = {2}
    VersionInput <- TwoDays
    Runner = {c1}
    Starter = {c1}
    Manager = {m1}
    DayTicks = 2
    Duration = 2
    StaleAfter = 0
    Horizon = 2
    CatchUp = 1
    Prompt = FALSE
    MaxVersions = 1
    MaxRequests = 0
    MaxCrashes = 1
    MaxTime = 8
    Connection = {l1, l2, l3}
    Front <- Jobs
    Back <- Stores
    Server = "server"
    Socket = {w1, w2}
    NoSocket = NoSocket
    MaxPairs = 2
    MaxFaults = 2
    Job = {j1}
    Worker = {cron, api}
    Cron = {cron}
    NoJob = none
    MaxAttempts = 2
    Lease = 2
    RetryUnit = 1
    Limit = 1
    Redelivery = FALSE
INVARIANTS
    ShutdownIsOrderly PairingIsSound LeaseExclusion
PROPERTIES
    ElapsedComesDown ShutdownEnds ClientSettles JobsSettle
CHECK_DEADLOCK FALSE
