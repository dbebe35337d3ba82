SPECIFICATION FairSpec
CONSTANTS
    Job = {j1}
    Worker = {cron, api}
    Cron = {cron}
    NoJob = none
    MaxAttempts = 2
    Lease = 1
    RetryUnit = 1
    Limit = 1
    MaxCrashes = 0
    Redelivery = TRUE

PROPERTIES DuplicateEventsIgnored
