SPECIFICATION FairSpec
CONSTANTS
    Job = {j1}
    Worker = {cron}
    Cron = {cron}
    NoJob = none
    MaxAttempts = 2
    Lease = 1
    RetryUnit = 1
    Limit = 1
    MaxCrashes = 1
    Redelivery = FALSE

PROPERTIES StaleLeaseRecovered
