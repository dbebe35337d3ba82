SPECIFICATION OfficeSpec
CONSTANTS
    Job = {j1}
    Worker = {cron, api}
    Cron = {cron}
    NoJob = none
    MaxAttempts = 2
    Lease = 1
    RetryUnit = 1
    Limit = 1
    MaxCrashes = 1
    Redelivery = TRUE
    Draft = {d1, d2, d3}
    Manager = {m1}
    Unread = unread
    Never = 4
    Slug = {a, b}
    Plain = a
    Qualified = b
    NoSlug = NoSlug
    Text = {x1, x2}
    NoText = NoText
    Discussion = x2
    Proposal = {q1}
    NoProposal = NoProposal
    Writer = {w1, w2}
    AfterRace = FALSE
    MaxEdition = 3
    MaxTime = 2
    MaxRevision = 2
SYMMETRY Interchangeable
INVARIANTS
    OneHandPerAttempt ConfirmedWasReached NoOverlap WikiIsWhole
PROPERTIES
    ImplementsContract RulesChangeSoundly
CHECK_DEADLOCK FALSE
