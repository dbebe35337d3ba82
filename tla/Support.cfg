SPECIFICATION SupportSpec
CONSTANTS
    User = {u1, u2, u3}
    Slot = {1, 2, 3}
    Duration = 2
    Capacity = 1
    MinCoverage = 1
    Window <- Shifts
    Booking = {b1, b2}
    Swap = {x1, x2}
    Unlinked = Unlinked
    NoSwap = NoSwap
    SwapLife = 1
    MaxTime = 1
    Entry = {u1, u2, u3}
    NoEntry = NoEntry
    Observation = {x1, x2}
    NoKey = NoKey
    Value = {v1}
    Reference = {}
    NoReference = NoReference
    Caller = {b1, b2}
    Agent = {b1, b2}
    Measure = {m1}
    MaxLife = 4
    Choice = {f1}
    Manual = {e1}
    Route = {r1}
    None = None
    Actor = {b1, b2}
    MaxOverride = 2
    Compilation = {x1, x2}
    NoCompilation = NoCompilation
    Asker = {b1, b2}
    MaxPlan = 4
SYMMETRY Interchangeable
INVARIANTS
    ProposalsAreSound NoDoublePause ShiftChangesShow CountedOnce AudienceIsTold LogAnswers
    RevisionsAreSound
PROPERTIES
    LimitsGiveWayToOverrides ApprovedContentStands SnapshotsStand
CHECK_DEADLOCK FALSE
