SPECIFICATION CaseSpec
CONSTANTS
    Choice = {f1}
    Manual = {e1}
    Route = {r1}
    None = None
    Actor = {b1, b2}
    MaxOverride = 2
INVARIANTS
    ResolutionLeavesEvent
CHECK_DEADLOCK FALSE
