SPECIFICATION KpiSpec
CONSTANTS
    Entry = {e1, e2, e3}
    NoEntry = NoEntry
    Observation = {o1}
    NoKey = NoKey
    Value = {v1}
    Reference = {}
    NoReference = NoReference
    Caller = {c1}
INVARIANT OneApprovedVersion
CHECK_DEADLOCK FALSE
