SPECIFICATION Spec
CONSTANTS
    a1 = a1
    a2 = a2
    a3 = a3
    p1 = p1
    p2 = p2
    Agent = {a1, a2, a3}
    Planned = {p1, p2}
    Interval <- Intervals
    Owner <- Owners
    Hours <- Times
    Offer = {o1, o2}
    None = None
    Capacity = 1
    Rest = 1
    Notice = 1
    MaxDaily = 1
    MaxMonthly = 1
    Month = 2
    AutoDays = {1}
    ManagedDays = {1}
    MaxSlots = 1
    MaxTime = 2
SYMMETRY Interchangeable
INVARIANTS
    WorkloadRespected OffersAreSound LimitsHold
PROPERTIES
    ExchangesAreFinal
CHECK_DEADLOCK FALSE
