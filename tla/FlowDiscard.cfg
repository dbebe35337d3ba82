SPECIFICATION SessionSpec
CONSTANTS
    Session = {s1}
    Worked = {s1}
    AfterRace = FALSE
    NoSession = NoSession
    Tab = {p1}
    Node = {"start", "a", "b", "end"}
    StartNode = "start"
    Terminal = {"end"}
    Edge <- Branching
    Needs <- NeedsFact
    Fact = {f1}
PROPERTY DiscardLeavesNothing
CHECK_DEADLOCK FALSE
