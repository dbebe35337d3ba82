SPECIFICATION ContentSpec
CONSTANTS
    Date = {1}
    Gap = {}
    VersionInput <- OneDay
    Runner = {c1, a1}
    Cron = {c1}
    Manager = {m1}
    DayTicks = 2
    Duration = 2
    StaleAfter = 0
    Horizon = 1
    CatchUp = 1
    Prompt = TRUE
    MaxVersions = 2
    MaxRequests = 1
    MaxCrashes = 1
    MaxTime = 4
    Editor = {p1, p2}
    Graph = {q1, q2}
    NoGraph = NoGraph
    Partial = Partial
    MaxVersion = 3
    Session = {s1, q1, q2}
    Worked = {s1}
    AfterRace = FALSE
    NoSession = NoSession
    Tab = {p1, p2}
    Node = {"start", "a", "b", "end"}
    StartNode = "start"
    Terminal = {"end"}
    Edge <- Branching
    Needs <- NeedsFact
    Fact = {}
    Title = {q1, q2}
    NoTitle = NoTitle
    Body = {b1}
    NoBody = NoBody
    Suggestion = {g1}
    NoSuggestion = NoSuggestion
    Curator = {p1, p2}
    MaxRevisions = 2
SYMMETRY Interchangeable
INVARIANTS
    OccurrencesAreSound OneVoicePerDate EditsAreWhole SessionIsWalk LibraryIsWhole
PROPERTIES
    CancelledIsFinal VersionsStand SessionsEndCleanly
CHECK_DEADLOCK FALSE
