SPECIFICATION RecordsSpec
CONSTANTS
    Document = {d1, d2}
    Link = {t1}
    NoLink = NoLink
    Clerk = {k1, k2}
    LastDay = {1}
    MaxDay = 2
    Warning = 0
    Doc = {d1, d2}
    Key = {k1, k2}
    NoKey = NoKey
    Caller = {c1, c2}
    Reader = {c1, c2}
    Form = {f1, f2}
    Asking = {f1}
    NoForm = NoForm
    Editor = {k1, k2}
    MaxChanges = 2
    MaxMoves = 1
SYMMETRY Interchangeable
INVARIANTS
    LicenceIsSound RankingIsSound AcknowledgementsHold
PROPERTIES
    InactiveStands LostOnlyToStaleCalls
CHECK_DEADLOCK FALSE
