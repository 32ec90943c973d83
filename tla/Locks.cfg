SPECIFICATION LocksSpec
CONSTANTS
    Proc = {a, b, c, d}
    Nobody = Nobody
    Empty = Empty
    Kinds = {"session", "model", "plan"}
    MaxDeaths = 2
    MaxRevision = 2
    File = {f, g}
    Torn = Torn
    MaxModels = 2
    Keepers = {a, b, c}
    MaxUsers = 3
SYMMETRY Interchangeable
INVARIANTS
    LockIsExclusive
    HistoryIsThePast
    FilesFollowTheModel
CHECK_DEADLOCK FALSE
