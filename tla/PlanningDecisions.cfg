SPECIFICATION PlanningSpec
CONSTANTS
    Proc = {a, b, c}
    Nobody = Nobody
    Empty = Empty
    Kinds = {"plan"}
    MaxDeaths = 1
    MaxRevision = 2
    File = {f}
    Torn = Torn
    MaxModels = 1
    Keepers = {a, b, c}
    MaxUsers = 3
SYMMETRY Interchangeable
INVARIANTS
    DecisionsAreRetained
CHECK_DEADLOCK FALSE
