SPECIFICATION FairSpec
CONSTANTS
    Paths = {a, b}
    None = None
    Fallback = Fallback
    Candidates = 2
    MaxRequests = 2
    MaxReloads = 1
    Unsteady = {b}
INVARIANTS
    ShownIsRoot
    NewestAnswerBelongs
PROPERTIES PageLoads
CHECK_DEADLOCK FALSE
