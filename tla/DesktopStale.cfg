SPECIFICATION Spec
CONSTANTS
    Paths = {a, b}
    None = None
    Fallback = Fallback
    Candidates = 2
    MaxRequests = 3
    MaxReloads = 0
    Unsteady = {a, b}
INVARIANTS PageFollowsWorkspace
CHECK_DEADLOCK FALSE
