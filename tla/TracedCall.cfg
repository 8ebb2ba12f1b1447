SPECIFICATION CallSpec
CONSTANTS
    Documents <- MCDocuments
    Requests <- MCRequests
    ShippedDomain <- MCShippedDomain
    EnvModes = {"", "warn", "block"}
    MaxEdits = 2
    MaxOthers = 1
    Absent = absent
    Broken = broken
INVARIANTS
    StraysByReselection
    DenyListHolds
    EnforcementHolds
    SettledDecision
    DeniedUntouched
    
    EventTruthful
CHECK_DEADLOCK FALSE
