SPECIFICATION FairViewSpec
CONSTANTS
    Runs = {r1}
    Readers = {}
    MaxLost = 1
    MaxLines = 1
    MaxHead = 1
    Viewers = {d1}
    Limit = 1
    Kinds = {"unstaged"}
    Above <- MCAbove
INVARIANTS
    StatusTruthful
    CountExplained
    GitTruthful
    ViewsTruthful
    ExportAgrees
PROPERTIES
    RunSettles
    MovesPointer
CHECK_DEADLOCK FALSE
