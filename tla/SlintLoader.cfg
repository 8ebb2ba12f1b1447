SPECIFICATION FairSpec
CONSTANTS
    MaxRuns = 2
    MaxLoads = 3
INVARIANTS
    LoadingMeansOneLoad
    WindowConsistent
    BannerTruthful
    RunInHistory
PROPERTIES LoadingEnds
CHECK_DEADLOCK FALSE
