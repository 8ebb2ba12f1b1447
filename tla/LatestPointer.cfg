SPECIFICATION PointerSpec
CONSTANTS
    Runs = {r1, r2, r3}
    Readers = {d}
    MaxLost = 1
SYMMETRY Interchangeable
INVARIANTS
    LatestReadsFinished
    PointerIsLast
    ReadersFindARun
CHECK_DEADLOCK FALSE
