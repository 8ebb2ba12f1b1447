SPECIFICATION Spec
CONSTANTS
    Guards = {g}
    Commands <- FewCommands
    Earlier <- NoEarlier
    Older <- MCOlder
    Newline = newline
    Part = part
    unknown = unknown
    foreign = foreign
    Importers = {i1, i2}
    DryRuns = {d}
    Placed <- NonePlaced
    None = none
INVARIANTS ImportsKeepTheRun
CHECK_DEADLOCK FALSE
