SPECIFICATION Spec
CONSTANTS
    Guards = {g1, g2}
    Commands <- MCCommands
    Earlier <- MCEarlier
    Older <- MCOlder
    Newline = newline
    Part = part
    unknown = unknown
    foreign = foreign
    Importers = {i1, i2}
    DryRuns = {d}
    Placed <- MCPlaced
    None = none
SYMMETRY Interchangeable
INVARIANTS
    OnlyValidated
    MetadataMatches
    ReportedIsStored
    FieldsKept
    RefusedForCause
    RedactionMarked
CHECK_DEADLOCK FALSE
