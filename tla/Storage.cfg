SPECIFICATION MCSpec
CONSTANTS
    Steward = {p, q}
    first = p
    x = x
    y = y
    Item = {x, y}
    Entry = {1, 2}
    Partner <- MCPartner
    NoJob = NoJob
    NoBundle = NoBundle
    MaxJobs = 2
    MaxEvents = 2
INVARIANTS
    MovesAreSafe
PROPERTIES
    OriginalIsThere
    IntentsAreResolved
CHECK_DEADLOCK FALSE
