SPECIFICATION MCSpec
CONSTANTS
    Ctl = {s, t}
    First = "a"
    Second = "b"
    Task = {"a", "b"}
    Repair = {"r"}
    Deps <- OneAfterTheOther
    MaxRejections = 1
    MaxReign = 3
    MaxCand = 2
    MaxMishaps = 2
    MaxWrites = 6
SYMMETRY Sessions
INVARIANTS
    FileIsTrue
    MainlineIsEarned
    TimedWaitHasTimer
PROPERTIES
    SettledIsFinal
CHECK_DEADLOCK FALSE
