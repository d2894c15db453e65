SPECIFICATION Spec
CONSTANTS
    p1 = p1
    p2 = p2
    p3 = p3
    r1 = r1
    r2 = r2
    h1 = h1
    NoLease = NoLease
    Proc <- MCProc
    Run <- MCRun
    RunOf <- TwoRuns
    Host <- OneHost
    HostOf <- AllOnOne
    SpaceOf <- Container
    TTL = 2
    Faults = {"crash", "late", "busy", "orphan"}
    MaxFaults = 2
    MaxTime = 3
    MaxGeneration = 3
CHECK_DEADLOCK FALSE
INVARIANTS
    CleanWasHeld
PROPERTIES
    HoldEndsByHolder
