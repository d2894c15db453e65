SPECIFICATION MCSpec
CONSTANTS
    Process = {1,2}
    Namespace = {"host","box"}
    Pid = {7,8}
    Default = 2
    Asked = {0, 4}
    CriticalBelow = 1
    Reserve = 2
    PressureBelow = 3
    NormalAt = 5
    Hysteresis = 2
    InodeFloor = 1
    InodeHysteresis = 1
    InodeCritical = 2
    InodePressure = 3
    InodeNormal = 4
    InodeSlack = 1
    HistoryWindow = 2
    HostMaxAge = 2
    HostFree = 7
    GuestFree = 8
    Inodes = 6
    MaxReservations = 2
    MaxClock = 2
    MaxHappenings = 1
    Proc = {"p","q"}
    Session = {"s","t"}
    Workspace = {"w"}
    MaxLives = 3
    MaxSequence = 3
    MaxFaults = 2
    Driver = {"p","r"}
    Host = {"h","k"}
    HostOf <- MCHostOf
    SpaceOf <- MCSpaceOf
    Ttl = 2
    MaxRenewFailures = 2
    MinAge = 1
    MaxLife = 3
    MaxTime = 3
    MaxGeneration = 3
    MaxTroubles = 2
    Pane = {"P1", "P2"}
    Ask = {"a", "b"}
    MaxTransientRetries = 1
    MaxSchemaRepairs = 1
    MaxDispatches = 3
    MaxDisturbances = 2
    MaxAttempts = 2
    MaxTouches = 2
    MaxMishaps = 2
    Procs = {1, 2, 3}
    Rounds = 3
    MaxFailures = 1
    Foci = {"admission", "drive", "scratch", "lease", "dispatch", "seal", "quiet"}
INVARIANTS
    SpaceIsAccounted
    OwnershipIsKept
    LeaseIsKept
    AnswersTheAsked
    SendsAreCharged
    SealsTell
    SignalsItsOwn
PROPERTIES
    LeasesGrow
    ArchivedHasEnded
    PromptsAreSettled
    ClosesItsOwn
    KeptIsSealed
    FrozenIsQuiet
CHECK_DEADLOCK FALSE
