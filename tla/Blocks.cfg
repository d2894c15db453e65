SPECIFICATION MCSpec
CONSTANTS
    c1 = c1
    c2 = c2
    Criteria <- TwoCriteria
    InitTree <- NothingSatisfied
    NoTree = NoTree
    MaxIterations = 3
    MaxLoops = 2
    MaxEvents = 0
    MaxResumes = 1
    Contract = {"none"}
    Passer = {u, v}
    Halt = {"plain", "negative", "timed", "human"}
    Tiers <- MCTiers
    RoundCap <- MCRoundCap
    UnsolvableFrom <- MCUnsolvableFrom
    DispatchFailures = 1
    MaxParks = 1
    OwnerDossiers = 2
    OwnerRounds = 2
    RenewRounds = 1
    PassRounds = 1
    MaxVerifyAttempts = 2
    MaxApplyAttempts = 2
    MaxApplies = 2
    MaxRaises = 2
    MaxUpsets = 2
    MaxRenewals = 1
    Foci = {"iterations", "rounds", "tiers", "owner", "repair"}
SYMMETRY Workers
INVARIANTS
    VerdictsAreEarned
    FixesAreEarned
PROPERTIES
    NoRegression
CHECK_DEADLOCK FALSE
