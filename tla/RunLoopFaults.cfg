SPECIFICATION Spec
CONSTANTS
    c1 = c1
    c2 = c2
    Criteria <- OneCriterion
    InitTree <- NothingSatisfied
    NoTree = NoTree
    MaxIterations = 2
    MaxLoops = 2
    MaxEvents = 2
    MaxResumes = 1
    Contract = {"none", "ask", "park", "stop"}
INVARIANTS
    TypeOK
    OnlyProven
    HaltIsKept
    JudgedIsCharged
PROPERTIES
    OnlyCommandsLift
    AcceptedWasFrozen
