SPECIFICATION Spec
CONSTANTS
    c1 = c1
    c2 = c2
    Criteria <- OneCriterion
    InitTree <- NothingSatisfied
    NoTree = NoTree
    MaxIterations = 3
    MaxLoops = 2
    MaxEvents = 1
    MaxResumes = 1
    Contract = {"none"}
INVARIANTS
    PlanNameIsFree
