SPECIFICATION LeadFairSpec
CONSTANTS
    NoSession = NoSession
    NoLease = NoLease
    NoCapsule = NoCapsule
    Session = {a, b}
    MaxEpoch = 2
    MaxCycle = 2
    MaxChanges = 1
    MaxFaults = 1
INVARIANTS
    WakeIsAnchored
    ReceiptIsInChain
PROPERTIES
    SavesAreFenced
    TakenAsFrozen
    RotationEnds
CHECK_DEADLOCK FALSE
