SPECIFICATION WaveFairSpec
CONSTANTS
    Session = {s, t}
    Nodes = 2
    Budget = 2
    Want = 2
    Keep <- MCKeep
    MaxRounds = 2
    MaxAttempts = 2
    MaxWaits = 1
    MaxFaults = 1

    
PROPERTIES
    OutcomesEnd
CHECK_DEADLOCK FALSE
