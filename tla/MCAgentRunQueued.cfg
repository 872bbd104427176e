SPECIFICATION FairSpec
CONSTANTS
    a = a
    b = b
    s1 = s1
    Runs = {a, b}
    Sessions = {a, b}
    SessionOf <- OwnSession
    MaxRounds = 2
    Synthesize = FALSE
    RunLimit = 1

    
PROPERTIES
    EveryRunEnds
CHECK_DEADLOCK FALSE
