SPECIFICATION FairSpec
CONSTANTS
    p = p
    q = q
    Ids = {i1}
    Procs = {p, q}
    NoProc = NoProc
    Callers = {c1, c2}
    At <- InFirst
    Schedules = {s1, s2, sx}
    Unparsable = {sx}
    NoJob = NoJob
    NoId = NoId
    MaxEdits = 3
    MaxStops = 1
INVARIANTS
    StoreMatchesEdits
    
PROPERTIES
    PausedStaysQuiet
    
CHECK_DEADLOCK FALSE
