SPECIFICATION FairSpec
CONSTANTS
    Capacity = 2
    MaxEvents = 4
INVARIANTS
    NothingLostSilently
    StreamComplete
    RunStaysWatched
PROPERTIES
    StreamEnds
CHECK_DEADLOCK FALSE
