SPECIFICATION FairSpec
CONSTANTS
    Interactions = {i1, i2}
    Runs = {r1}
    NoRun = NoRun
    Bodies = {b1, b2}
    NoBody = NoBody
INVARIANTS
    NoOrphanEntry
    OutcomeExplained
PROPERTIES
    EveryWaitEnds
    ImplementsCells
CHECK_DEADLOCK FALSE
