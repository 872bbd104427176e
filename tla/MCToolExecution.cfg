SPECIFICATION FairSpec
CONSTANTS
    taskA = taskA
    taskB = taskB
    readA = readA
    bashB = bashB
    search = search
    Top = Top
    Calls = {taskA, taskB, readA, bashB, search}
    SubAgents = {taskA, taskB}
    ParentOf <- Tree
    Sensitive = {bashB, taskA}
    Permits = 2
    Attempts = 2
INVARIANTS
    ApprovedBeforeRun
    NoStrayTools
PROPERTIES
    TurnPhaseEnds
CHECK_DEADLOCK FALSE
