SPECIFICATION Spec
CONSTANTS
    taskA = taskA
    taskB = taskB
    readA = readA
    bashB = bashB
    search = search
    Top = Top
    Calls = {taskA, taskB, readA, bashB, search}
    SubAgents = {taskA, taskB}
    ParentOf <- Tree
    Sensitive = {}
    Permits = 2
    Attempts = 2
INVARIANTS
    SubAgentsProgress
CHECK_DEADLOCK FALSE
