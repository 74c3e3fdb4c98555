SPECIFICATION FairSpec
CONSTANTS
    Jobs = 3
    Prios = 1
    Job <- MCJob
    Workflows <- Forests
    MaxAttempts = 2
    Faults <- NoFaults
    Stray = {}
    Api <- MCApi
PROPERTIES WorkflowEnds
CHECK_DEADLOCK FALSE
