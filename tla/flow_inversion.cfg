SPECIFICATION Spec
CONSTANTS
    Jobs = 3
    Prios = 2
    Job <- MCJob
    Workflows <- Dags
    MaxAttempts = 1
    Faults <- NoFaults
    Stray = {}
    Api <- MCApi
INVARIANTS NoReadyLeft
CHECK_DEADLOCK FALSE
