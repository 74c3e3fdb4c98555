SPECIFICATION Spec
CONSTANTS
    Jobs = 2
    Prios = 1
    Job <- MCJob
    Workflows <- Chains
    MaxAttempts = 2
    Faults <- NoFaults
    Stray = {}
    Api <- MCApi
INVARIANTS SkippedByFailure
CHECK_DEADLOCK FALSE
