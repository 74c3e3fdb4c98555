SPECIFICATION Spec
CONSTANTS
    Job <- MCJob
    Workflows <- Knots
    MaxAttempts = 2
    Faults <- MCFaults
    Stray = {s1}
    Api <- MCApi
INVARIANTS TypeOK OneActive DependencyOrder StrandedOnlyByFault
CHECK_DEADLOCK FALSE
