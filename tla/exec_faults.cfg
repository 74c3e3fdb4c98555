SPECIFICATION Spec
CONSTANTS
    Job = {j1}
    Recurring = {}
    Worker = {w1, w2}
    Limited = {}
    RateLimit = 0
    MaxAttempts = 3
    Dbs = 2
    Crashes = 2
    Stalls = 1
    Repeats = 0
    Faults <- MCFaults
    None = None
SYMMETRY Symmetry
INVARIANTS TypeOK ReleaseBalance CountedOnce OutcomeAgrees RowsClosed
PROPERTIES CompletedSticks
CHECK_DEADLOCK FALSE
