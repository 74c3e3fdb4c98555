SPECIFICATION FairSpec
CONSTANTS
    Job = {j1, j2}
    Recurring = {j1}
    Worker = {w1, w2}
    Limited = {w1}
    RateLimit = 1
    MaxAttempts = 2
    Dbs = 0
    Crashes = 0
    Stalls = 0
    Repeats = 1
    Faults <- MCFaults
    None = None
PROPERTIES Settles
CHECK_DEADLOCK FALSE
