SPECIFICATION Spec
CONSTANTS
    Job = {j1, j2}
    Worker = {w1, w2}
    None = None
    MaxAttempts = 2
    Faults <- MCFaults
    Awaits = 1
    Crashes = 1
    Stalls = 1
    Recipients = 2
    Malformed = {2}
    HasNext = TRUE
    CleanTemp = TRUE
    UseS3 = TRUE
    Loads <- MCLoads
SYMMETRY Symmetry
INVARIANTS TypeOK   ChainedOnce FilesKept FewReportsLost
 
CHECK_DEADLOCK FALSE
