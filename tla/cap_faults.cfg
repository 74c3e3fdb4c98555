CONSTANTS
    Job = {j1, j2, j3, j4}
    Worker = {w1, w2}
    Recurring = {}
    NoJob = NoJob
    MaxConcurrent = 1
    Faults <- MCFaults
    Crashes = 1
    Expiries = 1
    Throws = 1
    Retries = 0
    Repeats = 0
    Rejects = 1
    Locks = 1
SYMMETRY Symmetry
SPECIFICATION Spec
INVARIANTS
    TypeOK
    SlotLedger
    CapSlack
    NoDuplicate
    LostOnlyByCrash
CHECK_DEADLOCK FALSE
