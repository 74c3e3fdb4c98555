CONSTANTS
    Job = {j1, j2}
    Worker = {w1, w2}
    Recurring = {j1}
    NoJob = NoJob
    MaxConcurrent = 1
    Faults <- MCFaults
    Crashes = 1
    Expiries = 1
    Throws = 1
    Retries = 1
    Repeats = 1
    Rejects = 1
    Locks = 1
SPECIFICATION FairSpec
PROPERTIES  AdmittedCompletes
CHECK_DEADLOCK FALSE
