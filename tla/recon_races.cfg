SPECIFICATION Spec
CONSTANTS
    Job = {j1, j2, j3}
    Worker = {w1, w2}
    NoJob = NoJob
    Faults = 1
SYMMETRY Symmetry
INVARIANTS TypeOK  PayloadsKept 
CHECK_DEADLOCK FALSE
