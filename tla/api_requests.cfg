SPECIFICATION Spec
CONSTANTS
    r1 = r1
    r2 = r2
    r3 = r3
    k = k
    Request = {r1, r2, r3}
    Node = {1, 2, 3}
    Tenant = Tenant
    NoKey = NoKey
    NoDeps = NoDeps
    Crashes = 1
    Throws_ = 1
    Fails_ = 1
    Faults <- MCFaults
    Scenes <- MCScenes
INVARIANTS TypeOK LimboIsTold SubmittedOnce FlowWhole CycleCheckExact
CHECK_DEADLOCK FALSE
