SPECIFICATION FairSpec
CONSTANTS
    j1 = j1
    j2 = j2
    j3 = j3
    Job = {j1, j2, j3}
    Loads <- MCLoads
    Tick = {t1, t2}
    Base = 1
    MinWorkers = 1
    MaxWorkers = 2
    Cooldown = 1
    Poll = 1
    Window = 1
    None = None
INVARIANTS TypeOK PoolInBounds JobsKept
PROPERTIES CooldownKept AllRun
CHECK_DEADLOCK FALSE
