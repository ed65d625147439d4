SPECIFICATION FairSpec
CONSTANTS
    t1 = t1
    t2 = t2
    p1 = p1
    p2 = p2
    Threads = {t1}
    Ports = {p1}
    Capacity = 2
    BatchMax = 2
    MaxId = 2
    MaxRev = 1
    MaxDrops = 2
    MaxFaults = 1
    MaxToggles = 1
    None = None
INVARIANTS TypeOK ReadyIsPersisted
PROPERTY SelfHealing
CHECK_DEADLOCK FALSE
