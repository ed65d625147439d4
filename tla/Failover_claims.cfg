SPECIFICATION Spec
CONSTANTS
    a = a
    b = b
    c = c
    p1 = p1
    p2 = p2
    Nodes = {a, b, c}
    Ports = {p1, p2}
    Pick <- MCApart
    SuspicionTicks = 1
    Limit = 1
    Faults = {"flush", "load", "claim", "refetch", "remove", "revert"}
    Stallers = {}
    Drainers = {a}
    Returners = {a}
    MaxId = 2
    MaxCrashes = 1
    MaxRestarts = 1
    MaxErrors = 1
    MaxTouches = 1
    None = None
INVARIANTS TypeOK HolderOwnsRow OneHolder
CHECK_DEADLOCK FALSE
