SPECIFICATION FairSpec
CONSTANTS
    a = a
    b = b
    c = c
    p1 = p1
    p2 = p2
    Nodes = {a, b}
    Ports = {p1}
    Pick <- MCOneNode
    SuspicionTicks = 2
    Limit = 2
    Faults = {"beat", "list", "find", "claim"}
    Stallers = {}
    Drainers = {a, b}
    Returners = {a, b}
    MaxId = 2
    MaxCrashes = 1
    MaxRestarts = 1
    MaxErrors = 1
    MaxTouches = 0
    None = None
PROPERTIES OrphansAdopted SweepsEnd
CHECK_DEADLOCK FALSE
