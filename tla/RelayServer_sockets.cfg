SPECIFICATION FairSpec
CONSTANTS
    w1 = w1
    w2 = w2
    c1 = c1
    c2 = c2
    c3 = c3
    Workers = {w1, w2}
    Tasks = {"egress", "cleanup"}
    Clients = {c1, c2}
    Home <- MCHome
    Ports = {40000}
    TenantPorts = {}
    Pool <- MCPool
    QueueCap = 1
    StallPolls = 2
    EarlyEnd = FALSE
    MaxBinds = 2
    MaxDeaths = 1
    MaxFaults = 1
INVARIANTS TypeOK BaseIsServed
PROPERTIES OrphansClosed DeadDatapathStops
CHECK_DEADLOCK FALSE
