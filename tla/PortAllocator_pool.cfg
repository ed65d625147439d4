SPECIFICATION FairSpec
CONSTANTS
    t1 = t1
    t2 = t2
    sw = sw
    k1 = k1
    k2 = k2
    Threads <- MCThreads
    Sweeper = sw
    Tokens = {k1}
    MinPort = 2
    MaxPort = 3
    ReservationLifetime = 1
    MaxTries = 2
    MayFail = TRUE
    NoPort = NoPort
    NoToken = NoToken
INVARIANTS TypeOK PortHeldOnce NoPortLeak
PROPERTIES ReservationsExpire OperationsReturn
CHECK_DEADLOCK FALSE
