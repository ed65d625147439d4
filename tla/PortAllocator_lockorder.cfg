SPECIFICATION Spec
CONSTANTS
    t1 = t1
    t2 = t2
    sw = sw
    k1 = k1
    k2 = k2
    Threads <- MCThreads
    Sweeper = sw
    Tokens <- MCTokens
    MinPort = 1
    MaxPort = 3
    ReservationLifetime = 1
    MaxTries = 2
    MayFail = TRUE
    NoPort = NoPort
    NoToken = NoToken
SYMMETRY MCSymmetry
INVARIANT LockOrder
CHECK_DEADLOCK FALSE
