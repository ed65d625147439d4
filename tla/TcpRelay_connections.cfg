SPECIFICATION FairSpec
CONSTANTS
    c1 = c1
    c2 = c2
    b1 = b1
    b2 = b2
    k1 = k1
    k2 = k2
    Clients = {c1, c2}
    Bridge <- MCBridge
    Key <- MCKey
    Keys = {k1, k2}
    Peers = {1}
    Ports = {40000}
    MaxTotal = 1
    Cut = FALSE
    MaxIds = 2
    MaxOpens <- MCOpens
    None = None
INVARIANTS TypeOK OwnerOnly ReleasedOnClose
CHECK_DEADLOCK FALSE
PROPERTIES PendingEnds ListenersEnd
