SPECIFICATION Spec
CONSTANTS
    t1 = t1
    t2 = t2
    t3 = t3
    c1 = c1
    c2 = c2
    c3 = c3
    u1 = u1
    u2 = u2
    ten = ten
    p1 = p1
    p2 = p2
    p3 = p3
    Threads = {t1, t2}
    Clients = {c1, c2}
    Users = {u2}
    Tenants = {ten}
    TenantOf <- MCTenantOf
    NoTenant = NoTenant
    Global = Global
    Cap <- MCNoCap
    Ports = {p1, p2, p3}
    MaxId = 3
    MaxEpoch = 1
    Ops = {"allocate", "refresh", "force", "quic"}
    Rows = {}
    None = None
VIEW MCView
SYMMETRY MCSymmetry
INVARIANTS PortsOwned RelayIndexExact BilledOnce IdIndexExact
CHECK_DEADLOCK FALSE
