SPECIFICATION Spec
CONSTANTS
    t1 = t1
    t2 = t2
    t3 = t3
    c1 = c1
    c2 = c2
    c3 = c3
    u1 = u1
    u2 = u2
    ten = ten
    p1 = p1
    p2 = p2
    p3 = p3
    Threads = {t1, t2}
    Clients = {c1, c2}
    Users = {u1, u2}
    Tenants = {ten}
    TenantOf <- MCTenantOf
    NoTenant = NoTenant
    Global = Global
    Cap <- MCCap
    Ports = {p1, p2}
    MaxId = 2
    MaxEpoch = 1
    Ops = {"allocate", "release", "sweep", "migrate", "rehydrate"}
    Rows <- MCRows
    None = None
VIEW MCCountView
SYMMETRY MCThreadSymmetry
INVARIANTS TypeOK CountsExact WithinLimits
CHECK_DEADLOCK FALSE
