SPECIFICATION Spec
CONSTANTS
    Calls = {h1, h2}
    Clusters = {c1}
    Names = {n1, n2}
    Tenants = {t1}
    Messages = {m1}
    c1 = c1
    c2 = c2
    t1 = t1
    t2 = t2
    m1 = m1
    m2 = m2
    NoRequest = NoRequest
    NoRow = NoRow
    TenantOf <- MCTenantOf
    Requests <- SnapshotsOnly
PROPERTIES
    ConcurrentUpdateReported
