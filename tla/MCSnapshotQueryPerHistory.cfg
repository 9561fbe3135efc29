SPECIFICATION Spec
CONSTANTS
    GB = 2
    NoProduct = NoProduct
    Unknown = Unknown
    Clusters = {c1, c2}
    Names = {n1, n2}
    TenantOf <- MCTenantOf
    Unregistered = Unregistered
    Tenant = t1
    c1 = c1
    c2 = c2
    c3 = c3
    t1 = t1
    t2 = t2
    Kind = "snapshot"
    Contents <- MCContents
    Times = {2, 3, 4}
    Interval = 2
    Start = 2
    End = 6
    MaxHistories = 3
INVARIANTS
    DividedByHistories
