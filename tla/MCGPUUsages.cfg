SPECIFICATION Spec
CONSTANTS
    Clusters = {c1, c2, c3}
    Names = {n1, n2}
    TenantOf <- MCTenantOf
    Unregistered = Unregistered
    Tenant = t1
    c1 = c1
    c2 = c2
    c3 = c3
    t1 = t1
    t2 = t2
    na = na
    nb = nb
    Kind = "gpu"
    Contents <- MCContents
    Times = {2, 3, 4}
    Interval = 2
    Start = 2
    End = 6
    MaxHistories = 2
INVARIANTS
    AverageAtMostMax
    PeaksShown
    NodesOnTheirOwn
SYMMETRY Symmetry
