SPECIFICATION Spec
CONSTANTS
    Pods = {p1, p2}
    NumCollectors = 2
    NoPod = NoPod
    Calls = {h1, h2}
    Cluster = c1
    Names = {n1}
    Tenant = t1
    Messages = {m1, m2, m3}
    NoRequest = NoRequest
    NoRow = NoRow
    NoMessage = NoMessage
INVARIANTS
    TypeOK
    GPUHistoryHasRow
PROPERTIES
    AckedEndToEnd
    RecordedOnce
SYMMETRY Symmetry
