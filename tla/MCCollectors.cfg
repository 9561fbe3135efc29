SPECIFICATION FairSpec
CONSTANTS
    Nodes = {n1, n2}
    Pods = {p1, p2}
    p1 = p1
    Limits <- MCLimits
    NodeStates <- MCNodeStates
    NoLimit = NoLimit
    NoLabel = NoLabel
    BadLabel = BadLabel
    Unknown = Unknown
    MiB = 4
    MaxChanges = 4
    Hosts = {a, b}
    NodeObjects <- MCNodeObjects
    Exports <- MCExports
    a = a
    b = b
    NoPod = NoPod
    NaN = NaN
    Duration = 1
    MaxNow = 2
INVARIANTS
    NodeSnapshotTypeOK
    OccupancyFits
    GPUTelemetryTypeOK
    NoDivisionByZero
    AverageAtMostMax
    UseImpliesMemory
    PeaksAreSeen
PROPERTIES
    QuietClusterIsExact
