SPECIFICATION FairSpec
CONSTANTS
    Pods = {p1, p2}
    NumCollectors = 2
    LeaderElection = TRUE
    NoPod = NoPod
INVARIANTS
    TypeOK
    SingleReporter
    Lockstep
PROPERTIES
    ReturnedLoopEndsProcess
    KeepsReporting
