\* A process whose listeners serve undisturbed has nothing left to do.
CHECK_DEADLOCK FALSE
SPECIFICATION FairSpec
CONSTANTS
    Pods = {p1, p2}
    Unreadable = Unreadable
    Files <- MCFiles
    MaxPort = 3
INVARIANTS
    TypeOK
    SchemaBeforeService
PROPERTIES
    ReturnedListenerEndsProcess
    EventuallyServes
