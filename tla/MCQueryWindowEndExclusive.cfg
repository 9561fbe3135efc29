SPECIFICATION Spec
CONSTANTS
    Interval = 4
    Duration = 8
    MaxNow = 20
    Stamps <- MCStamps
    Times <- MCTimes
INVARIANTS
    EndIsExclusive
