SPECIFICATION FairSpec
CONSTANTS
    Output = 4
    Capacity = 2
    MaxOthers = 2
CHECK_DEADLOCK FALSE
INVARIANT
    LeavesNothing
PROPERTIES
    ImplementsRunner
    CallEnds
    GuardedStops
