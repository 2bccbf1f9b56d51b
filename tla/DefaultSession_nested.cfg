SPECIFICATION Spec
CONSTANTS
    N = 2
    MaxCooked = 3
    MaxDepth = 3
    MaxFaults = 1
    None = None
INVARIANT CookedOnce
CHECK_DEADLOCK FALSE
