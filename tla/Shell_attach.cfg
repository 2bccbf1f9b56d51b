SPECIFICATION FairSpec
CONSTANTS
    Commands = 3
    Obstinate <- TheLast
    Endless <- LastTwo
    MaxAttempts = 3
CHECK_DEADLOCK FALSE
INVARIANT
    InStep
PROPERTIES
    ImplementsRunner
    CalmAttachSucceeds
    RunEnds
