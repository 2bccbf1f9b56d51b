SPECIFICATION FairSpec
CONSTANTS
    Snapshots = {s1, s2}
    MaxWrites = 2
CHECK_DEADLOCK FALSE
INVARIANTS
    AttachedWhileUp
    NothingLater
PROPERTIES
    SteadyRevertBoots
    RevertEnds
