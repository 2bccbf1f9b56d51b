SPECIFICATION Spec
CONSTANTS
    Snapshots = {s1, s2}
    MaxWrites = 3
CHECK_DEADLOCK FALSE
PROPERTY
    RevertBoots
