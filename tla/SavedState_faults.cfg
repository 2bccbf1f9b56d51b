SPECIFICATION Spec
CONSTANTS
    v1 = v1
    v2 = v2
    m1 = m1
    m2 = m2
    Volumes <- TwoVolumes
    Machines <- TwoMachines
    Resources <- InOrder
    DiskOf <- Disks
    Nothing = Nothing
    MaxWrites = 2
    MaxBoots = 3
    MaxFaults = 2
CHECK_DEADLOCK FALSE
INVARIANTS
    Coherent
    SavedTogether
PROPERTIES
    GoesOn
    SaveGivesBack
    OneLeftAtMost
