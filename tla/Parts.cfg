SPECIFICATION Spec
CONSTANTS
    Objects = 4
    Resources <- FourResources
    RefsChoices <- BothWays
    Faults = {"create", "halfway", "destroy", "interrupt"}
    Rounds = 3
    SessionFaults = 3
    CookedObjects = 3
    Cookings = 4
    Recursion = 3
    CookingFaults = 2
    NumFiles = 2
    Chunks = 2
    MaxCalls = 3
    Part = Part
    Size = 2
    MaxDepth = 2
    MaxSaid = 1
    MaxFaults = 1
    Timeouts = {0, 3, 5, 6}
    QuietTimes = {1, 3}
    PingTimeout = 2
    Interval = 1
    MaxTime = 12
    Networks <- TwoNetworks
    HostIp <- SameAddress
    n1 = n1
    n2 = n2
    NetworkFaults = 2
    Interfaces = {i1, i2}
    Prefixes = {sd, hd}
    Letters = 2
    Slots <- TwoSlots
    MaxDisks = 7
    MachineNames = {m, renamed}
    Nets = {p, q}
    Volumes = {v}
    Ips = {a}
    OwnNames = {own1, own2}
    MaxAdded = 4
    Addresses <- EightAddresses
    Sizes = {1, 2, 4, 8}
    Macs = {m1, m2, m3}
    MaxHosts = 3
    Named = Named
    None = None
CHECK_DEADLOCK FALSE
INVARIANTS
    SessionLosesNothing
    OneDefault
    BootedForAReason
    NodeIsClean
    DevicesDiffer
    FreeIps
PROPERTIES
    SessionInOrder
    MovedOrUnchanged
    GroupIsOne
