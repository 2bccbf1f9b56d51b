SPECIFICATION Spec
CONSTANTS
    p1 = p1
    p2 = p2
    r1 = r1
    r2 = r2
    r3 = r3
    r4 = r4
    a = a
    b = b
    c = c
    f1 = f1
    f2 = f2
    None = None
    Proc <- TwoProcesses
    Res <- ThreeReservations
    Path <- Paths
    File <- Files
    Owner <- OwnerOfThree
    PathOf <- OneName
    FileOf <- FilesOfNames
    LastSubnet = 2
    FirstOf <- FirstTwo
    LastOf <- ToTwo
    Killable <- TwoProcesses
PROPERTY
    ClearOfRoutes
