SPECIFICATION FairSpec
CONSTANTS
    p1 = p1
    p2 = p2
    r1 = r1
    r2 = r2
    r3 = r3
    r4 = r4
    a = a
    b = b
    c = c
    f1 = f1
    f2 = f2
    None = None
    Proc <- TwoProcesses
    Res <- FourReservations
    Path <- Paths
    File <- Files
    Owner <- OwnerOfFour
    PathOf <- TwoFiles
    FileOf <- FilesOfNames
    LastSubnet = 1
    FirstOf <- FirstTwo
    LastOf <- ToOne
    Killable <- TwoProcesses
INVARIANTS
    TypeOK
    Exclusive
    Locked
    DestroyFindsItsEntries
PROPERTIES
    ImplementsTable
    FreeSubnetIsFound
