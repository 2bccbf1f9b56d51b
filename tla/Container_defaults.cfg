SPECIFICATION FairSpec
CONSTANTS
    Containers = {c1, c2}
    Unset = Unset
    Outer = Outer
    NotYet = NotYet
CHECK_DEADLOCK FALSE
INVARIANTS
    DefaultIsLive
    ChildrenAgree
    NothingLeft
PROPERTY
    RemovedAfterwards
