SPECIFICATION FairSpec
CONSTANTS
    Input = 2
    Output = 3
CHECK_DEADLOCK FALSE
INVARIANTS
    EndMeansAllRead
    EndsOnlyWhenClosed
PROPERTIES
    CloseIsSeen
    CallsReturn
