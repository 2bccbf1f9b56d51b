SPECIFICATION Spec
CONSTANTS
    Input = 2
    Output = 3
CHECK_DEADLOCK FALSE
INVARIANT
    CloseSucceeds
