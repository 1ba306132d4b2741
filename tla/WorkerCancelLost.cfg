SPECIFICATION Spec
CONSTANTS
    Jobs = {j1, j2, j3}
    Slots = 2
    NULL = NULL
INVARIANT
    CancelTerminates
CHECK_DEADLOCK FALSE
