SPECIFICATION FairSpec
CONSTANTS
    c1 = c1 c2 = c2 c3 = c3
    NULL = NULL
    Conns = {c1, c2, c3}
    HandlerSlots = 2
    GeneralSlots = 1
    ControlSlots = 1
    callsOf <- Batches
INVARIANTS
    TypeOK
    SlotsAccounted
    NothingAfterClose
    PauseIsHonest
PROPERTIES
    ControlReachable
    CloseEnds
CHECK_DEADLOCK FALSE
