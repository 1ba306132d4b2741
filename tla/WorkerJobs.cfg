SPECIFICATION FairSpec
CONSTANTS
    Jobs = {j1, j2, j3}
    Slots = 2
    NULL = NULL
INVARIANTS
    TypeOK
    SlotsAccounted
    OneWorker
    StoppedMeansIdle
PROPERTIES
    AnsweredNeverLaunched
    CallersReturn
CHECK_DEADLOCK FALSE
