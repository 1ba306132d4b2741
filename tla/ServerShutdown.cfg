SPECIFICATION FairSpec
CONSTANTS
    n1 = n1 n2 = n2 t1 = t1 g1 = g1
    NULL = NULL
    Runtimes = {n1, n2}
    RemoteStops = {t1}
    OwnerStops = {g1}
    Fallible = {"worker"}
    FenceMayFail = TRUE
    RemovalMayFail = TRUE
INVARIANTS
    TypeOK
    RunningAlone
    StoppedMeansReleased
    OneTeardown
    DisposalCanBeRetried
PROPERTIES
    StopsEnd
CHECK_DEADLOCK FALSE
