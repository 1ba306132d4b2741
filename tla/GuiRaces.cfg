SPECIFICATION Spec
CONSTANTS
    r1 = r1 r2 = r2 r3 = r3 r4 = r4 d1 = d1 k1 = k1 k2 = k2
    NULL = NULL
    Requests = {r1, r2}
    Docs = {d1}
    Owners = {k1, k2}
    keysOf <- SameDocument
    ownerOf <- OwnOwner
    Probed = {r1}
    Timed = {r1}
    Expiring = {r1}
    Inline = {}
    Cancellable = {r1, r2}
    Deletable = {d1}
    Shutdown = TRUE
    WakeMayFail = TRUE
INVARIANTS
    TypeOK
    ExclusiveExecution
    UnexecutedNeverRuns
    AnswersAreEarned
    CleanupBeforeWake
    NoLostWake
PROPERTIES
    BusyOnlyWhileOccupied
    TerminalIsFinal
CHECK_DEADLOCK FALSE
