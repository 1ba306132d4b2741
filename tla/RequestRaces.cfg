SPECIFICATION FairSpec
CONSTANTS
    s1 = s1
    s2 = s2
    first = first
    retry = retry
    c1 = c1
    c2 = c2
    p1 = p1
    Sessions = {s1}
    Handlers = {first, retry}
    SessionOf <- SameSession
    Cancellers = {c1}
    CancelIn <- CancelFirst
    Pollers = {}
    PollIn <- PollFirst
    ChangesBy = {"cad", "native", "direct"}
    MaxPhases <- OnePhase
CHECK_DEADLOCK FALSE
INVARIANTS
    AcceptedCancelWins
    CancelledMeansUnmutated
    RetiredMeansIdle
    UncertaintyIsOwned
    OneResolver
PROPERTIES
    CallersReturn
    RequestsRetire
