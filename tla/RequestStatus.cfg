SPECIFICATION Spec
CONSTANTS
    s1 = s1
    s2 = s2
    first = first
    retry = retry
    c1 = c1
    c2 = c2
    p1 = p1
    Sessions = {s1, s2}
    Handlers = {first}
    SessionOf <- SameSession
    Cancellers = {}
    CancelIn <- CancelFirst
    Pollers = {p1}
    PollIn <- PollRefreshed
    ChangesBy = {"native"}
    MaxPhases <- OnePhase
CHECK_DEADLOCK FALSE
PROPERTIES
    ReportMeansIdle
