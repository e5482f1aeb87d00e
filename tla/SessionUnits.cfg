SPECIFICATION Spec
CONSTANTS
    s1 = s1
    s2 = s2
    Services = {s1}
    Strategy = "lazy"
    Evidence = 2
    PresumedDead = 2
    ProbeInterval = 2
    MinSample = 1
    ServerTimeout = 2
    MaxDrops = 2
    Answers = {"gone", "refused", "abandoned"}
    LimiterMayRefuse = TRUE
    CallsPerBatch = 2
    MaxClock = 2
INVARIANT TypeOK
INVARIANT ClientStaysPut
INVARIANT UnitBound
INVARIANT OneLoginPerBatch
CHECK_DEADLOCK FALSE
INVARIANT FreshPerBatch
PROPERTY WorkEnds
