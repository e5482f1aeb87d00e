SPECIFICATION Spec
CONSTANTS
    a = a
    b = b
    marks = marks
    timetable = timetable
    Tiers = {marks, timetable}
    Enabled = {marks, timetable}
    Interval <- ShortIntervals
    Rank <- TwoRanks
    TieBreak <- TwoNames
    RetriesPerInterval = 2
    Children <- OneChild
    EventTiers = {}
    FirstAttempts = 1
    PresumedDead = 3
    DayLength = 4
    NightStart = 2
    Grace = 1
    RetryDelays = {0}
    StartTimes = {0}
    MayFail = TRUE
    MaxClock = 3
    MaxFailures = 1
    MaxReloads = 0
INVARIANT TypeOK
PROPERTY EarlyOncePerInterval
PROPERTY FailedTierPaced
