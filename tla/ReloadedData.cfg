SPECIFICATION Spec
CONSTANTS
    a = a
    b = b
    marks = marks
    timetable = timetable
    Tiers = {marks, timetable}
    Enabled = {timetable}
    Interval <- TwoIntervals
    Rank <- TwoRanks
    TieBreak <- TwoNames
    RetriesPerInterval = 2
    Children <- TwoChildren
    EventTiers = {timetable}
    FirstAttempts = 1
    PresumedDead = 3
    DayLength = 8
    NightStart = 3
    Grace = 1
    RetryDelays = {0}
    StartTimes = {0}
    MayFail = TRUE
    MaxClock = 6
    MaxFailures = 2
    MaxReloads = 1
INVARIANT PassBounded
INVARIANT DeadlineHasData
