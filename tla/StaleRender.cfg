SPECIFICATION DaySpec
CONSTANTS
    ItemTiers <- Tiers
    CollectionsOf <- CollectionsOfTier
    ItemsOf <- Published
    Scoped <- ByPeriod
    Periods <- TwoTerms
    Threads = {"x", "y"}
    Lessons = {"lesson"}
    LessonFacts <- AnyFacts
    NewThreadCap = 2
    MaxExpansions = 1
    Topics <- OnlyItems
    MaxIds = 2
    MaxSent = 3
    DayLength = 12
    Hour = 2
    WeekLength = 2
    LookAhead = 2
    LunchEarliest = 4
    LunchLatest = 6
    LunchMin = 2
    WakeMargin = 1
    HomeworkHorizon = 1
    FirstWeek = 0
    LastWeek = 1
    PeriodEnd <- TwoEnds
    HistoryKept = 1
    ShownTiers <- OneTier
    Answers <- SchoolAnswers
    Quiet <- Night
    StaleAfter = 5
    MaxNow = 15
INVARIANT FreshIsAvailable
CHECK_DEADLOCK FALSE
