SPECIFICATION Spec
CONSTANTS
    c1 = c1
    c2 = c2
    Callers = {c1, c2}
    Gated = TRUE
    LossyHandover = FALSE
    QuietHoursEnabled = FALSE
    CallPriorities = {"critical", "low"}
    MinInterval = 1
    Hour = 3
    MaxPerHour = 3
    BurstSize = 2
    MaxPerDay = 5
    MaxWait = 1
    MaxLogins = 2
    MaxFailedLogins = 2
    CredentialsHold = 2
    BootstrapHold = 2
    BackoffBase = 1
    BackoffMax = 2
    BatchGrace = 1
    CallCosts = {1}
    LoginCosts = {1}
    MaxExtra = 1
    MaxClock = 4
    MaxToday = 1
    MaxStepsBack = 1
    MaxFailures = 2
SYMMETRY AnyOrderOfCallers
INVARIANT TypeOK
INVARIANT LoginCap
PROPERTY ImplementsPact
\* An entry unloaded on one date and still unloaded on another, once the clock is
\* spent, stays so: with a handover that keeps the day's counters it has no Load.
CHECK_DEADLOCK FALSE
PROPERTY ThrottledHonest
