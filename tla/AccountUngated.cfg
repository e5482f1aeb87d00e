SPECIFICATION Spec
CONSTANTS
    c1 = c1
    c2 = c2
    Callers = {c1, c2}
    Gated = FALSE
    LossyHandover = FALSE
    QuietHoursEnabled = TRUE
    CallPriorities = {"normal"}
    MinInterval = 2
    Hour = 3
    MaxPerHour = 3
    BurstSize = 2
    MaxPerDay = 5
    MaxWait = 1
    MaxLogins = 3
    MaxFailedLogins = 1
    CredentialsHold = 2
    BootstrapHold = 2
    BackoffBase = 1
    BackoffMax = 2
    BatchGrace = 1
    CallCosts = {1}
    LoginCosts = {1, 2}
    MaxExtra = 1
    MaxClock = 4
    MaxToday = 1
    MaxStepsBack = 0
    MaxFailures = 1
SYMMETRY AnyOrderOfCallers
INVARIANT FailedLoginBound
PROPERTY AdmissionSpacing
PROPERTY HoldNotDowngraded
PROPERTY QuietHoursBound
INVARIANT BucketConserved
