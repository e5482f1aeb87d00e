\* Two flows, or the account with two children of two logins.
SPECIFICATION Spec
CONSTANTS
  c1 = c1
  c2 = c2
  x = x
  y = y
  loginX = loginX
  loginY = loginY
  Callers = {c1, c2}
  LoginOf <- TwoLogins
  MinInterval = 1
  Burst = 4
  Rate = 4
  MaxWait = 2
  MaxLogins = 2
  MaxFailed = 2
  Window = 2
  CredentialsHold = 2
  BackoffBase = 1
  BackoffMax = 2
  MaxTime = 4
  MaxFailures = 1
  MaxDays = 2
  MaxStepsBack = 1
INVARIANT PaidBeforeSent
INVARIANT LoginAllowance
INVARIANT RightToken
PROPERTY CredentialsHoldServed
CHECK_DEADLOCK FALSE
SYMMETRY Alike
