------------------------- MODULE RateLimiterProofs -------------------------
(***************************************************************************)
(* Proofs about the rate limiter, for every value of its constants.        *)
(***************************************************************************)
EXTENDS RateLimiter, FiniteSetTheorems, TLAPS

-----------------------------------------------------------------------------
(* The operators the layers are built from.                                *)

\* A wait is a number of ticks, and it covers the spacing (_spacing_wait,
\* _token_wait).
LEMMA WaitCoversSpacing ==
    ASSUME TypeOK, NEW cost \in Nat \ {0}
    PROVE  /\ Wait(cost) \in Nat
           /\ clock + Wait(cost) >= lastCall + MinInterval
<1>1. MinInterval \in Nat \ {0} /\ MaxPerHour \in Nat \ {0} /\ Hour \in Nat \ {0}
        /\ BurstSize \in Nat \ {0}
  BY ConfigAssumption DEF ConfigAssumption
<1>2. clock \in Nat /\ lastCall \in Int /\ tokens \in Int
  BY DEF TypeOK
<1>3. SpacingWait \in Nat /\ clock + SpacingWait >= lastCall + MinInterval
  BY <1>1, <1>2 DEF SpacingWait, Most
<1>4. TokenWait(cost) \in Int
  <2>1. Tokens \in Int
    BY <1>1, <1>2 DEF Tokens, Least
  <2>2. ASSUME NEW a \in Int, NEW b \in Nat \ {0} PROVE CeilDiv(a, b) \in Int
    BY <2>2 DEF CeilDiv
  <2>3. cost * Hour - Tokens \in Int
    BY <1>1, <2>1
  <2>4. QED
    BY <1>1, <2>2, <2>3 DEF TokenWait
<1>5. QED
  BY <1>1, <1>2, <1>3, <1>4 DEF Wait, Most

\* Charging keeps the counters well typed (_record_requests).
LEMMA ChargeType ==
    ASSUME TypeOK, NEW n \in Nat, NEW l \in Nat, Charge(n, l)
    PROVE  /\ lastCall' \in Int /\ tokens' \in Int /\ charged' \in Nat
           /\ day' = today /\ callsToday' \in Nat /\ loginsToday' \in Nat
<1>1. MaxPerHour \in Nat /\ Hour \in Nat /\ BurstSize \in Nat
  BY ConfigAssumption DEF ConfigAssumption
<1>2. Tokens \in Int
  BY <1>1 DEF TypeOK, Tokens, Least
<1>3. n * Hour \in Int
  BY <1>1
<1>4. Calls \in Nat /\ Logins \in Nat
  BY DEF TypeOK, Calls, Logins
<1>5. QED
  BY <1>2, <1>3, <1>4 DEF Charge, TypeOK

\* Starting a hold keeps the hold well typed, whatever hold is running.
LEMMA HoldType ==
    ASSUME TypeOK, NEW r \in HoldReasons, NEW s \in Nat, StartHold(r, s)
    PROVE  /\ holdUntil' \in Nat /\ holdReason' \in HoldReasons \union {"none"}
           /\ throttled' \in BOOLEAN
  BY DEF TypeOK, StartHold, Most

\* A request that leaves, or waits to leave, keeps everything well typed.
LEMMA ProceedType ==
    ASSUME TypeOK, NEW c \in Callers, NEW kind \in Kinds, NEW cost \in Nat \ {0},
           Proceed(c, kind, cost)
    PROVE  TypeOK'
<1>1. Wait(cost) \in Nat
  BY WaitCoversSpacing
<1> USE DEF Proceed, envVars, failureVars, holdVars
<1>2. CASE Wait(cost) = 0
  <2>1. Leave(c, kind, cost)
    BY <1>2
  <2>2. /\ lastCall' \in Int /\ tokens' \in Int /\ charged' \in Nat
        /\ day' = today /\ callsToday' \in Nat /\ loginsToday' \in Nat
    BY <2>1, ChargeType DEF Leave
  <2>3. /\ loginCharged' \in Nat /\ lastLeft' \in Int /\ loginsSent' \in Nat
        /\ loginsOn' \in [Dates -> Nat]
        /\ pc' \in [Callers -> {"idle", "sleeping", "flying"}]
        /\ wakeAt' \in [Callers -> Nat]
    BY <2>1 DEF Leave, TypeOK
  <2>4. job' \in [Callers -> [kind : Kinds, cost : Nat \ {0}]]
    BY DEF TypeOK
  <2>5. QED
    BY <2>2, <2>3, <2>4 DEF TypeOK
<1>3. CASE Wait(cost) # 0
  <2>1. /\ day' = today /\ callsToday' \in Nat /\ loginsToday' \in Nat
    BY <1>3 DEF RollDay, Calls, Logins, TypeOK
  <2>2. /\ pc' \in [Callers -> {"idle", "sleeping", "flying"}]
        /\ wakeAt' \in [Callers -> Nat]
        /\ job' \in [Callers -> [kind : Kinds, cost : Nat \ {0}]]
    BY <1>1, <1>3 DEF TypeOK
  <2>3. QED
    BY <1>3, <2>1, <2>2 DEF TypeOK, bucketVars, historyVars
<1>4. QED
  BY <1>2, <1>3

\* A caller that goes back to idle keeps the callers well typed.
LEMMA ReleaseType ==
    ASSUME TypeOK, NEW c \in Callers, Release(c)
    PROVE  /\ pc' \in [Callers -> {"idle", "sleeping", "flying"}]
           /\ job' \in [Callers -> [kind : Kinds, cost : Nat \ {0}]]
           /\ wakeAt' \in [Callers -> Nat]
  BY DEF TypeOK, Release, NoJob, Kinds

\* Settling the charge of a login keeps the counters well typed (note_login).
LEMMA SettleType ==
    ASSUME TypeOK, NEW used \in Nat, SettleLogin(used)
    PROVE  /\ lastCall' \in Int /\ tokens' \in Int /\ charged' \in Nat
           /\ day' = today /\ callsToday' \in Nat /\ loginsToday' \in Nat
           /\ loginCharged' \in Nat
<1>1. CASE loginCharged = 0
  BY <1>1, ChargeType DEF SettleLogin
<1>2. CASE loginCharged # 0 /\ used > loginCharged
  <2>1. used - loginCharged \in Nat
    BY <1>2 DEF TypeOK
  <2>2. QED
    BY <1>2, <2>1, ChargeType DEF SettleLogin
<1>3. CASE loginCharged # 0 /\ ~(used > loginCharged)
  BY <1>3 DEF SettleLogin, RollDay, Calls, Logins, TypeOK, bucketVars
<1>4. QED
  BY <1>1, <1>2, <1>3

\* A failure counts one more and holds for a delay that is a number of ticks.
LEMMA FailureType ==
    ASSUME TypeOK, NoteFailure
    PROVE  /\ consecutiveFailures' \in Nat
           /\ holdUntil' \in Nat /\ holdReason' \in HoldReasons \union {"none"}
           /\ throttled' \in BOOLEAN
<1>1. PICK delay \in BackoffDelays(consecutiveFailures + 1) : StartHold("backoff", delay)
  BY DEF NoteFailure
<1>2. BackoffMax \in Nat
  BY ConfigAssumption DEF ConfigAssumption
<1>3. delay \in Nat
  BY <1>1, <1>2 DEF BackoffDelays
<1>4. QED
  BY <1>1, <1>3, HoldType DEF NoteFailure, TypeOK, HoldReasons

-----------------------------------------------------------------------------
(* Type correctness, one step per action.                                  *)

\* What a caller does keeps the state well typed.
LEMMA CallerStepType ==
    ASSUME TypeOK, NEW c \in Callers, CallerStep(c)
    PROVE  TypeOK'
<1> USE DEF envVars, bucketVars, dayVars, holdVars, failureVars, callerVars, historyVars
<1>0. /\ CallCosts \subseteq Nat \ {0} /\ LoginCosts \subseteq Nat \ {0}
      /\ MaxExtra \in Nat /\ CredentialsHold \in Nat /\ BootstrapHold \in Nat
  BY ConfigAssumption DEF ConfigAssumption
<1>1. ASSUME NEW p \in CallPriorities, NEW cost \in CallCosts, AdmitCall(c, p, cost)
      PROVE  TypeOK'
  <2>1. PICK kind \in Kinds : Proceed(c, kind, cost)
    BY <1>1 DEF AdmitCall, Kinds
  <2>2. QED
    BY <1>0, <2>1, ProceedType
<1>2. ASSUME NEW p \in CallPriorities, NEW cost \in CallCosts, DeferCall(c, p, cost)
      PROVE  TypeOK'
  BY <1>2 DEF DeferCall, RollDay, Calls, Logins, TypeOK
<1>3. ASSUME NEW cost \in LoginCosts, AdmitLogin(c, cost) PROVE TypeOK'
  BY <1>0, <1>3, ProceedType DEF AdmitLogin, Kinds
<1>4. CASE RefuseLoginAtGuard(c)
  BY <1>0, <1>4, HoldType DEF RefuseLoginAtGuard, TypeOK, HoldReasons
<1>5. CASE RefuseLoginAtCap(c)
  BY <1>5 DEF RefuseLoginAtCap, RollDay, Calls, Logins, TypeOK
<1>6. CASE Wake(c)
  <2>1. job[c].kind \in Kinds /\ job[c].cost \in Nat \ {0}
    BY DEF TypeOK
  <2>2. /\ lastCall' \in Int /\ tokens' \in Int /\ charged' \in Nat
        /\ day' = today /\ callsToday' \in Nat /\ loginsToday' \in Nat
    BY <1>6, <2>1, ChargeType DEF Wake, Leave
  <2>3. /\ loginCharged' \in Nat /\ lastLeft' \in Int /\ loginsSent' \in Nat
        /\ loginsOn' \in [Dates -> Nat]
        /\ pc' \in [Callers -> {"idle", "sleeping", "flying"}]
        /\ wakeAt' \in [Callers -> Nat]
    BY <1>6, <2>1 DEF Wake, Leave, TypeOK
  <2>4. QED
    BY <1>6, <2>2, <2>3 DEF Wake, TypeOK
<1>7. CASE Cancel(c)
  BY <1>7, ReleaseType DEF Cancel, TypeOK
<1>8. ASSUME NEW extra \in 0 .. MaxExtra, CallSucceeds(c, extra) PROVE TypeOK'
  <2>1. extra \in Nat
    BY <1>0
  <2>2. /\ lastCall' \in Int /\ tokens' \in Int /\ charged' \in Nat
        /\ day' = today /\ callsToday' \in Nat /\ loginsToday' \in Nat
    <3>1. CASE extra > 0
      BY <1>8, <2>1, <3>1, ChargeType DEF CallSucceeds
    <3>2. CASE ~(extra > 0)
      BY <1>8, <3>2 DEF CallSucceeds, RollDay, Calls, Logins, TypeOK
    <3>3. QED
      BY <3>1, <3>2
  <2>3. holdUntil' \in Nat /\ holdReason' \in HoldReasons \union {"none"}
    BY <1>8 DEF CallSucceeds, TypeOK
  <2>4. throttled' \in BOOLEAN
    BY <1>8 DEF CallSucceeds, TypeOK
  <2>5. QED
    BY <1>8, <2>2, <2>3, <2>4, ReleaseType DEF CallSucceeds, Answered, TypeOK
<1>9. CASE CallFails(c)
  BY <1>9, FailureType, ReleaseType DEF CallFails, Answered, TypeOK
<1>10. ASSUME NEW extra \in 0 .. MaxExtra, LoginSettled(c, job[c].cost + extra)
       PROVE  TypeOK'
  <2> DEFINE used == job[c].cost + extra
  <2>1. used \in Nat
    BY <1>0 DEF TypeOK
  <2> HIDE DEF used
  <2>2. LoginSettled(c, used)
    BY <1>10 DEF used
  <2>3. SettleLogin(used) /\ Answered(c, {"login"})
    BY <2>2 DEF LoginSettled, LoginSucceeds, LoginRefused, LoginRefusedLocally,
                LoginUnusable, LoginTransportFails
  <2>4. /\ lastCall' \in Int /\ tokens' \in Int /\ charged' \in Nat
        /\ day' \in Nat /\ callsToday' \in Nat /\ loginsToday' \in Nat
        /\ loginCharged' \in Nat
    BY <2>1, <2>3, SettleType DEF TypeOK
  <2>5. /\ pc' \in [Callers -> {"idle", "sleeping", "flying"}]
        /\ job' \in [Callers -> [kind : Kinds, cost : Nat \ {0}]]
        /\ wakeAt' \in [Callers -> Nat]
        /\ UNCHANGED <<envVars, loaded, graceUntil, historyVars>>
    BY <2>3, ReleaseType DEF Answered
  <2> DEFINE Penalties ==
        /\ failedLogins \subseteq Callers \X Nat /\ IsFiniteSet(failedLogins)
        /\ consecutiveFailures \in Nat
        /\ holdUntil \in Nat /\ holdReason \in HoldReasons \union {"none"}
        /\ throttled \in BOOLEAN
  <2>6. Penalties'
    <3>1. CASE LoginSucceeds(c, used)
      BY <3>1 DEF LoginSucceeds, TypeOK
    <3>2. CASE LoginRefused(c, used)
      <4>1. failedLogins' = failedLogins \union {<<c, clock>>}
        BY <3>2 DEF LoginRefused
      <4>2. failedLogins' \subseteq Callers \X Nat /\ IsFiniteSet(failedLogins')
        <5>1. /\ failedLogins \subseteq Callers \X Nat /\ IsFiniteSet(failedLogins)
              /\ <<c, clock>> \in Callers \X Nat
          BY DEF TypeOK
        <5>2. IsFiniteSet(failedLogins \union {<<c, clock>>})
          BY <5>1, FS_AddElement
        <5>3. QED
          BY <4>1, <5>1, <5>2
      <4>3. /\ holdUntil' \in Nat /\ holdReason' \in HoldReasons \union {"none"}
            /\ throttled' \in BOOLEAN
        <5>1. CASE StartHold("credentials", CredentialsHold)
          BY <1>0, <5>1, HoldType DEF HoldReasons
        <5>2. CASE UNCHANGED holdVars
          BY <5>2 DEF TypeOK
        <5>3. QED
          BY <3>2, <5>1, <5>2 DEF LoginRefused
      <4>4. QED
        BY <3>2, <4>2, <4>3 DEF LoginRefused, TypeOK
    <3>3. CASE LoginRefusedLocally(c, used)
      BY <3>3 DEF LoginRefusedLocally, TypeOK
    <3>4. ASSUME NEW o, LoginUnusable(c, used, o) PROVE Penalties'
      <4>1. \/ StartHold("mfa", CredentialsHold)
            \/ StartHold("bootstrap", BootstrapHold)
        BY <3>4 DEF LoginUnusable
      <4>2. /\ holdUntil' \in Nat /\ holdReason' \in HoldReasons \union {"none"}
            /\ throttled' \in BOOLEAN
        BY <1>0, <4>1, HoldType DEF HoldReasons
      <4>3. QED
        BY <3>4, <4>2 DEF LoginUnusable, TypeOK
    <3>5. CASE LoginTransportFails(c, used)
      BY <3>5, FailureType DEF LoginTransportFails, TypeOK
    <3>6. QED
      BY <2>2, <3>1, <3>2, <3>3, <3>4, <3>5 DEF LoginSettled
  <2>7. QED
    BY <2>4, <2>5, <2>6 DEF TypeOK
<1>11. QED
  BY <1>1, <1>2, <1>3, <1>4, <1>5, <1>6, <1>7, <1>8, <1>9, <1>10 DEF CallerStep

\* Batches, re-authentication, unloading and loading keep the state well typed.
LEMMA LimiterStepType == TypeOK /\ LimiterStep => TypeOK'
<1> SUFFICES ASSUME TypeOK, LimiterStep PROVE TypeOK'
  OBVIOUS
<1> USE DEF envVars, bucketVars, dayVars, holdVars, failureVars, callerVars, historyVars
<1>0. MinInterval \in Nat /\ BurstSize \in Nat /\ Hour \in Nat /\ BatchGrace \in Nat
  BY ConfigAssumption DEF ConfigAssumption
<1>1. FreshCounters =>
        /\ lastCall' \in Int /\ tokens' \in Int /\ charged' \in Nat
        /\ day' \in Nat /\ callsToday' \in Nat /\ loginsToday' \in Nat
  <2>1. BurstSize * Hour \in Int
    BY <1>0
  <2>2. QED
    BY <1>0, <2>1 DEF FreshCounters, TypeOK
<1>2. CASE BeginBatch
  BY <1>0, <1>2 DEF BeginBatch, TypeOK
<1>3. CASE EndBatch
  BY <1>3 DEF EndBatch, TypeOK
<1>4. CASE Reauthenticate
  <2>1. /\ lastCall' \in Int /\ tokens' \in Int /\ charged' \in Nat
        /\ day' \in Nat /\ callsToday' \in Nat /\ loginsToday' \in Nat
    BY <1>1, <1>4 DEF Reauthenticate, TypeOK
  <2>2. IsFiniteSet(failedLogins')
    BY <1>4, FS_EmptySet DEF Reauthenticate, ClearPenalties
  <2>3. QED
    BY <1>4, <2>1, <2>2 DEF Reauthenticate, ClearPenalties, TypeOK
<1>5. CASE Unload
  BY <1>5 DEF Unload, RollDay, Calls, Logins, TypeOK
<1>6. CASE Load
  <2>1. /\ lastCall' \in Int /\ tokens' \in Int /\ charged' \in Nat
        /\ day' \in Nat /\ callsToday' \in Nat /\ loginsToday' \in Nat
    BY <1>1, <1>6 DEF Load, TypeOK
  <2>2. QED
    BY <1>6, <2>1 DEF Load, TypeOK
<1>7. QED
  BY <1>2, <1>3, <1>4, <1>5, <1>6 DEF LimiterStep

\* Time keeps the state well typed.
LEMMA TimeStepType == TypeOK /\ TimeStep => TypeOK'
<1> SUFFICES ASSUME TypeOK, TimeStep PROVE TypeOK'
  OBVIOUS
<1> USE DEF envVars, bucketVars, dayVars, holdVars, failureVars, callerVars, historyVars
<1>0. MaxToday \in Nat
  BY ConfigAssumption DEF ConfigAssumption
<1>1. CASE Tick
  <2>1. failedLogins' \subseteq failedLogins
    BY <1>1 DEF Tick, RecentAt
  <2>2. failedLogins' \subseteq Callers \X Nat /\ IsFiniteSet(failedLogins')
    BY <2>1, FS_Subset DEF TypeOK
  <2>3. QED
    BY <1>1, <2>2 DEF Tick, TypeOK
<1>2. CASE Midnight
  BY <1>0, <1>2 DEF Midnight, TypeOK
<1>3. CASE ClockStepsBack
  BY <1>0, <1>3 DEF ClockStepsBack, TypeOK
<1>4. CASE QuietBegins
  BY <1>4 DEF QuietBegins, TypeOK
<1>5. CASE QuietEnds
  BY <1>5 DEF QuietEnds, TypeOK, None
<1>6. QED
  BY <1>1, <1>2, <1>3, <1>4, <1>5 DEF TimeStep

\* The initial state is well typed.
LEMMA InitType == Init => TypeOK
<1> SUFFICES ASSUME Init PROVE TypeOK
  OBVIOUS
<1>1. MinInterval \in Nat /\ BurstSize \in Nat /\ Hour \in Nat
  BY ConfigAssumption DEF ConfigAssumption
<1>2. BurstSize * Hour \in Int
  BY <1>1
<1>3. IsFiniteSet({})
  BY FS_EmptySet
<1>4. failedLogins \subseteq Callers \X Nat /\ IsFiniteSet(failedLogins)
  BY <1>3 DEF Init
<1>5. NoJob \in [kind : Kinds, cost : Nat \ {0}]
  BY DEF NoJob, Kinds
<1>6. /\ pc \in [Callers -> {"idle", "sleeping", "flying"}]
      /\ job \in [Callers -> [kind : Kinds, cost : Nat \ {0}]]
      /\ wakeAt \in [Callers -> Nat]
  BY <1>5 DEF Init
<1>7. lastCall \in Int /\ tokens \in Int /\ lastLeft \in Int
  BY <1>1, <1>2 DEF Init
<1>8. today <= MaxToday /\ loginsOn \in [Dates -> Nat]
  BY ConfigAssumption DEF Init, ConfigAssumption
<1>9. QED
  BY <1>4, <1>6, <1>7, <1>8 DEF Init, TypeOK, None

\* A step, or a stutter, keeps the state well typed.
LEMMA NextType == TypeOK /\ [Next]_vars => TypeOK'
<1>1. ASSUME TypeOK, UNCHANGED vars PROVE TypeOK'
  BY <1>1 DEF TypeOK, vars
<1>2. QED
  BY <1>1, CallerStepType, LimiterStepType, TimeStepType DEF Next

\* Every reachable state of the limiter is well typed.
THEOREM TypeCorrect == Spec => []TypeOK
  BY InitType, NextType, PTL DEF Spec

-----------------------------------------------------------------------------
(* Spacing and the login cap: what the admission lock protects.            *)

\* At most one caller sleeps under the lock, and it wakes late enough.
SpacingInv ==
    /\ lastLeft <= lastCall /\ lastCall <= clock
    /\ \A c, d \in Callers : pc[c] = "sleeping" /\ pc[d] = "sleeping" => c = d
    /\ \A c \in Callers : pc[c] = "sleeping" => wakeAt[c] >= lastLeft + MinInterval

\* The logins of n dates gone through.
Allowed(n) == MaxLogins * n

\* The counter sees every login that left since the date last moved forward.
Counted ==
    /\ loginsSent <= Allowed(today + stepsBack) + Logins
    /\ loginsOn[today] <= Allowed(stepsBack) + Logins

\* A date the clock has yet to reach again has only the allowances of before.
Bounded ==
    /\ loginsSent <= Allowed(today + stepsBack + 1)
    /\ \A d \in Dates : loginsOn[d] <= Allowed(stepsBack + 1)
    /\ \A d \in Dates : d > today => loginsOn[d] <= Allowed(stepsBack)

RoomForLogin ==
    /\ loginsSent < Allowed(today + stepsBack + 1)
    /\ loginsOn[today] < Allowed(stepsBack + 1)

\* A login that sleeps still fits.
CapInv ==
    /\ Counted
    /\ Bounded
    /\ \A c \in Callers : pc[c] = "sleeping" /\ job[c].kind = "login" => RoomForLogin

AdmissionInv == TypeOK /\ SpacingInv /\ CapInv

\* One date more is one allowance more.
LEMMA OneMoreDate ==
    /\ MaxLogins \in Nat \ {0}
    /\ \A n \in Nat : Allowed(n) \in Nat /\ Allowed(n + 1) = Allowed(n) + MaxLogins
<1>1. MaxLogins \in Nat \ {0}
  BY ConfigAssumption DEF ConfigAssumption
<1>2. ASSUME NEW n \in Nat
      PROVE  Allowed(n) \in Nat /\ Allowed(n + 1) = Allowed(n) + MaxLogins
  <2>1. \A q \in Nat : q * n \in Nat /\ q * (n + 1) = q * n + q
    BY Z3
  <2>2. QED
    BY <1>1, <2>1 DEF Allowed
<1>3. QED
  BY <1>1, <1>2

\* The initial state satisfies the admission invariant.
LEMMA InitAdmission == Init => AdmissionInv
<1> SUFFICES ASSUME Init PROVE AdmissionInv
  OBVIOUS
<1>1. MinInterval \in Nat \ {0} /\ MaxLogins \in Nat
  BY ConfigAssumption DEF ConfigAssumption
<1>3. TypeOK
  BY InitType
<1>4. Counted /\ Bounded
  <2>1. loginsOn = [d \in Dates |-> 0] /\ today \in Dates
    BY ConfigAssumption DEF Init, Dates, ConfigAssumption
  <2>2. loginsOn[today] = 0 /\ \A d \in Dates : loginsOn[d] = 0
    BY <2>1
  <2>3. today = 0 /\ stepsBack = 0 /\ loginsSent = 0 /\ Logins = 0
    BY DEF Init, Logins
  <2>4. /\ Allowed(today + stepsBack) \in Nat /\ Allowed(today + stepsBack + 1) \in Nat
        /\ Allowed(stepsBack) \in Nat /\ Allowed(stepsBack + 1) \in Nat
    BY <2>3, OneMoreDate
  <2>5. Counted
    BY <2>2, <2>3, <2>4 DEF Counted
  <2>6. Bounded
    BY <2>2, <2>3, <2>4 DEF Bounded
  <2>7. QED
    BY <2>5, <2>6
<1>5. QED
  BY <1>1, <1>3, <1>4 DEF Init, AdmissionInv, SpacingInv, CapInv

\* While the counter is below the cap, a login fits.
LEMMA BelowTheCap ==
    ASSUME TypeOK, Counted, Logins < MaxLogins
    PROVE  RoomForLogin
<1>1. today + stepsBack \in Nat /\ stepsBack \in Nat /\ Logins \in Nat /\ today \in Dates
        /\ loginsSent \in Nat /\ loginsOn[today] \in Nat
  <2>1. today \in Dates
    BY ConfigAssumption DEF TypeOK, Dates, ConfigAssumption
  <2>2. QED
    BY <2>1 DEF TypeOK, Logins
<1>2. QED
  BY <1>1, OneMoreDate DEF Counted, RoomForLogin

\* A login that leaves is counted, and what leaves uncounted is no login.
LEMMA LeavingIsCounted ==
    ASSUME AdmissionInv, NEW n \in {0, 1}, UNCHANGED <<today, stepsBack>>,
           Logins' = Logins + n, n = 1 => RoomForLogin,
           loginsSent' = loginsSent + n,
           n = 0 => loginsOn' = loginsOn,
           n = 1 => loginsOn' = [loginsOn EXCEPT ![today] = @ + 1]
    PROVE  Counted' /\ Bounded'
<1> USE DEF AdmissionInv, CapInv
<1>1. today + stepsBack \in Nat /\ stepsBack \in Nat /\ Logins \in Nat /\ today \in Dates
        /\ loginsSent \in Nat /\ loginsOn \in [Dates -> Nat] /\ Dates \subseteq Nat
  BY ConfigAssumption DEF TypeOK, Dates, Logins, ConfigAssumption
<1>2. /\ Allowed(today + stepsBack) \in Nat /\ Allowed(stepsBack) \in Nat
      /\ Allowed(today + stepsBack + 1) \in Nat /\ Allowed(stepsBack + 1) \in Nat
  BY <1>1, OneMoreDate
<1>3. \A d \in Dates : loginsOn'[d] = loginsOn[d] + (IF d = today THEN n ELSE 0)
  BY <1>1
<1>4. Counted'
  BY <1>1, <1>2, <1>3 DEF Counted
<1>5. Bounded'
  BY <1>1, <1>2, <1>3 DEF Bounded, RoomForLogin
<1>6. QED
  BY <1>4, <1>5

\* Where no login leaves and the date stands, a counter that does not shrink keeps
\* the account of the logins.
LEMMA NothingSent ==
    ASSUME AdmissionInv, UNCHANGED <<today, stepsBack, loginsSent, loginsOn>>,
           Logins' \in Nat, Logins' >= Logins
    PROVE  Counted' /\ Bounded' /\ RoomForLogin' = RoomForLogin
<1>1. today + stepsBack \in Nat /\ stepsBack \in Nat /\ Logins \in Nat /\ today \in Dates
        /\ loginsSent \in Nat /\ loginsOn[today] \in Nat
  <2>1. today \in Dates
    BY ConfigAssumption DEF AdmissionInv, TypeOK, Dates, ConfigAssumption
  <2>2. QED
    BY <2>1 DEF AdmissionInv, TypeOK, Logins
<1>2. Allowed(today + stepsBack) \in Nat /\ Allowed(stepsBack) \in Nat
  BY <1>1, OneMoreDate
<1>3. Counted'
  BY <1>1, <1>2 DEF AdmissionInv, CapInv, Counted
<1>4. QED
  BY <1>3 DEF AdmissionInv, CapInv, Bounded, RoomForLogin

\* Rolling the day is nothing the counters' readers can tell (_roll_day).
LEMMA RolledReadsTheSame ==
    ASSUME TypeOK, RollDay, today' = today
    PROVE  Logins' \in Nat /\ Logins' = Logins
  BY DEF TypeOK, RollDay, Logins, Calls

\* A step that admits: the request leaves at once, spaced, or sleeps long enough.
LEMMA ProceedAdmission ==
    ASSUME AdmissionInv, LockFree, NEW c \in Callers, NEW kind \in Kinds,
           NEW cost \in Nat \ {0}, Proceed(c, kind, cost),
           kind = "login" => Logins < MaxLogins
    PROVE  /\ SpacingInv' /\ CapInv'
           /\ Leaves => lastLeft' >= lastLeft + MinInterval
<1>0. MinInterval \in Nat \ {0} /\ MaxLogins \in Nat
  BY ConfigAssumption DEF ConfigAssumption
<1>1. Wait(cost) \in Nat /\ clock + Wait(cost) >= lastCall + MinInterval
  BY WaitCoversSpacing DEF AdmissionInv
<1> USE DEF Proceed, envVars, bucketVars, historyVars, AdmissionInv
<1>2. Logins \in Nat /\ Logins' = loginsToday' /\ (kind = "login" => RoomForLogin)
  <2>1. day' = today /\ today' = today
    BY DEF Leave, Charge, RollDay
  <2>2. QED
    BY <2>1, BelowTheCap DEF CapInv, Logins, TypeOK
<1>3. CASE Wait(cost) = 0
  <2>1. /\ lastLeft' = clock /\ lastCall' = clock /\ clock' = clock
        /\ pc' = [pc EXCEPT ![c] = "flying"]
        /\ loginsToday' = Logins + (IF kind = "login" THEN 1 ELSE 0)
        /\ loginsSent' = loginsSent + (IF kind = "login" THEN 1 ELSE 0)
        /\ kind = "login" => loginsOn' = [loginsOn EXCEPT ![today] = @ + 1]
        /\ kind # "login" => loginsOn' = loginsOn
        /\ UNCHANGED <<today, stepsBack>>
    BY <1>3 DEF Leave, Charge, TypeOK
  <2>2. clock >= lastLeft + MinInterval
    BY <1>0, <1>1, <1>3 DEF SpacingInv, TypeOK
  <2>3. \A d \in Callers : pc'[d] # "sleeping"
    BY <2>1 DEF LockFree, TypeOK
  <2>4. SpacingInv'
    BY <2>1, <2>3 DEF SpacingInv, TypeOK
  <2>5. Counted' /\ Bounded'
    <3> DEFINE n == IF kind = "login" THEN 1 ELSE 0
    <3>1. n \in {0, 1} /\ (n = 1 <=> kind = "login")
      OBVIOUS
    <3>2. Logins' = Logins + n /\ loginsSent' = loginsSent + n
      BY <1>2, <2>1
    <3> HIDE DEF n
    <3>3. QED
      BY <1>2, <2>1, <3>1, <3>2, LeavingIsCounted
  <2>6. CapInv'
    BY <2>3, <2>5 DEF CapInv
  <2>7. QED
    BY <2>1, <2>2, <2>4, <2>6
<1>4. CASE Wait(cost) # 0
  <2>1. /\ UNCHANGED <<clock, lastCall, lastLeft, today, stepsBack, loginsSent, loginsOn>>
        /\ pc' = [pc EXCEPT ![c] = "sleeping"]
        /\ wakeAt' = [wakeAt EXCEPT ![c] = clock + Wait(cost)]
        /\ job' = [job EXCEPT ![c] = [kind |-> kind, cost |-> cost]]
        /\ loginsToday' = Logins
    BY <1>4 DEF RollDay
  <2>2. \A d \in Callers : pc'[d] = "sleeping" => d = c
    BY <2>1 DEF LockFree, TypeOK
  <2>3. wakeAt'[c] >= lastLeft' + MinInterval
    BY <1>0, <1>1, <2>1 DEF SpacingInv, TypeOK
  <2>4. SpacingInv'
    BY <2>1, <2>2, <2>3 DEF SpacingInv
  <2>5. Counted' /\ Bounded' /\ RoomForLogin' = RoomForLogin
    BY <1>2, <2>1, NothingSent
  <2>6. CapInv'
    BY <1>2, <2>1, <2>2, <2>5 DEF CapInv, TypeOK
  <2>7. QED
    BY <2>1, <2>4, <2>6 DEF Leaves
<1>5. QED
  BY <1>3, <1>4

\* A charge after the fact: the counter only grows and the stamp is now.
LEMMA ChargeAdmission ==
    ASSUME AdmissionInv, NEW n \in Nat, NEW l \in Nat, UNCHANGED envVars,
           UNCHANGED historyVars,
           \/ Charge(n, l)
           \/ RollDay /\ UNCHANGED bucketVars
           \/ UNCHANGED <<bucketVars, dayVars>>
    PROVE  /\ lastLeft' <= lastCall' /\ lastCall' <= clock'
           /\ Counted' /\ Bounded' /\ RoomForLogin' = RoomForLogin
<1> USE DEF AdmissionInv, envVars, historyVars, bucketVars, dayVars
<1>1. lastLeft' <= lastCall' /\ lastCall' <= clock'
  BY DEF SpacingInv, Charge, RollDay, TypeOK
<1>2. Logins' \in Nat /\ Logins' >= Logins
  <2>1. CASE Charge(n, l)
    <3>1. today' = today /\ day' = today /\ loginsToday' = Logins + l /\ Logins \in Nat
      BY <2>1 DEF Charge, Logins, TypeOK
    <3>2. QED
      BY <3>1 DEF Logins, TypeOK
  <2>2. CASE RollDay
    <3>1. Logins \in Nat /\ Logins' \in Nat /\ Logins' = Logins
      BY <2>2, RolledReadsTheSame DEF Logins, TypeOK
    <3>2. QED
      BY <3>1
  <2>3. CASE UNCHANGED dayVars
    BY <2>3 DEF Logins, TypeOK
  <2>4. QED
    BY <2>1, <2>2, <2>3
<1>3. QED
  BY <1>1, <1>2, NothingSent

\* A caller that comes back idle, with its charge settled.
LEMMA ReleaseAdmission ==
    ASSUME AdmissionInv, NEW c \in Callers, Release(c), UNCHANGED envVars,
           UNCHANGED historyVars,
           NEW n \in Nat, NEW l \in Nat,
           \/ Charge(n, l)
           \/ RollDay /\ UNCHANGED bucketVars
           \/ UNCHANGED <<bucketVars, dayVars>>
    PROVE  SpacingInv' /\ CapInv'
<1>1. /\ lastLeft' <= lastCall' /\ lastCall' <= clock'
      /\ Counted' /\ Bounded' /\ RoomForLogin' = RoomForLogin
  BY ChargeAdmission
<1>2. \A d \in Callers : pc'[d] = "sleeping" =>
        pc[d] = "sleeping" /\ wakeAt'[d] = wakeAt[d] /\ job'[d] = job[d]
  BY DEF Release, AdmissionInv, TypeOK
<1>3. QED
  BY <1>1, <1>2 DEF AdmissionInv, SpacingInv, CapInv, historyVars

\* What a caller does keeps the admission invariant, and a request that leaves
\* is spaced.
LEMMA CallerStepAdmission ==
    ASSUME AdmissionInv, NEW c \in Callers, CallerStep(c)
    PROVE  /\ SpacingInv' /\ CapInv'
           /\ Leaves => lastLeft' >= lastLeft + MinInterval
<1> USE DEF AdmissionInv, envVars, bucketVars, dayVars, callerVars, historyVars
<1>0. /\ CallCosts \subseteq Nat \ {0} /\ LoginCosts \subseteq Nat \ {0}
      /\ MaxExtra \in Nat /\ MinInterval \in Nat \ {0} /\ MaxLogins \in Nat
  BY ConfigAssumption DEF ConfigAssumption
<1>1. ASSUME NEW p \in CallPriorities, NEW cost \in CallCosts, AdmitCall(c, p, cost)
      PROVE  /\ SpacingInv' /\ CapInv'
             /\ Leaves => lastLeft' >= lastLeft + MinInterval
  <2>1. PICK kind \in {"exempt", "timer"} : Proceed(c, kind, cost)
    BY <1>1 DEF AdmitCall
  <2>2. kind \in Kinds /\ kind # "login"
    BY <2>1 DEF Kinds
  <2>3. LockFree
    BY <1>1 DEF AdmitCall, MayStart
  <2>4. QED
    BY <1>0, <2>1, <2>2, <2>3, ProceedAdmission
<1>2. ASSUME NEW p \in CallPriorities, NEW cost \in CallCosts, DeferCall(c, p, cost)
      PROVE  SpacingInv' /\ CapInv' /\ ~Leaves
  <2>1. Logins' \in Nat /\ Logins' = Logins
    BY <1>2, RolledReadsTheSame DEF DeferCall
  <2>2. Counted' /\ Bounded' /\ RoomForLogin' = RoomForLogin
    BY <1>2, <2>1, NothingSent DEF DeferCall
  <2>3. QED
    BY <1>2, <2>2 DEF DeferCall, SpacingInv, CapInv, Leaves
<1>3. ASSUME NEW cost \in LoginCosts, AdmitLogin(c, cost)
      PROVE  /\ SpacingInv' /\ CapInv'
             /\ Leaves => lastLeft' >= lastLeft + MinInterval
  <2>1. /\ Proceed(c, "login", cost) /\ "login" \in Kinds
        /\ Logins < MaxLogins /\ LockFree
    BY <1>3 DEF AdmitLogin, MayStart, Kinds
  <2>2. QED
    BY <1>0, <2>1, ProceedAdmission
<1>4. CASE RefuseLoginAtGuard(c)
  BY <1>4 DEF RefuseLoginAtGuard, SpacingInv, CapInv, Counted, Bounded, RoomForLogin,
              Logins, Leaves
<1>5. CASE RefuseLoginAtCap(c)
  <2>1. Logins' \in Nat /\ Logins' = Logins
    BY <1>5, RolledReadsTheSame DEF RefuseLoginAtCap
  <2>2. Counted' /\ Bounded' /\ RoomForLogin' = RoomForLogin
    BY <1>5, <2>1, NothingSent DEF RefuseLoginAtCap
  <2>3. QED
    BY <1>5, <2>2 DEF RefuseLoginAtCap, SpacingInv, CapInv, Leaves
<1>6. CASE Wake(c)
  <2> DEFINE n == IF job[c].kind = "login" THEN 1 ELSE 0
  <2>1. /\ lastLeft' = clock /\ lastCall' = clock /\ clock' = clock
        /\ day' = today /\ today' = today
        /\ loginsToday' = Logins + n /\ loginsSent' = loginsSent + n
        /\ n = 1 => loginsOn' = [loginsOn EXCEPT ![today] = @ + 1]
        /\ n = 0 => loginsOn' = loginsOn
        /\ pc' = [pc EXCEPT ![c] = "flying"] /\ stepsBack' = stepsBack
    BY <1>6 DEF Wake, Leave, Charge, TypeOK
  <2>2. pc[c] = "sleeping" /\ clock >= wakeAt[c]
    BY <1>6 DEF Wake
  <2>3. \A d \in Callers : pc'[d] # "sleeping"
    BY <2>1, <2>2 DEF SpacingInv, TypeOK
  <2>4. clock >= lastLeft + MinInterval
    BY <1>0, <2>2 DEF SpacingInv, TypeOK
  <2>5. SpacingInv'
    BY <2>1, <2>3 DEF SpacingInv, TypeOK
  <2>6. Counted' /\ Bounded'
    <3>1. Logins \in Nat /\ Logins' = Logins + n
      BY <2>1 DEF Logins, TypeOK
    <3>2. n \in {0, 1} /\ (n = 1 => RoomForLogin)
      BY <2>2 DEF CapInv
    <3> HIDE DEF n
    <3>3. QED
      BY <2>1, <3>1, <3>2, LeavingIsCounted
  <2>7. QED
    BY <2>1, <2>3, <2>4, <2>5, <2>6 DEF CapInv
<1>7. CASE Cancel(c)
  <2>1. /\ Release(c) /\ UNCHANGED envVars /\ UNCHANGED historyVars
        /\ UNCHANGED <<bucketVars, dayVars>>
    BY <1>7 DEF Cancel
  <2>2. SpacingInv' /\ CapInv'
    BY <2>1, ReleaseAdmission
  <2>3. QED
    BY <2>1, <2>2 DEF Leaves
<1>8. ASSUME NEW extra \in 0 .. MaxExtra, CallSucceeds(c, extra)
      PROVE  SpacingInv' /\ CapInv' /\ ~Leaves
  <2>1. /\ Release(c) /\ UNCHANGED envVars /\ UNCHANGED historyVars
        /\ \/ Charge(extra, 0)
           \/ RollDay /\ UNCHANGED bucketVars
    BY <1>8 DEF CallSucceeds, Answered
  <2>2. extra \in Nat
    BY <1>0
  <2>3. SpacingInv' /\ CapInv'
    BY <2>1, <2>2, ReleaseAdmission
  <2>4. QED
    BY <2>1, <2>3 DEF Leaves
<1>9. CASE CallFails(c)
  <2>1. /\ Release(c) /\ UNCHANGED envVars /\ UNCHANGED historyVars
        /\ UNCHANGED <<bucketVars, dayVars>>
    BY <1>9 DEF CallFails, Answered
  <2>2. SpacingInv' /\ CapInv'
    BY <2>1, ReleaseAdmission
  <2>3. QED
    BY <2>1, <2>2 DEF Leaves
<1>10. ASSUME NEW extra \in 0 .. MaxExtra, LoginSettled(c, job[c].cost + extra)
       PROVE  SpacingInv' /\ CapInv' /\ ~Leaves
  <2> DEFINE used == job[c].cost + extra
  <2>1. used \in Nat
    BY <1>0 DEF TypeOK
  <2> HIDE DEF used
  <2>2. LoginSettled(c, used)
    BY <1>10 DEF used
  <2>3. SettleLogin(used) /\ Answered(c, {"login"})
    BY <2>2 DEF LoginSettled, LoginSucceeds, LoginRefused, LoginRefusedLocally,
                LoginUnusable, LoginTransportFails
  <2>4. /\ Release(c) /\ UNCHANGED envVars /\ UNCHANGED historyVars
    BY <2>3 DEF Answered
  <2>5. \E n \in Nat, l \in Nat :
          \/ Charge(n, l)
          \/ RollDay /\ UNCHANGED bucketVars
    <3>1. CASE loginCharged = 0
      BY <2>1, <2>3, <3>1 DEF SettleLogin
    <3>2. CASE loginCharged # 0 /\ used > loginCharged
      <4>1. used - loginCharged \in Nat
        BY <2>1, <3>2 DEF TypeOK
      <4>2. QED
        BY <2>3, <3>2, <4>1 DEF SettleLogin
    <3>3. CASE loginCharged # 0 /\ ~(used > loginCharged)
      BY <2>3, <3>3 DEF SettleLogin
    <3>4. QED
      BY <3>1, <3>2, <3>3
  <2>6. SpacingInv' /\ CapInv'
    BY <2>4, <2>5, ReleaseAdmission
  <2>7. QED
    BY <2>4, <2>6 DEF Leaves
<1>11. QED
  BY <1>1, <1>2, <1>3, <1>4, <1>5, <1>6, <1>7, <1>8, <1>9, <1>10 DEF CallerStep, Leaves

\* Batches, reauthentication, reloads and time keep the admission invariant, and
\* let nothing leave, as long as a handover keeps the day's counters.
LEMMA OtherStepAdmission ==
    ASSUME ~LossyHandover, AdmissionInv, LimiterStep \/ TimeStep
    PROVE  SpacingInv' /\ CapInv' /\ ~Leaves
<1> USE DEF AdmissionInv, envVars, bucketVars, dayVars, callerVars, historyVars
<1>0. MaxLogins \in Nat
  BY ConfigAssumption DEF ConfigAssumption
<1>1. CASE BeginBatch \/ EndBatch \/ QuietBegins \/ QuietEnds
  BY <1>1 DEF BeginBatch, EndBatch, QuietBegins, QuietEnds, SpacingInv, CapInv, Counted,
              Bounded, RoomForLogin, Logins, Leaves
<1>2. CASE Reauthenticate
  BY <1>2 DEF Reauthenticate, SpacingInv, CapInv, Counted, Bounded, RoomForLogin, Logins,
              Leaves
<1>3. CASE Unload
  <2>1. Logins' \in Nat /\ Logins' = Logins
    BY <1>3, RolledReadsTheSame DEF Unload
  <2>2. Counted' /\ Bounded' /\ RoomForLogin' = RoomForLogin
    BY <1>3, <2>1, NothingSent DEF Unload
  <2>3. QED
    BY <1>3, <2>2 DEF Unload, SpacingInv, CapInv, Leaves
<1>4. CASE Load
  BY <1>4 DEF Load, SpacingInv, CapInv, Counted, Bounded, RoomForLogin, Logins,
              Leaves
<1>5. CASE Tick
  BY <1>5 DEF Tick, SpacingInv, CapInv, Counted, Bounded, RoomForLogin, Logins, Leaves,
              TypeOK
<1>6. CASE Midnight
  <2>1. /\ UNCHANGED <<clock, stepsBack, lastCall, pc, job, wakeAt, historyVars>>
        /\ today' = today + 1 /\ Logins' \in Nat
    BY <1>6 DEF Midnight, Logins, TypeOK
  <2>2. Counted' /\ Bounded' /\ RoomForLogin'
    <3>1. /\ today \in Dates /\ today + 1 \in Dates /\ Dates \subseteq Nat
          /\ stepsBack \in Nat /\ loginsSent \in Nat /\ loginsOn \in [Dates -> Nat]
      <4>1. MaxToday \in Nat /\ today \in Nat /\ today < MaxToday
        BY <1>6, ConfigAssumption DEF Midnight, TypeOK, ConfigAssumption
      <4>2. QED
        BY <4>1 DEF Dates, TypeOK
    <3>2. today + 1 + stepsBack = today + stepsBack + 1 /\ today + stepsBack \in Nat
      BY <3>1
    <3>3. /\ Allowed(today + stepsBack + 1) \in Nat /\ Allowed(stepsBack) \in Nat
          /\ Allowed(today + stepsBack + 1 + 1) = Allowed(today + stepsBack + 1) + MaxLogins
          /\ Allowed(stepsBack + 1) = Allowed(stepsBack) + MaxLogins
      BY <3>1, <3>2, OneMoreDate
    <3>4. QED
      BY <2>1, <3>1, <3>2, <3>3, OneMoreDate DEF CapInv, Counted, Bounded, RoomForLogin
  <2>3. QED
    BY <2>1, <2>2 DEF SpacingInv, CapInv, Leaves
<1>7. CASE ClockStepsBack
  <2>1. /\ UNCHANGED <<clock, lastCall, pc, job, wakeAt, historyVars>>
        /\ today' = today - 1 /\ stepsBack' = stepsBack + 1
        /\ Logins' \in Nat /\ Logins' >= Logins
    BY <1>7 DEF ClockStepsBack, Logins, TypeOK
  <2>2. Counted' /\ Bounded'
        /\ \A c \in Callers : pc[c] = "sleeping" /\ job[c].kind = "login" => RoomForLogin'
    <3>1. /\ today \in Dates /\ today - 1 \in Dates /\ Dates \subseteq Nat /\ Logins \in Nat
          /\ stepsBack \in Nat /\ loginsSent \in Nat /\ loginsOn \in [Dates -> Nat]
      <4>1. MaxToday \in Nat /\ today \in Nat /\ today <= MaxToday /\ today > 0
        BY <1>7, ConfigAssumption DEF ClockStepsBack, TypeOK, ConfigAssumption
      <4>2. today \in Dates /\ today - 1 \in Dates /\ Dates \subseteq Nat
        BY <4>1 DEF Dates
      <4>3. Logins \in Nat
        BY DEF Logins, TypeOK
      <4> QED
        BY <4>2, <4>3 DEF TypeOK
    <3>2. (today - 1) + (stepsBack + 1) = today + stepsBack
      BY <3>1
    <3>3. /\ Allowed(stepsBack) \in Nat
          /\ Allowed(stepsBack + 1) = Allowed(stepsBack) + MaxLogins
          /\ Allowed(stepsBack + 1 + 1) = Allowed(stepsBack + 1) + MaxLogins
          /\ Allowed(today + stepsBack) \in Nat
      BY <3>1, OneMoreDate
    <3>4. QED
      BY <2>1, <3>1, <3>2, <3>3, OneMoreDate DEF CapInv, Counted, Bounded, RoomForLogin
  <2>3. QED
    BY <2>1, <2>2 DEF SpacingInv, CapInv, Leaves
<1>8. QED
  BY <1>1, <1>2, <1>3, <1>4, <1>5, <1>6, <1>7 DEF LimiterStep, TimeStep

\* The admission invariant is inductive.
LEMMA NextAdmission ==
    ASSUME ~LossyHandover
    PROVE  AdmissionInv /\ [Next]_vars
             => AdmissionInv' /\ (Leaves => lastLeft' >= lastLeft + MinInterval)
<1> SUFFICES ASSUME AdmissionInv, [Next]_vars
             PROVE  AdmissionInv' /\ (Leaves => lastLeft' >= lastLeft + MinInterval)
  OBVIOUS
<1>1. TypeOK'
  BY NextType DEF AdmissionInv
<1>2. CASE UNCHANGED vars
  BY <1>1, <1>2 DEF AdmissionInv, SpacingInv, CapInv, Counted, Bounded, RoomForLogin, Logins,
                    Leaves, vars
<1>3. CASE Next
  BY <1>1, <1>3, CallerStepAdmission, OtherStepAdmission DEF Next, AdmissionInv
<1>4. QED
  BY <1>2, <1>3

\* Whoever asks and whatever is in flight, two requests never leave less than
\* MinInterval apart.
THEOREM Spacing ==
    ASSUME ~LossyHandover PROVE Spec => AdmissionSpacing
<1>1. AdmissionInv /\ [Next]_vars => [Leaves => lastLeft' >= lastLeft + MinInterval]_vars
  BY NextAdmission
<1>2. AdmissionInv /\ [Next]_vars => AdmissionInv'
  BY NextAdmission
<1>3. QED
  BY InitAdmission, <1>1, <1>2, PTL DEF Spec, AdmissionSpacing

\* All the logins there have been fit the allowances of the dates gone through, and
\* those of one calendar date fit its own, with one more for each time the clock was
\* set back (_roll_day, _check_login).
THEOREM DailyLoginCap ==
    ASSUME ~LossyHandover PROVE Spec => []LoginCap
<1>1. AdmissionInv => LoginCap
  BY DEF AdmissionInv, CapInv, Bounded, Allowed, LoginCap
<1>2. AdmissionInv /\ [Next]_vars => AdmissionInv'
  BY NextAdmission
<1>3. QED
  BY InitAdmission, <1>1, <1>2, PTL DEF Spec

-----------------------------------------------------------------------------
(* What the rate limiter promises, from the invariants above: the pact with *)
(* the school, the guard on failed logins, holds that nobody shortens, the   *)
(* flag the household reads, and the bound on the quiet hours.              *)

-----------------------------------------------------------------------------
(* The pact: nothing leaves while the account is barred.                   *)

\* Behind the gate one unit at a time is in the limiter, so that no hold can
\* begin while it sleeps.
GateInv ==
    /\ \A c, d \in Callers : pc[c] # "idle" /\ pc[d] # "idle" => c = d
    /\ \A c \in Callers : pc[c] = "sleeping" => ~HoldActive

\* A step of the pact: a request that leaves, or a penalty that comes and goes.
LEMMA AnswerIsPact ==
    ASSUME TypeOK, UNCHANGED <<clock, today, stepsBack, historyVars>>
    PROVE  [Pact!Next]_(Pact!vars)
  BY DEF historyVars, HoldActive, Pact!Next, Pact!Bar, Pact!Lift, Pact!vars, Pact!dateVars,
         Pact!loginVars

\* A request that leaves unbarred, spaced, and as a login only where one fits.
LEMMA LeaveIsPact ==
    ASSUME ~HoldActive, UNCHANGED <<clock, today, stepsBack, holdReason>>,
           NEW c \in Callers, NEW kind, NEW cost, Leave(c, kind, cost),
           clock >= lastLeft + MinInterval, kind = "login" => RoomForLogin
    PROVE  [Pact!Next]_(Pact!vars)
<1>1. Pact!Leave
  BY DEF Leave, HoldActive, Pact!Leave, Pact!dateVars
<1>2. CASE kind = "login"
  <2>1. Pact!SendLogin
    BY <1>1, <1>2 DEF Leave, RoomForLogin, Allowed, Pact!SendLogin
  <2> QED
    BY <2>1 DEF Pact!Next
<1>3. CASE kind # "login"
  BY <1>1, <1>3 DEF Leave, Pact!SendRequest, Pact!loginVars, Pact!Next
<1> QED
  BY <1>2, <1>3

\* An admission behind the gate: the request leaves under the pact, or sleeps alone.
LEMMA AdmissionIsPact ==
    ASSUME AdmissionInv, GateInv, Gated, NEW c \in Callers, MayStart(c), ~HoldActive,
           NEW kind \in Kinds, NEW cost \in Nat \ {0}, Proceed(c, kind, cost),
           kind = "login" => Logins < MaxLogins
    PROVE  GateInv' /\ [Pact!Next]_(Pact!vars)
<1>1. \A d \in Callers : pc[d] = "idle"
  BY DEF MayStart
<1>2. \A d \in Callers : d # c => pc'[d] = "idle"
  BY <1>1 DEF Proceed, Leave, AdmissionInv, TypeOK
<1>3. GateInv'
  BY <1>2 DEF GateInv, Proceed, HoldActive, holdVars
<1>4. ASSUME Wait(cost) = 0 PROVE [Pact!Next]_(Pact!vars)
  <2>1. Leave(c, kind, cost) /\ UNCHANGED <<clock, today, stepsBack, holdReason>>
    BY <1>4 DEF Proceed, envVars, holdVars
  <2>2. clock >= lastLeft + MinInterval
    <3>1. clock \in Nat /\ lastLeft \in Int /\ lastCall \in Int /\ MinInterval \in Nat
      BY ConfigAssumption DEF ConfigAssumption, AdmissionInv, TypeOK
    <3> QED
      BY <1>4, <3>1, WaitCoversSpacing DEF AdmissionInv, SpacingInv
  <2>3. kind = "login" => RoomForLogin
    BY BelowTheCap DEF AdmissionInv, CapInv
  <2> QED
    BY <2>1, <2>2, <2>3, LeaveIsPact
<1>5. ASSUME Wait(cost) # 0 PROVE [Pact!Next]_(Pact!vars)
  BY <1>5, AnswerIsPact DEF Proceed, envVars, historyVars, AdmissionInv
<1> QED
  BY <1>3, <1>4, <1>5

\* A caller that stops leaves the others where they were.
LEMMA StopKeepsGate ==
    ASSUME TypeOK, GateInv, NEW c \in Callers, pc[c] # "idle", Release(c)
    PROVE  GateInv'
<1>1. \A d \in Callers : pc'[d] = "idle"
  BY DEF Release, GateInv, TypeOK
<1> QED
  BY <1>1 DEF GateInv

\* What a caller does behind the gate.
LEMMA CallerStepIsPact ==
    ASSUME AdmissionInv, GateInv, Gated, NEW c \in Callers, CallerStep(c)
    PROVE  GateInv' /\ [Pact!Next]_(Pact!vars)
<1> USE DEF envVars, holdVars, historyVars
<1>0. CallCosts \subseteq Nat \ {0} /\ LoginCosts \subseteq Nat \ {0} /\ TypeOK
  BY ConfigAssumption DEF ConfigAssumption, AdmissionInv
<1>1. ASSUME NEW p \in CallPriorities, NEW cost \in CallCosts, AdmitCall(c, p, cost)
      PROVE  GateInv' /\ [Pact!Next]_(Pact!vars)
  <2>1. PICK kind \in {"exempt", "timer"} : Proceed(c, kind, cost)
    BY <1>1 DEF AdmitCall
  <2>2. kind \in Kinds /\ kind # "login"
    BY <2>1 DEF Kinds
  <2> QED
    BY <1>0, <1>1, <2>1, <2>2, AdmissionIsPact DEF AdmitCall
<1>2. ASSUME NEW cost \in LoginCosts, AdmitLogin(c, cost)
      PROVE  GateInv' /\ [Pact!Next]_(Pact!vars)
  BY <1>0, <1>2, AdmissionIsPact DEF AdmitLogin, Kinds
<1>3. ASSUME NEW p \in CallPriorities, NEW cost \in CallCosts, DeferCall(c, p, cost)
      PROVE  GateInv' /\ [Pact!Next]_(Pact!vars)
  BY <1>0, <1>3, AnswerIsPact DEF DeferCall, GateInv, HoldActive, callerVars
<1>4. CASE RefuseLoginAtGuard(c)
  <2>1. \A d \in Callers : pc'[d] = "idle"
    BY <1>4 DEF RefuseLoginAtGuard, MayStart, callerVars
  <2> QED
    BY <1>0, <1>4, <2>1, AnswerIsPact DEF RefuseLoginAtGuard, GateInv
<1>5. CASE RefuseLoginAtCap(c)
  BY <1>0, <1>5, AnswerIsPact DEF RefuseLoginAtCap, GateInv, HoldActive, callerVars
<1>6. CASE Wake(c)
  <2>1. /\ pc[c] = "sleeping" /\ clock >= wakeAt[c]
        /\ UNCHANGED <<clock, today, stepsBack, holdReason>>
        /\ pc' = [pc EXCEPT ![c] = "flying"] /\ Leave(c, job[c].kind, job[c].cost)
    BY <1>6 DEF Wake, Leave
  <2>2. clock >= lastLeft + MinInterval
    <3>1. wakeAt[c] >= lastLeft + MinInterval /\ wakeAt[c] \in Nat
      BY <2>1 DEF AdmissionInv, SpacingInv, TypeOK
    <3>2. clock \in Nat /\ lastLeft \in Int /\ MinInterval \in Nat
      BY ConfigAssumption DEF ConfigAssumption, AdmissionInv, TypeOK
    <3> QED
      BY <2>1, <3>1, <3>2
  <2>3. job[c].kind = "login" => RoomForLogin
    BY <2>1 DEF AdmissionInv, CapInv
  <2>4. GateInv'
    BY <2>1 DEF GateInv, HoldActive, AdmissionInv, TypeOK
  <2> QED
    BY <2>1, <2>2, <2>3, <2>4, LeaveIsPact DEF GateInv
<1>7. CASE Cancel(c)
  BY <1>0, <1>7, AnswerIsPact, StopKeepsGate DEF Cancel
<1>8. ASSUME NEW kinds, Answered(c, kinds) PROVE GateInv' /\ [Pact!Next]_(Pact!vars)
  BY <1>0, <1>8, AnswerIsPact, StopKeepsGate DEF Answered
<1>9. ASSUME NEW extra \in 0 .. MaxExtra, LoginSettled(c, job[c].cost + extra)
      PROVE  Answered(c, {"login"})
  BY <1>9 DEF LoginSettled, LoginSucceeds, LoginRefused, LoginRefusedLocally, LoginUnusable,
              LoginTransportFails
<1> QED
  BY <1>1, <1>2, <1>3, <1>4, <1>5, <1>6, <1>7, <1>8, <1>9
     DEF CallerStep, CallSucceeds, CallFails

\* Batches, re-authentication, reloads and time.
LEMMA OtherStepIsPact ==
    ASSUME AdmissionInv, GateInv, LimiterStep \/ TimeStep
    PROVE  GateInv' /\ [Pact!Next]_(Pact!vars)
<1> USE DEF envVars, holdVars, historyVars, callerVars
<1>0. TypeOK
  BY DEF AdmissionInv
<1>1. CASE BeginBatch \/ EndBatch \/ QuietBegins \/ QuietEnds \/ Reauthenticate \/ Unload \/ Load
  <2>1. UNCHANGED <<clock, today, stepsBack, historyVars, pc>> /\ (HoldActive' => HoldActive)
    BY <1>1 DEF BeginBatch, EndBatch, QuietBegins, QuietEnds, Reauthenticate, ClearPenalties,
                Unload, Load, HoldActive
  <2> QED
    BY <1>0, <2>1, AnswerIsPact DEF GateInv
<1>2. CASE Tick
  <2>1. UNCHANGED <<today, stepsBack, historyVars, pc>> /\ clock' = clock + 1
          /\ holdReason' \in {holdReason, "none"}
    BY <1>2 DEF Tick
  <2>2. GateInv'
    BY <2>1 DEF GateInv, HoldActive
  <2>3. Pact!Tick
    BY <2>1 DEF HoldActive, Pact!Tick, Pact!dateVars, Pact!loginVars
  <2> QED
    BY <2>2, <2>3 DEF Pact!Next
<1>3. CASE Midnight
  BY <1>3 DEF Midnight, GateInv, HoldActive, Pact!Next, Pact!Midnight, Pact!loginVars
<1>4. CASE ClockStepsBack
  BY <1>4 DEF ClockStepsBack, GateInv, HoldActive, Pact!Next, Pact!ClockStepsBack,
              Pact!loginVars
<1> QED
  BY <1>1, <1>2, <1>3, <1>4 DEF LimiterStep, TimeStep

\* Behind the gate, and with a handover that keeps the day's counters, the limiter
\* implements the pact: one request at a time, spaced, never while the account is
\* barred, and no more logins than the dates gone through allow (RateLimiter.call, RateLimiter.login).
THEOREM KeepsThePact ==
    ASSUME Gated, ~LossyHandover PROVE Spec => ImplementsPact
<1>1. Init => AdmissionInv /\ GateInv /\ Pact!Init
  BY InitAdmission DEF Init, GateInv, HoldActive, Pact!Init
<1>2. AdmissionInv /\ GateInv /\ [Next]_vars
        => AdmissionInv' /\ GateInv' /\ [Pact!Next]_(Pact!vars)
  <2> SUFFICES ASSUME AdmissionInv, GateInv, [Next]_vars
               PROVE  AdmissionInv' /\ GateInv' /\ [Pact!Next]_(Pact!vars)
    OBVIOUS
  <2>1. AdmissionInv'
    BY NextAdmission
  <2>2. CASE UNCHANGED vars
    <3>1. GateInv' /\ UNCHANGED <<clock, today, stepsBack, historyVars>>
      BY <2>2 DEF vars, GateInv, HoldActive, historyVars
    <3> QED
      BY <2>1, <3>1, AnswerIsPact DEF AdmissionInv
  <2>3. CASE Next
    BY <2>1, <2>3, CallerStepIsPact, OtherStepIsPact DEF Next
  <2> QED
    BY <2>1, <2>2, <2>3
<1> QED
  BY <1>1, <1>2, PTL DEF Spec, ImplementsPact, Pact!Spec
-----------------------------------------------------------------------------
(* The guard on failed logins.                                             *)

\* The logins that may still be refused, and how many there may be at once.
Attempts == {c \in Callers : pc[c] # "idle" /\ job[c].kind = "login"}
Abreast == IF Gated THEN 1 ELSE Cardinality(Callers)

\* FailedLoginBound, with a refusal set aside for every login on its way.
GuardInv == Cardinality(failedLogins) + Cardinality(Attempts) < MaxFailedLogins + Abreast

\* Sets of callers are finite, and one caller at least may be served.
LEMMA CallersFinite ==
    /\ IsFiniteSet(Callers)
    /\ \A S \in SUBSET Callers : IsFiniteSet(S) /\ Cardinality(S) \in Nat
                                   /\ Cardinality(S) <= Cardinality(Callers)
    /\ Abreast \in Nat /\ Abreast >= 1
<1>1. IsFiniteSet(Callers) /\ Callers # {}
  BY ConfigAssumption DEF ConfigAssumption
<1>2. Cardinality(Callers) \in Nat /\ Cardinality(Callers) # 0
  BY <1>1, FS_CardinalityType, FS_EmptySet
<1>3. ASSUME NEW S \in SUBSET Callers
      PROVE  IsFiniteSet(S) /\ Cardinality(S) \in Nat /\ Cardinality(S) <= Cardinality(Callers)
  BY <1>1, FS_Subset, FS_CardinalityType
<1> QED
  BY <1>1, <1>2, <1>3 DEF Abreast

\* The refusals counted in an hour, and one more.
LEMMA RefusalsFinite ==
    ASSUME TypeOK
    PROVE  /\ Cardinality(failedLogins) \in Nat /\ MaxFailedLogins \in Nat \ {0}
           /\ \A f : /\ Cardinality(failedLogins \union {f}) \in Nat
                     /\ Cardinality(failedLogins \union {f}) <= Cardinality(failedLogins) + 1
<1>1. IsFiniteSet(failedLogins) /\ MaxFailedLogins \in Nat \ {0}
  BY ConfigAssumption DEF ConfigAssumption, TypeOK
<1>2. Cardinality(failedLogins) \in Nat
  BY <1>1, FS_CardinalityType
<1>3. ASSUME NEW f
      PROVE  Cardinality(failedLogins \union {f}) \in
               {Cardinality(failedLogins), Cardinality(failedLogins) + 1}
  BY <1>1, FS_AddElement
<1> QED
  BY <1>1, <1>2, <1>3

\* Fewer refusals and fewer logins on their way.
LEMMA FewerKeepsGuard ==
    ASSUME TypeOK, GuardInv, failedLogins' \subseteq failedLogins, Attempts' \subseteq Attempts
    PROVE  GuardInv'
<1>1. Cardinality(failedLogins') \in Nat /\ Cardinality(failedLogins) \in Nat
        /\ Cardinality(failedLogins') <= Cardinality(failedLogins)
  BY FS_Subset, FS_CardinalityType DEF TypeOK
<1>2. IsFiniteSet(Attempts) /\ Cardinality(Attempts) \in Nat
  BY CallersFinite DEF Attempts
<1>3. Cardinality(Attempts') \in Nat /\ Cardinality(Attempts') <= Cardinality(Attempts)
  BY <1>2, FS_Subset, FS_CardinalityType
<1>4. Abreast \in Nat /\ Abreast' = Abreast /\ MaxFailedLogins \in Nat
  BY CallersFinite, ConfigAssumption DEF ConfigAssumption, Abreast
<1> QED
  BY <1>1, <1>2, <1>3, <1>4 DEF GuardInv

\* A login is admitted while the guard is open (may_login).
LEMMA LoginKeepsGuard ==
    ASSUME TypeOK, GuardInv, NEW c \in Callers, NEW cost \in LoginCosts, AdmitLogin(c, cost)
    PROVE  GuardInv'
<1>1. Cardinality(failedLogins) \in Nat /\ Cardinality(failedLogins) < MaxFailedLogins
        /\ MaxFailedLogins \in Nat /\ failedLogins' = failedLogins
  BY RefusalsFinite DEF AdmitLogin, GuardClosed, Proceed, failureVars
<1>2. Cardinality(Attempts') \in Nat /\ Cardinality(Attempts') <= Abreast
  <2>1. CASE Gated
    <3>1. \A d \in Callers : d # c => pc'[d] = "idle"
      BY <2>1 DEF AdmitLogin, MayStart, Proceed, Leave, TypeOK
    <3>2. Attempts' \subseteq {c}
      BY <3>1 DEF Attempts
    <3>3. IsFiniteSet({c}) /\ Cardinality({c}) = 1
      BY FS_Singleton
    <3> QED
      BY <2>1, <3>2, <3>3, FS_Subset, FS_CardinalityType DEF Abreast
  <2>2. CASE ~Gated
    <3>1. Attempts' \in SUBSET Callers
      BY DEF Attempts
    <3> QED
      BY <2>2, <3>1, CallersFinite DEF Abreast
  <2> QED
    BY <2>1, <2>2
<1>3. Abreast' = Abreast /\ Abreast \in Nat
  BY CallersFinite DEF Abreast
<1>4. Cardinality(failedLogins') = Cardinality(failedLogins)
  BY <1>1
<1> HIDE DEF Attempts, Abreast
<1> QED
  BY <1>1, <1>2, <1>3, <1>4 DEF GuardInv

\* A refusal takes the place that was set aside for it (note_login).
LEMMA RefusalKeepsGuard ==
    ASSUME TypeOK, GuardInv, NEW c \in Callers, NEW used, LoginRefused(c, used)
    PROVE  GuardInv'
<1>1. /\ failedLogins' = failedLogins \union {<<c, clock>>}
      /\ pc[c] # "idle" /\ job[c].kind = "login" /\ pc' = [pc EXCEPT ![c] = "idle"]
      /\ job' = [job EXCEPT ![c] = NoJob]
  BY DEF LoginRefused, Answered, Release
<1>2. Attempts' = Attempts \ {c} /\ c \in Attempts
  BY <1>1 DEF Attempts, TypeOK
<1>3. Cardinality(failedLogins) \in Nat /\ Cardinality(failedLogins') \in Nat
        /\ Cardinality(failedLogins') <= Cardinality(failedLogins) + 1
  BY <1>1, RefusalsFinite
<1>4. IsFiniteSet(Attempts) /\ Cardinality(Attempts) \in Nat
  BY CallersFinite DEF Attempts
<1>5. Cardinality(Attempts') = Cardinality(Attempts) - 1
  BY <1>2, <1>4, FS_RemoveElement
<1>6. Abreast \in Nat /\ Abreast' = Abreast /\ MaxFailedLogins \in Nat
  BY CallersFinite, ConfigAssumption DEF ConfigAssumption, Abreast
<1> QED
  BY <1>3, <1>4, <1>5, <1>6 DEF GuardInv

\* Everything else refuses no login and admits none.
LEMMA NextKeepsGuard == TypeOK /\ GuardInv /\ [Next]_vars => GuardInv'
<1> SUFFICES ASSUME TypeOK, GuardInv, [Next]_vars PROVE GuardInv'
  OBVIOUS
<1> USE DEF failureVars, callerVars
<1>1. ASSUME NEW c \in Callers, CallerStep(c) PROVE GuardInv'
  <2>1. ASSUME NEW p \in CallPriorities, NEW cost \in CallCosts, AdmitCall(c, p, cost)
        PROVE  GuardInv'
    <3>1. failedLogins' = failedLogins
      BY <2>1 DEF AdmitCall, Proceed
    <3>2. job' = [job EXCEPT ![c] = [kind |-> IF p \in QuietHoursExempt THEN "exempt" ELSE "timer",
                                     cost |-> cost]]
            /\ \A d \in Callers : d # c => pc'[d] = pc[d]
      BY <2>1 DEF AdmitCall, Proceed, Leave, TypeOK
    <3>3. Attempts' \subseteq Attempts
      BY <3>2 DEF Attempts, TypeOK
    <3> QED
      BY <3>1, <3>3, FewerKeepsGuard
  <2>2. ASSUME NEW p \in CallPriorities, NEW cost \in CallCosts, DeferCall(c, p, cost)
        PROVE  GuardInv'
    BY <2>2, FewerKeepsGuard DEF DeferCall, Attempts
  <2>3. ASSUME NEW cost \in LoginCosts, AdmitLogin(c, cost) PROVE GuardInv'
    BY <2>3, LoginKeepsGuard
  <2>4. CASE RefuseLoginAtGuard(c) \/ RefuseLoginAtCap(c)
    BY <2>4, FewerKeepsGuard DEF RefuseLoginAtGuard, RefuseLoginAtCap, Attempts
  <2>5. CASE Wake(c)
    <3>1. Attempts' \subseteq Attempts
      BY <2>5 DEF Wake, Leave, Attempts, TypeOK
    <3> QED
      BY <2>5, <3>1, FewerKeepsGuard DEF Wake
  <2>6. Release(c) => Attempts' \subseteq Attempts
    BY DEF Release, NoJob, Attempts, TypeOK
  <2>7. CASE Cancel(c)
    BY <2>6, <2>7, FewerKeepsGuard DEF Cancel
  <2>8. ASSUME NEW extra, CallSucceeds(c, extra) PROVE GuardInv'
    BY <2>6, <2>8, FewerKeepsGuard DEF CallSucceeds, Answered
  <2>9. CASE CallFails(c)
    BY <2>6, <2>9, FewerKeepsGuard DEF CallFails, Answered
  <2>10. ASSUME NEW used, LoginSettled(c, used) PROVE GuardInv'
    <3>1. CASE LoginRefused(c, used)
      BY <3>1, RefusalKeepsGuard
    <3>2. CASE ~LoginRefused(c, used)
      <4>1. Release(c) /\ failedLogins' = failedLogins
        BY <2>10, <3>2 DEF LoginSettled, LoginSucceeds, LoginRefusedLocally, LoginUnusable,
                           LoginTransportFails, Answered
      <4> QED
        BY <2>6, <4>1, FewerKeepsGuard
    <3> QED
      BY <3>1, <3>2
  <2> QED
    BY <1>1, <2>1, <2>2, <2>3, <2>4, <2>5, <2>7, <2>8, <2>9, <2>10 DEF CallerStep
<1>2. ASSUME LimiterStep \/ TimeStep PROVE GuardInv'
  <2>1. UNCHANGED <<pc, job>> /\ failedLogins' \subseteq failedLogins
    BY <1>2 DEF LimiterStep, BeginBatch, EndBatch, Reauthenticate, ClearPenalties, Unload, Load,
                TimeStep, Tick, RecentAt, Midnight, ClockStepsBack, QuietBegins, QuietEnds
  <2> QED
    BY <2>1, FewerKeepsGuard DEF Attempts
<1>3. CASE UNCHANGED vars
  BY <1>3, FewerKeepsGuard DEF vars, Attempts
<1> QED
  BY <1>1, <1>2, <1>3 DEF Next

\* Never more than MaxFailedLogins refusals are counted in an hour; without the gate, each
\* login already on its way when the guard closes may add one (may_login, note_login).
THEOREM FailedLogins == Spec => []FailedLoginBound
<1>1. Init => GuardInv
  <2> SUFFICES ASSUME Init PROVE GuardInv
    OBVIOUS
  <2>1. failedLogins = {} /\ Attempts = {}
    BY DEF Init, Attempts
  <2>2. MaxFailedLogins \in Nat \ {0}
    BY ConfigAssumption DEF ConfigAssumption
  <2> QED
    BY <2>1, <2>2, CallersFinite, FS_EmptySet DEF GuardInv
<1>2. TypeOK /\ GuardInv => FailedLoginBound
  <2> SUFFICES ASSUME TypeOK, GuardInv PROVE FailedLoginBound
    OBVIOUS
  <2>1. Cardinality(failedLogins) \in Nat /\ Cardinality(Attempts) \in Nat
          /\ Cardinality(Callers) \in Nat /\ MaxFailedLogins \in Nat
    BY CallersFinite, FS_CardinalityType, ConfigAssumption DEF ConfigAssumption, TypeOK, Attempts
  <2> QED
    BY <2>1 DEF GuardInv, FailedLoginBound, Abreast
<1> QED
  BY <1>1, <1>2, NextKeepsGuard, TypeCorrect, PTL DEF Spec

-----------------------------------------------------------------------------
(* Holds, and the flag the household reads.                                *)

\* What may happen to a hold and to the flag: nothing, a refusal that only sets the
\* flag, a hold, a success, the end of the hold, a person, or an unload.
LEMMA PenaltySteps ==
    ASSUME TypeOK, [Next]_vars
    PROVE  \/ UNCHANGED holdVars
           \/ throttled' = TRUE /\ UNCHANGED <<holdUntil, holdReason>>
           \/ \E r \in HoldReasons, s \in Nat : StartHold(r, s)
           \/ \E c \in Callers : \E extra \in 0 .. MaxExtra : CallSucceeds(c, extra)
           \/ \E c \in Callers, used \in Nat : LoginSucceeds(c, used)
           \/ Tick
           \/ Reauthenticate
           \/ UNCHANGED <<holdUntil, holdReason>> /\ ~loaded'
<1> USE DEF holdVars
<1>0. CredentialsHold \in Nat /\ BootstrapHold \in Nat /\ BackoffMax \in Nat /\ MaxExtra \in Nat
  BY ConfigAssumption DEF ConfigAssumption
<1>1. NoteFailure => \E r \in HoldReasons, s \in Nat : StartHold(r, s)
  BY <1>0 DEF NoteFailure, BackoffDelays, HoldReasons
<1>2. ASSUME NEW c \in Callers, CallerStep(c)
      PROVE  \/ UNCHANGED holdVars
             \/ throttled' = TRUE /\ UNCHANGED <<holdUntil, holdReason>>
             \/ \E r \in HoldReasons, s \in Nat : StartHold(r, s)
             \/ \E extra \in 0 .. MaxExtra : CallSucceeds(c, extra)
             \/ \E used \in Nat : LoginSucceeds(c, used)
  <2>1. ASSUME NEW p \in CallPriorities, NEW cost \in CallCosts,
               AdmitCall(c, p, cost) \/ DeferCall(c, p, cost)
        PROVE  UNCHANGED holdVars \/ (throttled' = TRUE /\ UNCHANGED <<holdUntil, holdReason>>)
    BY <2>1 DEF AdmitCall, DeferCall, Proceed
  <2>2. ASSUME NEW cost \in LoginCosts, AdmitLogin(c, cost) PROVE UNCHANGED holdVars
    BY <2>2 DEF AdmitLogin, Proceed
  <2>3. CASE RefuseLoginAtGuard(c)
    BY <1>0, <2>3 DEF RefuseLoginAtGuard, HoldReasons
  <2>4. CASE RefuseLoginAtCap(c) \/ Wake(c) \/ Cancel(c)
    BY <2>4 DEF RefuseLoginAtCap, Wake, Cancel
  <2>5. CASE CallFails(c)
    BY <1>1, <2>5 DEF CallFails
  <2>6. ASSUME NEW extra \in 0 .. MaxExtra, LoginSettled(c, job[c].cost + extra)
        PROVE  \/ UNCHANGED holdVars
               \/ \E r \in HoldReasons, s \in Nat : StartHold(r, s)
               \/ \E used \in Nat : LoginSucceeds(c, used)
    <3> DEFINE used == job[c].cost + extra
    <3>1. used \in Nat
      BY <1>0 DEF TypeOK
    <3> HIDE DEF used
    <3>2. CASE LoginRefused(c, used)
      BY <1>0, <3>2 DEF LoginRefused, HoldReasons
    <3>3. CASE LoginRefusedLocally(c, used)
      BY <3>3 DEF LoginRefusedLocally
    <3>4. ASSUME NEW o, LoginUnusable(c, used, o)
          PROVE  \E r \in HoldReasons, s \in Nat : StartHold(r, s)
      <4>1. StartHold("mfa", CredentialsHold) \/ StartHold("bootstrap", BootstrapHold)
        BY <3>4 DEF LoginUnusable
      <4> QED
        BY <1>0, <4>1 DEF HoldReasons
    <3>5. CASE LoginTransportFails(c, used)
      BY <1>1, <3>5 DEF LoginTransportFails
    <3> QED
      BY <2>6, <3>1, <3>2, <3>3, <3>4, <3>5 DEF LoginSettled, used
  <2> QED
    BY <1>2, <2>1, <2>2, <2>3, <2>4, <2>5, <2>6 DEF CallerStep
<1>3. CASE LimiterStep
  BY <1>3 DEF LimiterStep, BeginBatch, EndBatch, Unload, Load
<1>4. CASE TimeStep
  BY <1>4 DEF TimeStep, Midnight, ClockStepsBack, QuietBegins, QuietEnds
<1>5. CASE UNCHANGED vars
  BY <1>5 DEF vars
<1> QED
  BY <1>2, <1>3, <1>4, <1>5 DEF Next

\* While a hold runs, only a person lowers its severity, and only a success lifts it
\* early, when it is a backoff: no midnight, no reload, no lesser failure (_start_hold,
\* note_success, import_state).
THEOREM HoldsStand == Spec => HoldNotDowngraded
<1>1. ASSUME TypeOK, [Next]_vars, HoldActive, ~Reauthenticate, clock' < holdUntil
      PROVE  \/ HoldActive' /\ HoldSeverity(holdReason') >= HoldSeverity(holdReason)
             \/ holdReason = "backoff" /\ consecutiveFailures' = 0
  <2>1. HoldSeverity(holdReason) \in Nat
    BY DEF HoldSeverity, TypeOK, HoldReasons
  <2>2. CASE UNCHANGED <<holdUntil, holdReason>>
    BY <1>1, <2>1, <2>2 DEF HoldActive
  <2>3. ASSUME NEW r \in HoldReasons, NEW s \in Nat, StartHold(r, s)
        PROVE  HoldActive' /\ HoldSeverity(holdReason') >= HoldSeverity(holdReason)
    <3>1. HoldSeverity(r) \in Nat /\ r # "none"
      BY DEF HoldSeverity, HoldReasons
    <3> QED
      BY <1>1, <2>1, <2>3, <3>1 DEF StartHold, HoldActive
  <2>4. ASSUME NEW c \in Callers, NEW extra \in 0 .. MaxExtra, CallSucceeds(c, extra)
        PROVE  \/ UNCHANGED <<holdUntil, holdReason>>
               \/ holdReason = "backoff" /\ consecutiveFailures' = 0
    BY <2>4 DEF CallSucceeds
  <2>5. ASSUME NEW c \in Callers, NEW used \in Nat, LoginSucceeds(c, used)
        PROVE  UNCHANGED <<holdUntil, holdReason>>
    BY <2>5 DEF LoginSucceeds
  <2>6. Tick => UNCHANGED <<holdUntil, holdReason>>
    BY <1>1 DEF Tick, TypeOK
  <2> QED
    BY <1>1, <2>2, <2>3, <2>4, <2>5, <2>6, PenaltySteps DEF holdVars
<1>2. TypeOK /\ [Next]_vars =>
        [(HoldActive /\ ~Reauthenticate /\ clock' < holdUntil) =>
            \/ HoldActive' /\ HoldSeverity(holdReason') >= HoldSeverity(holdReason)
            \/ holdReason = "backoff" /\ consecutiveFailures' = 0]_vars
  BY <1>1
<1> QED
  BY <1>2, TypeCorrect, PTL DEF Spec, HoldNotDowngraded

\* The cap is never silent: outside a re-authentication and a reload, the flag clears only
\* when no hold runs, no tier is shed and logins remain (_maybe_clear_throttled).
THEOREM FlagIsHonest == Spec => ThrottledHonest
<1> DEFINE Clear == ~HoldActive' /\ (\A p \in {"gesture", "high", "normal", "low"} : ~Shed(p))
                      /\ Logins < MaxLogins
<1>1. ASSUME TypeOK, [Next]_vars, throttled, ~throttled', ~Reauthenticate, loaded' PROVE Clear
  <2>1. Calls \in Nat /\ Logins \in Nat /\ MaxPerDay \in Nat /\ MaxLogins \in Nat
    <3>1. MaxPerDay \in Nat /\ MaxLogins \in Nat
      BY ConfigAssumption DEF ConfigAssumption
    <3> QED
      BY <1>1, <3>1 DEF TypeOK, Calls, Logins
  <2>2. ASSUME NEW calls \in Nat, NEW logins \in Nat, calls >= Calls, logins >= Logins,
               ~StillPostponing(HoldActive', calls, logins)
        PROVE  Clear
    <3>1. 10 * calls < 6 * MaxPerDay /\ logins < MaxLogins /\ ~HoldActive'
      BY <2>1, <2>2 DEF StillPostponing
    <3>2. \A p \in {"gesture", "high", "normal", "low"} : ~Shed(p)
      BY <2>1, <2>2, <3>1 DEF Shed, CapSpent
    <3> QED
      BY <2>1, <2>2, <3>1, <3>2
  <2>3. ASSUME NEW c \in Callers, NEW extra \in 0 .. MaxExtra, CallSucceeds(c, extra) PROVE Clear
    <3>1. HoldActive' <=> HoldActive /\ ~(HoldActive /\ holdReason = "backoff")
      BY <2>3 DEF CallSucceeds, HoldActive
    <3>2. ~StillPostponing(HoldActive /\ ~(HoldActive /\ holdReason = "backoff"), Calls, Logins)
      BY <1>1, <2>3, Zenon DEF CallSucceeds
    <3>3. ~StillPostponing(HoldActive', Calls, Logins)
      BY <3>1, <3>2 DEF StillPostponing
    <3> QED
      BY <2>1, <2>2, <3>3
  <2>4. ASSUME NEW c \in Callers, NEW used \in Nat, LoginSucceeds(c, used) PROVE Clear
    <3>1. callsToday' \in Nat /\ callsToday' >= Calls /\ loginsToday' \in Nat /\ loginsToday' >= Logins
      BY <1>1, <2>1, <2>4 DEF LoginSucceeds, SettleLogin, Charge, RollDay, TypeOK
    <3>2. ~StillPostponing(HoldActive', callsToday', loginsToday')
      BY <1>1, <2>4 DEF LoginSucceeds, HoldActive
    <3> QED
      BY <2>2, <3>1, <3>2
  <2> QED
    BY <1>1, <2>3, <2>4, PenaltySteps DEF holdVars, StartHold, Tick, TypeOK
<1>2. TypeOK /\ [Next]_vars =>
        [(throttled /\ ~throttled' /\ ~Reauthenticate /\ loaded') => Clear]_vars
  BY <1>1
<1> QED
  BY <1>2, TypeCorrect, PTL DEF Spec, ThrottledHonest

-----------------------------------------------------------------------------
(* The quiet hours.                                                        *)

\* A batch keeps its grace from before the night, and a timed call that sleeps was
\* admitted with it: neither outlives the bound.
QuietInv ==
    /\ graceUntil <= clock + BatchGrace
    /\ InQuietHours => quietSince <= clock /\ graceUntil <= quietSince + BatchGrace
    /\ \A c \in Callers : pc[c] = "sleeping" => clock <= wakeAt[c]
    /\ \A c \in Callers : pc[c] = "sleeping" /\ job[c].kind = "timer" =>
         /\ wakeAt[c] <= clock + MaxWait
         /\ InQuietHours => wakeAt[c] <= quietSince + BatchGrace + MaxWait

\* What leaves at night, and until when.
NightBound(c) ==
    (Leaves /\ pc[c] # "flying" /\ pc'[c] = "flying" /\ job'[c].kind = "timer" /\ InQuietHours)
      => clock <= quietSince + BatchGrace + MaxWait

\* An admission: at night a timed call has the grace of its batch (_check_quiet_hours).
LEMMA AdmissionAtNight ==
    ASSUME TypeOK, QuietInv, NEW c \in Callers, NEW kind \in Kinds, NEW cost \in Nat \ {0},
           Proceed(c, kind, cost),
           kind = "timer" => Wait(cost) <= MaxWait /\ (InQuietHours => clock <= graceUntil)
    PROVE  QuietInv' /\ \A d \in Callers : NightBound(d)
<1>1. BatchGrace \in Nat /\ MaxWait \in Nat /\ Wait(cost) \in Nat
  BY ConfigAssumption, WaitCoversSpacing DEF ConfigAssumption
<1>2. /\ UNCHANGED <<clock, quietSince, graceUntil>>
      /\ \A d \in Callers : d # c => pc'[d] = pc[d] /\ wakeAt'[d] = wakeAt[d] /\ job'[d] = job[d]
      /\ job'[c].kind = kind
  BY DEF Proceed, Leave, envVars, TypeOK
<1>3. pc'[c] = "sleeping" => wakeAt'[c] = clock + Wait(cost)
  BY DEF Proceed, Leave, TypeOK
<1>4. clock \in Nat /\ quietSince \in Int /\ graceUntil \in Int /\ wakeAt \in [Callers -> Nat]
  BY DEF TypeOK, None
<1>5. InQuietHours' = InQuietHours
  BY <1>2 DEF InQuietHours
<1>6. InQuietHours => quietSince <= clock /\ graceUntil <= quietSince + BatchGrace
  BY DEF QuietInv
<1>7. /\ pc'[c] = "sleeping" => clock <= wakeAt'[c]
      /\ pc'[c] = "sleeping" /\ kind = "timer" =>
           /\ wakeAt'[c] <= clock + MaxWait
           /\ InQuietHours => wakeAt'[c] <= quietSince + BatchGrace + MaxWait
  BY <1>1, <1>3, <1>4, <1>6
<1>8. QuietInv'
  BY <1>2, <1>5, <1>7 DEF QuietInv
<1>9. ASSUME NEW d \in Callers PROVE NightBound(d)
  <2>1. CASE d = c
    <3>1. kind = "timer" /\ InQuietHours => clock <= quietSince + BatchGrace + MaxWait
      BY <1>1, <1>4, <1>6
    <3> QED
      BY <1>2, <2>1, <3>1 DEF NightBound
  <2>2. CASE d # c
    BY <1>2, <2>2 DEF NightBound
  <2> QED
    BY <2>1, <2>2
<1> QED
  BY <1>8, <1>9

\* A caller that leaves the limiter, or wakes, is no longer asleep.
LEMMA AwakeAtNight ==
    ASSUME TypeOK, QuietInv, UNCHANGED <<clock, quietSince, graceUntil>>,
           \A d \in Callers : pc'[d] = "sleeping" =>
              pc[d] = "sleeping" /\ wakeAt'[d] = wakeAt[d] /\ job'[d] = job[d]
    PROVE  QuietInv'
  BY DEF QuietInv, InQuietHours

\* What a caller does at night.
LEMMA CallerAtNight ==
    ASSUME TypeOK, QuietInv, NEW c \in Callers, CallerStep(c)
    PROVE  QuietInv' /\ \A d \in Callers : NightBound(d)
<1> USE DEF envVars, callerVars
<1>0. CallCosts \subseteq Nat \ {0} /\ LoginCosts \subseteq Nat \ {0} /\ clock \in Nat
  BY ConfigAssumption DEF ConfigAssumption, TypeOK
<1>1. ASSUME NEW p \in CallPriorities, NEW cost \in CallCosts, AdmitCall(c, p, cost)
      PROVE  QuietInv' /\ \A d \in Callers : NightBound(d)
  <2> DEFINE kind == IF p \in QuietHoursExempt THEN "exempt" ELSE "timer"
  <2>1. kind \in Kinds /\ Proceed(c, kind, cost) /\ Wait(cost) <= MaxWait
    BY <1>1 DEF AdmitCall, Kinds
  <2>2. kind = "timer" => (InQuietHours => clock <= graceUntil)
    BY <1>1 DEF AdmitCall, QuietBlocks, BatchMayFinish
  <2> HIDE DEF kind
  <2> QED
    BY <1>0, <2>1, <2>2, AdmissionAtNight
<1>2. ASSUME NEW cost \in LoginCosts, AdmitLogin(c, cost)
      PROVE  QuietInv' /\ \A d \in Callers : NightBound(d)
  BY <1>0, <1>2, AdmissionAtNight DEF AdmitLogin, Kinds
<1>3. CASE Wake(c)
  <2>1. /\ pc[c] = "sleeping" /\ clock >= wakeAt[c] /\ job' = job
        /\ pc' = [pc EXCEPT ![c] = "flying"] /\ wakeAt' = [wakeAt EXCEPT ![c] = 0]
        /\ UNCHANGED <<clock, quietSince, graceUntil>>
    BY <1>3 DEF Wake, Leave
  <2>2. QuietInv'
    BY <2>1, AwakeAtNight DEF TypeOK
  <2>3. InQuietHours /\ job[c].kind = "timer" => clock <= quietSince + BatchGrace + MaxWait
    <3>1. wakeAt[c] \in Nat /\ BatchGrace \in Nat /\ MaxWait \in Nat
      BY ConfigAssumption DEF ConfigAssumption, TypeOK
    <3>2. InQuietHours => quietSince \in Nat
      BY DEF InQuietHours, TypeOK
    <3> QED
      BY <1>0, <2>1, <3>1, <3>2 DEF QuietInv
  <2>4. ASSUME NEW d \in Callers PROVE NightBound(d)
    BY <2>1, <2>3 DEF NightBound, TypeOK
  <2> QED
    BY <2>2, <2>4
<1>4. ASSUME \/ \E p \in CallPriorities, cost \in CallCosts : DeferCall(c, p, cost)
             \/ RefuseLoginAtGuard(c) \/ RefuseLoginAtCap(c)
      PROVE  QuietInv' /\ \A d \in Callers : NightBound(d)
  <2>1. UNCHANGED <<clock, quietSince, graceUntil, pc, job, wakeAt>>
    BY <1>4 DEF DeferCall, RefuseLoginAtGuard, RefuseLoginAtCap
  <2> QED
    BY <2>1, AwakeAtNight DEF NightBound
<1>5. ASSUME \/ Cancel(c) \/ CallFails(c)
             \/ \E extra \in 0 .. MaxExtra : CallSucceeds(c, extra)
             \/ \E extra \in 0 .. MaxExtra : LoginSettled(c, job[c].cost + extra)
      PROVE  QuietInv' /\ \A d \in Callers : NightBound(d)
  <2>1. Release(c) /\ UNCHANGED <<clock, quietSince, graceUntil>>
    <3>1. ASSUME NEW used, LoginSettled(c, used) PROVE Answered(c, {"login"})
      BY <3>1 DEF LoginSettled, LoginSucceeds, LoginRefused, LoginRefusedLocally, LoginUnusable,
                  LoginTransportFails
    <3> QED
      BY <1>5, <3>1 DEF Cancel, CallFails, CallSucceeds, Answered
  <2>2. pc'[c] = "idle" /\ \A d \in Callers : d # c =>
                               pc'[d] = pc[d] /\ wakeAt'[d] = wakeAt[d] /\ job'[d] = job[d]
    BY <2>1 DEF Release, TypeOK
  <2>3. \A d \in Callers : pc'[d] = "sleeping" =>
          pc[d] = "sleeping" /\ wakeAt'[d] = wakeAt[d] /\ job'[d] = job[d]
    BY <2>2
  <2>4. \A d \in Callers : NightBound(d)
    BY <2>2 DEF NightBound
  <2> QED
    BY <2>1, <2>3, <2>4, AwakeAtNight
<1> QED
  BY <1>1, <1>2, <1>3, <1>4, <1>5 DEF CallerStep

\* Batches, reloads and time.
LEMMA OthersAtNight ==
    ASSUME TypeOK, QuietInv, LimiterStep \/ TimeStep \/ UNCHANGED vars
    PROVE  QuietInv' /\ \A d \in Callers : NightBound(d)
<1> USE DEF envVars, callerVars
<1>0. BatchGrace \in Nat /\ MaxWait \in Nat /\ clock \in Nat /\ graceUntil \in Int
        /\ quietSince \in Int /\ wakeAt \in [Callers -> Nat]
  BY ConfigAssumption DEF ConfigAssumption, TypeOK, None
<1>1. UNCHANGED <<pc, job, wakeAt>>
  BY DEF LimiterStep, BeginBatch, EndBatch, Reauthenticate, Unload, Load, TimeStep, Tick,
         Midnight, ClockStepsBack, QuietBegins, QuietEnds, vars
<1>2. \A d \in Callers : NightBound(d)
  BY <1>1 DEF NightBound
<1>3. CASE BeginBatch
  <2>1. /\ UNCHANGED <<clock, quietSince>>
        /\ graceUntil' = IF InQuietHours THEN None ELSE clock + BatchGrace
    BY <1>3 DEF BeginBatch
  <2>2. InQuietHours => quietSince \in Nat
    BY DEF InQuietHours, TypeOK
  <2> QED
    BY <1>0, <1>1, <1>2, <2>1, <2>2 DEF QuietInv, InQuietHours, None
<1>4. CASE EndBatch \/ Unload
  <2>1. graceUntil' = None /\ UNCHANGED <<clock, quietSince>>
    BY <1>4 DEF EndBatch, Unload
  <2>2. InQuietHours => quietSince \in Nat
    BY DEF InQuietHours, TypeOK
  <2> QED
    BY <1>0, <1>1, <1>2, <2>1, <2>2 DEF QuietInv, InQuietHours, None
<1>5. CASE Tick
  <2>1. clock' = clock + 1 /\ UNCHANGED <<quietSince, graceUntil>>
          /\ \A c \in Callers : pc[c] = "sleeping" => clock < wakeAt[c]
    BY <1>5 DEF Tick
  <2> QED
    BY <1>0, <1>1, <1>2, <2>1 DEF QuietInv, InQuietHours
<1>6. CASE QuietBegins
  BY <1>0, <1>1, <1>2, <1>6 DEF QuietBegins, QuietInv, InQuietHours
<1>7. CASE QuietEnds
  BY <1>1, <1>2, <1>7 DEF QuietEnds, QuietInv, InQuietHours
<1>8. CASE Reauthenticate \/ Load \/ Midnight \/ ClockStepsBack \/ UNCHANGED vars
  <2>1. UNCHANGED <<clock, quietSince, graceUntil>>
    BY <1>8 DEF Reauthenticate, Load, Midnight, ClockStepsBack, vars
  <2> QED
    BY <1>1, <1>2, <2>1, AwakeAtNight
<1> QED
  BY <1>2, <1>3, <1>4, <1>5, <1>6, <1>7, <1>8 DEF LimiterStep, TimeStep

\* Only a batch that straddles the start of quiet hours lets a timed call leave during
\* them, and for no longer than its grace and one wait (begin_batch, _check_quiet_hours).
THEOREM NightsAreQuiet == Spec => QuietHoursBound
<1>1. Init => QuietInv
  BY ConfigAssumption DEF ConfigAssumption, Init, QuietInv, InQuietHours, None
<1>2. TypeOK /\ QuietInv /\ [Next]_vars => QuietInv' /\ \A c \in Callers : NightBound(c)
  BY CallerAtNight, OthersAtNight DEF Next
<1>3. TypeOK /\ QuietInv /\ [Next]_vars =>
        [\A c \in Callers :
           (Leaves /\ pc[c] # "flying" /\ pc'[c] = "flying" /\ job'[c].kind = "timer"
               /\ InQuietHours)
           => clock <= quietSince + BatchGrace + MaxWait]_vars
  BY <1>2 DEF NightBound
<1>4. TypeOK /\ QuietInv /\ [Next]_vars => QuietInv'
  BY <1>2
<1> QED
  BY <1>1, <1>3, <1>4, TypeCorrect, PTL DEF Spec, QuietHoursBound

-----------------------------------------------------------------------------
(* The bucket.                                                             *)

\* A step of a caller charges, or leaves the bucket alone.
LEMMA CallerCharges ==
    ASSUME TypeOK, NEW c \in Callers, CallerStep(c)
    PROVE  /\ clock' = clock
           /\ UNCHANGED bucketVars \/ \E n \in Nat, l \in Nat : Charge(n, l)
<1> USE DEF envVars
<1>0. CallCosts \subseteq Nat \ {0} /\ LoginCosts \subseteq Nat \ {0} /\ MaxExtra \in Nat
        /\ job \in [Callers -> [kind : Kinds, cost : Nat \ {0}]] /\ loginCharged \in Nat
  BY ConfigAssumption DEF ConfigAssumption, TypeOK
<1>1. ASSUME NEW kind, NEW cost \in Nat, Leave(c, kind, cost)
      PROVE  \E n \in Nat, l \in Nat : Charge(n, l)
  BY <1>1 DEF Leave
<1>2. ASSUME NEW kind, NEW cost \in Nat, Proceed(c, kind, cost)
      PROVE  clock' = clock /\ (UNCHANGED bucketVars \/ \E n \in Nat, l \in Nat : Charge(n, l))
  BY <1>1, <1>2 DEF Proceed
<1>3. ASSUME NEW used \in Nat, SettleLogin(used)
      PROVE  UNCHANGED bucketVars \/ \E n \in Nat, l \in Nat : Charge(n, l)
  <2>1. used > loginCharged => used - loginCharged \in Nat
    BY <1>0, <1>3
  <2> QED
    BY <1>3, <2>1 DEF SettleLogin
<1>4. ASSUME NEW p \in CallPriorities, NEW cost \in CallCosts,
             AdmitCall(c, p, cost) \/ DeferCall(c, p, cost)
      PROVE  clock' = clock /\ (UNCHANGED bucketVars \/ \E n \in Nat, l \in Nat : Charge(n, l))
  BY <1>0, <1>2, <1>4 DEF AdmitCall, DeferCall
<1>5. ASSUME NEW cost \in LoginCosts, AdmitLogin(c, cost)
      PROVE  clock' = clock /\ (UNCHANGED bucketVars \/ \E n \in Nat, l \in Nat : Charge(n, l))
  BY <1>0, <1>2, <1>5 DEF AdmitLogin
<1>6. CASE RefuseLoginAtGuard(c) \/ RefuseLoginAtCap(c) \/ Cancel(c) \/ CallFails(c)
  BY <1>6 DEF RefuseLoginAtGuard, RefuseLoginAtCap, Cancel, CallFails, Answered
<1>7. CASE Wake(c)
  BY <1>0, <1>1, <1>7 DEF Wake
<1>8. ASSUME NEW extra \in 0 .. MaxExtra, CallSucceeds(c, extra)
      PROVE  clock' = clock /\ (UNCHANGED bucketVars \/ \E n \in Nat, l \in Nat : Charge(n, l))
  BY <1>0, <1>8 DEF CallSucceeds, Answered
<1>9. ASSUME NEW extra \in 0 .. MaxExtra, LoginSettled(c, job[c].cost + extra)
      PROVE  clock' = clock /\ (UNCHANGED bucketVars \/ \E n \in Nat, l \in Nat : Charge(n, l))
  <2> DEFINE used == job[c].cost + extra
  <2>1. used \in Nat
    BY <1>0
  <2> HIDE DEF used
  <2>2. SettleLogin(used) /\ clock' = clock
    BY <1>9 DEF LoginSettled, LoginSucceeds, LoginRefused, LoginRefusedLocally,
                LoginUnusable, LoginTransportFails, Answered, used
  <2> QED
    BY <1>3, <2>1, <2>2
<1> QED
  BY <1>4, <1>5, <1>6, <1>7, <1>8, <1>9 DEF CallerStep

\* What is charged leaves the bucket (_record_requests).
LEMMA ChargeConserves ==
    ASSUME TypeOK, BucketConserved, NEW n \in Nat, NEW l \in Nat, Charge(n, l), clock' = clock
    PROVE  BucketConserved'
<1>1. MaxPerHour \in Nat /\ Hour \in Nat /\ BurstSize \in Nat /\ clock \in Nat /\ charged \in Nat
        /\ tokens \in Int /\ lastCall \in Int
  BY ConfigAssumption DEF ConfigAssumption, TypeOK
<1>2. (clock - lastCall) * MaxPerHour \in Int /\ BurstSize * Hour \in Int /\ n * Hour \in Int
        /\ charged * Hour \in Int /\ MaxPerHour * clock \in Int
  BY <1>1
<1>3. Tokens \in Int
  BY <1>1, <1>2 DEF Tokens, Least
<1>4. (clock' - lastCall') * MaxPerHour = 0
  BY <1>1 DEF Charge
<1>5. Tokens' <= Tokens - n * Hour /\ Tokens' \in Int
  BY <1>2, <1>3, <1>4 DEF Charge, Tokens, Least
<1>6. charged' * Hour = charged * Hour + n * Hour
  BY <1>1 DEF Charge
<1> QED
  BY <1>2, <1>3, <1>5, <1>6 DEF BucketConserved

\* A tick refills the bucket by one tick's worth (_refill).
LEMMA TickConserves == TypeOK /\ BucketConserved /\ Tick => BucketConserved'
<1> SUFFICES ASSUME TypeOK, BucketConserved, Tick PROVE BucketConserved'
  OBVIOUS
<1>1. MaxPerHour \in Nat /\ Hour \in Nat /\ BurstSize \in Nat /\ clock \in Nat /\ charged \in Nat
        /\ tokens \in Int /\ lastCall \in Int
  BY ConfigAssumption DEF ConfigAssumption, TypeOK
<1>2. clock' = clock + 1 /\ UNCHANGED <<tokens, lastCall, charged>>
  BY DEF Tick, bucketVars
<1> DEFINE refill == (clock - lastCall) * MaxPerHour
<1>3. refill \in Int /\ BurstSize * Hour \in Int /\ charged * Hour \in Int /\ MaxPerHour * clock \in Int
  BY <1>1
<1>4. (clock' - lastCall') * MaxPerHour = refill + MaxPerHour
  BY <1>1, <1>2
<1>5. MaxPerHour * clock' = MaxPerHour * clock + MaxPerHour
  BY <1>1, <1>2
<1>6. Tokens = Least(BurstSize * Hour, tokens + refill)
        /\ Tokens' = Least(BurstSize * Hour, tokens + (refill + MaxPerHour))
  BY <1>2, <1>4 DEF Tokens
<1> HIDE DEF refill
<1>7. Tokens' <= Tokens + MaxPerHour /\ Tokens \in Int /\ Tokens' \in Int
  BY <1>1, <1>3, <1>6 DEF Least
<1> DEFINE spent == charged * Hour
           burst == BurstSize * Hour
           earned == MaxPerHour * clock
<1>8. spent \in Int /\ burst \in Int /\ earned \in Int /\ spent + Tokens <= burst + earned
  BY <1>3 DEF BucketConserved
<1>9. BucketConserved' <=> spent + Tokens' <= burst + (earned + MaxPerHour)
  BY <1>2, <1>5 DEF BucketConserved
<1> HIDE DEF spent, burst, earned
<1>10. \A s, b, e, m, x, y \in Int : s + x <= b + e /\ y <= x + m => s + y <= b + (e + m)
  OBVIOUS
<1>11. MaxPerHour \in Int
  BY <1>1
<1> QED
  BY <1>7, <1>8, <1>9, <1>10, <1>11, Zenon

\* No debt is ever forgiven: what was charged, plus what the bucket holds, never exceeds
\* the first burst plus the refill since, as long as a handover keeps the bucket (_refill,
\* _record_requests, import_state).
THEOREM NoDebtForgiven == ASSUME ~LossyHandover PROVE Spec => []BucketConserved
<1>1. Init => BucketConserved
  <2> SUFFICES ASSUME Init PROVE BucketConserved
    OBVIOUS
  <2>1. MaxPerHour \in Nat /\ Hour \in Nat /\ BurstSize \in Nat /\ MinInterval \in Nat
    BY ConfigAssumption DEF ConfigAssumption
  <2>2. clock = 0 /\ charged = 0 /\ tokens = BurstSize * Hour /\ lastCall = 0 - MinInterval
    BY DEF Init
  <2>3. BurstSize * Hour \in Int /\ (clock - lastCall) * MaxPerHour \in Int
    BY <2>1, <2>2
  <2>4. Tokens <= BurstSize * Hour /\ Tokens \in Int
    BY <2>2, <2>3 DEF Tokens, Least
  <2>5. charged * Hour = 0 /\ MaxPerHour * clock = 0
    BY <2>1, <2>2
  <2> QED
    BY <2>3, <2>4, <2>5 DEF BucketConserved
<1>2. TypeOK /\ BucketConserved /\ [Next]_vars => BucketConserved'
  <2> SUFFICES ASSUME TypeOK, BucketConserved, [Next]_vars PROVE BucketConserved'
    OBVIOUS
  <2>1. UNCHANGED <<clock, bucketVars>> => BucketConserved'
    BY DEF bucketVars, BucketConserved, Tokens
  <2>2. ASSUME NEW c \in Callers, CallerStep(c) PROVE BucketConserved'
    BY <2>1, <2>2, CallerCharges, ChargeConserves
  <2>3. CASE LimiterStep
    BY <2>1, <2>3 DEF LimiterStep, BeginBatch, EndBatch, Reauthenticate, Unload, Load, envVars
  <2>4. CASE TimeStep
    BY <2>1, <2>4, TickConserves DEF TimeStep, Midnight, ClockStepsBack, QuietBegins, QuietEnds
  <2>5. CASE UNCHANGED vars
    BY <2>1, <2>5 DEF vars, bucketVars
  <2> QED
    BY <2>2, <2>3, <2>4, <2>5 DEF Next
<1> QED
  BY <1>1, <1>2, TypeCorrect, PTL DEF Spec

=============================================================================
