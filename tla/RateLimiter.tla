---------------------------- MODULE RateLimiter ----------------------------
(***************************************************************************)
(* The rate limiter of one account (ratelimit.py): the single path every   *)
(* request and every login takes to the school.  Three layers for calls    *)
(* (spacing, token bucket, daily cap), two counters for logins, and holds. *)
(*                                                                         *)
(* Time is counted in ticks.  The bucket is counted in 1/Hour of a token,  *)
(* so the continuous refill at MaxPerHour/Hour tokens per tick is exact.   *)
(* The code refills the bucket and rolls the day when it reads them, which *)
(* Tokens, Calls and Logins do; a hold that is over and a refusal older    *)
(* than an hour are dropped by Tick rather than by the next reader.        *)
(***************************************************************************)
EXTENDS Integers, FiniteSets

CONSTANTS
    Callers,         \* tasks that may reach the limiter at the same time
    Gated,           \* TRUE: behind SessionManager._gate, one unit of work at a time
    LossyHandover,   \* TRUE: a reload may lose the day's half of the saved state
    QuietHoursEnabled,
    CallPriorities,  \* priorities asked for
    MinInterval, Hour, MaxPerHour, BurstSize, MaxPerDay, MaxWait,
    MaxLogins, MaxFailedLogins, CredentialsHold, BootstrapHold,
    BackoffBase, BackoffMax, BatchGrace,
    CallCosts,       \* costs a call may declare
    LoginCosts,      \* costs a login may declare: 5, or 10 for a QR enrolment
    MaxExtra,        \* bound: requests a call places beyond what it declared
    MaxClock, MaxToday, MaxStepsBack, MaxFailures  \* bounds on the clocks and the failure count

ASSUME ConfigAssumption ==
    /\ Callers # {} /\ IsFiniteSet(Callers)
    /\ Gated \in BOOLEAN /\ LossyHandover \in BOOLEAN /\ QuietHoursEnabled \in BOOLEAN
    /\ CallPriorities \subseteq {"critical", "gesture", "high", "normal", "low"}
    /\ {MinInterval, Hour, MaxPerHour, BurstSize, MaxPerDay, MaxLogins,
        MaxFailedLogins, CredentialsHold, BootstrapHold, BackoffBase,
        BackoffMax} \subseteq Nat \ {0}
    /\ {MaxWait, BatchGrace, MaxExtra, MaxClock, MaxToday, MaxStepsBack, MaxFailures} \subseteq Nat
    /\ CallCosts \subseteq Nat \ {0} /\ LoginCosts \subseteq Nat \ {0}

VARIABLES
    clock,               \* monotonic clock
    today,               \* wall-clock date
    stepsBack,           \* how often the host set it back
    quietSince,          \* tick at which the running quiet hours began, or None
    loaded,              \* the entry is set up; when FALSE the rest is the saved state
    lastCall,            \* _last_call
    tokens,              \* _tokens as of lastCall, in 1/Hour of a token
    day,                 \* _day: the date the day counters belong to
    callsToday, loginsToday,
    failedLogins,        \* _failed_logins: the caller and tick of each refusal
    loginCharged,        \* _login_charged, 0 for None
    consecutiveFailures,
    holdUntil, holdReason,
    throttled,           \* _throttled_since is not None
    graceUntil,          \* last tick at which the running batch may still be served
    pc,                  \* per caller: idle, sleeping (holds the lock), flying
    job,                 \* per caller: what it asked for
    wakeAt,              \* per caller: end of its sleep
    lastLeft,            \* history: when a request was last let through
    charged,             \* history: requests charged since the first set-up
    loginsSent,          \* history: logins let through since the first set-up
    loginsOn             \* history: those let through on each calendar date

envVars == <<clock, today, stepsBack, quietSince>>
bucketVars == <<lastCall, tokens, charged>>
dayVars == <<day, callsToday, loginsToday>>
holdVars == <<holdUntil, holdReason, throttled>>
failureVars == <<failedLogins, consecutiveFailures>>
callerVars == <<pc, job, wakeAt>>
historyVars == <<lastLeft, loginsSent, loginsOn>>
vars == <<clock, today, stepsBack, quietSince, loaded, lastCall, tokens, day, callsToday,
          loginsToday, failedLogins, loginCharged, consecutiveFailures, holdUntil,
          holdReason, throttled, graceUntil, pc, job, wakeAt, lastLeft, charged,
          loginsSent, loginsOn>>

None == -1
Dates == 0 .. MaxToday
QuietHoursExempt == {"critical", "gesture"}
HoldReasons == {"backoff", "mfa", "bootstrap", "credentials"}
LoginOutcomes ==
    {"success", "bad_credentials", "transport", "bootstrap", "mfa_required", "undecodable"}
Kinds == {"exempt", "timer", "login"}

HoldSeverity(r) ==
    CASE r = "backoff" -> 1 [] r = "mfa" -> 2 [] r = "bootstrap" -> 3
      [] r = "credentials" -> 4 [] OTHER -> 0

Least(a, b) == IF a <= b THEN a ELSE b
Most(a, b) == IF a >= b THEN a ELSE b
CeilDiv(a, b) == (a + b - 1) \div b

-----------------------------------------------------------------------------
(* What the layers read, after the housekeeping each read performs.        *)

\* _roll_day: counters of an earlier date count for nothing; a date that went
\* backwards is adopted with its counters.
Logins_ClearedOnAnyDateChange == IF today # day THEN 0 ELSE loginsToday
Calls == IF today > day THEN 0 ELSE callsToday
Logins == IF today > day THEN 0 ELSE loginsToday
RollDay == day' = today /\ callsToday' = Calls /\ loginsToday' = Logins

Tokens == Least(BurstSize * Hour, tokens + (clock - lastCall) * MaxPerHour)
TokenWait(cost) ==
    IF Tokens >= cost * Hour THEN 0 ELSE CeilDiv(cost * Hour - Tokens, MaxPerHour)
SpacingWait == Most(0, MinInterval - (clock - lastCall))
Wait(cost) == Most(SpacingWait, TokenWait(cost))

HoldActive == holdReason # "none"
RecentAt(now) == {f \in failedLogins : f[2] > now - Hour}
GuardClosed_OneTooLate(refusals) == Cardinality(refusals) > MaxFailedLogins
GuardClosed(refusals) == Cardinality(refusals) >= MaxFailedLogins

\* Tenths of the daily cap at which a priority stops being served.
CapSpent(tenths) == 10 * Calls >= tenths * MaxPerDay
Shed(p) ==
    \/ p \in {"gesture", "high"} /\ CapSpent(10)
    \/ p = "normal" /\ CapSpent(8)
    \/ p = "low" /\ CapSpent(6)

InQuietHours == quietSince # None
BatchMayFinish_Unbounded == graceUntil # None
BatchMayFinish == clock <= graceUntil
QuietBlocks(p) == p \notin QuietHoursExempt /\ InQuietHours /\ ~BatchMayFinish

\* backoff_delay: the nominal delay doubles up to BackoffMax, and the jitter
\* takes it anywhere in [0.5, 1.5[ of itself.
Doubled[n \in Nat] == IF n = 0 THEN BackoffBase ELSE Least(BackoffMax, 2 * Doubled[n - 1])
BackoffDelays(failures) ==
    LET nominal == Least(BackoffMax, Doubled[failures - 1])
    IN  {d \in 1 .. 2 * BackoffMax : nominal <= 2 * d /\ 2 * d <= 3 * nominal}

-----------------------------------------------------------------------------
(* Updates shared by the actions.                                          *)

\* _record_requests, with the login count of _commit_login.
Charge_ForgivesDebt(requests, logins) ==
    /\ day' = today
    /\ callsToday' = Calls + requests
    /\ loginsToday' = Logins + logins
    /\ tokens' = Most(0, Tokens - requests * Hour)
    /\ lastCall' = clock
    /\ charged' = charged + requests
Charge(requests, logins) ==
    /\ day' = today
    /\ callsToday' = Calls + requests
    /\ loginsToday' = Logins + logins
    /\ tokens' = Tokens - requests * Hour
    /\ lastCall' = clock
    /\ charged' = charged + requests

\* _start_hold: a less severe hold only extends the one that is active.
StartHold_LastWins(reason, seconds) ==
    /\ throttled' = TRUE
    /\ holdUntil' = clock + seconds
    /\ holdReason' = reason
StartHold(reason, seconds) ==
    /\ throttled' = TRUE
    /\ IF HoldActive /\ HoldSeverity(reason) < HoldSeverity(holdReason)
       THEN /\ holdUntil' = Most(holdUntil, clock + seconds)
            /\ UNCHANGED holdReason
       ELSE holdUntil' = clock + seconds /\ holdReason' = reason

\* _maybe_clear_throttled, once the counters are rolled to today.
StillPostponing_HoldOnly(holding, calls, logins) == holding
StillPostponing(holding, calls, logins) ==
    holding \/ 10 * calls >= 6 * MaxPerDay \/ logins >= MaxLogins

LockFree_NoAdmissionLock == TRUE
LockFree == \A c \in Callers : pc[c] # "sleeping"
MayStart_WithoutGate(c) == loaded /\ pc[c] = "idle" /\ LockFree
MayStart(c) ==
    /\ loaded
    /\ pc[c] = "idle"
    /\ LockFree
    /\ Gated => \A d \in Callers : pc[d] = "idle"

NoJob == [kind |-> "exempt", cost |-> 1]
Release(c) ==
    /\ pc' = [pc EXCEPT ![c] = "idle"]
    /\ job' = [job EXCEPT ![c] = NoJob]
    /\ wakeAt' = [wakeAt EXCEPT ![c] = 0]

\* The request leaves: charged first, then on its way.
Leave(c, kind, cost) ==
    /\ Charge(cost, IF kind = "login" THEN 1 ELSE 0)
    /\ loginCharged' = IF kind = "login" THEN cost ELSE loginCharged
    /\ pc' = [pc EXCEPT ![c] = "flying"]
    /\ lastLeft' = clock
    /\ IF kind = "login"
       THEN loginsSent' = loginsSent + 1 /\ loginsOn' = [loginsOn EXCEPT ![today] = @ + 1]
       ELSE UNCHANGED <<loginsSent, loginsOn>>
    /\ wakeAt' = [wakeAt EXCEPT ![c] = 0]

\* An admitted request waits its turn holding the admission lock, or leaves.
Proceed(c, kind, cost) ==
    /\ job' = [job EXCEPT ![c] = [kind |-> kind, cost |-> cost]]
    /\ IF Wait(cost) = 0
       THEN Leave(c, kind, cost)
       ELSE /\ RollDay
            /\ pc' = [pc EXCEPT ![c] = "sleeping"]
            /\ wakeAt' = [wakeAt EXCEPT ![c] = clock + Wait(cost)]
            /\ UNCHANGED <<bucketVars, loginCharged, historyVars>>
    /\ UNCHANGED <<envVars, loaded, failureVars, holdVars, graceUntil>>

-----------------------------------------------------------------------------
(* call: check, wait and commit under the admission lock.                  *)

AdmitCall(c, p, cost) ==
    /\ MayStart(c)
    /\ ~HoldActive
    /\ ~QuietBlocks(p)
    /\ ~Shed(p)
    /\ Wait(cost) <= MaxWait
    /\ Proceed(c, IF p \in QuietHoursExempt THEN "exempt" ELSE "timer", cost)

\* A refusal by the cap or by the wait leaves a trace; one by a hold or by
\* quiet hours changes nothing.
DeferCall(c, p, cost) ==
    /\ MayStart(c)
    /\ ~HoldActive
    /\ ~QuietBlocks(p)
    /\ Shed(p) \/ Wait(cost) > MaxWait
    /\ RollDay
    /\ throttled' = TRUE
    /\ UNCHANGED <<envVars, loaded, bucketVars, failureVars, loginCharged, holdUntil,
                   holdReason, graceUntil, callerVars, historyVars>>

AdmitLogin(c, cost) ==
    /\ MayStart(c)
    /\ ~HoldActive
    /\ ~GuardClosed(failedLogins)
    /\ Logins < MaxLogins
    /\ Proceed(c, "login", cost)

\* may_login finds the failed-login guard exhausted: the hold starts again.
RefuseLoginAtGuard(c) ==
    /\ MayStart(c)
    /\ ~HoldActive
    /\ GuardClosed(failedLogins)
    /\ StartHold("credentials", CredentialsHold)
    /\ UNCHANGED <<envVars, loaded, bucketVars, dayVars, failureVars, loginCharged,
                   graceUntil, callerVars, historyVars>>

RefuseLoginAtCap(c) ==
    /\ MayStart(c)
    /\ ~HoldActive
    /\ ~GuardClosed(failedLogins)
    /\ Logins >= MaxLogins
    /\ RollDay
    /\ throttled' = TRUE
    /\ UNCHANGED <<envVars, loaded, bucketVars, failureVars, loginCharged, holdUntil,
                   holdReason, graceUntil, callerVars, historyVars>>

\* The sleep is over: charge and go, without asking the layers again.
Wake(c) ==
    /\ pc[c] = "sleeping"
    /\ clock >= wakeAt[c]
    /\ Leave(c, job[c].kind, job[c].cost)
    /\ UNCHANGED <<envVars, loaded, failureVars, holdVars, graceUntil, job>>

\* The task is cancelled: while it sleeps nothing was charged, while it flies
\* the charge stands and nothing is reported.
Cancel(c) ==
    /\ pc[c] # "idle"
    /\ Release(c)
    /\ UNCHANGED <<envVars, loaded, bucketVars, dayVars, failureVars, loginCharged,
                   holdVars, graceUntil, historyVars>>

-----------------------------------------------------------------------------
(* What comes back.                                                        *)

Answered(c, kinds) ==
    /\ pc[c] = "flying"
    /\ job[c].kind \in kinds
    /\ Release(c)
    /\ UNCHANGED <<envVars, loaded, graceUntil, historyVars>>

\* note_success in call(), then SessionManager._reconcile in the same step.
CallSucceeds(c, extra) ==
    /\ Answered(c, {"exempt", "timer"})
    /\ consecutiveFailures' = 0
    /\ LET lifted == HoldActive /\ holdReason = "backoff"
       IN  /\ holdUntil' = IF lifted THEN 0 ELSE holdUntil
           /\ holdReason' = IF lifted THEN "none" ELSE holdReason
           /\ throttled' = (throttled /\ StillPostponing(HoldActive /\ ~lifted, Calls, Logins))
    /\ IF extra > 0 THEN Charge(extra, 0) ELSE RollDay /\ UNCHANGED bucketVars
    /\ UNCHANGED <<failedLogins, loginCharged>>

\* note_failure.
NoteFailure ==
    /\ consecutiveFailures < MaxFailures
    /\ consecutiveFailures' = consecutiveFailures + 1
    /\ \E delay \in BackoffDelays(consecutiveFailures + 1) : StartHold("backoff", delay)

CallFails(c) ==
    /\ Answered(c, {"exempt", "timer"})
    /\ NoteFailure
    /\ UNCHANGED <<bucketVars, dayVars, failedLogins, loginCharged>>

\* note_login settles the charge of the admission, or charges in full a login
\* whose slot another one consumed.
SettleLogin(used) ==
    /\ loginCharged' = 0
    /\ IF loginCharged = 0 THEN Charge(used, 1)
       ELSE IF used > loginCharged THEN Charge(used - loginCharged, 0)
       ELSE RollDay /\ UNCHANGED bucketVars

LoginSucceeds(c, used) ==
    /\ Answered(c, {"login"})
    /\ SettleLogin(used)
    /\ consecutiveFailures' = 0
    /\ throttled' = (throttled /\ StillPostponing(HoldActive, callsToday', loginsToday'))
    /\ UNCHANGED <<failedLogins, holdUntil, holdReason>>

\* One caller is refused at most once per tick: a handshake takes time.
LoginRefused(c, used) ==
    /\ Answered(c, {"login"})
    /\ <<c, clock>> \notin failedLogins
    /\ SettleLogin(used)
    /\ failedLogins' = failedLogins \union {<<c, clock>>}
    /\ IF GuardClosed(failedLogins \union {<<c, clock>>})
       THEN StartHold("credentials", CredentialsHold)
       ELSE UNCHANGED holdVars
    /\ UNCHANGED consecutiveFailures

\* A refusal the failed-login guard does not see: the enrolment's own QR code.
LoginRefusedLocally(c, used) ==
    /\ Answered(c, {"login"})
    /\ SettleLogin(used)
    /\ UNCHANGED <<failureVars, holdVars>>

LoginUnusable_OutcomeAsReason(c, used, outcome) ==
    /\ Answered(c, {"login"})
    /\ SettleLogin(used)
    /\ StartHold(outcome, BootstrapHold)
    /\ UNCHANGED failureVars
LoginUnusable(c, used, outcome) ==
    /\ Answered(c, {"login"})
    /\ SettleLogin(used)
    /\ IF outcome = "mfa_required"
       THEN StartHold("mfa", CredentialsHold)
       ELSE StartHold("bootstrap", BootstrapHold)
    /\ UNCHANGED failureVars

LoginTransportFails(c, used) ==
    /\ Answered(c, {"login"})
    /\ SettleLogin(used)
    /\ NoteFailure
    /\ UNCHANGED failedLogins

-----------------------------------------------------------------------------
(* Batches, re-authentication and the handover between two set-ups.        *)

BeginBatch ==
    /\ loaded
    /\ QuietHoursEnabled
    /\ graceUntil' = IF InQuietHours THEN None ELSE clock + BatchGrace
    /\ UNCHANGED <<envVars, loaded, bucketVars, dayVars, failureVars, loginCharged,
                   holdVars, callerVars, historyVars>>

EndBatch ==
    /\ graceUntil # None
    /\ graceUntil' = None
    /\ UNCHANGED <<envVars, loaded, bucketVars, dayVars, failureVars, loginCharged,
                   holdVars, callerVars, historyVars>>

ClearPenalties ==
    /\ failedLogins' = {}
    /\ consecutiveFailures' = 0
    /\ holdUntil' = 0
    /\ holdReason' = "none"
    /\ throttled' = FALSE

\* The counters of a limiter that starts from nothing.
FreshCounters ==
    /\ lastCall' = clock - MinInterval
    /\ tokens' = BurstSize * Hour
    /\ UNCHANGED charged
    /\ day' = today
    /\ callsToday' = 0
    /\ loginsToday' = 0

\* clear_login_penalties: on a live limiter only the penalties go; the state
\* saved for an entry that is not loaded is dropped whole.
Reauthenticate ==
    /\ ClearPenalties
    /\ \/ loaded /\ UNCHANGED <<bucketVars, dayVars>>
       \/ ~loaded /\ LossyHandover /\ FreshCounters
    /\ UNCHANGED <<envVars, loaded, loginCharged, graceUntil, callerVars, historyVars>>

\* async_unload with nothing in flight: export_state is what survives.
Unload ==
    /\ loaded
    /\ Gated
    /\ \A c \in Callers : pc[c] = "idle"
    /\ loaded' = FALSE
    /\ RollDay
    /\ throttled' = FALSE
    /\ graceUntil' = None
    /\ loginCharged' = 0
    /\ UNCHANGED <<envVars, bucketVars, failureVars, holdUntil, holdReason, callerVars,
                   historyVars>>

\* import_state: the day's half only on the same date, the punitive half always.
Load ==
    /\ ~loaded
    /\ loaded' = TRUE
    /\ IF day = today
       THEN UNCHANGED <<bucketVars, dayVars>>
       ELSE LossyHandover /\ FreshCounters
    /\ UNCHANGED <<envVars, failureVars, loginCharged, holdVars, graceUntil, callerVars,
                   historyVars>>

-----------------------------------------------------------------------------
(* Time.  A sleeper wakes on the tick it asked for.                        *)

Tick ==
    /\ clock < MaxClock
    /\ \A c \in Callers : pc[c] = "sleeping" => clock < wakeAt[c]
    /\ clock' = clock + 1
    /\ failedLogins' = RecentAt(clock + 1)
    /\ IF clock + 1 >= holdUntil
       THEN holdUntil' = 0 /\ holdReason' = "none"
       ELSE UNCHANGED <<holdUntil, holdReason>>
    /\ UNCHANGED <<today, stepsBack, quietSince, loaded, bucketVars, dayVars,
                   consecutiveFailures, loginCharged, throttled, graceUntil, callerVars, historyVars>>

Midnight ==
    /\ today < MaxToday
    /\ today' = today + 1
    /\ UNCHANGED <<clock, stepsBack, quietSince, loaded, bucketVars, dayVars, failureVars,
                   loginCharged, holdVars, graceUntil, callerVars, historyVars>>

\* The host corrects its clock to an earlier date.
ClockStepsBack ==
    /\ today > 0
    /\ stepsBack < MaxStepsBack
    /\ today' = today - 1
    /\ stepsBack' = stepsBack + 1
    /\ UNCHANGED <<clock, quietSince, loaded, bucketVars, dayVars, failureVars,
                   loginCharged, holdVars, graceUntil, callerVars, historyVars>>

QuietBegins ==
    /\ QuietHoursEnabled
    /\ ~InQuietHours
    /\ quietSince' = clock
    /\ UNCHANGED <<clock, today, stepsBack, loaded, bucketVars, dayVars, failureVars,
                   loginCharged, holdVars, graceUntil, callerVars, historyVars>>

QuietEnds ==
    /\ InQuietHours
    /\ quietSince' = None
    /\ UNCHANGED <<clock, today, stepsBack, loaded, bucketVars, dayVars, failureVars,
                   loginCharged, holdVars, graceUntil, callerVars, historyVars>>

-----------------------------------------------------------------------------
Init ==
    /\ clock = 0
    /\ today = 0
    /\ stepsBack = 0
    /\ quietSince = None
    /\ loaded = TRUE
    /\ lastCall = 0 - MinInterval
    /\ tokens = BurstSize * Hour
    /\ day = 0
    /\ callsToday = 0
    /\ loginsToday = 0
    /\ failedLogins = {}
    /\ loginCharged = 0
    /\ consecutiveFailures = 0
    /\ holdUntil = 0
    /\ holdReason = "none"
    /\ throttled = FALSE
    /\ graceUntil = None
    /\ pc = [c \in Callers |-> "idle"]
    /\ job = [c \in Callers |-> NoJob]
    /\ wakeAt = [c \in Callers |-> 0]
    /\ lastLeft = 0 - MinInterval
    /\ charged = 0
    /\ loginsSent = 0
    /\ loginsOn = [d \in Dates |-> 0]

LoginSettled(c, used) ==
    \/ LoginSucceeds(c, used)
    \/ LoginRefused(c, used)
    \/ LoginRefusedLocally(c, used)
    \/ LoginUnusable(c, used, "mfa_required")
    \/ LoginUnusable(c, used, "bootstrap")
    \/ LoginTransportFails(c, used)

CallerStep(c) ==
    \/ \E p \in CallPriorities, cost \in CallCosts : AdmitCall(c, p, cost)
    \/ \E p \in CallPriorities, cost \in CallCosts : DeferCall(c, p, cost)
    \/ \E cost \in LoginCosts : AdmitLogin(c, cost)
    \/ RefuseLoginAtGuard(c)
    \/ RefuseLoginAtCap(c)
    \/ Wake(c)
    \/ Cancel(c)
    \/ \E extra \in 0 .. MaxExtra : CallSucceeds(c, extra)
    \/ CallFails(c)
    \/ \E extra \in 0 .. MaxExtra : LoginSettled(c, job[c].cost + extra)

LimiterStep ==
    \/ BeginBatch
    \/ EndBatch
    \/ Reauthenticate
    \/ Unload
    \/ Load

TimeStep == Tick \/ Midnight \/ ClockStepsBack \/ QuietBegins \/ QuietEnds

Next == (\E c \in Callers : CallerStep(c)) \/ LimiterStep \/ TimeStep

Spec == Init /\ [][Next]_vars

-----------------------------------------------------------------------------
TypeOK ==
    /\ clock \in Nat /\ stepsBack \in Nat
    /\ today \in Nat /\ today <= MaxToday
    /\ quietSince \in Nat \union {None}
    /\ loaded \in BOOLEAN
    /\ lastCall \in Int /\ tokens \in Int /\ charged \in Nat
    /\ day \in Nat /\ callsToday \in Nat /\ loginsToday \in Nat
    /\ failedLogins \subseteq Callers \X Nat /\ IsFiniteSet(failedLogins)
    /\ loginCharged \in Nat
    /\ consecutiveFailures \in Nat
    /\ holdUntil \in Nat /\ holdReason \in HoldReasons \union {"none"}
    /\ throttled \in BOOLEAN
    /\ graceUntil \in Nat \union {None}
    /\ pc \in [Callers -> {"idle", "sleeping", "flying"}]
    /\ job \in [Callers -> [kind : Kinds, cost : Nat \ {0}]]
    /\ wakeAt \in [Callers -> Nat]
    /\ lastLeft \in Int /\ loginsSent \in Nat /\ loginsOn \in [Dates -> Nat]

Leaves == lastLeft' # lastLeft

\* Two requests never leave less than MinInterval apart, whoever asks and
\* whatever is in flight: the wait and the charge are under the admission lock
\* (RateLimiter.call, RateLimiter.login).
AdmissionSpacing == [][Leaves => lastLeft' >= lastLeft + MinInterval]_vars

\* The failed-login guard: never more than MaxFailedLogins refusals counted in
\* a trailing hour.  Without the gate, each login already in flight when the
\* guard closes may add one.
FailedLoginBound ==
    Cardinality(failedLogins)
        <= MaxFailedLogins + (IF Gated THEN 0 ELSE Cardinality(Callers) - 1)

\* The daily login cap, by calendar date.  Each move of the date forward pays for
\* one allowance and nothing else does: not a reload, not a re-authentication, not
\* the step back of a clock correction (_roll_day, _check_login).  So all the logins
\* there have been fit the dates gone through, counted again when they are gone
\* through again, and a date sees one allowance more for each step back.
LoginCap ==
    /\ loginsSent <= MaxLogins * (today + stepsBack + 1)
    /\ \A d \in Dates : loginsOn[d] <= MaxLogins * (stepsBack + 1)

\* While a hold runs, only a human re-authentication lowers its severity, and
\* only a success lifts it early, when it is a backoff: not a midnight, not a
\* reload, not a lesser failure (_start_hold, note_success, import_state).
HoldNotDowngraded ==
    [][(HoldActive /\ ~Reauthenticate /\ clock' < holdUntil) =>
          \/ HoldActive' /\ HoldSeverity(holdReason') >= HoldSeverity(holdReason)
          \/ holdReason = "backoff" /\ consecutiveFailures' = 0]_vars

\* A batch that straddles the start of quiet hours is the only reason a timed
\* call leaves during them, and it has at most its grace and one wait to do so.
QuietHoursBound ==
    [][\A c \in Callers :
          (Leaves /\ pc[c] # "flying" /\ pc'[c] = "flying" /\ job'[c].kind = "timer"
              /\ InQuietHours)
          => clock <= quietSince + BatchGrace + MaxWait]_vars

\* No debt is ever forgiven: what was charged plus what the bucket holds never
\* exceeds the initial burst plus the refill since the start (_refill,
\* _record_requests, and the midnight that leaves the bucket alone).
BucketConserved ==
    charged * Hour + Tokens <= BurstSize * Hour + MaxPerHour * clock

\* The cap is never silent: outside a re-authentication and a reload the flag
\* clears only when no hold runs, no tier is shed and logins remain.
ThrottledHonest ==
    [][(throttled /\ ~throttled' /\ ~Reauthenticate /\ loaded') =>
          ~HoldActive' /\ (\A p \in {"gesture", "high", "normal", "low"} : ~Shed(p))
             /\ Logins < MaxLogins]_vars
-----------------------------------------------------------------------------
(* What the limiter promises the school, and how its state shows it.       *)
Pact == INSTANCE SchoolPact WITH barred <- HoldActive

\* Behind the gate, and with a handover that keeps the day's counters, the
\* limiter implements the pact.
ImplementsPact == Pact!Spec
=============================================================================
