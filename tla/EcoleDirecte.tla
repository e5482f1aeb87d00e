---------------------------- MODULE EcoleDirecte ----------------------------
(***************************************************************************)
(* The second school platform (connectors/ecoledirecte): its own limiter     *)
(* (ed_limiter.py), the login with its double question (ed_client.py), and   *)
(* the connector that shares one token between children (connector.py).      *)
(*                                                                         *)
(* The same limiter class serves two owners, and a behaviour has one of      *)
(* them: an account, one unit of work at a time, with reloads; "flow", the   *)
(* forms of the configuration flow, where logins overlap.                   *)
(***************************************************************************)
EXTENDS Integers, Sequences, FiniteSets

CONSTANTS
    Callers,             \* units of work; an account's connector has one at a time
    LoginOf,             \* per child, the login its school gives it
    MinInterval, Burst, Rate, MaxWait,        \* spacing and bucket; Rate tokens a tick
    MaxLogins, MaxFailed, Window,             \* login cap, failed-login guard and its hour
    CredentialsHold, BackoffBase, BackoffMax,
    MaxFailures,                              \* count at which the back-off is long enough
    MaxTime, MaxDays, MaxStepsBack            \* bounds

ASSUME EdAssumption ==
    /\ IsFiniteSet(Callers) /\ Callers # {}
    /\ MinInterval \in Nat /\ Burst \in Nat /\ Rate \in Nat \ {0} /\ MaxWait \in Nat
    /\ MaxLogins \in Nat /\ MaxFailed \in Nat \ {0} /\ Window \in Nat
    /\ CredentialsHold \in Nat /\ BackoffBase \in Nat /\ BackoffMax \in Nat
    /\ MaxTime \in Nat /\ MaxDays \in Nat \ {0} /\ MaxStepsBack \in Nat
    /\ MaxFailures \in Nat /\ BackoffBase * 2 ^ MaxFailures >= BackoffMax

VARIABLES
    owner,                           \* "flow", or the caller that is the account's
    clock, date, stepsBack,          \* monotonic time; the host's date and how often it went back
    day, logins, failed, hold, failures, lastCall, tokens,   \* EdRateLimiter
    work,                            \* the callers: [stage, phase, child, until, paid]
    admitting,                       \* who holds the admission lock
    token,                           \* EcoleDirecteClient.token: "none", or what came with an
                                     \* answer that was taken ("session") or turned down ("stray")
    current,                         \* EcoledirecteConnector._current_login_id
    known,                           \* the connector holds the children's facts
    tokenOf,                         \* the server: the login the token answers for
    leftOn,                          \* history: logins that left, by date
    barredUntil                      \* history: what the failed-login guard imposed

timeVars == <<clock, date, stepsBack>>
pauseVars == <<failed, hold, failures, lastCall, tokens>>
limiterVars == <<day, logins, pauseVars>>
clientVars == <<token, current, known, tokenOf>>
histVars == <<leftOn, barredUntil>>
vars == <<owner, timeVars, limiterVars, work, admitting, clientVars, histVars>>

Children == DOMAIN LoginOf
Logins == {LoginOf[c] : c \in Children}
NoOne == "no one"
NoHold == [reason |-> "none", until |-> 0]
Idle == [stage |-> "idle", phase |-> "idle", child |-> NoOne, until |-> 0, paid |-> 0]
Least(a, b) == IF a < b THEN a ELSE b
Most(a, b) == IF a < b THEN b ELSE a
Users == IF owner = "flow" THEN Callers ELSE {owner}

-----------------------------------------------------------------------------
(* EdRateLimiter.                                                          *)

\* Only a later date clears the counters, but the date is followed back too.
RolledLogins == IF date > day THEN 0 ELSE logins
RollDay == day' = date
Rolls == RollDay /\ logins' = RolledLogins

LoginCost == 2
QcmCost_AnswerOnly == 2
QcmCost == 4
Cost(stage) == CASE stage = "login" -> LoginCost [] stage = "qcm" -> QcmCost [] OTHER -> 1

Wait(cost) ==
    LET spacing == Most(0, MinInterval - (clock - lastCall))
        bucket == IF tokens >= cost THEN 0 ELSE (cost - tokens + Rate - 1) \div Rate
    IN  Most(spacing, bucket)

HoldActive == hold.reason # "none" /\ clock < hold.until
Recent(stamps) == SelectSeq(stamps, LAMBDA t : t > clock - Window)
StartHold(reason, seconds) == hold' = [reason |-> reason, until |-> clock + seconds]
\* Whatever the jitter, within half and three halves of the nominal delay.
Nominal == Least(BackoffMax, BackoffBase * 2 ^ failures)
Delays == {(Nominal + 1) \div 2, (3 * Nominal) \div 2}

NoteSuccess ==
    /\ failures' = 0
    /\ hold' = IF hold.reason = "backoff" THEN NoHold ELSE hold
NoteTransportFailure(reason) ==
    /\ failures' = Least(failures + 1, MaxFailures)
    /\ \E seconds \in Delays : StartHold(reason, seconds)
NoteBadCredentials ==
    /\ failed' = Recent(Append(failed, clock))
    /\ IF Len(failed') >= MaxFailed
       THEN StartHold("credentials_hold", CredentialsHold) /\ barredUntil' = clock + CredentialsHold
       ELSE UNCHANGED <<hold, barredUntil>>

-----------------------------------------------------------------------------
(* Units of work.  A stage wants admission, may sleep for it, and is sent.   *)

Open == token # "none" /\ known
\* async_open, _select_student, then the request itself.
NextStage(child) ==
    IF ~Open THEN "login" ELSE IF LoginOf[child] # current THEN "renew" ELSE "request"
Go(c, stage) == work' = [work EXCEPT ![c].stage = stage, ![c].phase = "want"]
Ends(c) == work' = [work EXCEPT ![c] = Idle]
InPhase(c, stage, phase) == work[c].stage = stage /\ work[c].phase = phase

\* The login cap is looked at before the admission lock is asked for.
MayLogIn == RolledLogins < MaxLogins

Start(c, child) ==
    /\ c \in Users /\ work[c] = Idle
    /\ owner # "flow" => child \in Children
    /\ LET stage == IF owner = "flow" THEN "login" ELSE NextStage(child)
       IN  /\ stage = "login" => MayLogIn
           /\ IF stage = "login" THEN Rolls ELSE UNCHANGED <<day, logins>>
           /\ work' = [work EXCEPT ![c] = [Idle EXCEPT !.stage = stage, !.phase = "want", !.child = child]]
    /\ UNCHANGED <<owner, timeVars, pauseVars, admitting, clientVars, histVars>>
\* A login refused at the cap, and whoever reads the counters, roll the day too.
ReadCounters ==
    /\ Rolls
    /\ UNCHANGED <<owner, timeVars, pauseVars, work, admitting, clientVars, histVars>>

Record(c) ==
    LET stage == work[c].stage
    IN  /\ RollDay
        /\ tokens' = tokens - Cost(stage)
        /\ lastCall' = clock
        /\ logins' = RolledLogins + IF stage = "login" THEN 1 ELSE 0
        /\ leftOn' = IF stage = "login" THEN [leftOn EXCEPT ![date] = @ + 1] ELSE leftOn
        /\ work' = [work EXCEPT ![c].phase = "sent", ![c].paid = @ + Cost(stage)]
        /\ UNCHANGED <<failed, hold, failures, barredUntil>>

\* _admit with nothing to wait for, with a wait under the lock, and refused: before
\* the day is rolled by a hold, or by the quiet hours a request is not exempt from;
\* after it by the daily cap, when it pleases, or by a long wait.
AdmitNow(c) ==
    /\ work[c].phase = "want" /\ admitting = NoOne
    /\ ~HoldActive /\ Wait(Cost(work[c].stage)) = 0
    /\ Record(c)
    /\ UNCHANGED <<owner, timeVars, admitting, clientVars>>
AdmitLater(c) ==
    /\ work[c].phase = "want" /\ admitting = NoOne
    /\ ~HoldActive /\ Wait(Cost(work[c].stage)) \in 1 .. MaxWait
    /\ admitting' = c
    /\ Rolls
    /\ work' = [work EXCEPT ![c].phase = "sleep", ![c].until = clock + Wait(Cost(work[c].stage))]
    /\ UNCHANGED <<owner, timeVars, pauseVars, clientVars, histVars>>
Wake(c) ==
    /\ work[c].phase = "sleep" /\ clock >= work[c].until
    /\ Record(c)
    /\ admitting' = NoOne
    /\ UNCHANGED <<owner, timeVars, clientVars>>
Refuse(c) ==
    /\ work[c].phase = "want" /\ admitting = NoOne
    /\ \/ (HoldActive \/ work[c].stage = "request") /\ UNCHANGED <<day, logins>>
       \/ /\ ~HoldActive
          /\ Wait(Cost(work[c].stage)) > MaxWait \/ work[c].stage = "request"
          /\ Rolls
    /\ Ends(c)
    /\ UNCHANGED <<owner, timeVars, pauseVars, admitting, clientVars, histVars>>

-----------------------------------------------------------------------------
(* The login.  Each answer uses up requests that were paid for.             *)

Used(c, n) == [work EXCEPT ![c].paid = @ - n]
\* The unit ends; what it was overcharged is never refunded, a debt stays visible.
Over(c, n) == [work EXCEPT ![c] = [Idle EXCEPT !.paid = Least(0, work[c].paid - n)]]
Quietly == UNCHANGED <<owner, timeVars, day, logins, lastCall, tokens, admitting, leftOn>>
\* The login's own children when it has one login id, else nobody's yet.
Selected_AsBefore == current
Selected == IF Cardinality(Logins) = 1 THEN CHOOSE l \in Logins : TRUE ELSE NoOne

\* _handshake_login, and the second one that ends the question: two requests each,
\* after the two of the question itself.
Handshake(c) == InPhase(c, "login", "sent") \/ InPhase(c, "qcm", "sent")
Requests(c) == IF work[c].stage = "qcm" THEN 4 ELSE 2

LoggedIn(c) ==
    /\ Handshake(c)
    /\ NoteSuccess
    /\ IF owner = "flow" THEN UNCHANGED clientVars
       ELSE /\ token' = "session" /\ known' = TRUE
            /\ current' = Selected /\ tokenOf' = IF Cardinality(Logins) = 1 THEN Selected ELSE NoOne
    /\ work' = IF owner = "flow" THEN Over(c, Requests(c))
               ELSE [Used(c, Requests(c)) EXCEPT
                       ![c].phase = "want",
                       ![c].stage = IF LoginOf[work[c].child] # current' THEN "renew" ELSE "request"]
    /\ UNCHANGED <<failed, barredUntil>> /\ Quietly

\* The token of an answer is remembered before its code is looked at; an answer need
\* not carry one, and the school alone knows which login that one answers for.
TurnedDown ==
    \/ UNCHANGED clientVars
    \/ /\ owner # "flow"
       /\ token' = "stray" /\ tokenOf' \in Logins
       /\ UNCHANGED <<current, known>>

\* 250: the token is for the question.
Challenged(c) ==
    /\ InPhase(c, "login", "sent")
    /\ TurnedDown
    /\ work' = [Used(c, 2) EXCEPT ![c].stage = "qcm", ![c].phase = "want"]
    /\ UNCHANGED <<failed, hold, failures, barredUntil>> /\ Quietly
\* The question is not one that was answered before, or is asked once more.
ChallengeRequired(c) ==
    /\ InPhase(c, "qcm", "sent")
    /\ \E n \in {1, 4} : work' = Over(c, n)
    /\ TurnedDown
    /\ UNCHANGED <<failed, hold, failures, barredUntil>> /\ Quietly

\* 520 and 525: the session is over, and the tokens are forgotten.
Forget == token' = "none" /\ UNCHANGED <<known, current, tokenOf>>

\* Wrong password; network, or what is no JSON object; another code; accepted, but the
\* payload names no children that can be read, and those of the last login stay; the
\* question asked in a session that ended.  What was answered before the network
\* failed counts.  The first login is the set-up's, which starts over when it fails.
LoginFails(c, outcome) ==
    /\ Handshake(c)
    /\ CASE outcome = "credentials" -> NoteBadCredentials /\ UNCHANGED failures
         [] outcome = "transport" -> NoteTransportFailure("bootstrap_hold") /\ UNCHANGED <<failed, barredUntil>>
         [] outcome = "unreadable" -> NoteSuccess /\ UNCHANGED <<failed, barredUntil>>
         [] OTHER -> UNCHANGED <<failed, hold, failures, barredUntil>>
    /\ CASE outcome = "expired" -> IF owner = "flow" THEN UNCHANGED clientVars ELSE Forget
         [] outcome \in {"transport", "no_json"} /\ work[c].stage = "login" -> UNCHANGED clientVars
         [] OTHER -> TurnedDown
    /\ Ends(c)
    /\ Quietly

-----------------------------------------------------------------------------
(* With a session: the token is renewed for the child's login, and used.    *)

WithToken(c) == InPhase(c, "renew", "sent") \/ InPhase(c, "request", "sent")

Renewed(c) ==
    /\ InPhase(c, "renew", "sent")
    /\ NoteSuccess
    /\ current' = LoginOf[work[c].child] /\ tokenOf' = current' /\ token' = "session"
    /\ work' = [Used(c, 1) EXCEPT ![c].stage = "request", ![c].phase = "want"]
    /\ UNCHANGED <<failed, barredUntil, known>> /\ Quietly
\* Whatever the mapping makes of the payload.
Served(c) ==
    /\ InPhase(c, "request", "sent")
    /\ NoteSuccess
    /\ Ends(c)
    /\ UNCHANGED <<failed, barredUntil, clientVars>> /\ Quietly

SessionOver(c) ==
    /\ WithToken(c)
    /\ Forget
    /\ Ends(c)
    /\ UNCHANGED <<failed, hold, failures, barredUntil>> /\ Quietly
\* The network, or a code that is no success.
RequestFails(c, outcome) ==
    /\ WithToken(c)
    /\ IF outcome = "transport" THEN NoteTransportFailure("backoff") /\ UNCHANGED clientVars
       ELSE TurnedDown /\ UNCHANGED <<hold, failures>>
    /\ Ends(c)
    /\ UNCHANGED <<failed, barredUntil>> /\ Quietly

-----------------------------------------------------------------------------
(* A re-authentication, a reload, and time.                                 *)

\* _reset_ed_entry_penalties, as the form opens: a person asks for it, or Home
\* Assistant does by itself when the set-up was refused.
Reauthenticate ==
    /\ hold' = NoHold /\ failed' = <<>> /\ barredUntil' = 0
    /\ UNCHANGED <<owner, timeVars, day, logins, failures, lastCall, tokens, work, admitting,
                   clientVars, leftOn>>

\* Unload and set-up again, between two units: a new connector and a new limiter,
\* which takes from the exported state what is still of today.
Exported == [day |-> date, logins |-> RolledLogins, failed |-> failed, hold |-> hold]
ImportLogins_Forgets(state) == 0
ImportLogins(state) ==  \* no date passes between the two
    IF state.day = date THEN state.logins ELSE 0
ImportHold_Forgets(state) == NoHold
ImportHold(state) == IF state.hold.until > clock THEN state.hold ELSE NoHold
Reload ==
    /\ owner # "flow" /\ work[owner] = Idle
    /\ day' = date /\ lastCall' = clock - MinInterval /\ tokens' = Burst /\ failures' = 0
    /\ logins' = ImportLogins(Exported)
    /\ failed' = Exported.failed
    /\ hold' = ImportHold(Exported)
    /\ token' = "none" /\ current' = NoOne /\ known' = FALSE /\ tokenOf' = NoOne
    /\ UNCHANGED <<owner, timeVars, work, admitting, histVars>>

Tick ==
    /\ clock < MaxTime
    /\ clock' = clock + 1
    /\ tokens' = Least(Burst, tokens + Rate)
    /\ UNCHANGED <<owner, date, stepsBack, day, logins, failed, hold, failures, lastCall,
                   work, admitting, clientVars, histVars>>
NewDate ==
    /\ \/ date < MaxDays /\ date' = date + 1 /\ UNCHANGED stepsBack
       \/ date > 1 /\ stepsBack < MaxStepsBack /\ date' = date - 1 /\ stepsBack' = stepsBack + 1
    /\ UNCHANGED <<owner, clock, limiterVars, work, admitting, clientVars, histVars>>

Init ==
    /\ owner \in {"flow"} \union Callers
    /\ clock = 0 /\ date = 1 /\ stepsBack = 0
    /\ day = 1 /\ logins = 0 /\ failed = <<>> /\ hold = NoHold /\ failures = 0
    /\ lastCall = 0 - MinInterval /\ tokens = Burst
    /\ work = [c \in Callers |-> Idle] /\ admitting = NoOne
    /\ token = "none" /\ current = NoOne /\ known = FALSE /\ tokenOf = NoOne
    /\ leftOn = [d \in 1 .. MaxDays |-> 0] /\ barredUntil = 0

LoginFailures == {"credentials", "transport", "no_json", "refused", "unreadable", "expired"}
Step(c) ==
    \/ \E child \in Children \union {NoOne} : Start(c, child)
    \/ AdmitNow(c) \/ AdmitLater(c) \/ Wake(c) \/ Refuse(c)
    \/ LoggedIn(c) \/ Challenged(c) \/ ChallengeRequired(c)
    \/ \E outcome \in LoginFailures : LoginFails(c, outcome)
    \/ Renewed(c) \/ Served(c) \/ SessionOver(c)
    \/ \E outcome \in {"transport", "refused"} : RequestFails(c, outcome)

Next ==
    \/ \E c \in Callers : Step(c)
    \/ ReadCounters
    \/ Reauthenticate \/ Reload
    \/ Tick \/ NewDate

Spec == Init /\ [][Next]_vars

-----------------------------------------------------------------------------
(* Properties.                                                             *)

\* Every HTTP request of a login was admitted before it left: the question of the
\* second factor, its answer and the login that follows it are charged when the
\* question is asked (ed_client.login, EdRateLimiter.charge_qcm).
PaidBeforeSent == \A c \in Callers : work[c].paid >= 0

\* Through reloads, midnights and a clock set back, an account sends no more
\* logins on a date than the cap; the flows, which look at the cap before they
\* queue for admission, exceed it at most by those that queue together
\* (EdRateLimiter.login).  Each setting back of the clock renews the allowance.
LoginAllowance ==
    \A d \in 1 .. MaxDays :
        leftOn[d] <= (1 + stepsBack) * (MaxLogins + Cardinality(Users) - 1)

\* The account's hold for wrong passwords is served to its end: whatever else
\* fails, and across a reload, nothing leaves before it unless a form of
\* re-authentication opens, which Home Assistant does by itself when a set-up is
\* refused (note_bad_credentials, import_state, reset_after_reauth).
CredentialsHoldServed ==
    [][\A c \in Callers :
        owner # "flow" /\ work'[c].phase = "sent" /\ work[c].phase # "sent"
            => clock >= barredUntil]_vars

\* A request is sent with a token, and one that answers for the login of the child it
\* is about, after logins, renewals, expiries and failures in any order; but for a
\* token that came with an answer the client turned down, a challenge or a payload
\* nobody could read included: it is kept, and trusted as the last one was, until a
\* renewal, a login or the school ends it
\* (EcoledirecteConnector._select_student, _current_login_id).
RightToken ==
    \A c \in Callers : InPhase(c, "request", "sent") =>
        token = "stray" \/ (token = "session" /\ tokenOf = LoginOf[work[c].child])
=============================================================================
