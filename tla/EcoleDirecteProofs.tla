------------------------- MODULE EcoleDirecteProofs -------------------------
(***************************************************************************)
(* Theorems about EcoleDirecte, for any callers, children, logins and        *)
(* limits, whatever happens to the clock and the date.                      *)
(*                                                                         *)
(* EdInv says why they hold at the moment of a request: what was charged is  *)
(* still there to be used, one unit at a time moves the token of an account, *)
(* and nobody is past admission while the hold for wrong passwords runs.    *)
(* CapInv counts the logins of a date with those that queue, and one quota   *)
(* for each setting back of the clock.                                      *)
(***************************************************************************)
EXTENDS EcoleDirecte, FiniteSetTheorems, TLAPS

WorkSet ==
    [stage : {"idle", "login", "qcm", "renew", "request"},
     phase : {"idle", "want", "sleep", "sent"},
     child : Children \union {NoOne}, until : Int, paid : Int]

Shape ==
    /\ clock \in Nat /\ barredUntil \in Nat
    /\ work \in [Callers -> WorkSet]

\* PaidBeforeSent, with the charge of the request that is on its way.
PaidEnough ==
    \A c \in Callers : work[c].paid >= IF work[c].phase = "sent" THEN Cost(work[c].stage) ELSE 0

\* An account works one unit at a time, and a flow never gets past the login.
OneUser ==
    /\ owner # "flow" => \A c \in Callers : c # owner => work[c] = Idle
    /\ owner = "flow" => \A c \in Callers : work[c].stage \in {"idle", "login", "qcm"}

\* RightToken, from the choice of the child on: what the connector believes of a token
\* is true of those that came with an answer it took.
RightLogin ==
    /\ token = "session" => tokenOf = current
    /\ token \in {"none", "session", "stray"}
    /\ \A c \in Callers : work[c].stage \in {"renew", "request"} => token # "none"
    /\ \A c \in Callers : work[c].stage = "request" => LoginOf[work[c].child] = current

\* CredentialsHoldServed, with the sleepers that would leave without asking again.
HoldStands ==
    owner # "flow" /\ clock < barredUntil =>
        /\ hold.reason # "none" /\ hold.until \in Int /\ hold.until >= barredUntil
        /\ \A c \in Callers : work[c].phase \notin {"sleep", "sent"}

EdInv == Shape /\ PaidEnough /\ OneUser /\ RightLogin /\ HoldStands

-----------------------------------------------------------------------------
\* The costs that EdRateLimiter charges (_COST).
LEMMA Costs ==
    /\ Cost("login") = 2 /\ Cost("qcm") = 4 /\ Cost("renew") = 1 /\ Cost("request") = 1
  BY DEF Cost, LoginCost, QcmCost

\* A caller that does nothing has nothing on its way.
LEMMA IdleIsIdle ==
    /\ Idle \in WorkSet
    /\ Idle.stage = "idle" /\ Idle.phase = "idle" /\ Idle.paid = 0
  BY DEF Idle, WorkSet

\* At first nobody works, and nothing is charged, held or known.
LEMMA InvInit == Init => EdInv
<1> SUFFICES ASSUME Init PROVE EdInv
  OBVIOUS
<1>1. work = [c \in Callers |-> Idle] /\ clock = 0 /\ barredUntil = 0 /\ token = "none"
  BY DEF Init
<1>2. Shape /\ PaidEnough /\ OneUser /\ RightLogin
  BY <1>1, IdleIsIdle DEF Shape, PaidEnough, OneUser, RightLogin
<1> QED
  BY <1>1, <1>2 DEF EdInv, HoldStands

\* Who is at work is one that may be.
LEMMA Workers ==
    ASSUME EdInv, NEW c \in Callers, work[c].phase # "idle"
    PROVE  owner = "flow" \/ c = owner
  BY IdleIsIdle DEF EdInv, OneUser

\* A token is not taken for another: it stays, is forgotten, or is a stray one.
TokenKept == token' \in {"none", "stray"} \/ UNCHANGED <<token, tokenOf>>

\* A unit that ends leaves nothing to be checked, whatever the hold becomes, as long as
\* a hold for wrong passwords stands when it is imposed.
LEMMA UnitEnds ==
    ASSUME EdInv, NEW c \in Callers, work[c].phase # "idle", work' = [work EXCEPT ![c] = Idle],
           UNCHANGED <<owner, clock, current>>, TokenKept,
           barredUntil' \in Nat,
           \/ barredUntil' = barredUntil /\ (work[c].phase = "sent" \/ hold' = hold)
           \/ /\ owner # "flow" => work[c].phase = "sent"
              /\ hold'.reason # "none" /\ hold'.until = barredUntil'
    PROVE  EdInv'
<1>1. Shape' /\ PaidEnough' /\ OneUser'
  BY IdleIsIdle DEF EdInv, Shape, PaidEnough, OneUser
<1>3. RightLogin'
  <2>1. \A d \in Callers : work'[d].stage \notin {"renew", "request"}
    BY Workers, IdleIsIdle DEF EdInv, Shape, OneUser
  <2>2. /\ token' \in {"none", "session", "stray"}
        /\ token' = "session" => tokenOf' = current'
    BY DEF EdInv, RightLogin, TokenKept
  <2> QED BY <2>1, <2>2 DEF RightLogin
<1>2. ASSUME owner # "flow", clock < barredUntil' PROVE
        /\ hold'.reason # "none" /\ hold'.until \in Int /\ hold'.until >= barredUntil'
        /\ \A d \in Callers : work'[d].phase \notin {"sleep", "sent"}
  <2>1. \A d \in Callers : work'[d].phase \notin {"sleep", "sent"}
    BY <1>2, IdleIsIdle DEF EdInv, Shape, OneUser, HoldStands
  <2> QED
    BY <1>2, <2>1 DEF EdInv, Shape, HoldStands
<1> QED
  BY <1>1, <1>2, <1>3 DEF EdInv, HoldStands

\* A unit goes on: it paid for what it sends, nothing holds it up when it is admitted,
\* and a request is about the child whose login the token answers for.
LEMMA UnitMoves ==
    ASSUME EdInv, NEW c \in Callers, owner = "flow" \/ c = owner,
           work' \in [Callers -> WorkSet], \A d \in Callers : d # c => work'[d] = work[d],
           UNCHANGED <<owner, clock, barredUntil>>,
           work'[c].paid >= IF work'[c].phase = "sent" THEN Cost(work'[c].stage) ELSE 0,
           owner = "flow" => work'[c].stage \in {"idle", "login", "qcm"},
           token' = "session" => tokenOf' = current', token' \in {"none", "session", "stray"},
           work'[c].stage \in {"renew", "request"} => token' # "none",
           owner = "flow" => UNCHANGED <<token, current>>,
           work'[c].stage = "request" => LoginOf[work'[c].child] = current',
           hold' = hold \/ work[c].phase = "sent",
           work'[c].phase \in {"sleep", "sent"} =>
              ~HoldActive \/ work[c].phase \in {"sleep", "sent"}
    PROVE  EdInv'
<1>1. Shape' /\ PaidEnough' /\ OneUser'
  BY DEF EdInv, Shape, PaidEnough, OneUser
<1>2. RightLogin'
  BY IdleIsIdle DEF EdInv, RightLogin, OneUser
<1>3. HoldStands'
  BY IdleIsIdle DEF EdInv, Shape, OneUser, HoldStands, HoldActive
<1> QED
  BY <1>1, <1>2, <1>3 DEF EdInv

\* A unit that is over has used what it paid for.
LEMMA OverEnds ==
    ASSUME EdInv, NEW c \in Callers, NEW n \in Nat, work[c].paid >= n
    PROVE  Over(c, n) = [work EXCEPT ![c] = Idle]
<1>1. work[c].paid \in Int
  BY DEF EdInv, Shape, WorkSet
<1>2. Least(0, work[c].paid - n) = 0
  BY <1>1 DEF Least
<1>3. [Idle EXCEPT !.paid = 0] = Idle
  BY DEF Idle
<1>4. Over(c, n) = [work EXCEPT ![c] = [Idle EXCEPT !.paid = 0]]
  BY <1>2 DEF Over
<1> QED
  BY <1>3, <1>4

-----------------------------------------------------------------------------
(* The steps of a unit.                                                    *)

\* Admission charges what the stage costs (_record).
LEMMA RecordKeeps ==
    ASSUME EdInv, NEW c \in Callers, Record(c), work[c].phase \in {"want", "sleep"},
           work[c].phase = "want" => ~HoldActive,
           UNCHANGED <<owner, clock, token, current, tokenOf>>
    PROVE  EdInv'
<1>1. work[c] \in WorkSet /\ work[c].paid >= 0 /\ work[c].stage # "idle" => Cost(work[c].stage) \in Nat
  BY Costs DEF EdInv, Shape, WorkSet, PaidEnough
<1>2. Cost(work[c].stage) \in Nat
  BY Costs DEF EdInv, Shape, WorkSet, Cost, LoginCost, QcmCost
<1>3. work' = [work EXCEPT ![c].phase = "sent", ![c].paid = @ + Cost(work[c].stage)]
  BY DEF Record
<1>4. /\ work[c] \in WorkSet /\ work[c].paid >= 0
      /\ work \in [Callers -> WorkSet]
  BY DEF EdInv, Shape, PaidEnough
<1>5. /\ work' \in [Callers -> WorkSet] /\ \A d \in Callers : d # c => work'[d] = work[d]
      /\ work'[c].phase = "sent" /\ work'[c].stage = work[c].stage
      /\ work'[c].child = work[c].child /\ work'[c].paid = work[c].paid + Cost(work[c].stage)
  <2> DEFINE p == work[c].paid + Cost(work[c].stage)
             w == [work[c] EXCEPT !.phase = "sent", !.paid = p]
  <2>1. /\ w \in WorkSet /\ w.phase = "sent" /\ w.stage = work[c].stage
        /\ w.child = work[c].child /\ w.paid = p
    <3>1. p \in Int
      BY <1>2, <1>4 DEF WorkSet
    <3> HIDE DEF p
    <3> QED
      BY <1>4, <3>1 DEF WorkSet
  <2>2. work' = [work EXCEPT ![c] = w]
    BY <1>3, <1>4
  <2> QED
    BY <1>4, <2>1, <2>2
<1>6. owner = "flow" \/ c = owner
  BY Workers
<1>7. /\ owner = "flow" => work[c].stage \in {"idle", "login", "qcm"}
      /\ token = "session" => tokenOf = current
      /\ token \in {"none", "session", "stray"}
      /\ work[c].stage \in {"renew", "request"} => token # "none"
      /\ work[c].stage = "request" => LoginOf[work[c].child] = current
  BY DEF EdInv, OneUser, RightLogin
<1>8. UNCHANGED <<hold, barredUntil>>
  BY DEF Record
<1>9. work'[c].paid >= Cost(work'[c].stage)
  BY <1>2, <1>4, <1>5 DEF WorkSet
<1> QED
  BY <1>5, <1>6, <1>7, <1>8, <1>9, UnitMoves

\* Whatever a unit does, and however it is answered.
LEMMA StepKeeps == ASSUME EdInv, NEW c \in Callers, Step(c) PROVE EdInv'
<1>0. /\ Shape /\ PaidEnough /\ OneUser /\ RightLogin /\ HoldStands
      /\ work \in [Callers -> WorkSet] /\ work[c] \in WorkSet /\ work[c].paid \in Int
      /\ work[c].phase = "sent" => work[c].paid >= Cost(work[c].stage)
      /\ work[c].paid >= 0
  <2>1. /\ Shape /\ PaidEnough /\ OneUser /\ RightLogin /\ HoldStands
        /\ work \in [Callers -> WorkSet] /\ work[c] \in WorkSet /\ work[c].paid \in Int
    BY DEF EdInv, Shape, WorkSet
  <2>2. work[c].paid >= 0
    BY <2>1, Costs DEF PaidEnough, WorkSet, Cost, LoginCost, QcmCost
  <2> QED
    BY <2>1, <2>2 DEF PaidEnough
<1>1. ASSUME NEW child \in Children \union {NoOne}, Start(c, child) PROVE EdInv'
  <2> DEFINE stage == IF owner = "flow" THEN "login" ELSE NextStage(child)
             w == [Idle EXCEPT !.stage = stage, !.phase = "want", !.child = child]
  <2>1. /\ c \in Users /\ work' = [work EXCEPT ![c] = w]
        /\ UNCHANGED <<owner, clock, token, current, tokenOf, hold, barredUntil>>
    BY <1>1 DEF Start, timeVars, pauseVars, clientVars, histVars
  <2>2. w \in WorkSet /\ w.paid = 0 /\ w.phase = "want" /\ w.stage = stage /\ w.child = child
    <3>1. stage \in {"login", "renew", "request"}
      BY DEF NextStage
    <3> QED
      <4> HIDE DEF stage
      <4> QED
        BY <3>1, IdleIsIdle DEF WorkSet
  <2>3. /\ stage = "request" => owner # "flow" /\ LoginOf[child] = current
        /\ stage \in {"renew", "request"} => owner # "flow" /\ token # "none"
    BY DEF NextStage, Open
  <2>4. owner = "flow" \/ c = owner
    BY <2>1 DEF Users
  <2>5. work' \in [Callers -> WorkSet] /\ (\A d \in Callers : d # c => work'[d] = work[d]) /\ work'[c] = w
    BY <1>0, <2>1, <2>2
  <2> QED
    BY <1>0, <2>1, <2>2, <2>3, <2>4, <2>5, UnitMoves DEF RightLogin
<1>2. CASE AdmitNow(c)
  BY <1>2, RecordKeeps DEF AdmitNow, timeVars, clientVars
<1>3. CASE AdmitLater(c)
  <2>1. Wait(Cost(work[c].stage)) \in Int /\ clock \in Int
    BY <1>0, <1>3 DEF AdmitLater, Shape
  <2>2. work' \in [Callers -> WorkSet] /\ (\A d \in Callers : d # c => work'[d] = work[d])
          /\ work'[c].phase = "sleep" /\ work'[c].stage = work[c].stage
          /\ work'[c].child = work[c].child /\ work'[c].paid = work[c].paid
    <3> DEFINE u == clock + Wait(Cost(work[c].stage))
               w == [work[c] EXCEPT !.phase = "sleep", !.until = u]
    <3>1. /\ w \in WorkSet /\ w.phase = "sleep" /\ w.stage = work[c].stage
          /\ w.child = work[c].child /\ w.paid = work[c].paid
      <4>1. u \in Int
        BY <2>1
      <4> HIDE DEF u
      <4> QED
        BY <1>0, <4>1 DEF WorkSet
    <3>2. work' = [work EXCEPT ![c].phase = "sleep", ![c].until = clock + Wait(Cost(work[c].stage))]
      BY <1>3 DEF AdmitLater
    <3>3. work' = [work EXCEPT ![c] = w]
      BY <1>0, <3>2
    <3> QED
      BY <1>0, <3>1, <3>3
  <2>3. owner = "flow" \/ c = owner
    BY <1>3, Workers DEF AdmitLater
  <2>4. UNCHANGED <<owner, clock, token, current, tokenOf, hold, barredUntil>> /\ ~HoldActive
    BY <1>3 DEF AdmitLater, timeVars, pauseVars, clientVars, histVars
  <2> QED
    BY <1>0, <2>2, <2>3, <2>4, UnitMoves DEF OneUser, RightLogin
<1>4. CASE Wake(c)
  BY <1>4, RecordKeeps DEF Wake, timeVars, clientVars
<1>5. CASE Refuse(c)
  BY <1>0, <1>5, UnitEnds DEF Refuse, Ends, TokenKept, timeVars, pauseVars, clientVars, histVars, Shape
<1>6. CASE LoggedIn(c)
  <2>1. work[c].phase = "sent" /\ work[c].stage \in {"login", "qcm"} /\ work[c].paid >= Requests(c)
          /\ Requests(c) \in Nat
    BY <1>0, <1>6, Costs DEF LoggedIn, Handshake, InPhase, Requests
  <2>2. UNCHANGED <<owner, clock, barredUntil>>
    BY <1>6 DEF LoggedIn, Quietly, timeVars
  <2>3. CASE owner = "flow"
    BY <1>0, <1>6, <2>1, <2>2, <2>3, OverEnds, UnitEnds DEF LoggedIn, TokenKept, clientVars, Shape
  <2>4. CASE owner # "flow"
    <3> DEFINE next == IF LoginOf[work[c].child] # current' THEN "renew" ELSE "request"
    <3>1. work' = [Used(c, Requests(c)) EXCEPT ![c].phase = "want", ![c].stage = next]
      BY <1>6, <2>4 DEF LoggedIn
    <3>2. work' \in [Callers -> WorkSet] /\ (\A d \in Callers : d # c => work'[d] = work[d])
          /\ work'[c].phase = "want" /\ work'[c].stage = next
          /\ work'[c].child = work[c].child /\ work'[c].paid = work[c].paid - Requests(c)
      BY <1>0, <2>1, <3>1 DEF Used, WorkSet
    <3>3. token' = "session" /\ tokenOf' = current'
      BY <1>6, <2>4 DEF LoggedIn, Selected
    <3>4. c = owner
      BY <2>1, <2>4, Workers
    <3> QED
      BY <1>0, <2>1, <2>2, <2>4, <3>2, <3>3, <3>4, UnitMoves
  <2> QED
    BY <2>3, <2>4
<1>7. CASE Challenged(c)
  <2>1. work[c].phase = "sent" /\ work[c].stage = "login" /\ work[c].paid >= 2
    BY <1>0, <1>7, Costs DEF Challenged, InPhase
  <2>2. /\ UNCHANGED <<owner, clock, current, hold, barredUntil>>
        /\ TokenKept /\ (owner = "flow" => token' = token)
    BY <1>7 DEF Challenged, TurnedDown, TokenKept, Quietly, timeVars, clientVars
  <2>3. work' \in [Callers -> WorkSet] /\ (\A d \in Callers : d # c => work'[d] = work[d])
          /\ work'[c].phase = "want" /\ work'[c].stage = "qcm" /\ work'[c].paid = work[c].paid - 2
    <3> DEFINE p == work[c].paid - 2
               w == [work[c] EXCEPT !.paid = p, !.stage = "qcm", !.phase = "want"]
    <3>1. /\ w \in WorkSet /\ w.phase = "want" /\ w.stage = "qcm"
          /\ w.child = work[c].child /\ w.paid = p
      <4>1. p \in Int
        BY <1>0
      <4> HIDE DEF p
      <4> QED
        BY <1>0, <4>1 DEF WorkSet
    <3>2. work' = [Used(c, 2) EXCEPT ![c].stage = "qcm", ![c].phase = "want"]
      BY <1>7 DEF Challenged
    <3>3. work' = [work EXCEPT ![c] = w]
      BY <1>0, <3>2 DEF Used
    <3> QED
      BY <1>0, <3>1, <3>3
  <2>4. owner = "flow" \/ c = owner
    BY <2>1, Workers
  <2> QED
    BY <1>0, <2>1, <2>2, <2>3, <2>4, UnitMoves DEF RightLogin, TokenKept
<1>8. CASE ChallengeRequired(c)
  <2>1. work[c].phase = "sent" /\ work[c].paid >= 4
    BY <1>0, <1>8, Costs DEF ChallengeRequired, InPhase
  <2>2. PICK n \in {1, 4} : work' = Over(c, n)
    BY <1>8 DEF ChallengeRequired
  <2>3. work' = [work EXCEPT ![c] = Idle]
    BY <1>0, <2>1, <2>2, OverEnds
  <2> QED
    BY <1>0, <1>8, <2>1, <2>3, UnitEnds
      DEF ChallengeRequired, TurnedDown, TokenKept, Quietly, timeVars, clientVars, Shape
<1>9. ASSUME NEW outcome \in LoginFailures, LoginFails(c, outcome)
      PROVE  EdInv'
  <2>1. work[c].phase = "sent" /\ work' = [work EXCEPT ![c] = Idle]
          /\ UNCHANGED <<owner, clock, current>> /\ TokenKept
    BY <1>9 DEF LoginFails, Handshake, InPhase, Ends, Quietly, timeVars, clientVars, Forget,
                TurnedDown, TokenKept
  <2>2. CASE outcome = "credentials"
    <3>1. CredentialsHold \in Nat /\ clock + CredentialsHold \in Nat
      BY <1>0, EdAssumption DEF EdAssumption, Shape
    <3>2. \/ hold' = [reason |-> "credentials_hold", until |-> clock + CredentialsHold]
             /\ barredUntil' = clock + CredentialsHold
          \/ UNCHANGED <<hold, barredUntil>>
      BY <1>9, <2>2 DEF LoginFails, NoteBadCredentials, StartHold
    <3>3. CASE UNCHANGED <<hold, barredUntil>>
      BY <1>0, <2>1, <3>3, UnitEnds DEF Shape
    <3>4. CASE /\ hold' = [reason |-> "credentials_hold", until |-> clock + CredentialsHold]
               /\ barredUntil' = clock + CredentialsHold
      BY <2>1, <3>1, <3>4, UnitEnds
    <3> QED
      BY <3>2, <3>3, <3>4
  <2>3. CASE outcome # "credentials"
    <3>1. barredUntil' = barredUntil
      BY <1>9, <2>3 DEF LoginFails
    <3> QED
      BY <1>0, <2>1, <3>1, UnitEnds DEF Shape
  <2> QED
    BY <2>2, <2>3
<1>10. CASE Renewed(c)
  <2>1. work[c].phase = "sent" /\ work[c].stage = "renew" /\ work[c].paid >= 1
    BY <1>0, <1>10, Costs DEF Renewed, InPhase
  <2>2. UNCHANGED <<owner, clock, barredUntil>> /\ current' = LoginOf[work[c].child] /\ tokenOf' = current'
          /\ token' = "session"
    BY <1>10 DEF Renewed, Quietly, timeVars
  <2>3. work' \in [Callers -> WorkSet] /\ (\A d \in Callers : d # c => work'[d] = work[d])
          /\ work'[c].phase = "want" /\ work'[c].stage = "request" /\ work'[c].paid = work[c].paid - 1
          /\ work'[c].child = work[c].child
    <3> DEFINE p == work[c].paid - 1
               w == [work[c] EXCEPT !.paid = p, !.stage = "request", !.phase = "want"]
    <3>1. /\ w \in WorkSet /\ w.phase = "want" /\ w.stage = "request"
          /\ w.child = work[c].child /\ w.paid = p
      <4>1. p \in Int
        BY <1>0
      <4> HIDE DEF p
      <4> QED
        BY <1>0, <4>1 DEF WorkSet
    <3>2. work' = [Used(c, 1) EXCEPT ![c].stage = "request", ![c].phase = "want"]
      BY <1>10 DEF Renewed
    <3>3. work' = [work EXCEPT ![c] = w]
      BY <1>0, <3>2 DEF Used
    <3> QED
      BY <1>0, <3>1, <3>3
  <2>4. owner # "flow" /\ c = owner
    BY <1>0, <2>1, Workers DEF OneUser
  <2> QED
    BY <1>0, <2>1, <2>2, <2>3, <2>4, UnitMoves
<1>11. CASE Served(c)
  BY <1>0, <1>11, UnitEnds DEF Served, InPhase, Ends, TokenKept, Quietly, timeVars, clientVars, Shape
<1>12. CASE SessionOver(c)
  BY <1>0, <1>12, UnitEnds DEF SessionOver, WithToken, InPhase, Forget, Ends, TokenKept, Quietly, timeVars, Shape
<1>13. ASSUME NEW outcome \in {"transport", "refused"}, RequestFails(c, outcome) PROVE EdInv'
  <2>1. work[c].phase = "sent" /\ work' = [work EXCEPT ![c] = Idle] /\ barredUntil' = barredUntil
          /\ UNCHANGED <<owner, clock, current>> /\ TokenKept
    BY <1>13 DEF RequestFails, WithToken, InPhase, Ends, TurnedDown, TokenKept, Quietly, timeVars,
                 clientVars
  <2> QED
    BY <1>0, <2>1, UnitEnds DEF Shape
<1> QED
  BY <1>1, <1>2, <1>3, <1>4, <1>5, <1>6, <1>7, <1>8, <1>9, <1>10, <1>11, <1>12, <1>13 DEF Step

-----------------------------------------------------------------------------
\* What is on its way is paid for, and for the right child, always.
LEMMA Invariance == Spec => []EdInv
<1>1. Init => EdInv
  BY InvInit
<1>2. EdInv /\ [Next]_vars => EdInv'
  <2> SUFFICES ASSUME EdInv, [Next]_vars PROVE EdInv'
    OBVIOUS
  <2> USE DEF EdInv, Shape, PaidEnough, OneUser, RightLogin, HoldStands
  <2>1. ASSUME NEW c \in Callers, Step(c) PROVE EdInv'
    BY <2>1, StepKeeps
  <2>7. CASE ReadCounters
    BY <2>7 DEF ReadCounters, timeVars, pauseVars, clientVars, histVars
  <2>2. CASE Reauthenticate
    BY <2>2 DEF Reauthenticate, timeVars, clientVars
  <2>3. CASE Reload
    <3>1. UNCHANGED <<owner, clock, work, barredUntil>> /\ token' = "none" /\ owner # "flow"
            /\ work[owner] = Idle /\ hold' = IF hold.until > clock THEN hold ELSE NoHold
      BY <2>3 DEF Reload, timeVars, histVars, ImportHold, Exported
    <3>2. \A c \in Callers : work[c] = Idle
      BY <3>1
    <3>3. Shape' /\ PaidEnough' /\ OneUser' /\ RightLogin'
      BY <3>1, <3>2, IdleIsIdle
    <3> QED
      BY <3>1, <3>3
  <2>4. CASE Tick
    BY <2>4 DEF Tick, clientVars, histVars
  <2>5. CASE NewDate
    BY <2>5 DEF NewDate, limiterVars, pauseVars, clientVars, histVars
  <2>6. CASE UNCHANGED vars
    BY <2>6 DEF vars, timeVars, limiterVars, pauseVars, clientVars, histVars
  <2> QED
    BY <2>1, <2>2, <2>3, <2>4, <2>5, <2>6, <2>7 DEF Next
<1> QED
  BY <1>1, <1>2, PTL DEF Spec

-----------------------------------------------------------------------------
(* The theorems.                                                           *)

\* For any callers, through any limits: no request of a login or of its question
\* leaves that was not charged first (ed_client.login, EdRateLimiter.charge_qcm).
THEOREM Paid == Spec => []PaidBeforeSent
<1>1. EdInv => PaidBeforeSent
  BY Costs DEF EdInv, Shape, PaidEnough, PaidBeforeSent, WorkSet, Cost, LoginCost, QcmCost
<1> QED
  BY <1>1, Invariance, PTL

\* However many children and logins share the token, a request is sent with one that
\* answers for its child, or with one that an answer the client turned down left behind
\* (EcoledirecteConnector._select_student).
THEOREM TokenIsRight == Spec => []RightToken
<1>1. EdInv => RightToken
  BY DEF EdInv, RightLogin, RightToken, InPhase
<1> QED
  BY <1>1, Invariance, PTL

\* A request is sent by an admission, and by nothing else.
LEMMA OnlyAdmissionSends ==
    ASSUME work \in [Callers -> WorkSet], NEW d \in Callers, Step(d), NEW c \in Callers,
           work'[c].phase = "sent", work[c].phase # "sent"
    PROVE  c = d /\ (AdmitNow(d) \/ Wake(d))
<1>1. ASSUME work[d].phase = "sent", c # d => work'[c] = work[c] PROVE FALSE
  BY <1>1
<1>2. ASSUME NEW child \in Children \union {NoOne}, Start(d, child) PROVE FALSE
  <2>1. c # d => work'[c] = work[c]
    BY <1>2 DEF Start
  <2>2. work'[d].phase = "want"
    BY <1>2 DEF Start, Idle
  <2> QED
    BY <2>1, <2>2
<1>3. CASE AdmitNow(d)
  BY <1>3 DEF AdmitNow, Record
<1>4. ASSUME AdmitLater(d) PROVE FALSE
  <2>1. c # d => work'[c] = work[c]
    BY <1>4 DEF AdmitLater
  <2>2. work'[d].phase = "sleep"
    BY <1>4 DEF AdmitLater, WorkSet
  <2> QED
    BY <2>1, <2>2
<1>5. CASE Wake(d)
  BY <1>5 DEF Wake, Record
<1>6. ASSUME Refuse(d) PROVE FALSE
  BY <1>6, IdleIsIdle DEF Refuse, Ends
<1>7. ASSUME LoggedIn(d) PROVE FALSE
  BY <1>1, <1>7 DEF LoggedIn, Handshake, InPhase, Over, Used
<1>8. ASSUME Challenged(d) \/ ChallengeRequired(d) PROVE FALSE
  BY <1>1, <1>8 DEF Challenged, ChallengeRequired, InPhase, Over, Used
<1>9. ASSUME NEW outcome, LoginFails(d, outcome) PROVE FALSE
  BY <1>1, <1>9 DEF LoginFails, Handshake, InPhase, Ends
<1>10. ASSUME Renewed(d) \/ Served(d) \/ SessionOver(d) PROVE FALSE
  BY <1>1, <1>10 DEF Renewed, Served, SessionOver, WithToken, InPhase, Ends, Used
<1>11. ASSUME NEW outcome, RequestFails(d, outcome) PROVE FALSE
  BY <1>1, <1>11 DEF RequestFails, WithToken, InPhase, Ends
<1> QED
  BY <1>2, <1>3, <1>4, <1>5, <1>6, <1>7, <1>8, <1>9, <1>10, <1>11 DEF Step

\* Whatever the hold lasts and whatever fails or is reloaded meanwhile, the account sends
\* nothing before its end, unless a form of re-authentication opens (note_bad_credentials,
\* import_state, reset_after_reauth).
THEOREM HoldServed == Spec => CredentialsHoldServed
<1>1. EdInv /\ [Next]_vars =>
        [\A c \in Callers :
           owner # "flow" /\ work'[c].phase = "sent" /\ work[c].phase # "sent"
             => clock >= barredUntil]_vars
  <2> SUFFICES ASSUME EdInv, Next, NEW c \in Callers, owner # "flow",
                      work'[c].phase = "sent", work[c].phase # "sent"
               PROVE  clock >= barredUntil
    BY DEF vars
  <2>1. /\ clock \in Nat /\ barredUntil \in Nat /\ work \in [Callers -> WorkSet]
        /\ clock < barredUntil => HoldActive /\ work[c].phase # "sleep"
    BY DEF EdInv, Shape, HoldStands, HoldActive
  <2>2. ASSUME NEW d \in Callers, Step(d) PROVE clock >= barredUntil
    <3>1. c = d /\ (AdmitNow(d) \/ Wake(d))
      BY <2>1, <2>2, OnlyAdmissionSends
    <3> QED
      BY <2>1, <3>1 DEF AdmitNow, Wake
  <2>3. ASSUME work' = work PROVE FALSE
    BY <2>3
  <2> QED
    BY <2>2, <2>3 DEF Next, ReadCounters, Reauthenticate, Reload, Tick, NewDate
<1> QED
  BY <1>1, Invariance, PTL DEF Spec, CredentialsHoldServed

-----------------------------------------------------------------------------
(* The logins of a date.                                                   *)

\* Logins that looked at the cap and are not counted yet.
Queued == {c \in Callers : work[c].stage = "login" /\ work[c].phase \in {"want", "sleep"}}

\* What a date may see, but for the clock that is set back.
Quota == MaxLogins + Cardinality(Users) - 1
Allowed(times) == times * Quota

CapTypes ==
    /\ date \in 1 .. MaxDays /\ day \in Nat /\ logins \in Nat /\ stepsBack \in Nat
    /\ leftOn \in [1 .. MaxDays -> Nat]
    /\ owner = "flow" \/ owner \in Callers

\* The logins of this date leave room for those queued; the counter, which may lag
\* behind them when the date came back, lacks no more than one quota per coming
\* back.  A date to come has seen one quota less.
CapInv ==
    /\ CapTypes
    /\ Queued # {} => MaxLogins > 0
    /\ leftOn[date] + Cardinality(Queued) <= Allowed(stepsBack + 1)
    /\ leftOn[date] <= Allowed(stepsBack) + RolledLogins
    /\ \A d \in 1 .. MaxDays : leftOn[d] <= Allowed(stepsBack + IF d > date THEN 0 ELSE 1)

\* The units are finitely many, one at least, and those that queue are of them.
LEMMA Sizes ==
    ASSUME EdInv, CapTypes
    PROVE  /\ IsFiniteSet(Users) /\ Cardinality(Users) \in Nat \ {0}
           /\ IsFiniteSet(Queued) /\ Cardinality(Queued) \in Nat
           /\ Queued \subseteq Users /\ Cardinality(Queued) <= Cardinality(Users)
           /\ Quota \in Nat /\ MaxLogins \in Nat /\ RolledLogins \in Nat
<1>1. Users \subseteq Callers /\ Users # {} /\ IsFiniteSet(Callers) /\ MaxLogins \in Nat
  BY EdAssumption DEF Users, CapTypes
<1>2. IsFiniteSet(Users) /\ Cardinality(Users) \in Nat /\ Cardinality(Users) # 0
  BY <1>1, FS_Subset, FS_CardinalityType, FS_EmptySet
<1>3. Queued \subseteq Users
  BY Workers, IdleIsIdle DEF Queued, Users, EdInv, OneUser
<1>4. IsFiniteSet(Queued) /\ Cardinality(Queued) \in Nat /\ Cardinality(Queued) <= Cardinality(Users)
  BY <1>2, <1>3, FS_Subset, FS_CardinalityType
<1>5. RolledLogins \in Nat
  BY DEF CapTypes, RolledLogins
<1> QED BY <1>1, <1>2, <1>3, <1>4, <1>5 DEF Quota

\* A date set back gives the quota once more.
LEMMA OnceMore ==
    ASSUME Quota \in Nat, NEW n \in Nat
    PROVE  Allowed(n) \in Nat /\ Allowed(n + 1) = Allowed(n) + Quota
<1>1. \A q \in Nat : n * q \in Nat /\ (n + 1) * q = n * q + q
  BY Z3
<1> QED BY <1>1 DEF Allowed

\* What the settings back so far allow, and the next.
LEMMA Allowances ==
    ASSUME EdInv, CapTypes
    PROVE  /\ Allowed(stepsBack) \in Nat /\ Allowed(stepsBack + 1) \in Nat
           /\ Allowed(stepsBack + 1) = Allowed(stepsBack) + Quota
           /\ Allowed(stepsBack + 2) = Allowed(stepsBack) + Quota + Quota
<1>1. stepsBack \in Nat /\ stepsBack + 1 \in Nat /\ stepsBack + 2 = stepsBack + 1 + 1
  BY DEF CapTypes
<1>2. Quota \in Nat
  BY Sizes
<1>3. Allowed(stepsBack + 1) = Allowed(stepsBack) + Quota /\ Allowed(stepsBack) \in Nat
  BY <1>1, <1>2, OnceMore
<1>4. Allowed(stepsBack + 1 + 1) = Allowed(stepsBack + 1) + Quota
  BY <1>1, <1>2, OnceMore
<1> QED BY <1>1, <1>2, <1>3, <1>4

\* Fewer in the queue, the count as it was.
LEMMA CapStill ==
    ASSUME EdInv, CapInv, UNCHANGED <<owner, date, stepsBack, leftOn>>, CapTypes',
           RolledLogins' = RolledLogins, Queued' \subseteq Queued
    PROVE  CapInv'
<1>1. Cardinality(Queued)' <= Cardinality(Queued) /\ Cardinality(Queued)' \in Nat
  BY Sizes, FS_Subset, FS_CardinalityType DEF CapInv
<1>2. Quota' = Quota
  BY DEF Quota, Users
<1>3. \A n : Allowed(n)' = Allowed(n)
  BY <1>2 DEF Allowed
<1>4. leftOn[date] \in Nat /\ Allowed(stepsBack + 1) \in Nat /\ Cardinality(Queued) \in Nat
  BY Sizes, Allowances DEF CapInv, CapTypes
<1>5. leftOn'[date'] + Cardinality(Queued)' <= Allowed(stepsBack + 1)'
  BY <1>1, <1>3, <1>4 DEF CapInv
<1> QED BY <1>3, <1>5 DEF CapInv

\* Rolling the day changes nothing that the cap looks at.
LEMMA RollingKeeps ==
    ASSUME CapTypes, UNCHANGED <<owner, date, stepsBack, leftOn>>, Rolls \/ UNCHANGED <<day, logins>>
    PROVE  CapTypes' /\ RolledLogins' = RolledLogins
<1>1. MaxDays \in Nat /\ date \in Nat /\ day \in Nat /\ RolledLogins \in Nat
  BY EdAssumption DEF CapTypes, RolledLogins
<1>2. CASE UNCHANGED <<day, logins>>
  BY <1>2 DEF CapTypes, RolledLogins
<1>3. CASE Rolls
  <2>1. day' = date /\ logins' = RolledLogins
    BY <1>3 DEF Rolls, RollDay
  <2>2. RolledLogins' = logins'
    <3>1. date' = date /\ ~(date > date)
      BY <1>1
    <3> QED BY <2>1, <3>1 DEF RolledLogins
  <2>3. CapTypes'
    BY <1>1, <2>1 DEF CapTypes
  <2> QED BY <2>1, <2>2, <2>3
<1> QED BY <1>2, <1>3

\* A login that starts found room for it and for those it queues with.
LEMMA CapStart ==
    ASSUME EdInv, CapInv, NEW c \in Callers, NEW child \in Children \union {NoOne}, Start(c, child)
    PROVE  CapInv'
<1>1. /\ UNCHANGED <<owner, date, stepsBack, leftOn>> /\ (Rolls \/ UNCHANGED <<day, logins>>)
      /\ \A d \in Callers : d # c => work'[d] = work[d]
      /\ c \in Users
  BY DEF Start, timeVars, pauseVars, histVars, EdInv, Shape
<1>2. CapTypes' /\ RolledLogins' = RolledLogins /\ Quota' = Quota
  <2>1. CapTypes' /\ RolledLogins' = RolledLogins
    BY <1>1, RollingKeeps DEF CapInv
  <2> QED BY <1>1, <2>1 DEF Quota, Users
<1>3. CASE c \notin Queued'
  <2>1. Queued' \subseteq Queued
    BY <1>1, <1>3 DEF Queued
  <2> QED BY <1>1, <1>2, <2>1, CapStill
<1>4. CASE c \in Queued'
  <2>1. RolledLogins < MaxLogins
    <3> DEFINE stage == IF owner = "flow" THEN "login" ELSE NextStage(child)
    <3>1. work' = [work EXCEPT ![c] = [Idle EXCEPT !.stage = stage, !.phase = "want", !.child = child]]
          /\ (stage = "login" => MayLogIn)
      BY DEF Start
    <3>2. work'[c].stage = stage
      <4> HIDE DEF stage
      <4> QED BY <3>1, IdleIsIdle DEF EdInv, Shape, WorkSet
    <3> QED BY <1>4, <3>1, <3>2 DEF Queued, MayLogIn
  <2>2. Queued' \subseteq Users
    BY <1>1, Sizes DEF Queued, CapInv
  <2>3. Cardinality(Queued)' <= Cardinality(Users) /\ Cardinality(Queued)' \in Nat
    BY <2>2, Sizes, FS_Subset, FS_CardinalityType DEF CapInv
  <2>4. \A n : Allowed(n)' = Allowed(n)
    BY <1>2 DEF Allowed
  <2>5. /\ Allowed(stepsBack) \in Nat /\ Allowed(stepsBack + 1) = Allowed(stepsBack) + Quota
        /\ leftOn[date] \in Nat /\ leftOn[date] <= Allowed(stepsBack) + RolledLogins
    BY Sizes, Allowances DEF CapInv, CapTypes
  <2>6. leftOn'[date'] + Cardinality(Queued)' <= Allowed(stepsBack + 1)'
    <3>1. Quota = MaxLogins + Cardinality(Users) - 1 /\ MaxLogins \in Nat /\ RolledLogins \in Nat
          /\ Cardinality(Users) \in Nat
      BY Sizes DEF Quota, CapInv
    <3>2. leftOn[date] + Cardinality(Queued)' <= Allowed(stepsBack) + Quota
      BY <2>1, <2>3, <2>5, <3>1
    <3> QED BY <1>1, <2>4, <2>5, <3>2
  <2>7. MaxLogins > 0
    BY <2>1, Sizes DEF CapInv
  <2> QED BY <1>1, <1>2, <2>4, <2>6, <2>7 DEF CapInv
<1> QED BY <1>3, <1>4

\* A login that is counted has left the queue.
LEMMA CapRecord ==
    ASSUME EdInv, CapInv, NEW c \in Callers, Record(c), work[c].phase \in {"want", "sleep"},
           UNCHANGED <<owner, date, stepsBack>>
    PROVE  CapInv'
<1>1. /\ day' = date
      /\ logins' = RolledLogins + IF work[c].stage = "login" THEN 1 ELSE 0
      /\ leftOn' = IF work[c].stage = "login" THEN [leftOn EXCEPT ![date] = @ + 1] ELSE leftOn
      /\ work' = [work EXCEPT ![c].phase = "sent", ![c].paid = @ + Cost(work[c].stage)]
  BY DEF Record, RollDay
<1>2. c \notin Queued' /\ Queued' \subseteq Queued
  <2>1. \A d \in Callers : d # c => work'[d] = work[d]
    BY <1>1 DEF EdInv, Shape
  <2>2. work'[c].phase = "sent"
    BY <1>1 DEF EdInv, Shape, WorkSet
  <2> QED BY <2>1, <2>2 DEF Queued
<1>3. /\ RolledLogins \in Nat /\ Quota \in Nat /\ Cardinality(Queued) \in Nat
      /\ date \in 1 .. MaxDays /\ date \in Nat /\ leftOn \in [1 .. MaxDays -> Nat]
      /\ Allowed(stepsBack) \in Nat /\ Allowed(stepsBack + 1) \in Nat
      /\ leftOn[date] + Cardinality(Queued) <= Allowed(stepsBack + 1)
      /\ leftOn[date] <= Allowed(stepsBack) + RolledLogins
  BY Sizes, Allowances DEF CapInv, CapTypes
<1>4. CapTypes' /\ RolledLogins' = logins' /\ Quota' = Quota
  <2>1. logins' \in Nat /\ [leftOn EXCEPT ![date] = @ + 1] \in [1 .. MaxDays -> Nat]
    BY <1>1, <1>3
  <2>2. CapTypes'
    BY <1>1, <1>3, <2>1 DEF CapInv, CapTypes
  <2> QED BY <1>1, <1>3, <2>2 DEF RolledLogins, Quota, Users
<1>5. \A n : Allowed(n)' = Allowed(n)
  BY <1>4 DEF Allowed
<1>6. CASE work[c].stage = "login"
  <2>1. Queued' \subseteq Queued \ {c} /\ c \in Queued
    BY <1>2, <1>6 DEF Queued
  <2>2. Cardinality(Queued \ {c}) = Cardinality(Queued) - 1 /\ IsFiniteSet(Queued \ {c})
    BY <2>1, Sizes, FS_RemoveElement DEF CapInv
  <2>3. Cardinality(Queued)' <= Cardinality(Queued) - 1 /\ Cardinality(Queued)' \in Nat
    BY <2>1, <2>2, FS_Subset, FS_CardinalityType
  <2>4. /\ leftOn'[date'] = leftOn[date] + 1 /\ RolledLogins' = RolledLogins + 1
        /\ \A d \in 1 .. MaxDays : d # date => leftOn'[d] = leftOn[d]
    BY <1>1, <1>3, <1>4, <1>6
  <2>5. /\ leftOn'[date'] + Cardinality(Queued)' <= Allowed(stepsBack + 1)
        /\ leftOn'[date'] <= Allowed(stepsBack) + RolledLogins'
        /\ leftOn'[date'] <= Allowed(stepsBack + 1)
    BY <1>3, <2>3, <2>4
  <2>6. \A d \in 1 .. MaxDays : leftOn'[d] <= Allowed(stepsBack + IF d > date THEN 0 ELSE 1)
    BY <1>3, <2>4, <2>5 DEF CapInv
  <2>7. Queued' # {} => MaxLogins > 0
    BY <2>1 DEF CapInv
  <2> QED BY <1>4, <1>5, <2>5, <2>6, <2>7 DEF CapInv
<1>7. CASE work[c].stage # "login"
  <2>1. RolledLogins' = RolledLogins /\ leftOn' = leftOn
    BY <1>1, <1>3, <1>4, <1>7
  <2> QED BY <1>2, <1>4, <2>1, CapStill
<1> QED BY <1>6, <1>7

\* The date goes on or back by one.
LEMMA CapDate == ASSUME EdInv, CapInv, NewDate PROVE CapInv'
<1>1. UNCHANGED <<owner, day, logins, leftOn, work>>
  BY DEF NewDate, limiterVars, histVars
<1>2. /\ Quota \in Nat /\ Cardinality(Queued) \in Nat
      /\ Allowed(stepsBack) \in Nat /\ Allowed(stepsBack + 1) = Allowed(stepsBack) + Quota
      /\ Allowed(stepsBack + 2) = Allowed(stepsBack) + Quota + Quota
      /\ date \in 1 .. MaxDays /\ MaxDays \in Nat /\ stepsBack \in Nat
  BY Sizes, Allowances, EdAssumption DEF CapInv, CapTypes
<1>3. Queued' = Queued /\ Quota' = Quota
  BY <1>1 DEF Queued, Quota, Users
<1>4. \A n : Allowed(n)' = Allowed(n)
  BY <1>3 DEF Allowed
<1>5. Cardinality(Queued) <= Quota
  <2>1. CASE Queued = {}
    BY <1>2, <2>1, FS_EmptySet
  <2>2. CASE Queued # {}
    <3>1. MaxLogins > 0 /\ MaxLogins \in Nat /\ Cardinality(Queued) <= Cardinality(Users)
          /\ Cardinality(Users) \in Nat
      BY <2>2, Sizes DEF CapInv
    <3> QED BY <1>2, <3>1 DEF Quota
  <2> QED BY <2>1, <2>2
<1>6. CapTypes'
  <2>1. date' \in 1 .. MaxDays /\ stepsBack' \in Nat
    BY <1>2 DEF NewDate
  <2> QED BY <1>1, <2>1 DEF CapInv, CapTypes
<1>7. RolledLogins' \in Nat
  BY <1>6 DEF CapTypes, RolledLogins
<1>8. \A d \in 1 .. MaxDays :
         leftOn[d] \in Nat /\ leftOn[d] <= Allowed(stepsBack + IF d > date THEN 0 ELSE 1)
  BY DEF CapInv, CapTypes
<1>9. CASE date < MaxDays /\ date' = date + 1 /\ stepsBack' = stepsBack
  <2>1. leftOn[date'] <= Allowed(stepsBack) /\ leftOn[date'] \in Nat
    BY <1>2, <1>8, <1>9
  <2>2. \A d \in 1 .. MaxDays : leftOn[d] <= Allowed(stepsBack + IF d > date' THEN 0 ELSE 1)
    BY <1>2, <1>8, <1>9, <2>1
  <2>3. /\ leftOn[date'] + Cardinality(Queued) <= Allowed(stepsBack + 1)
        /\ leftOn[date'] <= Allowed(stepsBack) + RolledLogins'
    BY <1>2, <1>5, <1>7, <2>1
  <2> QED BY <1>1, <1>3, <1>4, <1>6, <1>9, <2>2, <2>3 DEF CapInv
<1>10. CASE date > 1 /\ date' = date - 1 /\ stepsBack' = stepsBack + 1
  <2>1. leftOn[date'] <= Allowed(stepsBack + 1) /\ leftOn[date'] \in Nat /\ stepsBack' + 1 = stepsBack + 2
    BY <1>2, <1>8, <1>10
  <2>2. ASSUME NEW d \in 1 .. MaxDays
        PROVE  leftOn[d] <= Allowed(stepsBack') /\ leftOn[d] <= Allowed(stepsBack' + 1)
    <3>1. leftOn[d] \in Nat /\ (leftOn[d] <= Allowed(stepsBack) \/ leftOn[d] <= Allowed(stepsBack + 1))
      BY <1>2, <1>8
    <3> QED BY <1>2, <1>10, <2>1, <3>1
  <2>3. \A d \in 1 .. MaxDays : leftOn[d] <= Allowed(stepsBack' + IF d > date' THEN 0 ELSE 1)
    BY <1>2, <1>10, <2>2
  <2>4. /\ leftOn[date'] + Cardinality(Queued) <= Allowed(stepsBack' + 1)
        /\ leftOn[date'] <= Allowed(stepsBack') + RolledLogins'
    BY <1>2, <1>5, <1>7, <1>10, <2>1
  <2> QED BY <1>1, <1>3, <1>4, <1>6, <2>3, <2>4 DEF CapInv
<1> QED BY <1>9, <1>10 DEF NewDate

\* The other steps of a unit take a login out of the queue, or leave it there.
LEMMA CapUnit ==
    ASSUME EdInv, CapInv, NEW c \in Callers, Step(c)
    PROVE  CapInv'
<1> DEFINE Still == /\ UNCHANGED <<owner, date, stepsBack, leftOn>>
                    /\ Rolls \/ UNCHANGED <<day, logins>>
                    /\ \A d \in Callers : d # c => work'[d] = work[d]
                    /\ work'[c].stage = "login" => c \in Queued
<1>1. ASSUME Still PROVE CapInv'
  <2>1. Queued' \subseteq Queued
    BY <1>1 DEF Queued
  <2>2. CapTypes' /\ RolledLogins' = RolledLogins
    BY <1>1, RollingKeeps DEF CapInv
  <2> QED BY <1>1, <2>1, <2>2, CapStill
<1> HIDE DEF Still
<1> USE DEF EdInv, Shape, WorkSet, Queued, InPhase
<1>2. ASSUME NEW child \in Children \union {NoOne}, Start(c, child) PROVE CapInv'
  BY <1>2, CapStart
<1>3. CASE AdmitNow(c)
  BY <1>3, CapRecord DEF AdmitNow, timeVars
<1>4. CASE Wake(c)
  BY <1>4, CapRecord DEF Wake, timeVars
<1>5. CASE AdmitLater(c)
  <2>1. Still
    BY <1>5 DEF Still, AdmitLater, timeVars, pauseVars, histVars
  <2> QED BY <1>1, <2>1
<1>6. CASE Refuse(c)
  <2>1. Still
    BY <1>6, IdleIsIdle DEF Still, Refuse, Ends, timeVars, pauseVars, histVars
  <2> QED BY <1>1, <2>1
<1>7. CASE LoggedIn(c)
  <2>1. Still
    BY <1>7, IdleIsIdle DEF Still, LoggedIn, Quietly, Over, Used, timeVars
  <2> QED BY <1>1, <2>1
<1>8. CASE Challenged(c) \/ ChallengeRequired(c)
  <2>1. Still
    BY <1>8, IdleIsIdle DEF Still, Challenged, ChallengeRequired, Quietly, Over, Used, timeVars
  <2> QED BY <1>1, <2>1
<1>9. ASSUME NEW outcome, LoginFails(c, outcome) PROVE CapInv'
  <2>1. Still
    BY <1>9, IdleIsIdle DEF Still, LoginFails, Quietly, Ends, timeVars
  <2> QED BY <1>1, <2>1
<1>10. CASE Renewed(c) \/ Served(c) \/ SessionOver(c)
  <2>1. Still
    BY <1>10, IdleIsIdle DEF Still, Renewed, Served, SessionOver, Quietly, Used, Ends, timeVars
  <2> QED BY <1>1, <2>1
<1>11. ASSUME NEW outcome, RequestFails(c, outcome) PROVE CapInv'
  <2>1. Still
    BY <1>11, IdleIsIdle DEF Still, RequestFails, Quietly, Ends, timeVars
  <2> QED BY <1>1, <2>1
<1> QED BY <1>2, <1>3, <1>4, <1>5, <1>6, <1>7, <1>8, <1>9, <1>10, <1>11 DEF Step

\* Nothing was queued or had left.
LEMMA CapInit == ASSUME Init, EdInv PROVE CapInv
<1>1. CapTypes
  BY EdAssumption DEF Init, CapTypes
<1>2. Queued = {} /\ Cardinality(Queued) = 0
  BY IdleIsIdle, FS_EmptySet DEF Init, Queued
<1>3. Allowed(0) \in Nat /\ Allowed(1) \in Nat /\ RolledLogins \in Nat
  <2>1. Quota \in Nat /\ RolledLogins \in Nat
    BY <1>1, Sizes
  <2> QED BY <2>1, OnceMore, 0 + 1 = 1
<1>4. stepsBack = 0 /\ date = 1 /\ \A d \in 1 .. MaxDays : leftOn[d] = 0
  BY DEF Init
<1>5. date \in 1 .. MaxDays /\ leftOn[date] = 0
  BY <1>1, <1>4 DEF CapTypes
<1> QED BY <1>1, <1>2, <1>3, <1>4, <1>5 DEF CapInv

\* However many logins overlap, are reloaded, or run past midnight and back, a date
\* sees no more than the cap and those that queued together, once more for each
\* setting back of the clock (EdRateLimiter.login).
THEOREM LoginsPerDate == Spec => []LoginAllowance
<1>1. EdInv /\ CapInv /\ [Next]_vars => CapInv'
  <2> SUFFICES ASSUME EdInv, CapInv, [Next]_vars PROVE CapInv'
    OBVIOUS
  <2>1. ASSUME UNCHANGED <<owner, date, stepsBack, leftOn, work>>,
               RolledLogins' = RolledLogins, day' \in Nat, logins' \in Nat
        PROVE  CapInv'
    <3>1. Queued' = Queued
      BY <2>1 DEF Queued
    <3>2. CapTypes'
      BY <2>1 DEF CapInv, CapTypes
    <3> QED BY <2>1, <3>1, <3>2, CapStill
  <2>2. date \in Nat /\ day \in Nat /\ logins \in Nat /\ RolledLogins \in Nat
    BY Sizes DEF CapInv, CapTypes
  <2>3. ASSUME NEW c \in Callers, Step(c) PROVE CapInv'
    BY <2>3, CapUnit
  <2>4. CASE Reload
    <3>1. UNCHANGED <<owner, date, stepsBack, leftOn, work>> /\ day' = date /\ logins' = RolledLogins
      BY <2>4 DEF Reload, timeVars, histVars, ImportLogins, Exported
    <3>2. RolledLogins' = RolledLogins
      BY <2>2, <3>1 DEF RolledLogins
    <3> QED BY <2>1, <2>2, <3>1, <3>2
  <2>5. CASE Reauthenticate \/ Tick \/ UNCHANGED vars
    <3>1. UNCHANGED <<owner, date, stepsBack, day, logins, leftOn, work>>
      BY <2>5 DEF Reauthenticate, Tick, vars, timeVars, limiterVars, histVars
    <3>2. RolledLogins' = RolledLogins
      BY <3>1 DEF RolledLogins
    <3> QED BY <2>1, <2>2, <3>1, <3>2
  <2>6. CASE NewDate
    BY <2>6, CapDate
  <2>7. CASE ReadCounters
    <3>1. UNCHANGED <<owner, date, stepsBack, leftOn, work>> /\ Rolls
      BY <2>7 DEF ReadCounters, timeVars, histVars
    <3>2. day' \in Nat /\ logins' \in Nat /\ RolledLogins' = RolledLogins
      BY <3>1, RollingKeeps DEF CapInv, CapTypes
    <3> QED BY <2>1, <3>1, <3>2
  <2> QED BY <2>3, <2>4, <2>5, <2>6, <2>7 DEF Next
<1>2. EdInv /\ CapInv => LoginAllowance
  <2> SUFFICES ASSUME EdInv, CapInv, NEW d \in 1 .. MaxDays
               PROVE  leftOn[d] <= (1 + stepsBack) * Quota
    BY DEF LoginAllowance, Quota
  <2>1. stepsBack \in Nat /\ Quota \in Nat /\ leftOn[d] \in Nat
    BY Sizes DEF CapInv, CapTypes
  <2>2. Allowed(stepsBack + 1) = (1 + stepsBack) * Quota
    BY <2>1 DEF Allowed
  <2>3. leftOn[d] <= Allowed(stepsBack) \/ leftOn[d] <= Allowed(stepsBack + 1)
    BY <2>1 DEF CapInv
  <2>4. leftOn[d] <= Allowed(stepsBack + 1)
    BY <2>1, <2>3, Allowances DEF CapInv
  <2> QED BY <2>2, <2>4
<1> QED BY <1>1, <1>2, Invariance, CapInit, PTL DEF Spec
=============================================================================
