----------------------------- MODULE SchoolPact -----------------------------
(***************************************************************************)
(* What the limiter promises the school (ratelimit.py, module docstring),  *)
(* with nothing of how it keeps the promise: requests leave one by one and *)
(* spaced, none while the account is barred, and a bounded number of       *)
(* logins a date, renewed when the clock is set back and goes on again.     *)
(* When a penalty ends is not part of it: the limiter's own holds say that. *)
(***************************************************************************)
EXTENDS Integers

CONSTANTS MinInterval, MaxLogins, Dates

VARIABLES clock, today, stepsBack, barred, lastLeft, loginsSent, loginsOn

dateVars == <<today, stepsBack>>
loginVars == <<loginsSent, loginsOn>>
vars == <<clock, dateVars, barred, lastLeft, loginVars>>

Init ==
    /\ clock = 0
    /\ today = 0
    /\ stepsBack = 0
    /\ barred = FALSE
    /\ lastLeft = 0 - MinInterval
    /\ loginsSent = 0
    /\ loginsOn = [d \in Dates |-> 0]

Leave ==
    /\ ~barred
    /\ clock >= lastLeft + MinInterval
    /\ lastLeft' = clock
    /\ UNCHANGED <<clock, dateVars, barred>>

SendRequest == Leave /\ UNCHANGED loginVars

SendLogin ==
    /\ Leave
    /\ loginsSent < MaxLogins * (today + stepsBack + 1)
    /\ loginsOn[today] < MaxLogins * (stepsBack + 1)
    /\ loginsSent' = loginsSent + 1
    /\ loginsOn' = [loginsOn EXCEPT ![today] = @ + 1]

\* A penalty begins with an answer, or with a refused login; it ends with time,
\* a success or a re-authentication.
Bar == ~barred /\ barred' = TRUE /\ UNCHANGED <<clock, dateVars, lastLeft, loginVars>>
Lift == barred /\ barred' = FALSE /\ UNCHANGED <<clock, dateVars, lastLeft, loginVars>>

Tick ==
    /\ clock' = clock + 1
    /\ barred' \in {barred, FALSE}
    /\ UNCHANGED <<dateVars, lastLeft, loginVars>>

Midnight ==
    /\ today' = today + 1
    /\ UNCHANGED <<clock, stepsBack, barred, lastLeft, loginVars>>

ClockStepsBack ==
    /\ today' = today - 1
    /\ stepsBack' = stepsBack + 1
    /\ UNCHANGED <<clock, barred, lastLeft, loginVars>>

Next ==
    \/ SendRequest \/ SendLogin
    \/ Bar \/ Lift
    \/ Tick \/ Midnight \/ ClockStepsBack

Spec == Init /\ [][Next]_vars
=============================================================================
