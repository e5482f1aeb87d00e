----------------------------- MODULE SchoolDay -----------------------------
(***************************************************************************)
(* What a household sees of one child's school: the changes that are        *)
(* announced (DeltaDetector) and the states the entities show (Display).     *)
(* The account feeds both from the same collections, and neither reads the  *)
(* other, so a behaviour follows one of the two.                            *)
(***************************************************************************)
EXTENDS DeltaDetector, Display

VARIABLE followed      \* "announced" or "shown"

dayVars == <<followed, vars, displayVars>>

DayInit ==
    /\ followed \in {"announced", "shown"}
    /\ Init /\ DisplayInit
    /\ followed = "shown" => topic = CHOOSE t \in Topics : TRUE
    /\ followed = "announced" => tier = CHOOSE t \in ShownTiers : TRUE

DayNext ==
    \/ followed = "announced" /\ Next /\ UNCHANGED <<followed, displayVars>>
    \/ followed = "shown" /\ DisplayNext /\ UNCHANGED <<followed, vars>>

DaySpec == DayInit /\ [][DayNext]_dayVars

-----------------------------------------------------------------------------
\* Both halves are well typed.
DayTypeOK == followed \in {"announced", "shown"} /\ TypeOK /\ DisplayTypeOK
=============================================================================
