------------------------------ MODULE MCRoster ------------------------------
(* Small instances of the roster for TLC. *)
EXTENDS Roster, TLC

CONSTANTS a, b

AThenB == <<a, b>>
OnlyBoth == {{a, b}}
TwoNamesOrTwins == {(a :> 1) @@ (b :> 2), (a :> 1) @@ (b :> 1)}
OldRowsOfB == <<b>>
OnlyA == {a}
NobodyOneOrBoth == {{}, {b}, {a, b}}
=============================================================================
