--------------------------- MODULE MCConfigEntry ---------------------------
(* Small instances of the configuration entry for TLC. *)
EXTENDS ConfigEntry, TLC

TwoSchools == {"ours", "theirs"}
CONSTANTS x, y, w
AtFirst == ("ours" :> {x, y}) @@ ("theirs" :> {w})
Families == ("ours" :> {x, y, w}) @@ ("theirs" :> {w})
AllKinds == {"qr", "password", "ed"}
\* Two of the children are alike.
Alike == Permutations({x, y})
=============================================================================
