--------------------------- MODULE MCEcoleDirecte ---------------------------
(* Two children of two logins; see EcoleDirecte.cfg for the rest.            *)
EXTENDS EcoleDirecte, TLC

CONSTANTS c1, c2, x, y, loginX, loginY
TwoLogins == x :> loginX @@ y :> loginY
\* The callers are alike, and so are the two children, each with its login.
Same == x :> x @@ y :> y @@ loginX :> loginX @@ loginY :> loginY
Swapped == x :> y @@ y :> x @@ loginX :> loginY @@ loginY :> loginX
Alike == {p @@ q : p \in Permutations({c1, c2}), q \in {Same, Swapped}}
=============================================================================
