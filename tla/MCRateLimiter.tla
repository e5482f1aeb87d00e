--------------------------- MODULE MCRateLimiter ---------------------------
(* Small instances of the rate limiter for TLC. *)
EXTENDS RateLimiter, TLC

CONSTANTS c1, c2

AnyOrderOfCallers == Permutations(Callers)
=============================================================================
