-------------------------- MODULE MCSessionManager --------------------------
(* Small instances of the session manager for TLC. *)
EXTENDS SessionManager

CONSTANTS s1, s2
=============================================================================
