---------------------------- MODULE MCCollection ----------------------------
(* Small instances of the collection for TLC. *)
EXTENDS Collection, TLC

CONSTANTS a, b, marks, timetable

OneChild == <<a>>
TwoChildren == <<a, b>>
TwoIntervals == (timetable :> 2) @@ (marks :> 4)
ShortIntervals == (timetable :> 1) @@ (marks :> 2)
TwoRanks == (timetable :> 1) @@ (marks :> 2)
TwoNames == (timetable :> 2) @@ (marks :> 1)
=============================================================================
