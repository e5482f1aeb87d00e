------------------------------- MODULE Lists -------------------------------
(***************************************************************************)
(* What the modules share: the empty function, and selections from a list,   *)
(* which take a set and not a predicate, so that what they return can be    *)
(* proved.                                                                 *)
(***************************************************************************)
EXTENDS Integers, Sequences

Empty == [x \in {} |-> x]

\* The elements of seq that are in S, in order.
OnlyIn(seq, S) ==
    LET kept[n \in 0 .. Len(seq)] ==
          IF n = 0 THEN <<>>
          ELSE IF seq[n] \in S THEN Append(kept[n - 1], seq[n])
          ELSE kept[n - 1]
    IN  kept[Len(seq)]
=============================================================================
