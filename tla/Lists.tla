------------------------------- MODULE Lists --------------------------------
(***************************************************************************)
(* The loop that walks a list and keeps some of its elements, as the       *)
(* compiler writes it in several places.                                   *)
(***************************************************************************)
EXTENDS Naturals, Sequences

\* What the loop has kept after each number of elements.
KeptAfter(s, S) ==
  LET kept[n \in 0..Len(s)] ==
        IF n = 0 THEN << >>
        ELSE IF s[n] \in S THEN Append(kept[n - 1], s[n]) ELSE kept[n - 1]
  IN kept

\* The elements of s that are in S, in order.
Kept(s, S) == KeptAfter(s, S)[Len(s)]

=============================================================================
