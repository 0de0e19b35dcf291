----------------------------- MODULE ModuleInit -----------------------------
(***************************************************************************)
(* What a compiled program promises about the top-level code of its        *)
(* modules, whichever way it was compiled: the program has a set of        *)
(* modules, some of which need others; the code of each runs exactly once, *)
(* after that of the modules it needs.                                     *)
(***************************************************************************)
EXTENDS Naturals, Sequences

CONSTANT Module

VARIABLES
  needs,   \* module -> the modules whose code must run before its own
  ran      \* the modules whose code has run, in order

Ran == {ran[i] : i \in 1..Len(ran)}

Init ==
  /\ needs = << >>
  /\ ran = << >>

\* The program is fixed: its modules and what they need.
Link ==
  /\ needs = << >>
  /\ ran = << >>
  /\ \E M \in SUBSET Module : M # {} /\ needs' \in [M -> SUBSET M]
  /\ ran' = ran

Run ==
  \E m \in DOMAIN needs \ Ran :
    /\ needs[m] \subseteq Ran
    /\ ran' = Append(ran, m)
    /\ needs' = needs

Next == Link \/ Run

Spec == Init /\ [][Next]_<<needs, ran>>

\* A program whose modules do not need each other in a cycle runs all of them.
FairSpec == Spec /\ WF_<<needs, ran>>(Run)

=============================================================================
