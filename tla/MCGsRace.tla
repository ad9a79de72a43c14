------------------------------ MODULE MCGsRace ------------------------------
(***************************************************************************)
(* GsRace on two machines, or three, and a ring of two or three ticks.     *)
(***************************************************************************)
EXTENDS GsRace, TLC

CONSTANTS m1, m2, m3     \* the machines

Symmetry == Permutations(Player)

AnyLoss == -1

\* What the players may do: anything; hold the pedal down; one holds it down and
\* the other may lift, which is what a guess gets wrong.
Anything   == [m \in Player |-> Input]
FlatOut    == [m \in Player |-> Input \ {Idle}]
OneFlatOut == [m \in Player |-> IF m = m1 THEN Input \ {Idle} ELSE Input]
=============================================================================
