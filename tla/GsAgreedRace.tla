---------------------------- MODULE GsAgreedRace ----------------------------
(***************************************************************************)
(* What a networked race promises, with no network in it: every driver     *)
(* decides an input for each tick once, and every machine extends its copy *)
(* of one and the same race, the one those decisions make.  A machine may  *)
(* lag and catch up by any number of ticks, but it never agrees a tick     *)
(* some driver has not decided, never one that was not driven, and never   *)
(* goes back.  GsRace implements it with guesses, datagrams and a window.  *)
(***************************************************************************)
EXTENDS Sequences, Integers

CONSTANTS Player, Input

VARIABLES drive,        \* drive[p]:  the inputs p decided, tick by tick
          agreed        \* agreed[m]: the race so far as machine m has agreed it
vars == <<drive, agreed>>

\* The race that the decisions d make, up to tick k.
RaceOf(d, k) == [t \in 0 .. k - 1 |-> [p \in Player |-> d[p][t + 1]]]

Init ==
    /\ drive  = [p \in Player |-> <<>>]
    /\ agreed = [m \in Player |-> RaceOf(drive, 0)]

Decide(p) == \E input \in Input : drive' = [drive EXCEPT ![p] = Append(@, input)]

\* Nobody's copy shrinks, and every copy is the race that was decided.
Agree ==
    \A m \in Player :
        \E k \in 0 .. Len(drive'[m]) :
            /\ \A p \in Player : k <= Len(drive'[p])
            /\ DOMAIN agreed[m] \subseteq 0 .. k - 1
            /\ agreed'[m] = RaceOf(drive', k)

Next == /\ UNCHANGED drive \/ \E p \in Player : Decide(p)
        /\ Agree

Spec == Init /\ [][Next]_vars
=============================================================================
