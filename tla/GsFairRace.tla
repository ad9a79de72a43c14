----------------------------- MODULE GsFairRace -----------------------------
(***************************************************************************)
(* GsRace with the frames of its machines scheduled: what keeps a race     *)
(* going is that the program's frame loop (frontend/game/main.c) comes     *)
(* round again on every machine that has not left, and that whatever is    *)
(* late in the network arrives.  The frames are counted on by saying whose *)
(* came last, because a frame of a stalled machine may change nothing else *)
(* and must still be seen to happen.                                       *)
(***************************************************************************)
EXTENDS GsRace

VARIABLE turn       \* the machine whose frame came last

\* What the players may do where they are not to guess wrong: hold the pedal down.
FlatOut == [m \in Player |-> Input \ {Idle}]

fairVars == <<vars, turn>>

FairInit == Init /\ turn \in Player

FairNext ==
    \/ \E m \in Player : Frame(m) /\ turn' = m
    \/ /\ \E m \in Player : Deliver(m) \/ Leave(m) \/ EndSettle(m)
       /\ UNCHANGED turn

\* A machine that has not left always has a frame to run: Frame(m) is enabled
\* whenever Talking(m) is, so this is its weak fairness.
Fairness == \A m \in Player :
    /\ []<>(turn = m \/ ~Talking(m))
    /\ WF_vars(Deliver(m))

FairSpec == FairInit /\ [][FairNext]_fairVars /\ Fairness

-----------------------------------------------------------------------------
Abandoned == \E p \in Player : phase[p] = "gone"

\* A tick everybody has driven, and has then driven past by the delay of the
\* reveals, is agreed everywhere in the end, whatever is lost on the way, as long
\* as nobody leaves.
EveryTickIsAgreed ==
    \A k \in 1 .. LastTick :
        (\A p \in Player : Len(driven[p]) >= k + RevealDelay)
            ~> Abandoned \/ \A p \in Player : net[p].confirmedTick >= k

\* A machine that shows the results has a race to hand in before it stops talking:
\* the settling is "long enough for a peer to finish sending what it owes over any
\* link a race was playable on".
Settles == \A m \in Player : phase[m] = "settle" ~> Abandoned \/ submitted[m] # {}

\* What has been driven is agreed, and what has been agreed is handed in.
RaceEnds == EveryTickIsAgreed /\ Settles
=============================================================================
