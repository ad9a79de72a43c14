------------------------------- MODULE GsRace -------------------------------
(***************************************************************************)
(* A networked race: one session (GsNet) per machine, the game loop that   *)
(* drives it (frontend/game/main.c: the race loop, the finish, the         *)
(* settling after it, the recording) and the datagrams in between, which   *)
(* may be lost, delayed, duplicated and overtaken.                         *)
(*                                                                         *)
(* Every machine runs the program as it is.  A machine hears a datagram at *)
(* the start of its own next tick and is silent in between, so a datagram  *)
(* that arrives in time for that tick is heard as it is sent; one that     *)
(* does not is in transit, and may then be overtaken by any number of      *)
(* later ones, or arrive a second time after the first.                    *)
(***************************************************************************)
EXTENDS GsNet, Sequences, FiniteSets

CONSTANTS Presses,      \* Presses[m]: what the player at m may do with the pad
          Distance,     \* ticks with a pedal down that take a car to the line
          Leavers,      \* machines that may walk away: from the race, or the settling
          LastTick,     \* bound: a machine that gets this far is stalled there
          Queue,        \* bound: datagrams still on their way to one machine
          Blackout      \* the longest run of datagrams lost in a row; any, if -1

ASSUME RaceAssumption ==
    /\ IsFiniteSet(Player)
    /\ Presses \in [Player -> SUBSET Input]
    /\ Distance \in Nat \ {0}
    /\ Leavers \subseteq Player
    /\ LastTick \in Nat /\ Queue \in Nat
    /\ Blackout \in Nat \cup {-1}

VARIABLES
    net,        \* net[m]: the session of machine m
    phase,      \* "race", "settle" (results shown, still talking), or "gone"
    over,       \* over[m]: the race last shown on screen at m has finished
    recording,  \* recording[m]: the agreed ticks written down at m
    submitted,  \* submitted[m]: what m handed to the server: nothing, or one claim
    transit,    \* transit[m]: datagrams still on their way to m
    lost,       \* lost[a][b]: datagrams lost since the last that was not
    driven,     \* driven[m]: every input the player at m was held to, in order
    frame       \* frame[m]: ticks stepped in this frame of m's settling

vars == <<net, phase, over, recording, submitted, transit, lost, driven, frame>>

Others(m) == Player \ {m}
Talking(m) == phase[m] \in {"race", "settle"}

\* gs_world_step sets `over` when no car is left that could still finish; a car
\* gets to the line by being driven there.
Over(w) ==
    \A p \in Player : Cardinality({t \in DOMAIN w : w[t][p] # Idle}) >= Distance

Init ==
    /\ net       = [m \in Player |-> Begin(m)]
    /\ phase     = [m \in Player |-> "race"]
    /\ over      = [m \in Player |-> FALSE]
    /\ recording = [m \in Player |-> <<>>]
    /\ submitted = [m \in Player |-> {}]
    /\ transit   = [m \in Player |-> {}]
    /\ lost      = [a \in Player |-> [b \in Player |-> 0]]
    /\ driven    = [m \in Player |-> <<>>]
    /\ frame     = [m \in Player |-> 0]

-----------------------------------------------------------------------------
(* The network.                                                            *)

\* m takes a step to session n and sends d.  Each peer hears it in time for its
\* next tick, or later, or both, or never.
StepAndSend(m, n, d) ==
    \E prompt, late \in SUBSET {p \in Others(m) : Talking(p)} :
        LET losing == {p \in Others(m) : Talking(p)} \ (prompt \cup late)
        IN /\ \A p \in losing : Blackout = -1 \/ lost[m][p] < Blackout
           /\ \A p \in late : Cardinality(transit[p]) < Queue
           /\ net' = [p \in Player |-> IF p = m THEN n
                                       ELSE IF p \in prompt THEN Receive(net[p], d)
                                       ELSE net[p]]
           /\ transit' = [p \in Player |-> IF p \in late THEN transit[p] \cup {d}
                                           ELSE transit[p]]
           /\ lost' = [lost EXCEPT ![m] = [p \in Player |->
                 IF p \in losing /\ Blackout # -1 THEN @[p] + 1 ELSE 0]]

\* A datagram that was late arrives.
Deliver(m) ==
    /\ Talking(m)
    /\ \E d \in transit[m] :
         /\ net' = [net EXCEPT ![m] = Receive(@, d)]
         /\ transit' = [transit EXCEPT ![m] = @ \ {d}]
    /\ UNCHANGED <<phase, over, recording, submitted, lost, driven, frame>>

-----------------------------------------------------------------------------
(* The game loop.                                                          *)

\* Slip: the ring is read without asking whether it still holds the tick.
RecordedUnasked(log, n) ==
    log \o [i \in 1 .. n.confirmedTick - Len(log) |-> n.in[Slot(Len(log) + i - 1)]]

\* gs_record_confirmed: write down the agreed ticks the ring still holds, up to
\* the first it does not.
Recorded(log, n) ==
    LET fresh   == Len(log) .. n.confirmedTick - 1
        reached == {t \in fresh : \A u \in Len(log) .. t : ConfirmedInputHeld(n, u)}
    IN log \o [i \in 1 .. Cardinality(reached) |-> n.in[Slot(Len(log) + i - 1)]]

\* The input m's player is held to: none if the tick already has one.
HeldTo(m, input) ==
    IF Known(net[m], net[m].localTick, m) THEN driven[m] ELSE Append(driven[m], input)

\* gs_net_step, but for the bound: a machine at the last tick waits there as one
\* whose window is full does, and goes on talking.
Stepped(n) == IF n.localTick < LastTick THEN Step(n) ELSE n

\* One frame of the race, of one tick: pad, datagram, step; then the recording.
RaceTick(m) ==
    /\ phase[m] = "race" /\ ~over[m]
    /\ \E input \in Presses[m] :
         LET heard   == LocalInput(net[m], input)
             stepped == Stepped(AfterDatagram(heard))
         IN /\ StepAndSend(m, stepped, Datagram(heard))
            /\ driven' = [driven EXCEPT ![m] = HeldTo(m, input)]
            /\ over' = [over EXCEPT ![m] =
                 IF stepped.localTick > net[m].localTick THEN Over(stepped.current) ELSE @]
            /\ phase' = [phase EXCEPT ![m] = IF stepped.cheated THEN "gone" ELSE @]
            /\ recording' = [recording EXCEPT ![m] = Recorded(@, stepped)]
    /\ UNCHANGED <<submitted, frame>>

\* The race on screen has finished: the results are shown and the settling
\* begins.
FinishRace(m) ==
    /\ phase[m] = "race" /\ over[m]
    /\ net' = [net EXCEPT ![m] = Finish(@)]
    /\ phase' = [phase EXCEPT ![m] = "settle"]
    /\ UNCHANGED <<over, recording, submitted, transit, lost, driven, frame>>

\* gs_net_settle's loop: step past the finish with no input, a datagram a step,
\* until the agreed race is over, the window is full or the frame has had enough.
SettleTick(m) ==
    /\ phase[m] = "settle"
    /\ frame[m] < Redundancy /\ ~Over(net[m].confirmed)
    /\ LET heard   == LocalInput(net[m], Idle)
           stepped == Stepped(AfterDatagram(heard))
       IN /\ StepAndSend(m, stepped, Datagram(heard))
          /\ driven' = [driven EXCEPT ![m] = HeldTo(m, Idle)]
          /\ frame' = [frame EXCEPT ![m] =
               IF stepped.localTick > net[m].localTick THEN @ + 1 ELSE Redundancy]
    /\ UNCHANGED <<phase, over, recording, submitted>>

\* The rest of that frame: answer, record, and hand in a race that is agreed to
\* its end, with the hash everybody should have for that end.
SettleAnswer(m) ==
    /\ phase[m] = "settle"
    /\ frame[m] = Redundancy \/ Over(net[m].confirmed)
    /\ StepAndSend(m, AfterDatagram(net[m]), Datagram(net[m]))
    /\ recording' = [recording EXCEPT ![m] = Recorded(@, net[m])]
    /\ submitted' = [submitted EXCEPT ![m] =
         IF Over(net[m].confirmed) /\ @ = {}
         THEN {[log |-> recording'[m], agreed |-> net[m].hash[Slot(net[m].confirmedTick)]]}
         ELSE @]
    /\ frame' = [frame EXCEPT ![m] = 0]
    /\ UNCHANGED <<phase, over, driven>>

\* The player leaves the race, or a machine stalled for twenty seconds gives up
\* waiting.
Leave(m) ==
    /\ phase[m] = "race"
    /\ m \in Leavers \/ WindowFull(net[m])
    /\ net' = [net EXCEPT ![m] = Finish(@)]
    /\ phase' = [phase EXCEPT ![m] = "gone"]
    /\ transit' = [transit EXCEPT ![m] = {}]
    /\ UNCHANGED <<over, recording, submitted, lost, driven, frame>>

\* The settling has run for its nine hundred frames.
EndSettle(m) ==
    /\ phase[m] = "settle" /\ m \in Leavers
    /\ phase' = [phase EXCEPT ![m] = "gone"]
    /\ transit' = [transit EXCEPT ![m] = {}]
    /\ UNCHANGED <<net, over, recording, submitted, lost, driven, frame>>

\* What the next frame at m is; never more than one of these.
Frame(m) == RaceTick(m) \/ FinishRace(m) \/ SettleTick(m) \/ SettleAnswer(m)

Next == \E m \in Player : Frame(m) \/ Deliver(m) \/ Leave(m) \/ EndSettle(m)

Spec == Init /\ [][Next]_vars

-----------------------------------------------------------------------------
(* What should hold.                                                       *)

\* The race as it was really driven, as far as every player has decided it.
Race == INSTANCE GsAgreedRace WITH drive <- driven,
                                   agreed <- [m \in Player |-> net[m].confirmed]

\* Detailed implements abstract: whatever is lost, late, repeated or guessed, the
\* machines agree one and the same race, the one that was driven, and only ever
\* extend it.
ImplementsAgreedRace == Race!Spec

\* A peer that keeps to the protocol is never found to have broken a promise.
NoFalseAccusation == \A m \in Player : ~net[m].cheated

\* Machines that race the same race never see their hashes disagree.
NoDesync == \A m \in Player : ~net[m].desynced

\* Whatever a machine writes down is the race that was driven, from its first tick
\* and without a gap.
RecordingIsTheRace ==
    \A m \in Player :
        /\ Len(recording[m]) <= net[m].confirmedTick
        /\ \A i \in 1 .. Len(recording[m]) : recording[m][i] = net[m].confirmed[i - 1]

\* "being refused for the real reason": a recording that fell behind the race is
\* not handed in, so a submitted one re-races to the end it claims.
SubmittedIsComplete ==
    \A m \in Player : \A claim \in submitted[m] :
        claim.agreed = [t \in 0 .. Len(claim.log) - 1 |-> claim.log[t + 1]]

\* The race up to the tick that ended it.
Ending(w) ==
    LET upto(k) == [t \in 0 .. k - 1 |-> w[t]]
    IN {upto(k) : k \in {k \in 0 .. Cardinality(DOMAIN w) :
                           Over(upto(k)) /\ (k > 0 => ~Over(upto(k - 1)))}}

\* Whatever each machine saw finish, and however far past it each had to step,
\* what they hand in is a race that is over, and the same ending.
EndingsMatch ==
    \A a, b \in Player : \A mine \in submitted[a], yours \in submitted[b] :
        Ending(mine.agreed) # {} /\ Ending(mine.agreed) = Ending(yours.agreed)
=============================================================================
