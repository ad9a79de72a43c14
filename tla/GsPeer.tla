------------------------------- MODULE GsPeer -------------------------------
(***************************************************************************)
(* One machine's session (core/gs_net.c) against peers that may say        *)
(* anything.  The machine itself is driven as the game drives it: a tick   *)
(* of the race loop records the pad and steps (frontend/game/main.c), and  *)
(* a datagram is taken whenever one arrives.  What this machine sends goes *)
(* nowhere here, so the datagram it builds each tick and the flush at the  *)
(* end of the race, which only changes what is sent, are left to GsRace.   *)
(*                                                                         *)
(* Nothing is assumed of what arrives beyond its shape: promises that      *)
(* change, proofs that match nothing, ticks far ahead or long gone, hashes *)
(* of other worlds.  What is stated here therefore holds of an honest      *)
(* machine whoever it is racing.                                           *)
(***************************************************************************)
EXTENDS GsNet

CONSTANTS Me,           \* the car this machine drives
          Said,         \* the two runs a datagram may carry: <<promise, reveal>>
          Claimed,      \* the ticks it may claim to have confirmed
          LastPeerTick  \* bound: no tick is simulated past this one

ASSUME PeerAssumption ==
    /\ Me \in Player
    /\ LastPeerTick \in Nat
    /\ Claimed \subseteq Nat
    /\ \A said \in Said : \A i \in {1, 2} :
          /\ DOMAIN said[i] \subseteq Nat
          /\ \A t \in DOMAIN said[i] : said[i][t] \in Input

VARIABLE mine
peerVars == <<mine>>

PeerInit == mine = Begin(Me)

\* One tick of the race loop.
Tick ==
    /\ mine.localTick < LastPeerTick
    /\ \E input \in Input : mine' = Step(LocalInput(mine, input))

\* A datagram from anybody, about any ticks, whose hash is right or is not.
Hear ==
    \E from \in Player, said \in Said, tick \in Claimed :
    \E hash \in {mine.hash[Slot(tick)], NoHash} :
        mine' = Receive(mine, [from |-> from, promise |-> said[1], reveal |-> said[2],
                            tick |-> tick, hash |-> hash])

PeerNext == Tick \/ Hear

PeerSpec == PeerInit /\ [][PeerNext]_peerVars

-----------------------------------------------------------------------------
TypeOK == Typed(mine) /\ mine.me = Me

\* The window is the whole of the machine's ability to be wrong, and no datagram
\* takes a slot away from a tick that may still have to be replayed: every
\* unconfirmed tick is held, with this machine's own input for it.
WindowHeld == Held(mine)

\* Every slot holds a tick that belongs there, inside the window or before it.
RingSound == Sound(mine)

\* Every input of a peer that is held is one that peer promised, and the promise is
\* held with it.
NothingUnpromised == Proven(mine)

\* What is on screen is the agreed race followed by the guesses made since, and
\* nothing else: no correction is lost, no tick replayed twice or skipped.
VisibleIsReplay ==
    ~mine.cheated => \A t \in 0 .. mine.localTick - 1 :
        mine.current[t] = IF t < mine.confirmedTick THEN mine.confirmed[t] ELSE mine.used[Slot(t)]

\* No guess that is known to be wrong is left standing in the race on screen.
NoStaleGuess ==
    ~mine.cheated => \A t \in Unconfirmed(mine) : \A p \in mine.known[Slot(t)] :
        mine.used[Slot(t)][p] = mine.in[Slot(t)][p]

\* Within a window of the confirmed tick, the hash kept for a tick is the hash of
\* the agreed race at that tick: the state a peer's claim is compared with, and
\* the one written into the recording.
HashRingSound ==
    \A k \in 0 .. mine.confirmedTick : mine.confirmedTick - k < Window =>
        mine.hash[Slot(k)] = [t \in 0 .. k - 1 |-> mine.confirmed[t]]

\* The agreed race only moves forwards: whatever arrives, no tick of it is ever
\* taken back or changed.
ConfirmedOnlyGrows ==
    [][/\ mine'.confirmedTick >= mine.confirmedTick
       /\ \A t \in 0 .. mine.confirmedTick - 1 : mine'.confirmed[t] = mine.confirmed[t]]_peerVars

\* No input of a peer is taken before its promise: what a datagram adds was promised
\* by an earlier one, never by the one that proves it.
PromisedFirst ==
    [][\A t \in mine.confirmedTick .. mine.confirmedTick + Window - 1 :
       \A p \in Player \ {Me} :
        Known(mine', t, p) /\ ~Known(mine, t, p) =>
            Promised(mine, t, p) /\ mine'.in[Slot(t)][p] = mine.promise[Slot(t)][p]]_peerVars

\* The first word on a tick is the last one, anybody's: while a tick is still to be
\* confirmed, no promise and no input already held for it changes or is dropped.
FirstWordStands ==
    [][\A t \in mine'.confirmedTick .. mine.confirmedTick + Window - 1 : \A p \in Player :
        /\ Promised(mine, t, p) => /\ Promised(mine', t, p)
                                   /\ mine'.promise[Slot(t)][p] = mine.promise[Slot(t)][p]
        /\ Known(mine, t, p)    => /\ Known(mine', t, p)
                                   /\ mine'.in[Slot(t)][p] = mine.in[Slot(t)][p]]_peerVars
=============================================================================
