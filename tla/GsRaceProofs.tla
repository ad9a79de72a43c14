---------------------------- MODULE GsRaceProofs ----------------------------
(***************************************************************************)
(* Proofs about a networked race (GsRace), for every window, every set of  *)
(* inputs, and whatever is lost, late, repeated or overtaken; and before   *)
(* it about one machine's session (GsPeer), whatever the peers say: a step *)
(* of the machine is a tick of the race loop or a datagram heard, and what *)
(* each of these keeps is a lemma of GsNetProofs.                          *)
(*                                                                         *)
(* For any number of machines: every session keeps the two invariants of   *)
(* GsNetProofs, and what a machine writes down is its agreed race.         *)
(*                                                                         *)
(* For two machines: nobody is accused, no hash disagrees, and the race    *)
(* implements GsAgreedRace.  With three it is false, as the run `accused`  *)
(* shows, and the proof says where the second of two is needed: a machine  *)
(* reads its own inputs out of the ring by slot number alone, and a slot   *)
(* may by then hold a later tick, of a peer who is far ahead.  If that     *)
(* peer is the one the datagram goes to, the peer has long agreed the tick *)
(* that was read wrongly and does not look at it; a third machine may be   *)
(* far behind, and does.                                                   *)
(***************************************************************************)
EXTENDS GsRace, GsPeer, GsNetProofs, FiniteSetTheorems

-----------------------------------------------------------------------------
(* One session *)

\* Every datagram that can arrive here has the shape the lemmas assume.
LEMMA HearsShaped ==
  ASSUME NEW from \in Player, NEW said \in Said, NEW tick, NEW hash
  PROVE  Shaped([from |-> from, promise |-> said[1], reveal |-> said[2],
                 tick |-> tick, hash |-> hash])
  BY PeerAssumption DEF Shaped

\* Every step of the machine keeps the invariant and what the action properties say.
LEMMA StepKeepsGood ==
  ASSUME Good(mine), [PeerNext]_peerVars
  PROVE  /\ Good(mine') /\ mine'.me = mine.me
         /\ Keeps(mine, mine') /\ Grows(mine, mine') /\ Earned(mine, mine')
<1>1. CASE Tick
  <2>1. PICK input \in Input : mine' = Step(LocalInput(mine, input))
    BY <1>1 DEF Tick
  <2>2. QED
    BY <2>1, TickGood
<1>2. CASE Hear
  <2>1. PICK from \in Player, said \in Said, tick \in Claimed : \E hash :
           mine' = Receive(mine, [from |-> from, promise |-> said[1], reveal |-> said[2],
                                  tick |-> tick, hash |-> hash])
    BY <1>2 DEF Hear
  <2>2. QED
    BY <2>1, HearsShaped, ReceiveGood
<1>3. CASE UNCHANGED peerVars
  <2>1. mine' = mine
    BY <1>3 DEF peerVars
  <2>2. mine.confirmedTick \in Nat
    BY DEF Good, Typed
  <2>3. Good(mine')
    BY <2>1
  <2>4. QED
    BY <2>1, <2>2, <2>3 DEF Keeps, Grows, Earned
<1>4. QED
  BY <1>1, <1>2, <1>3 DEF PeerNext

\* The inductive invariant holds of every session, for every window, every set of
\* players and inputs, and whatever the peers say.
THEOREM SessionIsGood == PeerSpec => [](Good(mine) /\ mine.me = Me)
<1>1. PeerInit => Good(mine) /\ mine.me = Me
  BY BeginGood, PeerAssumption DEF PeerInit
<1>2. Good(mine) /\ mine.me = Me /\ [PeerNext]_peerVars => (Good(mine) /\ mine.me = Me)'
  BY StepKeepsGood
<1>3. QED
  BY <1>1, <1>2, PTL DEF PeerSpec

\* Every field of struct gs_net keeps its type.
THEOREM TypeCorrect == PeerSpec => []TypeOK
<1>1. Good(mine) /\ mine.me = Me => TypeOK
  BY DEF Good, TypeOK
<1>2. QED
  BY <1>1, SessionIsGood, PTL

\* No session is ever further ahead of the agreed race than its window can hold, and
\* no datagram takes the slot of a tick that may still have to be replayed.
THEOREM WindowAlwaysHeld == PeerSpec => []WindowHeld
<1>1. Good(mine) => WindowHeld
  BY DEF Good, WindowHeld
<1>2. QED
  BY <1>1, SessionIsGood, PTL

\* No slot holds a tick that does not belong there or lies beyond the window.
THEOREM RingAlwaysSound == PeerSpec => []RingSound
<1>1. Good(mine) => RingSound
  BY DEF Good, RingSound
<1>2. QED
  BY <1>1, SessionIsGood, PTL

\* No input of a peer is held without the promise it matches.
THEOREM NothingTakenUnpromised == PeerSpec => []NothingUnpromised
<1>1. Good(mine) => NothingUnpromised
  BY DEF Good, NothingUnpromised
<1>2. QED
  BY <1>1, SessionIsGood, PTL

\* No tick of the agreed race is ever taken back or changed.
THEOREM AgreedRaceOnlyGrows == PeerSpec => ConfirmedOnlyGrows
<1>1. Good(mine) /\ [PeerNext]_peerVars =>
        [/\ mine'.confirmedTick >= mine.confirmedTick
         /\ \A t \in 0 .. mine.confirmedTick - 1 : mine'.confirmed[t] = mine.confirmed[t]]_peerVars
  BY StepKeepsGood DEF Grows
<1>2. QED
  BY <1>1, SessionIsGood, PTL DEF PeerSpec, ConfirmedOnlyGrows

\* What a datagram adds was promised by an earlier one.
THEOREM PromiseComesFirst == PeerSpec => PromisedFirst
<1>1. Good(mine) /\ mine.me = Me /\ [PeerNext]_peerVars =>
        [\A t \in mine.confirmedTick .. mine.confirmedTick + Window - 1 :
         \A p \in Player \ {Me} :
           Known(mine', t, p) /\ ~Known(mine, t, p) =>
              Promised(mine, t, p) /\ mine'.in[Slot(t)][p] = mine.promise[Slot(t)][p]]_peerVars
  BY StepKeepsGood DEF Earned
<1>2. QED
  BY <1>1, SessionIsGood, PTL DEF PeerSpec, PromisedFirst

\* No promise and no input held for a tick still to be agreed changes or is dropped.
THEOREM FirstWordAlwaysStands == PeerSpec => FirstWordStands
<1>1. ASSUME Good(mine), [PeerNext]_peerVars
      PROVE  \A t \in mine'.confirmedTick .. mine.confirmedTick + Window - 1 : \A p \in Player :
        /\ Promised(mine, t, p) => /\ Promised(mine', t, p)
                                   /\ mine'.promise[Slot(t)][p] = mine.promise[Slot(t)][p]
        /\ Known(mine, t, p)    => /\ Known(mine', t, p)
                                   /\ mine'.in[Slot(t)][p] = mine.in[Slot(t)][p]
  <2>1. /\ Keeps(mine, mine') /\ Grows(mine, mine')
        /\ mine.confirmedTick \in Nat /\ mine'.confirmedTick \in Nat /\ Window \in Nat
    BY <1>1, StepKeepsGood, NetAssumption DEF Good, Typed
  <2>2. \A t \in mine'.confirmedTick .. mine.confirmedTick + Window - 1 :
           t \in mine.confirmedTick .. mine.confirmedTick + Window - 1
    BY <2>1 DEF Grows
  <2>3. QED
    BY <2>1, <2>2 DEF Keeps
<1>2. Good(mine) /\ [PeerNext]_peerVars =>
        [\A t \in mine'.confirmedTick .. mine.confirmedTick + Window - 1 : \A p \in Player :
           /\ Promised(mine, t, p) => /\ Promised(mine', t, p)
                                      /\ mine'.promise[Slot(t)][p] = mine.promise[Slot(t)][p]
           /\ Known(mine, t, p)    => /\ Known(mine', t, p)
                                      /\ mine'.in[Slot(t)][p] = mine.in[Slot(t)][p]]_peerVars
  BY <1>1
<1>3. QED
  BY <1>2, SessionIsGood, PTL DEF PeerSpec, FirstWordStands

\* Both invariants hold of every session.
THEOREM SessionReplays == PeerSpec => [](Good(mine) /\ Replays(mine))
<1>1. PeerInit => Good(mine) /\ Replays(mine)
  BY BeginGood, BeginReplays, PeerAssumption DEF PeerInit
<1>2. ASSUME Good(mine), Replays(mine), [PeerNext]_peerVars
      PROVE  Good(mine') /\ Replays(mine')
  <2>1. Good(mine')
    BY <1>2, StepKeepsGood
  <2>2. CASE Tick
    <3>1. PICK input \in Input : mine' = Step(LocalInput(mine, input))
      BY <2>2 DEF Tick
    <3>2. QED
      BY <1>2, <2>1, <3>1, TickReplays
  <2>3. CASE Hear
    <3>1. PICK from \in Player, said \in Said, tick \in Claimed : \E hash :
             mine' = Receive(mine, [from |-> from, promise |-> said[1], reveal |-> said[2],
                                    tick |-> tick, hash |-> hash])
      BY <2>3 DEF Hear
    <3>2. QED
      BY <1>2, <2>1, <3>1, HearsShaped, ReceiveReplays
  <2>4. CASE UNCHANGED peerVars
    BY <1>2, <2>1, <2>4 DEF peerVars
  <2>5. QED
    BY <1>2, <2>1, <2>2, <2>3, <2>4 DEF PeerNext
<1>3. Good(mine) /\ Replays(mine) /\ [PeerNext]_peerVars => (Good(mine) /\ Replays(mine))'
  BY <1>2
<1>4. QED
  BY <1>1, <1>3, PTL DEF PeerSpec

\* The race on screen is always the agreed race and the guesses since, replayed.
THEOREM VisibleAlwaysReplay == PeerSpec => []VisibleIsReplay
<1>1. Replays(mine) => VisibleIsReplay
  BY DEF Replays, Shows, VisibleIsReplay
<1>2. QED
  BY <1>1, SessionReplays, PTL

\* No guess that is known to be wrong is left standing.
THEOREM NeverStaleGuess == PeerSpec => []NoStaleGuess
<1>1. Replays(mine) => NoStaleGuess
  BY DEF Replays, Fresh, NoStaleGuess
<1>2. QED
  BY <1>1, SessionReplays, PTL

\* Every hash within a window of the frontier is the hash of the agreed race there.
THEOREM HashRingAlwaysSound == PeerSpec => []HashRingSound
<1>1. Replays(mine) => HashRingSound
  BY DEF Replays, Hashed, HashRingSound
<1>2. QED
  BY <1>1, SessionReplays, PTL

-----------------------------------------------------------------------------
(* A race *)

\* No three machines are different.
TwoMachines == \A p, q, r \in Player : p = q \/ q = r \/ p = r

\* The inputs D, per machine, as the race they make up to tick k.
RaceOf(D, k) == [t \in 0 .. k - 1 |-> [p \in Player |-> D[p][t + 1]]]

\* What s knows, and what it was promised, is what was driven.
Truthful(s, D) ==
  \A t \in Nat : \A p \in Player :
     /\ Known(s, t, p)    => t < Len(D[p]) /\ s.in[Slot(t)][p] = D[p][t + 1]
     /\ Promised(s, t, p) => t < Len(D[p]) /\ s.promise[Slot(t)][p] = D[p][t + 1]

\* Of the machine's own ticks: a slot that does not hold one holds a later tick.
OwnHeld(s, D) ==
  \A t \in 0 .. Len(D[s.me]) - 1 :
     s.stamp[Slot(t)] >= t /\ (Live(s, t) => Known(s, t, s.me))

\* No slot holds a tick that nobody has driven.
NotAhead(s, D) ==
  \A k \in Slots : s.stamp[k] # NoTick => \E p \in Player : s.stamp[k] < Len(D[p])

\* The agreed race is the one that was driven, as far as everybody has driven it.
AgreesWith(s, D) ==
  /\ \A p \in Player : s.confirmedTick <= Len(D[p])
  /\ s.confirmed = RaceOf(D, s.confirmedTick)

\* What a session is while everybody keeps to the protocol.
Honest(s, D) ==
  /\ Len(D[s.me]) = End(s)
  /\ Truthful(s, D) /\ OwnHeld(s, D) /\ NotAhead(s, D) /\ AgreesWith(s, D)
  /\ ~s.cheated /\ ~s.desynced

\* What d says is what was driven, as far as s still looks at it.
Faithful(d, s, D) ==
  /\ Shaped(d)
  /\ \A t \in DOMAIN d.promise :
        t < Len(D[d.from]) /\ (t >= s.confirmedTick => d.promise[t] = D[d.from][t + 1])
  /\ \A t \in DOMAIN d.reveal :
        t < Len(D[d.from]) /\ (t >= s.confirmedTick => d.reveal[t] = D[d.from][t + 1])
  /\ d.tick \in Nat /\ \A p \in Player : d.tick <= Len(D[p])
  /\ d.hash = RaceOf(D, d.tick)

-----------------------------------------------------------------------------
(* What a call does to the ring, slot by slot. *)

\* Every slot is stamped with a tick of T, or is as it was.
Ages(s, r, T) ==
  \A k \in Slots :
     \/ r.stamp[k] \in T
     \/ /\ r.stamp[k] = s.stamp[k] /\ r.known[k] = s.known[k]
        /\ r.committed[k] = s.committed[k]
        /\ r.in[k] = s.in[k] /\ r.promise[k] = s.promise[k]

\* Claiming slots ages them and touches no other.
LEMMA ClaimAges ==
  ASSUME NEW s, Good(s), NEW T, InRange(s, T), NEW r, r = Claim(s, T)
  PROVE  Ages(s, r, T)
<1> SUFFICES ASSUME NEW k \in Slots, r.stamp[k] \notin T
             PROVE  /\ r.stamp[k] = s.stamp[k] /\ r.known[k] = s.known[k]
                    /\ r.committed[k] = s.committed[k]
                    /\ r.in[k] = s.in[k] /\ r.promise[k] = s.promise[k]
  BY DEF Ages
<1>1. \A t \in T : Slot(t) # k
  BY ClaimRing DEF Good
<1>2. QED
  BY <1>1, ClaimRing DEF Good

\* The pad's word writes to the slot of the tick to come, and to no other.
LEMMA LocalInputAges ==
  ASSUME NEW s, Good(s), NEW input \in Input, NEW r, r = LocalInput(s, input)
  PROVE  /\ InRange(s, {s.localTick}) /\ Ages(s, r, {s.localTick})
         /\ ~Known(s, s.localTick, s.me) => r.in[Slot(s.localTick)][s.me] = input
         /\ \A t \in Nat : \A p \in Player : Promised(r, t, p) => Promised(s, t, p)
<1> DEFINE k == Slot(s.localTick)
<1>1. /\ s.localTick \in Nat /\ s.confirmedTick \in Nat /\ InRange(s, {s.localTick})
      /\ k \in Slots /\ s.me \in Player
  BY SlotType, NetAssumption DEF Good, Typed, Held, InRange
<1>2. PICK c : c = Claim(s, {s.localTick})
  OBVIOUS
<1>3. Ages(s, c, {s.localTick}) /\ c.stamp[k] = s.localTick /\ Typed(c) /\ AddsNothing(s, c)
  BY <1>1, <1>2, ClaimAges, ClaimRing, ClaimKeeps DEF Good
<1> HIDE DEF k
<1>4. r = IF s.me \in c.known[k] THEN c
          ELSE [c EXCEPT !.in = [c.in EXCEPT ![k] = [c.in[k] EXCEPT ![s.me] = input]],
                         !.known = [c.known EXCEPT ![k] = c.known[k] \cup {s.me}]]
  <2>1. c.me = s.me
    BY <1>1, <1>2, ClaimRing DEF Good, SameBut
  <2>2. QED
    BY <1>2, <2>1 DEF LocalInput, k
<1>5. CASE s.me \in c.known[k]
  <2>1. Known(s, s.localTick, s.me)
    BY <1>1, <1>3, <1>5 DEF AddsNothing, Known, Live, k
  <2>2. QED
    BY <1>1, <1>3, <1>4, <1>5, <2>1 DEF AddsNothing
<1>6. CASE s.me \notin c.known[k]
  <2>1. /\ r.in = [c.in EXCEPT ![k] = [c.in[k] EXCEPT ![s.me] = input]]
        /\ r.known = [c.known EXCEPT ![k] = c.known[k] \cup {s.me}]
        /\ r.stamp = c.stamp /\ r.committed = c.committed /\ r.promise = c.promise
    BY <1>3, <1>4, <1>6 DEF Typed, IsSession
  <2>2. r.in[k][s.me] = input /\ \A j \in Slots \ {k} : r.in[j] = c.in[j] /\ r.known[j] = c.known[j]
    BY <1>1, <1>3, <2>1 DEF Typed, Vector
  <2>3. Ages(s, r, {s.localTick})
    BY <1>1, <1>3, <2>1, <2>2 DEF Ages
  <2>4. \A t \in Nat : \A p \in Player : Promised(r, t, p) => Promised(s, t, p)
    BY <1>3, <2>1 DEF AddsNothing, Promised, Live
  <2>5. QED
    BY <1>1, <2>2, <2>3, <2>4 DEF k
<1>7. QED
  BY <1>5, <1>6

\* The promises heard write to the slots of the ticks they are due for, and break none
\* unless one was already there and different.
LEMMA HearPromisesAges ==
  ASSUME NEW s, Good(s), NEW d, Shaped(d), NEW r, r = HearPromises(s, d)
  PROVE  /\ InRange(s, PromisesDue(s, d)) /\ Ages(s, r, PromisesDue(s, d))
         /\ r.cheated = \E t \in PromisesDue(s, d) :
               Promised(s, t, d.from) /\ s.promise[Slot(t)][d.from] # d.promise[t]
<1> DEFINE due == PromisesDue(s, d)
           broken(t) == Promised(s, t, d.from) /\ s.promise[Slot(t)][d.from] # d.promise[t]
           heard == {t \in due : \A u \in due : broken(u) => t < u}
<1>1. /\ InRange(s, due) /\ heard \subseteq due
  BY NetAssumption DEF Good, Typed, PromisesDue, Shaped, InRange, InWindow
<1>2. InRange(s, heard)
  BY <1>1 DEF InRange
<1>3. PICK c : c = Claim(s, heard)
  OBVIOUS
<1>4. Ages(s, c, heard) /\ Typed(c)
  BY <1>2, <1>3, ClaimAges, ClaimRing DEF Good
<1> DEFINE new(k) == c.stamp[k] \in heard /\ d.from \notin c.committed[k]
           committed == [k \in Slots |-> IF new(k) THEN c.committed[k] \cup {d.from}
                                                   ELSE c.committed[k]]
           promise == [k \in Slots |-> IF new(k)
                           THEN [c.promise[k] EXCEPT ![d.from] = d.promise[c.stamp[k]]]
                           ELSE c.promise[k]]
           cheated == \E t \in due : broken(t)
<1>5. r = [c EXCEPT !.committed = committed, !.promise = promise, !.cheated = cheated]
  BY <1>3 DEF HearPromises
<1>6. \A k \in Slots : c.stamp[k] \notin heard =>
          committed[k] = c.committed[k] /\ promise[k] = c.promise[k]
  OBVIOUS
<1> HIDE DEF committed, promise, cheated, due, new, heard
<1>7. /\ r.committed = committed /\ r.promise = promise /\ r.cheated = cheated
      /\ r.stamp = c.stamp /\ r.known = c.known /\ r.in = c.in
  BY <1>4, <1>5 DEF Typed, IsSession
<1>8. Ages(s, r, due)
  BY <1>1, <1>4, <1>6, <1>7 DEF Ages
<1>9. QED
  BY <1>1, <1>7, <1>8 DEF due, cheated

\* The proofs heard write to the slots of the ticks they are due for.
LEMMA HearRevealsAges ==
  ASSUME NEW s, Good(s), NEW d, Shaped(d), NEW r, r = HearReveals(s, d)
  PROVE  /\ InRange(s, RevealsDue(s, d)) /\ Ages(s, r, RevealsDue(s, d))
         /\ r.cheated = \E t \in RevealsDue(s, d) : BrokenPromise(s, d, t)
<1> DEFINE due == RevealsDue(s, d)
           heard == RevealsHeard(s, d)
           accepted == Accepted(s, d)
<1>1. InRange(s, due) /\ heard \subseteq due /\ accepted \subseteq heard
  BY NetAssumption DEF Good, Typed, RevealsDue, RevealsHeard, Accepted, Shaped, InRange, InWindow
<1>2. InRange(s, heard)
  BY <1>1 DEF InRange
<1>3. PICK c : c = Claim(s, heard)
  OBVIOUS
<1>4. Ages(s, c, heard) /\ Typed(c)
  BY <1>2, <1>3, ClaimAges, ClaimRing DEF Good
<1> DEFINE in == [k \in Slots |-> IF c.stamp[k] \in accepted
                         THEN [c.in[k] EXCEPT ![d.from] = d.reveal[c.stamp[k]]]
                         ELSE c.in[k]]
           known == [k \in Slots |-> IF c.stamp[k] \in accepted
                         THEN c.known[k] \cup {d.from} ELSE c.known[k]]
           cheated == \E t \in due : BrokenPromise(s, d, t)
<1>5. r = [c EXCEPT !.in = in, !.known = known, !.cheated = cheated]
  BY <1>3 DEF HearReveals
<1>6. \A k \in Slots : c.stamp[k] \notin heard => in[k] = c.in[k] /\ known[k] = c.known[k]
  BY <1>1
<1> HIDE DEF in, known, cheated, due, heard, accepted
<1>7. /\ r.in = in /\ r.known = known /\ r.cheated = cheated
      /\ r.stamp = c.stamp /\ r.committed = c.committed /\ r.promise = c.promise
  BY <1>4, <1>5 DEF Typed, IsSession
<1>8. Ages(s, r, due)
  BY <1>1, <1>4, <1>6, <1>7 DEF Ages
<1>9. QED
  BY <1>1, <1>7, <1>8 DEF due, cheated

\* A slot that changes hands goes to a later tick.
LEMMA AgesRises ==
  ASSUME NEW s, Good(s), NEW r, Good(r), NEW T, InRange(s, T), Ages(s, r, T),
         NEW k \in Slots, s.stamp[k] # NoTick
  PROVE  r.stamp[k] # NoTick /\ r.stamp[k] >= s.stamp[k]
<1>1. /\ s.stamp[k] \in Nat /\ s.confirmedTick \in Nat /\ Window \in Nat
      /\ Slot(s.stamp[k]) = k /\ s.stamp[k] < s.confirmedTick + Window
  BY NetAssumption DEF Good, Typed, Sound
<1>2. CASE r.stamp[k] \in T
  <2>1. r.stamp[k] \in s.confirmedTick .. s.confirmedTick + Window - 1
    BY <1>2 DEF InRange
  <2>2. r.stamp[k] # NoTick /\ r.stamp[k] \in Nat
    BY <1>1, <2>1 DEF NoTick
  <2>3. Slot(r.stamp[k]) = k
    BY <2>2 DEF Good, Sound
  <2>4. s.stamp[k] >= s.confirmedTick => s.stamp[k] = r.stamp[k]
    BY <1>1, <2>1, <2>3, SlotOnly
  <2>5. QED
    BY <1>1, <2>1, <2>2, <2>4
<1>3. CASE r.stamp[k] \notin T
  BY <1>1, <1>3 DEF Ages
<1>4. QED
  BY <1>2, <1>3
-----------------------------------------------------------------------------
(* What was driven only grows, and what was true of less of it is true of more. *)

Drives(D) == D \in [Player -> Seq(Input)]

\* E is D and what was driven since.
Extends(D, E) ==
  /\ Drives(D) /\ Drives(E)
  /\ \A p \in Player : /\ Len(D[p]) <= Len(E[p])
                       /\ \A i \in 1 .. Len(D[p]) : E[p][i] = D[p][i]

\* What everybody has driven does not change.
LEMMA ExtendsRace ==
  ASSUME NEW D, NEW E, Extends(D, E), NEW k \in Nat, \A p \in Player : k <= Len(D[p])
  PROVE  RaceOf(E, k) = RaceOf(D, k) /\ \A p \in Player : k <= Len(E[p])
<1>1. ASSUME NEW p \in Player
      PROVE  Len(D[p]) \in Nat /\ Len(E[p]) \in Nat /\ Len(D[p]) <= Len(E[p])
  BY DEF Extends, Drives
<1>2. ASSUME NEW t \in 0 .. k - 1, NEW p \in Player
      PROVE  E[p][t + 1] = D[p][t + 1]
  <2>1. t + 1 \in 1 .. Len(D[p])
    BY <1>1
  <2>2. QED
    BY <2>1 DEF Extends
<1>3. RaceOf(E, k) = RaceOf(D, k)
  BY <1>2 DEF RaceOf
<1>4. QED
  BY <1>1, <1>3

\* One tick of one player, among what was driven.
LEMMA ExtendsTick ==
  ASSUME NEW D, NEW E, Extends(D, E), NEW p \in Player, NEW t \in Nat, t < Len(D[p])
  PROVE  t < Len(E[p]) /\ E[p][t + 1] = D[p][t + 1]
<1>1. Len(D[p]) \in Nat /\ Len(E[p]) \in Nat /\ Len(D[p]) <= Len(E[p])
  BY DEF Extends, Drives
<1>2. t + 1 \in 1 .. Len(D[p])
  BY <1>1
<1>3. QED
  BY <1>1, <1>2 DEF Extends

\* A session is as honest when others have driven further.
LEMMA ExtendsHonest ==
  ASSUME NEW s, Good(s), NEW D, NEW E, Extends(D, E), Honest(s, D)
  PROVE  /\ Truthful(s, E) /\ NotAhead(s, E) /\ AgreesWith(s, E)
         /\ E[s.me] = D[s.me] => Honest(s, E)
<1>1. s.confirmedTick \in Nat /\ s.stamp \in [Slots -> Nat \cup {NoTick}]
  BY DEF Good, Typed
<1>2. Truthful(s, E)
  <2> SUFFICES ASSUME NEW t \in Nat, NEW p \in Player
               PROVE  /\ Known(s, t, p)    => t < Len(E[p]) /\ s.in[Slot(t)][p] = E[p][t + 1]
                      /\ Promised(s, t, p) => t < Len(E[p]) /\ s.promise[Slot(t)][p] = E[p][t + 1]
    BY DEF Truthful
  <2>1. /\ Known(s, t, p)    => t < Len(D[p]) /\ s.in[Slot(t)][p] = D[p][t + 1]
        /\ Promised(s, t, p) => t < Len(D[p]) /\ s.promise[Slot(t)][p] = D[p][t + 1]
    BY DEF Honest, Truthful
  <2>2. t < Len(D[p]) => t < Len(E[p]) /\ E[p][t + 1] = D[p][t + 1]
    BY ExtendsTick
  <2>3. QED
    BY <2>1, <2>2
<1>3. NotAhead(s, E)
  <2> SUFFICES ASSUME NEW k \in Slots, s.stamp[k] # NoTick
               PROVE  \E p \in Player : s.stamp[k] < Len(E[p])
    BY DEF NotAhead
  <2>1. PICK p \in Player : s.stamp[k] < Len(D[p])
    BY DEF Honest, NotAhead
  <2>2. s.stamp[k] \in Nat
    BY <1>1
  <2>3. QED
    BY <2>1, <2>2, ExtendsTick
<1>4. AgreesWith(s, E)
  BY <1>1, ExtendsRace DEF Honest, AgreesWith
<1>5. E[s.me] = D[s.me] => Honest(s, E)
  BY <1>2, <1>3, <1>4 DEF Honest, OwnHeld
<1>6. QED
  BY <1>2, <1>3, <1>4, <1>5

\* A datagram stays as faithful to one who has agreed more since.
LEMMA ExtendsFaithful ==
  ASSUME NEW s, NEW r, s.confirmedTick \in Nat, r.confirmedTick \in Nat,
         r.confirmedTick >= s.confirmedTick,
         NEW D, NEW E, Extends(D, E), NEW d, Faithful(d, s, D)
  PROVE  Faithful(d, r, E)
<1>1. Shaped(d) /\ d.from \in Player /\ DOMAIN d.promise \subseteq Nat /\ DOMAIN d.reveal \subseteq Nat
  BY DEF Faithful, Shaped
<1>2. ASSUME NEW t \in DOMAIN d.promise
      PROVE  t < Len(E[d.from]) /\ (t >= r.confirmedTick => d.promise[t] = E[d.from][t + 1])
  <2>1. t \in Nat /\ t < Len(D[d.from])
        /\ (t >= s.confirmedTick => d.promise[t] = D[d.from][t + 1])
    BY <1>1, <1>2 DEF Faithful
  <2>2. QED
    BY <1>1, <2>1, ExtendsTick
<1>3. ASSUME NEW t \in DOMAIN d.reveal
      PROVE  t < Len(E[d.from]) /\ (t >= r.confirmedTick => d.reveal[t] = E[d.from][t + 1])
  <2>1. t \in Nat /\ t < Len(D[d.from])
        /\ (t >= s.confirmedTick => d.reveal[t] = D[d.from][t + 1])
    BY <1>1, <1>3 DEF Faithful
  <2>2. QED
    BY <1>1, <2>1, ExtendsTick
<1>4. /\ d.tick \in Nat /\ \A p \in Player : d.tick <= Len(E[p])
      /\ d.hash = RaceOf(E, d.tick)
  BY ExtendsRace DEF Faithful
<1>5. QED
  BY <1>1, <1>2, <1>3, <1>4 DEF Faithful

-----------------------------------------------------------------------------
(* An honest session stays honest. *)

\* A call that only writes to the ring, and there only to slots of ticks of T.
Hears(s, r, T) ==
  /\ Good(s) /\ Good(r) /\ Keeps(s, r) /\ SameBut(s, r)
  /\ InRange(s, T) /\ Ages(s, r, T)

\* What is held before and after is the same.
LEMMA HearsSame ==
  ASSUME NEW s, NEW r, NEW T, Hears(s, r, T), NEW t \in Nat, NEW p \in Player
  PROVE  /\ Known(s, t, p) /\ Known(r, t, p) => r.in[Slot(t)][p] = s.in[Slot(t)][p]
         /\ Promised(s, t, p) /\ Promised(r, t, p) =>
               r.promise[Slot(t)][p] = s.promise[Slot(t)][p]
<1>1. Slot(t) \in Slots
  BY SlotType
<1>2. CASE t \in T
  <2>1. t \in s.confirmedTick .. s.confirmedTick + Window - 1
    BY <1>2 DEF Hears, InRange
  <2>2. QED
    BY <2>1 DEF Hears, Keeps
<1>3. CASE t \notin T
  BY <1>1, <1>3 DEF Hears, Ages, Known, Promised, Live
<1>4. QED
  BY <1>2, <1>3

\* A machine that has its own ticks has them after it has heard from another.
LEMMA HearsOwn ==
  ASSUME NEW s, NEW r, NEW T, Hears(s, r, T),
         NEW D, Len(D[s.me]) = End(s), OwnHeld(s, D)
  PROVE  OwnHeld(r, D)
<1>1. /\ s.confirmedTick \in Nat /\ s.localTick \in Nat /\ Window \in Nat /\ s.me \in Player
      /\ s.localTick - s.confirmedTick < Window /\ s.confirmedTick <= s.localTick
      /\ r.me = s.me /\ r.stamp \in [Slots -> Nat \cup {NoTick}]
      /\ s.stamp \in [Slots -> Nat \cup {NoTick}]
  BY NetAssumption DEF Hears, Good, Typed, Held, SameBut
<1> SUFFICES ASSUME NEW t \in 0 .. Len(D[s.me]) - 1
             PROVE  r.stamp[Slot(t)] >= t /\ (Live(r, t) => Known(r, t, s.me))
  BY <1>1 DEF OwnHeld
<1>2. t \in Nat /\ t < End(s) /\ Slot(t) \in Slots
  BY <1>1, SlotType DEF End
<1>3. s.stamp[Slot(t)] >= t /\ (Live(s, t) => Known(s, t, s.me))
  BY DEF OwnHeld
<1>4. r.stamp[Slot(t)] >= t
  <2>1. s.stamp[Slot(t)] # NoTick
    BY <1>1, <1>2, <1>3 DEF NoTick
  <2>2. r.stamp[Slot(t)] # NoTick /\ r.stamp[Slot(t)] >= s.stamp[Slot(t)]
    BY <1>2, <2>1, AgesRises DEF Hears
  <2>3. r.stamp[Slot(t)] \in Nat /\ s.stamp[Slot(t)] \in Nat
    BY <1>1, <1>2, <2>1, <2>2
  <2>4. QED
    BY <1>2, <1>3, <2>2, <2>3
<1>5. ASSUME Live(r, t) PROVE Known(r, t, s.me)
  <2>1. CASE t \in T
    <3>1. t \in s.confirmedTick .. s.confirmedTick + Window - 1
      BY <2>1 DEF Hears, InRange
    <3>2. Known(s, t, s.me)
      <4>1. CASE t < s.localTick
        BY <1>1, <3>1, <4>1 DEF Hears, Good, Held, Unconfirmed
      <4>2. CASE ~(t < s.localTick)
        <5>1. t = s.localTick /\ Known(s, s.localTick, s.me)
          BY <1>1, <1>2, <4>2 DEF End
        <5>2. QED
          BY <5>1
      <4>3. QED
        BY <4>1, <4>2
    <3>3. QED
      BY <1>1, <3>1, <3>2 DEF Hears, Keeps
  <2>2. CASE t \notin T
    <3>1. r.stamp[Slot(t)] = t
      BY <1>5 DEF Live
    <3>2. s.stamp[Slot(t)] = t /\ r.known[Slot(t)] = s.known[Slot(t)]
      BY <1>2, <2>2, <3>1 DEF Hears, Ages
    <3>3. QED
      BY <1>3, <1>5, <3>2 DEF Known, Live
  <2>3. QED
    BY <2>1, <2>2
<1>6. QED
  BY <1>4, <1>5

\* No slot is ahead of everybody after a call that claims none that is.
LEMMA HearsNotAhead ==
  ASSUME NEW s, NEW r, NEW T, Hears(s, r, T), NEW D, NotAhead(s, D),
         \A t \in T : \E p \in Player : t < Len(D[p])
  PROVE  NotAhead(r, D)
BY DEF NotAhead, Hears, Ages

\* A machine that hears nothing false stays honest.
LEMMA HearsHonest ==
  ASSUME NEW s, NEW r, NEW T, Hears(s, r, T), NEW D, Drives(D), Honest(s, D),
         \A t \in T : \E p \in Player : t < Len(D[p]), Truthful(r, D), ~r.cheated
  PROVE  Honest(r, D)
<1>1. /\ s.confirmedTick \in Nat /\ s.localTick \in Nat /\ Window \in Nat /\ s.me \in Player
      /\ s.localTick - s.confirmedTick < Window /\ s.confirmedTick <= s.localTick
      /\ SameBut(s, r)
  BY NetAssumption DEF Hears, Good, Typed, Held
<1>2. Len(D[r.me]) = End(r)
  <2>1. Known(s, s.localTick, s.me) => Known(r, s.localTick, s.me)
    BY <1>1 DEF Hears, Keeps
  <2>2. Known(r, s.localTick, s.me) => s.localTick < Len(D[s.me])
    BY <1>1 DEF Truthful
  <2>3. Len(D[s.me]) = IF Known(s, s.localTick, s.me) THEN s.localTick + 1 ELSE s.localTick
    BY DEF Honest, End
  <2>4. Known(r, s.localTick, s.me) <=> Known(s, s.localTick, s.me)
    BY <1>1, <2>1, <2>2, <2>3
  <2>5. QED
    BY <1>1, <2>3, <2>4 DEF SameBut, End
<1>3. OwnHeld(r, D) /\ NotAhead(r, D)
  BY HearsOwn, HearsNotAhead DEF Honest
<1>4. AgreesWith(r, D) /\ ~r.desynced
  BY <1>1 DEF Honest, AgreesWith, SameBut
<1>5. QED
  BY <1>2, <1>3, <1>4 DEF Honest
\* The pad's word keeps a session honest, once it counts as driven.
LEMMA LocalInputHonest ==
  ASSUME NEW s, Good(s), NEW D, Drives(D), Honest(s, D), NEW input \in Input,
         NEW r, r = LocalInput(s, input),
         NEW E, E = [D EXCEPT ![s.me] = IF Known(s, s.localTick, s.me) THEN D[s.me]
                                        ELSE Append(D[s.me], input)]
  PROVE  Extends(D, E) /\ Honest(r, E)
<1> DEFINE me == s.me
           lt == s.localTick
<1>1. /\ s.confirmedTick \in Nat /\ lt \in Nat /\ Window \in Nat /\ me \in Player
      /\ lt - s.confirmedTick < Window /\ s.confirmedTick <= lt
      /\ D[me] \in Seq(Input) /\ Len(D[me]) \in Nat
  BY NetAssumption DEF Good, Typed, Held, Drives
<1>2. /\ Good(r) /\ Keeps(s, r) /\ SameBut(s, r) /\ r.cheated = s.cheated
      /\ Known(r, lt, me)
      /\ \A t \in Nat : \A p \in Player \ {me} : Known(r, t, p) => Known(s, t, p)
  BY LocalInputGood
<1>3. /\ InRange(s, {lt}) /\ Ages(s, r, {lt})
      /\ ~Known(s, lt, me) => r.in[Slot(lt)][me] = input
      /\ \A t \in Nat : \A p \in Player : Promised(r, t, p) => Promised(s, t, p)
  BY LocalInputAges
<1>4. Hears(s, r, {lt})
  BY <1>2, <1>3 DEF Hears
<1>5. Len(D[me]) = IF Known(s, lt, me) THEN lt + 1 ELSE lt
  BY DEF Honest, End
<1>6. /\ E[me] \in Seq(Input) /\ Len(E[me]) = lt + 1
      /\ \A i \in 1 .. Len(D[me]) : E[me][i] = D[me][i]
      /\ ~Known(s, lt, me) => E[me][lt + 1] = input
  <2>1. E[me] = IF Known(s, lt, me) THEN D[me] ELSE Append(D[me], input)
    BY <1>1 DEF Drives
  <2>2. CASE Known(s, lt, me)
    BY <1>1, <1>5, <2>1, <2>2
  <2>3. CASE ~Known(s, lt, me)
    BY <1>1, <1>5, <2>1, <2>3
  <2>4. QED
    BY <2>2, <2>3
<1>7. \A p \in Player \ {me} : E[p] = D[p]
  BY DEF Drives
<1>8. Extends(D, E)
  <2>1. Drives(E)
    BY <1>1 DEF Drives
  <2>2. ASSUME NEW p \in Player
        PROVE  /\ Len(D[p]) <= Len(E[p])
               /\ \A i \in 1 .. Len(D[p]) : E[p][i] = D[p][i]
    <3>1. CASE p = me
      <4>1. Len(D[me]) <= Len(E[me])
        BY <1>1, <1>5, <1>6
      <4>2. QED
        BY <1>6, <3>1, <4>1
    <3>2. CASE p # me
      <4>1. D[p] \in Seq(Input) /\ E[p] = D[p]
        BY <1>7, <3>2 DEF Drives
      <4>2. QED
        BY <4>1
    <3>3. QED
      BY <3>1, <3>2
  <2>3. QED
    BY <2>1, <2>2 DEF Extends
<1>9. Truthful(s, E) /\ NotAhead(s, E) /\ AgreesWith(s, E)
  BY <1>8, ExtendsHonest
<1>10. Truthful(r, E)
  <2> SUFFICES ASSUME NEW t \in Nat, NEW p \in Player
               PROVE  /\ Known(r, t, p)    => t < Len(E[p]) /\ r.in[Slot(t)][p] = E[p][t + 1]
                      /\ Promised(r, t, p) => t < Len(E[p]) /\ r.promise[Slot(t)][p] = E[p][t + 1]
    BY DEF Truthful
  <2>1. /\ Known(s, t, p)    => t < Len(E[p]) /\ s.in[Slot(t)][p] = E[p][t + 1]
        /\ Promised(s, t, p) => t < Len(E[p]) /\ s.promise[Slot(t)][p] = E[p][t + 1]
    BY <1>9 DEF Truthful
  <2>2. /\ Known(s, t, p) /\ Known(r, t, p) => r.in[Slot(t)][p] = s.in[Slot(t)][p]
        /\ Promised(s, t, p) /\ Promised(r, t, p) =>
               r.promise[Slot(t)][p] = s.promise[Slot(t)][p]
    BY <1>4, HearsSame
  <2>3. Known(r, t, p) /\ ~Known(s, t, p) => p = me /\ t = lt
    <3>1. t # lt => (Known(r, t, p) => Known(s, t, p))
      BY <1>3, SlotType DEF Ages, Known, Live
    <3>2. QED
      BY <1>2, <3>1
  <2>4. Known(r, t, p) /\ ~Known(s, t, p) => t < Len(E[p]) /\ r.in[Slot(t)][p] = E[p][t + 1]
    BY <1>1, <1>3, <1>6, <2>3
  <2>5. Promised(r, t, p) => Promised(s, t, p)
    BY <1>3
  <2>6. QED
    BY <2>1, <2>2, <2>4, <2>5
<1>11. OwnHeld(r, E)
  <2> SUFFICES ASSUME NEW t \in 0 .. Len(E[me]) - 1
               PROVE  r.stamp[Slot(t)] >= t /\ (Live(r, t) => Known(r, t, me))
    BY <1>2 DEF OwnHeld, SameBut
  <2>1. CASE t < Len(D[me])
    <3>1. OwnHeld(r, D)
      BY <1>4, HearsOwn DEF Honest
    <3>2. t \in 0 .. Len(D[me]) - 1
      BY <1>1, <1>6, <2>1
    <3>3. QED
      BY <1>2, <3>1, <3>2 DEF OwnHeld, SameBut
  <2>2. CASE ~(t < Len(D[me]))
    <3>1. t = lt
      BY <1>1, <1>5, <1>6, <2>2
    <3>2. QED
      BY <1>1, <1>2, <3>1 DEF Known, Live
  <2>3. QED
    BY <2>1, <2>2
<1>12. NotAhead(r, E)
  <2>1. \A t \in {lt} : \E p \in Player : t < Len(E[p])
    BY <1>1, <1>6
  <2>2. QED
    BY <1>4, <1>9, <2>1 DEF NotAhead, Hears, Ages
<1>13. Len(E[r.me]) = End(r)
  BY <1>2, <1>6 DEF SameBut, End
<1>14. AgreesWith(r, E) /\ ~r.cheated /\ ~r.desynced
  BY <1>2, <1>9 DEF AgreesWith, SameBut, Honest
<1>15. QED
  BY <1>8, <1>10, <1>11, <1>12, <1>13, <1>14 DEF Honest

\* A call that changes nothing of this leaves a session honest.
LEMMA SameHonest ==
  ASSUME NEW s, NEW r, SameRing(s, r), r.me = s.me, r.localTick = s.localTick,
         r.confirmed = s.confirmed, r.confirmedTick = s.confirmedTick,
         r.cheated = s.cheated, ~r.desynced, NEW D, Honest(s, D)
  PROVE  Honest(r, D)
<1>1. \A t, p : (Known(r, t, p) <=> Known(s, t, p)) /\ (Promised(r, t, p) <=> Promised(s, t, p))
  BY DEF SameRing, Known, Promised, Live
<1>2. End(r) = End(s) /\ Truthful(r, D) /\ OwnHeld(r, D) /\ NotAhead(r, D) /\ AgreesWith(r, D)
  <2>1. End(r) = End(s)
    BY <1>1 DEF End
  <2>2. Truthful(r, D)
    BY <1>1 DEF Honest, Truthful, SameRing
  <2>3. OwnHeld(r, D)
    BY <1>1 DEF Honest, OwnHeld, SameRing, Live
  <2>4. NotAhead(r, D) /\ AgreesWith(r, D)
    BY DEF Honest, NotAhead, AgreesWith, SameRing
  <2>5. QED
    BY <2>1, <2>2, <2>3, <2>4
<1>3. QED
  BY <1>2 DEF Honest

\* What everybody is known to have driven may be agreed.
LEMMA AdvanceHonest ==
  ASSUME NEW s, Good(s), NEW D, Drives(D), Honest(s, D), NEW r, r = AdvanceConfirmed(s)
  PROVE  Honest(r, D)
<1> DEFINE to == Frontier(s)
           c == s.confirmedTick
<1>1. /\ c \in Nat /\ s.localTick \in Nat /\ c <= s.localTick
      /\ s.in \in [Slots -> Vector]
  BY DEF Good, Typed, Held
<1>2. /\ to \in c .. s.localTick
      /\ \A t \in c .. to - 1 : Complete(s, t)
  BY <1>1, FrontierIs
<1>3. /\ SameRing(s, r) /\ r.me = s.me /\ r.localTick = s.localTick
      /\ r.desynced = s.desynced /\ r.cheated = s.cheated
      /\ r.confirmedTick = to /\ r.confirmed = ConfirmedAt(s, to)
  BY AdvanceGood
<1> HIDE DEF to
<1>4. ASSUME NEW t \in c .. to - 1, NEW p \in Player
      PROVE  t < Len(D[p]) /\ s.in[Slot(t)][p] = D[p][t + 1]
  <2>1. t \in Nat /\ Known(s, t, p)
    BY <1>1, <1>2 DEF Complete, Known
  <2>2. QED
    BY <2>1 DEF Honest, Truthful
<1>5. ASSUME NEW p \in Player PROVE to <= Len(D[p])
  <2>1. Len(D[p]) \in Nat /\ c <= Len(D[p])
    <3>1. D[p] \in Seq(Input)
      BY DEF Drives
    <3>2. c <= Len(D[p])
      BY DEF Honest, AgreesWith
    <3>3. QED
      BY <3>1, <3>2
  <2>2. CASE to = c
    BY <2>1, <2>2
  <2>3. CASE to # c
    <3>1. to - 1 \in c .. to - 1
      BY <1>1, <1>2, <2>3
    <3>2. to - 1 < Len(D[p])
      BY <1>4, <3>1
    <3>3. QED
      BY <1>1, <1>2, <2>1, <3>2
  <2>4. QED
    BY <2>2, <2>3
<1>6. ASSUME NEW t \in 0 .. to - 1
      PROVE  (IF t < c THEN s.confirmed[t] ELSE s.in[Slot(t)]) = [p \in Player |-> D[p][t + 1]]
  <2>1. t \in Nat /\ Slot(t) \in Slots
    BY SlotType
  <2>2. CASE t < c
    <3>1. s.confirmed = RaceOf(D, c) /\ t \in 0 .. c - 1
      BY <1>1, <2>1, <2>2 DEF Honest, AgreesWith
    <3>2. s.confirmed[t] = [p \in Player |-> D[p][t + 1]]
      BY <3>1 DEF RaceOf
    <3>3. QED
      BY <2>2, <3>2
  <2>3. CASE ~(t < c)
    <3>1. t \in c .. to - 1 /\ s.in[Slot(t)] \in [Player -> Input]
      BY <1>1, <1>2, <2>1, <2>3 DEF Vector
    <3>2. \A p \in Player : s.in[Slot(t)][p] = D[p][t + 1]
      BY <1>4, <3>1
    <3>3. s.in[Slot(t)] = [p \in Player |-> D[p][t + 1]]
      BY <3>1, <3>2
    <3>4. QED
      BY <2>3, <3>3
  <2>4. QED
    BY <2>2, <2>3
<1>7. AgreesWith(r, D)
  <2>1. r.confirmed = RaceOf(D, to)
    BY <1>3, <1>6 DEF ConfirmedAt, RaceOf
  <2>2. QED
    BY <1>3, <1>5, <2>1 DEF AgreesWith
<1>8. \A t, p : (Known(r, t, p) <=> Known(s, t, p)) /\ (Promised(r, t, p) <=> Promised(s, t, p))
  BY <1>3 DEF SameRing, Known, Promised, Live
<1>9. End(r) = End(s)
  BY <1>3, <1>8 DEF End
<1>10. Truthful(r, D) /\ OwnHeld(r, D) /\ NotAhead(r, D)
  <2>1. Truthful(r, D)
    BY <1>3, <1>8 DEF Honest, Truthful, SameRing
  <2>2. OwnHeld(r, D)
    BY <1>3, <1>8 DEF Honest, OwnHeld, SameRing, Live
  <2>3. NotAhead(r, D)
    BY <1>3 DEF Honest, NotAhead, SameRing
  <2>4. QED
    BY <2>1, <2>2, <2>3
<1>11. QED
  BY <1>3, <1>7, <1>9, <1>10 DEF Honest

\* A step keeps a session honest.
LEMMA StepHonest ==
  ASSUME NEW s, Good(s), Known(s, s.localTick, s.me), NEW D, Drives(D), Honest(s, D),
         NEW r, r = Step(s)
  PROVE  Honest(r, D)
<1>1. CASE s.cheated \/ WindowFull(s)
  BY <1>1 DEF Step
<1>2. CASE ~(s.cheated \/ WindowFull(s))
  <2>1. PICK q : q = Simulated(s)
    OBVIOUS
  <2>2. r = AdvanceConfirmed(q)
    BY <1>2, <2>1 DEF Step, Simulated
  <2>3. /\ Good(q) /\ SameRing(s, q) /\ q.me = s.me
        /\ q.desynced = s.desynced /\ q.cheated = s.cheated
        /\ q.confirmedTick = s.confirmedTick /\ q.confirmed = s.confirmed
        /\ q.localTick = s.localTick + 1
    BY <1>2, <2>1, SimulatedGood
  <2>4. \A t, p : (Known(q, t, p) <=> Known(s, t, p)) /\ (Promised(q, t, p) <=> Promised(s, t, p))
    BY <2>3 DEF SameRing, Known, Promised, Live
  <2>5. Len(D[s.me]) = s.localTick + 1 /\ s.localTick \in Nat /\ s.me \in Player
    BY DEF Honest, End, Good, Typed
  <2>6. End(q) = Len(D[q.me])
    <3>1. ~Known(q, q.localTick, q.me)
      <4>1. Known(s, s.localTick + 1, s.me) => s.localTick + 1 < Len(D[s.me])
        <5>1. PICK t \in Nat : t = s.localTick + 1
          BY <2>5
        <5>2. Truthful(s, D) /\ s.me \in Player
          BY <2>5 DEF Honest
        <5>3. Known(s, t, s.me) => t < Len(D[s.me])
          BY <5>2 DEF Truthful
        <5>4. QED
          BY <5>1, <5>3
      <4>2. QED
        BY <2>3, <2>4, <2>5, <4>1
    <3>2. QED
      BY <2>3, <2>5, <3>1 DEF End
  <2>7. Truthful(q, D) /\ OwnHeld(q, D) /\ NotAhead(q, D) /\ AgreesWith(q, D)
    <3>1. Truthful(q, D)
      BY <2>3, <2>4 DEF Honest, Truthful, SameRing
    <3>2. OwnHeld(q, D)
      BY <2>3, <2>4 DEF Honest, OwnHeld, SameRing, Live
    <3>3. NotAhead(q, D) /\ AgreesWith(q, D)
      BY <2>3 DEF Honest, NotAhead, AgreesWith, SameRing
    <3>4. QED
      BY <3>1, <3>2, <3>3
  <2>8. Honest(q, D)
    BY <2>3, <2>6, <2>7 DEF Honest
  <2>9. QED
    BY <2>2, <2>3, <2>8, AdvanceHonest
<1>3. QED
  BY <1>1, <1>2
-----------------------------------------------------------------------------
(* Nothing faithful is ever taken for a broken promise. *)

\* Faithful promises break none, and leave a session honest.
LEMMA HearPromisesHonest ==
  ASSUME NEW s, Good(s), NEW D, Drives(D), Honest(s, D), NEW d, Faithful(d, s, D),
         NEW r, r = HearPromises(s, d)
  PROVE  Good(r) /\ Honest(r, D) /\ Faithful(d, r, D) /\ SameBut(s, r)
<1> DEFINE due == PromisesDue(s, d)
<1>1. Shaped(d) /\ d.from \in Player /\ s.confirmedTick \in Nat
  BY DEF Faithful, Shaped, Good, Typed
<1>2. /\ Good(r) /\ Keeps(s, r) /\ SameBut(s, r) /\ LearnsNothing(s, r)
      /\ \A t \in Nat : \A p \in Player :
            Promised(r, t, p) /\ ~Promised(s, t, p) =>
               /\ t \in due /\ p = d.from /\ r.promise[Slot(t)][p] = d.promise[t]
  BY <1>1, HearPromisesGood
<1>3. /\ InRange(s, due) /\ Ages(s, r, due)
      /\ r.cheated = \E t \in due :
            Promised(s, t, d.from) /\ s.promise[Slot(t)][d.from] # d.promise[t]
  BY <1>1, HearPromisesAges
<1>4. ASSUME NEW t \in due
      PROVE  t \in Nat /\ t < Len(D[d.from]) /\ d.promise[t] = D[d.from][t + 1]
  BY <1>1 DEF Faithful, Shaped, PromisesDue, InWindow
<1> HIDE DEF due
<1>5. ~r.cheated
  <2> SUFFICES ASSUME NEW t \in due, Promised(s, t, d.from)
               PROVE  s.promise[Slot(t)][d.from] = d.promise[t]
    BY <1>3
  <2>1. s.promise[Slot(t)][d.from] = D[d.from][t + 1]
    BY <1>1, <1>4 DEF Honest, Truthful
  <2>2. QED
    BY <1>4, <2>1
<1>6. Hears(s, r, due)
  BY <1>2, <1>3 DEF Hears
<1>7. Truthful(r, D)
  <2> SUFFICES ASSUME NEW t \in Nat, NEW p \in Player
               PROVE  /\ Known(r, t, p)    => t < Len(D[p]) /\ r.in[Slot(t)][p] = D[p][t + 1]
                      /\ Promised(r, t, p) => t < Len(D[p]) /\ r.promise[Slot(t)][p] = D[p][t + 1]
    BY DEF Truthful
  <2>1. /\ Known(s, t, p)    => t < Len(D[p]) /\ s.in[Slot(t)][p] = D[p][t + 1]
        /\ Promised(s, t, p) => t < Len(D[p]) /\ s.promise[Slot(t)][p] = D[p][t + 1]
    BY DEF Honest, Truthful
  <2>2. Known(r, t, p) => Known(s, t, p) /\ r.in[Slot(t)][p] = s.in[Slot(t)][p]
    BY <1>2 DEF LearnsNothing
  <2>3. Promised(s, t, p) /\ Promised(r, t, p) =>
               r.promise[Slot(t)][p] = s.promise[Slot(t)][p]
    BY <1>6, HearsSame
  <2>4. Promised(r, t, p) /\ ~Promised(s, t, p) =>
           t < Len(D[p]) /\ r.promise[Slot(t)][p] = D[p][t + 1]
    BY <1>2, <1>4
  <2>5. QED
    BY <2>1, <2>2, <2>3, <2>4
<1>8. Honest(r, D)
  BY <1>1, <1>4, <1>5, <1>6, <1>7, HearsHonest
<1>9. Faithful(d, r, D)
  BY <1>2 DEF Faithful, SameBut
<1>10. QED
  BY <1>2, <1>8, <1>9

\* Faithful proofs match the promises before them, and leave a session honest.
LEMMA HearRevealsHonest ==
  ASSUME NEW s, Good(s), NEW D, Drives(D), Honest(s, D), NEW d, Faithful(d, s, D),
         d.from # s.me, NEW r, r = HearReveals(s, d)
  PROVE  Good(r) /\ Honest(r, D) /\ Faithful(d, r, D) /\ SameBut(s, r)
<1> DEFINE due == RevealsDue(s, d)
<1>1. Shaped(d) /\ d.from \in Player /\ s.confirmedTick \in Nat
  BY DEF Faithful, Shaped, Good, Typed
<1>2. /\ Good(r) /\ Keeps(s, r) /\ SameBut(s, r)
      /\ \A t \in Nat : \A p \in Player :
            Known(r, t, p) /\ ~Known(s, t, p) =>
               Promised(s, t, p) /\ r.in[Slot(t)][p] = s.promise[Slot(t)][p]
      /\ \A t \in Nat : \A p \in Player : Promised(r, t, p) => Promised(s, t, p)
  BY <1>1, HearRevealsGood
<1>3. /\ InRange(s, due) /\ Ages(s, r, due)
      /\ r.cheated = \E t \in due : BrokenPromise(s, d, t)
  BY <1>1, HearRevealsAges
<1>4. ASSUME NEW t \in due
      PROVE  t \in Nat /\ t < Len(D[d.from]) /\ d.reveal[t] = D[d.from][t + 1]
  BY <1>1 DEF Faithful, Shaped, RevealsDue, InWindow
<1> HIDE DEF due
<1>5. ~r.cheated
  <2> SUFFICES ASSUME NEW t \in due, Promised(s, t, d.from)
               PROVE  s.promise[Slot(t)][d.from] = d.reveal[t]
    BY <1>3 DEF BrokenPromise
  <2>1. s.promise[Slot(t)][d.from] = D[d.from][t + 1]
    BY <1>1, <1>4 DEF Honest, Truthful
  <2>2. QED
    BY <1>4, <2>1
<1>6. Hears(s, r, due)
  BY <1>2, <1>3 DEF Hears
<1>7. Truthful(r, D)
  <2> SUFFICES ASSUME NEW t \in Nat, NEW p \in Player
               PROVE  /\ Known(r, t, p)    => t < Len(D[p]) /\ r.in[Slot(t)][p] = D[p][t + 1]
                      /\ Promised(r, t, p) => t < Len(D[p]) /\ r.promise[Slot(t)][p] = D[p][t + 1]
    BY DEF Truthful
  <2>1. /\ Known(s, t, p)    => t < Len(D[p]) /\ s.in[Slot(t)][p] = D[p][t + 1]
        /\ Promised(s, t, p) => t < Len(D[p]) /\ s.promise[Slot(t)][p] = D[p][t + 1]
    BY DEF Honest, Truthful
  <2>2. /\ Known(s, t, p) /\ Known(r, t, p) => r.in[Slot(t)][p] = s.in[Slot(t)][p]
        /\ Promised(s, t, p) /\ Promised(r, t, p) =>
               r.promise[Slot(t)][p] = s.promise[Slot(t)][p]
    BY <1>6, HearsSame
  <2>3. /\ Known(r, t, p) /\ ~Known(s, t, p) =>
               Promised(s, t, p) /\ r.in[Slot(t)][p] = s.promise[Slot(t)][p]
        /\ Promised(r, t, p) => Promised(s, t, p)
    BY <1>2
  <2>4. QED
    BY <2>1, <2>2, <2>3
<1>8. Honest(r, D)
  BY <1>1, <1>4, <1>5, <1>6, <1>7, HearsHonest
<1>9. Faithful(d, r, D)
  BY <1>2 DEF Faithful, SameBut
<1>10. QED
  BY <1>2, <1>8, <1>9

\* A faithful datagram leaves a session honest: no promise is found broken and no
\* hash disagrees.
LEMMA ReceiveHonest ==
  ASSUME NEW s, Good(s), Replays(s), NEW D, Drives(D), Honest(s, D),
         NEW d, Faithful(d, s, D), NEW r, r = Receive(s, d)
  PROVE  Honest(r, D)
<1>1. /\ s.me \in Player /\ ~s.cheated /\ Hashed(s) /\ Shaped(d) /\ d.from \in Player
  BY DEF Good, Typed, Honest, Replays, Faithful, Shaped
<1>2. CASE d.from = s.me
  BY <1>1, <1>2 DEF Receive
<1>3. CASE d.from # s.me
  <2>1. PICK promised : promised = HearPromises(s, d)
    OBVIOUS
  <2>2. PICK revealed : revealed = HearReveals(promised, d)
    OBVIOUS
  <2>3. PICK advanced : advanced = AdvanceConfirmed(revealed)
    OBVIOUS
  <2>4. PICK rewound : rewound = IF WrongGuess(promised, d) THEN Rewind(advanced) ELSE advanced
    OBVIOUS
  <2>5. /\ Good(promised) /\ Honest(promised, D) /\ Faithful(d, promised, D)
        /\ SameBut(s, promised)
    BY <2>1, HearPromisesHonest
  <2>6. /\ Good(revealed) /\ Honest(revealed, D) /\ SameBut(promised, revealed)
    BY <1>3, <2>2, <2>5, HearRevealsHonest DEF SameBut
  <2>7. Hashed(revealed)
    BY <1>1, <2>5, <2>6 DEF Hashed, SameBut
  <2>8. Good(advanced) /\ Honest(advanced, D) /\ Hashed(advanced)
    BY <2>3, <2>6, <2>7, AdvanceGood, AdvanceHonest, AdvanceHashed
  <2>9. Good(rewound) /\ Honest(rewound, D) /\ Hashed(rewound)
    <3>1. CASE WrongGuess(promised, d)
      <4>1. PICK q : q = Rewind(advanced)
        OBVIOUS
      <4>2. /\ Good(q) /\ SameRing(advanced, q)
            /\ q.me = advanced.me /\ q.confirmed = advanced.confirmed
            /\ q.confirmedTick = advanced.confirmedTick
            /\ q.localTick = advanced.localTick /\ q.hash = advanced.hash
            /\ q.cheated = advanced.cheated /\ q.desynced = advanced.desynced
        BY <2>8, <4>1, RewindGood
      <4>3. ~q.desynced
        BY <2>8, <4>2 DEF Honest
      <4>4. Honest(q, D)
        BY <2>8, <4>2, <4>3, SameHonest
      <4>5. Hashed(q)
        BY <2>8, <4>2 DEF Hashed
      <4>6. QED
        BY <2>4, <3>1, <4>1, <4>2, <4>4, <4>5
    <3>2. CASE ~WrongGuess(promised, d)
      BY <2>4, <2>8, <3>2
    <3>3. QED
      BY <3>1, <3>2
  <2>10. r = CompareHash(rewound, d)
    <3>1. ~promised.cheated /\ ~revealed.cheated
      BY <2>5, <2>6 DEF Honest
    <3>2. QED
      BY <1>1, <1>3, <2>1, <2>2, <2>3, <2>4, <3>1 DEF Receive
  <2>11. d.tick <= rewound.confirmedTick /\ rewound.confirmedTick - d.tick < Window =>
            rewound.hash[Slot(d.tick)] = d.hash
    <3> SUFFICES ASSUME d.tick <= rewound.confirmedTick,
                        rewound.confirmedTick - d.tick < Window
                 PROVE  rewound.hash[Slot(d.tick)] = d.hash
      OBVIOUS
    <3>1. d.tick \in Nat /\ d.hash = RaceOf(D, d.tick) /\ rewound.confirmedTick \in Nat
      BY <2>9 DEF Faithful, Good, Typed
    <3>2. rewound.hash[Slot(d.tick)] = [t \in 0 .. d.tick - 1 |-> rewound.confirmed[t]]
      BY <2>9, <3>1 DEF Hashed
    <3>3. rewound.confirmed = RaceOf(D, rewound.confirmedTick)
      BY <2>9 DEF Honest, AgreesWith
    <3>4. \A t \in 0 .. d.tick - 1 : rewound.confirmed[t] = [p \in Player |-> D[p][t + 1]]
      BY <3>1, <3>3 DEF RaceOf
    <3>5. QED
      BY <3>1, <3>2, <3>4 DEF RaceOf
  <2>12. r = rewound
    BY <2>10, <2>11 DEF CompareHash
  <2>13. QED
    BY <2>9, <2>12
<1>4. QED
  BY <1>2, <1>3

-----------------------------------------------------------------------------
(* Where two machines are needed: what is sent is what was driven. *)

\* What an honest machine reads out of its ring for a tick it may still send is what it
\* was held to, or is of no interest to a peer who is the only other.
LEMMA ReadsOwn ==
  ASSUME TwoMachines, NEW D, Drives(D), NEW s, Good(s), Honest(s, D),
         NEW n, Good(n), Len(D[n.me]) = End(n), n.me # s.me,
         NEW t \in 0 .. Len(D[s.me]) - 1, Len(D[s.me]) <= t + Window
  PROVE  t >= n.confirmedTick => s.in[Slot(t)][s.me] = D[s.me][t + 1]
<1>1. /\ s.me \in Player /\ n.me \in Player /\ t \in Nat /\ Slot(t) \in Slots /\ Window \in Nat
      /\ s.stamp[Slot(t)] \in Nat \cup {NoTick} /\ D[s.me] \in Seq(Input)
      /\ n.confirmedTick \in Nat /\ n.localTick \in Nat
      /\ n.localTick - n.confirmedTick < Window
  BY SlotType, NetAssumption DEF Good, Typed, Held, Drives
<1>2. s.stamp[Slot(t)] >= t /\ (Live(s, t) => Known(s, t, s.me))
  BY DEF Honest, OwnHeld
<1>3. CASE Live(s, t)
  BY <1>1, <1>2, <1>3 DEF Honest, Truthful
<1>4. CASE ~Live(s, t)
  <2> DEFINE u == s.stamp[Slot(t)]
  <2>1. u \in Nat /\ u > t
    BY <1>1, <1>2, <1>4 DEF Live, NoTick
  <2>2. Slot(u) = Slot(t)
    BY <1>1, <2>1 DEF Good, Sound, NoTick
  <2>3. u >= t + Window
    BY <1>1, <2>1, <2>2, SlotApart
  <2>4. PICK p \in Player : u < Len(D[p])
    BY <1>1, <2>1 DEF Honest, NotAhead, NoTick
  <2>5. Len(D[s.me]) \in Nat
    BY <1>1
  <2> HIDE DEF u
  <2>6. p # s.me
    BY <1>1, <2>1, <2>3, <2>4, <2>5
  <2>7. p = n.me
    BY <1>1, <2>6 DEF TwoMachines
  <2>8. u < n.localTick + 1
    BY <1>1, <2>1, <2>4, <2>7 DEF End
  <2>9. t < n.confirmedTick
    BY <1>1, <2>1, <2>3, <2>8
  <2>10. QED
    BY <1>1, <2>9
<1>5. QED
  BY <1>3, <1>4

\* The runs of a datagram lie within a window of its end.
LEMMA RunsAreShort ==
  ASSUME NEW end \in Nat, NEW last \in Nat, last <= end, NEW count \in Nat,
         end - last + count <= Window, NEW t \in Trailing(last, count)
  PROVE  t \in 0 .. end - 1 /\ end <= t + Window
BY NetAssumption DEF Trailing

\* With two machines, whatever a machine sends is faithful to the other.
LEMMA DatagramFaithful ==
  ASSUME TwoMachines, NEW D, Drives(D), NEW s, Good(s), Hashed(s), Honest(s, D),
         NEW n, Good(n), Len(D[n.me]) = End(n), n.me # s.me,
         NEW d, d = Datagram(s)
  PROVE  Faithful(d, n, D)
<1> DEFINE end == End(s)
           revealEnd == IF s.flushing /\ s.flushWait = 0 THEN end
                        ELSE IF end > RevealDelay THEN end - RevealDelay ELSE 0
<1>1. /\ s.me \in Player /\ s.localTick \in Nat /\ end \in Nat /\ end = Len(D[s.me])
      /\ s.confirmedTick \in Nat /\ s.in \in [Slots -> Vector]
      /\ RevealDelay \in Nat /\ Redundancy \in Nat /\ RevealDelay + Redundancy <= Window
      /\ Window \in Nat
  BY NetAssumption DEF Good, Typed, Honest, End
<1>2. /\ d.from = s.me
      /\ d.promise = [t \in Trailing(end, RevealDelay) |-> s.in[Slot(t)][s.me]]
      /\ d.reveal = [t \in Trailing(revealEnd, Redundancy) |-> s.in[Slot(t)][s.me]]
      /\ d.tick = s.confirmedTick
      /\ d.hash = s.hash[Slot(s.confirmedTick)]
  BY DEF Datagram
<1>3. ASSUME NEW t \in Trailing(end, RevealDelay)
      PROVE  t \in 0 .. end - 1 /\ end <= t + Window
  BY <1>1, RunsAreShort
<1>4. ASSUME NEW t \in Trailing(revealEnd, Redundancy)
      PROVE  t \in 0 .. end - 1 /\ end <= t + Window
  <2>1. CASE revealEnd = 0
    BY <1>1, <2>1 DEF Trailing
  <2>2. CASE revealEnd # 0
    <3>1. revealEnd \in Nat /\ revealEnd <= end /\ end - revealEnd <= RevealDelay
      BY <1>1, <2>2
    <3> HIDE DEF revealEnd, end
    <3>2. end - revealEnd + Redundancy <= Window
      BY <1>1, <3>1
    <3>3. QED
      BY <1>1, <3>1, <3>2, RunsAreShort
  <2>3. QED
    BY <2>1, <2>2
<1>5. ASSUME NEW t \in 0 .. end - 1, end <= t + Window
      PROVE  /\ t \in Nat /\ t < Len(D[s.me]) /\ s.in[Slot(t)][s.me] \in Input
             /\ t >= n.confirmedTick => s.in[Slot(t)][s.me] = D[s.me][t + 1]
  <2>1. t \in Nat /\ t < Len(D[s.me]) /\ s.in[Slot(t)][s.me] \in Input
    BY <1>1, SlotType DEF Vector
  <2>2. t \in 0 .. Len(D[s.me]) - 1 /\ Len(D[s.me]) <= t + Window
    BY <1>1, <1>5
  <2>3. t >= n.confirmedTick => s.in[Slot(t)][s.me] = D[s.me][t + 1]
    BY <2>2, ReadsOwn
  <2>4. QED
    BY <2>1, <2>3
<1> HIDE DEF end, revealEnd
<1>6. /\ d.tick \in Nat /\ \A p \in Player : d.tick <= Len(D[p])
      /\ d.hash = RaceOf(D, d.tick)
  <2>1. s.hash[Slot(s.confirmedTick)] = [t \in 0 .. s.confirmedTick - 1 |-> s.confirmed[t]]
    <3>1. s.confirmedTick \in 0 .. s.confirmedTick /\ s.confirmedTick - s.confirmedTick < Window
      BY <1>1, NetAssumption
    <3>2. QED
      BY <3>1 DEF Hashed
  <2>2. s.confirmed = RaceOf(D, s.confirmedTick)
    BY DEF Honest, AgreesWith
  <2>3. [t \in 0 .. s.confirmedTick - 1 |-> s.confirmed[t]] = RaceOf(D, s.confirmedTick)
    BY <2>2 DEF RaceOf
  <2>4. QED
    BY <1>1, <1>2, <2>1, <2>3 DEF Honest, AgreesWith
<1>7. Shaped(d)
  BY <1>1, <1>2, <1>3, <1>4, <1>5 DEF Shaped
<1>8. QED
  BY <1>2, <1>3, <1>4, <1>5, <1>6, <1>7 DEF Faithful
-----------------------------------------------------------------------------
(* What a machine does in one tick, whoever it is racing. *)

\* Everything but how much of the end is still held back.
SameRace(s, r) ==
  /\ SameRing(s, r) /\ r.me = s.me /\ r.localTick = s.localTick
  /\ r.confirmed = s.confirmed /\ r.confirmedTick = s.confirmedTick
  /\ r.current = s.current /\ r.used = s.used /\ r.hash = s.hash
  /\ r.cheated = s.cheated /\ r.desynced = s.desynced

\* Counting down to the flush, and beginning to, change nothing else.
LEMMA FlushSame ==
  ASSUME NEW s, Good(s), NEW r, r = AfterDatagram(s) \/ r = Finish(s)
  PROVE  Good(r) /\ SameRace(s, r)
<1>1. Typed(s) /\ FlushWait \in Nat /\ s.flushWait \in 0 .. FlushWait
  BY NetAssumption DEF Good, Typed
<1>2. \/ r = s
      \/ s.flushWait > 0 /\ r = [s EXCEPT !.flushWait = s.flushWait - 1]
      \/ r = [s EXCEPT !.flushing = TRUE, !.flushWait = FlushWait]
  BY DEF AfterDatagram, Finish
<1>3. SameRace(s, r) /\ r.flushing \in BOOLEAN /\ r.flushWait \in 0 .. FlushWait /\ IsSession(r)
  <2>1. CASE r = s
    BY <1>1, <2>1 DEF SameRace, SameRing, Typed
  <2>2. CASE s.flushWait > 0 /\ r = [s EXCEPT !.flushWait = s.flushWait - 1]
    <3>1. /\ SameRace(s, r) /\ r.flushing = s.flushing /\ r.flushWait = s.flushWait - 1
          /\ IsSession(r)
      BY <1>1, <2>2 DEF SameRace, SameRing, Typed, IsSession
    <3>2. r.flushWait \in 0 .. FlushWait
      BY <1>1, <2>2, <3>1
    <3>3. s.flushing \in BOOLEAN
      BY <1>1 DEF Typed
    <3>4. QED
      BY <3>1, <3>2, <3>3, Zenon
  <2>3. CASE r = [s EXCEPT !.flushing = TRUE, !.flushWait = FlushWait]
    <3>1. /\ SameRace(s, r) /\ r.flushing = TRUE /\ r.flushWait = FlushWait /\ IsSession(r)
      BY <1>1, <2>3 DEF SameRace, SameRing, Typed, IsSession
    <3>2. r.flushWait \in 0 .. FlushWait
      BY <1>1, <3>1
    <3>3. QED
      BY <3>1, <3>2, Zenon
  <2>4. QED
    BY <1>2, <2>1, <2>2, <2>3
<1>4. Typed(r)
  BY <1>1, <1>3 DEF Typed, SameRace, SameRing
<1>5. QED
  BY <1>3, <1>4 DEF Good, Held, Sound, Proven, Unconfirmed, Known, Live, SameRace, SameRing

\* A session of which only the flush changed keeps everything said of it.
LEMMA SameRaceSame ==
  ASSUME NEW s, NEW r, SameRace(s, r), s.confirmedTick \in Nat
  PROVE  /\ Replays(s) => Replays(r)
         /\ Grows(s, r)
         /\ \A D : Honest(s, D) => Honest(r, D)
<1>1. Replays(s) => Replays(r)
  BY DEF Replays, Fresh, Shows, Hashed, Unconfirmed, SameRace, SameRing
<1>2. Grows(s, r)
  BY DEF Grows, SameRace
<1>3. ASSUME NEW D, Honest(s, D) PROVE Honest(r, D)
  <2>1. ~r.desynced
    BY <1>3 DEF Honest, SameRace
  <2>2. QED
    BY <1>3, <2>1, SameHonest DEF SameRace
<1>4. QED
  BY <1>1, <1>2, <1>3

\* What a machine holds of ticks long agreed is the agreed race.
Kept(s) ==
  \A t \in 0 .. s.confirmedTick - 1 : Live(s, t) => s.in[Slot(t)] = s.confirmed[t]

\* Hearing of ticks in the window touches no slot of a tick before it.
LEMMA HearsKept ==
  ASSUME NEW s, Good(s), Kept(s), NEW r, SameBut(s, r), NEW T, InRange(s, T), Ages(s, r, T)
  PROVE  Kept(r)
<1> SUFFICES ASSUME NEW t \in 0 .. s.confirmedTick - 1, Live(r, t)
             PROVE  r.in[Slot(t)] = s.confirmed[t]
  BY DEF Kept, SameBut
<1>1. s.confirmedTick \in Nat /\ t \in Nat /\ Slot(t) \in Slots
  BY SlotType DEF Good, Typed
<1>2. t \notin T
  BY <1>1 DEF InRange
<1>3. s.stamp[Slot(t)] = t /\ r.in[Slot(t)] = s.in[Slot(t)]
  BY <1>1, <1>2 DEF Ages, Live
<1>4. QED
  BY <1>3 DEF Kept, Live

\* What is agreed is what the ring holds.
LEMMA AdvanceKept ==
  ASSUME NEW s, Good(s), Kept(s), NEW r, r = AdvanceConfirmed(s)
  PROVE  Kept(r)
<1>1. /\ s.confirmedTick \in Nat /\ s.localTick \in Nat /\ s.confirmedTick <= s.localTick
  BY DEF Good, Typed, Held
<1>2. Frontier(s) \in s.confirmedTick .. s.localTick
  BY <1>1, FrontierIs
<1>3. SameRing(s, r) /\ r.confirmedTick = Frontier(s) /\ r.confirmed = ConfirmedAt(s, Frontier(s))
  BY AdvanceGood
<1>4. ASSUME NEW t \in 0 .. Frontier(s) - 1, Live(s, t)
      PROVE  s.in[Slot(t)] = IF t < s.confirmedTick THEN s.confirmed[t] ELSE s.in[Slot(t)]
  BY <1>1, <1>2, <1>4 DEF Kept
<1>5. QED
  BY <1>3, <1>4 DEF Kept, ConfirmedAt, SameRing, Live

\* The pad's word, a step and a datagram keep what the ring holds of the agreed race.
LEMMA CallsKeep ==
  ASSUME NEW s, Good(s), Kept(s)
  PROVE  /\ \A input \in Input : Kept(LocalInput(s, input))
         /\ Known(s, s.localTick, s.me) => Kept(Step(s))
         /\ \A r : SameRace(s, r) => Kept(r)
         /\ \A d : Shaped(d) => Kept(Receive(s, d))
<1>1. ASSUME NEW input \in Input PROVE Kept(LocalInput(s, input))
  <2>1. PICK r : r = LocalInput(s, input)
    OBVIOUS
  <2>2. SameBut(s, r) /\ InRange(s, {s.localTick}) /\ Ages(s, r, {s.localTick})
    BY <2>1, LocalInputGood, LocalInputAges
  <2>3. QED
    BY <2>1, <2>2, HearsKept
<1>2. ASSUME Known(s, s.localTick, s.me) PROVE Kept(Step(s))
  <2>1. CASE s.cheated \/ WindowFull(s)
    BY <2>1 DEF Step
  <2>2. CASE ~(s.cheated \/ WindowFull(s))
    <3>1. PICK q : q = Simulated(s)
      OBVIOUS
    <3>2. Step(s) = AdvanceConfirmed(q)
      BY <2>2, <3>1 DEF Step, Simulated
    <3>3. /\ Good(q) /\ SameRing(s, q)
          /\ q.confirmedTick = s.confirmedTick /\ q.confirmed = s.confirmed
      BY <1>2, <2>2, <3>1, SimulatedGood
    <3>4. Kept(q)
      BY <3>3 DEF Kept, SameRing, Live
    <3>5. QED
      BY <3>2, <3>3, <3>4, AdvanceKept
  <2>3. QED
    BY <2>1, <2>2
<1>3. ASSUME NEW r, SameRace(s, r) PROVE Kept(r)
  BY <1>3 DEF Kept, SameRace, SameRing, Live
<1>4. ASSUME NEW d, Shaped(d) PROVE Kept(Receive(s, d))
  <2>1. CASE d.from \notin Player \/ d.from = s.me \/ s.cheated
    BY <2>1 DEF Receive
  <2>2. CASE ~(d.from \notin Player \/ d.from = s.me \/ s.cheated)
    <3>1. PICK promised : promised = HearPromises(s, d)
      OBVIOUS
    <3>2. PICK revealed : revealed = HearReveals(promised, d)
      OBVIOUS
    <3>3. PICK advanced : advanced = AdvanceConfirmed(revealed)
      OBVIOUS
    <3>4. PICK rewound : rewound = IF WrongGuess(promised, d) THEN Rewind(advanced) ELSE advanced
      OBVIOUS
    <3>5. PICK compared : compared = CompareHash(rewound, d)
      OBVIOUS
    <3>6. Good(promised) /\ SameBut(s, promised) /\ Kept(promised)
      <4>1. Good(promised) /\ SameBut(s, promised)
        BY <1>4, <3>1, HearPromisesGood
      <4>2. InRange(s, PromisesDue(s, d)) /\ Ages(s, promised, PromisesDue(s, d))
        BY <1>4, <3>1, HearPromisesAges
      <4>3. QED
        BY <4>1, <4>2, HearsKept
    <3>7. Good(revealed) /\ Kept(revealed)
      <4>1. Good(revealed) /\ SameBut(promised, revealed)
        BY <1>4, <2>2, <3>2, <3>6, HearRevealsGood DEF SameBut
      <4>2. /\ InRange(promised, RevealsDue(promised, d))
            /\ Ages(promised, revealed, RevealsDue(promised, d))
        BY <1>4, <3>2, <3>6, HearRevealsAges
      <4>3. QED
        BY <3>6, <4>1, <4>2, HearsKept
    <3>8. Good(advanced) /\ Kept(advanced)
      BY <3>3, <3>7, AdvanceGood, AdvanceKept
    <3>9. Good(rewound) /\ Kept(rewound)
      <4>1. CASE WrongGuess(promised, d)
        <5>1. PICK q : q = Rewind(advanced)
          OBVIOUS
        <5>2. /\ Good(q) /\ SameRing(advanced, q)
              /\ q.confirmed = advanced.confirmed /\ q.confirmedTick = advanced.confirmedTick
          BY <3>8, <5>1, RewindGood
        <5>3. Kept(q)
          BY <3>8, <5>2 DEF Kept, SameRing, Live
        <5>4. QED
          BY <3>4, <4>1, <5>1, <5>2, <5>3
      <4>2. CASE ~WrongGuess(promised, d)
        BY <3>4, <3>8, <4>2
      <4>3. QED
        BY <4>1, <4>2
    <3>10. Kept(compared)
      <4>1. /\ SameRing(rewound, compared)
            /\ compared.confirmed = rewound.confirmed
            /\ compared.confirmedTick = rewound.confirmedTick
        BY <3>5, <3>9, CompareHashGood
      <4>2. QED
        BY <3>9, <4>1 DEF Kept, SameRing, Live
    <3>11. Receive(s, d) \in {promised, revealed, compared}
      BY <2>2, <3>1, <3>2, <3>3, <3>4, <3>5 DEF Receive
    <3>12. QED
      BY <3>6, <3>7, <3>10, <3>11
  <2>3. QED
    BY <2>1, <2>2
<1>5. QED
  BY <1>1, <1>2, <1>3, <1>4
\* One tick of the race loop, pad to step: what it does to one session.
LEMMA Ticked ==
  ASSUME NEW s, Good(s), Replays(s), Kept(s), NEW input \in Input,
         NEW h, h = LocalInput(s, input), NEW r, r = Stepped(AfterDatagram(h))
  PROVE  /\ Good(h) /\ Replays(h) /\ h.me = s.me
         /\ Good(r) /\ Replays(r) /\ Kept(r) /\ r.me = s.me /\ Grows(s, r)
         /\ \A D : Drives(D) /\ Honest(h, D) => Honest(r, D)
<1>1. /\ Good(h) /\ Replays(h) /\ Kept(h) /\ SameBut(s, h)
      /\ Known(h, h.localTick, h.me) /\ h.confirmedTick \in Nat
  BY LocalInputGood, LocalInputReplays, CallsKeep DEF SameBut, Good, Typed
<1>2. PICK f : f = AfterDatagram(h)
  OBVIOUS
<1>3. Good(f) /\ SameRace(h, f)
  BY <1>1, <1>2, FlushSame
<1>4. /\ Replays(f) /\ Kept(f) /\ Grows(h, f) /\ Known(f, f.localTick, f.me)
      /\ \A D : Honest(h, D) => Honest(f, D)
  <2>1. Replays(f) /\ Grows(h, f) /\ \A D : Honest(h, D) => Honest(f, D)
    BY <1>1, <1>3, SameRaceSame
  <2>2. Kept(f)
    BY <1>1, <1>3, CallsKeep
  <2>3. Known(f, f.localTick, f.me)
    BY <1>1, <1>3 DEF SameRace, SameRing, Known, Live
  <2>4. QED
    BY <2>1, <2>2, <2>3
<1>5. r = f \/ r = Step(f)
  BY <1>2 DEF Stepped
<1>6. Good(r) /\ Replays(r) /\ Kept(r) /\ r.me = f.me /\ Grows(f, r)
  <2>1. CASE r = f
    <3>1. f.confirmedTick \in Nat
      BY <1>3 DEF Good, Typed
    <3>2. QED
      BY <1>3, <1>4, <2>1, <3>1 DEF Grows
  <2>2. CASE r = Step(f)
    BY <1>3, <1>4, <2>2, StepGood, StepReplays, CallsKeep
  <2>3. QED
    BY <1>5, <2>1, <2>2
<1>7. Grows(s, r)
  <2>1. f.confirmedTick = s.confirmedTick /\ f.confirmed = s.confirmed
    BY <1>1, <1>3 DEF SameBut, SameRace
  <2>2. QED
    BY <1>6, <2>1 DEF Grows
<1>8. ASSUME NEW D, Drives(D), Honest(h, D) PROVE Honest(r, D)
  <2>1. Honest(f, D)
    BY <1>4, <1>8
  <2>2. QED
    BY <1>3, <1>4, <1>5, <1>8, <2>1, StepHonest
<1>9. QED
  BY <1>1, <1>3, <1>6, <1>7, <1>8 DEF SameBut, SameRace

\* Whatever a machine sends has the shape of a datagram.
LEMMA DatagramShaped ==
  ASSUME NEW s, Good(s), NEW d, d = Datagram(s)
  PROVE  Shaped(d)
<1> DEFINE end == End(s)
           revealEnd == IF s.flushing /\ s.flushWait = 0 THEN end
                        ELSE IF end > RevealDelay THEN end - RevealDelay ELSE 0
<1>1. /\ s.me \in Player /\ end \in Nat /\ s.in \in [Slots -> Vector]
      /\ RevealDelay \in Nat /\ Redundancy \in Nat
  BY NetAssumption DEF Good, Typed, End
<1>2. revealEnd \in Nat
  BY <1>1
<1>3. /\ d.from = s.me
      /\ d.promise = [t \in Trailing(end, RevealDelay) |-> s.in[Slot(t)][s.me]]
      /\ d.reveal = [t \in Trailing(revealEnd, Redundancy) |-> s.in[Slot(t)][s.me]]
  BY DEF Datagram
<1> HIDE DEF end, revealEnd
<1>4. Trailing(end, RevealDelay) \subseteq Nat /\ Trailing(revealEnd, Redundancy) \subseteq Nat
  BY <1>1, <1>2 DEF Trailing
<1>5. \A t \in Nat : s.in[Slot(t)][s.me] \in Input
  BY <1>1, SlotType DEF Vector
<1>6. QED
  BY <1>1, <1>3, <1>4, <1>5 DEF Shaped

-----------------------------------------------------------------------------
(* What is written down. *)

\* log is the beginning of the race that s has agreed.
Written(log, s) ==
  /\ log \in Seq(Vector)
  /\ Len(log) <= s.confirmedTick
  /\ \A i \in 1 .. Len(log) : log[i] = s.confirmed[i - 1]

\* The run of ticks from a that are all in W has as many members as it is
\* long.
LEMMA RunOf ==
  ASSUME NEW a \in Nat, NEW c \in Nat, a <= c, NEW W
  PROVE  \E k \in a .. c :
           /\ {t \in a .. c - 1 : \A u \in a .. t : u \in W} = a .. k - 1
           /\ Cardinality({t \in a .. c - 1 : \A u \in a .. t : u \in W}) = k - a
           /\ \A u \in a .. k - 1 : u \in W
<1> DEFINE missing == {t \in a .. c - 1 : t \notin W}
           run == {t \in a .. c - 1 : \A u \in a .. t : u \in W}
<1>1. \E k \in a .. c : (\A u \in a .. k - 1 : u \in W) /\ (k = c \/ k \notin W)
  <2>1. CASE missing = {}
    <3>1. \A u \in a .. c - 1 : u \in W
      BY <2>1
    <3>2. QED
      BY <3>1
  <2>2. CASE missing # {}
    <3>0. missing \subseteq Nat
      OBVIOUS
    <3>1. PICK k \in missing : \A u \in missing : k <= u
      BY <2>2, <3>0, LeastNat
    <3>2. \A u \in a .. k - 1 : u \in W
      BY <3>1
    <3>3. QED
      BY <3>1, <3>2
  <2>3. QED
    BY <2>1, <2>2
<1>2. PICK k \in a .. c : (\A u \in a .. k - 1 : u \in W) /\ (k = c \/ k \notin W)
  BY <1>1
<1>3. run = a .. k - 1
  <2>1. ASSUME NEW t \in run PROVE t \in a .. k - 1
    <3>1. k \in a .. t => k \in W
      OBVIOUS
    <3>2. QED
      BY <1>2, <3>1
  <2>2. ASSUME NEW t \in a .. k - 1 PROVE t \in run
    BY <1>2
  <2>3. QED
    BY <2>1, <2>2
<1>4. Cardinality(a .. k - 1) = k - a
  <2>1. Cardinality(a .. k - 1) = IF a > k - 1 THEN 0 ELSE (k - 1) - a + 1
    BY FS_Interval
  <2>2. QED
    BY <2>1
<1>5. QED
  BY <1>2, <1>3, <1>4
\* gs_record_confirmed writes down only what was agreed, in order and without a gap.
LEMMA RecordedWritten ==
  ASSUME NEW s, Good(s), Kept(s), NEW log, Written(log, s)
  PROVE  Written(Recorded(log, s), s)
<1> DEFINE a == Len(log)
           c == s.confirmedTick
           W == {u \in 0 .. c - 1 : ConfirmedInputHeld(s, u)}
           reached == {t \in a .. c - 1 : \A u \in a .. t : ConfirmedInputHeld(s, u)}
           more(k) == [i \in 1 .. k |-> s.in[Slot(a + i - 1)]]
<1>1. /\ c \in Nat /\ a \in Nat /\ a <= c /\ log \in Seq(Vector)
      /\ s.in \in [Slots -> Vector]
      /\ \A i \in 1 .. Len(log) : log[i] = s.confirmed[i - 1]
  BY DEF Good, Typed, Written
<1>2. reached = {t \in a .. c - 1 : \A u \in a .. t : u \in W}
  BY <1>1
<1> HIDE DEF W, reached
<1>3. PICK k \in a .. c : Cardinality(reached) = k - a /\ \A u \in a .. k - 1 : u \in W
  <2>1. PICK k \in a .. c :
          /\ Cardinality({t \in a .. c - 1 : \A u \in a .. t : u \in W}) = k - a
          /\ \A u \in a .. k - 1 : u \in W
    BY <1>1, RunOf
  <2>2. QED
    BY <1>2, <2>1
<1> DEFINE r == Recorded(log, s)
<1>4. r = log \o more(k - a)
  BY <1>3 DEF Recorded, reached
<1>5. more(k - a) \in Seq(Vector) /\ Len(more(k - a)) = k - a
  <2>1. k - a \in Nat
    BY <1>1
  <2>2. ASSUME NEW i \in 1 .. k - a PROVE s.in[Slot(a + i - 1)] \in Vector
    <3>1. a + i - 1 \in Nat
      BY <1>1
    <3>2. QED
      BY <1>1, <3>1, SlotType
  <2>3. QED
    BY <2>1, <2>2
<1>6. /\ r \in Seq(Vector) /\ Len(r) = k
      /\ \A i \in 1 .. a : r[i] = log[i]
      /\ \A i \in a + 1 .. k : r[i] = more(k - a)[i - a]
  <2> DEFINE m == more(k - a)
  <2>1. m \in Seq(Vector) /\ Len(m) = k - a /\ r = log \o m
    BY <1>4, <1>5
  <2> HIDE DEF m, r
  <2>2. r \in Seq(Vector) /\ Len(r) = a + (k - a)
    <3>1. log \in Seq(Vector) /\ m \in Seq(Vector)
      BY <1>1, <2>1
    <3>2. log \o m \in Seq(Vector) /\ Len(log \o m) = Len(log) + Len(m)
      BY <3>1
    <3>3. QED
      BY <2>1, <3>2
  <2>3. \A i \in 1 .. a : r[i] = log[i]
    BY <1>1, <2>1
  <2>4. \A i \in a + 1 .. k : r[i] = m[i - a]
    BY <1>1, <2>1
  <2>5. Len(r) = k
    BY <1>1, <2>2
  <2>6. \A i \in a + 1 .. k : r[i] = more(k - a)[i - a]
    BY <2>4 DEF m
  <2>7. QED
    BY <2>2, <2>3, <2>5, <2>6
<1>7. ASSUME NEW i \in a + 1 .. k PROVE r[i] = s.confirmed[i - 1]
  <2>1. i - 1 \in a .. k - 1 /\ i - 1 \in 0 .. c - 1 /\ i - a \in 1 .. k - a
    BY <1>1
  <2>2. s.in[Slot(i - 1)] = s.confirmed[i - 1]
    BY <1>3, <2>1 DEF W, ConfirmedInputHeld, Kept
  <2>3. more(k - a)[i - a] = s.in[Slot(a + (i - a) - 1)]
    BY <2>1
  <2>4. a + (i - a) - 1 = i - 1
    BY <1>1
  <2> HIDE DEF r, more
  <2>5. QED
    BY <1>6, <2>2, <2>3, <2>4
<1> HIDE DEF r
<1>8. ASSUME NEW i \in 1 .. Len(r) PROVE r[i] = s.confirmed[i - 1]
  <2>1. CASE i <= a
    BY <1>1, <1>6, <2>1
  <2>2. CASE ~(i <= a)
    BY <1>1, <1>6, <1>7, <2>2
  <2>3. QED
    BY <2>1, <2>2
<1>9. Written(r, s)
  BY <1>1, <1>6, <1>8 DEF Written
<1>10. QED
  BY <1>9 DEF r

\* What is written down stays written as the agreed race grows.
LEMMA GrowsWritten ==
  ASSUME NEW s, Good(s), NEW r, Good(r), Grows(s, r), NEW log, Written(log, s)
  PROVE  Written(log, r)
<1>1. s.confirmedTick \in Nat /\ r.confirmedTick \in Nat /\ Len(log) \in Nat
  BY DEF Good, Typed, Written
<1>2. ASSUME NEW i \in 1 .. Len(log) PROVE log[i] = r.confirmed[i - 1]
  <2>1. i - 1 \in 0 .. s.confirmedTick - 1
    BY <1>1 DEF Written
  <2>2. QED
    BY <2>1 DEF Written, Grows
<1>3. QED
  BY <1>1, <1>2 DEF Written, Grows
-----------------------------------------------------------------------------
(* The race, for any number of machines. *)

\* The inductive invariant of a race of any number of machines.
Sessions ==
  /\ net = [m \in Player |-> net[m]] /\ transit = [m \in Player |-> transit[m]]
  /\ recording = [m \in Player |-> recording[m]]
  /\ \A m \in Player : Good(net[m]) /\ Replays(net[m]) /\ Kept(net[m]) /\ net[m].me = m
  /\ \A m \in Player : \A d \in transit[m] : Shaped(d)
  /\ \A m \in Player : Written(recording[m], net[m])

\* The session of m becomes n, and what m sends is heard, on its way, or lost.
Moved(m, n, sent) ==
  /\ net' = [p \in Player |-> net'[p]] /\ transit' = [p \in Player |-> transit'[p]]
  /\ net'[m] = n
  /\ \A p \in Player \ {m} :
        net'[p] = net[p] \/ \E d \in sent : net'[p] = Receive(net[p], d)
  /\ transit'[m] \subseteq transit[m]
  /\ \A p \in Player \ {m} : transit'[p] \subseteq transit[p] \cup sent

\* A tick of the race or of the settling.
Ticks(m, n, sent) ==
  /\ \E input \in Input :
        /\ n = Stepped(AfterDatagram(LocalInput(net[m], input)))
        /\ sent = {Datagram(LocalInput(net[m], input))}
        /\ driven' = [driven EXCEPT ![m] = HeldTo(m, input)]
  /\ recording' = recording \/ recording' = [recording EXCEPT ![m] = Recorded(recording[m], n)]

\* The answer at the end of a frame of the settling.
Answers(m, n, sent) ==
  /\ n = AfterDatagram(net[m]) /\ sent = {Datagram(net[m])}
  /\ driven' = driven
  /\ recording' = [recording EXCEPT ![m] = Recorded(recording[m], net[m])]

\* A datagram that was late, the finish, or nothing that a session sees.
Listens(m, n, sent) ==
  /\ n = net[m] \/ n = Finish(net[m]) \/ \E d \in transit[m] : n = Receive(net[m], d)
  /\ sent = {} /\ driven' = driven /\ recording' = recording

\* What StepAndSend does to the machines.
LEMMA SendMoves ==
  ASSUME NEW m \in Player, NEW n, NEW d, StepAndSend(m, n, d)
  PROVE  Moved(m, n, {d})
<1>1. PICK prompt \in SUBSET {p \in Others(m) : Talking(p)},
           late \in SUBSET {p \in Others(m) : Talking(p)} :
         /\ net' = [p \in Player |-> IF p = m THEN n
                                     ELSE IF p \in prompt THEN Receive(net[p], d)
                                     ELSE net[p]]
         /\ transit' = [p \in Player |-> IF p \in late THEN transit[p] \cup {d}
                                         ELSE transit[p]]
  BY DEF StepAndSend
<1>2. m \notin late
  BY DEF Others
<1>3. /\ net' = [p \in Player |-> net'[p]] /\ transit' = [p \in Player |-> transit'[p]]
  BY <1>1
<1>4. /\ net'[m] = n
      /\ \A p \in Player \ {m} : net'[p] = net[p] \/ net'[p] = Receive(net[p], d)
  BY <1>1
<1>5. /\ transit'[m] \subseteq transit[m]
      /\ \A p \in Player \ {m} : transit'[p] \subseteq transit[p] \cup {d}
  BY <1>1, <1>2
<1>6. QED
  BY <1>3, <1>4, <1>5 DEF Moved

\* Every step of the race is one of these.
LEMMA EveryStep ==
  ASSUME Sessions, Next
  PROVE  \E m \in Player : \E n, sent :
            /\ Moved(m, n, sent)
            /\ Ticks(m, n, sent) \/ Answers(m, n, sent) \/ Listens(m, n, sent)
<1>1. PICK m \in Player : RaceTick(m) \/ FinishRace(m) \/ SettleTick(m) \/ SettleAnswer(m)
                          \/ Deliver(m) \/ Leave(m) \/ EndSettle(m)
  BY DEF Next, Frame
<1>2. Idle \in Input /\ Presses[m] \subseteq Input
  BY NetAssumption, RaceAssumption
<1>3. /\ net = [p \in Player |-> net[p]] /\ transit = [p \in Player |-> transit[p]]
  BY DEF Sessions
<1>4. CASE RaceTick(m)
  <2>1. PICK input \in Presses[m] :
          /\ StepAndSend(m, Stepped(AfterDatagram(LocalInput(net[m], input))),
                         Datagram(LocalInput(net[m], input)))
          /\ driven' = [driven EXCEPT ![m] = HeldTo(m, input)]
          /\ recording' = [recording EXCEPT ![m] =
                Recorded(@, Stepped(AfterDatagram(LocalInput(net[m], input))))]
    BY <1>4 DEF RaceTick
  <2>2. PICK n : n = Stepped(AfterDatagram(LocalInput(net[m], input)))
    OBVIOUS
  <2>3. PICK d : d = Datagram(LocalInput(net[m], input))
    OBVIOUS
  <2>4. Moved(m, n, {d})
    BY <2>1, <2>2, <2>3, SendMoves
  <2>5. Ticks(m, n, {d})
    BY <1>2, <2>1, <2>2, <2>3 DEF Ticks
  <2>6. QED
    BY <2>4, <2>5
<1>5. CASE SettleTick(m)
  <2>1. /\ StepAndSend(m, Stepped(AfterDatagram(LocalInput(net[m], Idle))),
                       Datagram(LocalInput(net[m], Idle)))
        /\ driven' = [driven EXCEPT ![m] = HeldTo(m, Idle)]
        /\ recording' = recording
    BY <1>5 DEF SettleTick
  <2>2. PICK n : n = Stepped(AfterDatagram(LocalInput(net[m], Idle)))
    OBVIOUS
  <2>3. PICK d : d = Datagram(LocalInput(net[m], Idle))
    OBVIOUS
  <2>4. Moved(m, n, {d})
    BY <2>1, <2>2, <2>3, SendMoves
  <2>5. Ticks(m, n, {d})
    BY <1>2, <2>1, <2>2, <2>3 DEF Ticks
  <2>6. QED
    BY <2>4, <2>5
<1>6. CASE SettleAnswer(m)
  <2>1. /\ StepAndSend(m, AfterDatagram(net[m]), Datagram(net[m]))
        /\ driven' = driven
        /\ recording' = [recording EXCEPT ![m] = Recorded(@, net[m])]
    BY <1>6 DEF SettleAnswer
  <2>2. PICK n : n = AfterDatagram(net[m])
    OBVIOUS
  <2>3. PICK d : d = Datagram(net[m])
    OBVIOUS
  <2>4. Moved(m, n, {d})
    BY <2>1, <2>2, <2>3, SendMoves
  <2>5. Answers(m, n, {d})
    BY <2>1, <2>2, <2>3 DEF Answers
  <2>6. QED
    BY <2>4, <2>5
<1>7. CASE FinishRace(m) \/ Leave(m)
  <2>1. /\ net' = [net EXCEPT ![m] = Finish(@)]
        /\ transit' = transit \/ transit' = [transit EXCEPT ![m] = {}]
        /\ driven' = driven /\ recording' = recording
    BY <1>7 DEF FinishRace, Leave
  <2>2. PICK n : n = Finish(net[m])
    OBVIOUS
  <2>3. Moved(m, n, {})
    BY <1>3, <2>1, <2>2 DEF Moved
  <2>4. Listens(m, n, {})
    BY <2>1, <2>2 DEF Listens
  <2>5. QED
    BY <2>3, <2>4
<1>8. CASE EndSettle(m)
  <2>1. /\ net' = net /\ transit' = [transit EXCEPT ![m] = {}]
        /\ driven' = driven /\ recording' = recording
    BY <1>8 DEF EndSettle
  <2>2. PICK n : n = net[m]
    OBVIOUS
  <2>3. Moved(m, n, {})
    BY <1>3, <2>1, <2>2 DEF Moved
  <2>4. Listens(m, n, {})
    BY <2>1, <2>2 DEF Listens
  <2>5. QED
    BY <2>3, <2>4
<1>9. CASE Deliver(m)
  <2>1. PICK d \in transit[m] :
          /\ net' = [net EXCEPT ![m] = Receive(@, d)]
          /\ transit' = [transit EXCEPT ![m] = @ \ {d}]
    BY <1>9 DEF Deliver
  <2>2. driven' = driven /\ recording' = recording
    BY <1>9 DEF Deliver
  <2>3. PICK n : n = Receive(net[m], d)
    OBVIOUS
  <2>4. Moved(m, n, {})
    BY <1>3, <2>1, <2>3 DEF Moved
  <2>5. Listens(m, n, {})
    BY <2>1, <2>2, <2>3 DEF Listens
  <2>6. QED
    BY <2>4, <2>5
<1>10. QED
  BY <1>1, <1>4, <1>5, <1>6, <1>7, <1>8, <1>9
\* What one step does to the machine that takes it.
LEMMA StepOfOne ==
  ASSUME Sessions, NEW m \in Player, NEW n, NEW sent,
         Ticks(m, n, sent) \/ Answers(m, n, sent) \/ Listens(m, n, sent)
  PROVE  /\ Good(n) /\ Replays(n) /\ Kept(n) /\ n.me = m /\ Grows(net[m], n)
         /\ \A d \in sent : Shaped(d)
         /\ recording' = [p \in Player |-> recording'[p]]
         /\ Written(recording'[m], n)
         /\ \A p \in Player \ {m} : recording'[p] = recording[p]
<1>1. PICK s : s = net[m]
  OBVIOUS
<1>2. PICK log : log = recording[m]
  OBVIOUS
<1>3. /\ Good(s) /\ Replays(s) /\ Kept(s) /\ s.me = m /\ Written(log, s)
      /\ \A d \in transit[m] : Shaped(d)
      /\ recording = [p \in Player |-> recording[p]]
      /\ s.confirmedTick \in Nat
  BY <1>1, <1>2 DEF Sessions, Good, Typed
\* It is enough to know the session and what was written down of it.
<1>4. SUFFICES /\ Good(n) /\ Replays(n) /\ Kept(n) /\ n.me = m /\ Grows(s, n)
               /\ \A d \in sent : Shaped(d)
               /\ \E w : /\ Written(w, n)
                         /\ recording' = recording \/ recording' = [recording EXCEPT ![m] = w]
  <2>1. SUFFICES /\ recording' = [p \in Player |-> recording'[p]]
                 /\ Written(recording'[m], n)
                 /\ \A p \in Player \ {m} : recording'[p] = recording[p]
    BY <1>1, <1>4
  <2>2. PICK w : /\ Written(w, n)
                 /\ recording' = recording \/ recording' = [recording EXCEPT ![m] = w]
    BY <1>4
  <2>3. CASE recording' = recording
    <3>1. Written(log, n)
      BY <1>3, <1>4, GrowsWritten
    <3>2. QED
      BY <1>2, <1>3, <2>3, <3>1
  <2>4. CASE recording' = [recording EXCEPT ![m] = w]
    BY <1>3, <2>2, <2>4
  <2>5. QED
    BY <2>2, <2>3, <2>4
<1>5. CASE Ticks(m, n, sent)
  <2>1. PICK input \in Input :
          /\ n = Stepped(AfterDatagram(LocalInput(s, input)))
          /\ sent = {Datagram(LocalInput(s, input))}
    BY <1>1, <1>5 DEF Ticks
  <2>2. PICK h : h = LocalInput(s, input)
    OBVIOUS
  <2>3. Good(h) /\ Good(n) /\ Replays(n) /\ Kept(n) /\ n.me = s.me /\ Grows(s, n)
    BY <1>3, <2>1, <2>2, Ticked
  <2>4. \A d \in sent : Shaped(d)
    BY <2>1, <2>2, <2>3, DatagramShaped
  <2>5. Written(log, n)
    BY <1>3, <2>3, GrowsWritten
  <2>6. PICK w : w = Recorded(log, n)
    OBVIOUS
  <2>7. Written(w, n)
    BY <2>3, <2>5, <2>6, RecordedWritten
  <2>8. recording' = recording \/ recording' = [recording EXCEPT ![m] = w]
    BY <1>2, <1>5, <2>6 DEF Ticks
  <2>9. QED
    BY <1>3, <2>3, <2>4, <2>7, <2>8
<1>6. CASE Answers(m, n, sent)
  <2>1. n = AfterDatagram(s) /\ sent = {Datagram(s)}
    BY <1>1, <1>6 DEF Answers
  <2>2. Good(n) /\ SameRace(s, n)
    BY <1>3, <2>1, FlushSame
  <2>3. Replays(n) /\ Kept(n) /\ n.me = m /\ Grows(s, n)
    BY <1>3, <2>2, SameRaceSame, CallsKeep DEF SameRace
  <2>4. \A d \in sent : Shaped(d)
    BY <1>3, <2>1, DatagramShaped
  <2>5. PICK w : w = Recorded(log, s)
    OBVIOUS
  <2>6. Written(w, n)
    BY <1>3, <2>2, <2>3, <2>5, RecordedWritten, GrowsWritten
  <2>7. recording' = [recording EXCEPT ![m] = w]
    BY <1>1, <1>2, <1>6, <2>5 DEF Answers
  <2>8. QED
    BY <2>2, <2>3, <2>4, <2>6, <2>7
<1>7. CASE Listens(m, n, sent)
  <2>1. /\ n = s \/ n = Finish(s) \/ \E d \in transit[m] : n = Receive(s, d)
        /\ sent = {} /\ recording' = recording
    BY <1>1, <1>7 DEF Listens
  <2>2. Good(n) /\ Replays(n) /\ Kept(n) /\ n.me = m /\ Grows(s, n)
    <3>1. CASE n = s
      BY <1>3, <3>1 DEF Grows
    <3>2. CASE n = Finish(s)
      <4>1. Good(n) /\ SameRace(s, n)
        BY <1>3, <3>2, FlushSame
      <4>2. QED
        BY <1>3, <4>1, SameRaceSame, CallsKeep DEF SameRace
    <3>3. CASE \E d \in transit[m] : n = Receive(s, d)
      <4>1. PICK d : Shaped(d) /\ n = Receive(s, d)
        BY <1>3, <3>3
      <4>2. Good(n) /\ Grows(s, n) /\ n.me = s.me /\ Replays(n)
        BY <1>3, <4>1, ReceiveGood, ReceiveReplays
      <4>3. Kept(n)
        BY <1>3, <4>1, CallsKeep
      <4>4. QED
        BY <1>3, <4>2, <4>3
    <3>4. QED
      BY <2>1, <3>1, <3>2, <3>3
  <2>3. Written(log, n)
    BY <1>3, <2>2, GrowsWritten
  <2>4. QED
    BY <2>1, <2>2, <2>3
<1>8. QED
  BY <1>5, <1>6, <1>7

\* A step of one machine keeps every session, and takes back nothing anybody agreed.
LEMMA StepOfAll ==
  ASSUME Sessions, NEW m \in Player, NEW n, NEW sent, Moved(m, n, sent),
         Ticks(m, n, sent) \/ Answers(m, n, sent) \/ Listens(m, n, sent)
  PROVE  /\ Sessions'
         /\ \A p \in Player : Grows(net[p], net'[p])
<1>1. /\ Good(n) /\ Replays(n) /\ Kept(n) /\ n.me = m /\ Grows(net[m], n)
      /\ \A d \in sent : Shaped(d)
      /\ recording' = [p \in Player |-> recording'[p]]
      /\ Written(recording'[m], n)
      /\ \A p \in Player \ {m} : recording'[p] = recording[p]
  BY StepOfOne
<1>2. /\ net' = [p \in Player |-> net'[p]] /\ transit' = [p \in Player |-> transit'[p]]
      /\ net'[m] = n
      /\ \A p \in Player \ {m} :
            net'[p] = net[p] \/ \E d \in sent : net'[p] = Receive(net[p], d)
      /\ \A p \in Player : transit'[p] \subseteq transit[p] \cup sent
  BY DEF Moved
<1>3. ASSUME NEW p \in Player
      PROVE  /\ Good(net'[p]) /\ Replays(net'[p]) /\ Kept(net'[p]) /\ net'[p].me = p
             /\ Grows(net[p], net'[p]) /\ Written(recording'[p], net'[p])
  <2>1. PICK s : s = net[p]
    OBVIOUS
  <2>2. PICK r : r = net'[p]
    OBVIOUS
  <2>3. PICK log : log = recording[p]
    OBVIOUS
  <2>4. /\ Good(s) /\ Replays(s) /\ Kept(s) /\ s.me = p /\ Written(log, s)
        /\ s.confirmedTick \in Nat
    BY <2>1, <2>3 DEF Sessions, Good, Typed
  <2>5. CASE p = m
    BY <1>1, <1>2, <2>5
  <2>6. CASE p # m
    <3>1. r = s \/ \E d \in sent : r = Receive(s, d)
      BY <1>2, <2>1, <2>2, <2>6
    <3>2. Good(r) /\ Replays(r) /\ Kept(r) /\ r.me = p /\ Grows(s, r)
      <4>1. CASE r = s
        BY <2>4, <4>1 DEF Grows
      <4>2. CASE \E d \in sent : r = Receive(s, d)
        <5>1. PICK d : Shaped(d) /\ r = Receive(s, d)
          BY <1>1, <4>2
        <5>2. Good(r) /\ Grows(s, r) /\ r.me = s.me /\ Replays(r)
          BY <2>4, <5>1, ReceiveGood, ReceiveReplays
        <5>3. Kept(r)
          BY <2>4, <5>1, CallsKeep
        <5>4. QED
          BY <2>4, <5>2, <5>3
      <4>3. QED
        BY <3>1, <4>1, <4>2
    <3>3. Written(log, r)
      BY <2>4, <3>2, GrowsWritten
    <3>4. recording'[p] = log
      BY <1>1, <2>3, <2>6
    <3>5. QED
      BY <2>1, <2>2, <3>2, <3>3, <3>4
  <2>7. QED
    BY <2>5, <2>6
<1>4. \A p \in Player : \A d \in transit'[p] : Shaped(d)
  BY <1>1, <1>2 DEF Sessions
<1>5. QED
  BY <1>1, <1>2, <1>3, <1>4 DEF Sessions

\* Every session of every machine keeps both invariants, and what it writes down is
\* its agreed race: for any number of machines, and whatever the network does.
THEOREM SessionsAlwaysGood == Spec => []Sessions
<1>1. Init => Sessions
  <2> SUFFICES ASSUME Init PROVE Sessions
    OBVIOUS
  <2>1. /\ net = [m \in Player |-> Begin(m)] /\ transit = [m \in Player |-> {}]
        /\ recording = [m \in Player |-> <<>>]
    BY DEF Init
  <2>2. ASSUME NEW m \in Player
        PROVE  Good(Begin(m)) /\ Replays(Begin(m)) /\ Kept(Begin(m)) /\ Begin(m).me = m
               /\ Written(<<>>, Begin(m))
    <3>1. Begin(m).confirmedTick = 0
      BY DEF Begin
    <3>2. QED
      BY <3>1, BeginGood, BeginReplays DEF Kept, Written
  <2>3. QED
    BY <2>1, <2>2 DEF Sessions
<1>2. Sessions /\ [Next]_vars => Sessions'
  <2>1. ASSUME Sessions, Next PROVE Sessions'
    BY <2>1, EveryStep, StepOfAll
  <2>2. ASSUME Sessions, UNCHANGED vars PROVE Sessions'
    BY <2>2 DEF Sessions, vars
  <2>3. QED
    BY <2>1, <2>2
<1>3. QED
  BY <1>1, <1>2, PTL DEF Spec

\* Whatever a machine writes down is the race it agreed, from its first tick and
\* without a gap: gs_record_confirmed stops at the first tick the ring has lost.
THEOREM RecordingIsAlwaysTheRace == Spec => []RecordingIsTheRace
<1>1. Sessions => RecordingIsTheRace
  BY DEF Sessions, Written, RecordingIsTheRace
<1>2. QED
  BY <1>1, SessionsAlwaysGood, PTL
\* No step takes back or changes a tick that any machine has agreed.
THEOREM NobodyGoesBack == Spec => [][\A m \in Player : Grows(net[m], net'[m])]_vars
<1>1. ASSUME Sessions, Next PROVE \A m \in Player : Grows(net[m], net'[m])
  BY <1>1, EveryStep, StepOfAll
<1>2. Sessions /\ [Next]_vars => [\A m \in Player : Grows(net[m], net'[m])]_vars
  BY <1>1
<1>3. QED
  BY <1>2, SessionsAlwaysGood, PTL DEF Spec

-----------------------------------------------------------------------------
(* The race of two. *)

\* The inductive invariant of a race of two machines, on top of that of any number.
HonestRace ==
  /\ Drives(driven)
  /\ \A m \in Player : Honest(net[m], driven)
  /\ \A m \in Player : \A d \in transit[m] : Faithful(d, net[m], driven)

\* What a step decides and sends: nothing but what was driven.
LEMMA HonestOfOne ==
  ASSUME TwoMachines, Sessions, HonestRace, NEW m \in Player, NEW n, NEW sent,
         Ticks(m, n, sent) \/ Answers(m, n, sent) \/ Listens(m, n, sent)
  PROVE  /\ Extends(driven, driven') /\ \A p \in Player \ {m} : driven'[p] = driven[p]
         /\ Honest(n, driven')
         /\ \A p \in Player \ {m} : \A d \in sent : Faithful(d, net[p], driven')
         /\ driven' = driven \/ \E input \in Input :
               driven' = [driven EXCEPT ![m] = Append(driven[m], input)]
<1>1. PICK s : s = net[m]
  OBVIOUS
<1>2. PICK D : D = driven
  OBVIOUS
<1>3. PICK E : E = driven'
  OBVIOUS
<1>4. /\ Good(s) /\ Replays(s) /\ Kept(s) /\ s.me = m /\ Honest(s, D) /\ Drives(D)
      /\ s.confirmedTick \in Nat
      /\ \A d \in transit[m] : Faithful(d, s, D)
  BY <1>1, <1>2 DEF Sessions, HonestRace, Good, Typed
<1>5. Extends(D, D)
  BY <1>4 DEF Extends, Drives
\* Whatever is sent to a peer is faithful to it, if the session it is read from is honest.
<1>6. ASSUME NEW h, Good(h), Replays(h), h.me = m, Drives(E), Honest(h, E),
             \A p \in Player \ {m} : E[p] = D[p]
      PROVE  \A p \in Player \ {m} : Faithful(Datagram(h), net[p], E)
  <2> TAKE p \in Player \ {m}
  <2>1. PICK q : q = net[p]
    OBVIOUS
  <2>2. Good(q) /\ q.me = p /\ Honest(q, D)
    BY <1>2, <2>1 DEF Sessions, HonestRace
  <2>3. Len(E[q.me]) = End(q) /\ q.me # h.me
    BY <1>6, <2>2 DEF Honest
  <2>4. Hashed(h)
    BY <1>6 DEF Replays
  <2>5. Faithful(Datagram(h), q, E)
    BY <1>6, <2>2, <2>3, <2>4, DatagramFaithful
  <2>6. QED
    BY <2>1, <2>5
<1>7. SUFFICES /\ Extends(D, E) /\ \A p \in Player \ {m} : E[p] = D[p]
               /\ Honest(n, E)
               /\ \A p \in Player \ {m} : \A d \in sent : Faithful(d, net[p], E)
               /\ E = D \/ \E input \in Input : E = [D EXCEPT ![m] = Append(D[m], input)]
  BY <1>2, <1>3
<1>8. CASE Ticks(m, n, sent)
  <2>1. PICK input \in Input :
          /\ n = Stepped(AfterDatagram(LocalInput(s, input)))
          /\ sent = {Datagram(LocalInput(s, input))}
          /\ E = [D EXCEPT ![m] = HeldTo(m, input)]
    BY <1>1, <1>2, <1>3, <1>8 DEF Ticks
  <2>2. PICK h : h = LocalInput(s, input)
    OBVIOUS
  <2>3. E = [D EXCEPT ![s.me] = IF Known(s, s.localTick, s.me) THEN D[s.me]
                                ELSE Append(D[s.me], input)]
    BY <1>1, <1>2, <1>4, <2>1 DEF HeldTo
  <2>4. Extends(D, E) /\ Honest(h, E)
    BY <1>4, <2>2, <2>3, LocalInputHonest
  <2>5. Drives(E) /\ \A p \in Player \ {m} : E[p] = D[p]
    BY <1>4, <2>3, <2>4 DEF Extends, Drives
  <2>6. Good(h) /\ Replays(h) /\ h.me = m /\ Honest(n, E)
    BY <1>4, <2>1, <2>2, <2>4, <2>5, Ticked
  <2>7. E = D \/ \E i \in Input : E = [D EXCEPT ![m] = Append(D[m], i)]
    <3>1. CASE Known(s, s.localTick, s.me)
      <4>1. E = [D EXCEPT ![m] = D[m]]
        BY <1>4, <2>3, <3>1
      <4>2. QED
        BY <1>4, <4>1 DEF Drives
    <3>2. CASE ~Known(s, s.localTick, s.me)
      BY <1>4, <2>3, <3>2
    <3>3. QED
      BY <3>1, <3>2
  <2>8. \A p \in Player \ {m} : Faithful(Datagram(h), net[p], E)
    BY <1>6, <2>4, <2>5, <2>6
  <2>9. QED
    BY <2>1, <2>2, <2>4, <2>5, <2>6, <2>7, <2>8
<1>9. CASE Answers(m, n, sent)
  <2>1. n = AfterDatagram(s) /\ sent = {Datagram(s)} /\ E = D
    BY <1>1, <1>2, <1>3, <1>9 DEF Answers
  <2>2. Good(n) /\ SameRace(s, n)
    BY <1>4, <2>1, FlushSame
  <2>3. Honest(n, E)
    BY <1>4, <2>1, <2>2, SameRaceSame
  <2>4. \A p \in Player \ {m} : Faithful(Datagram(s), net[p], E)
    BY <1>4, <1>6, <2>1
  <2>5. QED
    BY <1>5, <2>1, <2>3, <2>4
<1>10. CASE Listens(m, n, sent)
  <2>1. /\ n = s \/ n = Finish(s) \/ \E d \in transit[m] : n = Receive(s, d)
        /\ sent = {} /\ E = D
    BY <1>1, <1>2, <1>3, <1>10 DEF Listens
  <2>2. Honest(n, D)
    <3>1. CASE n = Finish(s)
      <4>1. Good(n) /\ SameRace(s, n)
        BY <1>4, <3>1, FlushSame
      <4>2. QED
        BY <1>4, <4>1, SameRaceSame
    <3>2. CASE \E d \in transit[m] : n = Receive(s, d)
      <4>1. PICK d : Faithful(d, s, D) /\ n = Receive(s, d)
        BY <1>4, <3>2
      <4>2. QED
        BY <1>4, <4>1, ReceiveHonest
    <3>3. QED
      BY <1>4, <2>1, <3>1, <3>2
  <2>3. QED
    BY <1>5, <2>1, <2>2
<1>11. QED
  BY <1>8, <1>9, <1>10

\* A step of one of two keeps both honest, and everything on its way faithful.
LEMMA HonestOfAll ==
  ASSUME TwoMachines, Sessions, HonestRace, NEW m \in Player, NEW n, NEW sent,
         Moved(m, n, sent),
         Ticks(m, n, sent) \/ Answers(m, n, sent) \/ Listens(m, n, sent)
  PROVE  HonestRace'
<1>1. PICK D : D = driven
  OBVIOUS
<1>2. PICK E : E = driven'
  OBVIOUS
<1>3. /\ Extends(D, E) /\ \A p \in Player \ {m} : E[p] = D[p]
      /\ Honest(n, E)
      /\ \A p \in Player \ {m} : \A d \in sent : Faithful(d, net[p], E)
  BY <1>1, <1>2, HonestOfOne
<1>4. Drives(E) /\ Extends(E, E)
  BY <1>3 DEF Extends, Drives
<1>5. /\ Sessions' /\ \A p \in Player : Grows(net[p], net'[p])
  BY StepOfAll
<1>6. ASSUME NEW p \in Player
      PROVE  Honest(net'[p], E) /\ \A d \in transit'[p] : Faithful(d, net'[p], E)
  <2>1. PICK s : s = net[p]
    OBVIOUS
  <2>2. PICK r : r = net'[p]
    OBVIOUS
  <2>3. /\ Good(s) /\ Replays(s) /\ s.me = p /\ Honest(s, D)
        /\ s.confirmedTick \in Nat
        /\ \A d \in transit[p] : Faithful(d, s, D)
    BY <1>1, <2>1 DEF Sessions, HonestRace, Good, Typed
  <2>4. Good(r) /\ r.confirmedTick \in Nat /\ r.confirmedTick >= s.confirmedTick
    BY <1>5, <2>1, <2>2 DEF Sessions, Good, Typed, Grows
  <2>5. ASSUME NEW d \in transit[p] PROVE Faithful(d, r, E)
    BY <1>3, <2>3, <2>4, ExtendsFaithful
  <2>6. CASE p = m
    <3>1. r = n /\ transit'[p] \subseteq transit[p]
      BY <2>2, <2>6 DEF Moved
    <3>2. QED
      BY <1>3, <2>2, <2>5, <3>1
  <2>7. CASE p # m
    <3>1. /\ r = s \/ \E d \in sent : r = Receive(s, d)
          /\ transit'[p] \subseteq transit[p] \cup sent
      BY <2>1, <2>2, <2>7 DEF Moved
    <3>2. \A d \in sent : Faithful(d, s, E)
      BY <1>3, <2>1, <2>7
    <3>3. Honest(s, E)
      BY <1>3, <2>3, <2>7, ExtendsHonest
    <3>4. Honest(r, E)
      <4>1. CASE \E d \in sent : r = Receive(s, d)
        <5>1. PICK d : Faithful(d, s, E) /\ r = Receive(s, d)
          BY <3>2, <4>1
        <5>2. QED
          BY <1>4, <2>3, <3>3, <5>1, ReceiveHonest
      <4>2. QED
        BY <3>1, <3>3, <4>1
    <3>5. ASSUME NEW d \in sent PROVE Faithful(d, r, E)
      BY <1>4, <2>3, <2>4, <3>2, ExtendsFaithful
    <3>6. QED
      BY <2>2, <2>5, <3>1, <3>4, <3>5
  <2>8. QED
    BY <2>6, <2>7
<1>7. QED
  BY <1>2, <1>4, <1>6 DEF HonestRace

\* Nothing is driven, agreed or on its way when a race begins.
LEMMA BeginHonest ==
  ASSUME NEW m \in Player, NEW D, D = [p \in Player |-> <<>>]
  PROVE  Drives(D) /\ Honest(Begin(m), D)
<1>1. PICK s : s = Begin(m)
  OBVIOUS
<1>2. /\ s.me = m /\ s.confirmedTick = 0 /\ s.localTick = 0
      /\ s.confirmed = [t \in 0 .. -1 |-> [p \in Player |-> Idle]]
      /\ s.stamp = [k \in Slots |-> NoTick]
      /\ ~s.cheated /\ ~s.desynced
  BY <1>1 DEF Begin
<1>3. Drives(D) /\ \A p \in Player : Len(D[p]) = 0
  BY DEF Drives
<1>4. \A t \in Nat : ~Live(s, t)
  BY <1>2, SlotType DEF Live, NoTick
<1>5. Len(D[s.me]) = End(s)
  BY <1>2, <1>3, <1>4 DEF End, Known
<1>6. Truthful(s, D)
  BY <1>4 DEF Truthful, Known, Promised
<1>7. OwnHeld(s, D) /\ NotAhead(s, D)
  BY <1>2, <1>3 DEF OwnHeld, NotAhead
<1>8. AgreesWith(s, D)
  BY <1>2, <1>3 DEF AgreesWith, RaceOf
<1>9. QED
  BY <1>1, <1>2, <1>3, <1>5, <1>6, <1>7, <1>8 DEF Honest

\* Between two machines everything said, held and agreed is what was driven.
THEOREM TwoAreHonest == TwoMachines => (Spec => [](Sessions /\ HonestRace))
<1> SUFFICES ASSUME TwoMachines PROVE Spec => [](Sessions /\ HonestRace)
  OBVIOUS
<1>1. Init => HonestRace
  <2> SUFFICES ASSUME Init PROVE HonestRace
    OBVIOUS
  <2>1. /\ net = [m \in Player |-> Begin(m)] /\ transit = [m \in Player |-> {}]
        /\ driven = [m \in Player |-> <<>>]
    BY DEF Init
  <2>2. Drives(driven) /\ \A m \in Player : Honest(Begin(m), driven)
    <3>1. Drives(driven)
      BY <2>1 DEF Drives
    <3>2. QED
      BY <2>1, <3>1, BeginHonest
  <2>3. QED
    BY <2>1, <2>2 DEF HonestRace
<1>2. Sessions /\ HonestRace /\ [Next]_vars => HonestRace'
  <2>1. ASSUME Sessions, HonestRace, Next PROVE HonestRace'
    BY <2>1, EveryStep, HonestOfAll
  <2>2. ASSUME HonestRace, UNCHANGED vars PROVE HonestRace'
    BY <2>2 DEF HonestRace, vars
  <2>3. QED
    BY <2>1, <2>2
<1>3. QED
  BY <1>1, <1>2, SessionsAlwaysGood, PTL DEF Spec

\* Of two machines that keep to the protocol neither ever accuses the other.
THEOREM NobodyIsFalselyAccused == TwoMachines => (Spec => []NoFalseAccusation)
<1>1. HonestRace => NoFalseAccusation
  BY DEF HonestRace, Honest, NoFalseAccusation
<1>2. QED
  BY <1>1, TwoAreHonest, PTL

\* ... and never do their hashes disagree.
THEOREM NobodyDesyncs == TwoMachines => (Spec => []NoDesync)
<1>1. HonestRace => NoDesync
  BY DEF HonestRace, Honest, NoDesync
<1>2. QED
  BY <1>1, TwoAreHonest, PTL

\* A race of two implements the race without a network: whatever is lost, late,
\* repeated or guessed, both agree one race, the one that was driven, and only ever
\* extend it.
THEOREM TwoAgreeOneRace == TwoMachines => (Spec => ImplementsAgreedRace)
<1> SUFFICES ASSUME TwoMachines PROVE Spec => ImplementsAgreedRace
  OBVIOUS
<1>1. Init => Race!Init
  <2> SUFFICES ASSUME Init PROVE Race!Init
    OBVIOUS
  <2>1. driven = [m \in Player |-> <<>>] /\ net = [m \in Player |-> Begin(m)]
    BY DEF Init
  <2>2. ASSUME NEW m \in Player PROVE net[m].confirmed = Race!RaceOf(driven, 0)
    BY <2>1 DEF Begin, Race!RaceOf
  <2>3. QED
    BY <2>1, <2>2 DEF Race!Init
<1>2. Sessions /\ HonestRace /\ (Sessions /\ HonestRace)' /\ [Next]_vars => [Race!Next]_(Race!vars)
  <2>1. CASE UNCHANGED vars
    BY <2>1 DEF vars, Race!vars
  <2>2. ASSUME Sessions, HonestRace, Sessions', HonestRace', Next
        PROVE  Race!Next
    <3>1. PICK m \in Player : \E n, sent :
            /\ Moved(m, n, sent)
            /\ Ticks(m, n, sent) \/ Answers(m, n, sent) \/ Listens(m, n, sent)
      BY <2>2, EveryStep
    <3>2. PICK n, sent :
            /\ Moved(m, n, sent)
            /\ Ticks(m, n, sent) \/ Answers(m, n, sent) \/ Listens(m, n, sent)
      BY <3>1
    <3>3. \/ driven' = driven
          \/ \E input \in Input : driven' = [driven EXCEPT ![m] = Append(driven[m], input)]
      BY <2>2, <3>2, HonestOfOne
    <3>4. \A p \in Player : Grows(net[p], net'[p])
      BY <2>2, <3>2, StepOfAll
    <3>5. ASSUME NEW p \in Player
          PROVE  \E k \in 0 .. Len(driven'[p]) :
                   /\ \A q \in Player : k <= Len(driven'[q])
                   /\ DOMAIN net[p].confirmed \subseteq 0 .. k - 1
                   /\ net'[p].confirmed = Race!RaceOf(driven', k)
      <4>1. PICK s : s = net[p]
        OBVIOUS
      <4>2. PICK r : r = net'[p]
        OBVIOUS
      <4>3. PICK D : D = driven
        OBVIOUS
      <4>4. PICK E : E = driven'
        OBVIOUS
      <4>5. /\ AgreesWith(s, D) /\ AgreesWith(r, E) /\ Grows(s, r)
            /\ s.confirmedTick \in Nat /\ r.confirmedTick \in Nat
        BY <2>2, <3>4, <4>1, <4>2, <4>3, <4>4 DEF HonestRace, Honest, Sessions, Good, Typed
      <4>6. /\ r.confirmedTick \in 0 .. Len(E[p])
            /\ \A q \in Player : r.confirmedTick <= Len(E[q])
        <5>1. Drives(E)
          BY <2>2, <4>4 DEF HonestRace
        <5>2. Len(E[p]) \in Nat
          BY <5>1 DEF Drives
        <5>3. QED
          BY <4>5, <5>2 DEF AgreesWith
      <4>7. DOMAIN s.confirmed \subseteq 0 .. r.confirmedTick - 1
        <5>1. DOMAIN s.confirmed = 0 .. s.confirmedTick - 1
          BY <4>5 DEF AgreesWith, RaceOf
        <5>2. s.confirmedTick <= r.confirmedTick
          BY <4>5 DEF Grows
        <5>3. 0 .. s.confirmedTick - 1 \subseteq 0 .. r.confirmedTick - 1
          BY <4>5, <5>2
        <5>4. QED
          BY <5>1, <5>3
      <4>8. r.confirmed = Race!RaceOf(E, r.confirmedTick)
        BY <4>5 DEF AgreesWith, RaceOf, Race!RaceOf
      <4>9. QED
        BY <4>1, <4>2, <4>4, <4>6, <4>7, <4>8
    <3>6. Race!Agree
      BY <3>5 DEF Race!Agree
    <3>7. driven' = driven \/ \E p \in Player : Race!Decide(p)
      BY <3>3 DEF Race!Decide
    <3>8. QED
      BY <3>6, <3>7 DEF Race!Next
  <2>3. QED
    BY <2>1, <2>2
<1>3. QED
  BY <1>1, <1>2, TwoAreHonest, PTL DEF Spec, ImplementsAgreedRace, Race!Spec
-----------------------------------------------------------------------------
(* What is handed in. *)

\* Whoever was driven to the line has been, however long the race goes on.
LEMMA OverStays ==
  ASSUME NEW D, NEW k \in Nat, NEW l \in Nat, k <= l, Over(RaceOf(D, k))
  PROVE  Over(RaceOf(D, l))
<1> DEFINE Pressed(j, p) == {t \in DOMAIN RaceOf(D, j) : RaceOf(D, j)[t][p] # Idle}
<1>1. SUFFICES ASSUME NEW p \in Player PROVE Cardinality(Pressed(l, p)) >= Distance
  BY DEF Over
<1>2. Cardinality(Pressed(k, p)) >= Distance
  BY DEF Over
<1>3. \A j \in Nat : Pressed(j, p) = {t \in 0 .. j - 1 : D[p][t + 1] # Idle}
  BY DEF RaceOf
<1>4. Pressed(k, p) \in SUBSET Pressed(l, p) /\ Pressed(l, p) \in SUBSET (0 .. l - 1)
  BY <1>3
<1>5. IsFiniteSet(0 .. l - 1)
  BY FS_Interval
<1>6. IsFiniteSet(Pressed(l, p))
  BY <1>4, <1>5, FS_Subset
<1>7. IsFiniteSet(Pressed(k, p)) /\ Cardinality(Pressed(k, p)) <= Cardinality(Pressed(l, p))
  BY <1>4, <1>6, FS_Subset
<1>8. Cardinality(Pressed(k, p)) \in Nat /\ Cardinality(Pressed(l, p)) \in Nat
  BY <1>6, <1>7, FS_CardinalityType
<1>9. Distance \in Nat
  BY RaceAssumption
<1> HIDE DEF Pressed
<1>10. QED
  BY <1>2, <1>7, <1>8, <1>9

\* The race to tick j is what the race to a later tick begins with.
LEMMA RaceUpTo ==
  ASSUME NEW D, NEW k \in Nat, NEW j \in 0 .. k
  PROVE  [t \in 0 .. j - 1 |-> RaceOf(D, k)[t]] = RaceOf(D, j)
<1>1. \A t \in 0 .. j - 1 : t \in 0 .. k - 1
  OBVIOUS
<1>2. \A t \in 0 .. j - 1 : RaceOf(D, k)[t] = [p \in Player |-> D[p][t + 1]]
  BY <1>1 DEF RaceOf
<1>3. QED
  BY <1>2 DEF RaceOf

\* The tick that ends the race D, within the first k.
Ends(D, k) == {j \in 0 .. k : Over(RaceOf(D, j)) /\ (j > 0 => ~Over(RaceOf(D, j - 1)))}

\* The endings of a race cut off at k are those of the race.
LEMMA EndingOf ==
  ASSUME NEW D, NEW k \in Nat
  PROVE  Ending(RaceOf(D, k)) = {RaceOf(D, j) : j \in Ends(D, k)}
<1>1. PICK w : w = RaceOf(D, k)
  OBVIOUS
<1>2. Cardinality(DOMAIN w) = k
  <2>1. DOMAIN w = 0 .. k - 1
    BY <1>1 DEF RaceOf
  <2>2. Cardinality(0 .. k - 1) = IF 0 > k - 1 THEN 0 ELSE (k - 1) - 0 + 1
    BY FS_Interval
  <2>3. QED
    BY <2>1, <2>2
<1>3. \A j \in 0 .. k : [t \in 0 .. j - 1 |-> w[t]] = RaceOf(D, j)
  BY <1>1, RaceUpTo
<1>4. \A j \in 0 .. k : j > 0 => j - 1 \in 0 .. k
  OBVIOUS
<1>5. {j \in 0 .. k : Over([t \in 0 .. j - 1 |-> w[t]])
                      /\ (j > 0 => ~Over([t \in 0 .. (j - 1) - 1 |-> w[t]]))} = Ends(D, k)
  BY <1>3, <1>4 DEF Ends
<1>6. \A j \in Ends(D, k) : j \in 0 .. k
  BY DEF Ends
<1>7. Ending(w) = {[t \in 0 .. j - 1 |-> w[t]] : j \in Ends(D, k)}
  BY <1>2, <1>5 DEF Ending
<1>8. {[t \in 0 .. j - 1 |-> w[t]] : j \in Ends(D, k)} = {RaceOf(D, j) : j \in Ends(D, k)}
  BY <1>3, <1>6
<1>9. QED
  BY <1>1, <1>7, <1>8

\* One race cut off at two ticks, at both of which it is over, ended once.
LEMMA OneEnding ==
  ASSUME NEW D, NEW k \in Nat, NEW l \in Nat, Over(RaceOf(D, k)), Over(RaceOf(D, l))
  PROVE  Ending(RaceOf(D, k)) # {} /\ Ending(RaceOf(D, k)) = Ending(RaceOf(D, l))
<1>1. ASSUME NEW a \in Nat, NEW b \in Nat, Over(RaceOf(D, b)) PROVE Ends(D, a) \subseteq Ends(D, b)
  <2>1. ASSUME NEW j \in Ends(D, a), j > b PROVE FALSE
    <3>1. j - 1 \in Nat /\ b <= j - 1 /\ ~Over(RaceOf(D, j - 1))
      BY <2>1 DEF Ends
    <3>2. QED
      BY <1>1, <3>1, OverStays
  <2>2. QED
    BY <2>1 DEF Ends
<1>2. Ends(D, k) = Ends(D, l)
  BY <1>1
<1>3. Ends(D, k) # {}
  <2>1. PICK T : T = {j \in Nat : Over(RaceOf(D, j))}
    OBVIOUS
  <2>2. PICK j \in T : \A i \in T : j <= i
    BY <2>1, LeastNat
  <2>3. j \in 0 .. k /\ Over(RaceOf(D, j))
    BY <2>1, <2>2
  <2>4. j > 0 => ~Over(RaceOf(D, j - 1))
    BY <2>1, <2>2
  <2>5. QED
    BY <2>3, <2>4 DEF Ends
<1>4. Ending(RaceOf(D, k)) = {RaceOf(D, j) : j \in Ends(D, k)}
  BY EndingOf
<1>5. Ending(RaceOf(D, l)) = {RaceOf(D, j) : j \in Ends(D, l)}
  BY EndingOf
<1>6. PICK e : e \in Ends(D, k)
  BY <1>3
<1>7. RaceOf(D, e) \in Ending(RaceOf(D, k))
  BY <1>4, <1>6
<1>8. QED
  BY <1>2, <1>4, <1>5, <1>7

\* Every claim m made is of a race it had agreed, to a tick at which it was over.
HandedIn(m) ==
  \A claim \in submitted[m] : \E k \in 0 .. net[m].confirmedTick :
     claim.agreed = [t \in 0 .. k - 1 |-> net[m].confirmed[t]] /\ Over(claim.agreed)

AllClaimed == submitted = [m \in Player |-> submitted[m]] /\ \A m \in Player : HandedIn(m)

\* Nothing is handed in but the agreed race, when it is over.
LEMMA HandsIn ==
  ASSUME Next, AllClaimed
  PROVE  /\ submitted' = [m \in Player |-> submitted'[m]]
         /\ \A m \in Player : \A claim \in submitted'[m] :
              \/ claim \in submitted[m]
              \/ /\ Over(net[m].confirmed)
                 /\ claim.agreed = net[m].hash[Slot(net[m].confirmedTick)]
<1>1. PICK m \in Player : RaceTick(m) \/ FinishRace(m) \/ SettleTick(m) \/ SettleAnswer(m)
                          \/ Deliver(m) \/ Leave(m) \/ EndSettle(m)
  BY DEF Next, Frame
<1>2. CASE SettleAnswer(m)
  <2>1. PICK a : a = net[m].hash[Slot(net[m].confirmedTick)]
    OBVIOUS
  <2>2. PICK log : log = recording'[m]
    OBVIOUS
  <2>3. \/ submitted' = [submitted EXCEPT ![m] = submitted[m]]
        \/ /\ Over(net[m].confirmed)
           /\ submitted' = [submitted EXCEPT ![m] = {[log |-> log, agreed |-> a]}]
    BY <1>2, <2>1, <2>2 DEF SettleAnswer
  <2>4. submitted = [p \in Player |-> submitted[p]]
    BY DEF AllClaimed
  <2>5. QED
    BY <2>1, <2>3, <2>4
<1>3. CASE ~SettleAnswer(m)
  <2>1. submitted' = submitted
    BY <1>1, <1>3 DEF RaceTick, FinishRace, SettleTick, Deliver, Leave, EndSettle
  <2>2. QED
    BY <2>1 DEF AllClaimed
<1>4. QED
  BY <1>2, <1>3

\* What a machine hands in is, to the tick, a race it agreed and saw end, for any
\* number of machines: the hash that goes with it is that of the agreed race, and no
\* later tick changes it.
THEOREM ClaimsAreAgreed == Spec => []AllClaimed
<1>1. Init => AllClaimed
  BY DEF Init, AllClaimed, HandedIn
<1>2. ASSUME Sessions, AllClaimed, Next PROVE AllClaimed'
  <2>1. /\ submitted' = [m \in Player |-> submitted'[m]]
        /\ \A m \in Player : \A claim \in submitted'[m] :
              \/ claim \in submitted[m]
              \/ /\ Over(net[m].confirmed)
                 /\ claim.agreed = net[m].hash[Slot(net[m].confirmedTick)]
    BY <1>2, HandsIn
  <2>2. ASSUME NEW m \in Player, NEW claim \in submitted'[m]
        PROVE  \E k \in 0 .. net'[m].confirmedTick :
                 /\ claim.agreed = [t \in 0 .. k - 1 |-> net'[m].confirmed[t]]
                 /\ Over(claim.agreed)
    <3>1. PICK s : s = net[m]
      OBVIOUS
    <3>2. PICK r : r = net'[m]
      OBVIOUS
    <3>3. /\ Good(s) /\ Replays(s) /\ Good(r) /\ Grows(s, r)
          /\ s.confirmedTick \in Nat /\ r.confirmedTick \in Nat
          /\ World(s.confirmed, s.confirmedTick)
      <4>1. Sessions' /\ Grows(s, r)
        BY <1>2, <3>1, <3>2, EveryStep, StepOfAll
      <4>2. QED
        BY <1>2, <3>1, <3>2, <4>1 DEF Sessions, Good, Typed
    <3>4. \E k \in 0 .. s.confirmedTick :
            claim.agreed = [t \in 0 .. k - 1 |-> s.confirmed[t]] /\ Over(claim.agreed)
      <4>1. CASE claim \in submitted[m]
        BY <1>2, <3>1, <4>1 DEF AllClaimed, HandedIn
      <4>2. CASE Over(s.confirmed) /\ claim.agreed = s.hash[Slot(s.confirmedTick)]
        <5>1. s.confirmedTick \in 0 .. s.confirmedTick /\ s.confirmedTick - s.confirmedTick < Window
          BY <3>3, NetAssumption
        <5>2. s.hash[Slot(s.confirmedTick)] = [t \in 0 .. s.confirmedTick - 1 |-> s.confirmed[t]]
          BY <3>3, <5>1 DEF Replays, Hashed
        <5>3. [t \in 0 .. s.confirmedTick - 1 |-> s.confirmed[t]] = s.confirmed
          BY <3>3 DEF World
        <5>4. QED
          BY <4>2, <5>1, <5>2, <5>3
      <4>3. QED
        BY <2>1, <3>1, <4>1, <4>2
    <3>5. PICK k \in 0 .. s.confirmedTick :
            claim.agreed = [t \in 0 .. k - 1 |-> s.confirmed[t]] /\ Over(claim.agreed)
      BY <3>4
    <3>6. k \in 0 .. r.confirmedTick
      BY <3>3 DEF Grows
    <3>7. [t \in 0 .. k - 1 |-> s.confirmed[t]] = [t \in 0 .. k - 1 |-> r.confirmed[t]]
      <4>1. \A t \in 0 .. k - 1 : t \in 0 .. s.confirmedTick - 1
        BY <3>3
      <4>2. QED
        BY <4>1, <3>3 DEF Grows
    <3>8. QED
      BY <3>2, <3>5, <3>6, <3>7
  <2>3. QED
    BY <2>1, <2>2 DEF AllClaimed, HandedIn
<1>3. Sessions /\ AllClaimed /\ [Next]_vars => AllClaimed'
  <2>1. ASSUME AllClaimed, UNCHANGED vars PROVE AllClaimed'
    BY <2>1 DEF AllClaimed, HandedIn, vars
  <2>2. QED
    BY <1>2, <2>1
<1>4. QED
  BY <1>1, <1>3, SessionsAlwaysGood, PTL DEF Spec

\* However far past the finish each of two machines had to step, what they hand in is
\* a race that is over, and it ended for both at the same tick in the same way.
THEOREM EndingsAlwaysMatch == TwoMachines => (Spec => []EndingsMatch)
<1> SUFFICES ASSUME TwoMachines PROVE Spec => []EndingsMatch
  OBVIOUS
<1>1. ASSUME Sessions, HonestRace, AllClaimed,
             NEW a \in Player, NEW b \in Player,
             NEW ours \in submitted[a], NEW yours \in submitted[b]
      PROVE  Ending(ours.agreed) # {} /\ Ending(ours.agreed) = Ending(yours.agreed)
  <2>1. ASSUME NEW m \in Player, NEW claim \in submitted[m]
        PROVE  \E k \in Nat : claim.agreed = RaceOf(driven, k) /\ Over(claim.agreed)
    <3>1. PICK s : s = net[m]
      OBVIOUS
    <3>2. PICK k \in 0 .. s.confirmedTick :
            claim.agreed = [t \in 0 .. k - 1 |-> s.confirmed[t]] /\ Over(claim.agreed)
      BY <1>1, <3>1 DEF AllClaimed, HandedIn
    <3>3. s.confirmedTick \in Nat /\ s.confirmed = RaceOf(driven, s.confirmedTick)
      BY <1>1, <3>1 DEF Sessions, Good, Typed, HonestRace, Honest, AgreesWith
    <3>4. [t \in 0 .. k - 1 |-> s.confirmed[t]] = RaceOf(driven, k)
      BY <3>3, RaceUpTo
    <3>5. QED
      BY <3>2, <3>3, <3>4
  <2>2. PICK k \in Nat : ours.agreed = RaceOf(driven, k) /\ Over(ours.agreed)
    BY <1>1, <2>1
  <2>3. PICK l \in Nat : yours.agreed = RaceOf(driven, l) /\ Over(yours.agreed)
    BY <1>1, <2>1
  <2>4. QED
    BY <2>2, <2>3, OneEnding
<1>2. Sessions /\ HonestRace /\ AllClaimed => EndingsMatch
  BY <1>1 DEF EndingsMatch
<1>3. QED
  BY <1>2, TwoAreHonest, ClaimsAreAgreed, PTL
=============================================================================
