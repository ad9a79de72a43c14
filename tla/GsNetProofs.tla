---------------------------- MODULE GsNetProofs -----------------------------
(***************************************************************************)
(* What the operators of GsNet keep of one session, for every number of    *)
(* players, every set of inputs, every window, and whatever is heard.      *)
(*                                                                         *)
(* The invariant is Good(s), the conjunction of the types, that the window *)
(* is held, that slots hold what their stamps say, and that what is known  *)
(* was promised. None is inductive alone: that a datagram takes no slot    *)
(* from a tick still to be replayed needs the bound on the window; that    *)
(* what is known was promised needs slots to hold the tick their stamp     *)
(* says; and so on round. On top of it is Replays(s): while the session    *)
(* stands, no wrong guess is left in the window and the race on screen is  *)
(* the agreed race followed by what was used since; and the ring of hashes *)
(* is right within a window of the frontier. The first two need each other:*)
(* agreeing a tick moves it from `used` to the agreed race, which changes  *)
(* nothing on screen only because its guesses were right.                  *)
(*                                                                         *)
(* gs_net.c is written as calls inside calls, so there is one lemma per    *)
(* operator, stated of a session s and its successor r, and each says what *)
(* the call keeps (Good, Keeps, SameBut, SameRing, Grows) as well as what  *)
(* it changes. The theorems about GsPeer and GsRace start from these.      *)
(***************************************************************************)
EXTENDS GsNet, TLAPS, WellFoundedInduction

\* Every tick has a slot.
LEMMA SlotType ==
  ASSUME NEW t \in Nat
  PROVE  Slot(t) \in Slots
  BY NetAssumption DEF Slot, Slots

\* A multiple of w by one or more is at least w.
LEMMA Times ==
  ASSUME NEW w \in Nat, NEW q \in Int, q >= 1
  PROVE  w * q >= w
  BY SMT

\* Two ticks less than a window apart never share a slot: why `tick % Window` is
\* enough of an address.
LEMMA SlotApart ==
  ASSUME NEW t \in Nat, NEW u \in Nat, t < u, u - t < Window
  PROVE  Slot(t) # Slot(u)
<1> DEFINE q == t \div Window
           r == u \div Window
<1>1. t = Window * q + (t % Window) /\ u = Window * r + (u % Window) /\ q \in Int /\ r \in Int
  BY NetAssumption
<1>2. SUFFICES ASSUME t % Window = u % Window PROVE FALSE
  BY DEF Slot
<1>3. u - t = Window * (r - q)
  BY <1>1, <1>2, NetAssumption
<1>. HIDE DEF q, r
<1>4. r - q >= 1 => Window * (r - q) >= Window
  BY <1>1, Times, NetAssumption
<1>5. r - q <= 0 => Window * (q - r) >= 0
  BY <1>1, NetAssumption
<1>6. QED
  BY <1>1, <1>3, <1>4, <1>5, NetAssumption

\* The ticks of T lie in the window.
InRange(s, T) == T \subseteq s.confirmedTick .. s.confirmedTick + Window - 1

\* What a session keeps when only its ring is written to.
SameBut(s, r) ==
  /\ r.me = s.me
  /\ r.confirmed = s.confirmed /\ r.confirmedTick = s.confirmedTick
  /\ r.current = s.current /\ r.localTick = s.localTick
  /\ r.used = s.used /\ r.hash = s.hash
  /\ r.flushing = s.flushing /\ r.flushWait = s.flushWait
  /\ r.desynced = s.desynced

\* What gs_claim does to the ring, slot by slot: a claimed slot that held another
\* tick is emptied and stamped, one that held this tick is left alone, and so is
\* every slot that was not claimed.
LEMMA ClaimRing ==
  ASSUME NEW s, Typed(s), NEW T, InRange(s, T), NEW r, r = Claim(s, T)
  PROVE  /\ Typed(r) /\ SameBut(s, r) /\ r.cheated = s.cheated
         /\ \A k \in Slots : (\A t \in T : Slot(t) # k) =>
               /\ r.stamp[k] = s.stamp[k] /\ r.known[k] = s.known[k]
               /\ r.committed[k] = s.committed[k] /\ r.in[k] = s.in[k]
               /\ r.promise[k] = s.promise[k]
         /\ \A t \in T :
               /\ r.stamp[Slot(t)] = t
               /\ s.stamp[Slot(t)] # t =>
                    r.known[Slot(t)] = {} /\ r.committed[Slot(t)] = {}
               /\ s.stamp[Slot(t)] = t =>
                    /\ r.known[Slot(t)] = s.known[Slot(t)]
                    /\ r.committed[Slot(t)] = s.committed[Slot(t)]
                    /\ r.in[Slot(t)] = s.in[Slot(t)]
                    /\ r.promise[Slot(t)] = s.promise[Slot(t)]
<1> DEFINE holder(k) == IF \E t \in T : Slot(t) = k
                        THEN CHOOSE t \in T : Slot(t) = k
                        ELSE s.stamp[k]
<1>1. T \subseteq Nat
  BY DEF InRange, Typed
<1>2. \A t \in T : Slot(t) \in Slots /\ holder(Slot(t)) = t
  <2> TAKE t \in T
  <2>1. Slot(t) \in Slots
    BY <1>1, SlotType
  <2>2. \A u \in T : Slot(u) = Slot(t) => u = t
    <3> TAKE u \in T
    <3>1. u \in Nat /\ t \in Nat /\ u - t < Window /\ t - u < Window
      BY <1>1, NetAssumption DEF InRange, Typed
    <3> QED
      BY <3>1, SlotApart
  <2> QED
    BY <2>1, <2>2
<1>3. \A k \in Slots : holder(k) \in Nat \cup {NoTick}
  BY <1>1, <1>2 DEF Typed
<1>4. \A k \in Slots : (\A t \in T : Slot(t) # k) => holder(k) = s.stamp[k]
  OBVIOUS
<1>5. r = [s EXCEPT
          !.stamp     = [k \in Slots |-> holder(k)],
          !.known     = [k \in Slots |-> IF holder(k) = s.stamp[k] THEN s.known[k] ELSE {}],
          !.committed = [k \in Slots |-> IF holder(k) = s.stamp[k] THEN s.committed[k] ELSE {}],
          !.in        = [k \in Slots |-> IF holder(k) = s.stamp[k] THEN s.in[k]
                                         ELSE [p \in Player |-> Idle]],
          !.promise   = [k \in Slots |-> IF holder(k) = s.stamp[k] THEN s.promise[k]
                                         ELSE [p \in Player |-> Idle]]]
  BY DEF Claim
<1>. HIDE DEF holder
<1>6. /\ r.stamp = [k \in Slots |-> holder(k)]
      /\ r.known = [k \in Slots |-> IF holder(k) = s.stamp[k] THEN s.known[k] ELSE {}]
      /\ r.committed = [k \in Slots |-> IF holder(k) = s.stamp[k] THEN s.committed[k] ELSE {}]
      /\ r.in = [k \in Slots |-> IF holder(k) = s.stamp[k] THEN s.in[k]
                                 ELSE [p \in Player |-> Idle]]
      /\ r.promise = [k \in Slots |-> IF holder(k) = s.stamp[k] THEN s.promise[k]
                                      ELSE [p \in Player |-> Idle]]
      /\ SameBut(s, r) /\ r.cheated = s.cheated
  BY <1>5 DEF Typed, SameBut
<1>7. IsSession(r)
  BY <1>5 DEF Typed, IsSession
<1>8. /\ r.stamp \in [Slots -> Nat \cup {NoTick}]
      /\ r.known \in [Slots -> SUBSET Player]
      /\ r.committed \in [Slots -> SUBSET Player]
  BY <1>3, <1>6 DEF Typed
<1>9. r.in \in [Slots -> Vector] /\ r.promise \in [Slots -> Vector]
  BY <1>6, NetAssumption DEF Typed, Vector
<1>10. Typed(r)
  BY <1>6, <1>7, <1>8, <1>9 DEF Typed, SameBut
<1>11. \A k \in Slots : (\A t \in T : Slot(t) # k) =>
               /\ r.stamp[k] = s.stamp[k] /\ r.known[k] = s.known[k]
               /\ r.committed[k] = s.committed[k] /\ r.in[k] = s.in[k]
               /\ r.promise[k] = s.promise[k]
  BY <1>4, <1>6
<1>12. ASSUME NEW t \in T
       PROVE  /\ r.stamp[Slot(t)] = t
              /\ s.stamp[Slot(t)] # t =>
                    r.known[Slot(t)] = {} /\ r.committed[Slot(t)] = {}
              /\ s.stamp[Slot(t)] = t =>
                    /\ r.known[Slot(t)] = s.known[Slot(t)]
                    /\ r.committed[Slot(t)] = s.committed[Slot(t)]
                    /\ r.in[Slot(t)] = s.in[Slot(t)]
                    /\ r.promise[Slot(t)] = s.promise[Slot(t)]
  BY <1>2, <1>6
<1>13. QED
  BY <1>6, <1>10, <1>11, <1>12

-----------------------------------------------------------------------------

\* The inductive invariant: the four parts are only inductive together.
Good(s) == Typed(s) /\ Held(s) /\ Sound(s) /\ Proven(s)

\* Nothing held within the window is dropped or changed.
Keeps(s, r) ==
  \A t \in s.confirmedTick .. s.confirmedTick + Window - 1 : \A p \in Player :
     /\ Promised(s, t, p) => /\ Promised(r, t, p)
                             /\ r.promise[Slot(t)][p] = s.promise[Slot(t)][p]
     /\ Known(s, t, p)    => /\ Known(r, t, p)
                             /\ r.in[Slot(t)][p] = s.in[Slot(t)][p]

\* What is held after was held before, and is the same.
AddsNothing(s, r) ==
  \A t \in Nat : \A p \in Player :
     /\ Promised(r, t, p) => /\ Promised(s, t, p)
                             /\ r.promise[Slot(t)][p] = s.promise[Slot(t)][p]
     /\ Known(r, t, p)    => /\ Known(s, t, p)
                             /\ r.in[Slot(t)][p] = s.in[Slot(t)][p]

\* Within one window a slot belongs to one tick.
LEMMA SlotOnly ==
  ASSUME NEW c \in Nat, NEW t \in c .. c + Window - 1, NEW u \in c .. c + Window - 1,
         Slot(t) = Slot(u)
  PROVE  t = u
<1>1. t \in Nat /\ u \in Nat /\ u - t < Window /\ t - u < Window
  BY NetAssumption
<1>2. t < u \/ u < t \/ t = u
  BY <1>1
<1>3. QED
  BY <1>1, <1>2, SlotApart

\* Keeping what is held survives a second call that keeps it.
LEMMA KeepsTransitive ==
  ASSUME NEW s, NEW r, NEW q, r.confirmedTick = s.confirmedTick, Keeps(s, r), Keeps(r, q)
  PROVE  Keeps(s, q)
  BY DEF Keeps

\* Claiming slots for ticks inside the window keeps the invariant, drops nothing
\* that is held for a tick of the window, and adds nothing.
LEMMA ClaimKeeps ==
  ASSUME NEW s, Good(s), NEW T, InRange(s, T), NEW r, r = Claim(s, T)
  PROVE  /\ Good(r) /\ Keeps(s, r)
         /\ \A t \in T : Live(r, t)
         /\ AddsNothing(s, r)
<1>1. /\ Typed(s) /\ Typed(r) /\ SameBut(s, r)
      /\ \A t \in T : t \in Nat /\ Slot(t) \in Slots
      /\ s.confirmedTick \in Nat /\ Window \in Nat
  <2>1. \A t \in T : t \in Nat
    BY DEF Good, Typed, InRange
  <2>2. QED
    BY <2>1, ClaimRing, SlotType, NetAssumption DEF Good, Typed
<1>2. \A k \in Slots : (\A t \in T : Slot(t) # k) =>
               /\ r.stamp[k] = s.stamp[k] /\ r.known[k] = s.known[k]
               /\ r.committed[k] = s.committed[k] /\ r.in[k] = s.in[k]
               /\ r.promise[k] = s.promise[k]
  BY ClaimRing DEF Good
<1>3. \A t \in T :
               /\ r.stamp[Slot(t)] = t
               /\ s.stamp[Slot(t)] # t =>
                    r.known[Slot(t)] = {} /\ r.committed[Slot(t)] = {}
               /\ s.stamp[Slot(t)] = t =>
                    /\ r.known[Slot(t)] = s.known[Slot(t)]
                    /\ r.committed[Slot(t)] = s.committed[Slot(t)]
                    /\ r.in[Slot(t)] = s.in[Slot(t)]
                    /\ r.promise[Slot(t)] = s.promise[Slot(t)]
  BY ClaimRing DEF Good
<1>4. \A t \in s.confirmedTick .. s.confirmedTick + Window - 1 :
         \A u \in T : Slot(u) = Slot(t) => u = t
  BY <1>1, SlotOnly DEF InRange
<1>5. Keeps(s, r)
  <2> SUFFICES ASSUME NEW t \in s.confirmedTick .. s.confirmedTick + Window - 1,
                      Live(s, t)
               PROVE  /\ Live(r, t)
                      /\ r.known[Slot(t)] = s.known[Slot(t)]
                      /\ r.committed[Slot(t)] = s.committed[Slot(t)]
                      /\ r.in[Slot(t)] = s.in[Slot(t)]
                      /\ r.promise[Slot(t)] = s.promise[Slot(t)]
    BY DEF Keeps, Promised, Known
  <2>1. t \in Nat /\ Slot(t) \in Slots
    BY <1>1, SlotType
  <2>2. CASE t \in T
    BY <2>2, <1>3 DEF Live
  <2>3. CASE t \notin T
    BY <2>1, <2>3, <1>2, <1>4 DEF Live
  <2>4. QED
    BY <2>2, <2>3
<1>6. Held(r)
  <2>1. \A t \in Unconfirmed(s) : t \in s.confirmedTick .. s.confirmedTick + Window - 1
    BY <1>1 DEF Good, Held, Unconfirmed, Typed
  <2>2. \A t \in Unconfirmed(s) : Known(r, t, s.me)
    BY <2>1, <1>5 DEF Keeps, Good, Held, Typed
  <2>3. QED
    BY <2>2, <1>1 DEF Good, Held, Unconfirmed, SameBut
<1>7. Sound(r)
  <2> SUFFICES ASSUME NEW k \in Slots, r.stamp[k] # NoTick
               PROVE  Slot(r.stamp[k]) = k /\ r.stamp[k] < r.confirmedTick + Window
    BY DEF Sound
  <2>1. CASE \E t \in T : Slot(t) = k
    BY <2>1, <1>1, <1>3 DEF InRange, SameBut
  <2>2. CASE \A t \in T : Slot(t) # k
    BY <2>2, <1>1, <1>2 DEF Good, Sound, SameBut
  <2>3. QED
    BY <2>1, <2>2
<1>8. Proven(r)
  <2> SUFFICES ASSUME NEW k \in Slots, NEW p \in r.known[k] \ {s.me}
               PROVE  p \in r.committed[k] /\ r.in[k][p] = r.promise[k][p]
    BY <1>1 DEF Proven, SameBut
  <2>1. CASE \E t \in T : Slot(t) = k
    BY <2>1, <1>1, <1>3 DEF Good, Proven
  <2>2. CASE \A t \in T : Slot(t) # k
    BY <2>2, <1>2 DEF Good, Proven
  <2>3. QED
    BY <2>1, <2>2
<1>9. AddsNothing(s, r)
  <2> SUFFICES ASSUME NEW t \in Nat, Live(r, t), NEW p \in Player
               PROVE  /\ p \in r.committed[Slot(t)] => /\ s.stamp[Slot(t)] = t
                                                       /\ r.committed[Slot(t)] = s.committed[Slot(t)]
                                                       /\ r.promise[Slot(t)] = s.promise[Slot(t)]
                      /\ p \in r.known[Slot(t)]     => /\ s.stamp[Slot(t)] = t
                                                       /\ r.known[Slot(t)] = s.known[Slot(t)]
                                                       /\ r.in[Slot(t)] = s.in[Slot(t)]
    BY DEF AddsNothing, Promised, Known, Live
  <2>1. CASE \E u \in T : Slot(u) = Slot(t)
    BY <2>1, <1>3 DEF Live
  <2>2. CASE \A u \in T : Slot(u) # Slot(t)
    BY <2>2, <1>2, SlotType DEF Live
  <2>3. QED
    BY <2>1, <2>2
<1>10. QED
  BY <1>1, <1>3, <1>5, <1>6, <1>7, <1>8, <1>9 DEF Good, Live

\* gs_net_local_input keeps the invariant and the ring, and makes this machine's
\* input for the tick it is about to simulate known.
LEMMA LocalInputGood ==
  ASSUME NEW s, Good(s), NEW input \in Input, NEW r, r = LocalInput(s, input)
  PROVE  /\ Good(r) /\ Keeps(s, r) /\ SameBut(s, r) /\ r.cheated = s.cheated
         /\ Known(r, s.localTick, s.me)
         /\ \A t \in Nat : \A p \in Player \ {s.me} : Known(r, t, p) => Known(s, t, p)
<1> DEFINE k == Slot(s.localTick)
<1>1. /\ s.localTick \in Nat /\ s.confirmedTick \in Nat /\ InRange(s, {s.localTick})
      /\ k \in Slots /\ s.me \in Player
  BY SlotType, NetAssumption DEF Good, Typed, Held, InRange
<1> HIDE DEF k
<1>2. PICK c : c = Claim(s, {s.localTick})
  OBVIOUS
<1>3. /\ Good(c) /\ Keeps(s, c) /\ SameBut(s, c) /\ Live(c, s.localTick)
      /\ c.cheated = s.cheated /\ AddsNothing(s, c) /\ Typed(c)
  <2>1. Good(c) /\ Keeps(s, c) /\ Live(c, s.localTick) /\ AddsNothing(s, c)
    BY <1>1, <1>2, ClaimKeeps
  <2>2. SameBut(s, c) /\ c.cheated = s.cheated
    BY <1>1, <1>2, ClaimRing DEF Good
  <2>3. QED
    BY <2>1, <2>2 DEF Good
<1>4. r = IF s.me \in c.known[k] THEN c
          ELSE [c EXCEPT !.in = [c.in EXCEPT ![k] = [c.in[k] EXCEPT ![s.me] = input]],
                         !.known = [c.known EXCEPT ![k] = c.known[k] \cup {s.me}]]
  BY <1>1, <1>2 DEF LocalInput, k
<1>5. CASE s.me \in c.known[k]
  BY <1>1, <1>3, <1>4, <1>5 DEF Known, AddsNothing, k
<1>6. CASE s.me \notin c.known[k]
  <2>1. /\ r.in = [c.in EXCEPT ![k] = [c.in[k] EXCEPT ![s.me] = input]]
        /\ r.known = [c.known EXCEPT ![k] = c.known[k] \cup {s.me}]
        /\ r.stamp = c.stamp /\ r.committed = c.committed /\ r.promise = c.promise
        /\ r.cheated = c.cheated /\ SameBut(c, r)
    BY <1>3, <1>4, <1>6 DEF Typed, SameBut
  <2>2. IsSession(r)
    BY <1>3, <1>4, <1>6 DEF Typed, IsSession
  <2>3. r.in \in [Slots -> Vector] /\ r.known \in [Slots -> SUBSET Player]
    BY <1>1, <1>3, <2>1 DEF Typed, Vector
  <2>4. /\ r.in[k][s.me] = input /\ r.known[k] = c.known[k] \cup {s.me}
        /\ \A p \in Player \ {s.me} : r.in[k][p] = c.in[k][p]
        /\ \A j \in Slots \ {k} : r.in[j] = c.in[j] /\ r.known[j] = c.known[j]
    BY <1>1, <1>3, <2>1 DEF Typed, Vector
  <2>5. Typed(r)
    BY <1>3, <2>1, <2>2, <2>3 DEF Typed, SameBut
  <2>6. Known(r, s.localTick, s.me)
    BY <1>1, <1>3, <2>1, <2>4 DEF Known, Live, k
  <2>7. \A t \in Nat : \A p \in Player :
          /\ Live(r, t) <=> Live(c, t)
          /\ Known(c, t, p) => Known(r, t, p) /\ r.in[Slot(t)][p] = c.in[Slot(t)][p]
          /\ Known(r, t, p) /\ p # s.me => Known(c, t, p)
    BY <1>1, <1>6, <2>1, <2>4, SlotType DEF Known, Live
  <2>8. Keeps(c, r)
    <3>1. \A t \in c.confirmedTick .. c.confirmedTick + Window - 1 : t \in Nat
      BY <1>3, NetAssumption DEF Typed
    <3>2. QED
      BY <2>1, <2>7, <3>1 DEF Keeps, Promised, Live
  <2>9. Held(r)
    <3>1. \A t \in Unconfirmed(c) : t \in Nat
      BY <1>3 DEF Typed, Unconfirmed
    <3>2. QED
      BY <1>1, <1>3, <2>1, <2>7, <3>1 DEF Good, Held, Unconfirmed, SameBut
  <2>10. Sound(r)
    BY <1>3, <2>1 DEF Good, Sound, SameBut
  <2>11. Proven(r)
    <3> SUFFICES ASSUME NEW j \in Slots, NEW p \in r.known[j] \ {s.me}
                 PROVE  p \in r.committed[j] /\ r.in[j][p] = r.promise[j][p]
      BY <1>3, <2>1 DEF Proven, SameBut
    <3>1. p \in Player /\ p \in c.known[j] /\ r.in[j][p] = c.in[j][p]
      BY <1>3, <2>3, <2>4 DEF Typed
    <3>2. QED
      BY <1>3, <2>1, <3>1 DEF Good, Proven, SameBut
  <2>12. Keeps(s, r) /\ SameBut(s, r) /\ r.cheated = s.cheated
    BY <1>3, <2>1, <2>8, KeepsTransitive DEF SameBut
  <2>13. QED
    BY <1>3, <2>5, <2>6, <2>7, <2>9, <2>10, <2>11, <2>12 DEF Good, AddsNothing
<1>7. QED
  BY <1>5, <1>6

-----------------------------------------------------------------------------

\* The order of the naturals, as a well-founded relation.
LEMMA NatLess ==
  \E R : IsWellFoundedOn(R, Nat) /\ \A x, y \in Nat : y < x => <<y, x>> \in R
<1> DEFINE R == OpToRel(<, Nat)
<1>1. IsWellFoundedOn(R, Nat)
  BY NatLessThanWellFounded, Zenon
<1>2. \A x, y \in Nat : y < x => <<y, x>> \in R
  BY Zenon DEF OpToRel
<1> HIDE DEF R
<1>3. QED
  BY <1>1, <1>2

\* A set of naturals that is not empty has a least element.
LEMMA LeastNat ==
  ASSUME NEW T, T \subseteq Nat, T # {}
  PROVE  \E x \in T : \A y \in T : x <= y
<1>1. PICK R : IsWellFoundedOn(R, Nat) /\ \A x, y \in Nat : y < x => <<y, x>> \in R
  BY NatLess
<1>2. \E x \in T : \A y \in T : ~(<<y, x>> \in R)
  BY <1>1, WFMin
<1>3. PICK x \in T : \A y \in T : ~(<<y, x>> \in R)
  BY <1>2
<1>4. ASSUME NEW y \in T PROVE x <= y
  <2>1. x \in Nat /\ y \in Nat /\ ~(<<y, x>> \in R)
    BY <1>3
  <2>2. ~(y < x)
    BY <1>1, <2>1
  <2> QED
    BY <2>1, <2>2
<1>5. QED
  BY <1>4

\* There is a tick up to which every input is known and at which one is missing, or
\* none is: the loop of gs_advance_confirmed stops there.
LEMMA FrontierIs ==
  ASSUME NEW s, s.confirmedTick \in Nat, s.localTick \in Nat, s.confirmedTick <= s.localTick
  PROVE  /\ Frontier(s) \in s.confirmedTick .. s.localTick
         /\ \A t \in s.confirmedTick .. Frontier(s) - 1 : Complete(s, t)
         /\ Frontier(s) = s.localTick \/ ~Complete(s, Frontier(s))
<1> DEFINE missing == {t \in s.confirmedTick .. s.localTick - 1 : ~Complete(s, t)}
           Reached(c) == /\ \A t \in s.confirmedTick .. c - 1 : Complete(s, t)
                         /\ c = s.localTick \/ ~Complete(s, c)
<1>1. \E c \in s.confirmedTick .. s.localTick : Reached(c)
  <2>1. CASE missing = {}
    <3>1. Reached(s.localTick)
      BY <2>1
    <3>2. QED
      BY <3>1
  <2>2. CASE missing # {}
    <3>1. missing \subseteq Nat
      OBVIOUS
    <3>2. PICK c \in missing : \A u \in missing : c <= u
      BY <2>2, <3>1, LeastNat
    <3>3. c \in s.confirmedTick .. s.localTick /\ ~Complete(s, c)
      BY <3>2
    <3>4. ASSUME NEW t \in s.confirmedTick .. c - 1
          PROVE  Complete(s, t)
      BY <3>2, <3>3
    <3>5. QED
      BY <3>3, <3>4
  <2>3. QED
    BY <2>1, <2>2
<1>2. Frontier(s) = CHOOSE c \in s.confirmedTick .. s.localTick : Reached(c)
  BY DEF Frontier
<1> HIDE DEF Reached
<1>3. Frontier(s) \in s.confirmedTick .. s.localTick /\ Reached(Frontier(s))
  BY <1>1, <1>2
<1>4. QED
  BY <1>3 DEF Reached

\* The ring as it was, for what it says of inputs and promises.
SameRing(s, r) ==
  /\ r.stamp = s.stamp /\ r.known = s.known /\ r.in = s.in
  /\ r.committed = s.committed /\ r.promise = s.promise

\* gs_advance_confirmed keeps the invariant and does not touch the ring.
LEMMA AdvanceGood ==
  ASSUME NEW s, Good(s), NEW r, r = AdvanceConfirmed(s)
  PROVE  /\ Good(r) /\ SameRing(s, r)
         /\ r.me = s.me /\ r.current = s.current /\ r.localTick = s.localTick
         /\ r.used = s.used /\ r.desynced = s.desynced /\ r.cheated = s.cheated
         /\ r.flushing = s.flushing /\ r.flushWait = s.flushWait
         /\ r.confirmedTick = Frontier(s) /\ r.confirmed = ConfirmedAt(s, Frontier(s))
         /\ r.hash = [k \in Slots |->
                         IF \E t \in HashedOnTheWay(s, Frontier(s)) : Slot(t) = k
                         THEN ConfirmedAt(s, CHOOSE t \in HashedOnTheWay(s, Frontier(s)) : Slot(t) = k)
                         ELSE s.hash[k]]
<1> DEFINE to == Frontier(s)
           newHash == [k \in Slots |->
                         IF \E t \in HashedOnTheWay(s, to) : Slot(t) = k
                         THEN ConfirmedAt(s, CHOOSE t \in HashedOnTheWay(s, to) : Slot(t) = k)
                         ELSE s.hash[k]]
<1>1. /\ Typed(s) /\ s.confirmedTick \in Nat /\ s.localTick \in Nat /\ Window \in Nat
      /\ to \in s.confirmedTick .. s.localTick
  BY FrontierIs, NetAssumption DEF Good, Typed, Held
<1>2. r = [s EXCEPT !.confirmed = ConfirmedAt(s, to), !.confirmedTick = to, !.hash = newHash]
  BY DEF AdvanceConfirmed
<1>3. newHash = [k \in Slots |-> newHash[k]]
  OBVIOUS
<1> HIDE DEF to, newHash
<1>4. /\ SameRing(s, r) /\ r.me = s.me /\ r.current = s.current /\ r.localTick = s.localTick
      /\ r.used = s.used /\ r.desynced = s.desynced /\ r.cheated = s.cheated
      /\ r.flushing = s.flushing /\ r.flushWait = s.flushWait
      /\ r.confirmedTick = to /\ r.confirmed = ConfirmedAt(s, to) /\ r.hash = newHash
  BY <1>1, <1>2 DEF Typed, SameRing
<1>5. IsSession(r)
  BY <1>1, <1>2 DEF Typed, IsSession
<1>6. World(ConfirmedAt(s, to), to)
  <2> SUFFICES ASSUME NEW t \in 0 .. to - 1
               PROVE  (IF t < s.confirmedTick THEN s.confirmed[t] ELSE s.in[Slot(t)]) \in Vector
    BY DEF World, ConfirmedAt
  <2>1. t \in Nat /\ Slot(t) \in Slots
    BY SlotType
  <2>2. CASE t < s.confirmedTick
    <3>1. World(s.confirmed, s.confirmedTick)
      BY <1>1 DEF Typed
    <3>2. QED
      BY <1>1, <2>1, <2>2, <3>1 DEF World
  <2>3. CASE ~(t < s.confirmedTick)
    BY <1>1, <2>1, <2>3 DEF Typed
  <2>4. QED
    BY <2>2, <2>3
<1>7. Typed(r)
  BY <1>1, <1>3, <1>4, <1>5, <1>6 DEF Typed, SameRing
<1>8. Held(r)
  BY <1>1, <1>4 DEF Good, Held, Unconfirmed, SameRing, Known, Live
<1>9. Sound(r)
  BY <1>1, <1>4 DEF Good, Sound, SameRing, Typed
<1>10. Proven(r)
  BY <1>4 DEF Good, Proven, SameRing
<1>11. QED
  BY <1>4, <1>7, <1>8, <1>9, <1>10 DEF Good, to, newHash

\* The agreed race of s is the beginning of that of r.
Grows(s, r) ==
  /\ r.confirmedTick >= s.confirmedTick
  /\ \A t \in 0 .. s.confirmedTick - 1 : r.confirmed[t] = s.confirmed[t]

\* gs_advance_confirmed only adds to the agreed race.
LEMMA AdvanceGrows ==
  ASSUME NEW s, Good(s), NEW r, r = AdvanceConfirmed(s)
  PROVE  Grows(s, r)
<1>1. s.confirmedTick \in Nat /\ s.localTick \in Nat /\ s.confirmedTick <= s.localTick
  BY DEF Good, Typed, Held
<1>2. Frontier(s) \in s.confirmedTick .. s.localTick
  BY <1>1, FrontierIs
<1>3. r.confirmedTick = Frontier(s) /\ r.confirmed = ConfirmedAt(s, Frontier(s))
  BY AdvanceGood
<1>4. QED
  BY <1>1, <1>2, <1>3 DEF Grows, ConfirmedAt

\* Whatever is known or guessed, every car gets an input.
LEMMA InputsForType ==
  ASSUME NEW s, Typed(s), NEW tick \in Nat
  PROVE  InputsFor(s, tick) \in Vector
<1> SUFFICES ASSUME NEW p \in Player
             PROVE  (IF Known(s, tick, p) THEN s.in[Slot(tick)][p] ELSE Predict(s, tick, p)) \in Input
  BY DEF InputsFor, Vector
<1>1. \A t \in Nat : s.in[Slot(t)][p] \in Input
  BY SlotType DEF Typed, Vector
<1> DEFINE back == IF tick < Window THEN tick ELSE Window
           reported == {t \in tick - back .. tick - 1 : Known(s, t, p)}
           latest(t) == t \in reported /\ \A u \in reported : u <= t
<1>2. reported \subseteq Nat
  BY NetAssumption
<1>3. Predict(s, tick, p) = IF \E t \in reported : latest(t)
                            THEN s.in[Slot(CHOOSE t \in reported : latest(t))][p]
                            ELSE Idle
  BY DEF Predict
<1> HIDE DEF reported, latest
<1>4. Predict(s, tick, p) \in Input
  BY <1>1, <1>2, <1>3, NetAssumption
<1>5. QED
  BY <1>1, <1>4

\* One more tick of the race on screen, before anything of it is agreed.
Simulated(s) ==
  LET inputs == InputsFor(s, s.localTick)
  IN [s EXCEPT !.used = [s.used EXCEPT ![Slot(s.localTick)] = inputs],
               !.current = WorldStep(s.current, s.localTick, inputs),
               !.localTick = s.localTick + 1]

\* A tick simulated with this machine's own input recorded keeps the invariant.
LEMMA SimulatedGood ==
  ASSUME NEW s, Good(s), Known(s, s.localTick, s.me), ~WindowFull(s),
         NEW q, q = Simulated(s), NEW inputs, inputs = InputsFor(s, s.localTick)
  PROVE  /\ Good(q) /\ SameRing(s, q) /\ inputs \in Vector
         /\ q.me = s.me /\ q.hash = s.hash /\ q.desynced = s.desynced /\ q.cheated = s.cheated
         /\ q.confirmedTick = s.confirmedTick /\ q.confirmed = s.confirmed
         /\ q.used = [s.used EXCEPT ![Slot(s.localTick)] = inputs]
         /\ q.current = WorldStep(s.current, s.localTick, inputs)
         /\ q.localTick = s.localTick + 1
<1>1. /\ Typed(s) /\ s.localTick \in Nat /\ s.confirmedTick \in Nat /\ Window \in Nat
      /\ inputs \in Vector
  BY InputsForType, NetAssumption DEF Good, Typed
<1>2. q = [s EXCEPT !.used = [s.used EXCEPT ![Slot(s.localTick)] = inputs],
                    !.current = WorldStep(s.current, s.localTick, inputs),
                    !.localTick = s.localTick + 1]
  BY DEF Simulated
<1>3. /\ SameRing(s, q) /\ q.me = s.me /\ q.hash = s.hash /\ q.desynced = s.desynced
      /\ q.cheated = s.cheated /\ q.flushing = s.flushing /\ q.flushWait = s.flushWait
      /\ q.confirmedTick = s.confirmedTick /\ q.confirmed = s.confirmed
      /\ q.used = [s.used EXCEPT ![Slot(s.localTick)] = inputs]
      /\ q.current = WorldStep(s.current, s.localTick, inputs)
      /\ q.localTick = s.localTick + 1
  BY <1>1, <1>2 DEF Typed, SameRing
<1>4. IsSession(q)
  BY <1>1, <1>2 DEF Typed, IsSession
<1>5. World(q.current, q.localTick)
  <2>1. \A t \in 0 .. s.localTick : (IF t < s.localTick THEN s.current[t] ELSE inputs) \in Vector
    BY <1>1 DEF Typed, World
  <2>2. QED
    BY <1>1, <1>3, <2>1 DEF World, WorldStep
<1>6. q.used \in [Slots -> Vector]
  BY <1>1, <1>3 DEF Typed
<1>7. Typed(q)
  BY <1>1, <1>3, <1>4, <1>5, <1>6 DEF Typed, SameRing
<1>8. Held(q)
  <2>1. q.localTick - q.confirmedTick < Window
    BY <1>1, <1>3 DEF WindowFull
  <2>2. \A t \in Unconfirmed(q) : Known(q, t, s.me)
    BY <1>1, <1>3 DEF Good, Held, Unconfirmed, SameRing, Known, Live
  <2>3. QED
    BY <1>1, <1>3, <2>1, <2>2 DEF Good, Held
<1>9. QED
  BY <1>1, <1>3, <1>7, <1>8 DEF Good, Sound, Proven, SameRing

\* gs_net_step keeps the invariant, the ring and the agreed race.
LEMMA StepGood ==
  ASSUME NEW s, Good(s), Known(s, s.localTick, s.me), NEW r, r = Step(s)
  PROVE  Good(r) /\ SameRing(s, r) /\ Grows(s, r) /\ r.me = s.me
<1>1. CASE s.cheated \/ WindowFull(s)
  BY <1>1 DEF Step, SameRing, Good, Typed, Grows
<1>2. CASE ~(s.cheated \/ WindowFull(s))
  <2>1. PICK q : q = Simulated(s)
    OBVIOUS
  <2>2. r = AdvanceConfirmed(q)
    BY <1>2, <2>1 DEF Step, Simulated
  <2>3. /\ Good(q) /\ SameRing(s, q)
        /\ q.confirmedTick = s.confirmedTick /\ q.confirmed = s.confirmed /\ q.me = s.me
    BY <1>2, <2>1, SimulatedGood
  <2>4. Good(r) /\ SameRing(q, r) /\ Grows(q, r) /\ r.me = q.me
    BY <2>2, <2>3, AdvanceGood, AdvanceGrows
  <2>5. QED
    BY <2>3, <2>4 DEF SameRing, Grows
<1>3. QED
  BY <1>1, <1>2

-----------------------------------------------------------------------------

\* What a datagram may be: its two runs are functions from ticks to inputs.
Shaped(d) ==
  /\ d.from \in Player
  /\ DOMAIN d.promise \subseteq Nat /\ \A t \in DOMAIN d.promise : d.promise[t] \in Input
  /\ DOMAIN d.reveal \subseteq Nat  /\ \A t \in DOMAIN d.reveal : d.reveal[t] \in Input

\* What is held after was held before.
LearnsNothing(s, r) ==
  \A t \in Nat : \A p \in Player :
     Known(r, t, p) => Known(s, t, p) /\ r.in[Slot(t)][p] = s.in[Slot(t)][p]

\* Hearing the promises of a datagram keeps the invariant and what is held, teaches
\* no input, and records no promise for a tick the same datagram reveals.
LEMMA HearPromisesGood ==
  ASSUME NEW s, Good(s), NEW d, Shaped(d), NEW r, r = HearPromises(s, d)
  PROVE  /\ Good(r) /\ Keeps(s, r) /\ SameBut(s, r) /\ LearnsNothing(s, r)
         /\ \A t \in Nat : \A p \in Player :
               Promised(r, t, p) /\ ~Promised(s, t, p) =>
                  /\ t \notin DOMAIN d.reveal /\ t \in PromisesDue(s, d)
                  /\ p = d.from /\ r.promise[Slot(t)][p] = d.promise[t]
<1> DEFINE due == PromisesDue(s, d)
           broken(t) == Promised(s, t, d.from) /\ s.promise[Slot(t)][d.from] # d.promise[t]
           heard == {t \in due : \A u \in due : broken(u) => t < u}
<1>1. /\ Typed(s) /\ s.confirmedTick \in Nat /\ Window \in Nat
      /\ due \subseteq DOMAIN d.promise \ DOMAIN d.reveal /\ due \subseteq Nat
      /\ \A t \in due : InWindow(s, t)
  BY NetAssumption DEF Good, Typed, PromisesDue, Shaped
<1>2. InRange(s, heard)
  BY <1>1 DEF InRange, InWindow
<1>3. PICK c : c = Claim(s, heard)
  OBVIOUS
<1>4. /\ Good(c) /\ Keeps(s, c) /\ SameBut(s, c) /\ AddsNothing(s, c) /\ Typed(c)
  <2>1. Good(c) /\ Keeps(s, c) /\ AddsNothing(s, c)
    BY <1>2, <1>3, ClaimKeeps
  <2>2. SameBut(s, c)
    BY <1>2, <1>3, ClaimRing DEF Good
  <2>3. QED
    BY <2>1, <2>2 DEF Good
<1> DEFINE new(k) == c.stamp[k] \in heard /\ d.from \notin c.committed[k]
           committed == [k \in Slots |-> IF new(k) THEN c.committed[k] \cup {d.from}
                                                   ELSE c.committed[k]]
           promise == [k \in Slots |-> IF new(k)
                           THEN [c.promise[k] EXCEPT ![d.from] = d.promise[c.stamp[k]]]
                           ELSE c.promise[k]]
           cheated == \E t \in due : broken(t)
<1>5. r = [c EXCEPT !.committed = committed, !.promise = promise, !.cheated = cheated]
  BY <1>3 DEF HearPromises
<1>6. /\ committed \in [Slots -> SUBSET Player]
      /\ \A k \in Slots : ~new(k) => committed[k] = c.committed[k] /\ promise[k] = c.promise[k]
      /\ \A k \in Slots : new(k) =>
            /\ committed[k] = c.committed[k] \cup {d.from} /\ d.from \notin c.committed[k]
            /\ c.stamp[k] \in due /\ promise[k][d.from] = d.promise[c.stamp[k]]
            /\ \A p \in Player \ {d.from} : promise[k][p] = c.promise[k][p]
  <2>1. \A k \in Slots : c.promise[k] \in [Player -> Input]
    BY <1>4 DEF Typed, Vector
  <2>2. committed \in [Slots -> SUBSET Player]
    BY <1>4 DEF Typed, Shaped
  <2>3. d.from \in Player
    BY DEF Shaped
  <2>4. QED
    BY <2>1, <2>2, <2>3
<1>7. promise \in [Slots -> Vector]
  <2> SUFFICES ASSUME NEW k \in Slots
               PROVE  (IF new(k) THEN [c.promise[k] EXCEPT ![d.from] = d.promise[c.stamp[k]]]
                                 ELSE c.promise[k]) \in Vector
    OBVIOUS
  <2>1. c.promise[k] \in Vector
    BY <1>4 DEF Typed
  <2>2. new(k) => d.promise[c.stamp[k]] \in Input
    BY <1>1 DEF Shaped
  <2> HIDE DEF new
  <2>3. QED
    BY <2>1, <2>2 DEF Vector
<1>8. cheated \in BOOLEAN
  OBVIOUS
<1> HIDE DEF committed, promise, cheated, due, new, heard
<1>9. /\ r.committed = committed /\ r.promise = promise /\ r.cheated = cheated
      /\ r.stamp = c.stamp /\ r.known = c.known /\ r.in = c.in /\ SameBut(c, r)
  BY <1>4, <1>5 DEF Typed, SameBut
<1>10. IsSession(r)
  BY <1>4, <1>5 DEF Typed, IsSession
<1>11. Typed(r)
  BY <1>4, <1>6, <1>7, <1>8, <1>9, <1>10 DEF Typed, SameBut
<1>12. Held(r)
  BY <1>4, <1>9 DEF Good, Held, Unconfirmed, Known, Live, SameBut
<1>13. Sound(r)
  BY <1>4, <1>9 DEF Good, Sound, SameBut
<1>14. Proven(r)
  <2> SUFFICES ASSUME NEW k \in Slots, NEW p \in c.known[k] \ {s.me}
               PROVE  p \in committed[k] /\ c.in[k][p] = promise[k][p]
    BY <1>4, <1>9 DEF Proven, SameBut
  <2>1. p \in Player /\ p \in c.committed[k] /\ c.in[k][p] = c.promise[k][p]
    BY <1>4 DEF Typed, Good, Proven, SameBut
  <2>2. QED
    BY <1>6, <2>1
<1>15. \A t \in Nat : \A p \in Player :
          Promised(c, t, p) => Promised(r, t, p) /\ r.promise[Slot(t)][p] = c.promise[Slot(t)][p]
  <2> SUFFICES ASSUME NEW t \in Nat, NEW p \in Player, Live(c, t), p \in c.committed[Slot(t)]
               PROVE  p \in committed[Slot(t)] /\ promise[Slot(t)][p] = c.promise[Slot(t)][p]
    BY <1>9 DEF Promised, Live
  <2>1. Slot(t) \in Slots
    BY SlotType
  <2>2. QED
    BY <2>1, <1>6
<1>16. Keeps(c, r)
  <2>1. \A t \in c.confirmedTick .. c.confirmedTick + Window - 1 : t \in Nat
    BY <1>4, <1>1 DEF Typed
  <2>2. QED
    BY <2>1, <1>9, <1>15 DEF Keeps, Known, Live
<1>17. LearnsNothing(s, r)
  BY <1>4, <1>9 DEF LearnsNothing, AddsNothing, Known, Live
<1>18. ASSUME NEW t \in Nat, NEW p \in Player, Promised(r, t, p), ~Promised(s, t, p)
       PROVE  /\ t \notin DOMAIN d.reveal /\ t \in due
              /\ p = d.from /\ r.promise[Slot(t)][p] = d.promise[t]
  <2>1. Slot(t) \in Slots /\ c.stamp[Slot(t)] = t /\ p \in committed[Slot(t)]
    BY <1>9, <1>18, SlotType DEF Promised, Live
  <2>2. p \notin c.committed[Slot(t)]
    BY <1>4, <1>18, <2>1 DEF AddsNothing, Promised, Live
  <2>3. QED
    BY <1>1, <1>6, <1>9, <2>1, <2>2
<1>19. QED
  <2>1. Keeps(s, r) /\ SameBut(s, r)
    BY <1>4, <1>9, <1>16, KeepsTransitive DEF SameBut
  <2>2. QED
    BY <2>1, <1>11, <1>12, <1>13, <1>14, <1>17, <1>18 DEF Good, due

\* Hearing the proofs of a datagram keeps the invariant and what is held, and what it
\* teaches is what was promised before.
LEMMA HearRevealsGood ==
  ASSUME NEW s, Good(s), NEW d, Shaped(d), d.from # s.me, NEW r, r = HearReveals(s, d)
  PROVE  /\ Good(r) /\ Keeps(s, r) /\ SameBut(s, r)
         /\ \A t \in Nat : \A p \in Player :
               Known(r, t, p) /\ ~Known(s, t, p) =>
                  /\ t \in DOMAIN d.reveal /\ Promised(s, t, p)
                  /\ r.in[Slot(t)][p] = s.promise[Slot(t)][p]
                  /\ p = d.from /\ t \in Accepted(s, d) /\ r.in[Slot(t)][p] = d.reveal[t]
         /\ \A t \in Nat : \A p \in Player : Promised(r, t, p) => Promised(s, t, p)
<1> DEFINE due == RevealsDue(s, d)
           heard == RevealsHeard(s, d)
           accepted == Accepted(s, d)
<1>1. /\ Typed(s) /\ s.confirmedTick \in Nat /\ Window \in Nat
      /\ due \subseteq DOMAIN d.reveal /\ heard \subseteq due /\ due \subseteq Nat
      /\ \A t \in due : InWindow(s, t)
      /\ accepted \subseteq heard
      /\ d.from \in Player
  BY NetAssumption DEF Good, Typed, RevealsDue, RevealsHeard, Accepted, Shaped
<1>2. InRange(s, heard)
  BY <1>1 DEF InRange, InWindow
<1>3. \A t \in accepted : /\ Promised(s, t, d.from)
                          /\ s.promise[Slot(t)][d.from] = d.reveal[t]
                          /\ d.reveal[t] \in Input
  <2> SUFFICES ASSUME NEW t \in accepted
               PROVE  /\ Promised(s, t, d.from)
                      /\ s.promise[Slot(t)][d.from] = d.reveal[t]
                      /\ d.reveal[t] \in Input
    OBVIOUS
  <2>1. Promised(s, t, d.from) /\ t \in due /\ t \in Nat
    BY <1>1 DEF Accepted
  <2>2. ~BrokenPromise(s, d, t)
    <3>1. \A u \in due : BrokenPromise(s, d, u) => t < u
      BY <1>1 DEF RevealsHeard
    <3>2. QED
      BY <2>1, <3>1
  <2>3. QED
    BY <1>1, <2>1, <2>2 DEF BrokenPromise, Shaped
<1>4. PICK c : c = Claim(s, heard)
  OBVIOUS
<1>5. /\ Good(c) /\ Keeps(s, c) /\ SameBut(s, c) /\ AddsNothing(s, c) /\ Typed(c)
  <2>1. Good(c) /\ Keeps(s, c) /\ AddsNothing(s, c)
    BY <1>2, <1>4, ClaimKeeps
  <2>2. SameBut(s, c)
    BY <1>2, <1>4, ClaimRing DEF Good
  <2>3. QED
    BY <2>1, <2>2 DEF Good
\* What is accepted is promised in the ring as it now stands, and so is what it says.
<1>6. ASSUME NEW k \in Slots, c.stamp[k] \in accepted
      PROVE  /\ d.from \in c.committed[k]
             /\ c.promise[k][d.from] = d.reveal[c.stamp[k]]
             /\ d.reveal[c.stamp[k]] \in Input
             /\ d.from \in c.known[k] /\ d.from # s.me => c.in[k][d.from] = d.reveal[c.stamp[k]]
  <2> DEFINE t == c.stamp[k]
  <2>1. t \in Nat /\ t # NoTick /\ Slot(t) = k
    BY <1>1, <1>5, <1>6 DEF Good, Sound, NoTick
  <2>2. t \in s.confirmedTick .. s.confirmedTick + Window - 1
    BY <1>1, <1>2, <1>6 DEF InRange
  <2>3. Promised(s, t, d.from) /\ s.promise[Slot(t)][d.from] = d.reveal[t] /\ d.reveal[t] \in Input
    BY <1>3, <1>6
  <2>4. Promised(c, t, d.from) /\ c.promise[Slot(t)][d.from] = s.promise[Slot(t)][d.from]
    BY <1>1, <1>5, <2>2, <2>3 DEF Keeps
  <2>5. QED
    BY <1>5, <2>1, <2>3, <2>4 DEF Promised, Good, Proven, SameBut
<1> DEFINE new(k) == c.stamp[k] \in accepted
           in == [k \in Slots |-> IF new(k)
                         THEN [c.in[k] EXCEPT ![d.from] = d.reveal[c.stamp[k]]]
                         ELSE c.in[k]]
           known == [k \in Slots |-> IF new(k) THEN c.known[k] \cup {d.from}
                                               ELSE c.known[k]]
           cheated == \E t \in due : BrokenPromise(s, d, t)
<1>7. r = [c EXCEPT !.in = in, !.known = known, !.cheated = cheated]
  BY <1>4 DEF HearReveals
<1>8. /\ known \in [Slots -> SUBSET Player]
      /\ \A k \in Slots : ~new(k) => known[k] = c.known[k] /\ in[k] = c.in[k]
      /\ \A k \in Slots : new(k) =>
            /\ known[k] = c.known[k] \cup {d.from}
            /\ in[k][d.from] = d.reveal[c.stamp[k]]
            /\ \A p \in Player \ {d.from} : in[k][p] = c.in[k][p]
  <2>1. \A k \in Slots : c.in[k] \in [Player -> Input]
    BY <1>5 DEF Typed, Vector
  <2>2. known \in [Slots -> SUBSET Player]
    BY <1>1, <1>5 DEF Typed
  <2>3. QED
    BY <1>1, <2>1, <2>2
<1>9. in \in [Slots -> Vector]
  <2> SUFFICES ASSUME NEW k \in Slots
               PROVE  (IF new(k) THEN [c.in[k] EXCEPT ![d.from] = d.reveal[c.stamp[k]]]
                                 ELSE c.in[k]) \in Vector
    OBVIOUS
  <2>1. c.in[k] \in Vector
    BY <1>5 DEF Typed
  <2>2. new(k) => d.reveal[c.stamp[k]] \in Input
    BY <1>3
  <2> HIDE DEF new
  <2>3. QED
    BY <2>1, <2>2 DEF Vector
<1>10. cheated \in BOOLEAN
  OBVIOUS
<1> HIDE DEF in, known, cheated, due, heard, accepted
<1>11. /\ r.in = in /\ r.known = known /\ r.cheated = cheated
       /\ r.stamp = c.stamp /\ r.committed = c.committed /\ r.promise = c.promise
       /\ SameBut(c, r)
  BY <1>5, <1>7 DEF Typed, SameBut
<1>12. IsSession(r)
  BY <1>5, <1>7 DEF Typed, IsSession
<1>13. Typed(r)
  BY <1>5, <1>8, <1>9, <1>10, <1>11, <1>12 DEF Typed, SameBut
<1>14. Sound(r)
  BY <1>5, <1>11 DEF Good, Sound, SameBut
<1>15. Held(r)
  <2>1. \A t \in Unconfirmed(c) : t \in Nat
    BY <1>5 DEF Typed, Unconfirmed
  <2>2. \A t \in Unconfirmed(c) : Known(r, t, c.me)
    BY <1>5, <1>8, <1>11, <2>1, SlotType DEF Good, Held, Known, Live, SameBut
  <2>3. QED
    BY <1>5, <1>11, <2>2 DEF Good, Held, Unconfirmed, SameBut
<1>16. Proven(r)
  <2> SUFFICES ASSUME NEW k \in Slots, NEW p \in known[k] \ {s.me}
               PROVE  p \in c.committed[k] /\ in[k][p] = c.promise[k][p]
    BY <1>5, <1>11 DEF Proven, SameBut
  <2>1. p \in Player
    BY <1>8
  <2>2. CASE new(k) /\ p = d.from
    BY <1>6, <1>8, <2>2 DEF new
  <2>3. CASE ~(new(k) /\ p = d.from)
    <3>1. p \in c.known[k] /\ in[k][p] = c.in[k][p]
      BY <1>8, <2>1, <2>3
    <3>2. QED
      BY <1>5, <3>1 DEF Good, Proven, SameBut
  <2>4. QED
    BY <2>2, <2>3
<1>17. \A t \in Nat : \A p \in Player :
          Known(c, t, p) => Known(r, t, p) /\ r.in[Slot(t)][p] = c.in[Slot(t)][p]
  <2> SUFFICES ASSUME NEW t \in Nat, NEW p \in Player, Live(c, t), p \in c.known[Slot(t)]
               PROVE  p \in known[Slot(t)] /\ in[Slot(t)][p] = c.in[Slot(t)][p]
    BY <1>11 DEF Known, Live
  <2>1. Slot(t) \in Slots
    BY SlotType
  <2>2. CASE new(Slot(t)) /\ p = d.from
    BY <1>6, <1>8, <2>1, <2>2 DEF new
  <2>3. CASE ~(new(Slot(t)) /\ p = d.from)
    BY <1>8, <2>1, <2>3
  <2>4. QED
    BY <2>2, <2>3
<1>18. Keeps(c, r)
  <2>1. \A t \in c.confirmedTick .. c.confirmedTick + Window - 1 : t \in Nat
    BY <1>5, <1>1 DEF Typed
  <2>2. QED
    BY <2>1, <1>11, <1>17 DEF Keeps, Promised, Live
<1>19. ASSUME NEW t \in Nat, NEW p \in Player, Known(r, t, p), ~Known(s, t, p)
       PROVE  /\ t \in DOMAIN d.reveal /\ Promised(s, t, p)
              /\ r.in[Slot(t)][p] = s.promise[Slot(t)][p]
              /\ p = d.from /\ t \in accepted /\ r.in[Slot(t)][p] = d.reveal[t]
  <2>1. Slot(t) \in Slots /\ c.stamp[Slot(t)] = t /\ p \in known[Slot(t)]
    BY <1>11, <1>19, SlotType DEF Known, Live
  <2>2. p \notin c.known[Slot(t)]
    BY <1>5, <1>19, <2>1 DEF AddsNothing, Known, Live
  <2>3. p = d.from /\ t \in accepted /\ in[Slot(t)][p] = d.reveal[t]
    BY <1>8, <2>1, <2>2 DEF new
  <2>4. QED
    BY <1>1, <1>3, <1>11, <2>3
<1>20. \A t \in Nat : \A p \in Player : Promised(r, t, p) => Promised(s, t, p)
  BY <1>5, <1>11 DEF AddsNothing, Promised, Live
<1>21. Keeps(s, r) /\ SameBut(s, r)
  BY <1>5, <1>11, <1>18, KeepsTransitive DEF SameBut
<1>22. QED
  BY <1>13, <1>14, <1>15, <1>16, <1>19, <1>20, <1>21 DEF Good, accepted

-----------------------------------------------------------------------------

\* Replaying from the agreed world keeps the invariant, the ring and the agreed race.
LEMMA RewindGood ==
  ASSUME NEW s, Good(s), NEW r, r = Rewind(s)
  PROVE  /\ Good(r) /\ SameRing(s, r)
         /\ r.me = s.me /\ r.confirmed = s.confirmed /\ r.confirmedTick = s.confirmedTick
         /\ r.localTick = s.localTick /\ r.hash = s.hash /\ r.cheated = s.cheated
         /\ r.desynced = s.desynced
<1> DEFINE redone == s.confirmedTick .. s.localTick - 1
           current == [t \in 0 .. s.localTick - 1 |->
                         IF t < s.confirmedTick THEN s.confirmed[t] ELSE InputsFor(s, t)]
           used == [k \in Slots |->
                         IF \E t \in redone : Slot(t) = k
                         THEN InputsFor(s, CHOOSE t \in redone : Slot(t) = k)
                         ELSE s.used[k]]
<1>1. /\ Typed(s) /\ s.confirmedTick \in Nat /\ s.localTick \in Nat
      /\ \A t \in Nat : InputsFor(s, t) \in Vector
  BY InputsForType DEF Good, Typed
<1>2. r = [s EXCEPT !.current = current, !.used = used]
  BY DEF Rewind
<1>3. World(current, s.localTick)
  <2>1. \A t \in 0 .. s.localTick - 1 : t \in Nat
    OBVIOUS
  <2>2. \A t \in 0 .. s.localTick - 1 :
           (IF t < s.confirmedTick THEN s.confirmed[t] ELSE InputsFor(s, t)) \in Vector
    <3>1. \A t \in 0 .. s.confirmedTick - 1 : s.confirmed[t] \in Vector
      BY <1>1 DEF Typed, World
    <3>2. QED
      BY <1>1, <2>1, <3>1
  <2> DEFINE at(t) == IF t < s.confirmedTick THEN s.confirmed[t] ELSE InputsFor(s, t)
  <2>3. current = [t \in 0 .. s.localTick - 1 |-> at(t)]
    OBVIOUS
  <2>4. \A t \in 0 .. s.localTick - 1 : at(t) \in Vector
    BY <2>2
  <2> HIDE DEF at, current
  <2>5. QED
    BY <2>3, <2>4 DEF World
<1>4. used \in [Slots -> Vector]
  <2>1. redone \subseteq Nat
    BY <1>1
  <2>2. \A k \in Slots : s.used[k] \in Vector
    BY <1>1 DEF Typed
  <2> HIDE DEF redone
  <2>3. QED
    BY <1>1, <2>1, <2>2
<1> HIDE DEF current, used
<1>5. /\ SameRing(s, r) /\ r.current = current /\ r.used = used
      /\ r.me = s.me /\ r.confirmed = s.confirmed /\ r.confirmedTick = s.confirmedTick
      /\ r.localTick = s.localTick /\ r.hash = s.hash /\ r.cheated = s.cheated
      /\ r.flushing = s.flushing /\ r.flushWait = s.flushWait /\ r.desynced = s.desynced
  BY <1>1, <1>2 DEF Typed, SameRing
<1>6. IsSession(r)
  BY <1>1, <1>2 DEF Typed, IsSession
<1>7. Typed(r)
  BY <1>1, <1>3, <1>4, <1>5, <1>6 DEF Typed, SameRing
<1>8. QED
  BY <1>5, <1>7 DEF Good, Held, Sound, Proven, Unconfirmed, Known, Live, SameRing

\* Comparing hashes changes nothing but the flag it raises.
LEMMA CompareHashGood ==
  ASSUME NEW s, Good(s), NEW d, NEW r, r = CompareHash(s, d)
  PROVE  /\ Good(r) /\ SameRing(s, r)
         /\ r.me = s.me /\ r.confirmed = s.confirmed /\ r.confirmedTick = s.confirmedTick
         /\ r.current = s.current /\ r.used = s.used
         /\ r.localTick = s.localTick /\ r.hash = s.hash /\ r.cheated = s.cheated
<1>1. Typed(s)
  BY DEF Good
<1>2. r = s \/ r = [s EXCEPT !.desynced = TRUE]
  BY DEF CompareHash
<1>3. /\ SameRing(s, r)
      /\ r.me = s.me /\ r.confirmed = s.confirmed /\ r.confirmedTick = s.confirmedTick
      /\ r.current = s.current /\ r.used = s.used
      /\ r.localTick = s.localTick /\ r.hash = s.hash /\ r.cheated = s.cheated
      /\ r.flushing = s.flushing /\ r.flushWait = s.flushWait
      /\ r.desynced = s.desynced \/ r.desynced = TRUE
  BY <1>1, <1>2 DEF Typed, IsSession, SameRing
<1>4. IsSession(r) /\ r.desynced \in BOOLEAN
  <2>1. IsSession(r)
    BY <1>1, <1>2 DEF Typed, IsSession
  <2>2. s.desynced \in BOOLEAN
    BY <1>1 DEF Typed
  <2>3. r.desynced \in BOOLEAN
    BY <1>3, <2>2, Zenon
  <2>4. QED
    BY <2>1, <2>3
<1>5. Typed(r)
  BY <1>1, <1>3, <1>4 DEF Typed, SameRing
<1>6. QED
  BY <1>3, <1>5 DEF Good, Held, Sound, Proven, Unconfirmed, Known, Live, SameRing

-----------------------------------------------------------------------------

\* What r knows of a peer within the window and s did not, that peer had promised.
Earned(s, r) ==
  \A t \in s.confirmedTick .. s.confirmedTick + Window - 1 : \A p \in Player \ {s.me} :
     Known(r, t, p) /\ ~Known(s, t, p) =>
        Promised(s, t, p) /\ r.in[Slot(t)][p] = s.promise[Slot(t)][p]

\* Keeping what is held depends on the ring alone.
LEMMA KeepsSameRing ==
  ASSUME NEW s, NEW r, NEW q, Keeps(s, r), SameRing(r, q)
  PROVE  Keeps(s, q)
  BY DEF Keeps, SameRing, Promised, Known, Live

\* gs_net_receive keeps the invariant, keeps what is held, only adds to the agreed
\* race, and takes nothing of a peer that the peer had not promised.
LEMMA ReceiveGood ==
  ASSUME NEW s, Good(s), NEW d, Shaped(d), NEW r, r = Receive(s, d)
  PROVE  Good(r) /\ Keeps(s, r) /\ Grows(s, r) /\ Earned(s, r) /\ r.me = s.me
<1>0. /\ s.me \in Player /\ s.confirmedTick \in Nat
      /\ \A t \in s.confirmedTick .. s.confirmedTick + Window - 1 : t \in Nat
  BY NetAssumption DEF Good, Typed
<1>1. CASE d.from = s.me \/ s.cheated
  <2>1. r = s
    BY <1>0, <1>1 DEF Receive
  <2>2. QED
    BY <1>0, <2>1 DEF Keeps, Grows, Earned
<1>2. CASE ~(d.from = s.me \/ s.cheated)
  <2>1. PICK promised : promised = HearPromises(s, d)
    OBVIOUS
  <2>2. PICK revealed : revealed = HearReveals(promised, d)
    OBVIOUS
  <2>3. PICK advanced : advanced = AdvanceConfirmed(revealed)
    OBVIOUS
  <2>4. PICK rewound : rewound = IF WrongGuess(promised, d) THEN Rewind(advanced) ELSE advanced
    OBVIOUS
  <2>5. r = IF promised.cheated THEN promised
            ELSE IF revealed.cheated THEN revealed
            ELSE CompareHash(rewound, d)
    BY <1>0, <1>2, <2>1, <2>2, <2>3, <2>4 DEF Receive, Shaped
  <2>6. /\ Good(promised) /\ Keeps(s, promised) /\ SameBut(s, promised)
        /\ LearnsNothing(s, promised)
        /\ \A t \in Nat : \A p \in Player :
              Promised(promised, t, p) /\ ~Promised(s, t, p) => t \notin DOMAIN d.reveal
    BY <2>1, HearPromisesGood
  <2>7. /\ Good(revealed) /\ Keeps(promised, revealed) /\ SameBut(promised, revealed)
        /\ \A t \in Nat : \A p \in Player :
               Known(revealed, t, p) /\ ~Known(promised, t, p) =>
                  /\ t \in DOMAIN d.reveal /\ Promised(promised, t, p)
                  /\ revealed.in[Slot(t)][p] = promised.promise[Slot(t)][p]
    BY <1>2, <2>2, <2>6, HearRevealsGood DEF SameBut
  <2>8. Keeps(s, revealed)
    BY <2>6, <2>7, KeepsTransitive DEF SameBut
  <2>9. Earned(s, promised)
    BY <1>0, <2>6 DEF Earned, LearnsNothing
  <2>10. Earned(s, revealed)
    <3> SUFFICES ASSUME NEW t \in s.confirmedTick .. s.confirmedTick + Window - 1,
                        NEW p \in Player \ {s.me}, Known(revealed, t, p), ~Known(s, t, p)
                 PROVE  /\ Promised(s, t, p)
                        /\ revealed.in[Slot(t)][p] = s.promise[Slot(t)][p]
      BY DEF Earned
    <3>1. t \in Nat /\ ~Known(promised, t, p)
      BY <1>0, <2>6 DEF LearnsNothing
    <3>2. /\ t \in DOMAIN d.reveal /\ Promised(promised, t, p)
          /\ revealed.in[Slot(t)][p] = promised.promise[Slot(t)][p]
      BY <2>7, <3>1
    <3>3. Promised(s, t, p)
      BY <2>6, <3>1, <3>2
    <3>4. QED
      BY <2>6, <3>2, <3>3 DEF Keeps
  <2>11. Grows(s, promised) /\ Grows(s, revealed)
    BY <1>0, <2>6, <2>7 DEF Grows, SameBut
  <2>12. /\ Good(advanced) /\ SameRing(revealed, advanced) /\ Grows(revealed, advanced)
         /\ advanced.me = revealed.me
    BY <2>3, <2>7, AdvanceGood, AdvanceGrows
  <2>13. /\ Good(rewound) /\ SameRing(advanced, rewound)
         /\ rewound.confirmed = advanced.confirmed /\ rewound.me = advanced.me
         /\ rewound.confirmedTick = advanced.confirmedTick
    <3>1. CASE WrongGuess(promised, d)
      BY <2>4, <2>12, <3>1, RewindGood
    <3>2. CASE ~WrongGuess(promised, d)
      BY <2>4, <2>12, <3>2 DEF SameRing
    <3>3. QED
      BY <3>1, <3>2
  <2>14. PICK compared : compared = CompareHash(rewound, d)
    OBVIOUS
  <2>15. /\ Good(compared) /\ SameRing(rewound, compared)
         /\ compared.confirmed = rewound.confirmed /\ compared.me = rewound.me
         /\ compared.confirmedTick = rewound.confirmedTick
    BY <2>13, <2>14, CompareHashGood
  <2>16. SameRing(revealed, compared)
    BY <2>12, <2>13, <2>15 DEF SameRing
  <2>17. Keeps(s, compared) /\ Earned(s, compared)
    <3>1. Keeps(s, compared)
      BY <2>8, <2>16, KeepsSameRing
    <3>2. Earned(s, compared)
      BY <2>10, <2>16 DEF Earned, SameRing, Known, Live
    <3>3. QED
      BY <3>1, <3>2
  <2>18. Grows(s, compared)
    <3>1. /\ revealed.confirmedTick = s.confirmedTick
          /\ revealed.confirmed = s.confirmed
      BY <2>6, <2>7 DEF SameBut
    <3>2. QED
      BY <2>12, <2>13, <2>15, <3>1 DEF Grows
  <2>19. promised.me = s.me /\ revealed.me = s.me /\ compared.me = s.me
    BY <2>6, <2>7, <2>12, <2>13, <2>15 DEF SameBut
  <2>20. QED
    BY <2>19, <2>5, <2>6, <2>7, <2>8, <2>9, <2>10, <2>11, <2>14, <2>15, <2>17, <2>18
<1>3. QED
  BY <1>1, <1>2

\* So does one tick of the race loop.
LEMMA TickGood ==
  ASSUME NEW s, Good(s), NEW input \in Input, NEW r, r = Step(LocalInput(s, input))
  PROVE  Good(r) /\ Keeps(s, r) /\ Grows(s, r) /\ Earned(s, r) /\ r.me = s.me
<1>1. PICK c : c = LocalInput(s, input)
  OBVIOUS
<1>2. /\ Good(c) /\ Keeps(s, c) /\ SameBut(s, c) /\ Known(c, c.localTick, s.me)
      /\ \A t \in Nat : \A p \in Player \ {s.me} : Known(c, t, p) => Known(s, t, p)
  BY <1>1, LocalInputGood DEF SameBut
<1>3. r = Step(c)
  BY <1>1
<1>4. Good(r) /\ SameRing(c, r) /\ Grows(c, r) /\ r.me = s.me
  BY <1>2, <1>3, StepGood DEF SameBut
<1>5. Keeps(s, r)
  BY <1>2, <1>4, KeepsSameRing
<1>6. Grows(s, r)
  BY <1>2, <1>4 DEF Grows, SameBut
<1>7. Earned(s, r)
  <2>1. \A t \in s.confirmedTick .. s.confirmedTick + Window - 1 : t \in Nat
    BY NetAssumption DEF Good, Typed
  <2>2. QED
    BY <1>2, <1>4, <2>1 DEF Earned, SameRing, Known, Live
<1>8. QED
  BY <1>4, <1>5, <1>6, <1>7

\* A session begins with the invariant.
LEMMA BeginGood ==
  ASSUME NEW me \in Player
  PROVE  Good(Begin(me)) /\ Begin(me).me = me
<1>1. PICK s : s = Begin(me)
  OBVIOUS
<1>2. /\ s.me = me /\ s.confirmedTick = 0 /\ s.localTick = 0
      /\ s.confirmed = [t \in 0 .. -1 |-> [p \in Player |-> Idle]]
      /\ s.current = [t \in 0 .. -1 |-> [p \in Player |-> Idle]]
      /\ s.stamp = [k \in Slots |-> NoTick]
      /\ s.known = [k \in Slots |-> {}] /\ s.committed = [k \in Slots |-> {}]
      /\ s.in = [k \in Slots |-> [p \in Player |-> Idle]]
      /\ s.used = [k \in Slots |-> [p \in Player |-> Idle]]
      /\ s.promise = [k \in Slots |-> [p \in Player |-> Idle]]
      /\ s.hash = [k \in Slots |-> s.hash[k]]
      /\ s.flushing = FALSE /\ s.flushWait = 0 /\ s.desynced = FALSE /\ s.cheated = FALSE
  BY <1>1 DEF Begin
<1>3. IsSession(s)
  BY <1>1 DEF Begin, IsSession
<1>4. World(s.confirmed, 0) /\ World(s.current, 0)
  BY <1>2, NetAssumption DEF World, Vector
<1>5. /\ s.in \in [Slots -> Vector] /\ s.used \in [Slots -> Vector]
      /\ s.promise \in [Slots -> Vector]
  BY <1>2, NetAssumption DEF Vector
<1>6. Typed(s)
  <2>1. World(s.confirmed, s.confirmedTick) /\ World(s.current, s.localTick)
    BY <1>2, <1>4
  <2>2. /\ s.stamp \in [Slots -> Nat \cup {NoTick}]
        /\ s.known \in [Slots -> SUBSET Player] /\ s.committed \in [Slots -> SUBSET Player]
    BY <1>2
  <2>3. s.flushWait \in 0 .. FlushWait
    BY <1>2, NetAssumption
  <2>4. s.hash = [k \in Slots |-> s.hash[k]]
    BY <1>2
  <2>5. s.me \in Player /\ s.confirmedTick \in Nat /\ s.localTick \in Nat
    BY <1>2
  <2>6. s.flushing \in BOOLEAN /\ s.desynced \in BOOLEAN /\ s.cheated \in BOOLEAN
    BY <1>2, Zenon
  <2>7. QED
    BY <2>6, <1>3, <1>5, <2>1, <2>2, <2>3, <2>4, <2>5 DEF Typed
<1>7. Held(s) /\ Sound(s) /\ Proven(s)
  <2>1. Held(s)
    BY <1>2, NetAssumption DEF Held, Unconfirmed
  <2>2. Sound(s)
    BY <1>2 DEF Sound
  <2>3. Proven(s)
    BY <1>2 DEF Proven
  <2>4. QED
    BY <2>1, <2>2, <2>3
<1>8. QED
  BY <1>1, <1>2, <1>6, <1>7 DEF Good

-----------------------------------------------------------------------------

\* NoStaleGuess, of a session in the middle of a call.
Fresh(s) ==
  \A t \in Unconfirmed(s) : \A p \in s.known[Slot(t)] :
     s.used[Slot(t)][p] = s.in[Slot(t)][p]

\* VisibleIsReplay, of a session in the middle of a call.
Shows(s) ==
  \A t \in 0 .. s.localTick - 1 :
     s.current[t] = IF t < s.confirmedTick THEN s.confirmed[t] ELSE s.used[Slot(t)]

\* HashRingSound, of a session in the middle of a call.
Hashed(s) ==
  \A k \in 0 .. s.confirmedTick : s.confirmedTick - k < Window =>
     s.hash[Slot(k)] = [t \in 0 .. k - 1 |-> s.confirmed[t]]

\* A tick that is simulated and not agreed is in the window, and its slot is its own.
LEMMA UnconfirmedInWindow ==
  ASSUME NEW s, Good(s), NEW t \in Unconfirmed(s)
  PROVE  /\ t \in s.confirmedTick .. s.confirmedTick + Window - 1
         /\ t \in Nat /\ Slot(t) \in Slots /\ Live(s, t) /\ Known(s, t, s.me)
         /\ \A p : p \in s.known[Slot(t)] => Known(s, t, p) /\ p \in Player
<1>1. /\ s.confirmedTick \in Nat /\ s.localTick \in Nat /\ Window \in Nat
      /\ s.localTick - s.confirmedTick < Window
      /\ Known(s, t, s.me)
  BY NetAssumption DEF Good, Typed, Held
<1>2. t \in Nat /\ Slot(t) \in Slots
  BY <1>1, SlotType DEF Unconfirmed
<1>3. Live(s, t)
  BY <1>1 DEF Known
<1>4. QED
  BY <1>1, <1>2, <1>3 DEF Unconfirmed, Known, Good, Typed

\* Where nothing was learned, a guess that was not wrong is still not wrong.
LEMMA FreshIfNothingNew ==
  ASSUME NEW s, Good(s), Fresh(s), NEW r, Good(r), Keeps(s, r), SameBut(s, r),
         NEW t \in Unconfirmed(r), NEW p \in Player, Known(s, t, p)
  PROVE  r.used[Slot(t)][p] = r.in[Slot(t)][p]
<1>1. t \in Unconfirmed(s)
  BY DEF Unconfirmed, SameBut
<1>2. t \in s.confirmedTick .. s.confirmedTick + Window - 1 /\ p \in s.known[Slot(t)]
  BY <1>1, UnconfirmedInWindow DEF Known
<1>3. r.in[Slot(t)][p] = s.in[Slot(t)][p] /\ r.used = s.used
  BY <1>2 DEF Keeps, SameBut
<1>4. QED
  BY <1>1, <1>2, <1>3 DEF Fresh

\* Agreeing ticks whose guesses were right leaves the race on screen a replay.
LEMMA AdvanceFresh ==
  ASSUME NEW s, Good(s), NEW r, r = AdvanceConfirmed(s), Fresh(s), Shows(s)
  PROVE  Fresh(r) /\ Shows(r)
<1>1. /\ s.confirmedTick \in Nat /\ s.localTick \in Nat /\ s.confirmedTick <= s.localTick
      /\ s.in \in [Slots -> Vector] /\ s.used \in [Slots -> Vector]
  BY DEF Good, Typed, Held
<1>2. /\ Frontier(s) \in s.confirmedTick .. s.localTick
      /\ \A t \in s.confirmedTick .. Frontier(s) - 1 : Complete(s, t)
  BY <1>1, FrontierIs
<1>3. /\ SameRing(s, r) /\ r.current = s.current /\ r.localTick = s.localTick
      /\ r.used = s.used /\ r.confirmedTick = Frontier(s)
      /\ r.confirmed = ConfirmedAt(s, Frontier(s))
  BY AdvanceGood
<1>4. Fresh(r)
  <2>1. \A t \in Unconfirmed(r) : t \in Unconfirmed(s)
    BY <1>1, <1>2, <1>3 DEF Unconfirmed
  <2>2. QED
    BY <1>3, <2>1 DEF Fresh, SameRing
<1>5. \A t \in s.confirmedTick .. Frontier(s) - 1 : s.used[Slot(t)] = s.in[Slot(t)]
  <2> SUFFICES ASSUME NEW t \in s.confirmedTick .. Frontier(s) - 1
               PROVE  s.used[Slot(t)] = s.in[Slot(t)]
    OBVIOUS
  <2>1. t \in Unconfirmed(s) /\ Slot(t) \in Slots
    BY <1>1, <1>2, SlotType DEF Unconfirmed
  <2>2. \A p \in Player : s.used[Slot(t)][p] = s.in[Slot(t)][p]
    BY <1>2, <2>1 DEF Fresh, Complete
  <2>3. s.used[Slot(t)] \in [Player -> Input] /\ s.in[Slot(t)] \in [Player -> Input]
    BY <1>1, <2>1 DEF Vector
  <2>4. QED
    BY <2>2, <2>3
<1>6. Shows(r)
  <2> SUFFICES ASSUME NEW t \in 0 .. s.localTick - 1
               PROVE  s.current[t] = IF t < Frontier(s) THEN r.confirmed[t] ELSE s.used[Slot(t)]
    BY <1>3 DEF Shows
  <2>1. s.current[t] = IF t < s.confirmedTick THEN s.confirmed[t] ELSE s.used[Slot(t)]
    BY DEF Shows
  <2>2. t < Frontier(s) => r.confirmed[t] = IF t < s.confirmedTick THEN s.confirmed[t]
                                            ELSE s.in[Slot(t)]
    BY <1>1, <1>2, <1>3 DEF ConfirmedAt
  <2>3. t < Frontier(s) /\ ~(t < s.confirmedTick) => s.used[Slot(t)] = s.in[Slot(t)]
    BY <1>1, <1>2, <1>5
  <2>4. QED
    BY <1>1, <1>2, <2>1, <2>2, <2>3
<1>7. QED
  BY <1>4, <1>6

\* gs_advance_confirmed writes the hash of every tick it passes, and overwrites none
\* that is still within a window of the frontier.
LEMMA AdvanceHashed ==
  ASSUME NEW s, Good(s), NEW r, r = AdvanceConfirmed(s), Hashed(s)
  PROVE  Hashed(r)
<1> DEFINE to == Frontier(s)
           passed == HashedOnTheWay(s, to)
<1>1. /\ s.confirmedTick \in Nat /\ s.localTick \in Nat /\ Window \in Nat
      /\ s.localTick - s.confirmedTick < Window
      /\ to \in s.confirmedTick .. s.localTick
  BY FrontierIs, NetAssumption DEF Good, Typed, Held
<1>2. passed = s.confirmedTick + 1 .. to
  BY DEF HashedOnTheWay
<1>3. /\ r.confirmedTick = to /\ r.confirmed = ConfirmedAt(s, to)
      /\ r.hash = [k \in Slots |->
                     IF \E t \in passed : Slot(t) = k
                     THEN ConfirmedAt(s, CHOOSE t \in passed : Slot(t) = k)
                     ELSE s.hash[k]]
  BY AdvanceGood
<1> HIDE DEF passed, to
<1> SUFFICES ASSUME NEW k \in 0 .. to, to - k < Window
             PROVE  r.hash[Slot(k)] = [t \in 0 .. k - 1 |-> r.confirmed[t]]
  BY <1>3 DEF Hashed
<1>4. k \in Nat /\ Slot(k) \in Slots
  BY SlotType
<1>5. ConfirmedAt(s, k) = [t \in 0 .. k - 1 |-> r.confirmed[t]]
  BY <1>1, <1>3 DEF ConfirmedAt
<1>6. CASE k \in passed
  <2>1. \A u \in passed : Slot(u) = Slot(k) => u = k
    <3> SUFFICES ASSUME NEW u \in passed, Slot(u) = Slot(k) PROVE u = k
      OBVIOUS
    <3>1. /\ s.confirmedTick + 1 \in Nat
          /\ u \in s.confirmedTick + 1 .. s.confirmedTick + 1 + Window - 1
          /\ k \in s.confirmedTick + 1 .. s.confirmedTick + 1 + Window - 1
      BY <1>1, <1>2, <1>6
    <3>2. QED
      BY <3>1, SlotOnly
  <2>2. (CHOOSE t \in passed : Slot(t) = Slot(k)) = k
    BY <1>6, <2>1
  <2>3. QED
    BY <1>3, <1>4, <1>5, <1>6, <2>2
<1>7. CASE k \notin passed
  <2>1. k \in 0 .. s.confirmedTick /\ s.confirmedTick - k < Window
    BY <1>1, <1>2, <1>4, <1>7
  <2>2. \A u \in passed : Slot(u) # Slot(k)
    <3> SUFFICES ASSUME NEW u \in passed PROVE Slot(u) # Slot(k)
      OBVIOUS
    <3>1. u \in Nat /\ k < u /\ u - k < Window
      BY <1>1, <1>2, <1>4, <2>1
    <3>2. QED
      BY <1>4, <3>1, SlotApart
  <2>3. r.hash[Slot(k)] = s.hash[Slot(k)]
    BY <1>3, <1>4, <2>2
  <2>4. s.hash[Slot(k)] = [t \in 0 .. k - 1 |-> s.confirmed[t]]
    BY <2>1 DEF Hashed
  <2>5. \A t \in 0 .. k - 1 : r.confirmed[t] = s.confirmed[t]
    BY <1>1, <1>3, <2>1 DEF ConfirmedAt
  <2>6. QED
    BY <2>3, <2>4, <2>5
<1>8. QED
  BY <1>6, <1>7

\* A tick simulated with what is known leaves no wrong guess standing.
LEMMA SimulatedFresh ==
  ASSUME NEW s, Good(s), Known(s, s.localTick, s.me), ~WindowFull(s), Fresh(s), Shows(s),
         NEW q, q = Simulated(s)
  PROVE  Fresh(q) /\ Shows(q)
<1>1. PICK inputs : inputs = InputsFor(s, s.localTick)
  OBVIOUS
<1>2. /\ Good(q) /\ SameRing(s, q) /\ inputs \in Vector
      /\ q.confirmedTick = s.confirmedTick /\ q.confirmed = s.confirmed
      /\ q.used = [s.used EXCEPT ![Slot(s.localTick)] = inputs]
      /\ q.current = WorldStep(s.current, s.localTick, inputs)
      /\ q.localTick = s.localTick + 1
  BY <1>1, SimulatedGood
<1>3. /\ s.confirmedTick \in Nat /\ s.localTick \in Nat /\ Window \in Nat
      /\ s.confirmedTick <= s.localTick /\ s.localTick - s.confirmedTick < Window
      /\ s.used \in [Slots -> Vector] /\ Slot(s.localTick) \in Slots
  BY SlotType, NetAssumption DEF Good, Typed, Held
<1>4. \A t \in s.confirmedTick .. s.localTick - 1 :
         Slot(t) \in Slots /\ Slot(t) # Slot(s.localTick) /\ q.used[Slot(t)] = s.used[Slot(t)]
  <2> SUFFICES ASSUME NEW t \in s.confirmedTick .. s.localTick - 1
               PROVE  Slot(t) \in Slots /\ Slot(t) # Slot(s.localTick)
    BY <1>2, <1>3
  <2>1. t \in Nat /\ t < s.localTick /\ s.localTick - t < Window
    BY <1>3
  <2>2. QED
    BY <1>3, <2>1, SlotApart, SlotType
<1>5. q.used[Slot(s.localTick)] = inputs
  BY <1>2, <1>3
<1>6. Fresh(q)
  <2> SUFFICES ASSUME NEW t \in Unconfirmed(q), NEW p \in s.known[Slot(t)]
               PROVE  q.used[Slot(t)][p] = s.in[Slot(t)][p]
    BY <1>2 DEF Fresh, SameRing
  <2>1. CASE t = s.localTick
    <3>1. Known(s, t, p) /\ p \in Player
      BY <1>3, <2>1 DEF Known, Good, Typed
    <3>2. QED
      BY <1>1, <1>5, <2>1, <3>1 DEF InputsFor
  <2>2. CASE t # s.localTick
    <3>1. t \in Unconfirmed(s)
      BY <1>2, <1>3, <2>2 DEF Unconfirmed
    <3>2. QED
      BY <1>4, <3>1 DEF Fresh, Unconfirmed
  <2>3. QED
    BY <2>1, <2>2
<1>7. Shows(q)
  <2> SUFFICES ASSUME NEW t \in 0 .. s.localTick
               PROVE  q.current[t] = IF t < s.confirmedTick THEN s.confirmed[t] ELSE q.used[Slot(t)]
    BY <1>2, <1>3 DEF Shows
  <2>1. q.current[t] = IF t < s.localTick THEN s.current[t] ELSE inputs
    BY <1>2, <1>3 DEF WorldStep
  <2>2. CASE t = s.localTick
    BY <1>3, <1>5, <2>1, <2>2
  <2>3. CASE t < s.confirmedTick
    BY <1>3, <2>1, <2>3 DEF Shows
  <2>4. CASE t \in s.confirmedTick .. s.localTick - 1
    BY <1>3, <1>4, <2>1, <2>4 DEF Shows
  <2>5. QED
    BY <1>3, <2>2, <2>3, <2>4
<1>8. QED
  BY <1>6, <1>7

\* After a replay no guess that is known to be wrong stands, whatever stood before.
LEMMA RewindFresh ==
  ASSUME NEW s, Good(s), NEW r, r = Rewind(s)
  PROVE  Fresh(r) /\ Shows(r)
<1> DEFINE redone == s.confirmedTick .. s.localTick - 1
<1>1. /\ s.confirmedTick \in Nat /\ s.localTick \in Nat /\ Window \in Nat /\ Typed(s)
      /\ s.confirmedTick <= s.localTick /\ s.localTick - s.confirmedTick < Window
  BY NetAssumption DEF Good, Typed, Held
<1>2. /\ SameRing(s, r) /\ r.confirmed = s.confirmed /\ r.confirmedTick = s.confirmedTick
      /\ r.localTick = s.localTick
  BY RewindGood
<1>3. /\ r.current = [t \in 0 .. s.localTick - 1 |->
                         IF t < s.confirmedTick THEN s.confirmed[t] ELSE InputsFor(s, t)]
      /\ r.used = [k \in Slots |->
                         IF \E t \in redone : Slot(t) = k
                         THEN InputsFor(s, CHOOSE t \in redone : Slot(t) = k)
                         ELSE s.used[k]]
  BY <1>1 DEF Rewind, Typed
<1>4. \A t \in redone : Slot(t) \in Slots /\ r.used[Slot(t)] = InputsFor(s, t)
  <2> SUFFICES ASSUME NEW t \in redone
               PROVE  Slot(t) \in Slots /\ r.used[Slot(t)] = InputsFor(s, t)
    OBVIOUS
  <2>1. \A u \in redone : u \in s.confirmedTick .. s.confirmedTick + Window - 1
    BY <1>1
  <2>2. \A u \in redone : Slot(u) = Slot(t) => u = t
    BY <1>1, <2>1, SlotOnly
  <2>3. Slot(t) \in Slots
    BY <1>1, SlotType
  <2> HIDE DEF redone
  <2>4. (CHOOSE u \in redone : Slot(u) = Slot(t)) = t
    BY <2>2
  <2>5. QED
    BY <1>3, <2>3, <2>4
<1>5. Fresh(r)
  <2> SUFFICES ASSUME NEW t \in Unconfirmed(s), NEW p \in s.known[Slot(t)]
               PROVE  r.used[Slot(t)][p] = s.in[Slot(t)][p]
    BY <1>2 DEF Fresh, SameRing, Unconfirmed
  <2>1. Known(s, t, p) /\ p \in Player
    BY UnconfirmedInWindow
  <2>2. QED
    BY <1>4, <2>1 DEF Unconfirmed, InputsFor
<1>6. Shows(r)
  BY <1>1, <1>2, <1>3, <1>4 DEF Shows
<1>7. QED
  BY <1>5, <1>6

\* The second invariant, inductive on top of the first.
Replays(s) == (~s.cheated => Fresh(s) /\ Shows(s)) /\ Hashed(s)

\* The pad's word on the tick to come keeps the second invariant.
LEMMA LocalInputReplays ==
  ASSUME NEW s, Good(s), Replays(s), NEW input \in Input, NEW c, c = LocalInput(s, input)
  PROVE  Replays(c)
<1>1. /\ Good(c) /\ Keeps(s, c) /\ SameBut(s, c) /\ Known(c, c.localTick, s.me)
      /\ c.cheated = s.cheated
      /\ \A t \in Nat : \A p \in Player \ {s.me} : Known(c, t, p) => Known(s, t, p)
  BY LocalInputGood DEF SameBut
<1>2. Hashed(c)
  BY <1>1 DEF Replays, Hashed, SameBut
<1>3. ~c.cheated => Fresh(c) /\ Shows(c)
  <2> SUFFICES ASSUME ~c.cheated PROVE Fresh(c) /\ Shows(c)
    OBVIOUS
  <2>1. Fresh(s) /\ Shows(s)
    BY <1>1 DEF Replays
  <2>2. Shows(c)
    BY <1>1, <2>1 DEF Shows, SameBut
  <2>3. ASSUME NEW t \in Unconfirmed(c), NEW p \in c.known[Slot(t)]
        PROVE  c.used[Slot(t)][p] = c.in[Slot(t)][p]
    <3>1. t \in Unconfirmed(s) /\ t \in Nat
      BY <1>1, UnconfirmedInWindow DEF Unconfirmed, SameBut
    <3>2. Known(c, t, p) /\ p \in Player /\ Known(s, t, s.me)
      BY <1>1, <3>1, UnconfirmedInWindow
    <3>3. Known(s, t, p)
      BY <1>1, <3>1, <3>2
    <3>4. QED
      BY <1>1, <2>1, <3>2, <3>3, FreshIfNothingNew
  <2>4. QED
    BY <2>2, <2>3 DEF Fresh
<1>4. QED
  BY <1>2, <1>3 DEF Replays

\* A step keeps the second invariant.
LEMMA StepReplays ==
  ASSUME NEW c, Good(c), Replays(c), Known(c, c.localTick, c.me), NEW r, r = Step(c)
  PROVE  Replays(r)
<1>1. CASE c.cheated \/ WindowFull(c)
  BY <1>1 DEF Step
<1>2. CASE ~(c.cheated \/ WindowFull(c))
  <2>1. PICK q : q = Simulated(c)
    OBVIOUS
  <2>2. r = AdvanceConfirmed(q)
    BY <1>2, <2>1 DEF Step, Simulated
  <2>3. /\ Good(q) /\ q.hash = c.hash
        /\ q.confirmedTick = c.confirmedTick /\ q.confirmed = c.confirmed
    BY <1>2, <2>1, SimulatedGood
  <2>4. Hashed(q)
    BY <2>3 DEF Replays, Hashed
  <2>5. Fresh(q) /\ Shows(q)
    BY <1>2, <2>1, SimulatedFresh DEF Replays
  <2>6. QED
    BY <2>2, <2>3, <2>4, <2>5, AdvanceFresh, AdvanceHashed DEF Replays
<1>3. QED
  BY <1>1, <1>2

\* So does one tick of the race loop.
LEMMA TickReplays ==
  ASSUME NEW s, Good(s), Replays(s), NEW input \in Input, NEW r, r = Step(LocalInput(s, input))
  PROVE  Replays(r)
<1>1. PICK c : c = LocalInput(s, input)
  OBVIOUS
<1>2. Good(c) /\ Replays(c) /\ Known(c, c.localTick, c.me)
  BY <1>1, LocalInputGood, LocalInputReplays DEF SameBut
<1>3. QED
  BY <1>1, <1>2, StepReplays

\* A datagram keeps the second invariant: where it proves a guess wrong the replay
\* restores it, and where it proves none nothing had to be restored.
LEMMA ReceiveReplays ==
  ASSUME NEW s, Good(s), Replays(s), NEW d, Shaped(d), NEW r, r = Receive(s, d)
  PROVE  Replays(r)
<1>1. CASE d.from = s.me \/ s.cheated
  <2>1. r = s
    BY <1>1 DEF Receive, Good, Typed
  <2>2. QED
    BY <2>1
<1>2. CASE ~(d.from = s.me \/ s.cheated)
  <2>1. PICK promised : promised = HearPromises(s, d)
    OBVIOUS
  <2>2. PICK revealed : revealed = HearReveals(promised, d)
    OBVIOUS
  <2>3. PICK advanced : advanced = AdvanceConfirmed(revealed)
    OBVIOUS
  <2>4. PICK rewound : rewound = IF WrongGuess(promised, d) THEN Rewind(advanced) ELSE advanced
    OBVIOUS
  <2>5. PICK compared : compared = CompareHash(rewound, d)
    OBVIOUS
  <2>6. r = IF promised.cheated THEN promised
            ELSE IF revealed.cheated THEN revealed
            ELSE compared
    <3>1. s.me = s.me
      BY DEF Good, Typed
    <3>2. QED
      BY <1>2, <2>1, <2>2, <2>3, <2>4, <2>5, <3>1 DEF Receive, Shaped
  <2>7. Fresh(s) /\ Shows(s) /\ Hashed(s)
    BY <1>2 DEF Replays
  <2>8. /\ Good(promised) /\ Keeps(s, promised) /\ SameBut(s, promised)
        /\ LearnsNothing(s, promised)
    BY <2>1, HearPromisesGood
  <2>9. /\ Good(revealed) /\ Keeps(promised, revealed) /\ SameBut(promised, revealed)
        /\ \A t \in Nat : \A p \in Player :
               Known(revealed, t, p) /\ ~Known(promised, t, p) =>
                  p = d.from /\ t \in Accepted(promised, d) /\ revealed.in[Slot(t)][p] = d.reveal[t]
    BY <1>2, <2>2, <2>8, HearRevealsGood DEF SameBut
  <2>10. Hashed(promised) /\ Hashed(revealed) /\ Shows(promised) /\ Shows(revealed)
    BY <2>7, <2>8, <2>9 DEF Hashed, Shows, SameBut
  <2>11. Fresh(promised)
    <3> SUFFICES ASSUME NEW t \in Unconfirmed(promised), NEW p \in promised.known[Slot(t)]
                 PROVE  promised.used[Slot(t)][p] = promised.in[Slot(t)][p]
      BY DEF Fresh
    <3>1. t \in Nat /\ Known(promised, t, p) /\ p \in Player
      BY <2>8, UnconfirmedInWindow
    <3>2. Known(s, t, p)
      BY <2>8, <3>1 DEF LearnsNothing
    <3>3. QED
      BY <2>7, <2>8, <3>1, <3>2, FreshIfNothingNew
  <2>12. ~WrongGuess(promised, d) => Fresh(revealed)
    <3> SUFFICES ASSUME ~WrongGuess(promised, d),
                        NEW t \in Unconfirmed(revealed), NEW p \in revealed.known[Slot(t)]
                 PROVE  revealed.used[Slot(t)][p] = revealed.in[Slot(t)][p]
      BY DEF Fresh
    <3>1. t \in Nat /\ Known(revealed, t, p) /\ p \in Player
      BY <2>9, UnconfirmedInWindow
    <3>2. CASE Known(promised, t, p)
      BY <2>8, <2>9, <2>11, <3>1, <3>2, FreshIfNothingNew
    <3>3. CASE ~Known(promised, t, p)
      <4>1. p = d.from /\ t \in Accepted(promised, d) /\ revealed.in[Slot(t)][p] = d.reveal[t]
        BY <2>9, <3>1, <3>3
      <4>2. t < promised.localTick /\ revealed.used = promised.used
        BY <2>9, <3>1 DEF Unconfirmed, SameBut, Good, Typed
      <4>3. promised.used[Slot(t)][d.from] = d.reveal[t]
        BY <3>3, <4>1, <4>2 DEF WrongGuess
      <4>4. QED
        BY <4>1, <4>2, <4>3
    <3>4. QED
      BY <3>2, <3>3
  <2>13. /\ Good(advanced) /\ Hashed(advanced)
         /\ ~WrongGuess(promised, d) => Fresh(advanced) /\ Shows(advanced)
    BY <2>3, <2>9, <2>10, <2>12, AdvanceGood, AdvanceHashed, AdvanceFresh
  <2>14. Good(rewound) /\ Hashed(rewound) /\ Fresh(rewound) /\ Shows(rewound)
    <3>1. CASE WrongGuess(promised, d)
      <4>1. rewound = Rewind(advanced)
        BY <2>4, <3>1
      <4>2. /\ rewound.confirmed = advanced.confirmed /\ rewound.hash = advanced.hash
            /\ rewound.confirmedTick = advanced.confirmedTick
        BY <2>13, <4>1, RewindGood
      <4>3. Hashed(rewound)
        BY <2>13, <4>2 DEF Hashed
      <4>4. QED
        BY <2>13, <4>1, <4>3, RewindGood, RewindFresh
    <3>2. CASE ~WrongGuess(promised, d)
      BY <2>4, <2>13, <3>2
    <3>3. QED
      BY <3>1, <3>2
  <2>15. Fresh(compared) /\ Shows(compared) /\ Hashed(compared)
    <3>1. /\ SameRing(rewound, compared)
          /\ compared.confirmed = rewound.confirmed
          /\ compared.confirmedTick = rewound.confirmedTick
          /\ compared.current = rewound.current /\ compared.used = rewound.used
          /\ compared.localTick = rewound.localTick /\ compared.hash = rewound.hash
      BY <2>5, <2>14, CompareHashGood
    <3>2. QED
      BY <2>14, <3>1 DEF Fresh, Shows, Hashed, SameRing, Unconfirmed
  <2>16. QED
    BY <2>6, <2>10, <2>15 DEF Replays
<1>3. QED
  BY <1>1, <1>2

\* A session begins with the second invariant.
LEMMA BeginReplays ==
  ASSUME NEW me \in Player
  PROVE  Replays(Begin(me))
<1>1. PICK s : s = Begin(me)
  OBVIOUS
<1>2. /\ s.confirmedTick = 0 /\ s.localTick = 0
      /\ s.confirmed = [t \in 0 .. -1 |-> [p \in Player |-> Idle]]
      /\ s.hash = [k \in Slots |-> IF k = 0 THEN [t \in 0 .. -1 |-> [p \in Player |-> Idle]]
                                            ELSE NoHash]
  BY <1>1 DEF Begin
<1>3. Fresh(s) /\ Shows(s)
  BY <1>2 DEF Fresh, Shows, Unconfirmed
<1>4. Hashed(s)
  <2> SUFFICES ASSUME NEW k \in 0 .. 0
               PROVE  s.hash[Slot(k)] = [t \in 0 .. k - 1 |-> s.confirmed[t]]
    BY <1>2 DEF Hashed
  <2>1. k = 0 /\ Slot(k) = 0 /\ 0 \in Slots
    BY NetAssumption DEF Slot, Slots
  <2>2. s.hash[Slot(k)] = [t \in 0 .. -1 |-> [p \in Player |-> Idle]]
    BY <1>2, <2>1
  <2>3. [t \in 0 .. k - 1 |-> s.confirmed[t]] = [t \in 0 .. -1 |-> [p \in Player |-> Idle]]
    BY <2>1
  <2>4. QED
    BY <2>2, <2>3
<1>5. QED
  BY <1>1, <1>3, <1>4 DEF Replays
=============================================================================
