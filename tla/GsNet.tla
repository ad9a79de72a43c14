------------------------------- MODULE GsNet -------------------------------
(***************************************************************************)
(* Rollback with commit-then-reveal (core/gs_net.c): what one machine of a *)
(* networked race remembers, and the pure functions that change it.  There *)
(* are no sockets in gs_net.c and no variables here: each operator takes   *)
(* the session record  n  (struct gs_net) and returns the next one, and    *)
(* the modules GsPeer and GsRace say when the program calls them.          *)
(*                                                                         *)
(* Three abstractions, all of data:                                        *)
(*   - a world is the list of input vectors that made it, a function on    *)
(*     0 .. ticks-1: the simulation is deterministic, so equal lists are   *)
(*     equal worlds, and gs_world_hash is injective on the worlds of one   *)
(*     race.  A state that has the right inputs in the wrong order, or one *)
(*     guess too many, is therefore a different world here too;            *)
(*   - a commitment is the input it commits to: gs_commit_of is a BLAKE2s  *)
(*     of salt, tick and input, binding for a given peer and tick, and     *)
(*     nothing in the receiver reads an input out of one;                  *)
(*   - the packed bytes of a datagram are a record, its two runs of ticks  *)
(*     functions on the tick numbers.                                      *)
(*                                                                         *)
(* An operator marked "Slip" is one above it written with a plausible      *)
(* mistake.  Nothing uses it: put in the place of the definition that      *)
(* follows it, it has to break the property PROJECT.json names, which      *)
(* shows that the property says something of this code.                    *)
(***************************************************************************)
EXTENDS Integers

CONSTANTS Player,       \* the cars of the race, one per machine
          Input,        \* what a pad can say on one tick
          Idle,         \* (gs_input)0: nothing pressed
          Window,       \* GS_NET_WINDOW, 256
          Redundancy,   \* GS_NET_REDUNDANCY, 32
          RevealDelay,  \* GS_NET_REVEAL_DELAY and GS_NET_COMMITS, 12
          FlushWait,    \* flush_wait at the finish, GS_NET_COMMITS * 4
          NoHash        \* what a slot of hash[] holds before it is written

ASSUME NetAssumption ==
    /\ Idle \in Input
    /\ Window \in Nat /\ Window > 1
    /\ Redundancy \in Nat
    /\ RevealDelay \in Nat
    /\ RevealDelay + Redundancy <= Window      \* one datagram never wraps the ring
    /\ FlushWait \in Nat

Vector == [Player -> Input]
Slots  == 0 .. Window - 1
NoTick == -1

Slot(tick) == tick % Window

(***************************************************************************)
(* The ring of slots.                                                      *)
(***************************************************************************)

\* Slip: the slots are stamped and not emptied.
ClaimUnemptied(n, T) ==
    [n EXCEPT !.stamp = [s \in Slots |-> IF \E t \in T : Slot(t) = s
                                         THEN CHOOSE t \in T : Slot(t) = s
                                         ELSE n.stamp[s]]]

\* The slots of the ticks in T, emptied where they still held another tick.
\* The program claims one tick at a time; the ticks it claims for one datagram
\* lie within one window, so they never compete for a slot.
Claim(n, T) ==
    LET holder(s)  == IF \E t \in T : Slot(t) = s
                      THEN CHOOSE t \in T : Slot(t) = s
                      ELSE n.stamp[s]
        kept(s)    == holder(s) = n.stamp[s]
        nothing    == [p \in Player |-> Idle]
    IN [n EXCEPT
          !.stamp     = [s \in Slots |-> holder(s)],
          !.known     = [s \in Slots |-> IF kept(s) THEN n.known[s] ELSE {}],
          !.committed = [s \in Slots |-> IF kept(s) THEN n.committed[s] ELSE {}],
          !.in        = [s \in Slots |-> IF kept(s) THEN n.in[s] ELSE nothing],
          !.promise   = [s \in Slots |-> IF kept(s) THEN n.promise[s] ELSE nothing]]

Live(n, t)        == n.stamp[Slot(t)] = t
Known(n, t, p)    == Live(n, t) /\ p \in n.known[Slot(t)]
Promised(n, t, p) == Live(n, t) /\ p \in n.committed[Slot(t)]

Complete(n, t) == Live(n, t) /\ Player \subseteq n.known[Slot(t)]

\* What a player is assumed to do on a tick nobody has reported: whatever the
\* most recent report in the history still held says they did.
Predict(n, tick, p) ==
    LET back      == IF tick < Window THEN tick ELSE Window
        reported  == {t \in tick - back .. tick - 1 : Known(n, t, p)}
        latest(t) == t \in reported /\ \A u \in reported : u <= t
    IN IF \E t \in reported : latest(t)
       THEN n.in[Slot(CHOOSE t \in reported : latest(t))][p]
       ELSE Idle

InputsFor(n, tick) ==
    [p \in Player |-> IF Known(n, tick, p) THEN n.in[Slot(tick)][p]
                                           ELSE Predict(n, tick, p)]

\* The world after one more tick of the simulation.
WorldStep(w, tick, inputs) ==
    [t \in 0 .. tick |-> IF t < tick THEN w[t] ELSE inputs]

(***************************************************************************)
(* The session.                                                            *)
(***************************************************************************)

Begin(me) ==
    LET start == [t \in 0 .. -1 |-> [p \in Player |-> Idle]]
        blank == [s \in Slots |-> [p \in Player |-> Idle]]
    IN [me            |-> me,
        confirmed     |-> start,
        confirmedTick |-> 0,
        current       |-> start,
        localTick     |-> 0,
        stamp         |-> [s \in Slots |-> NoTick],
        known         |-> [s \in Slots |-> {}],
        in            |-> blank,
        used          |-> blank,
        committed     |-> [s \in Slots |-> {}],
        promise       |-> blank,
        hash          |-> [s \in Slots |-> IF s = 0 THEN start ELSE NoHash],
        flushing      |-> FALSE,
        flushWait     |-> 0,
        desynced      |-> FALSE,
        cheated       |-> FALSE]

\* Slip: the pad polled last is what counts.
LocalInputRewritten(n, input) ==
    LET slot == Slot(n.localTick)
        c    == Claim(n, {n.localTick})
    IN [c EXCEPT !.in[slot][n.me] = input, !.known[slot] = @ \cup {n.me}]

\* The first word on a tick is the last one: a stalled race polls the pad again
\* for a tick whose input may already be promised.
LocalInput(n, input) ==
    LET slot == Slot(n.localTick)
        c    == Claim(n, {n.localTick})
    IN IF n.me \in c.known[slot]
       THEN c
       ELSE [c EXCEPT !.in[slot][n.me] = input,
                      !.known[slot]    = @ \cup {n.me}]

Finish(n) ==
    IF n.flushing THEN n
    ELSE [n EXCEPT !.flushing = TRUE, !.flushWait = FlushWait]

\* How far the confirmed race can be walked: over every tick already simulated
\* for which every player's input is known.
Frontier(n) ==
    CHOOSE c \in n.confirmedTick .. n.localTick :
        /\ \A t \in n.confirmedTick .. c - 1 : Complete(n, t)
        /\ c = n.localTick \/ ~Complete(n, c)

\* Slip: what was shown is agreed, guesses and all.
ConfirmedAsShown(n, k) ==
    [t \in 0 .. k - 1 |-> IF t < n.confirmedTick THEN n.confirmed[t] ELSE n.used[Slot(t)]]

\* The agreed race at tick k, k no further than the frontier.
ConfirmedAt(n, k) ==
    [t \in 0 .. k - 1 |-> IF t < n.confirmedTick THEN n.confirmed[t] ELSE n.in[Slot(t)]]

\* Slip: the hash is kept under the tick before.
HashedBefore(n, to) == n.confirmedTick .. to - 1

\* The ticks whose hash is written down on the way to `to`.
HashedOnTheWay(n, to) == n.confirmedTick + 1 .. to

AdvanceConfirmed(n) ==
    LET to     == Frontier(n)
        passed == HashedOnTheWay(n, to)
    IN [n EXCEPT
          !.confirmed     = ConfirmedAt(n, to),
          !.confirmedTick = to,
          !.hash          = [s \in Slots |->
                               IF \E k \in passed : Slot(k) = s
                               THEN ConfirmedAt(n, CHOOSE k \in passed : Slot(k) = s)
                               ELSE n.hash[s]]]

\* Slip: off by one; the tick to rewind to is overwritten.
WindowFullLate(n) == n.localTick - n.confirmedTick >= Window

WindowFull(n) == n.localTick - n.confirmedTick >= Window - 1

Step(n) ==
    LET inputs == InputsFor(n, n.localTick)
    IN IF n.cheated \/ WindowFull(n)
       THEN n
       ELSE AdvanceConfirmed(
              [n EXCEPT !.used[Slot(n.localTick)] = inputs,
                        !.current   = WorldStep(n.current, n.localTick, inputs),
                        !.localTick = n.localTick + 1])

\* Every player's input for a confirmed tick, while the window still holds it.
ConfirmedInputHeld(n, tick) ==
    /\ tick < n.confirmedTick
    /\ n.confirmedTick - tick <= Window
    /\ Live(n, tick)

(***************************************************************************)
(* The wire.                                                               *)
(***************************************************************************)

\* One past the last tick whose local input is recorded.
End(n) == IF Known(n, n.localTick, n.me) THEN n.localTick + 1 ELSE n.localTick

\* Slip: one copy too few.
TrailingShort(end, count) == (IF end < count THEN 0 ELSE end - count + 1) .. end - 1

\* The `count` ticks before `end`, or as many as there are.
Trailing(end, count) == (IF end < count THEN 0 ELSE end - count) .. end - 1

\* The datagram sent now.  Both runs are read out of the ring by slot number
\* alone, whatever tick the slot holds.
Datagram(n) ==
    LET end       == End(n)
        revealEnd == IF n.flushing /\ n.flushWait = 0 THEN end
                     ELSE IF end > RevealDelay THEN end - RevealDelay ELSE 0
        mine(t)   == n.in[Slot(t)][n.me]
    IN [from    |-> n.me,
        promise |-> [t \in Trailing(end, RevealDelay) |-> mine(t)],
        reveal  |-> [t \in Trailing(revealEnd, Redundancy) |-> mine(t)],
        tick    |-> n.confirmedTick,
        hash    |-> n.hash[Slot(n.confirmedTick)]]

\* ... and what sending it changes: the count of datagrams before the flush.
AfterDatagram(n) ==
    IF n.flushing /\ n.flushWait > 0 THEN [n EXCEPT !.flushWait = @ - 1] ELSE n

InWindow(n, t) == t >= n.confirmedTick /\ t - n.confirmedTick < Window

\* Slip: a promise counts even when it travels with its proof.
PromisesDueAll(n, d) == {t \in DOMAIN d.promise : InWindow(n, t)}

\* The promises a datagram is heard for: not those it also proves.
PromisesDue(n, d) == {t \in DOMAIN d.promise \ DOMAIN d.reveal : InWindow(n, t)}

\* The promises of a datagram, up to the first that contradicts one already kept.
HearPromises(n, d) ==
    LET due   == PromisesDue(n, d)
        broken(t) == Promised(n, t, d.from) /\ n.promise[Slot(t)][d.from] # d.promise[t]
        heard == {t \in due : \A u \in due : broken(u) => t < u}
        c     == Claim(n, heard)
        new(s) == c.stamp[s] \in heard /\ d.from \notin c.committed[s]
    IN [c EXCEPT
          !.committed = [s \in Slots |-> IF new(s) THEN c.committed[s] \cup {d.from}
                                                   ELSE c.committed[s]],
          !.promise   = [s \in Slots |-> IF new(s)
                           THEN [c.promise[s] EXCEPT ![d.from] = d.promise[c.stamp[s]]]
                           ELSE c.promise[s]],
          !.cheated   = \E t \in due : broken(t)]

RevealsDue(n, d) == {t \in DOMAIN d.reveal : InWindow(n, t)}

\* A proof that does not match the promise kept for its tick.
BrokenPromise(n, d, t) ==
    Promised(n, t, d.from) /\ n.promise[Slot(t)][d.from] # d.reveal[t]

\* The proofs a datagram gets to: those before the first broken promise.
RevealsHeard(n, d) ==
    {t \in RevealsDue(n, d) :
        \A u \in RevealsDue(n, d) : BrokenPromise(n, d, u) => t < u}

\* Of those, the ones with a promise in front of them.
Accepted(n, d) == {t \in RevealsHeard(n, d) : Promised(n, t, d.from)}

HearReveals(n, d) ==
    LET c      == Claim(n, RevealsHeard(n, d))
        new(s) == c.stamp[s] \in Accepted(n, d)
    IN [c EXCEPT
          !.in      = [s \in Slots |-> IF new(s)
                         THEN [c.in[s] EXCEPT ![d.from] = d.reveal[c.stamp[s]]]
                         ELSE c.in[s]],
          !.known   = [s \in Slots |-> IF new(s) THEN c.known[s] \cup {d.from}
                                                 ELSE c.known[s]],
          !.cheated = \E t \in RevealsDue(n, d) : BrokenPromise(n, d, t)]

\* Slip: the newest simulated tick is not looked at.
WrongGuessButLast(n, d) ==
    \E t \in Accepted(n, d) :
        /\ ~(Known(n, t, d.from) /\ n.in[Slot(t)][d.from] = d.reveal[t])
        /\ t < n.localTick - 1
        /\ n.used[Slot(t)][d.from] # d.reveal[t]

\* A guess that turned out to be wrong, on a tick already simulated.
WrongGuess(n, d) ==
    \E t \in Accepted(n, d) :
        /\ ~(Known(n, t, d.from) /\ n.in[Slot(t)][d.from] = d.reveal[t])
        /\ t < n.localTick
        /\ n.used[Slot(t)][d.from] # d.reveal[t]

\* Slip: the replay does not note the inputs it used.
RewindUnnoted(n) ==
    [n EXCEPT !.current = [t \in 0 .. n.localTick - 1 |->
                 IF t < n.confirmedTick THEN n.confirmed[t] ELSE InputsFor(n, t)]]

\* Back to the confirmed world, and forward again with what is known now.
Rewind(n) ==
    LET redone == n.confirmedTick .. n.localTick - 1
    IN [n EXCEPT
          !.current = [t \in 0 .. n.localTick - 1 |->
                         IF t < n.confirmedTick THEN n.confirmed[t] ELSE InputsFor(n, t)],
          !.used    = [s \in Slots |->
                         IF \E t \in redone : Slot(t) = s
                         THEN InputsFor(n, CHOOSE t \in redone : Slot(t) = s)
                         ELSE n.used[s]]]

\* Both machines have to agree about the past, not just the present.
CompareHash(n, d) ==
    IF /\ d.tick <= n.confirmedTick
       /\ n.confirmedTick - d.tick < Window
       /\ n.hash[Slot(d.tick)] # d.hash
    THEN [n EXCEPT !.desynced = TRUE]
    ELSE n

Receive(n, d) ==
    LET promised == HearPromises(n, d)
        revealed == HearReveals(promised, d)
        advanced == AdvanceConfirmed(revealed)
    IN IF d.from \notin Player \/ d.from = n.me \/ n.cheated THEN n
       ELSE IF promised.cheated THEN promised
       ELSE IF revealed.cheated THEN revealed
       ELSE CompareHash(IF WrongGuess(promised, d) THEN Rewind(advanced)
                                                   ELSE advanced, d)

-----------------------------------------------------------------------------
(* What should hold of a session, in the middle of a call as well as between two. *)

World(w, ticks) == w \in [0 .. ticks - 1 -> Vector]

\* A record with the fields of struct gs_net, and no others.
IsSession(s) ==
    s = [me |-> s.me, confirmed |-> s.confirmed, confirmedTick |-> s.confirmedTick,
         current |-> s.current, localTick |-> s.localTick, stamp |-> s.stamp,
         known |-> s.known, in |-> s.in, used |-> s.used,
         committed |-> s.committed, promise |-> s.promise, hash |-> s.hash,
         flushing |-> s.flushing, flushWait |-> s.flushWait,
         desynced |-> s.desynced, cheated |-> s.cheated]

\* The properties that hold in the middle of a call as well as between two are
\* stated of a session s.
Typed(s) ==
    /\ IsSession(s)
    /\ s.me \in Player
    /\ s.confirmedTick \in Nat /\ World(s.confirmed, s.confirmedTick)
    /\ s.localTick \in Nat     /\ World(s.current, s.localTick)
    /\ s.stamp \in [Slots -> Nat \cup {NoTick}]
    /\ s.known \in [Slots -> SUBSET Player]
    /\ s.committed \in [Slots -> SUBSET Player]
    /\ s.in \in [Slots -> Vector]
    /\ s.used \in [Slots -> Vector]
    /\ s.promise \in [Slots -> Vector]
    /\ s.hash = [k \in Slots |-> s.hash[k]]
    /\ s.flushing \in BOOLEAN /\ s.flushWait \in 0 .. FlushWait
    /\ s.desynced \in BOOLEAN /\ s.cheated \in BOOLEAN

\* The ticks simulated and not yet agreed.
Unconfirmed(s) == s.confirmedTick .. s.localTick - 1

Held(s) ==
    /\ s.confirmedTick <= s.localTick
    /\ s.localTick - s.confirmedTick < Window
    /\ \A t \in Unconfirmed(s) : Known(s, t, s.me)

Sound(s) ==
    \A k \in Slots : s.stamp[k] # NoTick =>
        Slot(s.stamp[k]) = k /\ s.stamp[k] < s.confirmedTick + Window

Proven(s) ==
    \A k \in Slots : \A p \in s.known[k] \ {s.me} :
        p \in s.committed[k] /\ s.in[k][p] = s.promise[k][p]
=============================================================================
