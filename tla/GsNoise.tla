------------------------------- MODULE GsNoise -------------------------------
(***************************************************************************)
(* A sealed channel (net/gs_noise.c) as what its two ends keep of it: the  *)
(* keys agreed, the counter the next datagram is sealed under, and the     *)
(* window that tells a late datagram from one seen before.                 *)
(*                                                                         *)
(* The cryptography is taken at its word: a datagram opens only under the  *)
(* keys it was sealed with, and only unchanged.  The 64-bit map `seen` is  *)
(* the set of its one bits; the window is as wide as the map, so a shift   *)
(* drops exactly the bits that leave the window.  An operator marked       *)
(* "Slip" is the one below it with a plausible mistake, for checking that  *)
(* the properties would notice.                                            *)
(***************************************************************************)
EXTENDS Integers

CONSTANTS Window,        \* GS_NOISE_WINDOW, 64
          MessageLimit   \* GS_NOISE_MESSAGE_LIMIT, 2^40

ASSUME NoiseAssumption ==
    /\ Window \in Nat \ {0}
    /\ MessageLimit \in Nat

\* gs_noise_session, but for the keys: n counts the datagrams sealed at this end;
\* the rest is the window over those opened.
Session == [n : Nat, started : BOOLEAN, newest : Nat, seen : SUBSET (0 .. Window - 1)]

\* What gs_noise_split leaves: nothing sent, nothing opened.
Split == [n |-> 0, started |-> FALSE, newest |-> 0, seen |-> {}]

\* gs_noise_seal refuses once a session has sent all it may; otherwise the
\* datagram carries n, and gs_encrypt_ad moves n on.
MaySeal(s) == s.n < MessageLimit
Sealed(s)  == [s EXCEPT !.n = @ + 1]

\* Slip: the window is one wider than the map that is kept of it.
WindowAllowsOneMore(s, counter) ==
    \/ ~s.started
    \/ counter > s.newest
    \/ /\ s.newest - counter <= Window
       /\ s.newest - counter \notin s.seen

\* gs_window_allows
WindowAllows(s, counter) ==
    \/ ~s.started
    \/ counter > s.newest
    \/ /\ s.newest - counter < Window
       /\ s.newest - counter \notin s.seen

\* gs_window_record
WindowRecord(s, counter) ==
    IF ~s.started
    THEN [s EXCEPT !.started = TRUE, !.newest = counter, !.seen = {0}]
    ELSE IF counter > s.newest
    THEN [s EXCEPT !.newest = counter,
                   !.seen = {0} \cup {o \in 0 .. Window - 1 :
                                        o - (counter - s.newest) \in s.seen}]
    ELSE [s EXCEPT !.seen = @ \cup {s.newest - counter}]

\* gs_noise_open, its verdict and what it leaves: the window moves only for a
\* datagram that turned out genuine.
Opens(s, counter, genuine) ==
    /\ counter < MessageLimit
    /\ WindowAllows(s, counter)
    /\ genuine

\* Slip: the counter is recorded before the datagram is known to be genuine.
OpenEarly(s, counter, genuine) ==
    IF counter < MessageLimit /\ WindowAllows(s, counter)
    THEN WindowRecord(s, counter) ELSE s

Open(s, counter, genuine) ==
    IF Opens(s, counter, genuine) THEN WindowRecord(s, counter) ELSE s
=============================================================================
