------------------------------ MODULE GsTrack -------------------------------
(***************************************************************************)
(* What a track is (core/gs_track.h) and what is worked out from it: which *)
(* gates are checkpoints, the same route the other way round, the file it  *)
(* is written as and read back from, its identity, and the code it is      *)
(* shared as (gs_track.c, gs_share.c).                                     *)
(*                                                                         *)
(* Ground is a function from tiles and corners to what is stored there;    *)
(* bytes, sizes, compression and base 64 are left out.  Gates are numbered *)
(* from 0 as in the source: gate i is gate[i + 1].                         *)
(***************************************************************************)
EXTENDS Integers, Sequences

CONSTANT MaxGates       \* GS_TRACK_MAX_GATES

Gates(t) == Len(t.gate)
GateAt(t, i) == t.gate[i + 1]
IsCircuit(t) == t.route = "circuit"

\* gs_track_init: a path, every gate a checkpoint, no shortcuts.
NewTrack(ground) ==
    [ground |-> ground, gate |-> <<>>, route |-> "sprint", every |-> 1, cut |-> {}]

FinishGate(t) == IF Gates(t) = 0 \/ IsCircuit(t) THEN 0 ELSE Gates(t) - 1

IsCheckpoint(t, i) ==
    /\ i < Gates(t)
    /\ t.every <= 1 \/ i \in {0, FinishGate(t)} \/ i % t.every = 0

\* The first checkpoint after i; i itself when there is none, as at a path's end.
NextCheckpoint(t, i) ==
    LET n == Gates(t)
        steps == {s \in 1 .. n :
                    /\ IsCheckpoint(t, (i + s) % n)
                    /\ IsCircuit(t) \/ i + s < n}
    IN  IF steps = {} THEN i
        ELSE (i + (CHOOSE s \in steps : \A r \in steps : s <= r)) % n

ShortcutFrom(t, i) == i < Gates(t) /\ i \in t.cut
SetShortcut(t, i, on) ==
    IF i >= MaxGates THEN t
    ELSE [t EXCEPT !.cut = IF on THEN @ \cup {i} ELSE @ \ {i}]

-----------------------------------------------------------------------------
(* The other way round *)

\* A gate is <<where, whether it has been turned to face the other way>>.
Turned(g) == <<g[1], ~g[2]>>

\* Gate i of the reversed route is this one: a loop keeps gate 0 where it is.
From(t, i) == IF IsCircuit(t) THEN (Gates(t) - i) % Gates(t) ELSE Gates(t) - 1 - i

\* Slip: a shortcut keeps its checkpoint's number and loses its direction.
ReverseGatesOnly(t) ==
    [t EXCEPT !.gate = [j \in DOMAIN @ |->
                          Turned(@[(IF Gates(t) < 2 THEN j - 1 ELSE From(t, j - 1)) + 1])]]

TurnRound(t) ==
    IF Gates(t) < 2
    THEN [t EXCEPT !.gate = [j \in DOMAIN @ |-> Turned(@[j])]]
    ELSE [t EXCEPT !.gate = [j \in DOMAIN @ |-> Turned(@[From(t, j - 1) + 1])],
                   !.cut = {From(t, NextCheckpoint(t, a)) :
                                a \in {c \in 0 .. Gates(t) - 1 : c \in t.cut}}]

-----------------------------------------------------------------------------
(* The file, and what a track is called *)

\* The oldest version that can hold it.
Version(t) == IF t.cut # {} THEN 5 ELSE IF t.every > 1 THEN 4 ELSE 3

\* gs_track_serialize: `every` and `cut` are in the file only from versions 4 and 5.
Written(t) ==
    [version |-> Version(t), ground |-> t.ground, gate |-> t.gate, route |-> t.route,
     every |-> IF Version(t) >= 4 THEN t.every ELSE 0,
     cut |-> IF Version(t) >= 5 THEN t.cut ELSE {}]

\* gs_track_deserialize: all of it is looked at before any of it is kept.
Readable(f) ==
    /\ f.version \in 2 .. 5
    /\ Len(f.gate) <= MaxGates
    /\ f.version >= 3 => f.route \in {"sprint", "circuit"}

Read(f) ==
    [ground |-> f.ground, gate |-> f.gate,
     route |-> IF f.version >= 3 THEN f.route ELSE "sprint",
     every |-> IF f.version >= 4 /\ f.every > 0 THEN f.every ELSE 1,
     cut |-> IF f.version >= 5 THEN f.cut ELSE {}]

\* gs_track_hash: two tracks with the same of this are the same track.
Identity(t) ==
    <<t.ground, t.route, IF t.every > 1 THEN t.every ELSE 1, t.cut, t.gate>>

\* gs_track_hash_before_route_kind.
IdentityBefore(t) ==
    <<t.ground, IF t.every > 1 THEN t.every ELSE 1, t.cut, t.gate>>

\* gs_track_to_code: the file, and the identity it must come out as.
Code(t) == [file |-> Written(t), id |-> Identity(t)]

Decodes(c) ==
    /\ Readable(c.file)
    /\ Identity(Read(c.file)) = c.id \/ IdentityBefore(Read(c.file)) = c.id
=============================================================================
