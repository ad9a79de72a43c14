------------------------------ MODULE GsGround ------------------------------
(***************************************************************************)
(* Where things are on a track (core/gs_track.c): gates that face a way,   *)
(* what is wrong with a route of them, the line the route takes, where the *)
(* grid stands, which step of a car goes through a gate and which past it, *)
(* and how high and steep the ground is, on the track and off it.          *)
(*                                                                         *)
(* Distances are whole units, so many to a tile, and a heading is a vector *)
(* of any length instead of a 16-bit angle, so that all of it is exact:    *)
(* lengths are compared by their squares, fractions cross-multiplied.      *)
(* What the source rounds in the last bit is left out.                     *)
(***************************************************************************)
EXTENDS GsTrack, FiniteSets

CONSTANTS Tile,             \* units to a tile
          Width, Height,    \* of the field, in tiles
          Corner,           \* Corner[x][y]: how high its corners are
          RunOff, Fall, Floor,      \* GS_RUNOFF_TILES, GS_RUNOFF_FALL, GS_RUNOFF_FLOOR
          Back, Stagger,    \* GS_GRID_BACK and GS_GRID_STAGGER, in units
          GridSlots,        \* GS_TRACK_GRID
          LeastHalf, LeastApart,    \* GS_GATE_MIN_WIDTH and GS_GATE_MIN_APART, in units
          Sites,            \* where a gate may be put: [at, face, half]
          Steps,            \* which way a car may go
          MostGates,        \* bound: how many gates are laid,
          DrivenGates,      \* and on a track that is driven
          ArcMax,           \* GS_ARC_MAX
          Flight,           \* bound: how long a car is in the air
          CarTurns,            \* bound: how often a car is turned,
          Wander            \* and how far it may go off the field

ASSUME GroundAssumption ==
    /\ Tile \in Nat /\ Tile >= 2 /\ Width \in Nat \ {0} /\ Height \in Nat \ {0}
    /\ Corner \in [0 .. Width -> [0 .. Height -> Int]]
    /\ RunOff \in Nat /\ Fall \in Nat /\ Floor \in Nat
    /\ Back \in Nat \ {0} /\ Stagger \in Nat /\ GridSlots \in Nat \ {0}
    /\ LeastHalf \in Nat \ {0} /\ LeastApart \in Nat \ {0}
    /\ Sites \subseteq [at : Int \X Int, face : Int \X Int, half : Int]
    /\ Steps \subseteq Int \X Int
    /\ ArcMax \in Nat \ {0} /\ ArcMax % 2 = 0 /\ Flight \in Nat

VARIABLES
    track,      \* the track; a gate is <<[at, face, half], whether it is turned round>>
    rover,        \* off the track: <<>>; else [from, at, going, turns]
    tally       \* tally[i]: what gate i counted since the car last turned, [through, past]

groundVars == <<track, rover, tally>>

W == Width * Tile
H == Height * Tile

Plus(a, b) == <<a[1] + b[1], a[2] + b[2]>>
Minus(a, b) == <<a[1] - b[1], a[2] - b[2]>>
Scaled(k, a) == <<k * a[1], k * a[2]>>
Dot(a, b) == a[1] * b[1] + a[2] * b[2]
Cross(a, b) == a[1] * b[2] - a[2] * b[1]
Sq(n) == n * n
Clamp(n, low, high) == IF n < low THEN low ELSE IF n > high THEN high ELSE n

Site(t, i) == GateAt(t, i)[1]
Facing(t, i) == IF GateAt(t, i)[2] THEN Scaled(-1, Site(t, i).face) ELSE Site(t, i).face
Middle(t, i) == Site(t, i).at

-----------------------------------------------------------------------------
(* What is wrong with a route *)

IsLoop(t) == IsCircuit(t) /\ Gates(t) >= 3
OnField(p) == p[1] \in 0 .. W - 1 /\ p[2] \in 0 .. H - 1

Before(t, i) == IF IsLoop(t) THEN (i + Gates(t) - 1) % Gates(t) ELSE IF i = 0 THEN 0 ELSE i - 1
After(t, i) == IF IsLoop(t) THEN (i + 1) % Gates(t) ELSE IF i + 1 < Gates(t) THEN i + 1 ELSE i

\* At most sixty degrees apart.
AlongIt(face, chord) == Dot(face, chord) > 0
                        /\ 4 * Sq(Dot(face, chord)) >= Dot(face, face) * Dot(chord, chord)

\* gs_faces_route: with the chord across it, the one to it, or the one from it.
FacesRoute(t, i) ==
    LET a == Middle(t, Before(t, i))
        b == Middle(t, i)
        c == Middle(t, After(t, i))
    IN  \E chord \in {Minus(c, a), Minus(b, a), Minus(c, b)} : AlongIt(Facing(t, i), chord)

\* Both ends of the gate are over the field, and the middle of it.
OnTheField(t, i) ==
    LET m == Middle(t, i)
        f == Facing(t, i)
        reach(d, pos, far) == /\ Sq(Site(t, i).half * d) <= Sq(pos) * Dot(f, f)
                              /\ Sq(Site(t, i).half * d) < Sq(far - pos) * Dot(f, f)
    IN  OnField(m) /\ reach(f[2], m[1], W) /\ reach(f[1], m[2], H)

FaultOf(t, i) ==
    IF Site(t, i).half < LeastHalf THEN "too narrow"
    ELSE IF ~OnTheField(t, i) THEN "off track"
    ELSE IF \E j \in i + 1 .. Gates(t) - 1 :
              LET d == Minus(Middle(t, j), Middle(t, i)) IN Dot(d, d) < Sq(LeastApart)
         THEN "coincide"
    ELSE "none"

\* gs_track_validate: the first gate with a fault, and only then which way they face.
Problem(t) ==
    LET bad == {i \in 0 .. Gates(t) - 1 : FaultOf(t, i) # "none"}
    IN  IF Gates(t) = 0 THEN "no start"
        ELSE IF Gates(t) = 1 THEN "too few gates"
        ELSE IF bad # {} THEN FaultOf(t, CHOOSE i \in bad : \A j \in bad : i <= j)
        ELSE IF \E i \in 0 .. Gates(t) - 1 : ~FacesRoute(t, i) THEN "facing"
        ELSE "ok"

-----------------------------------------------------------------------------
(* The line it takes *)

\* gs_track_route_length, as what it adds up: between its gates, and back if it closes.
Legs(t) ==
    IF Gates(t) < 2 THEN {}
    ELSE {<<i, i + 1>> : i \in 0 .. Gates(t) - 2}
         \cup IF IsCircuit(t) THEN {<<Gates(t) - 1, 0>>} ELSE {}

RouteLegs(t) == IF Gates(t) < 2 THEN 0 ELSE IF IsLoop(t) THEN Gates(t) ELSE Gates(t) - 1

\* The four gates the curve is fitted through: a path repeats the ones at its ends.
Four(t, leg) ==
    LET to == (leg + 1) % Gates(t) IN <<Before(t, leg), leg, to, After(t, to)>>

\* gs_track_route_point, s quarters of the way along a leg and times 128.
RoutePoint(t, leg, s) ==
    LET g == Four(t, leg)
        at(axis) == LET p(k) == Middle(t, g[k])[axis] IN
                    2 * 64 * p(2) + 16 * s * (p(3) - p(1))
                    + 4 * s * s * (2 * p(1) - 5 * p(2) + 4 * p(3) - p(4))
                    + s * s * s * (3 * p(2) - p(1) - 3 * p(3) + p(4))
    IN  <<at(1), at(2)>>

\* gs_track_face_along_route
FacedAlong(t) ==
    IF Gates(t) < 2 THEN t
    ELSE [t EXCEPT !.gate = [j \in DOMAIN @ |->
            <<[@[j][1] EXCEPT !.face = Minus(Middle(t, After(t, j - 1)), Middle(t, Before(t, j - 1)))],
              FALSE>>]]

-----------------------------------------------------------------------------
(* Crossing, and the grid *)

Ahead(t, i, p) == Dot(Minus(p, Middle(t, i)), Facing(t, i))

\* Slip: on the line is behind it as well.
GetsToTwice(t, i, p, q) == Ahead(t, i, p) <= 0 /\ Ahead(t, i, q) >= 0

\* A step begins behind the gate and ends on it or in front.
GetsTo(t, i, p, q) == Ahead(t, i, p) < 0 /\ Ahead(t, i, q) >= 0

\* Whether it meets the gate's line no further from the middle than the gate reaches.
Within(t, i, p, q) ==
    LET before == Ahead(t, i, p)
        span == Ahead(t, i, q) - before
        m == Minus(p, Middle(t, i))
        met == Plus(Scaled(span, m), Scaled(-before, Minus(q, p)))
        f == Facing(t, i)
    IN  Sq(Cross(f, met)) <= Sq(Site(t, i).half * span) * Dot(f, f)

Crossed(t, i, p, q) == GetsTo(t, i, p, q) /\ Within(t, i, p, q)
Missed(t, i, p, q) == GetsTo(t, i, p, q) /\ ~Within(t, i, p, q)

SquareOn(t, i) == Facing(t, i)[1] = 0 \/ Facing(t, i)[2] = 0
Unit(v) == LET sign(n) == IF n > 0 THEN 1 ELSE IF n < 0 THEN -1 ELSE 0
           IN  <<sign(v[1]), sign(v[2])>>

\* gs_track_grid_of, where the start is square to the field.
GridOf(t, slot, racing) ==
    LET f == Unit(Facing(t, 0))
        across == (Site(t, 0).half * (2 * slot + 1 - racing)) \div GridSlots
        p == Plus(Minus(Middle(t, 0), Scaled(Back + Stagger * slot, f)),
                  Scaled(across, <<-f[2], f[1]>>))
    IN  <<Clamp(p[1], Tile \div 2, W - Tile \div 2), Clamp(p[2], Tile \div 2, H - Tile \div 2)>>

-----------------------------------------------------------------------------
(* How high it is *)

\* How far off the field, along the axis it is furthest off.
OutOn(n, far) == IF n < 0 THEN -n ELSE IF n > far THEN n - far ELSE 0
Outside(p) == LET x == OutOn(p[1], W)
                  y == OutOn(p[2], H)
              IN  IF x > y THEN x ELSE y

TileOf(p) == <<Clamp(p[1] \div Tile, 0, Width - 1), Clamp(p[2] \div Tile, 0, Height - 1)>>
Dropped(p) == Outside(p) - RunOff * Tile
FallOff(p) == IF Dropped(p) * Fall > Floor * Tile THEN Floor * Tile ELSE Dropped(p) * Fall

\* gs_track_height, times Tile squared: the tile's four corners, level off the edge for
\* the run-off, and then the drop.
HeightAt(p) ==
    LET c == TileOf(p)
        fx == Clamp(p[1] - c[1] * Tile, 0, Tile)
        fy == Clamp(p[2] - c[2] * Tile, 0, Tile)
        edge(y) == Corner[c[1]][y] * (Tile - fx) + Corner[c[1] + 1][y] * fx
    IN  edge(c[2]) * (Tile - fy) + edge(c[2] + 1) * fy
        - IF Dropped(p) > 0 THEN FallOff(p) * Tile ELSE 0

\* The plane of best fit through a tile's corners, twice its slope along an axis.
TileSlope(p, axis) ==
    LET c == TileOf(p)
        h(dx, dy) == Corner[c[1] + dx][c[2] + dy]
    IN  IF axis = 1 THEN h(1, 0) - h(0, 0) + h(1, 1) - h(0, 1)
        ELSE h(0, 1) - h(0, 0) + h(1, 1) - h(1, 0)

Far(axis) == IF axis = 1 THEN W ELSE H

\* gs_track_slope, twice: down the drop and level at its floor; level outward on the
\* shoulder; and the tile's own on the field.
SlopeAt(p, axis) ==
    IF Dropped(p) > 0
    THEN IF Dropped(p) * Fall >= Floor * Tile THEN 0
         ELSE IF p[axis] < 0 THEN 2 * Fall ELSE IF p[axis] > Far(axis) THEN -2 * Fall ELSE 0
    ELSE IF OutOn(p[axis], Far(axis)) > 0 THEN 0 ELSE TileSlope(p, axis)

-----------------------------------------------------------------------------
(* Where a jump will come down: gs_world_arc *)

\* Every other point.
Thinned(points) == [k \in 1 .. (Len(points) + 1) \div 2 |-> points[2 * k - 1]]

\* The ticks whose points are kept when so many have been flown, and how far apart.
Sampled[n \in 0 .. Flight] ==
    IF n = 0 THEN [at |-> <<>>, every |-> 1]
    ELSE LET s == Sampled[n - 1]
             i == n - 1
         IN  IF i % s.every # 0 THEN s
             ELSE IF Len(s.at) < ArcMax THEN [s EXCEPT !.at = Append(@, i)]
             ELSE [at |-> Append(Thinned(s.at), i), every |-> 2 * s.every]

\* The touchdown is written last, over the last point if there is no room.
Arc(landing) ==
    LET s == Sampled[landing].at
    IN  Append(SubSeq(s, 1, IF Len(s) >= ArcMax THEN ArcMax - 1 ELSE Len(s)), landing)

-----------------------------------------------------------------------------
(* A track is laid, and driven *)

NoTally == [through |-> 0, past |-> 0]

GroundInit == track = NewTrack("field") /\ rover = <<>> /\ tally = <<>>

Laying == rover = <<>> /\ UNCHANGED <<rover, tally>>

\* gs_track_add_gate
AddGate ==
    /\ Laying /\ Gates(track) < MaxGates /\ Gates(track) < MostGates
    /\ \E s \in Sites : track' = [track EXCEPT !.gate = Append(@, <<s, FALSE>>)]

\* gs_track_remove_gate
RemoveGate ==
    /\ Laying
    /\ \E i \in DOMAIN track.gate :
        track' = [track EXCEPT !.gate = SubSeq(@, 1, i - 1) \o SubSeq(@, i + 1, Len(@))]

CloseIt == Laying /\ track.route = "sprint" /\ track' = [track EXCEPT !.route = "circuit"]
FaceThem == Laying /\ track' = FacedAlong(track)
TurnItRound == Laying /\ track' = TurnRound(track)

StandOnGrid ==
    /\ rover = <<>> /\ Gates(track) <= DrivenGates /\ Problem(track) = "ok" /\ SquareOn(track, 0)
    /\ \E racing \in 1 .. GridSlots : \E slot \in 0 .. racing - 1 :
        LET p == GridOf(track, slot, racing)
        IN  rover' = [from |-> p, at |-> p, going |-> Unit(Facing(track, 0)), turns |-> 0]
    /\ tally' = [j \in DOMAIN track.gate |-> NoTally]
    /\ UNCHANGED track

Steer ==
    /\ rover # <<>> /\ rover.turns < CarTurns
    /\ \E d \in Steps : rover' = [from |-> rover.at, at |-> rover.at, going |-> d, turns |-> rover.turns + 1]
    /\ tally' = [j \in DOMAIN tally |-> NoTally]
    /\ UNCHANGED track

\* A tick: so far on, or not at all.
Roll ==
    /\ rover # <<>>
    /\ \E k \in 1 .. 2 :
        LET p == Plus(rover.at, Scaled(k, rover.going))
        IN  /\ OutOn(p[1], W) <= Wander /\ OutOn(p[2], H) <= Wander
            /\ rover' = [rover EXCEPT !.at = p]
            /\ tally' = [j \in DOMAIN tally |->
                  [through |-> tally[j].through + IF Crossed(track, j - 1, rover.at, p) THEN 1 ELSE 0,
                   past |-> tally[j].past + IF Missed(track, j - 1, rover.at, p) THEN 1 ELSE 0]]
    /\ UNCHANGED track

GroundNext ==
    AddGate \/ RemoveGate \/ CloseIt \/ FaceThem \/ TurnItRound \/ StandOnGrid \/ Steer \/ Roll

GroundSpec == GroundInit /\ [][GroundNext]_groundVars

-----------------------------------------------------------------------------
(* Properties *)

\* gs_gate_crossed and gs_gate_missed, gs_track.h:359: however a straight run is cut into
\* ticks, and wherever they end, each gate counts what the run as a whole did: once
\* through it, once past it, or neither.
EachPassOnce ==
    \A j \in DOMAIN tally :
        /\ tally[j].through = IF Crossed(track, j - 1, rover.from, rover.at) THEN 1 ELSE 0
        /\ tally[j].past = IF Missed(track, j - 1, rover.from, rover.at) THEN 1 ELSE 0

\* gs_track.h:255: turned round it is the same road with the same faults, and the line
\* that is painted goes the same way.  Not so for a circuit of two gates, which is read
\* as a path (gs_track.c:121) but is turned round as a loop.
SameRoadBack ==
  (IsCircuit(track) => Gates(track) # 2) =>
    LET back == TurnRound(track)
        span(t, e) == LET d == Minus(Middle(t, e[2]), Middle(t, e[1])) IN Dot(d, d)
        mirror(leg) == IF IsLoop(track) THEN Gates(track) - 1 - leg ELSE Gates(track) - 2 - leg
    IN  /\ Problem(back) = Problem(track) \/ {Problem(back), Problem(track)} \subseteq
              {"too narrow", "off track", "coincide"}
        /\ \A n \in {span(track, e) : e \in Legs(track)} :
              Cardinality({e \in Legs(track) : span(track, e) = n})
                = Cardinality({e \in Legs(back) : span(back, e) = n})
        /\ \A leg \in 0 .. RouteLegs(track) - 1, s \in 0 .. 4 :
              RoutePoint(back, mirror(leg), 4 - s) = RoutePoint(track, leg, s)

\* gs_sim.c:1359, "a reason to draw the same flight more coarsely, not a reason to stop
\* drawing it": the arc begins where the car is, ends where it lands, and is even.
ArcIsWhole ==
    rover # <<>> => \A landing \in 1 .. Flight :
        LET a == Arc(landing)
            every == Sampled[landing].every
        IN  /\ Len(a) <= ArcMax /\ a[1] = 0 /\ a[Len(a)] = landing
            /\ \A k \in 1 .. Len(a) - 1 : a[k] = (k - 1) * every /\ a[k] < landing

\* gs_track.h:380: when the gates have been faced along the route none is turned across it.
FacedIsSound == Problem(FacedAlong(track)) # "facing"

\* gs_track.h:475: a car on the grid is on the field and behind a line it crosses by going
\* straight on, if the line is not right at the field's edge.
GridIsBehindTheLine ==
    Gates(track) > 0 /\ Problem(track) = "ok" /\ SquareOn(track, 0) =>
        \A racing \in 1 .. GridSlots : \A slot \in 0 .. racing - 1 :
            LET p == GridOf(track, slot, racing)
                f == Unit(Facing(track, 0))
                m == Middle(track, 0)
            IN  /\ OnField(p)
                /\ m[1] \in Tile .. W - Tile /\ m[2] \in Tile .. H - Tile =>
                      Crossed(track, 0, p, Plus(p, Scaled(W + H, f)))

\* gs_track.h:335, "no car is level with either of its neighbours": not so where the field
\* ends less than a grid's length behind the line.
NobodyIsLevel ==
    Gates(track) > 0 /\ Problem(track) = "ok" /\ SquareOn(track, 0) =>
        \A slot \in 0 .. GridSlots - 2 :
            Ahead(track, 0, GridOf(track, slot, GridSlots))
                # Ahead(track, 0, GridOf(track, slot + 1, GridSlots))

\* gs_track.c:487, "level is what the height function promises, so level is what the slope
\* reports": off one side of the field, the ground changes outward by what the slope says.
SlopeIsTheGround ==
    rover # <<>> =>
        \A axis \in {1, 2} :
            LET p == rover.at
                out == <<IF axis = 1 THEN IF p[1] < 0 THEN -1 ELSE 1 ELSE 0,
                         IF axis = 2 THEN IF p[2] < 0 THEN -1 ELSE 1 ELSE 0>>
                q == Plus(p, out)
                alone == OutOn(p[axis], Far(axis)) > 0 /\ OutOn(p[3 - axis], Far(3 - axis)) = 0
            IN  alone /\ (Dropped(p) <= 0 <=> Dropped(q) <= 0)
                /\ (Dropped(q) * Fall <= Floor * Tile \/ Dropped(p) * Fall >= Floor * Tile) =>
                    2 * (HeightAt(q) - HeightAt(p)) = SlopeAt(p, axis) * out[axis] * Tile

\* The ground and the gates on it say the same to whoever asks, from whichever side.
GroundIsSound ==
    /\ EachPassOnce /\ SameRoadBack /\ ArcIsWhole
    /\ FacedIsSound /\ GridIsBehindTheLine /\ SlopeIsTheGround
=============================================================================
