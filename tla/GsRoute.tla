------------------------------ MODULE GsRoute -------------------------------
(***************************************************************************)
(* A track from a number (core/gs_generate.c): dials are drawn, those that *)
(* contradict each other give way, a route is grown over a grid of cells,  *)
(* ramps, gaps and crests are put along it, and gates; and perhaps a       *)
(* shortcut is cut across.                                                 *)
(*                                                                         *)
(* Whatever is drawn from the seed may come out any way it can.  Distances *)
(* along the route are tiles, and the ones in the source.  Where the route *)
(* runs in the field, how high the ground is, gravity and dress are left   *)
(* out, so which chord makes the best shortcut is left open.               *)
(***************************************************************************)
EXTENDS GsTrack, SequencesExt, FiniteSetsExt

CONSTANTS GridX, GridY,     \* cells each way
          Draws,            \* bound: the dials that may be drawn
          Cells,            \* how many cells a route of each kind asks for
          Attempts,         \* how often the walk is tried: 24
          SoftenAt,         \* the tries from which on a run may be one longer: 12 and 18
          LessAt,           \* the tries after which one asks for less
          LeastCells,       \* which is never less than this: 10
          RouteTiles,       \* how long the route may come out
          RampEvery, CrestEvery     \* how far apart they are, before they are jittered


-----------------------------------------------------------------------------
(* The dials *)

Dials == [kind : {"circuit", "path"}, curve : {"flowing", "winding", "technical"},
          straight : {"broken", "balanced", "power"}, jumps : {"none", "small", "big"},
          relief : {"flat", "rolling", "ridged", "basin"},
          range : {"subtle", "moderate", "severe"}, width : {"narrow", "standard", "wide"},
          drama : {"level", "banked", "bowls", "pipes", "gaps", "crests"},
          routes : {"one", "shortcut"}, base : {"pavement", "ice", "slush"}]

GroundGives(s) ==
    [s EXCEPT !.relief = IF @ = "flat" /\ s.range # "subtle"
                         THEN IF s.range = "severe" THEN "ridged" ELSE "rolling"
                         ELSE IF @ = "flat" /\ s.jumps = "none" THEN "rolling" ELSE @]

RoadGives(s) ==
    [s EXCEPT !.width = IF @ = "narrow" /\ s.curve = "technical" /\ s.base \in {"ice", "slush"}
                        THEN "standard" ELSE @]

GapsWant(s) ==
    IF s.drama # "gaps" THEN s
    ELSE [s EXCEPT !.jumps = "big", !.width = IF @ = "narrow" THEN "standard" ELSE @]

ShortcutWants(s) ==
    [s EXCEPT !.range = IF @ = "severe" /\ s.routes = "shortcut" THEN "moderate" ELSE @]

\* gs_generate_spec_for, in its order.
Vetoed(s) == ShortcutWants(GapsWant(RoadGives(GroundGives(s))))

\* There is room for a straight, and more than the longest feature between two of them:
\* 90 tiles or more between ramps (130 if they are big), 110 or more between crests.
ASSUME RouteAssumption ==
    /\ GridX \in Nat /\ GridX >= 2 /\ GridY \in Nat /\ GridY >= 2
    /\ Draws \subseteq Dials
    /\ \A kind \in {"circuit", "path"} : Cells[kind] \subseteq Nat \ {0}
    /\ Attempts \in Nat /\ IsFiniteSet(SoftenAt)
    /\ LeastCells \in Nat /\ LeastCells >= 2
    /\ RouteTiles \subseteq Nat \ {0}
    /\ \A size \in {"none", "small", "big"} : \A d \in RampEvery[size] : d \in Nat /\ d >= 90
    /\ \A d \in CrestEvery : d \in Nat /\ d >= 110
    /\ MaxGates \in Nat

-----------------------------------------------------------------------------
VARIABLES
    spec,       \* the dials
    stage,      \* "drawn", "vetted", "growing", "grown", "ramps", "lifts", "gated", "done"
    tries,      \* how many walks have been given up
    asked,      \* how many cells are asked for
    walk,       \* gs_walk: the cells, <<x, y>>, in order
    visited,    \* the cells that are taken
    untried,    \* gs_frame: for each cell past the seed, where else to go from it
    seed,       \* the first cells of a path: [dir, len]
    heading, run,   \* lastdir, and how far the walk has kept it
    route,      \* gs_route_plan.total
    every,      \* how far apart what is laid next is
    next,       \* which of them is next: a number, or a tile
    ramp,       \* gs_jump_site and gs_jump_radius
    lift,       \* gs_lift: the samples each feature lifts or digs out, <<from, to>>
    built       \* the track

walkVars == <<tries, asked, walk, visited, untried, seed, heading, run>>
laidVars == <<route, every, next, ramp, lift, built>>
routeVars == <<spec, stage, walkVars, laidVars>>

Loop == spec.kind = "circuit"
NoWalk == walk' = <<>> /\ visited' = {} /\ untried' = <<>> /\ seed' = [dir |-> 0, len |-> 0]
          /\ heading' = 0 /\ run' = 0

RouteInit ==
    /\ spec \in Draws /\ stage = "drawn" /\ tries = 0 /\ asked = 0
    /\ walk = <<>> /\ visited = {} /\ untried = <<>> /\ seed = [dir |-> 0, len |-> 0]
    /\ heading = 0 /\ run = 0
    /\ route = 0 /\ every = 0 /\ next = 0 /\ ramp = <<>> /\ lift = <<>> /\ built = NewTrack(0)

DrawSpec ==
    /\ stage = "drawn" /\ stage' = "vetted"
    /\ spec' = Vetoed(spec)
    /\ \E n \in Cells[spec'.kind] : asked' = n
    /\ UNCHANGED <<tries, walk, visited, untried, seed, heading, run, laidVars>>

-----------------------------------------------------------------------------
(* Growing the route *)

East == <<1, 0, -1, 0>>
South == <<0, 1, 0, -1>>
Toward(c, dir) == <<c[1] + East[dir + 1], c[2] + South[dir + 1]>>
OnGrid(c) == c[1] \in 0 .. GridX - 1 /\ c[2] \in 0 .. GridY - 1
Grid == (0 .. GridX - 1) \X (0 .. GridY - 1)
Heading(a, b) == CHOOSE dir \in 0 .. 3 : Toward(a, dir) = b
At(w, i) == w[(i % Len(w)) + 1]

MaxRun == (CASE spec.straight = "broken" -> 2 [] spec.straight = "balanced" -> 4 [] OTHER -> 7)
          + Cardinality({k \in SoftenAt : tries >= k})
SeedRun == Min({IF spec.straight = "power" THEN 7 ELSE 3, GridX - 1, MaxRun, asked})

\* The first cells of a path are in a line; a circuit begins as a ring of four.
BeginPath ==
    \E d \in 0 .. 3, c \in Grid :
        LET fits == SeedRun <= IF East[d + 1] # 0 THEN GridX ELSE GridY
            dir == IF fits THEN d ELSE (d + 1) % 4
            line == [i \in 1 .. SeedRun |-> <<c[1] + East[dir + 1] * (i - 1),
                                              c[2] + South[dir + 1] * (i - 1)>>]
        IN  /\ \A i \in DOMAIN line : OnGrid(line[i])
            /\ walk' = line /\ visited' = ToSet(line)
            /\ seed' = [dir |-> dir, len |-> SeedRun] /\ heading' = dir /\ run' = SeedRun

BeginCycle ==
    \E c \in (0 .. GridX - 2) \X (0 .. GridY - 2) :
        /\ walk' = <<c, Toward(c, 0), Toward(Toward(c, 0), 1), Toward(c, 1)>>
        /\ visited' = ToSet(walk')
        /\ UNCHANGED <<seed, heading, run>>

BeginWalk ==
    /\ stage = "vetted" /\ tries < Attempts /\ stage' = "growing"
    /\ IF Loop THEN BeginCycle ELSE BeginPath
    /\ untried' = <<>>
    /\ UNCHANGED <<spec, tries, asked, laidVars>>

\* Fewer cells, when fresh dice have not made them fit.
GiveUp ==
    /\ stage' = "vetted" /\ tries' = tries + 1
    /\ asked' = IF tries \in LessAt /\ asked > LeastCells THEN asked - 2 ELSE asked
    /\ NoWalk /\ UNCHANGED <<spec, laidVars>>

\* What may be tried from the cell the walk has come to: not back, not off the grid, not
\* over itself, and not on for longer than a run may be.
LookAround ==
    /\ ~Loop /\ stage = "growing" /\ Len(walk) < asked /\ Len(untried) <= Len(walk) - seed.len
    /\ untried' = Append(untried,
            {dir \in 0 .. 3 : /\ dir # (heading + 2) % 4 /\ OnGrid(Toward(Last(walk), dir))
                              /\ Toward(Last(walk), dir) \notin visited
                              /\ ~(dir = heading /\ run >= MaxRun)})
    /\ UNCHANGED <<spec, stage, tries, asked, walk, visited, seed, heading, run, laidVars>>

Looked == ~Loop /\ stage = "growing" /\ Len(walk) < asked /\ Len(untried) > Len(walk) - seed.len

\* How far a walk has kept the heading of its last step.
RunOf(w) ==
    LET n == Len(w)
        dir == Heading(w[n - 1], w[n])
    IN  Max({k \in 1 .. n - 1 : \A j \in n - k .. n - 1 : Heading(w[j], w[j + 1]) = dir})

\* The heading and run of the cell that is backed out to, read off the walk.
Restored(w) == IF Len(w) > seed.len
               THEN [dir |-> Heading(w[Len(w) - 1], w[Len(w)]), run |-> RunOf(w)]
               ELSE [dir |-> seed.dir, run |-> seed.len]

StepOn ==
    /\ Looked
    /\ \E dir \in Last(untried) :
        LET c == Toward(Last(walk), dir)
            free == c \notin visited /\ ~(dir = heading /\ run >= MaxRun)
        IN  /\ untried' = [untried EXCEPT ![Len(untried)] = @ \ {dir}]
            /\ walk' = IF free THEN Append(walk, c) ELSE walk
            /\ visited' = IF free THEN visited \cup {c} ELSE visited
            /\ run' = IF ~free THEN run ELSE IF dir = heading THEN run + 1 ELSE 1
            /\ heading' = IF free THEN dir ELSE heading
    /\ UNCHANGED <<spec, stage, tries, asked, seed, laidVars>>

BackOut ==
    /\ Looked /\ Last(untried) = {}
    /\ IF Len(untried) = 1 THEN GiveUp
       ELSE /\ untried' = Front(untried)
            /\ walk' = Front(walk) /\ visited' = visited \ {Last(walk)}
            /\ heading' = Restored(walk').dir /\ run' = Restored(walk').run
            /\ UNCHANGED <<spec, stage, tries, asked, seed, laidVars>>

\* gs_walk_path's budget is spent.
Budget == Looked /\ GiveUp

\* The ways an edge of the cycle may be pushed sideways into two free cells: the edge from
\* cell i, which side, and whether it is part of a straight.
Bumps ==
    {[edge |-> i, side |-> (Heading(At(walk, i), At(walk, i + 1)) + turn) % 4,
      onrun |-> LET h(j) == Heading(At(walk, j), At(walk, j + 1)) IN
                h(i + Len(walk) - 1) = h(i) \/ h(i + 1) = h(i)] :
        i \in 0 .. Len(walk) - 1, turn \in {1, 3}}

FreeBumps == {b \in Bumps : \A i \in {b.edge, b.edge + 1} :
                 OnGrid(Toward(At(walk, i), b.side)) /\ Toward(At(walk, i), b.side) \notin visited}

\* Which of them the straightness dial would have, as long as there is one.
Wanted(bumps) ==
    LET liked == CASE spec.straight = "power"  -> {b \in bumps : ~b.onrun}
                   [] spec.straight = "broken" -> {b \in bumps : b.onrun}
                   [] OTHER -> bumps
    IN  IF liked = {} THEN bumps ELSE liked

\* Slip: the two new cells are put in the wrong way round.
PushedCrossed(w, b) ==
    LET out(i) == Toward(At(w, i), b.side)
    IN  SubSeq(w, 1, b.edge + 1) \o <<out(b.edge + 1), out(b.edge)>>
        \o SubSeq(w, b.edge + 2, Len(w))

Pushed(w, b) ==
    LET out(i) == Toward(At(w, i), b.side)
    IN  SubSeq(w, 1, b.edge + 1) \o <<out(b.edge), out(b.edge + 1)>>
        \o SubSeq(w, b.edge + 2, Len(w))

Bump ==
    /\ Loop /\ stage = "growing" /\ Len(walk) + 2 <= asked
    /\ \E b \in Wanted(FreeBumps) :
        /\ walk' = Pushed(walk, b)
        /\ visited' = visited \cup {Toward(At(walk, b.edge), b.side),
                                    Toward(At(walk, b.edge + 1), b.side)}
    /\ UNCHANGED <<spec, stage, tries, asked, untried, seed, heading, run, laidVars>>

\* gs_walk_rotate_to_straight: the first of its longest straights, from the middle of it.
Straight(w, i) ==
    Max({n \in 1 .. Len(w) : \A j \in 0 .. n - 1 :
            Heading(At(w, i + j), At(w, i + j + 1)) = Heading(At(w, i), At(w, i + 1))})
Rotated(w) ==
    LET longest == Max({Straight(w, i) : i \in 0 .. Len(w) - 1})
        best == Min({i \in 0 .. Len(w) - 1 : Straight(w, i) = longest})
    IN  [i \in DOMAIN w |-> At(w, best + longest \div 2 + i - 1)]

Grow ==
    /\ stage = "growing"
    /\ IF Loop THEN Len(walk) + 2 > asked \/ FreeBumps = {} ELSE Len(walk) >= asked
    /\ IF Loop /\ Len(walk) < 8 THEN GiveUp
       ELSE /\ stage' = "grown" /\ walk' = IF Loop THEN Rotated(walk) ELSE walk
            /\ UNCHANGED <<spec, tries, asked, visited, untried, seed, heading, run, laidVars>>

\* The last resort: round the edge of the grid, or along two sides of it.
EdgeOfGrid ==
    LET top == [i \in 1 .. GridX |-> <<i - 1, 0>>]
        right == [i \in 1 .. GridY - 1 |-> <<GridX - 1, i>>]
        bottom == [i \in 1 .. GridX - 1 |-> <<GridX - 1 - i, GridY - 1>>]
        left == [i \in 1 .. GridY - 2 |-> <<0, GridY - 1 - i>>]
    IN  IF Loop THEN Rotated(top \o right \o bottom \o left) ELSE top \o right

LastResort ==
    /\ stage = "vetted" /\ tries = Attempts /\ stage' = "grown"
    /\ walk' = EdgeOfGrid /\ visited' = ToSet(walk')
    /\ UNCHANGED <<spec, tries, asked, untried, seed, heading, run, laidVars>>

-----------------------------------------------------------------------------
(* What is along it *)

RunUp == 45
RunOut == IF Loop THEN 0 ELSE 25

\* The walk is made into a line so long; it is not looked at again.
Plan ==
    /\ stage = "grown" /\ stage' = "ramps" /\ NoWalk
    /\ \E tiles \in RouteTiles, d \in RampEvery[spec.jumps] : route' = tiles /\ every' = d
    /\ next' = 0 /\ UNCHANGED <<spec, tries, asked, ramp, lift, built>>

Radii == IF spec.jumps = "big" THEN {9, 11} ELSE {5, 7}
RampsLeft == spec.jumps # "none" /\ next < (route - RunUp - RunOut) \div every

\* gs_lay_jumps, one of them: jittered by a tenth, and left out where it does not fit.
LayRamp ==
    /\ stage = "ramps" /\ RampsLeft
    /\ \E jitter \in {-(every \div 10), every \div 5 - every \div 10}, radius \in Radii :
        LET site == RunUp + next * every + every \div 2 + jitter
        IN  ramp' = IF site < RunUp \/ site > route - RunOut THEN ramp
                    ELSE Append(ramp, [site |-> site, radius |-> radius])
    /\ next' = next + 1
    /\ UNCHANGED <<spec, stage, walkVars, route, every, lift, built>>

\* gs_samples_per_tile: a route is so many samples long, whatever it is in tiles.
Samples == 2048
SamplesPerTile == Max({1, Samples \div route})

\* gs_lift_run, over the tiles of one feature: which samples it lifts or digs out.
Lifted(from, to) == <<from * SamplesPerTile, Min({to * SamplesPerTile, Samples})>>

\* gs_lay_lift: gaps after the ramps, or crests so far apart.
BeginLift ==
    /\ stage = "ramps" /\ ~RampsLeft /\ stage' = "lifts"
    /\ \E d \in CrestEvery :
        every' = d /\ next' = IF spec.drama = "crests" THEN RunUp + d \div 2 ELSE 0
    /\ UNCHANGED <<spec, walkVars, route, ramp, lift, built>>

LiftsLeft == CASE spec.drama = "gaps"   -> next < Len(ramp)
               [] spec.drama = "crests" -> next + 14 < route - RunOut
               [] OTHER                 -> FALSE

GapWall == 10
Lip(r) == r.site + r.radius + 1

\* A trench after a ramp: a wall down, so many tiles of nothing, a wall up.
LayGap ==
    /\ stage = "lifts" /\ spec.drama = "gaps" /\ LiftsLeft
    /\ \E span \in {6, 9} :
        LET lip == Lip(ramp[next + 1])
            end == lip + GapWall + span + GapWall
        IN  lift' = IF end > route - RunOut THEN lift ELSE Append(lift, Lifted(lip, end))
    /\ next' = next + 1 /\ UNCHANGED <<spec, stage, walkVars, route, every, ramp, built>>

OnARamp(tile) == \E j \in DOMAIN ramp : tile - ramp[j].site \in -23 .. 23
MayCrest(tile) == tile - 10 >= RunUp /\ tile + 16 < route - RunOut /\ ~OnARamp(tile)

\* Where it was going to be, thirty tiles on, thirty back, or not at all.
CrestShifts == <<0, 30, -30>>

LayCrest ==
    /\ stage = "lifts" /\ spec.drama = "crests" /\ LiftsLeft
    /\ \E jitter \in {-5, 5} :
        LET fits == {k \in DOMAIN CrestShifts : MayCrest(next + jitter + CrestShifts[k])}
            tile == next + jitter + CrestShifts[Min(fits)]
        IN  lift' = IF fits = {} THEN lift ELSE Append(lift, Lifted(tile - 10, tile + 16))
    /\ next' = next + every /\ UNCHANGED <<spec, stage, walkVars, route, every, ramp, built>>

\* A multiple of four on a circuit, one more on a path.
GateCount(want) == want - ((IF Loop THEN want ELSE want - 1) % 4)

LayGates ==
    /\ stage = "lifts" /\ ~LiftsLeft /\ stage' = "gated"
    /\ \E extra \in 0 .. 2 :
        LET gates == GateCount(Max({8, Min({route \div 12 + extra, MaxGates - 4})}))
        IN  built' = [NewTrack(0) EXCEPT !.gate = [i \in 1 .. gates |-> <<i, FALSE>>],
                                         !.route = IF Loop THEN "circuit" ELSE "sprint",
                                         !.every = 4]
    /\ UNCHANGED <<spec, walkVars, route, every, next, ramp, lift>>

\* From the checkpoint with the best chord to the next one, if one is good enough.
LayShortcut ==
    /\ stage = "gated" /\ stage' = "done"
    /\ \/ UNCHANGED built
       \/ /\ spec.routes = "shortcut" /\ Gates(built) >= 8
          /\ \E a \in 1 .. Gates(built) - 1 :
                /\ IsCheckpoint(built, a) /\ NextCheckpoint(built, a) # a
                /\ built' = SetShortcut(built, a, TRUE)
    /\ UNCHANGED <<spec, walkVars, route, every, next, ramp, lift>>

RouteNext ==
    \/ DrawSpec \/ BeginWalk \/ LookAround \/ StepOn \/ BackOut \/ Budget \/ Bump \/ Grow
    \/ LastResort \/ Plan \/ LayRamp \/ BeginLift \/ LayGap \/ LayCrest \/ LayGates \/ LayShortcut

RouteSpec == RouteInit /\ [][RouteNext]_routeVars

-----------------------------------------------------------------------------
(* Properties *)

\* gs_generate.c:69, "a spec in hand is always a spec that can be built": each veto changes
\* a dial another one looks at, and none of the contradictions is left when all are through.
SpecIsSound ==
    stage # "drawn" =>
        /\ ~(spec.relief = "flat" /\ (spec.range # "subtle" \/ spec.jumps = "none"))
        /\ ~(spec.width = "narrow" /\ spec.curve = "technical" /\ spec.base \in {"ice", "slush"})
        /\ spec.drama = "gaps" => spec.jumps = "big" /\ spec.width # "narrow"
        /\ ~(spec.routes = "shortcut" /\ spec.range = "severe")

Neighbours(a, b) == \E dir \in 0 .. 3 : Toward(a, dir) = b

\* gs_generate.c:255, 1849: whatever has been tried and backed out of, the route goes from
\* cell to next cell and never over itself, closes if it is a circuit's, and if it is a
\* path's is never straight for longer than the dial allows.
RouteIsDrivable ==
    walk # <<>> =>
        /\ visited = ToSet(walk) /\ Cardinality(visited) = Len(walk)
        /\ \A i \in DOMAIN walk : OnGrid(walk[i])
        /\ \A i \in 1 .. Len(walk) - 1 : Neighbours(walk[i], walk[i + 1])
        /\ Loop => Neighbours(Last(walk), walk[1])
        /\ ~Loop /\ stage = "growing" /\ Len(walk) > 1 =>
              /\ RunOf(walk) <= MaxRun
              /\ heading = Heading(walk[Len(walk) - 1], walk[Len(walk)])
        /\ stage = "grown" /\ tries < Attempts => Len(walk) >= IF Loop THEN 8 ELSE asked

\* gs_generate.c:1186, 1210: no crest or gap is dug into another, however they are shifted.
LiftsDontStack ==
    \A i, j \in DOMAIN lift : i < j => lift[i][2] <= lift[j][1]

\* gs_generate.c:1616, "the posts are the same gates both ways round": turned round, what is
\* built has its checkpoints on the same gates, and a shortcut leaves from one of them.
PostsBothWays ==
    stage = "done" =>
        LET back == TurnRound(built)
            posts(t) == {GateAt(t, i)[1] : i \in {k \in 0 .. Gates(t) - 1 : IsCheckpoint(t, k)}}
        IN  /\ posts(back) = posts(built)
            /\ \A t \in {built, back} : \A a \in t.cut : IsCheckpoint(t, a)
            /\ TurnRound(back) = built

\* What is generated can be built, driven and turned round.
TrackIsSound == SpecIsSound /\ RouteIsDrivable /\ LiftsDontStack /\ PostsBothWays

\* gs_generate.c:1187, "after every ramp, a trench": within three tiles of the ramp's foot,
\* where the samples that are dug out are.
GapsFollowRamps ==
    spec.drama = "gaps" =>
        \A i \in DOMAIN lift : \E j \in DOMAIN ramp :
            (lift[i][1] * route) \div Samples - Lip(ramp[j]) \in -3 .. 3
=============================================================================
