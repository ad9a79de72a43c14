------------------------------ MODULE GsDriver ------------------------------
(***************************************************************************)
(* The computer driver (core/gs_ai.c): which buttons it presses, worked    *)
(* out afresh every tick from the world and the track and from nothing     *)
(* else.  The world is a car anywhere, going anywhere; where that takes it *)
(* is the simulation's business, so the next world is any world.           *)
(*                                                                         *)
(* The ground is GsGround's, four units to a tile.  Headings are sixteenths*)
(* of a turn, the step the source looks round a wall in; speeds are tiles a*)
(* second, and square roots and unit vectors are rounded.                  *)
(***************************************************************************)
EXTENDS GsTrack, FiniteSets

CONSTANTS FieldWidth, FieldHeight, Rises,     \* the field and its corners
          RunOffTiles,      \* GS_RUNOFF_TILES
          Courses,          \* the tracks that are driven: routes that are sound
          Spots,            \* where the car may be
          Ways,             \* which way it may face, 0 .. 15
          Velocities,       \* and be going, <<x, y>>
          Lanes,            \* which slot of the four it has
          Skill,            \* 0 .. 20
          Traction, Loose   \* what grip there is, in tiles a second squared, here and on sand

VARIABLES
    road,       \* the track
    me,         \* the car: [at, face, go, next, slot]
    rival,      \* where somebody else is, or <<>>
    beat,       \* w->tick, as much of it as matters: whether it is one in forty
    pressed     \* the buttons

driverVars == <<road, me, rival, beat, pressed>>

G == INSTANCE GsGround WITH
        Tile <- 4, Width <- FieldWidth, Height <- FieldHeight, Corner <- Rises,
        RunOff <- RunOffTiles, Fall <- 3, Floor <- 64, Back <- 12, Stagger <- 6, GridSlots <- 4,
        LeastHalf <- 1, LeastApart <- 4, Sites <- {}, Steps <- {}, MostGates <- 0,
        DrivenGates <- 0, CarTurns <- 0, Wander <- 0, ArcMax <- 96, Flight <- 0,
        track <- road, rover <- <<>>, tally <- <<>>

T(n) == 4 * n       \* n tiles
Between(n, low, high) == G!Clamp(n, low, high)
Near(p, inset) == <<Between(p[1], inset, G!W - inset), Between(p[2], inset, G!H - inset)>>

\* How long a vector is, rounded down.
Length(d) == LET square == G!Dot(d, d)
             IN  CHOOSE n \in 0 .. 400 : n * n <= square /\ (n + 1) * (n + 1) > square

\* A sixteenth of a turn and its multiples, a hundred long.
Compass == <<<<100, 0>>, <<92, 38>>, <<71, 71>>, <<38, 92>>, <<0, 100>>, <<-38, 92>>, <<-71, 71>>,
             <<-92, 38>>, <<-100, 0>>, <<-92, -38>>, <<-71, -71>>, <<-38, -92>>, <<0, -100>>,
             <<38, -92>>, <<71, -71>>, <<92, -38>>>>
Way(k) == Compass[(k % 16) + 1]
Off(p, n, way) == <<p[1] + (n * way[1] + 50) \div 100, p[2] + (n * way[2] + 50) \div 100>>
Bearing(d) == LET along == [k \in 0 .. 15 |-> G!Dot(d, Way(k))]
              IN  CHOOSE k \in 0 .. 15 : \A j \in 0 .. 15 : along[k] >= along[j]
TurnBetween(k, want) == ((want - k + 24) % 16) - 8
Size(n) == IF n < 0 THEN -n ELSE n

\* gs_ai_skill_style: its margin in hundredths, its earliness in thousandths.
Style(skill) == LET s == Between(skill, 0, 20)
                IN  [margin |-> (600 + 18 * s) \div 10, early |-> 1200 - 10 * s]

-----------------------------------------------------------------------------
(* Where it is going *)

Speed == Length(me.go)
TakesCuts == me.slot % 2 = 1 /\ G!Gates(road) > 1

\* The last checkpoint before the next gate.
LastPost ==
    LET n == G!Gates(road)
        backs == {b \in 1 .. n : G!IsCheckpoint(road, (me.next + n - b) % n)}
    IN  (me.next + n - (CHOOSE b \in backs : \A c \in backs : b <= c)) % n

OnShortcut == TakesCuts /\ ~G!IsCheckpoint(road, me.next) /\ G!ShortcutFrom(road, LastPost)
IntoCut == TakesCuts /\ G!IsCheckpoint(road, me.next) /\ G!ShortcutFrom(road, me.next)

\* Slip: a shortcut comes out at the checkpoint after the next gate's.
TargetPast == IF OnShortcut THEN G!NextCheckpoint(road, G!NextCheckpoint(road, LastPost)) ELSE me.next

Target == IF OnShortcut THEN G!NextCheckpoint(road, LastPost) ELSE me.next

\* What follows is worked out for a gate it steers for, t, the point it wishes to be at and
\* the way to where it aims: the locals of gs_ai_drive_style.
TargetAt(t) == G!Middle(road, t)
TargetWay(t) == Way(Bearing(G!Facing(road, t)))
Across(way) == <<-way[2], way[1]>>
Aside(t, n) == Off(TargetAt(t), n, Across(TargetWay(t)))

\* Its lane across the gate, halved while it is up a slope; none on a shortcut or into one.
FullLane(t) == IF OnShortcut \/ IntoCut THEN 0
               ELSE (G!Site(road, t).half * (2 * me.slot - 3)) \div 5
Level(t, n) == 100 * (G!HeightAt(Aside(t, n)) - G!HeightAt(TargetAt(t))) <= 16 * 30
Halved(t, full) ==
    LET low == {k \in 0 .. 2 : Level(t, full \div 2 ^ k)}
    IN  full \div 2 ^ (CHOOSE k \in 0 .. 3 : k \in low \cup {3} /\ \A j \in low : k <= j)
Lane(t) == Halved(t, FullLane(t))

\* Along the shortcut, five tiles further on than it is.
Chord(a, d, len) ==
    LET along == G!Dot(G!Minus(me.at, a), d) \div len + T(5)
    IN  IF len <= T(2) \/ along >= len - T(6) THEN G!Plus(a, d)
        ELSE <<a[1] + (d[1] * along) \div len, a[2] + (d[2] * along) \div len>>
ChordTo(a, d) == Chord(a, d, Length(d))
OnTheChord(t) == ChordTo(G!Middle(road, LastPost), G!Minus(TargetAt(t), G!Middle(road, LastPost)))

\* A car in front of its gate goes back behind it, but not off the field.
RunUpPoint(t) == Near(Off(TargetAt(t), -T(4), TargetWay(t)), 2)

Ground0 == G!HeightAt(me.at)
Climbable(speed) == 50 + 15 * speed         \* in hundredths of a tile
Rise(p) == 100 * (G!HeightAt(p) - Ground0)  \* in those of a sixteenth of it
TooSteep(p) == Rise(p) > 16 * Climbable(Speed)

IsOut == G!Outside(me.at) > 0

\* Where it would go if the ground were flat.
Wish(t) ==
    IF IsOut THEN Near(me.at, 0)
    ELSE IF OnShortcut THEN OnTheChord(t)
    ELSE IF G!Ahead(road, t, me.at) > 0 THEN RunUpPoint(t)
    ELSE Aside(t, Lane(t))

\* Round what it cannot climb, turning as little as will do, or to the lowest side.
Sweep == <<1, -1, 2, -2, 3, -3, 4, -4>>
Swept(b, k) == (b + Sweep[k] + 16) % 16
Step6(k) == Off(me.at, 6, Way(k))
BestOf(b, best) == IF best = {} THEN b ELSE Swept(b, CHOOSE k \in best : \A j \in best : k <= j)
LowSides(b) == {k \in 1 .. 8 : \A j \in 0 .. 8 : IF j = 0 THEN Rise(Step6(Swept(b, k))) < Rise(Step6(b))
                                ELSE Rise(Step6(Swept(b, k))) <= Rise(Step6(Swept(b, j)))}
Passing(b, clear) == BestOf(b, IF clear # {} THEN clear ELSE LowSides(b))
Round(b) == Passing(b, {k \in 1 .. 8 : ~TooSteep(Step6(Swept(b, k)))})

Walled(d) == d # <<0, 0>> /\ TooSteep(Step6(Bearing(d)))

\* From where it is to where it will steer for; off the field, that is well inside it.
Bent(d) == IF Walled(d) THEN Off(<<0, 0>>, Length(d), Way(Round(Bearing(d)))) ELSE d
Aim(wish) == IF IsOut THEN G!Minus(Near(me.at, T(6)), me.at) ELSE Bent(G!Minus(wish, me.at))

-----------------------------------------------------------------------------
(* Against a wall *)

BackingOff == G!Dot(me.go, Way(me.face)) < 0

\* Whether what it faces is too steep, anywhere in the next three tiles; it has to be half
\* as steep when backing off.
FacesAWall(speed, backing) ==
    \E n \in 1 .. 4 :
        Rise(Off(me.at, 3 * n, Way(me.face))) * (IF backing THEN 4 ELSE 2) > 16 * Climbable(speed) * n

\* Asked only when there is somewhere to go, and of a car that is still or going backwards.
Blocked(wish) ==
    /\ wish # me.at
    /\ 100 * Speed < 30 \/ BackingOff
    /\ FacesAWall(Speed, BackingOff)

-----------------------------------------------------------------------------
(* How fast it may go *)

Turn(aim) == TurnBetween(me.face, Bearing(aim))

\* The gate after, for one that takes shortcuts the one its way comes out at.
NextAfter(t) ==
    IF OnShortcut THEN (t + 1) % G!Gates(road)
    ELSE IF IntoCut THEN G!NextCheckpoint(road, me.next)
    ELSE (me.next + 1) % G!Gates(road)

Exit(t) == G!Minus(G!Middle(road, NextAfter(t)), TargetAt(t))
Corner16(aim, exit) == IF exit = <<0, 0>> THEN 0 ELSE Size(TurnBetween(Bearing(aim), Bearing(exit)))

\* Sines of half of so many sixteenths, and cosines, in hundredths.
HalfSin(k) == <<0, 20, 38, 56, 71, 83, 92, 98, 100>>[k + 1]
HalfCos(k) == HalfSin(8 - k)
Least(a, b) == IF a < b THEN a ELSE b
Most(a, b) == IF a > b THEN a ELSE b

\* The square of the speed a turn of this radius, in units, can be taken at, times 10^6.
Bears(radius) == Traction * radius * Style(Skill).margin * Style(Skill).margin * 18

\* As tight as the way round it, never tighter than half a tile, and onto a shortcut no
\* wider than that is.
CornerRadius(leg, corner) ==
    LET r == Most(2, (leg * HalfCos(corner)) \div (2 * HalfSin(corner)))
    IN  IF IntoCut THEN Least(r, T(2)) ELSE r

\* Whether there is only just the road left to slow down to it.
Late(aim, bears) ==
    /\ 1000000 * Speed * Speed > bears
    /\ 4 * (Speed * Speed - bears \div 1000000) * Style(Skill).early
           >= 1000 * 2 * Traction * Length(aim)
LateFor(aim, exit, corner) ==
    corner # 0 /\ Late(aim, Bears(CornerRadius(Least(Length(exit), Length(aim)), corner)))
CornerTo(aim, exit) == LateFor(aim, exit, Corner16(aim, exit))
CornerAhead(t, aim) == CornerTo(aim, Exit(t))

TooFastHere(aim, turn) ==
    /\ turn # 0 /\ Length(aim) > 0
    /\ 1000000 * Speed * Speed > Bears((Length(aim) * 100) \div (2 * HalfSin(Size(turn))))

\* More than a hundred degrees off, and moving.
Reversal(turn) == 9 * Size(turn) > 40 /\ 10 * Speed > 25

Room(axis) == IF me.go[axis] < 0 THEN me.at[axis] ELSE G!Far(axis) - me.at[axis]
EdgeOn(axis) == /\ me.go[axis] # 0
                /\ LET room == Room(axis) + T(RunOffTiles)
                   IN  room > 0 /\ 4 * me.go[axis] * me.go[axis] >= 2 * Loose * room

\* The nearer of the edges it is going towards, and whether it can stop on the run-off.
EdgeAhead ==
    LET axis == IF me.go[2] # 0 /\ (me.go[1] = 0 \/ Room(2) < Room(1)) THEN 2 ELSE 1
    IN  EdgeOn(axis)

LostOnSand(turn) == IsOut /\ Speed > 1 /\ Size(turn) > 2

MustBrake(t, aim, turn) == \/ CornerAhead(t, aim) \/ TooFastHere(aim, turn) \/ Reversal(turn)
                           \/ EdgeAhead \/ LostOnSand(turn)

-----------------------------------------------------------------------------
(* The buttons *)

\* gs_ai_hunted: somebody is within seven tiles, and behind.
Hunted == rival # <<>> /\ Length(G!Minus(rival, me.at)) <= T(7)
          /\ G!Dot(G!Minus(rival, me.at), Way(me.face)) < 0

\* Against a wall it goes backwards, with the wheel the other way.
WheelAndPedal(turn, blocked, slow) ==
    {IF turn = 0 THEN "straight" ELSE IF (turn < 0) # blocked THEN "left" ELSE "right",
     IF blocked \/ slow THEN "brake" ELSE "accel"}
Decide(t, wish, aim) == WheelAndPedal(Turn(aim), Blocked(wish), MustBrake(t, aim, Turn(aim)))

Worlds == [at : Spots, face : Ways, go : Velocities, slot : Lanes, next : 0 .. 3]

DriverInit ==
    /\ road \in Courses /\ me \in {w \in Worlds : w.next < G!Gates(road)}
    /\ rival = <<>> /\ beat = 0 /\ pressed = {}

\* gs_ai_drive_style, of a car that is in the race on a track with gates; whether it has
\* anything selected to drop is the race's (GsArms).
Drive ==
    /\ pressed = {}
    /\ \E armed \in BOOLEAN : \E t \in {Target} : \E wish \in {Wish(t)} : \E aim \in {Aim(wish)} :
           pressed' = Decide(t, wish, aim)
                          \cup (IF armed /\ beat = 0 /\ Hunted THEN {"fire"} ELSE {})
    /\ UNCHANGED <<road, me, rival, beat>>

\* A tick goes by, and somebody else is somewhere.
Goes ==
    /\ pressed # {} /\ pressed' = {}
    /\ beat = 0 /\ beat' \in {0, 1} /\ rival' \in {<<>>, G!Minus(me.at, <<8, 0>>)}
    /\ UNCHANGED <<road, me>>

DriverNext == Drive \/ Goes

-----------------------------------------------------------------------------
(* Properties *)

\* gs_ai.c:107, gs_sim.c:1096: the gate it steers for is one whose crossing counts, if it
\* is crossed next: none is passed over that a lap needs, shortcut or not.
AimsAtWhatCounts ==
    LET n == G!Gates(road)
        ahead == (Target + n - me.next) % n
    IN  \A s \in 0 .. ahead - 1 : ~G!IsCheckpoint(road, (me.next + s) % n)

\* gs_ai.c:235, "always somewhere real": wherever it has got to, what it makes for is on
\* the field, except as it goes round a wall.
AimIsOnTheField ==
    \A t \in {Target} : \A wish \in {Wish(t)} : \A aim \in {Aim(wish)} :
        Walled(G!Minus(wish, me.at)) \/
            LET p == G!Plus(me.at, aim) IN p[1] \in 0 .. G!W /\ p[2] \in 0 .. G!H

\* gs_ai.c:400, "a decision taken at a threshold has to stay taken": what blocks a car at
\* rest blocks it while it backs away from there.  It holds up to the three tiles a second
\* at which what its speed would climb makes up for the halved allowance; a machine may
\* reverse at half its top speed, which is more (gs_sim.c:592).
RetreatHolds ==
    \A speed \in 0 .. 3 : FacesAWall(0, FALSE) => FacesAWall(speed, TRUE)

\* gs_ai.c:678, "only while it is still moving": told to brake at rest, which is to
\* reverse, only by a wall.
AtRestItGoes ==
    me.go = <<0, 0>> => \A t \in {Target} : "brake" \in pressed <=> Blocked(Wish(t))

\* gs_ai.c:632, "the same braking rule that plans for a gate plans for the edge": it is not
\* so for the further of two edges it is going towards.
BrakesForEveryEdge ==
    pressed # {} /\ (EdgeOn(1) \/ EdgeOn(2)) => "brake" \in pressed

\* Where the computer drives to counts, is there, and is got to.
DrivesTheRace ==
    pressed # {} => AimsAtWhatCounts /\ AimIsOnTheField /\ RetreatHolds /\ AtRestItGoes
=============================================================================
