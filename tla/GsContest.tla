----------------------------- MODULE GsContest -----------------------------
(***************************************************************************)
(* A race as the simulation keeps it (gs_world_step, core/gs_sim.c): gates *)
(* crossed in order, laps and finishing, cars lost, towed and wrecked, and *)
(* when it is over and who won it.                                         *)
(*                                                                         *)
(* Where cars are is left out: in a tick a car that moves may cross any of *)
(* the gates, and may be wrecked by the ground, by a mine or a flame, or by*)
(* another car.  A car that is wrecked or on the hook does not move. *)
(* A tick's parts are in the order the step has them.                      *)
(***************************************************************************)
EXTENDS GsTrack, FiniteSets

CONSTANTS Cars,         \* how many are on the grid
          Course,       \* the tracks that are raced
          Laps,         \* what may be asked for; 0 is a race without an end
          TowTicks,     \* GS_TOW_TICKS
          MaxTick       \* bound: the length of a race

Grid == 0 .. Cars - 1
NoWinner == 255

\* Cars and gates are numbered in a byte; a path of one gate is "a line, not a route"
\* (gs_track_check).
ASSUME ContestAssumption ==
    /\ Cars \in 0 .. NoWinner
    /\ TowTicks \in Nat /\ Laps \subseteq Nat /\ MaxTick \in Nat
    /\ \A c \in Course : /\ Gates(c) \in 0 .. NoWinner /\ c.every \in Nat
                         /\ IsCircuit(c) \/ Gates(c) # 1

VARIABLES
    course,     \* the track
    race,       \* [mode, laps, tick, over, winner]
    car,        \* car[i]: [wrecked, next, laps, finish, begun, best, tow]
    crossed     \* crossed[i]: the gates crossed since the last finish line

contestVars == <<course, race, car, crossed>>

\* gs_world_add_car
NewCar == [wrecked |-> FALSE, next |-> 0, laps |-> 0,
           finish |-> 0, begun |-> 0, best |-> 0, tow |-> 0]

ContestInit ==
    /\ course \in Course
    /\ race \in [mode : {"race", "destruction"}, laps : Laps, tick : {0},
                 over : {FALSE}, winner : {NoWinner}]
    /\ car = [i \in Grid |-> NewCar]
    /\ crossed = [i \in Grid |-> {}]

\* gs_car_laps_done: on a loop the first crossing is the run up to the line.
LapsDone(c) == IF ~IsCircuit(course) THEN c.laps
               ELSE IF c.laps > 0 THEN c.laps - 1 ELSE 0

\* gs_world_laps_needed: a path is raced once.
LapsNeeded == IF race.laps = 0 THEN 0 ELSE IF IsCircuit(course) THEN race.laps ELSE 1

-----------------------------------------------------------------------------
(* The parts of a tick *)

Moves(c) == ~c.wrecked

\* What may become of a car in a tick: gs_car_step puts it on the hook or wrecks it on
\* the ground, mines and flames come after the gates, and other cars last of all.
Fates == {"goes on", "crashes", "towed", "burnt", "hit"}

CanBeTowed(c) == c.tow = 0 /\ c.finish = 0 /\ Gates(course) > 0 /\ ~(c.laps = 0 /\ c.next = 0)

MayMeet(c, fate) ==
    /\ fate # "goes on" => Moves(c)
    /\ fate = "crashes" => c.tow = 0
    /\ fate = "towed" => CanBeTowed(c)
    /\ fate = "hit" => c.tow <= 1        \* nothing hits a car on the hook

Stepped(c, fate) ==
    IF ~Moves(c) THEN c
    ELSE IF c.tow > 0 THEN [c EXCEPT !.tow = @ - 1]
    ELSE [c EXCEPT !.wrecked = fate = "crashes", !.tow = IF fate = "towed" THEN TowTicks ELSE 0]

\* Whether where it is can have changed: what moves does, and what has just come off
\* the hook, or was wrecked as it came down.
MayCross(old, new) == Moves(old) /\ (old.tow = 0 => new.tow = 0) /\ new.tow = 0

\* The gates looked at: from the next one to the next checkpoint.
Window(c) ==
    LET n == Gates(course)
        at(s) == (c.next + s) % n
    IN  {at(s) : s \in {s \in 0 .. n - 1 :
                            \A r \in 0 .. s - 1 : ~IsCheckpoint(course, at(r))}}

\* Gate g is the first of those that was crossed.
Crosses(c, g) ==
    LET after == [c EXCEPT !.next = (g + 1) % Gates(course)]
        runUp == IsCircuit(course) /\ c.laps = 0
        lap == race.tick - c.begun
    IN  IF g # FinishGate(course) THEN after
        ELSE [after EXCEPT !.laps = @ + 1, !.begun = race.tick,
                           !.best = IF ~runUp /\ (@ = 0 \/ lap < @) THEN lap ELSE @]

Finishes(c) ==
    /\ race.mode = "race" /\ LapsNeeded > 0
    /\ c.finish = 0 /\ LapsDone(c) >= LapsNeeded

FinishTick(c) == IF Finishes(c) THEN [c EXCEPT !.finish = race.tick] ELSE c

First(S) == IF S = {} THEN NoWinner ELSE CHOOSE i \in S : \A j \in S : i <= j

\* Slip: whoever finished last has won.
FlaggedLast(r, before, cs) ==
    IF r.mode # "race" \/ LapsNeeded = 0 THEN r
    ELSE [r EXCEPT
            !.winner = IF {i \in Grid : Finishes(before[i])} # {}
                       THEN First({i \in Grid : Finishes(before[i])}) ELSE @,
            !.over = @ \/ \A i \in Grid : ~Moves(cs[i]) \/ cs[i].finish # 0]

\* The race as the laps have it: the first to finish has won, and it is over when
\* nobody is left to.
Flagged(r, before, cs) ==
    IF r.mode # "race" \/ LapsNeeded = 0 THEN r
    ELSE [r EXCEPT
            !.winner = IF @ = NoWinner THEN First({i \in Grid : Finishes(before[i])}) ELSE @,
            !.over = @ \/ \A i \in Grid : ~Moves(cs[i]) \/ cs[i].finish # 0]

\* The last one driving, if no more than one is (gs_world_driving).
LastDriving(cs) == LET S == {i \in Grid : Moves(cs[i])}
                   IN  IF S = {} THEN NoWinner ELSE CHOOSE i \in S : \A j \in S : j <= i

\* Slip: it is decided again every tick.
DecidedAgain(r, cs) ==
    IF r.mode = "destruction" /\ Cardinality({i \in Grid : Moves(cs[i])}) <= 1
    THEN [r EXCEPT !.over = TRUE, !.winner = LastDriving(cs)] ELSE r

Decided(r, cs) ==
    IF r.mode = "destruction" /\ ~r.over /\ Cardinality({i \in Grid : Moves(cs[i])}) <= 1
    THEN [r EXCEPT !.over = TRUE, !.winner = LastDriving(cs)] ELSE r

\* What is wrecked stays so.
Wrecked(cs, S) == [i \in Grid |-> IF i \in S THEN [cs[i] EXCEPT !.wrecked = TRUE] ELSE cs[i]]

-----------------------------------------------------------------------------
(* A tick *)

Step ==
    /\ race.tick < MaxTick
    /\ \E fate \in [Grid -> Fates] :
        /\ \A i \in Grid : MayMeet(car[i], fate[i])
        /\ LET driven == [i \in Grid |-> Stepped(car[i], fate[i])]
               Meet(f) == {i \in Grid : fate[i] = f}
           IN  \E gate \in [Grid -> {NoWinner} \cup 0 .. Gates(course) - 1] :
                /\ \A i \in Grid : gate[i] # NoWinner =>
                        MayCross(car[i], driven[i]) /\ gate[i] \in Window(driven[i])
                /\ LET lapped == [i \in Grid |-> IF gate[i] = NoWinner THEN driven[i]
                                                 ELSE Crosses(driven[i], gate[i])]
                       flagged == [i \in Grid |-> FinishTick(lapped[i])]
                       mined == Wrecked(flagged, Meet("burnt"))
                   IN  /\ car' = Wrecked(mined, Meet("hit"))
                       /\ race' = [Decided(Flagged(race, lapped, flagged), mined)
                                     EXCEPT !.tick = @ + 1]
                /\ crossed' = [i \in Grid |->
                     IF gate[i] = NoWinner THEN crossed[i]
                     ELSE IF gate[i] = FinishGate(course) THEN {}
                     ELSE crossed[i] \cup {gate[i]}]
    /\ UNCHANGED course

ContestSpec == ContestInit /\ [][Step]_contestVars

-----------------------------------------------------------------------------
(* The results *)

\* gs_menu_finish: finishers by time, then everybody else by how far they got.
Worse(a, b) ==
    IF a.finish # 0 /\ b.finish # 0 THEN a.finish > b.finish
    ELSE IF a.finish = 0 /\ b.finish = 0 THEN a.laps < b.laps
    ELSE a.finish = 0

\* The place of car i: those level stay in the order of the grid.
Place(i) ==
    1 + Cardinality({j \in Grid : Worse(car[i], car[j]) \/ (j < i /\ ~Worse(car[j], car[i]))})

\* gs_progress: laps and gates, and the part of the leg that is behind it, of 2.
Progress(i, part) ==
    IF Gates(course) = 0 THEN 0 ELSE 2 * (car[i].laps * Gates(course) + car[i].next) + part[i]

\* Whether car i is ahead of car j: who is home by the clock, then who has got further,
\* and the lower number if they are level.
AheadOf(i, j, part) ==
    IF car[i].finish # 0 \/ car[j].finish # 0
    THEN /\ car[i].finish # 0
         /\ car[j].finish = 0 \/ car[i].finish < car[j].finish
            \/ (car[i].finish = car[j].finish /\ i < j)
    ELSE Progress(i, part) > Progress(j, part) \/ (Progress(i, part) = Progress(j, part) /\ i < j)

\* gs_world_place: the place that is shown while it is being driven.
LivePlace(i, part) == 1 + Cardinality({j \in Grid \ {i} : AheadOf(j, i, part)})

-----------------------------------------------------------------------------
(* Properties *)

\* gs_sim.h: "the result is settled and will not change".  Whatever happens on the
\* track after a race is over, who won it and when everybody finished stay.
ResultStands ==
    [][race.over => /\ race'.winner = race.winner /\ race'.over
                    /\ \A i \in Grid : car'[i].finish = car[i].finish]_contestVars

\* A lap is counted only when every other checkpoint has been crossed since the one
\* before it; the run up to the line is none.
LapGoesRound ==
    [][\A i \in Grid : LapsDone(car'[i]) > LapsDone(car[i]) =>
          \A g \in 0 .. Gates(course) - 1 :
             IsCheckpoint(course, g) /\ g # FinishGate(course)
               => g \in crossed[i] \/ ~IsCircuit(course)]_contestVars

\* Neither a result nor a lap is had for nothing.
RaceStands == ResultStands /\ LapGoesRound

\* The winner of a race is the first across the line, the lower number if two are, and
\* has the first place in the results.
WinnerIsFirst ==
    race.mode = "race" /\ race.winner # NoWinner =>
        LET w == car[race.winner].finish
        IN  /\ w # 0 /\ Place(race.winner) = 1
            /\ \A i \in Grid : car[i].finish # 0 =>
                  w < car[i].finish \/ (w = car[i].finish /\ race.winner <= i)

\* gs_sim.c:1284, "so two cars finishing on the same tick still get two places": wherever
\* they are on their legs each has a place of its own, and those home have, while others
\* still drive, the places the results will give them.
PlacesAddUp ==
    \A part \in [Grid -> 0 .. 1] :
        /\ {LivePlace(i, part) : i \in Grid} = 1 .. Cars
        /\ \A i \in Grid : car[i].finish # 0 => LivePlace(i, part) = Place(i)

\* Whoever is told to be ahead of others, in the race and after it, is.
PlacesAreRight == WinnerIsFirst /\ PlacesAddUp

\* gs_sim.h: "last one driving".  Who has won what was fought has the first place in
\* the results, and the win.
LastOneIsPlacedFirst ==
    race.mode = "destruction" /\ race.over /\ race.winner # NoWinner => Place(race.winner) = 1

\* A best lap is of a lap driven, and no faster than the gates can be crossed.
BestIsALap ==
    \A i \in Grid : car[i].best # 0 =>
        /\ LapsDone(car[i]) > 0
        /\ IsCircuit(course) => car[i].best >= Cardinality(
              {g \in 0 .. Gates(course) - 1 : IsCheckpoint(course, g)})
=============================================================================
