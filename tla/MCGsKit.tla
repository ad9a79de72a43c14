------------------------------ MODULE MCGsKit -------------------------------
(***************************************************************************)
(* The parts one machine is put together from, one at a time: the keyboard *)
(* and the controls (GsKeys), what cars carry and do to each other         *)
(* (GsArms), the messages (GsProto), who is at the keyboard (GsDoor), the  *)
(* race that is set up (GsGrid), the track that is generated (GsRoute), the *)
(* ground under it (GsGround) and the cars the computer drives (GsDriver). *)
(***************************************************************************)
EXTENDS GsKeys, GsArms, GsProto, GsDoor, GsGrid, GsRoute, GsGround, GsDriver

\* Two things to do and a key and a button for one of them, and a file that only knew it.
AllOn(k, b) == [key |-> [i \in Player |-> k], button |-> [i \in Player |-> b]]
TheDefaults == AllOn([go |-> 2, drop |-> 0], [go |-> 10, drop |-> 0])
TheOldFiles == {[acts |-> {"go"}, bind |-> AllOn([go |-> 0, drop |-> 0], [go |-> 0, drop |-> 0])]}

\* One fires and goes ahead, the other follows, flies, lands, is towed and is lost.
TheWeapons == <<"mine", "flame">>
TheLoadout == [mine |-> 2, flame |-> 1]
TheLasts == [mine |-> 0, flame |-> 2]
Going(down, tow, how) ==
    [down |-> down, tow |-> tow, how |-> how, to |-> "x", blows |-> IF how = "lands" THEN 1 ELSE 0]
TheDoes == [i \in 0 .. 1 |->
    IF i = 0 THEN {Going(down, FALSE, how) : down \in BOOLEAN, how \in {"rolls", "flies"}}
    ELSE {Going(FALSE, tow, how) : tow \in BOOLEAN, how \in {"rolls", "flies", "lands", "lost"}}]
TheKnocks == {[lift |-> FALSE, blows |-> 0], [lift |-> TRUE, blows |-> 1]}

\* Nobody yet, a driver of an older roster, and one with a password and a phone.
Rostered(lock, phone) == <<[name |-> "ann", lock |-> lock, phone |-> phone, made |-> FALSE]>>
TheRosters == {<<>>, Rostered("", FALSE), Rostered("x", TRUE)}

TheOwnMachine == [d \in {"ann"} |-> "bug"]

\* Dials that are vetoed each way, a circuit that is easy to close and paths that are not.
PlainDials == [kind |-> "circuit", curve |-> "technical", straight |-> "balanced", jumps |-> "none",
          relief |-> "rolling", range |-> "subtle", width |-> "wide", drama |-> "level",
          routes |-> "one", base |-> "ice"]
TheDraws ==
    {[PlainDials EXCEPT !.relief = r, !.range = g, !.jumps = j, !.width = w, !.drama = d,
                   !.routes = o] :
        r \in {"flat", "rolling"}, g \in {"subtle", "severe"}, j \in {"none", "big"},
        w \in {"narrow", "wide"}, d \in {"level", "gaps", "crests"}, o \in {"one", "shortcut"}}
    \cup {[PlainDials EXCEPT !.straight = s] : s \in {"power", "broken"}}
    \cup {[PlainDials EXCEPT !.kind = "path", !.straight = s, !.jumps = "small",
                        !.drama = "crests", !.routes = "shortcut"] : s \in {"broken", "power"}}
TheCells == [circuit |-> {8}, path |-> {8, 9}]
TheRampEvery == [none |-> {130}, small |-> {90, 120}, big |-> {130, 170}]

\* A field of three tiles each way, uneven, and places for gates on it.
TheCorner == [x \in 0 .. 3 |-> [y \in 0 .. 3 |-> (2 * x + 3 * y + x * y) % 5]]
Spot(x, y, dx, dy, half) == [at |-> <<x, y>>, face |-> <<dx, dy>>, half |-> half]
TheSites == {Spot(6, 4, 1, 0, 4), Spot(6, 8, 0, 1, 4), Spot(2, 6, 1, 1, 2), Spot(10, 6, -1, 0, 4)}
TheSteps == {<<-2, 4>>, <<0, -3>>}

\* A loop with a shortcut and a path on a field with a ridge across it.
Laid(kind, gate) ==
    [ground |-> "f", route |-> kind, every |-> 2, cut |-> {0},
     gate |-> [i \in DOMAIN gate |-> <<gate[i], FALSE>>]]
TheCourses ==
    {Laid("circuit", <<Spot(20, 12, 1, 0, 8), Spot(44, 12, 1, 0, 8),
                         Spot(44, 44, -1, 0, 8), Spot(12, 44, -1, 0, 8)>>),
     Laid("sprint", <<Spot(12, 20, 1, 0, 5), Spot(28, 8, 1, 1, 5), Spot(46, 20, 0, 1, 8)>>)}
TheRises == [x \in 0 .. 14 |-> [y \in 0 .. 14 |->
                IF x \in 5 .. 7 /\ y \in 3 .. 8 THEN IF x = 5 THEN 1 ELSE 2 ELSE 0]]
TheSpots == {<<x, y>> : x \in {-6, 18, 40, 55}, y \in {10, 21, 60}}
TheVelocities == {<<0, 0>>, <<3, 0>>, <<-2, 0>>, <<-1, 15>>}
AtRest == [at |-> <<18, 10>>, face |-> 0, go |-> <<0, 0>>, slot |-> 0, next |-> 0]

VARIABLE part     \* what is being run; the others stay as they start

KitInit ==
    /\ part \in {"typing", "control", "arms", "proto", "door", "grid", "route", "ground", "driver"}
    /\ KeysInit /\ (part # "control" => pad = <<>> /\ file = NoFile)
    /\ ArmsInit
    /\ ProtoInit /\ (part # "proto" => said = [kind |-> "bye", field |-> <<>>, data |-> 0])
    /\ DoorInit /\ (part # "door" => roster = <<>> /\ wired = FALSE)
    /\ GridInit /\ (part # "grid" => circuit = FALSE)
    /\ RouteInit /\ (part # "route" => spec = PlainDials)
    /\ GroundInit
    /\ DriverInit /\ (part # "driver" => road.route = "sprint" /\ me = AtRest)

KitNext ==
    \/ part = "typing" /\ WindowNext
       /\ UNCHANGED <<part, armsVars, protoVars, doorVars, gridVars,
                      routeVars, groundVars, driverVars>>
    \/ part = "control" /\ ControlNext
       /\ UNCHANGED <<part, armsVars, protoVars, doorVars, gridVars,
                      routeVars, groundVars, driverVars>>
    \/ part = "arms" /\ ArmsNext
       /\ UNCHANGED <<part, keysVars, protoVars, doorVars, gridVars,
                      routeVars, groundVars, driverVars>>
    \/ part = "proto" /\ ProtoNext
       /\ UNCHANGED <<part, keysVars, armsVars, doorVars, gridVars,
                      routeVars, groundVars, driverVars>>
    \/ part = "door" /\ DoorNext
       /\ UNCHANGED <<part, keysVars, armsVars, protoVars, gridVars,
                      routeVars, groundVars, driverVars>>
    \/ part = "grid" /\ GridNext
       /\ UNCHANGED <<part, keysVars, armsVars, protoVars, doorVars,
                      routeVars, groundVars, driverVars>>
    \/ part = "route" /\ RouteNext
       /\ UNCHANGED <<part, keysVars, armsVars, protoVars, doorVars,
                      gridVars, groundVars, driverVars>>
    \/ part = "ground" /\ GroundNext
       /\ UNCHANGED <<part, keysVars, armsVars, protoVars, doorVars,
                      gridVars, routeVars, driverVars>>
    \/ part = "driver" /\ DriverNext
       /\ UNCHANGED <<part, keysVars, armsVars, protoVars, doorVars,
                      gridVars, routeVars, groundVars>>

KitSpec ==
    KitInit /\ [][KitNext]_<<part, keysVars, armsVars, protoVars, doorVars, gridVars,
                             routeVars, groundVars, driverVars>>
=============================================================================
