------------------------------- MODULE GsGrid -------------------------------
(***************************************************************************)
(* The race a machine sets up by itself (ui/gs_menu.c): the dials of the   *)
(* setup screen, the world that is built from them, who drives each car of *)
(* it, and whom its times are put down to when it is over.  Which screens  *)
(* lead where is GsFront's; the dials may be turned wherever the setup is  *)
(* reached from, a race that is paused included.                           *)
(*                                                                         *)
(* Paint, skill and the buttons that are only lit are left out.  A track is*)
(* a circuit or a path, and its route is sound.                            *)
(***************************************************************************)
EXTENDS Naturals, FiniteSets

CONSTANTS Slots,        \* GS_MAX_CARS
          Drivers,      \* the roster, all of it set up
          Machines, OwnMachine,     \* gs_vehicle, and which each driver has
          Gravities, LapCounts,     \* the buttons, and 1 to 20
          Times,        \* what a car's best lap may be
          Turns         \* bound: how many times a dial is turned

\* Two take part to begin with; times are in ticks.
ASSUME GridAssumption == Slots \in Nat /\ Slots >= 2 /\ Times \subseteq Nat

Slot == 1 .. Slots
Sitter == Drivers \cup {"guest", "computer"}
Unfiled == [lap |-> 0, under |-> {}]

VARIABLES
    circuit,    \* gs_track_is_circuit
    dial,       \* menu.setup
    world,      \* what was built, and what became of it; whether the dials were touched
                \* while it was halted is the model's
    page,       \* menu.screen: "setup", "race", "results" or "title"
    halted,     \* whether a race waits behind the setup screen
    times,      \* menu.records: every time that was put down
    turnsLeft

gridVars == <<circuit, dial, world, page, halted, times, turnsLeft>>

\* Who a slot is for: gs_race_setup.computer and gs_race_setup.profile, of which the first
\* counts; the profile is kept beneath it.
SeatOf(d, i) == IF d.computer[i] THEN "computer" ELSE d.profile[i]

\* gs_menu_init
FirstDials ==
    [players |-> 2, mode |-> "race", laps |-> CHOOSE n \in LapCounts : TRUE,
     weapons |-> FALSE, ammo |-> 1, gravity |-> CHOOSE g \in Gravities : TRUE,
     computer |-> [i \in Slot |-> i > 1], profile |-> [i \in Slot |-> "guest"],
     machine |-> [i \in Slot |-> CHOOSE m \in Machines : TRUE],
     manual |-> [i \in Slot |-> FALSE]]

NoWorld == [built |-> FirstDials, hands |-> [i \in Slot |-> {}], cars |-> {}, over |-> FALSE,
            touched |-> FALSE]

GridInit ==
    /\ circuit \in BOOLEAN /\ dial = FirstDials /\ world = NoWorld
    /\ page = "title" /\ halted = FALSE /\ times = {} /\ turnsLeft = Turns

-----------------------------------------------------------------------------
(* The dials *)

DialTo(d) ==
    /\ page = "setup" /\ turnsLeft > 0 /\ d # dial
    /\ dial' = d /\ turnsLeft' = turnsLeft - 1
    /\ world' = [world EXCEPT !.touched = @ \/ halted]
    /\ UNCHANGED <<circuit, page, halted, times>>

\* A path is raced once, end to end, and so is a race for the last one driving.
Lapped == circuit /\ dial.mode = "race"

RaceDials ==
    \/ \E m \in {"race", "last"} : DialTo([dial EXCEPT !.mode = m])
    \/ Lapped /\ \E n \in LapCounts : DialTo([dial EXCEPT !.laps = n])
    \/ \E n \in Slot : DialTo([dial EXCEPT !.players = n])
    \/ \E g \in Gravities : DialTo([dial EXCEPT !.gravity = g])

\* One switch, and so many of each, which are only there when it is on.
WeaponDials ==
    \/ DialTo([dial EXCEPT !.weapons = ~@])
    \/ dial.weapons /\ \E n \in 0 .. 1 : DialTo([dial EXCEPT !.ammo = n])

\* A driver brings a machine; a computer leaves whoever was there beneath it, and the box
\* as it was.
SlotDials(i) ==
    /\ i <= dial.players
    /\ \/ DialTo([dial EXCEPT !.computer[i] = TRUE])
       \/ DialTo([dial EXCEPT !.computer[i] = FALSE, !.profile[i] = "guest"])
       \/ \E d \in Drivers : DialTo([dial EXCEPT !.computer[i] = FALSE, !.profile[i] = d,
                                                 !.machine[i] = OwnMachine[d]])
       \/ \E m \in Machines : DialTo([dial EXCEPT !.machine[i] = m])
       \/ ~dial.computer[i] /\ \E b \in BOOLEAN : DialTo([dial EXCEPT !.manual[i] = b])

\* gs_menu_sign_in: the first slot is the driver's who signed in.
SignsIn(d) ==
    /\ page = "title" /\ turnsLeft > 0
    /\ dial' = [dial EXCEPT !.profile[1] = d, !.machine[1] = OwnMachine[d]]
    /\ turnsLeft' = turnsLeft - 1
    /\ UNCHANGED <<circuit, world, page, halted, times>>

-----------------------------------------------------------------------------
(* The race *)

\* gs_setup_build: what is in the world is not asked for again, the machine and the box of
\* each car among it; nobody is armed unless the switch is on.
BuiltFrom(d) ==
    [built |-> d, cars |-> 1 .. d.players, over |-> FALSE, touched |-> FALSE,
     hands |-> [i \in Slot |-> {}]]

\* gs_start_race, from GO, NEW RACE and Race again
GoRacing ==
    /\ page \in {"setup", "results"}
    /\ world' = BuiltFrom(dial) /\ page' = "race" /\ halted' = FALSE
    /\ UNCHANGED <<circuit, dial, times, turnsLeft>>

GoBack ==
    /\ page = "setup" /\ halted /\ page' = "race" /\ halted' = FALSE
    /\ UNCHANGED <<circuit, dial, world, times, turnsLeft>>

\* Escape out of a race, and every other way to the setup screen and off it.
Elsewhere(p) ==
    /\ p # page
    /\ \/ p = "setup"
       \/ p = "title" /\ page # "race"
    /\ page' = p /\ halted' = (p = "setup" /\ page = "race")
    /\ UNCHANGED <<circuit, dial, world, times, turnsLeft>>

\* gs_setup_drive: each car of the race, by the game or by whoever holds its controls.
Driven == [i \in Slot |-> IF i \notin world.cars THEN {}
                          ELSE world.hands[i] \cup {IF dial.computer[i] THEN "game" ELSE "pads"}]

\* gs_conditions_hash: the dials a time may not be put beside another for, and what was
\* carried, if anything was.
Conditions(gravity, carried) == {<<"gravity", gravity>>} \cup (IF carried = 0 THEN {} ELSE {<<"armed", carried>>})

Carried(d) == IF d.weapons THEN d.ammo ELSE 0

\* Slip: the game's own cars are put down as well, to whoever is beneath.
FiledOfAll(lap, hands) ==
    {[who |-> dial.profile[i], lap |-> lap[i], machine |-> dial.machine[i],
      under |-> Conditions(world.built.gravity, Carried(world.built)),
      seat |-> SeatOf(world.built, i), drove |-> world.built.machine[i], hands |-> hands[i],
      carried |-> Carried(world.built), touched |-> world.touched] :
        i \in {j \in world.cars : dial.profile[j] # "guest"}}

\* gs_menu_finish: a time for every car of somebody's, and none for the game's own or a
\* guest's, as the dials are now.
FiledOf(lap, hands) ==
    {[who |-> dial.profile[i], lap |-> lap[i], machine |-> dial.machine[i],
      under |-> Conditions(world.built.gravity, Carried(world.built)),
      seat |-> SeatOf(world.built, i), drove |-> world.built.machine[i], hands |-> hands[i],
      carried |-> Carried(world.built), touched |-> world.touched] :
        i \in {j \in world.cars : ~dial.computer[j] /\ dial.profile[j] # "guest"}}

\* Ticks of the race, of which the last ends it.
DriveOn(over) ==
    /\ page = "race"
    /\ world' = [world EXCEPT !.hands = Driven, !.over = over]
    /\ IF over
       THEN /\ page' = "results"
            /\ \E lap \in [Slot -> Times] : times' = times \cup FiledOf(lap, Driven)
       ELSE UNCHANGED <<page, times>>
    /\ UNCHANGED <<circuit, dial, halted, turnsLeft>>

\* gs_setup_screen, gs_records_screen: what is looked up is a world of this gravity.
ToBeat == LET laps == {f.lap : f \in {f \in times : f.under = Conditions(dial.gravity, 0)}}
          IN  IF laps = {} THEN 0 ELSE CHOOSE x \in laps : \A y \in laps : x <= y

GridNext ==
    \/ RaceDials \/ WeaponDials \/ \E i \in Slot : SlotDials(i)
    \/ \E d \in Drivers : SignsIn(d)
    \/ GoRacing \/ GoBack \/ \E p \in {"setup", "title"} : Elsewhere(p)
    \/ \E over \in BOOLEAN : DriveOn(over)

GridSpec == GridInit /\ [][GridNext]_gridVars

-----------------------------------------------------------------------------
(* Properties *)

\* gs_menu.c:2552, "never the game's own cars", and 389: as long as the dials are left as
\* they were when it was built, a race's times are put down to those it was set up for, who
\* drove, and in what they drove.
TimesAreWhoDrove ==
    \A f \in times : ~f.touched => /\ f.hands = {"pads"}
                                   /\ f.who = f.seat /\ f.machine = f.drove

\* gs_records.c:38: "a lap set while the others were dropping oil is not a lap to put beside
\* a clean one."  With no weapons set, what is there to beat was set with none.
CleanToBeat ==
    Carried(dial) = 0 /\ ToBeat # 0 =>
        \E f \in times : /\ f.lap = ToBeat /\ f.carried = 0
                              /\ <<"gravity", dial.gravity>> \in f.under

\* A time is of those who drove it, and put beside times of its own kind.
TimesAreTold == TimesAreWhoDrove /\ CleanToBeat

\* gs_menu.c:2552: "an opponent is not a person and its time is not a record", whatever is
\* turned while the race is paused.
NoTimeForTheGame == \A f \in times : "game" \notin f.hands

\* gs_menu.c:1213: what there is to beat is of "the same conditions a race under these dials
\* would have": whoever has set a time under them is on the screen.
ToBeatIsOfTheseDials ==
    \A f \in times : f.under = Conditions(dial.gravity, Carried(dial)) => ToBeat \in 1 .. f.lap
=============================================================================
