------------------------------- MODULE GsArms -------------------------------
(***************************************************************************)
(* What cars do to each other in a tick of the race (core/gs_sim.c): what  *)
(* they carry and leave behind them, what that does to whoever comes to it,*)
(* what landing and driving into each other costs, and the ring everything *)
(* left behind is kept in.                                                 *)
(*                                                                         *)
(* Where cars go is left open: a car is at one of a few places, on the     *)
(* ground or above it, and is moved to any.  A hazard reaches whoever is on*)
(* the ground in its place.  Damage is counted in blows, of which so many  *)
(* wreck a car.  Gates, laps and who has won are GsContest's.              *)
(***************************************************************************)
EXTENDS Integers, SequencesExt

CONSTANTS Racers,      \* how many cars
          Place,        \* where they may be
          Weapons,      \* gs_hazard_kind, in its order, as a sequence
          Loadout,      \* what everybody starts with, of each
          Lasts,        \* gs_hazard_life: ticks, or 0 for one that stays
          Ring,         \* GS_MAX_HAZARDS
          FireHold,     \* GS_FIRE_HOLD
          Cooldown,     \* GS_DROP_COOLDOWN
          FlameEvery,   \* GS_FLAME_EVERY
          Hook,         \* GS_TOW_TICKS
          Blows,        \* what wrecks a car
          Does,         \* what a driver may hold down, and how the car may go:
                        \* for each, a set of [down, tow, how, to, blows]
          Knock,        \* how cars may meet: [lift, blows]
          LastStep      \* bound: the length of a race

Racer == 0 .. Racers - 1
Unarmed == "none"
Armed == ToSet(Weapons)

ASSUME ArmsAssumption ==
    /\ {Racers, FireHold, Cooldown, Hook, Blows, LastStep} \subseteq Nat
    /\ {Ring, FlameEvery} \subseteq Nat \ {0}
    /\ Weapons \in Seq(Armed) /\ Unarmed \notin Armed
    /\ Loadout \in [Armed -> Nat] /\ Lasts \in [Armed -> Nat]
    /\ \A i \in Racer : Does[i] \subseteq [down : BOOLEAN, tow : BOOLEAN, to : Place, blows : Nat,
                                         how : {"rolls", "flies", "lands", "lost"}]
    /\ Knock \subseteq [lift : BOOLEAN, blows : Nat]

VARIABLES
    tick,        \* gs_world.tick
    car,        \* gs_car
    hazard      \* gs_hazard: [kind, owner, at, life, spent, born]

armsVars == <<tick, car, hazard>>

\* gs_car_select_first
SelectFirst(ammo) ==
    LET some == {n \in DOMAIN Weapons : ammo[Weapons[n]] > 0}
    IN  IF some = {} THEN Unarmed ELSE Weapons[Min(some)]

\* gs_world_arm and gs_world_add_car
ArmedCar(at) == [at |-> at, air |-> FALSE, damage |-> 0, wrecked |-> FALSE, tow |-> 0,
                 home |-> FALSE, ammo |-> Loadout, selected |-> SelectFirst(Loadout),
                 held |-> 0, cycled |-> FALSE, cooldown |-> 0]

ArmsInit ==
    /\ tick = 0 /\ hazard = <<>>
    /\ car \in [Racer -> {ArmedCar(at) : at \in Place}]

-----------------------------------------------------------------------------
(* The button *)

\* Slip: the search ends before it is back at the one selected.
NextArmedShort(c) ==
    LET from == IF c.selected = Unarmed THEN 0 ELSE CHOOSE i \in DOMAIN Weapons : Weapons[i] = c.selected
        kind(s) == Weapons[1 + ((from - 1 + s) % Len(Weapons))]
        found == {s \in 1 .. Len(Weapons) - 1 : c.ammo[kind(s)] > 0}
    IN  IF found = {} THEN Unarmed ELSE kind(CHOOSE s \in found : \A r \in found : s <= r)

\* gs_next_armed: every kind once, beginning after the one selected and ending on it.
NextArmed(c) ==
    LET from == IF c.selected = Unarmed THEN 0 ELSE CHOOSE i \in DOMAIN Weapons : Weapons[i] = c.selected
        kind(s) == Weapons[1 + ((from - 1 + s) % Len(Weapons))]
        found == {s \in 1 .. Len(Weapons) : c.ammo[kind(s)] > 0}
    IN  IF found = {} THEN Unarmed ELSE kind(CHOOSE s \in found : \A r \in found : s <= r)

\* gs_world_drop: a new place in the ring, or the one the tick falls on when it is full.
Drop(w, i) ==
    LET c == w.car[i]
        kind == c.selected
        left == [kind |-> kind, owner |-> i, at |-> c.at, life |-> Lasts[kind],
                 spent |-> FALSE, born |-> tick]
        less == [c EXCEPT !.cooldown = Cooldown, !.ammo[kind] = @ - 1]
    IN  IF kind = Unarmed \/ c.wrecked \/ c.cooldown # 0 \/ c.ammo[kind] = 0 THEN w
        ELSE [car |-> [w.car EXCEPT ![i] =
                         IF less.ammo[kind] = 0 THEN [less EXCEPT !.selected = NextArmed(less)]
                         ELSE less],
              hazard |-> IF Len(w.hazard) < Ring THEN Append(w.hazard, left)
                         ELSE [w.hazard EXCEPT ![1 + (tick % Ring)] = left]]

\* Tap to drop, hold to change; it drops as the button comes up.
FireButton(w, i, down) ==
    LET c == w.car[i]
        longer == IF c.held < FireHold THEN c.held + 1 ELSE c.held
        up == IF c.held > 0 /\ ~c.cycled THEN Drop(w, i) ELSE w
    IN  IF down
        THEN [w EXCEPT !.car[i] =
                IF longer >= FireHold /\ ~c.cycled
                THEN [c EXCEPT !.held = longer, !.selected = NextArmed(c), !.cycled = TRUE]
                ELSE [c EXCEPT !.held = longer]]
        ELSE [up EXCEPT !.car[i].held = 0, !.car[i].cycled = FALSE]

-----------------------------------------------------------------------------
(* A car's own tick *)

\* So many blows more.
Struck(c, blows) ==
    LET d == IF c.damage + blows < Blows THEN c.damage + blows ELSE Blows
    IN  [c EXCEPT !.damage = d, !.wrecked = @ \/ d = Blows]

\* Too far outside the track.
Lost(c) == [c EXCEPT !.damage = Blows, !.wrecked = TRUE]

\* What may become of a car that drives.  A wall of ground stops it where it is; ground
\* that falls away leaves it in the air, and a car that comes down is unhurt or hurt.
Course(c, go) ==
    CASE go.how = "lost"  -> Lost(c)
      [] go.how = "rolls" -> [c EXCEPT !.at = go.to]
      [] go.how = "flies" -> [c EXCEPT !.at = go.to, !.air = TRUE]
      [] go.how = "lands" -> Struck([c EXCEPT !.at = go.to, !.air = FALSE], go.blows)

MayGo(c, go) == go.how = "rolls" => ~c.air

\* gs_car_step.  A car that is home takes no more input.
StepCar(w, i, does) ==
    LET c == w.car[i]
        down == does.down /\ ~c.home
        cooled == [c EXCEPT !.cooldown = IF @ > 0 THEN @ - 1 ELSE 0]
        fired == FireButton([w EXCEPT !.car[i] = cooled], i, down)
    IN  IF c.wrecked THEN w
        ELSE IF c.tow = 1 THEN [w EXCEPT !.car[i].tow = 0, !.car[i].at = does.to,
                                         !.car[i].air = FALSE]
        ELSE IF c.tow > 0 THEN [w EXCEPT !.car[i].tow = @ - 1]
        ELSE IF does.tow /\ ~c.home THEN [w EXCEPT !.car[i].tow = Hook]
        ELSE [fired EXCEPT !.car[i] = Course(@, does)]

-----------------------------------------------------------------------------
(* What is left behind *)

Reaches(h, c, i) == ~c.wrecked /\ h.owner # i /\ ~c.air /\ c.at = h.at

\* gs_mines: the first car in a mine's reach has it, and it is spent.
Mine(w, m) ==
    LET h == w.hazard[m]
        there == {i \in Racer : Reaches(h, w.car[i], i)}
        i == CHOOSE j \in there : \A k \in there : j <= k
    IN  IF h.kind # "mine" \/ h.spent \/ there = {} THEN w
        ELSE [w EXCEPT !.car[i] = Struck([@ EXCEPT !.air = TRUE], 1),
                       !.hazard[m].spent = TRUE]

\* gs_flames: every car in its reach, every so often.
Flame(w, f) ==
    LET h == w.hazard[f]
    IN  IF h.kind # "flame" \/ h.spent \/ tick % FlameEvery # 0 THEN w
        ELSE [w EXCEPT !.car = [i \in Racer |-> IF Reaches(h, @[i], i) THEN Struck(@[i], 1)
                                               ELSE @[i]]]

\* gs_hazards_age
Age(h) == IF h.spent \/ h.life = 0 THEN h
          ELSE [h EXCEPT !.life = @ - 1, !.spent = h.life = 1]

\* gs_collide: cars in one place, one of them at least no wreck and neither on the hook;
\* one may be in the air and the other not, for what parts them is a height that is left
\* out.  A touch only parts them; a knock may lift those that can move, and cost both.
MayTouch(w, i, j) ==
    /\ w.car[i].tow = 0 /\ w.car[j].tow = 0
    /\ w.car[i].at = w.car[j].at
    /\ ~(w.car[i].wrecked /\ w.car[j].wrecked)

Knocked(c, hit) == IF c.wrecked THEN c ELSE Struck([c EXCEPT !.air = @ \/ hit.lift], hit.blows)

Collide(w, i, j, hit) ==
    IF ~(i < j /\ MayTouch(w, i, j)) THEN w
    ELSE [w EXCEPT !.car[i] = Knocked(@, hit), !.car[j] = Knocked(@, hit)]

-----------------------------------------------------------------------------
(* A tick *)

InOrder == [n \in 1 .. Racers |-> n - 1]
Pairs == [n \in 1 .. Racers * Racers |-> <<(n - 1) \div Racers, (n - 1) % Racers>>]

\* What they may all do at once.
Doing == {does \in [Racer -> UNION {Does[i] : i \in Racer}] : \A i \in Racer : does[i] \in Does[i]}

\* gs_world_step, but for the gates and the finish.
ArmsStep ==
    /\ tick < LastStep
    /\ \E does \in Doing, hit \in Knock :
        /\ \A i \in Racer : MayGo(car[i], does[i])
        /\ LET driven == FoldLeft(LAMBDA w, i : StepCar(w, i, does[i]),
                                  [car |-> car, hazard |-> hazard], InOrder)
               many == [n \in 1 .. Len(driven.hazard) |-> n]
               mined == FoldLeft(Mine, driven, many)
               burnt == FoldLeft(Flame, mined, many)
               aged == [burnt EXCEPT !.hazard = [n \in DOMAIN @ |-> Age(@[n])]]
               struck == FoldLeft(LAMBDA w, p : Collide(w, p[1], p[2], hit), aged, Pairs)
           IN  car' = struck.car /\ hazard' = struck.hazard
    /\ tick' = tick + 1

\* The race is run for one of them: seen by the laps, between two ticks.
GetsHome ==
    /\ \E i \in Racer : ~car[i].home /\ ~car[i].wrecked /\ car' = [car EXCEPT ![i].home = TRUE]
    /\ UNCHANGED <<tick, hazard>>

ArmsNext == ArmsStep \/ GetsHome

ArmsSpec == ArmsInit /\ [][ArmsNext]_armsVars

-----------------------------------------------------------------------------
(* Properties *)

\* "which is what stops a spent weapon staying selected and the button looking armed
\* when it is not": what is selected is something the car has, and nothing is selected
\* only when it has nothing; and what has been left behind was carried.
ArmsAddUp ==
    \A i \in Racer :
        /\ IF car[i].selected = Unarmed THEN \A k \in Armed : car[i].ammo[k] = 0
           ELSE car[i].ammo[car[i].selected] > 0
        /\ \A k \in Armed :
             Cardinality({n \in DOMAIN hazard : hazard[n].owner = i /\ hazard[n].kind = k})
               <= Loadout[k] - car[i].ammo[k]

\* "so a hazard lasts the number of ticks it says it does rather than one fewer on the
\* tick it was dropped"; and whoever leaves one leaves the next a second later.
BurnsItsTime ==
    /\ \A n \in DOMAIN hazard :
         hazard[n].life + (tick - hazard[n].born) >= Lasts[hazard[n].kind]
         /\ (hazard[n].kind # "mine" /\ Lasts[hazard[n].kind] # 0 =>
               (hazard[n].spent <=> tick - hazard[n].born >= Lasts[hazard[n].kind]))
    /\ \A n, m \in DOMAIN hazard :
         n # m /\ hazard[n].owner = hazard[m].owner /\ hazard[n].born >= hazard[m].born
           => hazard[n].born - hazard[m].born >= Cooldown

\* What a car has is what it may use, and what it leaves lasts as long as it says.
ArmsStand == ArmsAddUp /\ BurnsItsTime
=============================================================================
