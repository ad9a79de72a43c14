----------------------------- MODULE GsKitProofs -----------------------------
(***************************************************************************)
(* What one machine is put together from, for any keys, pads, controls,    *)
(* players, names, words and files: the race that is set up (GsGrid), the  *)
(* controls (GsKeys), who is at the keyboard (GsDoor), and the ground that *)
(* is driven on, of any size and shape and with any gates (GsGround).      *)
(***************************************************************************)
EXTENDS GsKeys, GsDoor, GsGrid, GsGround, SequenceTheorems, FiniteSetTheorems,
        WellFoundedInduction, TLAPS

\* The order of the naturals, as a well-founded relation.
LEMMA NatLess ==
  \E R : IsWellFoundedOn(R, Nat) /\ \A x, y \in Nat : y < x => <<y, x>> \in R
<1> DEFINE R == OpToRel(<, Nat)
<1>1. IsWellFoundedOn(R, Nat)
  BY NatLessThanWellFounded, Zenon
<1>2. \A x, y \in Nat : y < x => <<y, x>> \in R
  BY Zenon DEF OpToRel
<1> HIDE DEF R
<1>3. QED
  BY <1>1, <1>2

\* A set of naturals that is not empty has a least element.
LEMMA LeastNat ==
  ASSUME NEW T, T \subseteq Nat, T # {}
  PROVE  \E x \in T : \A y \in T : x <= y
<1>1. PICK R : IsWellFoundedOn(R, Nat) /\ \A x, y \in Nat : y < x => <<y, x>> \in R
  BY NatLess
<1>2. \E x \in T : \A y \in T : ~(<<y, x>> \in R)
  BY <1>1, WFMin
<1>3. PICK x \in T : \A y \in T : ~(<<y, x>> \in R)
  BY <1>2
<1>4. ASSUME NEW y \in T PROVE x <= y
  <2>1. x \in Nat /\ y \in Nat /\ ~(<<y, x>> \in R)
    BY <1>3
  <2>2. ~(y < x)
    BY <1>1, <2>1
  <2> QED
    BY <2>1, <2>2
<1>5. QED
  BY <1>4

\* A square is a whole number, and that of a positive one is positive.
LEMMA Squares ==
  /\ \A x \in Int : x * x \in Int
  /\ \A x \in Nat \ {0} : x * x \in Nat \ {0}
OBVIOUS

\* A product taken by a factor twice, and the square of a product.
LEMMA Products ==
  \A x, y \in Int : (x * y) * y = (y * y) * x /\ (x * y) * (x * y) = (x * x) * (y * y)
<1>1. ASSUME NEW x \in Int, NEW y \in Int PROVE (x * y) * y = (y * y) * x
  OBVIOUS
<1>2. ASSUME NEW x \in Int, NEW y \in Int PROVE (x * y) * (x * y) = (x * x) * (y * y)
  OBVIOUS
<1> QED
  BY <1>1, <1>2, Zenon

-----------------------------------------------------------------------------
(* The race that is set up *)

Dials(d) ==
    /\ d = [players |-> d.players, mode |-> d.mode, laps |-> d.laps, weapons |-> d.weapons,
            ammo |-> d.ammo, gravity |-> d.gravity, computer |-> d.computer,
            profile |-> d.profile, machine |-> d.machine, manual |-> d.manual]
    /\ d.players \in Slot

\* While the dials are as they were when it was built, a race that runs or waits has been
\* driven by those they say; a time is kept with what was carried.
GridStands ==
    /\ Dials(dial)
    /\ world = [built |-> world.built, hands |-> world.hands, cars |-> world.cars,
                over |-> world.over, touched |-> world.touched]
    /\ world.cars \subseteq Slot
    /\ halted \in BOOLEAN /\ (halted => page = "setup")
    /\ (page = "race" \/ halted) /\ ~world.touched =>
          /\ dial = world.built
          /\ \A i \in Slot : world.hands[i] \subseteq {IF dial.computer[i] THEN "game" ELSE "pads"}
    /\ \A f \in times : /\ f.lap \in Times
                        /\ \E g : f.under = Conditions(g, f.carried)
    /\ TimesAreWhoDrove

\* A dial that is turned keeps the setup in order.
LEMMA DialKeeps ==
    ASSUME GridStands, NEW d, Dials(d), DialTo(d)
    PROVE  GridStands'
<1>1. /\ page = "setup" /\ dial' = d /\ world' = [world EXCEPT !.touched = @ \/ halted]
      /\ page' = page /\ halted' = halted /\ times' = times
  BY DEF DialTo
<1>2. PICK w : w = world
  OBVIOUS
<1>3. PICK t : t = (w.touched \/ halted)
  OBVIOUS
<1>4. world' = [built |-> w.built, hands |-> w.hands, cars |-> w.cars, over |-> w.over,
                touched |-> t]
  BY <1>1, <1>2, <1>3 DEF GridStands
<1>5. halted => world'.touched
  BY <1>3, <1>4
<1>6. TimesAreWhoDrove'
  BY <1>1 DEF TimesAreWhoDrove, GridStands
<1> QED
  BY <1>1, <1>2, <1>4, <1>5, <1>6 DEF GridStands, Dials

\* Three of the dials are anything at all.
LEMMA DialParts ==
    ASSUME NEW d, Dials(d)
    PROVE  \A x : /\ Dials([d EXCEPT !.computer = x]) /\ Dials([d EXCEPT !.profile = x])
                  /\ Dials([d EXCEPT !.machine = x])
  BY DEF Dials

\* Every dial leaves the dials what they are.
LEMMA TurnsKeep ==
    ASSUME GridStands, RaceDials \/ WeaponDials \/ \E i \in Slot : SlotDials(i)
    PROVE  GridStands'
<1> PICK d : d = dial
  OBVIOUS
<1>1. /\ d = [players |-> d.players, mode |-> d.mode, laps |-> d.laps, weapons |-> d.weapons,
              ammo |-> d.ammo, gravity |-> d.gravity, computer |-> d.computer,
              profile |-> d.profile, machine |-> d.machine, manual |-> d.manual]
      /\ d.players \in Slot
  BY DEF GridStands, Dials
<1>2. CASE RaceDials
  <2>1. \A m : Dials([d EXCEPT !.mode = m])
    BY <1>1 DEF Dials
  <2>2. \A m : Dials([d EXCEPT !.laps = m])
    BY <1>1 DEF Dials
  <2>3. \A m \in Slot : Dials([d EXCEPT !.players = m])
    BY <1>1 DEF Dials
  <2>4. \A m : Dials([d EXCEPT !.gravity = m])
    BY <1>1 DEF Dials
  <2> QED
    BY <1>2, <2>1, <2>2, <2>3, <2>4, DialKeeps DEF RaceDials
<1>3. CASE WeaponDials
  <2>1. Dials([d EXCEPT !.weapons = ~@])
    BY <1>1 DEF Dials
  <2>2. \A m : Dials([d EXCEPT !.ammo = m])
    BY <1>1 DEF Dials
  <2> QED
    BY <1>3, <2>1, <2>2, DialKeeps DEF WeaponDials
<1>4. ASSUME NEW i \in Slot, SlotDials(i) PROVE GridStands'
  <2>1. Dials([d EXCEPT !.computer[i] = TRUE])
    <3>1. \A c : Dials([d EXCEPT !.computer = c])
      BY <1>1 DEF Dials
    <3> QED
      BY <3>1
  <2>2. Dials([d EXCEPT !.computer[i] = FALSE, !.profile[i] = "guest"])
    <3>0. \A c : Dials([d EXCEPT !.computer = c])
      BY <1>1, DialParts DEF Dials
    <3>1. \A c, p : Dials([[d EXCEPT !.computer = c] EXCEPT !.profile = p])
      BY <3>0, DialParts
    <3> QED
      BY <3>1
  <2>3. \A e : Dials([d EXCEPT !.computer[i] = FALSE, !.profile[i] = e,
                               !.machine[i] = OwnMachine[e]])
    <3>0. \A c : Dials([d EXCEPT !.computer = c])
      BY <1>1, DialParts DEF Dials
    <3>1. \A c, p : Dials([[d EXCEPT !.computer = c] EXCEPT !.profile = p])
      BY <3>0, DialParts
    <3>2. \A c, p, m : Dials([[[d EXCEPT !.computer = c] EXCEPT !.profile = p] EXCEPT !.machine = m])
      BY <3>1, DialParts
    <3> QED
      BY <3>2
  <2>4. \A m : Dials([d EXCEPT !.machine[i] = m])
    BY <1>1 DEF Dials
  <2>5. \A b : Dials([d EXCEPT !.manual[i] = b])
    BY <1>1 DEF Dials
  <2> QED
    BY <1>4, <2>1, <2>2, <2>3, <2>4, <2>5, DialKeeps DEF SlotDials
<1> QED
  BY <1>2, <1>3, <1>4

\* So does every other step.
LEMMA GridStep ==
    ASSUME GridStands, [GridNext]_gridVars
    PROVE  GridStands'
<1>1. CASE RaceDials \/ WeaponDials \/ \E i \in Slot : SlotDials(i)
  BY <1>1, TurnsKeep
<1>2. ASSUME NEW d \in Drivers, SignsIn(d) PROVE GridStands'
  <2>1. PICK e : e = dial
    OBVIOUS
  <2>2. /\ e = [players |-> e.players, mode |-> e.mode, laps |-> e.laps, weapons |-> e.weapons,
                ammo |-> e.ammo, gravity |-> e.gravity, computer |-> e.computer,
                profile |-> e.profile, machine |-> e.machine, manual |-> e.manual]
        /\ e.players \in Slot
    BY <2>1 DEF GridStands, Dials
  <2>3. Dials([e EXCEPT !.profile[1] = d, !.machine[1] = OwnMachine[d]])
    <3>1. \A p : Dials([e EXCEPT !.profile = p])
      BY <2>2, DialParts DEF Dials
    <3>2. \A p, m : Dials([[e EXCEPT !.profile = p] EXCEPT !.machine = m])
      BY <3>1, DialParts
    <3> QED
      BY <3>2
  <2>4. TimesAreWhoDrove'
    BY <1>2 DEF TimesAreWhoDrove, SignsIn, GridStands
  <2>5. Dials(dial')
    BY <1>2, <2>1, <2>3 DEF SignsIn
  <2>6. page = "title" /\ UNCHANGED <<world, page, halted, times>>
    BY <1>2 DEF SignsIn
  <2> QED
    BY <2>4, <2>5, <2>6 DEF GridStands, Dials
<1>3. CASE GoRacing
  <2>1. /\ world' = BuiltFrom(dial) /\ page' = "race" /\ halted' = FALSE
        /\ dial' = dial /\ times' = times
    BY <1>3 DEF GoRacing
  <2>2. TimesAreWhoDrove'
    BY <2>1 DEF TimesAreWhoDrove, GridStands
  <2>3. dial.players \in Nat /\ 1 .. dial.players \subseteq Slot
    BY GridAssumption DEF GridStands, Dials, Slot
  <2>4. /\ world'.built = dial /\ world'.cars = 1 .. dial.players
        /\ \A i \in Slot : world'.hands[i] = {}
        /\ world' = [built |-> world'.built, hands |-> world'.hands, cars |-> world'.cars,
                     over |-> world'.over, touched |-> world'.touched]
    BY <2>1 DEF BuiltFrom
  <2> QED
    BY <2>1, <2>2, <2>3, <2>4 DEF GridStands, Dials
<1>4. CASE GoBack
  <2>1. TimesAreWhoDrove'
    BY <1>4 DEF TimesAreWhoDrove, GoBack, GridStands
  <2>2. /\ page = "setup" /\ halted /\ page' = "race" /\ halted' = FALSE
        /\ UNCHANGED <<dial, world, times>>
    BY <1>4 DEF GoBack
  <2> QED
    BY <2>1, <2>2 DEF GridStands, Dials
<1>5. ASSUME NEW p \in {"setup", "title"}, Elsewhere(p) PROVE GridStands'
  <2>1. TimesAreWhoDrove'
    BY <1>5 DEF TimesAreWhoDrove, Elsewhere, GridStands
  <2>2. /\ page' = p /\ halted' = (p = "setup" /\ page = "race")
        /\ UNCHANGED <<dial, world, times>>
    BY <1>5 DEF Elsewhere
  <2> QED
    BY <2>1, <2>2 DEF GridStands, Dials
<1>6. ASSUME NEW over \in BOOLEAN, DriveOn(over) PROVE GridStands'
  <2>1. PICK w : w = world
    OBVIOUS
  <2>2. PICK h : h = Driven
    OBVIOUS
  <2>3. /\ w = [built |-> w.built, hands |-> w.hands, cars |-> w.cars, over |-> w.over,
                touched |-> w.touched]
        /\ w.cars \subseteq Slot /\ page = "race" /\ ~halted
    BY <1>6, <2>1 DEF GridStands, DriveOn
  <2>4. /\ world' = [built |-> w.built, hands |-> h, cars |-> w.cars, over |-> over,
                     touched |-> w.touched]
        /\ dial' = dial /\ halted' = halted
        /\ page' \in {"race", "results"}
    BY <1>6, <2>1, <2>2, <2>3 DEF DriveOn
  <2>5. ~w.touched => /\ dial = w.built
                      /\ \A i \in Slot : h[i] \subseteq {IF dial.computer[i] THEN "game" ELSE "pads"}
    BY <2>1, <2>2, <2>3 DEF GridStands, Driven
  <2>6. ASSUME NEW lap \in [Slot -> Times], NEW f \in FiledOf(lap, h)
        PROVE  /\ f.lap \in Times
               /\ \E g : f.under = Conditions(g, f.carried)
               /\ ~f.touched => f.hands = {"pads"} /\ f.who = f.seat /\ f.machine = f.drove
    <3>1. PICK i \in w.cars :
            /\ ~dial.computer[i] /\ dial.profile[i] # "guest"
            /\ f = [who |-> dial.profile[i], lap |-> lap[i], machine |-> dial.machine[i],
                    under |-> Conditions(w.built.gravity, Carried(w.built)),
                    seat |-> SeatOf(w.built, i), drove |-> w.built.machine[i], hands |-> h[i],
                    carried |-> Carried(w.built), touched |-> w.touched]
      BY <2>1, <2>6 DEF FiledOf
    <3>2. i \in Slot /\ lap[i] \in Times
      BY <2>3, <3>1
    <3>3. f.under = Conditions(w.built.gravity, f.carried) /\ f.lap \in Times
      BY <3>1, <3>2
    <3>4. ASSUME ~w.touched
          PROVE  h[i] = {"pads"} /\ dial.profile[i] = SeatOf(w.built, i)
                 /\ dial.machine[i] = w.built.machine[i]
      <4>1. h[i] = world.hands[i] \cup {"pads"}
        BY <2>1, <2>2, <3>1, <3>2 DEF Driven
      <4> QED
        BY <2>5, <3>1, <3>2, <3>4, <4>1 DEF SeatOf
    <3> QED
      BY <3>1, <3>3, <3>4
  <2>7. /\ \A f \in times' : /\ f.lap \in Times
                             /\ \E g : f.under = Conditions(g, f.carried)
        /\ TimesAreWhoDrove'
    <3>1. times' = times \/ \E lap \in [Slot -> Times] : times' = times \cup FiledOf(lap, h)
      BY <1>6, <2>2 DEF DriveOn
    <3>2. /\ \A f \in times : /\ f.lap \in Times
                              /\ \E g : f.under = Conditions(g, f.carried)
          /\ \A f \in times : ~f.touched => /\ f.hands = {"pads"}
                                            /\ f.who = f.seat /\ f.machine = f.drove
      BY DEF GridStands, TimesAreWhoDrove
    <3> QED
      BY <2>6, <3>1, <3>2 DEF TimesAreWhoDrove
  <2> QED
    BY <2>3, <2>4, <2>5, <2>7 DEF GridStands, Dials, Conditions
<1>7. CASE UNCHANGED gridVars
  BY <1>7 DEF gridVars, GridStands, Dials, TimesAreWhoDrove
<1> QED
  BY <1>1, <1>2, <1>3, <1>4, <1>5, <1>6, <1>7 DEF GridNext

\* gs_menu_finish puts a time down to whoever drove it, in what they drove, as long as the
\* dials are left as they were; and what there is to beat under clean dials was clean: for
\* any number of cars, drivers, machines and times.
THEOREM TimesAreToldAlways == GridSpec => []TimesAreTold
<1>1. GridInit => GridStands
  <2> SUFFICES ASSUME GridInit PROVE GridStands
    OBVIOUS
  <2>1. Dials(FirstDials)
    BY GridAssumption DEF Dials, FirstDials, Slot
  <2> QED
    BY <2>1 DEF GridInit, GridStands, NoWorld, TimesAreWhoDrove, Dials
<1>2. GridStands /\ [GridNext]_gridVars => GridStands'
  BY GridStep
<1>3. GridStands => TimesAreTold
  <2> SUFFICES ASSUME GridStands, Carried(dial) = 0, ToBeat # 0
               PROVE  \E f \in times : /\ f.lap = ToBeat /\ f.carried = 0
                                       /\ <<"gravity", dial.gravity>> \in f.under
    BY DEF TimesAreTold, CleanToBeat, GridStands
  <2>1. PICK laps : laps = {f.lap : f \in {f \in times : f.under = Conditions(dial.gravity, 0)}}
    OBVIOUS
  <2>2. laps \subseteq Nat
    BY <2>1, GridAssumption DEF GridStands
  <2>3. laps # {} /\ ToBeat = CHOOSE x \in laps : \A y \in laps : x <= y
    BY <2>1 DEF ToBeat
  <2>4. ToBeat \in laps
    BY <2>2, <2>3, LeastNat
  <2>5. PICK f \in times : f.under = Conditions(dial.gravity, 0) /\ f.lap = ToBeat
    BY <2>1, <2>4
  <2>6. f.under = {<<"gravity", dial.gravity>>}
    BY <2>5 DEF Conditions
  <2>7. PICK g : f.under = Conditions(g, f.carried)
    BY DEF GridStands
  <2>8. f.carried = 0
    <3>1. ASSUME f.carried # 0 PROVE FALSE
      <4>1. <<"armed", f.carried>> \in f.under
        BY <2>7, <3>1 DEF Conditions
      <4>2. <<"armed", f.carried>> = <<"gravity", dial.gravity>>
        BY <2>6, <4>1
      <4> QED
        BY <4>2
    <3> QED
      BY <3>1
  <2> QED
    BY <2>5, <2>6, <2>8
<1> QED
  BY <1>1, <1>2, <1>3, PTL DEF GridSpec

-----------------------------------------------------------------------------
(* The keyboard and the controls *)

Bindings(b) ==
    /\ b = [key |-> b.key, button |-> b.button]
    /\ b.key = [p \in Player |-> b.key[p]] /\ b.button = [p \in Player |-> b.button[p]]

Down == UNION {pushed[d] : d \in Pad}

\* Whatever is taken to be down is, or was let go where nobody could see it; and what has
\* been down since a capture began is down, until the moment nothing is.
KeysStand ==
    /\ sdl \subseteq finger /\ (away => sdl = {}) /\ held \subseteq finger \cup missed
    /\ pad \in Seq(Pad) /\ pushed = [d \in Pad |-> pushed[d]]
    /\ \A d \in Pad : pushed[d] # {} => \E n \in DOMAIN pad : pad[n] = d
    /\ stale \subseteq sdl \cup Down
    /\ rebind = [player |-> rebind.player, action |-> rebind.action, armed |-> rebind.armed]
    /\ rebind.armed \in BOOLEAN /\ (rebind.armed => stale = {})
    /\ Bindings(bind)

\* The keyboard, with the window up or away.
LEMMA TypingKeeps ==
    ASSUME KeysStand, Typing \/ Flapping
    PROVE  KeysStand'
<1>1. /\ sdl' \subseteq finger' /\ (away' => sdl' = {}) /\ held' \subseteq finger' \cup missed'
      /\ stale' \subseteq stale /\ stale' \cap (sdl \ sdl') = {}
      /\ UNCHANGED <<pad, pushed, bind, rebind>>
  <2>1. ASSUME NEW k \in Key, Press(k) \/ Release(k) \/ Flaps(k), UNCHANGED <<clockVars, controlVars>>
        PROVE  /\ sdl' \subseteq finger' /\ (away' => sdl' = {}) /\ held' \subseteq finger' \cup missed'
               /\ stale' \subseteq stale /\ stale' \cap (sdl \ sdl') = {}
               /\ UNCHANGED <<pad, pushed, bind, rebind>>
    <3>1. away' = away /\ UNCHANGED <<pad, pushed, bind, rebind>>
      BY <2>1 DEF clockVars, controlVars
    <3>2. sdl \subseteq finger /\ (away => sdl = {}) /\ held \subseteq finger \cup missed
      BY DEF KeysStand
    <3>3. CASE Press(k)
      BY <3>1, <3>2, <3>3 DEF Press, KeyDown
    <3>4. CASE Release(k)
      BY <3>1, <3>2, <3>4 DEF Release, KeyUp
    <3>5. CASE Flaps(k)
      BY <3>1, <3>2, <3>5 DEF Flaps, KeyUp, KeyDown
    <3> QED
      BY <2>1, <3>1, <3>3, <3>4, <3>5
  <2> QED
    BY <2>1 DEF Typing, Flapping
<1>2. Down' = Down
  BY <1>1 DEF Down
<1>3. stale' \subseteq sdl' \cup Down'
  BY <1>1, <1>2 DEF KeysStand
<1> QED
  BY <1>1, <1>3 DEF KeysStand, Bindings

\* Losing the focus and having it back, and a tick read from what is held.
LEMMA WindowKeeps ==
    ASSUME KeysStand, WindowNext
    PROVE  KeysStand'
<1>1. CASE Typing \/ Flapping
  BY <1>1, TypingKeeps
<1>2. CASE FocusLost
  <2>1. /\ away' /\ sdl' = {} /\ stale' = stale \ sdl
        /\ UNCHANGED <<finger, held, missed, pad, pushed, bind, rebind>>
    BY <1>2 DEF FocusLost, controlVars
  <2>2. Down' = Down
    BY <2>1 DEF Down
  <2> QED
    BY <2>1, <2>2 DEF KeysStand, Bindings
<1>3. CASE FocusGained
  <2>1. /\ ~away' /\ held' = StillHeld /\ missed' = (IF Briefly THEN missed ELSE {})
        /\ UNCHANGED <<finger, sdl, pad, pushed, bind, rebind, stale>>
    BY <1>3 DEF FocusGained, controlVars
  <2>2. Down' = Down
    BY <2>1 DEF Down
  <2>3. held' \subseteq finger \cup missed'
    BY <2>1 DEF KeysStand, StillHeld
  <2> QED
    BY <2>1, <2>2, <2>3 DEF KeysStand, Bindings
<1>4. CASE Tick
  <2>1. UNCHANGED <<away, finger, sdl, held, missed, pad, pushed, bind, rebind, stale>>
    BY <1>4 DEF Tick, typedVars, controlVars
  <2>2. Down' = Down
    BY <2>1 DEF Down
  <2> QED
    BY <2>1, <2>2 DEF KeysStand, Bindings
<1> QED
  BY <1>1, <1>2, <1>3, <1>4 DEF WindowNext

\* Closing the gap loses no other pad.
LEMMA GapClosed ==
    ASSUME NEW S, NEW s \in Seq(S), NEW n \in DOMAIN s
    PROVE  /\ RemoveAt(s, n) \in Seq(S)
           /\ \A k \in DOMAIN s : k # n => \E m \in DOMAIN RemoveAt(s, n) : RemoveAt(s, n)[m] = s[k]
<1>1. PICK l \in Nat : l = Len(s) /\ DOMAIN s = 1 .. l
  OBVIOUS
<1>2. PICK a : a = SubSeq(s, 1, n - 1)
  OBVIOUS
<1>3. PICK b : b = SubSeq(s, n + 1, l)
  OBVIOUS
<1>4. /\ a \in Seq(S) /\ Len(a) = n - 1 /\ \A m \in 1 .. n - 1 : a[m] = s[m]
  BY <1>1, <1>2
<1>5. /\ b \in Seq(S) /\ Len(b) = l - n /\ \A m \in 1 .. l - n : b[m] = s[m + n]
  BY <1>1, <1>3
<1>6. PICK c : c = a \o b
  OBVIOUS
<1>7. /\ c \in Seq(S) /\ Len(c) = l - 1 /\ DOMAIN c = 1 .. l - 1
      /\ \A m \in 1 .. l - 1 : c[m] = IF m <= n - 1 THEN a[m] ELSE b[m - (n - 1)]
  <2>1. /\ c \in Seq(S) /\ Len(c) = Len(a) + Len(b)
        /\ \A m \in 1 .. Len(a) + Len(b) : c[m] = IF m <= Len(a) THEN a[m] ELSE b[m - Len(a)]
    <3>1. a \in Seq(S) /\ b \in Seq(S)
      BY <1>4, <1>5
    <3>2. /\ a \o b \in Seq(S)
          /\ Len(a \o b) = Len(a) + Len(b)
          /\ \A i \in 1 .. Len(a) + Len(b) : (a \o b)[i] =
                      IF i <= Len(a) THEN a[i] ELSE b[i - Len(a)]
      BY <3>1, ConcatProperties, Zenon
    <3> QED
      BY <1>6, <3>2
  <2>2. Len(a) + Len(b) = l - 1 /\ Len(a) = n - 1
    <3>1. n \in 1 .. l
      BY <1>1, Zenon
    <3>2. Len(a) = n - 1 /\ Len(b) = l - n
      BY <1>4, <1>5, Zenon
    <3>3. (n - 1) + (l - n) = l - 1
      BY <3>1
    <3> QED
      BY <3>2, <3>3, Zenon
  <2>3. DOMAIN c = 1 .. Len(c)
    BY <2>1
  <2> QED
    BY <2>1, <2>2, <2>3
<1>8. RemoveAt(s, n) = c
  BY <1>1, <1>2, <1>3, <1>6 DEF RemoveAt
<1>9. ASSUME NEW k \in DOMAIN s, k # n
      PROVE  \E m \in DOMAIN c : c[m] = s[k]
  <2>1. CASE k < n
    <3>1. k \in 1 .. l - 1 /\ c[k] = s[k]
      BY <1>1, <1>4, <1>7, <2>1
    <3> QED
      BY <1>7, <3>1
  <2>2. CASE k > n
    <3>1. k - 1 \in 1 .. l - 1 /\ k - 1 - (n - 1) \in 1 .. l - n /\ k - n + n = k
      BY <1>1, <2>2
    <3>2. c[k - 1] = b[k - n]
      BY <1>1, <1>7, <2>2, <3>1
    <3>3. b[k - n] = s[k]
      BY <1>1, <1>5, <2>2, <3>1
    <3> QED
      BY <1>7, <3>1, <3>2, <3>3
  <2> QED
    BY <1>1, <1>9, <2>1, <2>2
<1> QED
  BY <1>7, <1>8, <1>9

\* Pads that come, go and are pressed.
LEMMA PadsKeep ==
    ASSUME KeysStand, UNCHANGED <<clockVars, typedVars>>, NEW d \in Pad,
           \/ Plug(d) \/ Unplug(d)
           \/ \E b \in Button : Push(d, b) \/ LetGo(d, b)
    PROVE  KeysStand'
<1>1. UNCHANGED <<away, finger, sdl, held, missed, bind, rebind>>
  BY DEF clockVars, typedVars, Plug, Unplug, Push, LetGo
<1>2. CASE Plug(d)
  <2>1. pad' = Append(pad, d) /\ pushed' = pushed /\ stale' = stale
    BY <1>2 DEF Plug
  <2>2. PICK l \in Nat : l = Len(pad) /\ DOMAIN pad = 1 .. l
    BY DEF KeysStand
  <2>3. pad' \in Seq(Pad) /\ DOMAIN pad' = 1 .. l + 1 /\ \A n \in 1 .. l : pad'[n] = pad[n]
    BY <2>1, <2>2 DEF KeysStand
  <2>4. Down' = Down
    BY <2>1 DEF Down
  <2>5. \A e \in Pad : pushed'[e] # {} => \E n \in DOMAIN pad' : pad'[n] = e
    BY <2>1, <2>2, <2>3 DEF KeysStand
  <2> QED
    BY <1>1, <2>1, <2>3, <2>4, <2>5 DEF KeysStand, Bindings
<1>3. CASE Unplug(d)
  <2>1. PICK n \in DOMAIN pad : pad[n] = d /\ pad' = RemoveAt(pad, n)
    BY <1>3 DEF Unplug
  <2>2. pushed' = [pushed EXCEPT ![d] = {}] /\ stale' = stale \ pushed[d]
    BY <1>3 DEF Unplug
  <2>3. pad' \in Seq(Pad) /\ \A k \in DOMAIN pad : k # n => \E m \in DOMAIN pad' : pad'[m] = pad[k]
    BY <2>1, GapClosed DEF KeysStand
  <2>4. /\ pushed' = [e \in Pad |-> pushed'[e]]
        /\ pushed'[d] = {} /\ \A e \in Pad \ {d} : pushed'[e] = pushed[e]
    BY <2>2 DEF KeysStand
  <2>5. \A e \in Pad : pushed'[e] # {} => \E m \in DOMAIN pad' : pad'[m] = e
    BY <2>1, <2>3, <2>4, SMTT(40) DEF KeysStand
  <2>6. Down \ pushed[d] \subseteq Down'
    BY <2>4 DEF Down
  <2>7. stale' \subseteq sdl' \cup Down'
    BY <1>1, <2>2, <2>6 DEF KeysStand
  <2> QED
    BY <1>1, <2>2, <2>3, <2>4, <2>5, <2>7 DEF KeysStand, Bindings
<1>4. ASSUME NEW b \in Button, Push(d, b) PROVE KeysStand'
  <2>1. /\ pushed' = [pushed EXCEPT ![d] = @ \cup {b}] /\ stale' = stale /\ pad' = pad
        /\ \E n \in DOMAIN pad : pad[n] = d
    BY <1>4 DEF Push, ToSet
  <2>2. /\ pushed' = [e \in Pad |-> pushed'[e]]
        /\ pushed'[d] = pushed[d] \cup {b} /\ \A e \in Pad \ {d} : pushed'[e] = pushed[e]
    BY <2>1 DEF KeysStand
  <2>3. Down \subseteq Down'
    BY <2>2 DEF Down
  <2>4. \A e \in Pad : pushed'[e] # {} => \E n \in DOMAIN pad' : pad'[n] = e
    BY <2>1, <2>2 DEF KeysStand
  <2> QED
    BY <1>1, <2>1, <2>2, <2>3, <2>4 DEF KeysStand, Bindings
<1>5. ASSUME NEW b \in Button, LetGo(d, b) PROVE KeysStand'
  <2>1. /\ pushed' = [pushed EXCEPT ![d] = @ \ {b}] /\ stale' = stale \ {b} /\ pad' = pad
        /\ b \in pushed[d]
    BY <1>5 DEF LetGo
  <2>2. /\ pushed' = [e \in Pad |-> pushed'[e]]
        /\ pushed'[d] = pushed[d] \ {b} /\ \A e \in Pad \ {d} : pushed'[e] = pushed[e]
    BY <2>1 DEF KeysStand
  <2>3. Down \ {b} \subseteq Down'
    BY <2>2 DEF Down
  <2>4. \A e \in Pad : pushed'[e] # {} => \E n \in DOMAIN pad' : pad'[n] = e
    BY <2>1, <2>2 DEF KeysStand
  <2>5. stale' \subseteq sdl' \cup Down'
    BY <1>1, <2>1, <2>3 DEF KeysStand
  <2> QED
    BY <1>1, <2>1, <2>2, <2>4, <2>5 DEF KeysStand, Bindings
<1> QED
  BY <1>2, <1>3, <1>4, <1>5

\* A control given to one thing is taken from whatever else of that player's had it.
LEMMA PointsOnce ==
    ASSUME NEW of, of = [p \in Player |-> of[p]], NEW p, NEW a, NEW c
    PROVE  /\ Point(of, p, a, c) = [q \in Player |-> Point(of, p, a, c)[q]]
           /\ \A q \in Player, b \in Action :
                Point(of, p, a, c)[q][b] \notin {of[q][b], Unset} =>
                  \A e \in Action \ {b} : Point(of, p, a, c)[q][e] # Point(of, p, a, c)[q][b]
<1>1. PICK f : f = [b \in Action |-> IF b = a THEN c ELSE IF of[p][b] = c THEN Unset ELSE of[p][b]]
  OBVIOUS
<1>2. PICK g : g = Point(of, p, a, c)
  OBVIOUS
<1>3. g = [of EXCEPT ![p] = f]
  BY <1>1, <1>2 DEF Point
<1>4. /\ g = [q \in Player |-> g[q]]
      /\ \A q \in Player : g[q] = IF q = p THEN f ELSE of[q]
  BY <1>3
<1>5. ASSUME NEW q \in Player, NEW b \in Action, g[q][b] \notin {of[q][b], Unset}, NEW e \in Action \ {b}
      PROVE  g[q][e] # g[q][b]
  <2>1. q = p /\ g[q] = f
    BY <1>4, <1>5
  <2>2. b = a /\ f[b] = c /\ c # Unset
    BY <1>1, <1>5, <2>1
  <2>3. f[e] # c
    BY <1>1, <1>5, <2>2
  <2> QED
    BY <2>1, <2>2, <2>3
<1> QED
  BY <1>2, <1>4, <1>5

\* A control takes what was pressed for it and no other control keeps it.
LEMMA CaptureKeeps ==
    ASSUME KeysStand, Capture
    PROVE  /\ UNCHANGED <<away, finger, sdl, held, missed>> => KeysStand'
           /\ \A p \in Player, a \in Action :
                Becomes(bind.key, bind'.key, p, a) /\ Becomes(bind.button, bind'.button, p, a)
<1> PICK what : what = Pick(rebind.armed, sdl, Buttons)
  OBVIOUS
<1> PICK r : r = rebind
  OBVIOUS
<1> PICK b : b = bind
  OBVIOUS
<1>1. /\ what # "wait"
      /\ rebind' = IF what = "arm" THEN [r EXCEPT !.armed = TRUE] ELSE Idle
      /\ bind' = CASE what = "key" -> [b EXCEPT !.key = Point(@, r.player, r.action, Lowest(sdl))]
                   [] what = "button" -> [b EXCEPT !.button = Point(@, r.player, r.action, Lowest(Buttons))]
                   [] OTHER -> b
      /\ stale' = IF what = "arm" THEN stale ELSE {}
      /\ UNCHANGED <<pad, pushed>>
  BY DEF Capture
<1>2. /\ what = "arm" => sdl \cup Buttons = {}
      /\ what \in {"key", "button"} => r.armed
  BY DEF Pick
<1>3. Down \subseteq Buttons
  BY DEF KeysStand, Down, Buttons
<1>4. what \in {"key", "button"} => stale = {}
  BY <1>2 DEF KeysStand
<1>5. what = "arm" => stale = {}
  BY <1>2, <1>3 DEF KeysStand
<1>6. PICK k : k = Point(b.key, r.player, r.action, Lowest(sdl))
  OBVIOUS
<1>7. PICK u : u = Point(b.button, r.player, r.action, Lowest(Buttons))
  OBVIOUS
<1>8. /\ b = [key |-> b.key, button |-> b.button]
      /\ b.key = [p \in Player |-> b.key[p]] /\ b.button = [p \in Player |-> b.button[p]]
  BY DEF KeysStand, Bindings
<1>9. /\ k = [p \in Player |-> k[p]]
      /\ \A q \in Player, e \in Action : k[q][e] \notin {b.key[q][e], Unset} =>
            \A f \in Action \ {e} : k[q][f] # k[q][e]
  BY <1>6, <1>8, PointsOnce
<1>10. /\ u = [p \in Player |-> u[p]]
       /\ \A q \in Player, e \in Action : u[q][e] \notin {b.button[q][e], Unset} =>
            \A f \in Action \ {e} : u[q][f] # u[q][e]
  BY <1>7, <1>8, PointsOnce
<1>11. /\ what = "key" => bind' = [key |-> k, button |-> b.button]
       /\ what = "button" => bind' = [key |-> b.key, button |-> u]
       /\ what \notin {"key", "button"} => bind' = b
  BY <1>1, <1>6, <1>7, <1>8
<1>12. ASSUME NEW p \in Player, NEW a \in Action
       PROVE  Becomes(bind.key, bind'.key, p, a) /\ Becomes(bind.button, bind'.button, p, a)
  <2>1. CASE what = "key"
    BY <1>4, <1>9, <1>11, <2>1 DEF Becomes
  <2>2. CASE what = "button"
    BY <1>4, <1>10, <1>11, <2>2 DEF Becomes
  <2>3. CASE what \notin {"key", "button"}
    BY <1>11, <2>3 DEF Becomes
  <2> QED
    BY <2>1, <2>2, <2>3
<1>13. ASSUME UNCHANGED <<away, finger, sdl, held, missed>>
       PROVE  KeysStand'
  <2>1. stale' = {}
    BY <1>1, <1>5
  <2>2. Bindings(bind')
    BY <1>8, <1>9, <1>10, <1>11 DEF Bindings
  <2>3. rebind' = [player |-> rebind'.player, action |-> rebind'.action, armed |-> rebind'.armed]
        /\ rebind'.armed \in BOOLEAN
    <3>1. r = [player |-> r.player, action |-> r.action, armed |-> r.armed]
      BY DEF KeysStand
    <3>2. CASE what = "arm"
      <4>1. rebind' = [player |-> r.player, action |-> r.action, armed |-> TRUE]
        BY <1>1, <3>1, <3>2
      <4> QED
        BY <4>1
    <3>3. CASE what # "arm"
      BY <1>1, <3>3 DEF Idle
    <3> QED
      BY <3>2, <3>3
  <2> QED
    BY <1>1, <1>13, <2>1, <2>2, <2>3 DEF KeysStand, Bindings
<1> QED
  BY <1>12, <1>13

\* Everything done to the controls.
LEMMA ControlKeeps ==
    ASSUME KeysStand, ControlNext
    PROVE  KeysStand'
<1>1. CASE Typing
  BY <1>1, TypingKeeps
<1> SUFFICES ASSUME UNCHANGED <<clockVars, typedVars>>,
                    \/ \E d \in Pad : \/ Plug(d) \/ Unplug(d)
                                      \/ \E b \in Button : Push(d, b) \/ LetGo(d, b)
                    \/ \E p \in Player, a \in Action : Begin(p, a)
                    \/ Capture \/ Save \/ PutBack \/ StartAgain
             PROVE  KeysStand'
  BY <1>1 DEF ControlNext
<1>2. UNCHANGED <<away, finger, sdl, held, missed>>
  BY DEF clockVars, typedVars
<1>3. ASSUME NEW p \in Player, NEW a \in Action, Begin(p, a) PROVE KeysStand'
  <2>1. /\ rebind' = [player |-> p, action |-> a, armed |-> FALSE] /\ stale' = sdl \cup Buttons
        /\ UNCHANGED <<pad, pushed, bind>>
    BY <1>3 DEF Begin
  <2>2. Buttons \subseteq Down /\ Down' = Down
    BY <2>1 DEF KeysStand, Buttons, Down
  <2>3. /\ rebind' = [player |-> rebind'.player, action |-> rebind'.action, armed |-> rebind'.armed]
        /\ ~rebind'.armed /\ rebind'.armed \in BOOLEAN
    BY <2>1
  <2> QED
    BY <1>2, <2>1, <2>2, <2>3 DEF KeysStand, Bindings
<1>4. CASE Capture
  BY <1>2, <1>4, CaptureKeeps
<1>5. Down' = Down \/ ~(Save \/ PutBack \/ StartAgain)
  BY DEF Down, Save, PutBack, StartAgain
<1>6. CASE Save
  BY <1>2, <1>5, <1>6 DEF Save, KeysStand, Bindings
<1>7. CASE PutBack
  <2>1. Bindings(bind')
    <3>1. PICK d : d = Defaults
      OBVIOUS
    <3>2. d \in [key : [Player -> [Action -> Nat]], button : [Player -> [Action -> Nat]]]
      BY <3>1, KeysAssumption, Zenon
    <3>3. d = [key |-> d.key, button |-> d.button]
          /\ d.key \in [Player -> [Action -> Nat]] /\ d.button \in [Player -> [Action -> Nat]]
      BY <3>2
    <3>4. Bindings(d)
      BY <3>3 DEF Bindings
    <3> QED
      BY <1>7, <3>1, <3>4 DEF PutBack
  <2> QED
    BY <1>2, <1>5, <1>7, <2>1 DEF PutBack, KeysStand, Bindings
<1>8. CASE StartAgain
  <2>1. Bindings(bind')
    BY <1>8 DEF StartAgain, Deserialize, Bindings
  <2>2. rebind' = [player |-> rebind'.player, action |-> rebind'.action, armed |-> rebind'.armed]
        /\ rebind'.armed \in BOOLEAN
    BY <1>8 DEF StartAgain, Idle
  <2> QED
    BY <1>2, <1>8, <2>1, <2>2 DEF StartAgain, KeysStand, Bindings
<1> QED
  BY <1>3, <1>4, <1>6, <1>7, <1>8, PadsKeep

\* gs_input.c and gs_bind.c, for any keys, pads, players and controls: nobody's car is
\* driven by a key nobody holds, and a control is set by what was pressed for it.
THEOREM KeysAlwaysAnswer == KeysSpec => KeysAnswer
<1>1. KeysInit => KeysStand
  <2> SUFFICES ASSUME KeysInit PROVE KeysStand
    OBVIOUS
  <2>1. pad \in Seq(Pad) /\ pushed = [d \in Pad |-> {}]
    <3>1. pad = <<>> \/ \E d \in Pad : pad = <<d>>
      BY DEF KeysInit
    <3>2. << >> \in Seq(Pad) /\ \A d \in Pad : <<d>> \in Seq(Pad)
      OBVIOUS
    <3>3. pushed = [d \in Pad |-> {}]
      BY DEF KeysInit
    <3> QED
      BY <3>1, <3>2, <3>3, Zenon
  <2>2. Bindings(bind)
    BY DEF KeysInit, Deserialize, Bindings
  <2>3. rebind = [player |-> rebind.player, action |-> rebind.action, armed |-> rebind.armed]
        /\ rebind.armed \in BOOLEAN
    BY DEF KeysInit, Idle
  <2> QED
    BY <2>1, <2>2, <2>3 DEF KeysInit, KeysStand
<1>2. KeysStand /\ [WindowNext \/ ControlNext]_keysVars => KeysStand'
  <2>1. ASSUME KeysStand, UNCHANGED keysVars PROVE KeysStand'
    BY <2>1 DEF keysVars, clockVars, typedVars, controlVars, KeysStand, Bindings, Down
  <2> QED
    BY <2>1, WindowKeeps, ControlKeeps
<1>3. KeysStand => NoPhantomKey
  <2> SUFFICES ASSUME KeysStand, ~away, NEW i \in Player, NEW a \in Polled(i)
               PROVE  \/ i < Len(pad) /\ bind.button[i][a] \in pushed[pad[i + 1]]
                      \/ LET k == bind.key[i][a] IN k \in finger \/ Graced(k) \/ k \in missed
    BY DEF NoPhantomKey
  <2>1. CASE i < Len(pad) /\ a \in Resolve(i, {}, pushed[pad[i + 1]])
    BY <2>1 DEF Resolve
  <2>2. CASE a \in Resolve(i, Effective, {})
    <3>1. bind.key[i][a] \in Effective
      BY <2>2 DEF Resolve
    <3> QED
      BY <3>1 DEF Effective, Shielded, KeysStand
  <2> QED
    BY <2>1, <2>2 DEF Polled
<1>4. KeysStand /\ [WindowNext \/ ControlNext]_keysVars
        => [Capture => \A p \in Player, a \in Action :
              Becomes(bind.key, bind'.key, p, a) /\ Becomes(bind.button, bind'.button, p, a)]_keysVars
  BY CaptureKeeps
<1> QED
  BY <1>1, <1>2, <1>3, <1>4, PTL DEF KeysSpec, KeysAnswer, BoundAfresh

-----------------------------------------------------------------------------
(* Who is at the keyboard *)

Driver == [name : Name \cup {""}, lock : Word \cup {""}, phone : BOOLEAN, made : BOOLEAN]

NamesApart(r) == \A i, j \in DOMAIN r : r[i].name = r[j].name => i = j

Boxes(b) ==
    /\ b = [x \in Box |-> b[x]] /\ b["who"] \in Name \cup {""} /\ b["fresh"] \in Name \cup {""}
    /\ b["pass"] \in Word \cup {""} /\ b["again"] \in Word \cup {""}

\* Behind the door somebody of the roster is signed in, before it nobody; and a password is
\* only chosen for who has none.
DoorStands ==
    /\ roster \in Seq(Driver) /\ NamesApart(roster)
    /\ \A i \in DOMAIN roster : roster[i].lock = "" => ~roster[i].made /\ ~roster[i].phone
    /\ Boxes(box)
    /\ driving \in DOMAIN roster \cup {0} /\ (driving = 0 <=> shown = "login")
    /\ form = "setting" =>
          shown = "login" /\ Find(box.who) # 0 /\ roster[Find(box.who)].lock = ""

\* A name is of one driver, or of nobody.
LEMMA FindsOne ==
    ASSUME roster \in Seq(Driver), NamesApart(roster)
    PROVE  /\ \A i \in DOMAIN roster : Find(roster[i].name) = i
           /\ \A n : Find(n) # 0 => Find(n) \in DOMAIN roster /\ roster[Find(n)].name = n
           /\ \A n : Find(n) = 0 => \A i \in DOMAIN roster : roster[i].name # n
<1>0. PICK l \in Nat : DOMAIN roster = 1 .. l
  OBVIOUS
<1>1. ASSUME NEW n, NEW i \in DOMAIN roster, roster[i].name = n
      PROVE  Find(n) = i
  <2>1. Called(n) = {i}
    BY <1>1 DEF Called, NamesApart
  <2>2. i <= i
    BY <1>0
  <2>3. (CHOOSE k \in {i} : \A j \in {i} : k <= j) = i
    BY <2>2
  <2> QED
    BY <2>1, <2>3 DEF Find
<1>2. ASSUME NEW n
      PROVE  Called(n) = {} => Find(n) = 0
  BY DEF Find
<1>3. ASSUME NEW n, Called(n) # {}
      PROVE  \E i \in DOMAIN roster : roster[i].name = n /\ Find(n) = i
  BY <1>1, <1>3 DEF Called
<1>4. \A i \in DOMAIN roster : i # 0
  BY <1>0
<1> QED
  BY <1>1, <1>2, <1>3, <1>4 DEF Called

\* What becomes of the roster when somebody gets a lock.
LEMMA LocksOne ==
    ASSUME DoorStands, NEW i \in DOMAIN roster, box.pass # ""
    PROVE  /\ Locked(i) \in Seq(Driver) /\ DOMAIN Locked(i) = DOMAIN roster
           /\ Locked(i)[i].lock = box.pass /\ Locked(i)[i].phone = roster[i].phone
           /\ \A j \in DOMAIN roster : Locked(i)[j].name = roster[j].name
                                       /\ Locked(i)[j].made = roster[j].made
           /\ \A j \in DOMAIN roster \ {i} : Locked(i)[j] = roster[j]
<1>1. PICK d : d = roster[i]
  OBVIOUS
<1>2. PICK e : e = [d EXCEPT !.lock = box.pass]
  OBVIOUS
<1>0. roster \in Seq(Driver) /\ DOMAIN roster = 1 .. Len(roster)
  BY LenProperties DEF DoorStands
<1>3. d \in Driver
  BY <1>0, <1>1, ElementOfSeq
<1>4. e = [name |-> d.name, lock |-> box.pass, phone |-> d.phone, made |-> d.made]
  BY <1>2, <1>3 DEF Driver
<1>5. e \in Driver
  BY <1>3, <1>4 DEF Driver, DoorStands, Boxes
<1>6. Locked(i) = [roster EXCEPT ![i] = e]
  BY <1>1, <1>2 DEF Locked
<1>7. /\ Locked(i) \in Seq(Driver) /\ DOMAIN Locked(i) = DOMAIN roster
      /\ Locked(i)[i] = e /\ \A j \in DOMAIN roster \ {i} : Locked(i)[j] = roster[j]
  <2>1. Locked(i) \in Seq(Driver) /\ Len(Locked(i)) = Len(roster)
    <3>1. i \in 1 .. Len(roster)
      BY <1>0
    <3>2. /\ [roster EXCEPT ![i] = e] \in Seq(Driver)
          /\ Len([roster EXCEPT ![i] = e]) = Len(roster)
      BY <1>0, <1>5, <3>1, ExceptSeq, Zenon
    <3> QED
      BY <1>6, <3>2
  <2>2. DOMAIN Locked(i) = 1 .. Len(Locked(i))
    BY <2>1, LenProperties
  <2>3. Locked(i)[i] = e /\ \A j \in DOMAIN roster \ {i} : Locked(i)[j] = roster[j]
    BY <1>0, <1>6
  <2> QED
    BY <1>0, <2>1, <2>2, <2>3
<1>8. PICK r : r = Locked(i)
  OBVIOUS
<1>9. /\ r[i] = e /\ \A j \in DOMAIN roster \ {i} : r[j] = roster[j]
      /\ e.name = d.name /\ e.lock = box.pass /\ e.phone = d.phone /\ e.made = d.made
  <2>1. e.name = d.name /\ e.lock = box.pass /\ e.phone = d.phone /\ e.made = d.made
    BY <1>4
  <2> QED
    BY <1>7, <1>8, <2>1, Zenon
<1>10. \A j \in DOMAIN roster : r[j].name = roster[j].name /\ r[j].made = roster[j].made
  BY <1>1, <1>9
<1> QED
  BY <1>1, <1>7, <1>8, <1>9, <1>10

\* What a box may be set to.
LEMMA BoxSet ==
    ASSUME NEW b, Boxes(b), NEW x \in Box, NEW w,
           x \in {"who", "fresh"} => w \in Name \cup {""},
           x \in {"pass", "again"} => w \in Word \cup {""}
    PROVE  /\ Boxes([b EXCEPT ![x] = w]) /\ [b EXCEPT ![x] = w][x] = w
           /\ \A y \in Box \ {x} : [b EXCEPT ![x] = w][y] = b[y]
  BY DEF Boxes, Box

\* Forgetting what was typed leaves the names.
LEMMA Forgets ==
    ASSUME Boxes(box)
    PROVE  /\ Boxes(Forgotten) /\ Forgotten.who = box.who /\ Forgotten.fresh = box.fresh
           /\ \A w \in Name \cup {""} : /\ Boxes([Forgotten EXCEPT !.fresh = w])
                                        /\ [Forgotten EXCEPT !.fresh = w].who = box.who
<1>1. PICK c : c = [box EXCEPT !["pass"] = ""]
  OBVIOUS
<1>2. PICK d : d = [c EXCEPT !["again"] = ""]
  OBVIOUS
<1>3. PICK e : e = [d EXCEPT !["code"] = ""]
  OBVIOUS
<1>4. Boxes(c) /\ c["who"] = box["who"] /\ c["fresh"] = box["fresh"]
  BY <1>1 DEF Boxes, Box
<1>5. Boxes(d) /\ d["who"] = box["who"] /\ d["fresh"] = box["fresh"]
  BY <1>2, <1>4 DEF Boxes, Box
<1>6. Boxes(e) /\ e["who"] = box["who"] /\ e["fresh"] = box["fresh"]
  BY <1>3, <1>5 DEF Boxes, Box
<1>7. Forgotten = e
  BY <1>1, <1>2, <1>3 DEF Forgotten
<1>8. ASSUME NEW w \in Name \cup {""}
      PROVE  Boxes([e EXCEPT !["fresh"] = w]) /\ [e EXCEPT !["fresh"] = w]["who"] = box["who"]
  BY <1>6 DEF Boxes, Box
<1> QED
  BY <1>6, <1>7, <1>8

\* A password there is changes only while its driver is signed in, and whoever comes in
\* has given it.
IsOnesOwn ==
    /\ driving' \notin {driving, 0} => roster'[driving'].lock = box.pass /\ box.pass # ""
    /\ \A i \in DOMAIN roster : roster[i].lock \notin {"", roster'[i].lock} => driving = i

\* Whoever gets in gave the password of whom they come in as; whoever has none is sent to
\* choose one.
LEMMA SignInStands ==
    ASSUME DoorStands, SignIn
    PROVE  DoorStands' /\ IsOnesOwn
<1> PICK a : a = Attempt(box.who, box.pass, box.code)
  OBVIOUS
<1> PICK i : i = Find(box.who)
  OBVIOUS
<1>1. /\ shown = "login" /\ form = "signing" /\ driving = 0 /\ roster' = roster
      /\ form' = a.form
      /\ IF a.ok THEN Enter(i) ELSE box' = Forgotten /\ UNCHANGED <<driving, shown, pending>>
  BY DEF SignIn, AtDoor, DoorStands
<1>2. roster \in Seq(Driver) /\ NamesApart(roster) /\ Boxes(box)
  BY DEF DoorStands
<1>3. /\ i # 0 => i \in DOMAIN roster
      /\ 0 \notin DOMAIN roster
  BY <1>2, FindsOne
<1>4. /\ a.ok => i # 0 /\ roster[i].lock # "" /\ roster[i].lock = box.pass
      /\ a.form = "setting" => ~a.ok /\ i # 0 /\ roster[i].lock = ""
  <2>1. CASE i = 0
    <3>1. a = Refuse
      BY <2>1 DEF Attempt
    <3>2. Refuse.form = "signing" /\ Refuse.ok = FALSE
      BY DEF Refuse, Answer
    <3> QED
      BY <3>1, <3>2
  <2>2. CASE i # 0 /\ roster[i].lock = ""
    <3>1. PICK e : e = Answer("choose one", FALSE)
      OBVIOUS
    <3>2. a = [e EXCEPT !.form = "setting"]
      BY <2>2, <3>1 DEF Attempt
    <3>3. a.form = "setting" /\ a.ok = FALSE
      BY <3>1, <3>2 DEF Answer
    <3> QED
      BY <2>2, <3>3
  <2>3. CASE i # 0 /\ roster[i].lock # "" /\ Opens(roster[i], box.pass, box.code)
    BY <2>3 DEF Attempt, Answer, Opens
  <2>4. CASE i # 0 /\ roster[i].lock # "" /\ ~Opens(roster[i], box.pass, box.code)
    <3>1. \/ a = Refuse
          \/ \E t : a = [Answer(t, FALSE) EXCEPT !.wants = TRUE]
      BY <2>4 DEF Attempt
    <3>2. Refuse.form = "signing" /\ Refuse.ok = FALSE
      BY DEF Answer, Refuse
    <3>3. ASSUME NEW t, a = [Answer(t, FALSE) EXCEPT !.wants = TRUE]
          PROVE  a.form = "signing" /\ a.ok = FALSE
      BY <3>3 DEF Answer
    <3> QED
      BY <2>4, <3>1, <3>2, <3>3
  <2> QED
    BY <2>1, <2>2, <2>3, <2>4
<1>5. box' = Forgotten
  BY <1>1 DEF Enter
<1>6. Boxes(box') /\ box'.who = box.who
  BY <1>2, <1>5, Forgets
<1>7. CASE a.ok
  <2>1. driving' = i /\ shown' = "title" /\ form' # "setting"
    BY <1>1, <1>4, <1>7 DEF Enter
  <2> QED
    BY <1>1, <1>2, <1>3, <1>4, <1>6, <1>7, <2>1 DEF DoorStands, IsOnesOwn, NamesApart
<1>8. CASE ~a.ok
  <2>1. driving' = driving /\ shown' = shown
    BY <1>1, <1>8
  <2>2. Find(box.who)' = i
    BY <1>1, <1>6 DEF Find, Called
  <2>3. form' = "setting" => i # 0 /\ roster[i].lock = ""
    BY <1>1, <1>4
  <2> QED
    BY <1>1, <1>2, <1>6, <2>1, <2>2, <2>3 DEF DoorStands, IsOnesOwn, NamesApart
<1> QED
  BY <1>7, <1>8

\* A password is chosen once, and opens at once what it locks.
LEMMA SetItStands ==
    ASSUME DoorStands, NEW hashes \in BOOLEAN, SetIt(hashes)
    PROVE  DoorStands' /\ IsOnesOwn
<1> PICK i : i = Find(box.who)
  OBVIOUS
<1> PICK p : p = SetPassword(i, hashes)
  OBVIOUS
<1>1. /\ shown = "login" /\ form = "setting" /\ driving = 0
      /\ p # "" => UNCHANGED <<roster, driving, shown, box, form>>
      /\ p = "" =>
           /\ roster' = Locked(i)
           /\ \/ Opens(roster'[i], box.pass, "") /\ Enter(i) /\ form' = "signing"
              \/ box' = Forgotten /\ UNCHANGED <<driving, shown, form>>
                 /\ ~Opens(roster'[i], box.pass, "")
  BY DEF SetIt, AtDoor, DoorStands
<1>2. /\ roster \in Seq(Driver) /\ NamesApart(roster) /\ Boxes(box)
      /\ i # 0 /\ roster[i].lock = ""
  BY <1>1 DEF DoorStands
<1>3. i \in DOMAIN roster /\ roster[i].name = box.who
  BY <1>2, FindsOne
<1>4. CASE p # ""
  <2>1. UNCHANGED <<roster, driving, shown, box, form>>
    BY <1>1, <1>4
  <2> QED
    BY <2>1, ZenonT(60) DEF DoorStands, IsOnesOwn, NamesApart, Boxes, Find, Called
<1>5. CASE p = ""
  <2>1. box.pass # ""
    BY <1>2, <1>5 DEF SetPassword
  <2>2. /\ roster' = Locked(i)
        /\ roster' \in Seq(Driver) /\ DOMAIN roster' = DOMAIN roster
        /\ roster'[i].lock = box.pass
        /\ \A j \in DOMAIN roster : roster'[j].name = roster[j].name /\ roster'[j].made = roster[j].made
        /\ \A j \in DOMAIN roster \ {i} : roster'[j] = roster[j]
    <3>1. PICK r : r = Locked(i)
      OBVIOUS
    <3>2. /\ r \in Seq(Driver) /\ DOMAIN r = DOMAIN roster /\ r[i].lock = box.pass
          /\ \A j \in DOMAIN roster : r[j].name = roster[j].name /\ r[j].made = roster[j].made
          /\ \A j \in DOMAIN roster \ {i} : r[j] = roster[j]
      BY <1>3, <2>1, <3>1, LocksOne
    <3>3. roster' = r
      BY <1>1, <1>5, <3>1
    <3> QED
      BY <3>1, <3>2, <3>3
  <2>3. NamesApart(roster')
    <3>1. PICK r : r = roster'
      OBVIOUS
    <3>2. DOMAIN r = DOMAIN roster /\ \A j \in DOMAIN roster : r[j].name = roster[j].name
      BY <2>2, <3>1
    <3>3. NamesApart(r)
      BY <1>2, <3>2 DEF NamesApart
    <3> QED
      BY <3>1, <3>3
  <2>9. /\ ~roster[i].phone
        /\ \A j \in DOMAIN roster' : roster'[j].lock = "" => ~roster'[j].made /\ ~roster'[j].phone
    <3>1. \A j \in DOMAIN roster : roster[j].lock = "" => ~roster[j].made /\ ~roster[j].phone
      BY DEF DoorStands
    <3>2. PICK r : r = roster'
      OBVIOUS
    <3>3. /\ DOMAIN r = DOMAIN roster /\ r[i].lock # ""
          /\ \A j \in DOMAIN roster \ {i} : r[j] = roster[j]
      BY <2>1, <2>2, <3>2
    <3>4. ~roster[i].phone
      BY <1>2, <1>3, <3>1
    <3>5. \A j \in DOMAIN r : r[j].lock = "" => ~r[j].made /\ ~r[j].phone
      BY <3>1, <3>3
    <3> QED
      BY <3>2, <3>4, <3>5
  <2>4. box' = Forgotten
    BY <1>1, <1>5 DEF Enter
  <2>5. Boxes(box')
    BY <1>2, <2>4, Forgets
  <2>6. \A j \in DOMAIN roster : roster[j].lock \in {"", roster'[j].lock}
    BY <1>2, <2>2
  <2>7. CASE Enter(i) /\ form' = "signing"
    <3>1. driving' = i /\ shown' = "title"
      BY <2>7 DEF Enter
    <3>2. 0 \notin DOMAIN roster
      <4>1. DOMAIN roster = 1 .. Len(roster) /\ Len(roster) \in Nat
        BY <1>2, LenProperties
      <4> QED
        BY <4>1
    <3> QED
      BY <1>1, <1>3, <2>1, <2>2, <2>3, <2>5, <2>6, <2>7, <2>9, <3>1, <3>2 DEF DoorStands, IsOnesOwn
  <2>8. Opens(roster'[i], box.pass, "")
    BY <2>1, <2>2, <2>9, <1>3, LocksOne DEF Opens
  <2> QED
    BY <1>1, <1>5, <2>7, <2>8
<1> QED
  BY <1>4, <1>5

\* What leaves the roster alone and lets nobody in.
LEMMA StandsBy ==
    ASSUME DoorStands, roster' = roster, Boxes(box'),
           driving' \in {0, driving}, driving' = 0 <=> shown' = "login",
           \/ form' # "setting"
           \/ shown' = "login" /\ form = "setting" /\ box'.who = box.who
    PROVE  DoorStands' /\ IsOnesOwn
<1>1. IsOnesOwn
  BY DEF IsOnesOwn
<1>2. CASE form' # "setting"
  BY <1>1, <1>2 DEF DoorStands, NamesApart
<1>3. CASE shown' = "login" /\ form = "setting" /\ box'.who = box.who
  <2>1. Find(box.who)' = Find(box.who)
    BY <1>3 DEF Find, Called
  <2> QED
    BY <1>1, <1>3, <2>1 DEF DoorStands, NamesApart
<1> QED
  BY <1>2, <1>3

\* At the door, with nobody made: the form, its boxes, and the way out.
LEMMA DoorKeeps ==
    ASSUME DoorStands, NewDriver \/ BackToDoor \/ SignOut \/ ExitAndStart
    PROVE  DoorStands' /\ IsOnesOwn
<1>1. Boxes(box) /\ Boxes(Forgotten) /\ Boxes([x \in Box |-> ""])
      /\ \A w \in Name \cup {""} : Boxes([Forgotten EXCEPT !.fresh = w])
  <2>1. Boxes([x \in Box |-> ""])
    BY DEF Boxes, Box
  <2> QED
    BY <2>1, Forgets DEF DoorStands
<1>2. CASE NewDriver
  BY <1>1, <1>2, StandsBy DEF NewDriver, AtDoor, DoorStands
<1>3. CASE BackToDoor
  <2>1. PICK w \in Name \cup {""} : box' = [Forgotten EXCEPT !.fresh = w]
    <3>1. Forgotten.fresh \in Name \cup {""}
      BY <1>1 DEF Boxes
    <3>2. PICK w : w = IF form = "making" THEN "" ELSE Forgotten.fresh
      OBVIOUS
    <3> QED
      BY <1>3, <3>1, <3>2 DEF BackToDoor
  <2>2. Boxes(box')
    BY <1>1, <2>1
  <2> QED
    BY <1>3, <2>2, StandsBy DEF BackToDoor, DoorStands
<1>4. CASE SignOut
  BY <1>1, <1>4, StandsBy DEF SignOut, DoorStands
<1>5. CASE ExitAndStart
  BY <1>1, <1>5, StandsBy DEF ExitAndStart, Opened
<1> QED
  BY <1>2, <1>3, <1>4, <1>5

\* Behind it, with nothing saved.
LEMMA ScreenKeeps ==
    ASSUME DoorStands, OpenProfile \/ UndoName \/ CloseProfile
    PROVE  DoorStands' /\ IsOnesOwn
<1>1. /\ Boxes(box) /\ driving \in DOMAIN roster /\ form # "setting"
      /\ roster[driving].name \in Name \cup {""}
  <2>1. driving \in DOMAIN roster /\ form # "setting" /\ Boxes(box) /\ roster \in Seq(Driver)
    BY DEF OpenProfile, UndoName, CloseProfile, DoorStands
  <2>2. roster[driving] \in Driver
    BY <2>1, LenProperties, ElementOfSeq
  <2> QED
    BY <2>1, <2>2 DEF Driver
<1>2. Boxes([box EXCEPT !.fresh = roster[driving].name])
  <2>1. PICK n : n = roster[driving].name
    OBVIOUS
  <2>2. Boxes([box EXCEPT !["fresh"] = n])
    BY <1>1, <2>1 DEF Boxes, Box
  <2> QED
    BY <2>1, <2>2
<1>3. CASE OpenProfile
  BY <1>1, <1>2, <1>3, StandsBy DEF OpenProfile, DoorStands
<1>4. CASE UndoName
  BY <1>1, <1>2, <1>4, StandsBy DEF UndoName, DoorStands, seen
<1>5. CASE CloseProfile
  BY <1>1, <1>5, StandsBy DEF CloseProfile, DoorStands
<1> QED
  BY <1>3, <1>4, <1>5

\* Nobody's name is typed over while they choose a password.
LEMMA TypedStands ==
    ASSUME DoorStands, NEW b \in Box, NEW w, Typed(b, w),
           b \in {"who", "fresh"} => w \in Name \cup {""},
           b \in {"pass", "again"} => w \in Word \cup {""}
    PROVE  DoorStands' /\ IsOnesOwn
<1>1. /\ b \in Drawn /\ box' = [box EXCEPT ![b] = w]
      /\ roster' = roster /\ driving' = driving /\ shown' = shown /\ form' = form
  BY DEF Typed, seen
<1>2. Boxes(box') /\ (b # "who" => box'["who"] = box["who"])
  <2>1. Boxes(box)
    BY DEF DoorStands
  <2>2. PICK c : c = [box EXCEPT ![b] = w]
    OBVIOUS
  <2>3. Boxes(c) /\ (b # "who" => c["who"] = box["who"])
    BY <2>1, <2>2 DEF Boxes, Box
  <2> QED
    BY <1>1, <2>2, <2>3
<1>3. form = "setting" => b # "who"
  <2> SUFFICES ASSUME form = "setting" PROVE b # "who"
    OBVIOUS
  <2>1. shown = "login"
    BY DEF DoorStands
  <2>2. Drawn = {"pass", "again"}
    BY <2>1 DEF Drawn, AtDoor
  <2> QED
    BY <1>1, <2>2
<1> QED
  BY <1>1, <1>2, <1>3, StandsBy DEF DoorStands

\* One's own password, once both boxes say it.
LEMMA ChangeStands ==
    ASSUME DoorStands, NEW hashes \in BOOLEAN, Change(hashes)
    PROVE  DoorStands' /\ IsOnesOwn
<1>1. /\ shown = "profiles" /\ shown' = shown /\ driving' = driving /\ form' = form
      /\ box' = Forgotten
      /\ roster' = IF told' = "" THEN Locked(driving) ELSE roster
      /\ told' = SetPassword(driving, hashes)
  BY DEF Change
<1>2. driving \in DOMAIN roster /\ form # "setting" /\ Boxes(box')
  BY <1>1, Forgets DEF DoorStands
<1>3. CASE told' # ""
  BY <1>1, <1>2, <1>3, StandsBy DEF DoorStands
<1>4. CASE told' = ""
  <2>1. box.pass # ""
    BY <1>1, <1>4 DEF SetPassword
  <2>2. PICK r : r = roster'
    OBVIOUS
  <2>3. /\ r \in Seq(Driver) /\ DOMAIN r = DOMAIN roster /\ r[driving].lock = box.pass
        /\ \A j \in DOMAIN roster : r[j].name = roster[j].name
        /\ \A j \in DOMAIN roster \ {driving} : r[j] = roster[j]
    BY <1>1, <1>2, <1>4, <2>1, <2>2, LocksOne
  <2>4. NamesApart(r)
    BY <2>3 DEF DoorStands, NamesApart
  <2>5. \A j \in DOMAIN r : r[j].lock = "" => ~r[j].made /\ ~r[j].phone
    BY <2>1, <2>3 DEF DoorStands
  <2>6. \A j \in DOMAIN roster : roster[j].lock \notin {"", r[j].lock} => driving = j
    BY <2>3
  <2> QED
    BY <1>1, <1>2, <2>2, <2>3, <2>4, <2>5, <2>6 DEF DoorStands, IsOnesOwn
<1> QED
  BY <1>3, <1>4

\* One's own name, if nobody else has it.
LEMMA SaveNameStands ==
    ASSUME DoorStands, SaveName
    PROVE  DoorStands' /\ IsOnesOwn
<1>1. /\ shown = "profiles" /\ shown' = shown /\ driving' = driving /\ form' = form /\ box' = box
      /\ \/ roster' = roster
         \/ /\ roster' = [roster EXCEPT ![driving].name = box.fresh]
            /\ Find(box.fresh) \in {0, driving}
  BY DEF SaveName, seen
<1>2. /\ driving \in DOMAIN roster /\ form # "setting" /\ Boxes(box)
      /\ roster \in Seq(Driver) /\ NamesApart(roster)
  BY <1>1 DEF DoorStands
<1>3. CASE roster' = roster
  BY <1>1, <1>2, <1>3, StandsBy DEF DoorStands
<1>4. CASE /\ roster' = [roster EXCEPT ![driving].name = box.fresh]
           /\ Find(box.fresh) \in {0, driving}
  <2>1. PICK n : n = box.fresh
    OBVIOUS
  <2>0. n \in Name \cup {""}
    BY <1>2, <2>1 DEF Boxes
  <2>2. PICK d : d = roster[driving]
    OBVIOUS
  <2>3. PICK e : e = [d EXCEPT !.name = n]
    OBVIOUS
  <2>4. d \in Driver /\ DOMAIN roster = 1 .. Len(roster) /\ Len(roster) \in Nat
    BY <1>2, <2>2, LenProperties, ElementOfSeq
  <2>5. e = [name |-> n, lock |-> d.lock, phone |-> d.phone, made |-> d.made]
    BY <2>3, <2>4 DEF Driver
  <2>6. e \in Driver
    BY <2>0, <2>4, <2>5 DEF Driver
  <2>7. e.name = n /\ e.lock = d.lock /\ e.phone = d.phone /\ e.made = d.made
    BY <2>5
  <2>8. PICK r : r = [roster EXCEPT ![driving] = e]
    OBVIOUS
  <2>9. roster' = r
    BY <1>4, <2>1, <2>2, <2>3, <2>8
  <2>10. r \in Seq(Driver) /\ Len(r) = Len(roster)
    <3>1. driving \in 1 .. Len(roster)
      BY <1>2, <2>4
    <3>2. /\ [roster EXCEPT ![driving] = e] \in Seq(Driver)
          /\ Len([roster EXCEPT ![driving] = e]) = Len(roster)
      BY <1>2, <2>6, <3>1, ExceptSeq, Zenon
    <3> QED
      BY <2>8, <3>2, Zenon
  <2>11. DOMAIN r = DOMAIN roster
    BY <2>4, <2>10, LenProperties
  <2>12. r[driving] = e /\ \A j \in DOMAIN roster \ {driving} : r[j] = roster[j]
    BY <1>2, <2>8
  <2>13. \A j \in DOMAIN roster \ {driving} : roster[j].name # n
    <3>1. ASSUME NEW j \in DOMAIN roster, roster[j].name = n PROVE j = driving
      <4>1. Find(n) = j
        BY <1>2, <3>1, FindsOne
      <4>2. j # 0
        <5>1. PICK l \in Nat : DOMAIN roster = 1 .. l
          BY <2>4, Zenon
        <5>2. 0 \notin 1 .. l
          BY <5>1
        <5> QED
          BY <5>1, <5>2
      <4> QED
        BY <1>4, <2>1, <4>1, <4>2
    <3> QED
      BY <3>1
  <2>14. NamesApart(r)
    <3>1. \A i, j \in DOMAIN r \ {driving} : r[i].name = r[j].name => i = j
      BY <1>2, <2>11, <2>12 DEF NamesApart
    <3>2. \A j \in DOMAIN r \ {driving} : r[j].name # r[driving].name
      BY <2>7, <2>11, <2>12, <2>13
    <3>3. \A i, j \in DOMAIN r : r[i].name = r[j].name => i = j
      BY <3>1, <3>2, Zenon
    <3> QED
      BY <3>3 DEF NamesApart
  <2>15. \A j \in DOMAIN r : r[j].lock = "" => ~r[j].made /\ ~r[j].phone
    BY <2>2, <2>7, <2>11, <2>12, <1>2 DEF DoorStands
  <2>16. \A j \in DOMAIN roster : roster[j].lock = r[j].lock
    BY <2>2, <2>7, <2>12
  <2> QED
    BY <1>1, <1>2, <2>9, <2>10, <2>11, <2>14, <2>15, <2>16 DEF DoorStands, IsOnesOwn
<1> QED
  BY <1>1, <1>3, <1>4

\* A new driver has a name of their own and a password, or there is none.
LEMMA CreateStands ==
    ASSUME DoorStands, NEW hashes \in BOOLEAN, Create(hashes)
    PROVE  DoorStands' /\ IsOnesOwn
<1>1. /\ shown = "login" /\ shown' = shown /\ driving' = driving /\ driving = 0
      /\ \/ UNCHANGED <<roster, form, box>> /\ form = "making"
         \/ /\ Complaint = "" /\ roster' = Append(roster, Newcomer) /\ form' = "signing"
            /\ box' = [Forgotten EXCEPT !.who = box.fresh, !.fresh = ""]
  BY DEF Create, AtDoor, DoorStands
<1>2. Boxes(box) /\ roster \in Seq(Driver) /\ NamesApart(roster)
  BY DEF DoorStands
<1>3. CASE UNCHANGED <<roster, form, box>> /\ form = "making"
  BY <1>1, <1>2, <1>3, StandsBy
<1>4. CASE /\ Complaint = "" /\ roster' = Append(roster, Newcomer) /\ form' = "signing"
           /\ box' = [Forgotten EXCEPT !.who = box.fresh, !.fresh = ""]
  <2>1. box.pass # "" /\ Find(box.fresh) = 0
    BY <1>4 DEF Complaint, MayAdd
  <2>2. PICK n : n = box.fresh
    OBVIOUS
  <2>3. PICK w : w = box.pass
    OBVIOUS
  <2>0. n \in Name \cup {""} /\ w \in Word \cup {""}
    BY <1>2, <2>2, <2>3 DEF Boxes
  <2>4. PICK e : e = [name |-> n, lock |-> w, phone |-> FALSE, made |-> TRUE]
    OBVIOUS
  <2>5. e \in Driver /\ e.name = n /\ e.lock # ""
    BY <2>0, <2>1, <2>3, <2>4 DEF Driver
  <2>6. roster' = Append(roster, e)
    BY <1>4, <2>2, <2>3, <2>4 DEF Newcomer
  <2>7. PICK r : r = Append(roster, e)
    OBVIOUS
  <2>8. PICK l \in Nat : l = Len(roster) /\ DOMAIN roster = 1 .. l
    BY <1>2, LenProperties
  <2>9. /\ r \in Seq(Driver) /\ Len(r) = l + 1 /\ r[l + 1] = e
        /\ \A j \in 1 .. l : r[j] = roster[j]
    <3>1. /\ Append(roster, e) \in Seq(Driver) /\ Len(Append(roster, e)) = Len(roster) + 1
          /\ \A j \in 1 .. Len(roster) : Append(roster, e)[j] = roster[j]
          /\ Append(roster, e)[Len(roster) + 1] = e
      <4>1. roster \in Seq(Driver) /\ e \in Driver
        BY <1>2, <2>5
      <4>2. Append(roster, e) \in Seq(Driver)
        BY <4>1
      <4>3. Len(Append(roster, e)) = Len(roster) + 1
        BY <4>1
      <4>4. \A j \in 1 .. Len(roster) : Append(roster, e)[j] = roster[j]
        BY <4>1
      <4>5. Append(roster, e)[Len(roster) + 1] = e
        BY <4>1
      <4> QED
        BY <4>2, <4>3, <4>4, <4>5
    <3>2. /\ r \in Seq(Driver) /\ Len(r) = Len(roster) + 1 /\ r[Len(roster) + 1] = e
          /\ \A j \in 1 .. Len(roster) : r[j] = roster[j]
      BY <2>7, <3>1, Zenon
    <3>3. l = Len(roster)
      BY <2>8
    <3> QED
      BY <3>2, <3>3
  <2>10. DOMAIN r = 1 .. (l + 1) /\ \A j \in 1 .. (l + 1) : j = l + 1 \/ j \in 1 .. l
    <3>1. DOMAIN r = 1 .. Len(r)
      BY <2>9, LenProperties
    <3>2. DOMAIN r = 1 .. (l + 1)
      BY <2>9, <3>1, Zenon
    <3>3. \A j \in 1 .. (l + 1) : j = l + 1 \/ j \in 1 .. l
      BY <2>8
    <3> QED
      BY <3>2, <3>3
  <2>11. \A j \in DOMAIN roster : roster[j].name # n
    BY <1>2, <2>1, <2>2, FindsOne
  <2>12. NamesApart(r)
    <3>1. \A i, j \in 1 .. l : r[i].name = r[j].name => i = j
      BY <1>2, <2>8, <2>9 DEF NamesApart
    <3>2. \A j \in 1 .. l : r[j].name # r[l + 1].name
      BY <2>5, <2>8, <2>9, <2>11
    <3>3. \A i, j \in 1 .. (l + 1) : r[i].name = r[j].name => i = j
      BY <2>10, <3>1, <3>2
    <3> QED
      BY <2>10, <3>3 DEF NamesApart
  <2>13. \A j \in DOMAIN r : r[j].lock = "" => ~r[j].made /\ ~r[j].phone
    BY <2>5, <2>8, <2>9, <2>10 DEF DoorStands
  <2>14. Boxes(box')
    <3>1. PICK b : b = Forgotten
      OBVIOUS
    <3>2. PICK c : c = [b EXCEPT !["who"] = n]
      OBVIOUS
    <3>3. PICK d : d = [c EXCEPT !["fresh"] = ""]
      OBVIOUS
    <3>4. Boxes(b)
      BY <1>2, <3>1, Forgets
    <3>5. Boxes(c)
      BY <2>0, <3>2, <3>4 DEF Boxes, Box
    <3>6. Boxes(d)
      BY <3>3, <3>5 DEF Boxes, Box
    <3>7. box' = d
      BY <1>4, <2>2, <3>1, <3>2, <3>3
    <3> QED
      BY <3>6, <3>7
  <2>15. \A j \in DOMAIN roster : roster[j].lock = r[j].lock
    BY <2>8, <2>9
  <2> QED
    BY <1>1, <1>4, <2>6, <2>7, <2>9, <2>12, <2>13, <2>14, <2>15 DEF DoorStands, IsOnesOwn
<1> QED
  BY <1>1, <1>3, <1>4

\* gs_menu.c, for any names, words and files: each driver has a name and a lock of their
\* own, opens it with what locked it, and is not told by it to who only guesses.
THEOREM DoorHoldsAlways == DoorSpec => DoorHolds
<1>1. DoorInit => DoorStands
  <2> SUFFICES ASSUME DoorInit PROVE DoorStands
    OBVIOUS
  <2>1. Boxes(box)
    BY DEF DoorInit, Boxes, Box
  <2>2. /\ roster \in Seq([name : Name, lock : Word \cup {""}, phone : BOOLEAN, made : {FALSE}])
        /\ NamesApart(roster) /\ \A i \in DOMAIN roster : roster[i].phone => roster[i].lock # ""
    BY DoorAssumption DEF DoorInit, NamesApart
  <2>3. PICK l \in Nat : l = Len(roster) /\ DOMAIN roster = 1 .. l
    BY <2>2, LenProperties
  <2>4. \A i \in DOMAIN roster :
          roster[i] \in [name : Name, lock : Word \cup {""}, phone : BOOLEAN, made : {FALSE}]
    BY <2>2, <2>3, ElementOfSeq
  <2>5. \A i \in DOMAIN roster : ~roster[i].made
    BY <2>4
  <2>6. roster \in Seq(Driver)
    <3>1. [name : Name, lock : Word \cup {""}, phone : BOOLEAN, made : {FALSE}] \subseteq Driver
      BY DEF Driver
    <3> QED
      BY <2>2, <3>1, SeqMonotonic
  <2> QED
    BY <2>1, <2>2, <2>5, <2>6 DEF DoorInit, DoorStands
<1>2. DoorStands /\ [DoorNext]_doorVars => DoorStands' /\ [IsOnesOwn]_doorVars
  <2>1. ASSUME DoorStands, UNCHANGED doorVars PROVE DoorStands' /\ [IsOnesOwn]_doorVars
    BY <2>1, ZenonT(60) DEF doorVars, DoorStands, NamesApart, Boxes, Find, Called
  <2>2. ASSUME DoorStands, DoorNext PROVE DoorStands' /\ IsOnesOwn
    <3>1. CASE SignIn
      BY <2>2, <3>1, SignInStands
    <3>2. CASE NewDriver \/ BackToDoor \/ SignOut \/ ExitAndStart
      BY <2>2, <3>2, DoorKeeps
    <3>3. CASE OpenProfile \/ UndoName \/ CloseProfile
      BY <2>2, <3>3, ScreenKeeps
    <3>4. CASE SaveName
      BY <2>2, <3>4, SaveNameStands
    <3>5. ASSUME NEW hashes \in BOOLEAN, Create(hashes) \/ SetIt(hashes) \/ Change(hashes)
          PROVE  DoorStands' /\ IsOnesOwn
      BY <2>2, <3>5, CreateStands, SetItStands, ChangeStands
    <3>6. ASSUME NEW b \in Box, NEW w, Typed(b, w),
                 b \in {"who", "fresh"} => w \in Name \cup {""},
                 b \in {"pass", "again"} => w \in Word \cup {""}
          PROVE  DoorStands' /\ IsOnesOwn
      BY <2>2, <3>6, TypedStands
    <3>7. ASSUME NEW b \in Box, NEW w \in Typeable(b), Typed(b, w)
          PROVE  DoorStands' /\ IsOnesOwn
      <4>1. /\ b \in {"who", "fresh"} => w \in Name \cup {""}
            /\ b \in {"pass", "again"} => w \in Word \cup {""}
        BY <3>7 DEF Typeable
      <4> QED
        BY <3>6, <3>7, <4>1
    <3> QED
      BY <2>2, <3>1, <3>2, <3>3, <3>4, <3>5, <3>7 DEF DoorNext
  <2> QED
    BY <2>1, <2>2
<1>3. DoorStands => RosterIsSound /\ RefusedAlike
  <2> SUFFICES ASSUME DoorStands PROVE RosterIsSound /\ RefusedAlike
    OBVIOUS
  <2>1. RosterIsSound
    BY DEF DoorStands, NamesApart, RosterIsSound
  <2>2. ASSUME NEW n \in Name, NEW i \in DOMAIN roster, NEW w \in Word, NEW c \in Codes \cup {""},
               Find(n) = 0, roster[i].lock \notin {"", w}
        PROVE  Attempt(n, w, c) = Attempt(roster[i].name, w, c)
    <3>1. Find(roster[i].name) = i /\ i # 0
      <4>1. roster \in Seq(Driver) /\ NamesApart(roster)
        BY DEF DoorStands
      <4>2. DOMAIN roster = 1 .. Len(roster) /\ Len(roster) \in Nat
        BY <4>1, LenProperties
      <4> QED
        BY <4>1, <4>2, FindsOne
    <3>2. Attempt(n, w, c) = Refuse
      BY <2>2 DEF Attempt
    <3>3. Forgotten.pass = ""
      BY DEF DoorStands, Boxes, Box, Forgotten
    <3>4. Attempt(roster[i].name, w, c) = Refuse
      <4>1. roster[i].lock # "" /\ ~Opens(roster[i], w, c)
        BY <2>2 DEF Opens
      <4> QED
        BY <3>1, <3>3, <4>1 DEF Attempt
    <3> QED
      BY <3>2, <3>4
  <2> QED
    BY <2>1, <2>2 DEF RefusedAlike
<1> QED
  BY <1>1, <1>2, <1>3, PTL DEF DoorSpec, DoorHolds, PasswordIsOnesOwn, IsOnesOwn

-----------------------------------------------------------------------------
(* The ground: gates and where they are *)

\* Round a loop, no further than back to where one was.
LEMMA RoundALoop ==
  ASSUME NEW n \in Nat \ {0}, NEW x \in 0 .. n + n - 1
  PROVE  x % n = IF x < n THEN x ELSE x - n
<1>1. CASE x < n
  BY <1>1
<1>2. CASE x >= n
  <2>1. /\ x = n * (x \div n) + (x % n) /\ x % n \in 0 .. n - 1 /\ x \div n \in Int
    OBVIOUS
  <2>2. PICK q \in Int : q = x \div n
    BY <2>1
  <2>3. (q <= 0 => n * q <= 0) /\ (q >= 2 => n * q >= n + n)
    BY <2>2
  <2>4. q = 1
    BY <1>2, <2>1, <2>2, <2>3
  <2> QED
    BY <1>2, <2>1, <2>2, <2>4
<1> QED
  BY <1>1, <1>2

\* What may be a gate, and what may be laid.
Posts == [at : Int \X Int, face : Int \X Int, half : Int] \X BOOLEAN
Roads == [ground : {"field"}, gate : Seq(Posts), route : {"sprint", "circuit"}, every : {1}, cut : {{}}]

\* What a gate of a track is made of.
LEMMA GateIs ==
  ASSUME NEW t \in Roads
  PROVE  /\ Gates(t) \in Nat
         /\ \A i \in 0 .. Gates(t) - 1 :
              /\ GateAt(t, i) \in Posts /\ Site(t, i).half \in Int
              /\ Facing(t, i) \in Int \X Int /\ Middle(t, i) \in Int \X Int
<1>1. t.gate \in Seq(Posts)
  BY DEF Roads
<1>2. Gates(t) \in Nat
  BY <1>1 DEF Gates
<1>3. ASSUME NEW i \in 0 .. Gates(t) - 1
      PROVE  /\ GateAt(t, i) \in Posts /\ Site(t, i).half \in Int
             /\ Facing(t, i) \in Int \X Int /\ Middle(t, i) \in Int \X Int
  <2>1. i + 1 \in 1 .. Len(t.gate)
    BY <1>2 DEF Gates
  <2>2. GateAt(t, i) \in Posts
    BY <1>1, <2>1 DEF GateAt
  <2>3. PICK g \in Posts : g = GateAt(t, i)
    BY <2>2
  <2>4. g[1].half \in Int /\ g[1].at \in Int \X Int /\ g[1].face \in Int \X Int
    BY DEF Posts
  <2>5. Scaled(-1, g[1].face) \in Int \X Int
    BY <2>4 DEF Scaled
  <2> QED
    BY <2>2, <2>3, <2>4, <2>5 DEF Site, Facing, Middle
<1> QED
  BY <1>2, <1>3

\* The gates on either side of one, counted without going round.
LEMMA BesideIs ==
  ASSUME NEW t, NEW n \in Nat, n = Gates(t), NEW i \in 0 .. n - 1
  PROVE  /\ Before(t, i) = IF i > 0 THEN i - 1 ELSE IF IsLoop(t) THEN n - 1 ELSE 0
         /\ After(t, i) = IF i + 1 < n THEN i + 1 ELSE IF IsLoop(t) THEN 0 ELSE i
         /\ Before(t, i) \in 0 .. n - 1 /\ After(t, i) \in 0 .. n - 1
<1>1. n \in Nat \ {0} /\ i + n - 1 \in 0 .. n + n - 1 /\ i + 1 \in 0 .. n + n - 1
  OBVIOUS
<1>2. /\ (i + n - 1) % n = IF i + n - 1 < n THEN i + n - 1 ELSE i + n - 1 - n
      /\ (i + 1) % n = IF i + 1 < n THEN i + 1 ELSE i + 1 - n
  BY <1>1, RoundALoop
<1>3. /\ Before(t, i) = IF IsLoop(t) THEN (i + n - 1) % n ELSE IF i = 0 THEN 0 ELSE i - 1
      /\ After(t, i) = IF IsLoop(t) THEN (i + 1) % n ELSE IF i + 1 < n THEN i + 1 ELSE i
  BY DEF Before, After
<1>4. CASE IsLoop(t)
  BY <1>1, <1>2, <1>3, <1>4
<1>5. CASE ~IsLoop(t)
  BY <1>1, <1>3, <1>5
<1> QED
  BY <1>4, <1>5

-----------------------------------------------------------------------------
(* The ground: the same road back *)

\* The gate that comes to be gate i of the route turned round.
Behind(t, i) == IF Gates(t) < 2 THEN i ELSE From(t, i)

\* Which it is, and that turning round twice is no turn.
LEMMA BehindIs ==
  ASSUME NEW t, NEW n \in Nat, n = Gates(t), NEW i \in 0 .. n - 1
  PROVE  /\ Behind(t, i) = IF n < 2 THEN i ELSE IF ~IsCircuit(t) THEN n - 1 - i
                           ELSE IF i = 0 THEN 0 ELSE n - i
         /\ Behind(t, i) \in 0 .. n - 1
<1>1. n \in Nat \ {0} /\ n - i \in 0 .. n + n - 1
  OBVIOUS
<1>2. (n - i) % n = IF n - i < n THEN n - i ELSE n - i - n
  BY <1>1, RoundALoop
<1>3. Behind(t, i) = IF n < 2 THEN i ELSE IF IsCircuit(t) THEN (n - i) % n ELSE n - 1 - i
  BY DEF Behind, From
<1> QED
  BY <1>1, <1>2, <1>3

\* Turned round, a track has the same gates in the other order, each facing the other way.
LEMMA TurnedIs ==
  ASSUME NEW t \in Roads
  PROVE  /\ TurnRound(t) \in Roads /\ Gates(TurnRound(t)) = Gates(t)
         /\ TurnRound(t).route = t.route
         /\ \A i \in 0 .. Gates(t) - 1 :
              /\ Site(TurnRound(t), i) = Site(t, Behind(t, i))
              /\ Middle(TurnRound(t), i) = Middle(t, Behind(t, i))
              /\ Facing(TurnRound(t), i) = Scaled(-1, Facing(t, Behind(t, i)))
<1>1. PICK n \in Nat : n = Gates(t)
  BY GateIs
<1>2. t.gate \in Seq(Posts) /\ DOMAIN t.gate = 1 .. n /\ t.gate \in [1 .. n -> Posts]
  BY <1>1 DEF Roads, Gates
<1> DEFINE s == [j \in 1 .. n |-> Turned(t.gate[Behind(t, j - 1) + 1])]
<1>3. \A i \in 0 .. n - 1 : Behind(t, i) \in 0 .. n - 1
  BY <1>1, BehindIs
<1>4. \A j \in 1 .. n : j - 1 \in 0 .. n - 1 /\ Behind(t, j - 1) + 1 \in 1 .. n
  <2> SUFFICES ASSUME NEW j \in 1 .. n PROVE j - 1 \in 0 .. n - 1 /\ Behind(t, j - 1) + 1 \in 1 .. n
    OBVIOUS
  <2>1. j - 1 \in 0 .. n - 1
    OBVIOUS
  <2>2. PICK b \in 0 .. n - 1 : b = Behind(t, j - 1)
    BY <1>3, <2>1
  <2> QED
    BY <2>1, <2>2
<1>5. \A g \in Posts : Turned(g) \in Posts
  BY DEF Posts, Turned
<1>6. s \in [1 .. n -> Posts] /\ s \in Seq(Posts) /\ Len(s) = n
  BY <1>2, <1>4, <1>5
<1>7. TurnRound(t).gate = s
  <2>1. CASE n < 2
    <3>1. \A j \in 1 .. n : Behind(t, j - 1) + 1 = j
      BY <1>1, <2>1 DEF Behind
    <3>2. TurnRound(t).gate = [j \in 1 .. n |-> Turned(t.gate[j])]
      BY <1>1, <1>2, <2>1 DEF TurnRound, Roads
    <3> QED
      BY <3>1, <3>2
  <2>2. CASE ~(n < 2)
    <3>1. TurnRound(t).gate = [j \in 1 .. n |-> Turned(t.gate[From(t, j - 1) + 1])]
      BY <1>1, <1>2, <2>2 DEF TurnRound, Roads
    <3>2. \A j \in 1 .. n : Behind(t, j - 1) = From(t, j - 1)
      BY <1>1, <2>2 DEF Behind
    <3> QED
      BY <3>1, <3>2
  <2> QED
    BY <2>1, <2>2
<1>8. TurnRound(t).cut = {}
  <2>1. t.cut = {}
    BY DEF Roads
  <2>2. CASE n < 2
    BY <1>1, <2>1, <2>2 DEF TurnRound, Roads
  <2>3. CASE ~(n < 2)
    <3>1. TurnRound(t).cut = {From(t, NextCheckpoint(t, a)) : a \in {c \in 0 .. n - 1 : c \in t.cut}}
      BY <1>1, <2>3 DEF TurnRound, Roads
    <3>2. {c \in 0 .. n - 1 : c \in t.cut} = {}
      BY <2>1
    <3> QED
      BY <3>1, <3>2
  <2> QED
    BY <2>2, <2>3
<1>9. TurnRound(t) = [ground |-> t.ground, gate |-> s, route |-> t.route, every |-> t.every,
                      cut |-> {}]
  BY <1>7, <1>8 DEF TurnRound, Roads
<1> HIDE DEF s
<1>10. TurnRound(t) \in Roads /\ Gates(TurnRound(t)) = n /\ TurnRound(t).route = t.route
  BY <1>6, <1>9 DEF Roads, Gates
<1>11. ASSUME NEW i \in 0 .. n - 1
       PROVE  /\ Site(TurnRound(t), i) = Site(t, Behind(t, i))
              /\ Middle(TurnRound(t), i) = Middle(t, Behind(t, i))
              /\ Facing(TurnRound(t), i) = Scaled(-1, Facing(t, Behind(t, i)))
  <2>1. i + 1 \in 1 .. n /\ (i + 1) - 1 = i
    OBVIOUS
  <2>2. GateAt(TurnRound(t), i) = Turned(GateAt(t, Behind(t, i)))
    BY <1>7, <2>1 DEF GateAt, s
  <2>3. GateAt(t, Behind(t, i)) \in Posts
    BY <1>1, <1>3, GateIs
  <2>4. PICK g \in Posts : g = GateAt(t, Behind(t, i))
    BY <2>3
  <2>5. Turned(g)[1] = g[1] /\ Turned(g)[2] = ~g[2] /\ g[2] \in BOOLEAN /\ g[1].face \in Int \X Int
    BY DEF Turned, Posts
  <2>6. Site(TurnRound(t), i) = g[1] /\ Site(t, Behind(t, i)) = g[1]
    BY <2>2, <2>4, <2>5 DEF Site
  <2>7. Scaled(-1, Scaled(-1, g[1].face)) = g[1].face
    BY <2>5 DEF Scaled
  <2>8. Facing(TurnRound(t), i) = Scaled(-1, Facing(t, Behind(t, i)))
    <3>1. CASE g[2]
      BY <2>2, <2>4, <2>5, <2>6, <2>7, <3>1 DEF Facing
    <3>2. CASE ~g[2]
      BY <2>2, <2>4, <2>5, <2>6, <2>7, <3>2 DEF Facing
    <3> QED
      BY <3>1, <3>2
  <2> QED
    BY <2>6, <2>8 DEF Middle
<1> QED
  BY <1>1, <1>10, <1>11

\* What is before a gate of the one is after it on the other.
LEMMA BesideBack ==
  ASSUME NEW t \in Roads, IsCircuit(t) => Gates(t) # 2, NEW i \in 0 .. Gates(t) - 1
  PROVE  /\ Behind(t, Behind(t, i)) = i
         /\ Behind(t, Before(TurnRound(t), i)) = After(t, Behind(t, i))
         /\ Behind(t, After(TurnRound(t), i)) = Before(t, Behind(t, i))
<1>1. PICK n \in Nat : n = Gates(t)
  BY GateIs
<1>2. PICK r : r = TurnRound(t)
  OBVIOUS
<1>3. r \in Roads /\ Gates(r) = n /\ r.route = t.route
  BY <1>1, <1>2, TurnedIs
<1>4. (IsLoop(r) <=> IsLoop(t)) /\ (IsLoop(t) <=> IsCircuit(t) /\ n >= 3)
  BY <1>1, <1>3 DEF IsLoop, IsCircuit
<1>5. i \in 0 .. n - 1
  BY <1>1
<1>6. PICK b \in 0 .. n - 1 : b = Behind(t, i)
  BY <1>1, <1>5, BehindIs
<1>7. \A k \in 0 .. n - 1 : Behind(t, k) = IF n < 2 THEN k ELSE IF ~IsCircuit(t) THEN n - 1 - k
                           ELSE IF k = 0 THEN 0 ELSE n - k
  BY <1>1, BehindIs
<1>8. /\ Before(r, i) = IF i > 0 THEN i - 1 ELSE IF IsLoop(t) THEN n - 1 ELSE 0
      /\ After(r, i) = IF i + 1 < n THEN i + 1 ELSE IF IsLoop(t) THEN 0 ELSE i
      /\ Before(r, i) \in 0 .. n - 1 /\ After(r, i) \in 0 .. n - 1
  BY <1>3, <1>4, <1>5, BesideIs
<1>9. /\ Before(t, b) = IF b > 0 THEN b - 1 ELSE IF IsLoop(t) THEN n - 1 ELSE 0
      /\ After(t, b) = IF b + 1 < n THEN b + 1 ELSE IF IsLoop(t) THEN 0 ELSE b
  BY <1>1, <1>6, BesideIs
<1>10. PICK p \in 0 .. n - 1, q \in 0 .. n - 1 : p = Before(r, i) /\ q = After(r, i)
  BY <1>8
<1>11. b = IF n < 2 THEN i ELSE IF ~IsCircuit(t) THEN n - 1 - i ELSE IF i = 0 THEN 0 ELSE n - i
  BY <1>5, <1>6, <1>7
<1>12. Behind(t, b) = i
  BY <1>5, <1>6, <1>7, <1>11
<1>13. Behind(t, p) = After(t, b)
  BY <1>1, <1>4, <1>5, <1>6, <1>7, <1>8, <1>9, <1>10, <1>11
<1>14. Behind(t, q) = Before(t, b)
  BY <1>1, <1>4, <1>5, <1>6, <1>7, <1>8, <1>9, <1>10, <1>11
<1> QED
  BY <1>2, <1>6, <1>10, <1>12, <1>13, <1>14

\* A way and a chord both turned round go as near along each other.
LEMMA AlongBack ==
  ASSUME NEW f \in Int \X Int, NEW p \in Int \X Int, NEW q \in Int \X Int
  PROVE  AlongIt(Scaled(-1, f), Minus(p, q)) <=> AlongIt(f, Minus(q, p))
<1>1. PICK f1 \in Int, f2 \in Int, p1 \in Int, p2 \in Int, q1 \in Int, q2 \in Int :
        f = <<f1, f2>> /\ p = <<p1, p2>> /\ q = <<q1, q2>>
  OBVIOUS
<1>2. /\ Dot(Scaled(-1, f), Minus(p, q)) = (-1 * f1) * (p1 - q1) + (-1 * f2) * (p2 - q2)
      /\ Dot(f, Minus(q, p)) = f1 * (q1 - p1) + f2 * (q2 - p2)
      /\ Dot(Scaled(-1, f), Scaled(-1, f)) = (-1 * f1) * (-1 * f1) + (-1 * f2) * (-1 * f2)
      /\ Dot(f, f) = f1 * f1 + f2 * f2
      /\ Dot(Minus(p, q), Minus(p, q)) = (p1 - q1) * (p1 - q1) + (p2 - q2) * (p2 - q2)
      /\ Dot(Minus(q, p), Minus(q, p)) = (q1 - p1) * (q1 - p1) + (q2 - p2) * (q2 - p2)
  BY <1>1 DEF Dot, Minus, Scaled
<1>3. /\ (-1 * f1) * (p1 - q1) + (-1 * f2) * (p2 - q2) = f1 * (q1 - p1) + f2 * (q2 - p2)
      /\ (-1 * f1) * (-1 * f1) + (-1 * f2) * (-1 * f2) = f1 * f1 + f2 * f2
      /\ (p1 - q1) * (p1 - q1) + (p2 - q2) * (p2 - q2) = (q1 - p1) * (q1 - p1) + (q2 - p2) * (q2 - p2)
  OBVIOUS
<1>4. /\ Dot(Scaled(-1, f), Minus(p, q)) = Dot(f, Minus(q, p))
      /\ Dot(Scaled(-1, f), Scaled(-1, f)) = Dot(f, f)
      /\ Dot(Minus(p, q), Minus(p, q)) = Dot(Minus(q, p), Minus(q, p))
  BY <1>2, <1>3, Zenon
<1> QED
  BY <1>4, Zenon DEF AlongIt

\* How far apart two places are does not depend on which is asked.
LEMMA ApartBack ==
  ASSUME NEW p \in Int \X Int, NEW q \in Int \X Int
  PROVE  /\ Dot(Minus(p, q), Minus(p, q)) = Dot(Minus(q, p), Minus(q, p))
         /\ Dot(Minus(p, q), Minus(p, q)) \in Nat
<1>1. PICK p1 \in Int, p2 \in Int, q1 \in Int, q2 \in Int : p = <<p1, p2>> /\ q = <<q1, q2>>
  OBVIOUS
<1>2. PICK a \in Int, b \in Int : a = p1 - q1 /\ b = p2 - q2
  OBVIOUS
<1>3. q1 - p1 = -a /\ q2 - p2 = -b
  BY <1>2
<1>4. /\ Dot(Minus(p, q), Minus(p, q)) = a * a + b * b
      /\ Dot(Minus(q, p), Minus(q, p)) = (-a) * (-a) + (-b) * (-b)
  BY <1>1, <1>2, <1>3 DEF Dot, Minus
<1>5. (-a) * (-a) = a * a /\ (-b) * (-b) = b * b /\ a * a \in Nat /\ b * b \in Nat
  OBVIOUS
<1> QED
  BY <1>4, <1>5

\* A gate faces its route from either end of it.
LEMMA FacesBack ==
  ASSUME NEW t \in Roads, IsCircuit(t) => Gates(t) # 2, NEW i \in 0 .. Gates(t) - 1
  PROVE  FacesRoute(TurnRound(t), i) <=> FacesRoute(t, Behind(t, i))
<1>1. PICK n \in Nat : n = Gates(t)
  BY GateIs
<1>2. PICK r : r = TurnRound(t)
  OBVIOUS
<1>3. /\ r \in Roads /\ Gates(r) = n
      /\ \A k \in 0 .. n - 1 : /\ Middle(r, k) = Middle(t, Behind(t, k))
                               /\ Facing(r, k) = Scaled(-1, Facing(t, Behind(t, k)))
  BY <1>1, <1>2, TurnedIs
<1>4. i \in 0 .. n - 1
  BY <1>1
<1>5. PICK j \in 0 .. n - 1 : j = Behind(t, i)
  BY <1>1, <1>4, BehindIs
<1>6. /\ Behind(t, Before(r, i)) = After(t, j)
      /\ Behind(t, After(r, i)) = Before(t, j)
      /\ Before(r, i) \in 0 .. n - 1 /\ After(r, i) \in 0 .. n - 1
      /\ Before(t, j) \in 0 .. n - 1 /\ After(t, j) \in 0 .. n - 1
  BY <1>1, <1>2, <1>3, <1>4, <1>5, BesideBack, BesideIs
<1>7. PICK a \in Int \X Int, b \in Int \X Int, c \in Int \X Int, f \in Int \X Int :
        /\ a = Middle(t, Before(t, j)) /\ b = Middle(t, j) /\ c = Middle(t, After(t, j))
        /\ f = Facing(t, j)
  BY <1>1, <1>5, <1>6, GateIs
<1>8. /\ Middle(r, Before(r, i)) = c /\ Middle(r, i) = b /\ Middle(r, After(r, i)) = a
      /\ Facing(r, i) = Scaled(-1, f)
  BY <1>3, <1>4, <1>5, <1>6, <1>7
<1>9. FacesRoute(t, j) <=> AlongIt(f, Minus(c, a)) \/ AlongIt(f, Minus(b, a)) \/ AlongIt(f, Minus(c, b))
  BY <1>7 DEF FacesRoute
<1>10. FacesRoute(r, i) <=> \/ AlongIt(Scaled(-1, f), Minus(a, c))
                            \/ AlongIt(Scaled(-1, f), Minus(b, c))
                            \/ AlongIt(Scaled(-1, f), Minus(a, b))
  BY <1>8 DEF FacesRoute
<1>11. /\ AlongIt(Scaled(-1, f), Minus(a, c)) <=> AlongIt(f, Minus(c, a))
       /\ AlongIt(Scaled(-1, f), Minus(b, c)) <=> AlongIt(f, Minus(c, b))
       /\ AlongIt(Scaled(-1, f), Minus(a, b)) <=> AlongIt(f, Minus(b, a))
  BY AlongBack
<1> QED
  BY <1>2, <1>5, <1>9, <1>10, <1>11

\* A gate that is over the field is over it whichever way it faces.
LEMMA FieldBack ==
  ASSUME NEW t \in Roads, NEW i \in 0 .. Gates(t) - 1
  PROVE  OnTheField(TurnRound(t), i) <=> OnTheField(t, Behind(t, i))
<1>1. PICK n \in Nat : n = Gates(t)
  BY GateIs
<1>2. PICK r : r = TurnRound(t)
  OBVIOUS
<1>3. i \in 0 .. n - 1
  BY <1>1
<1>4. PICK j \in 0 .. n - 1 : j = Behind(t, i)
  BY <1>1, <1>3, BehindIs
<1>5. Site(r, i) = Site(t, j) /\ Middle(r, i) = Middle(t, j) /\ Facing(r, i) = Scaled(-1, Facing(t, j))
  BY <1>1, <1>2, <1>3, <1>4, TurnedIs
<1>6. PICK f1 \in Int, f2 \in Int, h \in Int : Facing(t, j) = <<f1, f2>> /\ h = Site(t, j).half
  BY <1>1, <1>4, GateIs
<1>7. PICK g1 \in Int, g2 \in Int : g1 = -1 * f1 /\ g2 = -1 * f2
  OBVIOUS
<1>8. Facing(r, i) = <<g1, g2>>
  BY <1>5, <1>6, <1>7 DEF Scaled
<1>9. Dot(<<g1, g2>>, <<g1, g2>>) = Dot(<<f1, f2>>, <<f1, f2>>)
  BY <1>7 DEF Dot
<1>10. Sq(h * g1) = Sq(h * f1) /\ Sq(h * g2) = Sq(h * f2)
  <2>1. h * g1 = -(h * f1) /\ h * g2 = -(h * f2)
    BY <1>7
  <2>2. \A x \in Int : (-x) * (-x) = x * x
    OBVIOUS
  <2>3. h * f1 \in Int /\ h * f2 \in Int
    OBVIOUS
  <2> QED
    BY <2>1, <2>2, <2>3 DEF Sq
<1>11. <<g1, g2>>[1] = g1 /\ <<g1, g2>>[2] = g2 /\ <<f1, f2>>[1] = f1 /\ <<f1, f2>>[2] = f2
  OBVIOUS
<1>12. PICK m, k : m = Middle(t, j) /\ k = Site(t, j)
  OBVIOUS
<1>13. OnTheField(t, j) <=>
         LET reach(d, pos, far) == /\ Sq(h * d) <= Sq(pos) * Dot(<<f1, f2>>, <<f1, f2>>)
                                   /\ Sq(h * d) < Sq(far - pos) * Dot(<<f1, f2>>, <<f1, f2>>)
         IN  OnField(m) /\ reach(f2, m[1], W) /\ reach(f1, m[2], H)
  BY <1>6, <1>11, <1>12, Zenon DEF OnTheField
<1>14. OnTheField(r, i) <=>
         LET reach(d, pos, far) == /\ Sq(h * d) <= Sq(pos) * Dot(<<f1, f2>>, <<f1, f2>>)
                                   /\ Sq(h * d) < Sq(far - pos) * Dot(<<f1, f2>>, <<f1, f2>>)
         IN  OnField(m) /\ reach(g2, m[1], W) /\ reach(g1, m[2], H)
  BY <1>5, <1>6, <1>8, <1>9, <1>11, <1>12, Zenon DEF OnTheField
<1>15. OnTheField(r, i) <=> OnTheField(t, j)
  BY <1>10, <1>13, <1>14, Zenon
<1> QED
  BY <1>2, <1>4, <1>15

\* A gate with something wrong with it, whichever of two too near it is counted first.
Faulty(t, i) ==
    \/ Site(t, i).half < LeastHalf
    \/ ~OnTheField(t, i)
    \/ \E j \in 0 .. Gates(t) - 1 :
          j # i /\ Dot(Minus(Middle(t, j), Middle(t, i)), Minus(Middle(t, j), Middle(t, i))) < Sq(LeastApart)

\* What is wrong with a route.
LEMMA ProblemIs ==
  ASSUME NEW t \in Roads
  PROVE  LET n == Gates(t)
             bad == \E i \in 0 .. n - 1 : Faulty(t, i)
             facing == \E i \in 0 .. n - 1 : ~FacesRoute(t, i)
         IN  /\ n = 0 => Problem(t) = "no start"
             /\ n = 1 => Problem(t) = "too few gates"
             /\ n >= 2 /\ bad => Problem(t) \in {"too narrow", "off track", "coincide"}
             /\ n >= 2 /\ ~bad => Problem(t) = IF facing THEN "facing" ELSE "ok"
<1>1. PICK n \in Nat : n = Gates(t)
  BY GateIs
<1> DEFINE amiss == {i \in 0 .. n - 1 : FaultOf(t, i) # "none"}
           first == CHOOSE i \in amiss : \A j \in amiss : i <= j
           near(j, i) == Dot(Minus(Middle(t, j), Middle(t, i)), Minus(Middle(t, j), Middle(t, i))) < Sq(LeastApart)
<1>2. \A i \in 0 .. n - 1 : FaultOf(t, i) =
         IF Site(t, i).half < LeastHalf THEN "too narrow"
         ELSE IF ~OnTheField(t, i) THEN "off track"
         ELSE IF \E j \in i + 1 .. n - 1 : near(j, i) THEN "coincide" ELSE "none"
  BY <1>1, Zenon DEF FaultOf
<1>3. \A i, j \in 0 .. n - 1 : near(j, i) <=> near(i, j)
  <2> SUFFICES ASSUME NEW i \in 0 .. n - 1, NEW j \in 0 .. n - 1 PROVE near(j, i) <=> near(i, j)
    OBVIOUS
  <2>1. Middle(t, i) \in Int \X Int /\ Middle(t, j) \in Int \X Int
    BY <1>1, GateIs
  <2>2. Dot(Minus(Middle(t, j), Middle(t, i)), Minus(Middle(t, j), Middle(t, i)))
          = Dot(Minus(Middle(t, i), Middle(t, j)), Minus(Middle(t, i), Middle(t, j)))
    BY <2>1, ApartBack
  <2> QED
    BY <2>2, Zenon
<1>4. \A i \in 0 .. n - 1 : Faulty(t, i) <=>
         Site(t, i).half < LeastHalf \/ ~OnTheField(t, i) \/ \E j \in 0 .. n - 1 : j # i /\ near(j, i)
  BY <1>1, Zenon DEF Faulty
<1> HIDE DEF near
<1>5. amiss # {} <=> \E i \in 0 .. n - 1 : Faulty(t, i)
  <2>1. ASSUME NEW i \in amiss PROVE Faulty(t, i)
    <3>1. i \in 0 .. n - 1 /\ FaultOf(t, i) # "none"
      OBVIOUS
    <3>2. ASSUME NEW j \in i + 1 .. n - 1 PROVE j \in 0 .. n - 1 /\ j # i
      BY <3>1
    <3> QED
      BY <1>2, <1>4, <3>1, <3>2
  <2>2. ASSUME NEW i \in 0 .. n - 1, Faulty(t, i) PROVE amiss # {}
    <3>1. CASE Site(t, i).half < LeastHalf
      <4>1. FaultOf(t, i) = "too narrow"
        BY <1>2, <3>1
      <4> QED
        BY <4>1
    <3>2. CASE ~(Site(t, i).half < LeastHalf) /\ ~OnTheField(t, i)
      <4>1. FaultOf(t, i) = "off track"
        BY <1>2, <3>2
      <4> QED
        BY <4>1
    <3>3. CASE \E j \in 0 .. n - 1 : j # i /\ near(j, i)
      <4>1. PICK j \in 0 .. n - 1 : j # i /\ near(j, i)
        BY <3>3
      <4>2. ASSUME NEW a \in 0 .. n - 1, NEW b \in 0 .. n - 1, a < b, near(b, a) PROVE FaultOf(t, a) # "none"
        <5>1. b \in a + 1 .. n - 1
          BY <4>2
        <5> QED
          BY <1>2, <4>2, <5>1
      <4>3. i < j \/ j < i
        BY <4>1
      <4>4. \E a \in 0 .. n - 1 : FaultOf(t, a) # "none"
        BY <1>3, <4>1, <4>2, <4>3
      <4> QED
        BY <4>4
    <3> QED
      BY <1>4, <2>2, <3>1, <3>2, <3>3
  <2> HIDE DEF amiss
  <2> QED
    <3>1. amiss \subseteq 0 .. n - 1
      BY DEF amiss
    <3> QED
      BY <2>1, <2>2, <3>1
<1>6. amiss # {} => first \in amiss
  <2>1. amiss \subseteq Nat
    OBVIOUS
  <2> HIDE DEF amiss
  <2>2. amiss # {} => \E i \in amiss : \A j \in amiss : i <= j
    BY <2>1, LeastNat
  <2> QED
    BY <2>2
<1>7. amiss # {} => FaultOf(t, first) \in {"too narrow", "off track", "coincide"}
  <2> SUFFICES ASSUME amiss # {} PROVE FaultOf(t, first) \in {"too narrow", "off track", "coincide"}
    OBVIOUS
  <2>1. PICK i : i = first
    OBVIOUS
  <2>2. i \in 0 .. n - 1 /\ FaultOf(t, i) # "none"
    BY <1>6, <2>1
  <2>3. FaultOf(t, i) \in {"too narrow", "off track", "coincide"}
    BY <1>2, <2>2
  <2> QED
    BY <2>1, <2>3
<1>8. Problem(t) =
        IF n = 0 THEN "no start" ELSE IF n = 1 THEN "too few gates"
        ELSE IF amiss # {} THEN FaultOf(t, first)
        ELSE IF \E i \in 0 .. n - 1 : ~FacesRoute(t, i) THEN "facing" ELSE "ok"
  BY <1>1 DEF Problem
<1> HIDE DEF amiss, first
<1>10. n = 0 => Problem(t) = "no start"
  BY <1>8
<1>11. n = 1 => Problem(t) = "too few gates"
  <2>1. n = 1 => n # 0
    OBVIOUS
  <2> QED
    BY <1>8, <2>1, Zenon
<1>12. n >= 2 => n # 0 /\ n # 1
  OBVIOUS
<1>13. n >= 2 /\ amiss # {} => Problem(t) \in {"too narrow", "off track", "coincide"}
  BY <1>7, <1>8, <1>12
<1>14. n >= 2 /\ amiss = {} => Problem(t) = IF \E i \in 0 .. n - 1 : ~FacesRoute(t, i) THEN "facing" ELSE "ok"
  BY <1>8, <1>12
<1> QED
  BY <1>1, <1>5, <1>10, <1>11, <1>13, <1>14

\* What is wrong with a gate is wrong with it from the other side.
LEMMA FaultyBack ==
  ASSUME NEW t \in Roads, IsCircuit(t) => Gates(t) # 2, NEW i \in 0 .. Gates(t) - 1
  PROVE  Faulty(TurnRound(t), i) <=> Faulty(t, Behind(t, i))
<1>1. PICK n \in Nat : n = Gates(t)
  BY GateIs
<1>2. PICK r : r = TurnRound(t)
  OBVIOUS
<1>3. /\ Gates(r) = n
      /\ \A k \in 0 .. n - 1 : /\ Site(r, k) = Site(t, Behind(t, k))
                               /\ Middle(r, k) = Middle(t, Behind(t, k))
  BY <1>1, <1>2, TurnedIs
<1>4. \A k \in 0 .. n - 1 : Behind(t, k) \in 0 .. n - 1 /\ Behind(t, Behind(t, k)) = k
  BY <1>1, BehindIs, BesideBack
<1>5. i \in 0 .. n - 1
  BY <1>1
<1>6. PICK b \in 0 .. n - 1 : b = Behind(t, i)
  BY <1>4, <1>5
<1>7. OnTheField(r, i) <=> OnTheField(t, b)
  BY <1>2, <1>6, FieldBack
<1> DEFINE apart(p, q) == Dot(Minus(p, q), Minus(p, q)) < Sq(LeastApart)
<1>8. /\ Faulty(r, i) <=> \/ Site(r, i).half < LeastHalf \/ ~OnTheField(r, i)
                          \/ \E j \in 0 .. n - 1 : j # i /\ apart(Middle(r, j), Middle(r, i))
      /\ Faulty(t, b) <=> \/ Site(t, b).half < LeastHalf \/ ~OnTheField(t, b)
                          \/ \E j \in 0 .. n - 1 : j # b /\ apart(Middle(t, j), Middle(t, b))
  BY <1>1, <1>3, Zenon DEF Faulty
<1> HIDE DEF apart
<1>9. (\E j \in 0 .. n - 1 : j # i /\ apart(Middle(r, j), Middle(r, i)))
        <=> \E j \in 0 .. n - 1 : j # b /\ apart(Middle(t, j), Middle(t, b))
  <2>1. ASSUME NEW j \in 0 .. n - 1, j # i, apart(Middle(r, j), Middle(r, i))
        PROVE  \E k \in 0 .. n - 1 : k # b /\ apart(Middle(t, k), Middle(t, b))
    <3>1. PICK k \in 0 .. n - 1 : k = Behind(t, j)
      BY <1>4
    <3>2. k # b
      BY <1>4, <1>5, <1>6, <2>1, <3>1
    <3>3. Middle(r, j) = Middle(t, k) /\ Middle(r, i) = Middle(t, b)
      BY <1>3, <1>5, <1>6, <3>1
    <3> QED
      BY <2>1, <3>2, <3>3
  <2>2. ASSUME NEW j \in 0 .. n - 1, j # b, apart(Middle(t, j), Middle(t, b))
        PROVE  \E k \in 0 .. n - 1 : k # i /\ apart(Middle(r, k), Middle(r, i))
    <3>1. PICK k \in 0 .. n - 1 : k = Behind(t, j)
      BY <1>4
    <3>2. Behind(t, k) = j
      BY <1>4, <3>1
    <3>3. k # i
      BY <1>6, <2>2, <3>2
    <3>4. Middle(r, k) = Middle(t, j) /\ Middle(r, i) = Middle(t, b)
      BY <1>3, <1>5, <1>6, <3>2
    <3> QED
      BY <2>2, <3>3, <3>4
  <2> QED
    BY <2>1, <2>2
<1>10. Site(r, i) = Site(t, b)
  BY <1>3, <1>5, <1>6
<1> QED
  BY <1>2, <1>6, <1>7, <1>8, <1>9, <1>10

\* The same is wrong with the route as a whole, though which gate is named first may differ.
LEMMA ProblemBack ==
  ASSUME NEW t \in Roads, IsCircuit(t) => Gates(t) # 2
  PROVE  \/ Problem(TurnRound(t)) = Problem(t)
         \/ {Problem(TurnRound(t)), Problem(t)} \subseteq {"too narrow", "off track", "coincide"}
<1>1. PICK n \in Nat : n = Gates(t)
  BY GateIs
<1>2. PICK r : r = TurnRound(t)
  OBVIOUS
<1>3. r \in Roads /\ Gates(r) = n
  BY <1>1, <1>2, TurnedIs
<1>4. \A k \in 0 .. n - 1 : Behind(t, k) \in 0 .. n - 1 /\ Behind(t, Behind(t, k)) = k
  BY <1>1, BehindIs, BesideBack
<1>5. \A k \in 0 .. n - 1 : /\ Faulty(r, k) <=> Faulty(t, Behind(t, k))
                            /\ FacesRoute(r, k) <=> FacesRoute(t, Behind(t, k))
  BY <1>1, <1>2, FaultyBack, FacesBack
<1>6. (\E k \in 0 .. n - 1 : Faulty(r, k)) <=> \E k \in 0 .. n - 1 : Faulty(t, k)
  <2>1. (\E k \in 0 .. n - 1 : Faulty(r, k)) => \E k \in 0 .. n - 1 : Faulty(t, k)
    BY <1>4, <1>5
  <2>2. ASSUME NEW k \in 0 .. n - 1, Faulty(t, k) PROVE \E j \in 0 .. n - 1 : Faulty(r, j)
    BY <1>4, <1>5, <2>2
  <2> QED
    BY <2>1, <2>2
<1>7. (\E k \in 0 .. n - 1 : ~FacesRoute(r, k)) <=> \E k \in 0 .. n - 1 : ~FacesRoute(t, k)
  <2>1. (\E k \in 0 .. n - 1 : ~FacesRoute(r, k)) => \E k \in 0 .. n - 1 : ~FacesRoute(t, k)
    BY <1>4, <1>5
  <2>2. ASSUME NEW k \in 0 .. n - 1, ~FacesRoute(t, k) PROVE \E j \in 0 .. n - 1 : ~FacesRoute(r, j)
    BY <1>4, <1>5, <2>2
  <2> QED
    BY <2>1, <2>2
<1>8. PICK bad \in BOOLEAN, facing \in BOOLEAN :
        /\ bad <=> \E k \in 0 .. n - 1 : Faulty(t, k)
        /\ facing <=> \E k \in 0 .. n - 1 : ~FacesRoute(t, k)
  <2>1. \E b \in BOOLEAN : b <=> \E k \in 0 .. n - 1 : Faulty(t, k)
    OBVIOUS
  <2>2. \E b \in BOOLEAN : b <=> \E k \in 0 .. n - 1 : ~FacesRoute(t, k)
    OBVIOUS
  <2> QED
    BY <2>1, <2>2
<1>9. /\ n = 0 => Problem(t) = "no start"
      /\ n = 1 => Problem(t) = "too few gates"
      /\ n >= 2 /\ bad => Problem(t) \in {"too narrow", "off track", "coincide"}
      /\ n >= 2 /\ ~bad => Problem(t) = IF facing THEN "facing" ELSE "ok"
  BY <1>1, <1>8, ProblemIs
<1>10. /\ n = 0 => Problem(r) = "no start"
       /\ n = 1 => Problem(r) = "too few gates"
       /\ n >= 2 /\ bad => Problem(r) \in {"too narrow", "off track", "coincide"}
       /\ n >= 2 /\ ~bad => Problem(r) = IF facing THEN "facing" ELSE "ok"
  BY <1>3, <1>6, <1>7, <1>8, ProblemIs
<1>11. CASE n = 0
  BY <1>2, <1>9, <1>10, <1>11
<1>12. CASE n = 1
  <2>1. Problem(t) = "too few gates" /\ Problem(r) = "too few gates"
    BY <1>9, <1>10, <1>12, Zenon
  <2> QED
    BY <1>2, <2>1
<1>13. CASE n >= 2 /\ bad
  BY <1>2, <1>9, <1>10, <1>13
<1>14. CASE n >= 2 /\ ~bad
  <2>1. Problem(t) = (IF facing THEN "facing" ELSE "ok") /\ Problem(r) = IF facing THEN "facing" ELSE "ok"
    BY <1>9, <1>10, <1>14, Zenon
  <2> QED
    BY <1>2, <2>1, Zenon
<1>15. n = 0 \/ n = 1 \/ n >= 2
  OBVIOUS
<1> QED
  BY <1>11, <1>12, <1>13, <1>14, <1>15

\* A leg, and the leg of the route turned round that is the same stretch.
Leg(t, l) == <<l, (l + 1) % Gates(t)>>
Mirror(t, l) == IF IsLoop(t) THEN Gates(t) - 1 - l ELSE Gates(t) - 2 - l

\* A track's legs, from gate to next gate; and the same stretch is between the same gates.
LEMMA LegsIs ==
  ASSUME NEW t \in Roads, IsCircuit(t) => Gates(t) # 2
  PROVE  /\ RouteLegs(t) \in Nat
         /\ Legs(t) = {Leg(t, l) : l \in 0 .. RouteLegs(t) - 1}
         /\ \A l \in 0 .. RouteLegs(t) - 1 :
              /\ l \in 0 .. Gates(t) - 1 /\ (l + 1) % Gates(t) \in 0 .. Gates(t) - 1
              /\ Mirror(t, l) \in 0 .. RouteLegs(t) - 1 /\ Mirror(t, Mirror(t, l)) = l
              /\ Behind(t, Mirror(t, l)) = (l + 1) % Gates(t)
              /\ Behind(t, (Mirror(t, l) + 1) % Gates(t)) = l
<1>1. PICK n \in Nat : n = Gates(t)
  BY GateIs
<1>2. PICK m : m = RouteLegs(t)
  OBVIOUS
<1>3. m = IF n < 2 THEN 0 ELSE IF IsLoop(t) THEN n ELSE n - 1
  BY <1>1, <1>2 DEF RouteLegs
<1>4. IsLoop(t) <=> IsCircuit(t) /\ n >= 3
  BY <1>1 DEF IsLoop
<1>5. m \in Nat
  BY <1>3
<1>6. ASSUME NEW l \in 0 .. m - 1
      PROVE  l \in 0 .. n - 1 /\ (l + 1) % n = IF l + 1 < n THEN l + 1 ELSE 0
  <2>1. n \in Nat \ {0} /\ l \in 0 .. n - 1 /\ l + 1 \in 0 .. n + n - 1
    BY <1>3
  <2>2. PICK x \in 0 .. n + n - 1 : x = l + 1
    BY <2>1
  <2>3. x % n = IF x < n THEN x ELSE x - n
    BY <2>1, RoundALoop
  <2> QED
    BY <2>1, <2>2, <2>3
<1>7. Legs(t) = {Leg(t, l) : l \in 0 .. m - 1}
  <2>1. CASE n < 2
    <3>1. Legs(t) = {} /\ m = 0
      BY <1>1, <1>3, <2>1 DEF Legs
    <3> QED
      BY <3>1
  <2>2. CASE n >= 2 /\ IsLoop(t)
    <3>1. Legs(t) = {<<i, i + 1>> : i \in 0 .. n - 2} \cup {<<n - 1, 0>>}
      BY <1>1, <1>4, <2>2 DEF Legs
    <3>2. m = n
      BY <1>3, <2>2
    <3>3. ASSUME NEW i \in 0 .. n - 2 PROVE i \in 0 .. m - 1 /\ Leg(t, i) = <<i, i + 1>>
      BY <1>1, <1>6, <3>2 DEF Leg
    <3>4. n - 1 \in 0 .. m - 1 /\ Leg(t, n - 1) = <<n - 1, 0>>
      <4>1. n - 1 \in 0 .. m - 1
        BY <2>2, <3>2
      <4>2. (n - 1 + 1) % n = 0
        BY <1>6, <4>1
      <4> QED
        BY <1>1, <4>1, <4>2 DEF Leg
    <3>5. ASSUME NEW l \in 0 .. m - 1 PROVE l \in 0 .. n - 2 \/ l = n - 1
      BY <3>2
    <3> QED
      BY <3>1, <3>3, <3>4, <3>5
  <2>3. CASE n >= 2 /\ ~IsLoop(t)
    <3>1. Legs(t) = {<<i, i + 1>> : i \in 0 .. n - 2}
      BY <1>1, <1>4, <2>3 DEF Legs
    <3>2. m = n - 1
      BY <1>3, <2>3
    <3>3. ASSUME NEW i \in 0 .. n - 2 PROVE i \in 0 .. m - 1 /\ Leg(t, i) = <<i, i + 1>>
      BY <1>1, <1>6, <3>2 DEF Leg
    <3>4. 0 .. m - 1 = 0 .. n - 2
      BY <3>2
    <3> QED
      BY <3>1, <3>3, <3>4
  <2> QED
    BY <2>1, <2>2, <2>3
<1>8. \A k \in 0 .. n - 1 : Behind(t, k) = IF n < 2 THEN k ELSE IF ~IsCircuit(t) THEN n - 1 - k
                           ELSE IF k = 0 THEN 0 ELSE n - k
  BY <1>1, BehindIs
<1>9. ASSUME NEW l \in 0 .. m - 1
      PROVE  /\ Mirror(t, l) \in 0 .. m - 1 /\ Mirror(t, Mirror(t, l)) = l
             /\ Behind(t, Mirror(t, l)) = (l + 1) % n
             /\ Behind(t, (Mirror(t, l) + 1) % n) = l
  <2>1. PICK k : k = Mirror(t, l)
    OBVIOUS
  <2>2. k = IF IsLoop(t) THEN n - 1 - l ELSE n - 2 - l
    BY <1>1, <2>1 DEF Mirror
  <2>3. k \in 0 .. m - 1
    BY <1>3, <2>2
  <2>4. Mirror(t, k) = IF IsLoop(t) THEN n - 1 - k ELSE n - 2 - k
    BY <1>1 DEF Mirror
  <2>5. Mirror(t, k) = l
    BY <2>2, <2>3, <2>4
  <2>6. l \in 0 .. n - 1 /\ k \in 0 .. n - 1
    BY <1>6, <2>3
  <2>7. (l + 1) % n = (IF l + 1 < n THEN l + 1 ELSE 0) /\ (k + 1) % n = (IF k + 1 < n THEN k + 1 ELSE 0)
    BY <1>6, <2>3
  <2>8. n >= 2
    BY <1>3
  <2>9. Behind(t, k) = IF ~IsCircuit(t) THEN n - 1 - k ELSE IF k = 0 THEN 0 ELSE n - k
    BY <1>8, <2>6, <2>8
  <2>10. Behind(t, k) = (l + 1) % n
    BY <1>1, <1>3, <1>4, <2>2, <2>3, <2>6, <2>7, <2>8, <2>9
  <2>11. PICK j \in 0 .. n - 1 : j = (k + 1) % n
    BY <2>6, <2>7, <2>8
  <2>12. Behind(t, j) = IF ~IsCircuit(t) THEN n - 1 - j ELSE IF j = 0 THEN 0 ELSE n - j
    BY <1>8, <2>8, <2>11
  <2>13. Behind(t, j) = l
    BY <1>1, <1>3, <1>4, <2>2, <2>3, <2>6, <2>7, <2>8, <2>11, <2>12
  <2> QED
    BY <2>1, <2>3, <2>5, <2>10, <2>11, <2>13
<1>10. \A l \in 0 .. m - 1 : l \in 0 .. n - 1 /\ (l + 1) % n \in 0 .. n - 1
  <2> SUFFICES ASSUME NEW l \in 0 .. m - 1 PROVE l \in 0 .. n - 1 /\ (l + 1) % n \in 0 .. n - 1
    OBVIOUS
  <2>1. l \in 0 .. n - 1 /\ (l + 1) % n = IF l + 1 < n THEN l + 1 ELSE 0
    BY <1>6
  <2> QED
    BY <2>1
<1> QED
  BY <1>1, <1>2, <1>5, <1>7, <1>9, <1>10

\* How long a stretch is, from place to place.
Span(t, e) == LET d == Minus(Middle(t, e[2]), Middle(t, e[1])) IN Dot(d, d)

\* As many legs of each length one way as the other.
LEMMA LegsBack ==
  ASSUME NEW t \in Roads, IsCircuit(t) => Gates(t) # 2, NEW k
  PROVE  Cardinality({e \in Legs(t) : Span(t, e) = k})
           = Cardinality({e \in Legs(TurnRound(t)) : Span(TurnRound(t), e) = k})
<1>1. PICK n \in Nat, m \in {RouteLegs(t)}, r \in {TurnRound(t)} :
        n = Gates(t) /\ m = RouteLegs(t) /\ r = TurnRound(t)
  BY GateIs
<1>2. /\ r \in Roads /\ Gates(r) = n /\ r.route = t.route
      /\ \A i \in 0 .. n - 1 : Middle(r, i) = Middle(t, Behind(t, i))
  BY <1>1, TurnedIs
<1>3. /\ m \in Nat /\ Legs(t) = {Leg(t, l) : l \in 0 .. m - 1}
      /\ \A l \in 0 .. m - 1 :
              /\ l \in 0 .. n - 1 /\ (l + 1) % n \in 0 .. n - 1
              /\ Mirror(t, l) \in 0 .. m - 1 /\ Mirror(t, Mirror(t, l)) = l
              /\ Behind(t, Mirror(t, l)) = (l + 1) % n
              /\ Behind(t, (Mirror(t, l) + 1) % n) = l
  BY <1>1, LegsIs
<1>4. (IsLoop(r) <=> IsLoop(t)) /\ RouteLegs(r) = m /\ (IsCircuit(r) => n # 2)
  BY <1>1, <1>2 DEF IsLoop, IsCircuit, RouteLegs
<1>5. \A l : Leg(r, l) = Leg(t, l)
  BY <1>1, <1>2 DEF Leg
<1>6. Legs(r) = {Leg(t, l) : l \in 0 .. m - 1}
  BY <1>2, <1>4, <1>5, LegsIs
<1>7. \A l : Leg(t, l)[1] = l /\ Leg(t, l)[2] = (l + 1) % n
  BY <1>1 DEF Leg
<1>8. ASSUME NEW l \in 0 .. m - 1 PROVE Span(r, Leg(t, Mirror(t, l))) = Span(t, Leg(t, l))
  <2>1. PICK j \in 0 .. m - 1 : j = Mirror(t, l)
    BY <1>3
  <2>2. j \in 0 .. n - 1 /\ (j + 1) % n \in 0 .. n - 1 /\ l \in 0 .. n - 1 /\ (l + 1) % n \in 0 .. n - 1
    BY <1>3, <2>1
  <2>3. Middle(r, j) = Middle(t, (l + 1) % n) /\ Middle(r, (j + 1) % n) = Middle(t, l)
    BY <1>2, <1>3, <2>1, <2>2
  <2>4. PICK p \in Int \X Int, q \in Int \X Int : p = Middle(t, l) /\ q = Middle(t, (l + 1) % n)
    BY <1>1, <2>2, GateIs
  <2>5. Span(r, Leg(t, j)) = Dot(Minus(p, q), Minus(p, q))
    BY <1>7, <2>3, <2>4 DEF Span
  <2>6. Span(t, Leg(t, l)) = Dot(Minus(q, p), Minus(q, p))
    BY <1>7, <2>4 DEF Span
  <2> QED
    BY <2>1, <2>5, <2>6, ApartBack
<1> DEFINE A == {e \in Legs(t) : Span(t, e) = k}
           B == {e \in Legs(r) : Span(r, e) = k}
           f == [e \in A |-> Leg(t, Mirror(t, e[1]))]
<1>9. \A e \in A : e[1] \in 0 .. m - 1 /\ e = Leg(t, e[1]) /\ Span(t, e) = k
  BY <1>3, <1>7
<1>10. \A e \in B : e[1] \in 0 .. m - 1 /\ e = Leg(t, e[1]) /\ Span(r, e) = k
  BY <1>6, <1>7
<1>11. ASSUME NEW l \in 0 .. m - 1 PROVE Leg(t, l) \in A <=> Leg(t, Mirror(t, l)) \in B
  BY <1>3, <1>6, <1>8
<1> HIDE DEF A, B
<1>12. f \in [A -> B]
  BY <1>9, <1>11
<1>13. \A a, b \in A : f[a] = f[b] => a = b
  <2> SUFFICES ASSUME NEW a \in A, NEW b \in A, f[a] = f[b] PROVE a = b
    OBVIOUS
  <2>1. Leg(t, Mirror(t, a[1]))[1] = Leg(t, Mirror(t, b[1]))[1]
    OBVIOUS
  <2>2. Mirror(t, a[1]) = Mirror(t, b[1])
    BY <1>7, <2>1
  <2>3. a[1] = b[1]
    BY <1>3, <1>9, <2>2
  <2> QED
    BY <1>9, <2>3
<1>14. \A b \in B : \E a \in A : f[a] = b
  <2> SUFFICES ASSUME NEW b \in B PROVE \E a \in A : f[a] = b
    OBVIOUS
  <2>1. PICK l \in 0 .. m - 1 : b = Leg(t, l)
    BY <1>10
  <2>2. PICK j \in 0 .. m - 1 : j = Mirror(t, l) /\ Mirror(t, j) = l
    BY <1>3
  <2>3. Leg(t, j) \in A
    BY <1>11, <2>1, <2>2
  <2>4. f[Leg(t, j)] = b
    BY <1>7, <2>1, <2>2, <2>3
  <2> QED
    BY <2>3, <2>4
<1>15. IsFiniteSet(A)
  <2>1. IsFiniteSet(0 .. m - 1)
    BY <1>3, FS_Interval
  <2>2. PICK T : T = {Leg(t, l) : l \in 0 .. m - 1}
    OBVIOUS
  <2>3. IsFiniteSet(T)
    <3> DEFINE g == [l \in 0 .. m - 1 |-> Leg(t, l)]
    <3>1. g \in Surjection(0 .. m - 1, T)
      BY <2>2 DEF Surjection
    <3> HIDE DEF g
    <3> QED
      BY <2>1, <3>1, FS_Surjection
  <2>4. A \subseteq T
    BY <1>3, <2>2 DEF A
  <2> QED
    BY <2>3, <2>4, FS_Subset
<1>16. ExistsBijection(A, B)
  <2>1. f \in Injection(A, B)
    BY <1>12, <1>13, Zenon DEF Injection, IsInjective
  <2>2. f \in Surjection(A, B)
    BY <1>12, <1>14 DEF Surjection
  <2> HIDE DEF f
  <2>3. f \in Bijection(A, B)
    BY <2>1, <2>2 DEF Bijection
  <2> QED
    BY <2>3 DEF ExistsBijection
<1>17. Cardinality(A) = Cardinality(B)
  BY <1>15, <1>16, FS_Bijection
<1> QED
  BY <1>1, <1>17 DEF A, B

\* The curve through four places, along one axis, and so many quarters of the way.
Curve(p1, p2, p3, p4, s) ==
    2 * 64 * p2 + 16 * s * (p3 - p1)
    + 4 * s * s * (2 * p1 - 5 * p2 + 4 * p3 - p4)
    + s * s * s * (3 * p2 - p1 - 3 * p3 + p4)

\* It is the same curve from the other end.
LEMMA CurveBack ==
  ASSUME NEW p1 \in Int, NEW p2 \in Int, NEW p3 \in Int, NEW p4 \in Int,
         NEW s \in 0 .. 4, NEW z, z = 4 - s
  PROVE  Curve(p4, p3, p2, p1, z) = Curve(p1, p2, p3, p4, s)
<1>1. s = 0 \/ s = 1 \/ s = 2 \/ s = 3 \/ s = 4
  OBVIOUS
<1>2. CASE s = 0
  BY <1>2 DEF Curve
<1>3. CASE s = 1
  BY <1>3 DEF Curve
<1>4. CASE s = 2
  BY <1>4 DEF Curve
<1>5. CASE s = 3
  BY <1>5 DEF Curve
<1>6. CASE s = 4
  BY <1>6 DEF Curve
<1> QED
  BY <1>1, <1>2, <1>3, <1>4, <1>5, <1>6

\* And through four places.
LEMMA CurvesBack ==
  ASSUME NEW a \in Int \X Int, NEW b \in Int \X Int, NEW c \in Int \X Int, NEW d \in Int \X Int,
         NEW s \in 0 .. 4
  PROVE  /\ Curve(d[1], c[1], b[1], a[1], 4 - s) = Curve(a[1], b[1], c[1], d[1], s)
         /\ Curve(d[2], c[2], b[2], a[2], 4 - s) = Curve(a[2], b[2], c[2], d[2], s)
<1>1. PICK z : z = 4 - s
  OBVIOUS
<1>2. /\ a[1] \in Int /\ b[1] \in Int /\ c[1] \in Int /\ d[1] \in Int
      /\ a[2] \in Int /\ b[2] \in Int /\ c[2] \in Int /\ d[2] \in Int
  OBVIOUS
<1>3. /\ Curve(d[1], c[1], b[1], a[1], z) = Curve(a[1], b[1], c[1], d[1], s)
      /\ Curve(d[2], c[2], b[2], a[2], z) = Curve(a[2], b[2], c[2], d[2], s)
  BY <1>1, <1>2, CurveBack
<1> QED
  BY <1>1, <1>3

\* Which four gates the curve is fitted through.
LEMMA RouteIs ==
  ASSUME NEW t, NEW l, NEW s
  PROVE  LET to == (l + 1) % Gates(t)
             p(axis, g) == Middle(t, g)[axis]
             at(axis) == Curve(p(axis, Before(t, l)), p(axis, l), p(axis, to), p(axis, After(t, to)), s)
         IN  RoutePoint(t, l, s) = <<at(1), at(2)>>
BY DEF RoutePoint, Four, Curve

\* The painted line goes the same way.
LEMMA LineBack ==
  ASSUME NEW t \in Roads, IsCircuit(t) => Gates(t) # 2, NEW l \in 0 .. RouteLegs(t) - 1, NEW s \in 0 .. 4
  PROVE  RoutePoint(TurnRound(t), Mirror(t, l), 4 - s) = RoutePoint(t, l, s)
<1>1. PICK n \in Nat, r \in {TurnRound(t)} : n = Gates(t) /\ r = TurnRound(t)
  BY GateIs
<1>2. /\ r \in Roads /\ Gates(r) = n
      /\ \A i \in 0 .. n - 1 : Middle(r, i) = Middle(t, Behind(t, i))
  BY <1>1, TurnedIs
<1>3. /\ RouteLegs(t) \in Nat
      /\ \A k \in 0 .. RouteLegs(t) - 1 :
              /\ k \in 0 .. n - 1 /\ (k + 1) % n \in 0 .. n - 1
              /\ Mirror(t, k) \in 0 .. RouteLegs(t) - 1 /\ Mirror(t, Mirror(t, k)) = k
              /\ Behind(t, Mirror(t, k)) = (k + 1) % n
              /\ Behind(t, (Mirror(t, k) + 1) % n) = k
  BY <1>1, LegsIs
<1>4. PICK j \in 0 .. RouteLegs(t) - 1 : j = Mirror(t, l)
  BY <1>3
<1>5. PICK to \in 0 .. n - 1, from \in 0 .. n - 1 : to = (l + 1) % n /\ from = (j + 1) % n
  BY <1>3
<1>6. l \in 0 .. n - 1 /\ j \in 0 .. n - 1 /\ Behind(t, j) = to /\ Behind(t, from) = l
  BY <1>3, <1>4, <1>5
<1>7. Behind(t, Before(r, j)) = After(t, to) /\ Behind(t, After(r, from)) = Before(t, l)
  BY <1>1, <1>5, <1>6, BesideBack
<1>8. /\ Before(r, j) \in 0 .. n - 1 /\ After(r, from) \in 0 .. n - 1
      /\ Before(t, l) \in 0 .. n - 1 /\ After(t, to) \in 0 .. n - 1
  BY <1>1, <1>2, <1>5, <1>6, BesideIs
<1>9. PICK a \in Int \X Int, b \in Int \X Int, c \in Int \X Int, d \in Int \X Int :
        /\ a = Middle(t, Before(t, l)) /\ b = Middle(t, l) /\ c = Middle(t, to)
        /\ d = Middle(t, After(t, to))
  BY <1>1, <1>5, <1>6, <1>8, GateIs
<1>10. /\ Middle(r, Before(r, j)) = d /\ Middle(r, j) = c /\ Middle(r, from) = b
       /\ Middle(r, After(r, from)) = a
  BY <1>2, <1>5, <1>6, <1>7, <1>8, <1>9
<1>11. RoutePoint(t, l, s) = <<Curve(a[1], b[1], c[1], d[1], s), Curve(a[2], b[2], c[2], d[2], s)>>
  BY <1>1, <1>5, <1>9, RouteIs
<1>12. RoutePoint(r, j, 4 - s) = <<Curve(d[1], c[1], b[1], a[1], 4 - s), Curve(d[2], c[2], b[2], a[2], 4 - s)>>
  BY <1>2, <1>5, <1>10, RouteIs
<1>13. /\ Curve(d[1], c[1], b[1], a[1], 4 - s) = Curve(a[1], b[1], c[1], d[1], s)
       /\ Curve(d[2], c[2], b[2], a[2], 4 - s) = Curve(a[2], b[2], c[2], d[2], s)
  BY CurvesBack
<1> QED
  BY <1>1, <1>4, <1>11, <1>12, <1>13

\* Turned round it is the same road.
LEMMA RoadBack ==
  ASSUME track \in Roads
  PROVE  SameRoadBack
<1> SUFFICES ASSUME IsCircuit(track) => Gates(track) # 2 PROVE SameRoadBack
  BY DEF SameRoadBack
<1>1. \/ Problem(TurnRound(track)) = Problem(track)
      \/ {Problem(TurnRound(track)), Problem(track)} \subseteq {"too narrow", "off track", "coincide"}
  BY ProblemBack, Zenon
<1>2. \A k \in {Span(track, e) : e \in Legs(track)} :
        Cardinality({e \in Legs(track) : Span(track, e) = k})
          = Cardinality({e \in Legs(TurnRound(track)) : Span(TurnRound(track), e) = k})
  BY LegsBack, Zenon
<1>3. \A l \in 0 .. RouteLegs(track) - 1, s \in 0 .. 4 :
         RoutePoint(TurnRound(track), Mirror(track, l), 4 - s) = RoutePoint(track, l, s)
  BY LineBack, Zenon
<1> QED
  BY <1>1, <1>2, <1>3, Zenon DEF SameRoadBack, Span, Mirror

-----------------------------------------------------------------------------
(* The ground: gates that are faced along the route *)

\* Faced along the route a track has the same gates, and each faces from the one before it
\* to the one after.
LEMMA FacedIs ==
  ASSUME NEW t \in Roads
  PROVE  /\ FacedAlong(t) \in Roads /\ Gates(FacedAlong(t)) = Gates(t)
         /\ FacedAlong(t).route = t.route
         /\ Gates(t) >= 2 => \A i \in 0 .. Gates(t) - 1 :
              /\ Middle(FacedAlong(t), i) = Middle(t, i)
              /\ Facing(FacedAlong(t), i) = Minus(Middle(t, After(t, i)), Middle(t, Before(t, i)))
<1>1. PICK n \in Nat : n = Gates(t)
  BY GateIs
<1>2. t.gate \in Seq(Posts) /\ DOMAIN t.gate = 1 .. n /\ t.gate \in [1 .. n -> Posts]
  BY <1>1 DEF Roads, Gates
<1>3. CASE n < 2
  <2>1. FacedAlong(t) = t /\ ~(n >= 2)
    BY <1>1, <1>3 DEF FacedAlong
  <2> QED
    BY <1>1, <2>1
<1>4. CASE n >= 2
  <2> DEFINE way(i) == Minus(Middle(t, After(t, i)), Middle(t, Before(t, i)))
             s == [j \in 1 .. n |-> <<[t.gate[j][1] EXCEPT !.face = way(j - 1)], FALSE>>]
  <2>1. \A i \in 0 .. n - 1 : way(i) \in Int \X Int
    <3> SUFFICES ASSUME NEW i \in 0 .. n - 1 PROVE way(i) \in Int \X Int
      OBVIOUS
    <3>1. Before(t, i) \in 0 .. n - 1 /\ After(t, i) \in 0 .. n - 1
      BY <1>1, BesideIs
    <3>2. Middle(t, Before(t, i)) \in Int \X Int /\ Middle(t, After(t, i)) \in Int \X Int
      BY <1>1, <3>1, GateIs
    <3> QED
      BY <3>2 DEF Minus
  <2>2. FacedAlong(t).gate = s
    BY <1>1, <1>2, <1>4 DEF FacedAlong, Roads
  <2> HIDE DEF way
  <2>3. ASSUME NEW j \in 1 .. n PROVE s[j] \in Posts /\ s[j][1].at = t.gate[j][1].at /\ s[j][1].face = way(j - 1) /\ s[j][2] = FALSE
    <3>1. t.gate[j] \in Posts /\ j - 1 \in 0 .. n - 1 /\ way(j - 1) \in Int \X Int
      BY <1>2, <2>1
    <3>2. PICK g, w : g = t.gate[j][1] /\ w = way(j - 1) /\ w \in Int \X Int
      BY <3>1
    <3>3. g \in [at : Int \X Int, face : Int \X Int, half : Int]
      BY <3>1, <3>2 DEF Posts
    <3>4. /\ [g EXCEPT !.face = w] \in [at : Int \X Int, face : Int \X Int, half : Int]
          /\ [g EXCEPT !.face = w].at = g.at /\ [g EXCEPT !.face = w].face = w
      BY <3>2, <3>3
    <3>5. s[j] = <<[g EXCEPT !.face = w], FALSE>>
      BY <3>2
    <3> QED
      BY <3>2, <3>4, <3>5 DEF Posts
  <2>4. s \in [1 .. n -> Posts] /\ s \in Seq(Posts) /\ Len(s) = n
    <3>1. s \in [1 .. n -> Posts]
      BY <2>3
    <3> HIDE DEF s
    <3>2. PICK u \in [1 .. n -> Posts] : u = s
      BY <3>1
    <3>3. u \in Seq(Posts) /\ Len(u) = n
      OBVIOUS
    <3> QED
      BY <3>2, <3>3
  <2>5. FacedAlong(t) = [ground |-> t.ground, gate |-> s, route |-> t.route, every |-> t.every,
                         cut |-> t.cut]
    BY <1>1, <1>4, <2>2 DEF FacedAlong, Roads
  <2>6. FacedAlong(t) \in Roads /\ Gates(FacedAlong(t)) = n /\ FacedAlong(t).route = t.route
    <3> HIDE DEF s
    <3> QED
      BY <2>4, <2>5 DEF Roads, Gates
  <2>7. ASSUME NEW i \in 0 .. n - 1
        PROVE  Middle(FacedAlong(t), i) = Middle(t, i) /\ Facing(FacedAlong(t), i) = way(i)
    <3>1. i + 1 \in 1 .. n /\ (i + 1) - 1 = i
      OBVIOUS
    <3>2. GateAt(FacedAlong(t), i) = s[i + 1] /\ GateAt(t, i) = t.gate[i + 1]
      BY <2>2 DEF GateAt
    <3>3. /\ s[i + 1][1].at = t.gate[i + 1][1].at /\ s[i + 1][2] = FALSE
          /\ s[i + 1][1].face = way(i)
      BY <2>3, <3>1
    <3> HIDE DEF s
    <3> QED
      BY <3>2, <3>3 DEF Middle, Facing, Site
  <2> QED
    BY <1>1, <2>6, <2>7 DEF way
<1> QED
  BY <1>1, <1>3, <1>4

\* gs_track.h:380: none that is faced along the route is turned across it.
LEMMA FacedSound ==
  ASSUME NEW t \in Roads
  PROVE  Problem(FacedAlong(t)) # "facing"
<1>1. PICK n \in Nat, r \in {FacedAlong(t)} : n = Gates(t) /\ r = FacedAlong(t)
  BY GateIs
<1>2. r \in Roads /\ Gates(r) = n /\ r.route = t.route
  BY <1>1, FacedIs
<1>3. SUFFICES ASSUME n >= 2, ~ \E i \in 0 .. n - 1 : Faulty(r, i) PROVE \A i \in 0 .. n - 1 : FacesRoute(r, i)
  <2>1. PICK bad \in BOOLEAN, facing \in BOOLEAN :
          /\ bad <=> \E k \in 0 .. n - 1 : Faulty(r, k)
          /\ facing <=> \E k \in 0 .. n - 1 : ~FacesRoute(r, k)
    <3>1. \E b \in BOOLEAN : b <=> \E k \in 0 .. n - 1 : Faulty(r, k)
      OBVIOUS
    <3>2. \E b \in BOOLEAN : b <=> \E k \in 0 .. n - 1 : ~FacesRoute(r, k)
      OBVIOUS
    <3> QED
      BY <3>1, <3>2
  <2>2. /\ n = 0 => Problem(r) = "no start"
        /\ n = 1 => Problem(r) = "too few gates"
        /\ n >= 2 /\ bad => Problem(r) \in {"too narrow", "off track", "coincide"}
        /\ n >= 2 /\ ~bad => Problem(r) = IF facing THEN "facing" ELSE "ok"
    BY <1>2, <2>1, ProblemIs, Zenon
  <2>3. n = 0 \/ n = 1 \/ n >= 2
    OBVIOUS
  <2>4. n >= 2 /\ ~bad => ~facing
    BY <1>3, <2>1
  <2>5. n >= 2 /\ ~bad => Problem(r) = "ok"
    BY <2>2, <2>4, Zenon
  <2>6. CASE n = 0 \/ n = 1
    BY <2>2, <2>6
  <2>7. CASE n >= 2
    <3>1. Problem(r) \in {"too narrow", "off track", "coincide", "ok"}
      BY <2>2, <2>5, <2>7
    <3> QED
      BY <3>1
  <2> QED
    BY <1>1, <2>3, <2>6, <2>7, Zenon
<1>4. SUFFICES ASSUME NEW i \in 0 .. n - 1 PROVE FacesRoute(r, i)
  OBVIOUS
<1>5. IsLoop(r) <=> IsLoop(t)
  BY <1>1, <1>2 DEF IsLoop, IsCircuit
<1>6. IsLoop(t) => n >= 3
  BY <1>1 DEF IsLoop
<1>7. /\ Before(r, i) = IF i > 0 THEN i - 1 ELSE IF IsLoop(r) THEN n - 1 ELSE 0
      /\ After(r, i) = IF i + 1 < n THEN i + 1 ELSE IF IsLoop(r) THEN 0 ELSE i
      /\ Before(t, i) = IF i > 0 THEN i - 1 ELSE IF IsLoop(t) THEN n - 1 ELSE 0
      /\ After(t, i) = IF i + 1 < n THEN i + 1 ELSE IF IsLoop(t) THEN 0 ELSE i
  BY <1>1, <1>2, BesideIs
<1>8. PICK p \in 0 .. n - 1, q \in 0 .. n - 1 : p = Before(r, i) /\ q = After(r, i)
  BY <1>2, BesideIs
<1>9. p = Before(t, i) /\ q = After(t, i) /\ p # q
  BY <1>3, <1>5, <1>6, <1>7, <1>8
<1>10. /\ Middle(r, p) = Middle(t, p) /\ Middle(r, q) = Middle(t, q)
       /\ Facing(r, i) = Minus(Middle(t, q), Middle(t, p))
  BY <1>1, <1>3, <1>9, FacedIs
<1>11. PICK d : d = Minus(Middle(r, q), Middle(r, p))
  OBVIOUS
<1>12. ~(Dot(d, d) < Sq(LeastApart))
  BY <1>2, <1>3, <1>9, <1>11 DEF Faulty
<1>13. Dot(d, d) \in Nat
  <2>1. Middle(r, p) \in Int \X Int /\ Middle(r, q) \in Int \X Int
    BY <1>2, GateIs
  <2> QED
    BY <1>11, <2>1, ApartBack
<1>14. Sq(LeastApart) >= 1 /\ Sq(LeastApart) \in Int
  <2>1. PICK x \in Nat \ {0} : x = LeastApart
    BY GroundAssumption, Zenon
  <2>2. x * x \in Nat \ {0}
    BY Squares, Zenon
  <2> QED
    BY <2>1, <2>2 DEF Sq
<1>15. PICK m \in Nat : m = Dot(d, d) /\ m > 0
  BY <1>12, <1>13, <1>14
<1>16. m * m \in Nat /\ 4 * (m * m) >= m * m
  OBVIOUS
<1>17. AlongIt(d, d)
  BY <1>15, <1>16 DEF AlongIt, Sq
<1> QED
  BY <1>8, <1>10, <1>11, <1>17 DEF FacesRoute

-----------------------------------------------------------------------------
(* The ground: the arc of a jump *)

\* What holds of nothing and goes on from each number to the next holds of all of them.
LEMMA StepByStep ==
  ASSUME NEW P, NEW n \in Nat, 0 \in P, \A k \in 1 .. n : k - 1 \in P => k \in P
  PROVE  \A k \in 0 .. n : k \in P
<1> DEFINE bad == {k \in 0 .. n : k \notin P}
<1>1. SUFFICES ASSUME bad # {} PROVE FALSE
  OBVIOUS
<1>2. PICK k \in bad : \A j \in bad : k <= j
  <2>1. bad \subseteq Nat
    OBVIOUS
  <2> HIDE DEF bad
  <2> QED
    BY <1>1, <2>1, LeastNat
<1>3. k # 0
  BY <1>2
<1>4. k - 1 \in 0 .. n /\ k - 1 \notin bad
  BY <1>2, <1>3
<1> QED
  BY <1>2, <1>3, <1>4

\* The points kept of a flight so far, and what one more tick makes of them.
Samples == [at : Seq(Nat), every : Nat \ {0}]
NoSample == [at |-> <<>>, every |-> 1]
Sampling(s, i) ==
    IF i % s.every # 0 THEN s
    ELSE IF Len(s.at) < ArcMax THEN [s EXCEPT !.at = Append(@, i)]
    ELSE [at |-> Append(Thinned(s.at), i), every |-> 2 * s.every]

\* Every other of so many points.
LEMMA ThinnedIs ==
  ASSUME NEW p \in Seq(Nat)
  PROVE  /\ Thinned(p) \in Seq(Nat) /\ Len(Thinned(p)) = (Len(p) + 1) \div 2
         /\ \A k \in 1 .. Len(Thinned(p)) : 2 * k - 1 \in 1 .. Len(p) /\ Thinned(p)[k] = p[2 * k - 1]
<1>1. PICK n \in Nat, m \in Nat : n = Len(p) /\ m = (n + 1) \div 2
  OBVIOUS
<1>2. 2 * m <= n + 1
  BY <1>1
<1>3. \A k \in 1 .. m : 2 * k - 1 \in 1 .. n
  BY <1>2
<1>4. p \in [1 .. n -> Nat]
  BY <1>1
<1>5. Thinned(p) = [k \in 1 .. m |-> p[2 * k - 1]]
  BY <1>1 DEF Thinned
<1>6. \A k \in 1 .. m : p[2 * k - 1] \in Nat
  BY <1>3, <1>4
<1>7. Thinned(p) \in [1 .. m -> Nat] /\ \A k \in 1 .. m : Thinned(p)[k] = p[2 * k - 1]
  BY <1>5, <1>6
<1>8. PICK u \in [1 .. m -> Nat] : u = Thinned(p)
  BY <1>7
<1>9. u \in Seq(Nat) /\ Len(u) = m
  OBVIOUS
<1> QED
  BY <1>1, <1>3, <1>7, <1>8, <1>9

\* A tick more is a sampling still.
LEMMA SamplingIs ==
  ASSUME NEW s \in Samples, NEW i \in Nat
  PROVE  Sampling(s, i) \in Samples
<1>1. s.at \in Seq(Nat) /\ s.every \in Nat \ {0}
  BY DEF Samples
<1>2. \A q \in Seq(Nat) : Append(q, i) \in Seq(Nat)
  BY AppendProperties
<1>3. CASE i % s.every # 0
  BY <1>3 DEF Sampling
<1>4. CASE i % s.every = 0 /\ Len(s.at) < ArcMax
  <2>1. PICK a \in Seq(Nat) : a = Append(s.at, i)
    BY <1>1, <1>2, Zenon
  <2>2. Sampling(s, i) = [at |-> a, every |-> s.every]
    BY <1>4, <2>1 DEF Sampling, Samples
  <2> QED
    BY <1>1, <2>2 DEF Samples
<1>5. CASE i % s.every = 0 /\ ~(Len(s.at) < ArcMax)
  <2>1. Thinned(s.at) \in Seq(Nat)
    BY <1>1, ThinnedIs
  <2>2. PICK a \in Seq(Nat) : a = Append(Thinned(s.at), i)
    BY <2>1, <1>2, Zenon
  <2>3. PICK e \in Nat \ {0} : e = 2 * s.every
    BY <1>1
  <2>4. Sampling(s, i) = [at |-> a, every |-> e]
    BY <1>5, <2>2, <2>3 DEF Sampling
  <2> QED
    BY <2>4 DEF Samples
<1> QED
  BY <1>3, <1>4, <1>5

\* There is one such function, and Sampled is it: it is what its definition says it is.
LEMMA SampledIs ==
  /\ Sampled[0] = NoSample
  /\ \A n \in 1 .. Flight : Sampled[n] = Sampling(Sampled[n - 1], n - 1)
<1> DEFINE upTo == {k \in 0 .. Flight : \E g \in [0 .. k -> Samples] :
                      g[0] = NoSample /\ \A j \in 1 .. k : g[j] = Sampling(g[j - 1], j - 1)}
<1>1. Flight \in Nat
  BY GroundAssumption
<1>2. NoSample \in Samples
  <2>1. PICK e : e = <<>>
    OBVIOUS
  <2>2. e \in Seq(Nat)
    BY <2>1
  <2>3. [at |-> e, every |-> 1] \in Samples
    BY <2>2 DEF Samples
  <2> QED
    BY <2>1, <2>3 DEF NoSample
<1>3. 0 \in upTo
  <2>1. PICK g \in [0 .. 0 -> Samples] : g[0] = NoSample
    <3>1. PICK g : g = [x \in 0 .. 0 |-> NoSample]
      OBVIOUS
    <3>2. g \in [0 .. 0 -> Samples] /\ g[0] = NoSample
      BY <1>2, <3>1
    <3> QED
      BY <3>2
  <2>2. \A j \in 1 .. 0 : g[j] = Sampling(g[j - 1], j - 1)
    OBVIOUS
  <2> QED
    BY <1>1, <2>1, <2>2
<1>4. ASSUME NEW k \in 1 .. Flight, k - 1 \in upTo PROVE k \in upTo
  <2>1. PICK g \in [0 .. k - 1 -> Samples] :
          g[0] = NoSample /\ \A j \in 1 .. k - 1 : g[j] = Sampling(g[j - 1], j - 1)
    BY <1>4
  <2>2. PICK last \in Samples : last = g[k - 1]
    BY <1>1
  <2>3. PICK new \in Samples : new = Sampling(last, k - 1)
    BY <1>1, SamplingIs
  <2>4. PICK h : h = [x \in 0 .. k |-> IF x = k THEN new ELSE g[x]]
    OBVIOUS
  <2>5. h \in [0 .. k -> Samples] /\ h[k] = new /\ \A x \in 0 .. k - 1 : h[x] = g[x]
    BY <1>1, <2>4
  <2>6. h[0] = NoSample
    BY <1>1, <2>1, <2>5
  <2>7. ASSUME NEW j \in 1 .. k PROVE h[j] = Sampling(h[j - 1], j - 1)
    <3>1. j - 1 \in 0 .. k - 1 /\ h[j - 1] = g[j - 1]
      BY <1>1, <2>5
    <3>2. CASE j = k
      BY <2>2, <2>3, <2>5, <3>1, <3>2
    <3>3. CASE j # k
      <4>1. j \in 1 .. k - 1
        BY <1>1, <3>3
      <4> QED
        BY <2>1, <2>5, <3>1, <4>1
    <3> QED
      BY <3>2, <3>3
  <2>8. k \in 0 .. Flight
    BY <1>1
  <2> QED
    BY <2>5, <2>6, <2>7, <2>8
<1>5. Flight \in upTo
  <2> HIDE DEF upTo
  <2> QED
    BY <1>1, <1>3, <1>4, StepByStep
<1>6. PICK g \in [0 .. Flight -> Samples] :
        g[0] = NoSample /\ \A j \in 1 .. Flight : g[j] = Sampling(g[j - 1], j - 1)
  BY <1>5
<1> DEFINE IsIt(f) == f = [n \in 0 .. Flight |-> IF n = 0 THEN NoSample ELSE Sampling(f[n - 1], n - 1)]
<1>7. IsIt(g)
  <2>1. \A n \in 0 .. Flight : g[n] = IF n = 0 THEN NoSample ELSE Sampling(g[n - 1], n - 1)
    BY <1>1, <1>6
  <2> QED
    BY <2>1
<1>8. Sampled = CHOOSE f : IsIt(f)
  BY DEF Sampled, Sampling, NoSample
<1> HIDE DEF IsIt
<1>9. IsIt(Sampled)
  BY <1>7, <1>8, Zenon
<1>10. Sampled = [n \in 0 .. Flight |-> IF n = 0 THEN NoSample ELSE Sampling(Sampled[n - 1], n - 1)]
  BY <1>9 DEF IsIt
<1>11. \A n \in 0 .. Flight : Sampled[n] = IF n = 0 THEN NoSample ELSE Sampling(Sampled[n - 1], n - 1)
  <2> SUFFICES ASSUME NEW n \in 0 .. Flight
               PROVE  Sampled[n] = IF n = 0 THEN NoSample ELSE Sampling(Sampled[n - 1], n - 1)
    OBVIOUS
  <2>1. PICK f : f = Sampled
    OBVIOUS
  <2>2. f = [x \in 0 .. Flight |-> IF x = 0 THEN NoSample ELSE Sampling(f[x - 1], x - 1)]
    BY <1>10, <2>1, Zenon
  <2>3. f[n] = IF n = 0 THEN NoSample ELSE Sampling(f[n - 1], n - 1)
    BY <2>2
  <2> QED
    BY <2>1, <2>3
<1> QED
  BY <1>1, <1>11

\* A number that a stride divides is some strides.
LEMMA Strides ==
  ASSUME NEW k \in Nat \ {0}, NEW x \in Nat
  PROVE  x % k = 0 <=> \E q \in Nat : x = k * q
<1>1. /\ x = k * (x \div k) + (x % k) /\ x % k \in 0 .. k - 1 /\ x \div k \in Int
  OBVIOUS
<1>2. ASSUME x % k = 0 PROVE \E q \in Nat : x = k * q
  <2>1. PICK q \in Int : q = x \div k
    BY <1>1
  <2>2. x = k * q
    BY <1>1, <1>2, <2>1
  <2>3. q < 0 => k * q < 0
    OBVIOUS
  <2> QED
    BY <2>2, <2>3
<1>3. ASSUME NEW q \in Nat, x = k * q PROVE x % k = 0
  <2>1. PICK d \in Int : d = x \div k
    BY <1>1
  <2>2. k * q = k * d + (x % k)
    BY <1>1, <1>3, <2>1
  <2>3. k * (q - d) = k * q - k * d /\ q - d \in Int /\ k * q \in Int /\ k * d \in Int
    OBVIOUS
  <2> DEFINE a == k * q
             b == k * d
             c == k * (q - d)
  <2>9. a = b + (x % k) /\ c = a - b /\ a \in Int /\ b \in Int /\ x % k \in Int
    BY <2>2, <2>3, <1>1
  <2> HIDE DEF a, b, c
  <2>10. c = x % k
    BY <2>9
  <2>4. k * (q - d) = x % k
    BY <2>10 DEF c
  <2>5. PICK e \in Int : e = q - d
    BY <2>3
  <2>6. k * e \in 0 .. k - 1
    BY <2>4, <2>5, <1>1
  <2>7. (e < 0 => k * e < 0) /\ (e > 0 => k * e >= k)
    OBVIOUS
  <2>8. e = 0
    BY <2>6, <2>7
  <2> QED
    BY <2>4, <2>5, <2>8
<1> QED
  BY <1>2, <1>3

\* What has been flown so far, when the last point kept is the last multiple there was.
LEMMA LastMultiple ==
  ASSUME NEW e \in Nat \ {0}, NEW n \in Nat, NEW i \in Nat, i <= n * e, n >= 1 => (n - 1) * e < i
  PROVE  IF i % e = 0 THEN i = n * e ELSE i < n * e
<1>1. n * e = e * n /\ (n - 1) * e = e * n - e /\ e * n \in Nat
  OBVIOUS
<1>2. CASE i % e = 0
  <2>1. PICK q \in Nat : i = e * q
    BY <1>2, Strides
  <2>2. PICK d \in Int : d = n - q
    OBVIOUS
  <2>3. e * d = e * n - e * q
    BY <2>2
  <2>4. (d < 0 => e * d < 0) /\ (d > 0 => e * d >= e)
    OBVIOUS
  <2>5. e * d >= 0 /\ (n >= 1 => e * d < e)
    BY <1>1, <2>1, <2>3
  <2>6. d = 0
    BY <2>2, <2>4, <2>5
  <2> QED
    BY <1>1, <1>2, <2>1, <2>2, <2>6
<1>3. CASE i % e # 0
  <2>1. PICK x \in Nat : x = e * n
    BY <1>1
  <2>2. x % e = 0
    BY <2>1, Strides
  <2>3. i # x
    BY <1>3, <2>2
  <2> QED
    BY <1>1, <1>3, <2>1, <2>3
<1> QED
  BY <1>2, <1>3

\* So many points at so even a distance: they reach to where the flight has got to, and no
\* further.
Reaching(s, n) ==
    /\ s \in Samples /\ Len(s.at) <= ArcMax
    /\ \A k \in 1 .. Len(s.at) : s.at[k] = (k - 1) * s.every
    /\ n <= Len(s.at) * s.every
    /\ Len(s.at) >= 1 => (Len(s.at) - 1) * s.every < n

\* A tick keeps them even, whether it is kept, or is not, or every other one is dropped for it.
LEMMA ReachingOn ==
  ASSUME NEW s, NEW i \in Nat, Reaching(s, i)
  PROVE  Reaching(Sampling(s, i), i + 1)
<1>1. PICK p \in Seq(Nat), e \in Nat \ {0} : p = s.at /\ e = s.every
  BY DEF Reaching, Samples
<1>2. PICK n \in Nat : n = Len(p)
  OBVIOUS
<1>3. /\ n <= ArcMax /\ (\A k \in 1 .. n : p[k] = (k - 1) * e)
      /\ i <= n * e /\ (n >= 1 => (n - 1) * e < i)
  BY <1>1, <1>2 DEF Reaching
<1>4. IF i % e = 0 THEN i = n * e ELSE i < n * e
  BY <1>3, LastMultiple
<1>5. Sampling(s, i) \in Samples /\ s \in Samples
  BY SamplingIs DEF Reaching
<1>6. n * e \in Nat /\ (n + 1) * e = n * e + e /\ (n - 1) * e = n * e - e
  OBVIOUS
<1>7. ArcMax \in Nat \ {0} /\ ArcMax % 2 = 0
  BY GroundAssumption
<1>8. CASE i % e # 0
  <2>1. Sampling(s, i) = s
    BY <1>1, <1>8 DEF Sampling
  <2>2. i < n * e
    BY <1>4, <1>8
  <2>3. i + 1 <= n * e /\ (n >= 1 => (n - 1) * e < i + 1)
    BY <1>3, <1>6, <2>2
  <2> QED
    BY <1>1, <1>2, <1>3, <1>5, <2>1, <2>3 DEF Reaching
<1>9. CASE i % e = 0 /\ n < ArcMax
  <2>1. i = n * e
    BY <1>4, <1>9
  <2>2. PICK q : q = Append(p, i)
    OBVIOUS
  <2>3. q \in Seq(Nat) /\ Len(q) = n + 1 /\ q[n + 1] = i /\ \A k \in 1 .. n : q[k] = p[k]
    BY <1>2, <2>2, AppendProperties
  <2>4. Sampling(s, i) = [s EXCEPT !.at = q]
    BY <1>1, <1>2, <1>9, <2>2 DEF Sampling
  <2>5. Sampling(s, i).at = q /\ Sampling(s, i).every = e
    BY <1>1, <1>5, <2>4 DEF Samples
  <2>6. \A k \in 1 .. n + 1 : q[k] = (k - 1) * e
    <3> SUFFICES ASSUME NEW k \in 1 .. n + 1 PROVE q[k] = (k - 1) * e
      OBVIOUS
    <3>1. CASE k = n + 1
      <4>1. k - 1 = n
        BY <3>1
      <4> QED
        BY <2>1, <2>3, <3>1, <4>1
    <3>2. CASE k # n + 1
      <4>1. k \in 1 .. n
        BY <3>2
      <4> QED
        BY <1>3, <2>3, <4>1
    <3> QED
      BY <3>1, <3>2
  <2>7. i + 1 <= (n + 1) * e /\ ((n + 1) - 1) * e < i + 1
    <3>1. (n + 1) - 1 = n
      OBVIOUS
    <3> QED
      BY <1>6, <2>1, <3>1
  <2>8. n + 1 <= ArcMax
    BY <1>7, <1>9
  <2> QED
    BY <1>5, <2>3, <2>5, <2>6, <2>7, <2>8 DEF Reaching
<1>10. CASE i % e = 0 /\ ~(n < ArcMax)
  <2>1. n = ArcMax /\ i = n * e
    BY <1>3, <1>4, <1>7, <1>10
  <2>2. PICK m \in Nat : n = 2 * m /\ m >= 1
    <3>1. n % 2 = 0 /\ n >= 1
      BY <1>7, <2>1
    <3>2. PICK m \in Nat : n = 2 * m
      BY <3>1, Strides
    <3> QED
      BY <3>1, <3>2
  <2>3. PICK h : h = Thinned(p)
    OBVIOUS
  <2>4. (n + 1) \div 2 = m
    BY <2>2
  <2>5. h \in Seq(Nat) /\ Len(h) = m /\ \A k \in 1 .. m : 2 * k - 1 \in 1 .. n /\ h[k] = p[2 * k - 1]
    BY <1>2, <2>3, <2>4, ThinnedIs
  <2>6. PICK q : q = Append(h, i)
    OBVIOUS
  <2>7. q \in Seq(Nat) /\ Len(q) = m + 1 /\ q[m + 1] = i /\ \A k \in 1 .. m : q[k] = h[k]
    BY <2>5, <2>6, AppendProperties
  <2>8. PICK f \in Nat \ {0} : f = 2 * e
    OBVIOUS
  <2>9. Sampling(s, i) = [at |-> q, every |-> f]
    BY <1>1, <1>2, <1>10, <2>3, <2>6, <2>8 DEF Sampling
  <2>10. m * f = n * e /\ (m + 1) * f = m * f + f /\ m * f \in Nat
    BY <2>2, <2>8
  <2>11. \A k \in 1 .. m + 1 : q[k] = (k - 1) * f
    <3> SUFFICES ASSUME NEW k \in 1 .. m + 1 PROVE q[k] = (k - 1) * f
      OBVIOUS
    <3>1. CASE k = m + 1
      <4>1. k - 1 = m
        BY <3>1
      <4> QED
        BY <2>1, <2>7, <2>10, <3>1, <4>1
    <3>2. CASE k # m + 1
      <4>1. k \in 1 .. m
        BY <3>2
      <4>2. q[k] = p[2 * k - 1] /\ 2 * k - 1 \in 1 .. n
        BY <2>5, <2>7, <4>1
      <4>3. q[k] = ((2 * k - 1) - 1) * e
        BY <1>3, <4>2
      <4>4. ((2 * k - 1) - 1) * e = (k - 1) * (2 * e)
        BY <4>1
      <4> QED
        BY <2>8, <4>3, <4>4
    <3> QED
      BY <3>1, <3>2
  <2>12. i + 1 <= (m + 1) * f /\ ((m + 1) - 1) * f < i + 1
    <3>1. (m + 1) - 1 = m
      OBVIOUS
    <3> QED
      BY <2>1, <2>8, <2>10, <3>1
  <2>13. m + 1 <= ArcMax
    BY <2>1, <2>2
  <2> QED
    BY <1>5, <2>7, <2>9, <2>11, <2>12, <2>13 DEF Reaching
<1> QED
  BY <1>1, <1>2, <1>8, <1>9, <1>10

\* So it is at every tick of any flight.
LEMMA SampledReaches ==
  \A n \in 0 .. Flight : Reaching(Sampled[n], n)
<1> DEFINE T == {n \in 0 .. Flight : Reaching(Sampled[n], n)}
<1>1. Flight \in Nat /\ ArcMax \in Nat
  BY GroundAssumption
<1>2. 0 \in T
  <2>1. PICK e : e = <<>>
    OBVIOUS
  <2>2. e \in Seq(Nat) /\ Len(e) = 0
    BY <2>1
  <2>3. PICK s : s = [at |-> e, every |-> 1]
    OBVIOUS
  <2>4. s \in Samples /\ s.at = e /\ s.every = 1
    BY <2>2, <2>3 DEF Samples
  <2>5. Reaching(s, 0)
    BY <1>1, <2>2, <2>4 DEF Reaching
  <2>6. Sampled[0] = s
    BY <2>1, <2>3, SampledIs DEF NoSample
  <2> QED
    BY <1>1, <2>5, <2>6
<1>3. ASSUME NEW k \in 1 .. Flight, k - 1 \in T PROVE k \in T
  <2>1. k - 1 \in Nat /\ (k - 1) + 1 = k /\ k \in 0 .. Flight
    BY <1>1
  <2>2. Reaching(Sampling(Sampled[k - 1], k - 1), (k - 1) + 1)
    BY <1>3, <2>1, ReachingOn
  <2> QED
    BY <2>1, <2>2, SampledIs
<1>4. \A k \in 0 .. Flight : k \in T
  <2> HIDE DEF T
  <2> QED
    BY <1>1, <1>2, <1>3, StepByStep
<1> QED
  BY <1>4

\* The arc begins where the car is, ends where it lands, and is even between.
LEMMA ArcHolds == ArcIsWhole
<1> SUFFICES ASSUME NEW n \in 1 .. Flight
             PROVE  /\ Len(Arc(n)) <= ArcMax /\ Arc(n)[1] = 0 /\ Arc(n)[Len(Arc(n))] = n
                    /\ \A k \in 1 .. Len(Arc(n)) - 1 :
                          Arc(n)[k] = (k - 1) * Sampled[n].every /\ Arc(n)[k] < n
  BY DEF ArcIsWhole
<1>1. Flight \in Nat /\ ArcMax \in Nat /\ ArcMax >= 2 /\ n \in 0 .. Flight /\ n \in Nat
  BY GroundAssumption
<1>2. PICK p \in Seq(Nat), e \in Nat \ {0}, m \in Nat :
        p = Sampled[n].at /\ e = Sampled[n].every /\ m = Len(p)
  <2>1. Reaching(Sampled[n], n)
    BY <1>1, SampledReaches, Zenon
  <2>2. Sampled[n].at \in Seq(Nat) /\ Sampled[n].every \in Nat \ {0}
    BY <2>1 DEF Reaching, Samples
  <2>3. Len(Sampled[n].at) \in Nat
    BY <2>2
  <2> QED
    BY <2>2, <2>3, Zenon
<1>3. /\ m <= ArcMax /\ (\A k \in 1 .. m : p[k] = (k - 1) * e)
      /\ n <= m * e /\ (m >= 1 => (m - 1) * e < n)
  BY <1>1, <1>2, SampledReaches DEF Reaching
<1>4. m >= 1
  <2>1. m = 0 => m * e = 0
    OBVIOUS
  <2> QED
    BY <1>3, <2>1
<1>5. PICK l \in 1 .. m : l = (IF m >= ArcMax THEN ArcMax - 1 ELSE m) /\ l + 1 <= ArcMax
  BY <1>1, <1>3, <1>4
<1>6. PICK q : q = SubSeq(p, 1, l)
  OBVIOUS
<1>7. q \in Seq(Nat) /\ Len(q) = l /\ \A k \in 1 .. l : q[k] = p[k]
  <2>1. l \in Int /\ 1 \in Int /\ 1 <= l /\ l - 1 + 1 = l
    BY <1>5
  <2>2. \A i \in 1 .. l : p[i] \in Nat
    <3>1. \A i \in 1 .. l : i \in 1 .. Len(p)
      BY <1>2, <1>5
    <3>2. p \in Seq(Nat)
      OBVIOUS
    <3> QED
      BY <3>1, <3>2, ElementOfSeq, Zenon
  <2>3. /\ SubSeq(p, 1, l) \in Seq(Nat)
        /\ Len(SubSeq(p, 1, l)) = IF 1 <= l THEN l - 1 + 1 ELSE 0
        /\ \A i \in 1 .. l - 1 + 1 : SubSeq(p, 1, l)[i] = p[1 + i - 1]
    BY <2>1, <2>2, SubSeqProperties
  <2>4. \A i \in 1 .. l : 1 + i - 1 = i
    OBVIOUS
  <2> QED
    BY <1>6, <2>1, <2>3, <2>4
<1>8. PICK a : a = Append(q, n)
  OBVIOUS
<1>9. Len(a) = l + 1 /\ a[l + 1] = n /\ \A k \in 1 .. l : a[k] = q[k]
  BY <1>1, <1>7, <1>8, AppendProperties
<1>10. Arc(n) = a
  BY <1>2, <1>5, <1>6, <1>8 DEF Arc
<1>11. ASSUME NEW k \in 1 .. l PROVE a[k] = (k - 1) * e /\ (k - 1) * e < n
  <2>1. k \in 1 .. m
    BY <1>5
  <2>2. PICK d \in Nat : d = m - k
    BY <2>1
  <2>3. m - 1 = (k - 1) + d
    BY <2>2
  <2>4. PICK u \in Int : u = k - 1
    OBVIOUS
  <2>5. (u + d) * e = u * e + d * e /\ d * e >= 0 /\ u * e \in Int /\ d * e \in Int
    OBVIOUS
  <2>6. (k - 1) * e < n
    BY <1>1, <1>3, <1>4, <2>3, <2>4, <2>5
  <2> QED
    BY <1>3, <1>7, <1>9, <2>1, <2>6
<1>12. a[1] = 0
  <2>1. 1 \in 1 .. l /\ (1 - 1) * e = 0
    BY <1>5
  <2> QED
    BY <1>11, <2>1
<1>13. Len(a) <= ArcMax /\ a[Len(a)] = n /\ Len(a) - 1 = l
  BY <1>5, <1>9
<1>14. \A k \in 1 .. Len(a) - 1 : a[k] = (k - 1) * Sampled[n].every /\ a[k] < n
  <2>1. ASSUME NEW k \in 1 .. l PROVE a[k] = (k - 1) * Sampled[n].every /\ a[k] < n
    BY <1>2, <1>11
  <2> QED
    BY <1>13, <2>1, Zenon
<1> QED
  BY <1>10, <1>12, <1>13, <1>14, Zenon

-----------------------------------------------------------------------------
(* The ground: gates that are driven through *)

\* So many steps on from a place.
On(p, d, k) == Plus(p, Scaled(k, d))

\* How far in front of a gate that is goes up, or down, by as much with each step.
LEMMA AheadAlong ==
  ASSUME NEW t \in Roads, NEW i \in 0 .. Gates(t) - 1, NEW p \in Int \X Int, NEW d \in Int \X Int, NEW k \in Int
  PROVE  /\ Ahead(t, i, On(p, d, k)) = Ahead(t, i, p) + k * Dot(d, Facing(t, i))
         /\ Ahead(t, i, p) \in Int /\ Dot(d, Facing(t, i)) \in Int
<1>1. PICK p1 \in Int, p2 \in Int : p = <<p1, p2>>
  OBVIOUS
<1>2. PICK d1 \in Int, d2 \in Int : d = <<d1, d2>>
  OBVIOUS
<1>3. Middle(t, i) \in Int \X Int /\ Facing(t, i) \in Int \X Int
  BY GateIs
<1>4. PICK m1 \in Int, m2 \in Int : Middle(t, i) = <<m1, m2>>
  BY <1>3
<1>5. PICK f1 \in Int, f2 \in Int : Facing(t, i) = <<f1, f2>>
  BY <1>3
<1>6. /\ Ahead(t, i, On(p, d, k)) = (p1 + k * d1 - m1) * f1 + (p2 + k * d2 - m2) * f2
      /\ Ahead(t, i, p) = (p1 - m1) * f1 + (p2 - m2) * f2
      /\ Dot(d, Facing(t, i)) = d1 * f1 + d2 * f2
  BY <1>1, <1>2, <1>4, <1>5 DEF Ahead, On, Plus, Scaled, Minus, Dot
<1>7. /\ (p1 + k * d1 - m1) * f1 + (p2 + k * d2 - m2) * f2
           = ((p1 - m1) * f1 + (p2 - m2) * f2) + k * (d1 * f1 + d2 * f2)
      /\ (p1 - m1) * f1 + (p2 - m2) * f2 \in Int /\ d1 * f1 + d2 * f2 \in Int
  OBVIOUS
<1> QED
  BY <1>6, <1>7, Zenon

\* Where the line that is driven along meets the gate's, times what it gets ahead in a step.
Meets(t, i, p, d) ==
    Minus(Scaled(Dot(d, Facing(t, i)), Minus(p, Middle(t, i))), Scaled(Ahead(t, i, p), d))

WithinLine(t, i, p, d) ==
    Sq(Cross(Facing(t, i), Meets(t, i, p, d)))
      <= Sq(Site(t, i).half * Dot(d, Facing(t, i))) * Dot(Facing(t, i), Facing(t, i))

\* Comparing the one is comparing so many times the one.
LEMMA TimesSame ==
  ASSUME NEW w \in Nat \ {0}, NEW x \in Int, NEW y \in Int
  PROVE  w * x <= w * y <=> x <= y
<1>1. PICK z \in Int : z = y - x
  OBVIOUS
<1>2. w * z = w * y - w * x /\ w * x \in Int /\ w * y \in Int
  BY <1>1
<1>3. (z < 0 => w * z < 0) /\ (z >= 0 => w * z >= 0)
  OBVIOUS
<1> QED
  BY <1>1, <1>2, <1>3

\* Whether it is met within the gate is the same for any part of one straight run.
LEMMA WithinAlong ==
  ASSUME NEW t \in Roads, NEW i \in 0 .. Gates(t) - 1, NEW p \in Int \X Int, NEW d \in Int \X Int,
         NEW j \in Int, NEW k \in Int, j < k
  PROVE  Within(t, i, On(p, d, j), On(p, d, k)) <=> WithinLine(t, i, p, d)
<1>1. PICK p1 \in Int, p2 \in Int : p = <<p1, p2>>
  OBVIOUS
<1>2. PICK d1 \in Int, d2 \in Int : d = <<d1, d2>>
  OBVIOUS
<1>3. Middle(t, i) \in Int \X Int /\ Facing(t, i) \in Int \X Int /\ Site(t, i).half \in Int
  BY GateIs
<1>4. PICK m1 \in Int, m2 \in Int : Middle(t, i) = <<m1, m2>>
  BY <1>3
<1>5. PICK f1 \in Int, f2 \in Int : Facing(t, i) = <<f1, f2>>
  BY <1>3
<1>6. PICK h \in Int : h = Site(t, i).half
  BY <1>3
<1>7. PICK a \in Int, s \in Int, w \in Nat \ {0}, n1 \in Int, n2 \in Int :
        /\ a = Ahead(t, i, p) /\ s = Dot(d, Facing(t, i)) /\ w = k - j
        /\ n1 = p1 - m1 /\ n2 = p2 - m2
  BY AheadAlong
<1>8. Ahead(t, i, On(p, d, j)) = a + j * s /\ Ahead(t, i, On(p, d, k)) = a + k * s
  BY <1>7, AheadAlong
<1>9. (a + k * s) - (a + j * s) = w * s
  <2>1. k = j + w
    BY <1>7
  <2>2. (j + w) * s = j * s + w * s /\ j * s \in Int /\ w * s \in Int
    OBVIOUS
  <2> QED
    BY <2>1, <2>2
<1>10. /\ Minus(On(p, d, j), Middle(t, i)) = <<n1 + j * d1, n2 + j * d2>>
      /\ Minus(On(p, d, k), On(p, d, j)) = <<w * d1, w * d2>>
  <2>1. /\ Minus(On(p, d, j), Middle(t, i)) = <<p1 + j * d1 - m1, p2 + j * d2 - m2>>
        /\ Minus(On(p, d, k), On(p, d, j)) = <<(p1 + k * d1) - (p1 + j * d1), (p2 + k * d2) - (p2 + j * d2)>>
    BY <1>1, <1>2, <1>4, <1>5, <1>6 DEF Minus, On, Plus, Scaled
  <2>2. k = j + w
    BY <1>7
  <2>3. /\ (j + w) * d1 = j * d1 + w * d1 /\ j * d1 \in Int /\ w * d1 \in Int
        /\ (j + w) * d2 = j * d2 + w * d2 /\ j * d2 \in Int /\ w * d2 \in Int
    OBVIOUS
  <2>4. /\ (p1 + k * d1) - (p1 + j * d1) = w * d1 /\ (p2 + k * d2) - (p2 + j * d2) = w * d2
        /\ p1 + j * d1 - m1 = n1 + j * d1 /\ p2 + j * d2 - m2 = n2 + j * d2
    BY <1>7, <2>2, <2>3
  <2> QED
    BY <2>1, <2>4
<1>11. PICK b1 \in Int, b2 \in Int : b1 = s * n1 - a * d1 /\ b2 = s * n2 - a * d2
  OBVIOUS
<1>12. Meets(t, i, p, d) = <<b1, b2>>
  BY <1>1, <1>2, <1>4, <1>5, <1>6, <1>7, <1>11 DEF Meets, Minus, Scaled
<1>13. Plus(Scaled(w * s, <<n1 + j * d1, n2 + j * d2>>), Scaled(-(a + j * s), <<w * d1, w * d2>>))
        = <<w * b1, w * b2>>
  <2>1. Plus(Scaled(w * s, <<n1 + j * d1, n2 + j * d2>>), Scaled(-(a + j * s), <<w * d1, w * d2>>))
          = <<(w * s) * (n1 + j * d1) + (-(a + j * s)) * (w * d1),
              (w * s) * (n2 + j * d2) + (-(a + j * s)) * (w * d2)>>
    BY DEF Plus, Scaled
  <2>2. /\ (w * s) * (n1 + j * d1) + (-(a + j * s)) * (w * d1) = w * (s * n1 - a * d1)
        /\ (w * s) * (n2 + j * d2) + (-(a + j * s)) * (w * d2) = w * (s * n2 - a * d2)
    OBVIOUS
  <2> QED
    BY <1>11, <2>1, <2>2
<1>14. PICK c \in Int, e \in Int, z \in Int : /\ c = f1 * b2 - f2 * b1 /\ e = h * s /\ z = f1 * f1 + f2 * f2
  OBVIOUS
<1>15. Within(t, i, On(p, d, j), On(p, d, k))
         <=> Sq(Cross(<<f1, f2>>, <<w * b1, w * b2>>)) <= Sq(h * (w * s)) * Dot(<<f1, f2>>, <<f1, f2>>)
  BY <1>1, <1>2, <1>4, <1>5, <1>6, <1>8, <1>9, <1>10, <1>13 DEF Within
<1>16. /\ Sq(Cross(<<f1, f2>>, <<w * b1, w * b2>>)) = (w * w) * (c * c)
       /\ Sq(h * (w * s)) = (w * w) * (e * e)
       /\ Dot(<<f1, f2>>, <<f1, f2>>) = z
  <2>1. Cross(<<f1, f2>>, <<w * b1, w * b2>>) = f1 * (w * b2) - f2 * (w * b1)
    BY DEF Cross
  <2>2. f1 * (w * b2) - f2 * (w * b1) = w * (f1 * b2 - f2 * b1) /\ h * (w * s) = w * (h * s)
    OBVIOUS
  <2>3. Cross(<<f1, f2>>, <<w * b1, w * b2>>) = w * c /\ h * (w * s) = w * e
    BY <1>14, <2>1, <2>2
  <2>4. (w * c) * (w * c) = (w * w) * (c * c) /\ (w * e) * (w * e) = (w * w) * (e * e)
    OBVIOUS
  <2> QED
    BY <1>14, <2>3, <2>4 DEF Sq, Dot
<1>17. WithinLine(t, i, p, d) <=> c * c <= (e * e) * z
  BY <1>1, <1>2, <1>4, <1>5, <1>6, <1>7, <1>12, <1>14 DEF WithinLine, Sq, Cross, Dot
<1>18. PICK v \in Nat \ {0}, x \in Int, y \in Int : v = w * w /\ x = c * c /\ y = (e * e) * z
  OBVIOUS
<1>19. v * x <= v * y <=> x <= y
  BY TimesSame
<1>20. ((w * w) * (e * e)) * z = (w * w) * ((e * e) * z)
  OBVIOUS
<1> QED
  BY <1>15, <1>16, <1>17, <1>18, <1>19, <1>20

\* A straight run goes through a gate when what it was before now did, or what it is from
\* now on does, and never both; and so it goes past it.
LEMMA RunsOn ==
  ASSUME NEW t \in Roads, NEW i \in 0 .. Gates(t) - 1, NEW p \in Int \X Int, NEW d \in Int \X Int,
         NEW k \in Nat, NEW l \in Nat \ {0},
         NEW x, x = On(p, d, k), NEW y, y = On(p, d, k + l)
  PROVE  /\ Crossed(t, i, p, y) <=> Crossed(t, i, p, x) \/ Crossed(t, i, x, y)
         /\ ~(Crossed(t, i, p, x) /\ Crossed(t, i, x, y))
         /\ Missed(t, i, p, y) <=> Missed(t, i, p, x) \/ Missed(t, i, x, y)
         /\ ~(Missed(t, i, p, x) /\ Missed(t, i, x, y))
<1>1. PICK a \in Int, s \in Int : a = Ahead(t, i, p) /\ s = Dot(d, Facing(t, i))
  BY AheadAlong
<1>2. p = On(p, d, 0)
  BY DEF On, Plus, Scaled
<1>3. PICK u \in Int, v \in Int : u = k * s /\ v = l * s
  OBVIOUS
<1>4. (k + l) * s = u + v
  BY <1>3
<1>5. Ahead(t, i, x) = a + u /\ Ahead(t, i, y) = a + u + v
  <2>1. Ahead(t, i, On(p, d, k)) = a + k * s /\ Ahead(t, i, On(p, d, k + l)) = a + (k + l) * s
    BY <1>1, AheadAlong
  <2> QED
    BY <1>3, <1>4, <2>1
<1>6. /\ s <= 0 => u <= 0 /\ v <= 0
      /\ s > 0 => u >= 0 /\ v > 0
      /\ k = 0 => u = 0
  BY <1>3
<1>7. /\ GetsTo(t, i, p, x) <=> a < 0 /\ a + u >= 0
      /\ GetsTo(t, i, x, y) <=> a + u < 0 /\ a + u + v >= 0
      /\ GetsTo(t, i, p, y) <=> a < 0 /\ a + u + v >= 0
  BY <1>1, <1>5 DEF GetsTo
<1>8. /\ GetsTo(t, i, p, y) <=> GetsTo(t, i, p, x) \/ GetsTo(t, i, x, y)
      /\ ~(GetsTo(t, i, p, x) /\ GetsTo(t, i, x, y))
      /\ GetsTo(t, i, p, x) => k > 0
  BY <1>6, <1>7
<1>9. Within(t, i, p, y) <=> WithinLine(t, i, p, d)
  <2>1. 0 < k + l
    OBVIOUS
  <2>2. Within(t, i, On(p, d, 0), On(p, d, k + l)) <=> WithinLine(t, i, p, d)
    BY <2>1, WithinAlong
  <2> QED
    BY <1>2, <2>2
<1>10. Within(t, i, x, y) <=> WithinLine(t, i, p, d)
  <2>1. k < k + l
    OBVIOUS
  <2>2. Within(t, i, On(p, d, k), On(p, d, k + l)) <=> WithinLine(t, i, p, d)
    BY <2>1, WithinAlong
  <2> QED
    BY <2>2
<1>11. k > 0 => (Within(t, i, p, x) <=> WithinLine(t, i, p, d))
  <2>1. k > 0 => (Within(t, i, On(p, d, 0), On(p, d, k)) <=> WithinLine(t, i, p, d))
    BY WithinAlong
  <2> QED
    BY <1>2, <2>1
<1> QED
  BY <1>8, <1>9, <1>10, <1>11, Zenon DEF Crossed, Missed

\* Who stands still gets to no gate.
LEMMA StandsStill ==
  ASSUME NEW t \in Roads, NEW i \in 0 .. Gates(t) - 1, NEW p \in Int \X Int
  PROVE  ~Crossed(t, i, p, p) /\ ~Missed(t, i, p, p)
<1>1. Ahead(t, i, p) \in Int
  BY AheadAlong
<1>2. ~GetsTo(t, i, p, p)
  BY <1>1 DEF GetsTo
<1> QED
  BY <1>2 DEF Crossed, Missed

-----------------------------------------------------------------------------
(* The ground: what stays *)

\* What each gate counted is what the run as a whole did there.
Told(t, c, count) ==
    \A j \in DOMAIN count :
        /\ count[j].through = IF Crossed(t, j - 1, c.from, c.at) THEN 1 ELSE 0
        /\ count[j].past = IF Missed(t, j - 1, c.from, c.at) THEN 1 ELSE 0

RoverSet == [from : Int \X Int, at : Int \X Int, going : Int \X Int, turns : Nat]

\* A car is some steps on from where it last turned.
Running(t, c, count) ==
    /\ c \in RoverSet /\ \E k \in Nat : c.at = On(c.from, c.going, k)
    /\ DOMAIN count = DOMAIN t.gate /\ Told(t, c, count)

GroundInv ==
    /\ track \in Roads
    /\ \/ rover = <<>> /\ tally = <<>>
       \/ Running(track, rover, tally)

\* At first, and when it is turned, no gate has counted anything.
LEMMA RunningFrom ==
  ASSUME NEW t \in Roads, NEW p \in Int \X Int, NEW d \in Int \X Int, NEW k \in Nat,
         NEW gates, gates = DOMAIN t.gate,
         NEW c, c = [from |-> p, at |-> p, going |-> d, turns |-> k]
  PROVE  Running(t, c, [j \in gates |-> NoTally])
<1>1. c \in RoverSet /\ c.from = p /\ c.at = p /\ c.going = d
  BY DEF RoverSet
<1>2. p = On(p, d, 0)
  BY DEF On, Plus, Scaled
<1>3. DOMAIN t.gate = 1 .. Gates(t) /\ Gates(t) \in Nat
  BY GateIs DEF Gates, Roads
<1>4. ASSUME NEW j \in gates PROVE ~Crossed(t, j - 1, p, p) /\ ~Missed(t, j - 1, p, p)
  <2>1. j - 1 \in 0 .. Gates(t) - 1
    BY <1>3
  <2> QED
    BY <2>1, StandsStill
<1>5. PICK q : q = [j \in gates |-> NoTally]
  OBVIOUS
<1>6. DOMAIN q = gates /\ \A j \in gates : q[j].through = 0 /\ q[j].past = 0
  BY <1>5 DEF NoTally
<1>7. Told(t, c, q)
  BY <1>1, <1>4, <1>6 DEF Told
<1>8. Running(t, c, q)
  BY <1>1, <1>2, <1>6, <1>7 DEF Running
<1> QED
  BY <1>5, <1>8

\* And every tick is counted once.
LEMMA RunningOn ==
  ASSUME NEW t \in Roads, NEW c, NEW count, Running(t, c, count), NEW l \in Nat \ {0},
         NEW p, p = Plus(c.at, Scaled(l, c.going)), NEW c2, c2 = [c EXCEPT !.at = p],
         NEW count2, count2 = [j \in DOMAIN count |->
                  [through |-> count[j].through + IF Crossed(t, j - 1, c.at, p) THEN 1 ELSE 0,
                   past |-> count[j].past + IF Missed(t, j - 1, c.at, p) THEN 1 ELSE 0]]
  PROVE  Running(t, c2, count2)
<1>1. PICK k \in Nat, o \in Int \X Int, d \in Int \X Int, x \in Int \X Int :
        o = c.from /\ d = c.going /\ x = c.at /\ x = On(o, d, k)
  BY DEF Running, RoverSet
<1>2. p = On(o, d, k + l)
  <2>1. PICK o1 \in Int, o2 \in Int : o = <<o1, o2>>
    OBVIOUS
  <2>2. PICK d1 \in Int, d2 \in Int : d = <<d1, d2>>
    OBVIOUS
  <2>3. On(o, d, k + l) = <<o1 + (k + l) * d1, o2 + (k + l) * d2>>
    BY <2>1, <2>2 DEF On, Plus, Scaled
  <2>4. p = <<(o1 + k * d1) + l * d1, (o2 + k * d2) + l * d2>>
    BY <1>1, <2>1, <2>2 DEF On, Plus, Scaled
  <2>5. /\ (o1 + k * d1) + l * d1 = o1 + (k + l) * d1
        /\ (o2 + k * d2) + l * d2 = o2 + (k + l) * d2
    OBVIOUS
  <2> QED
    BY <2>3, <2>4, <2>5
<1>3. p \in Int \X Int
  <2>1. On(o, d, k + l) \in Int \X Int
    BY DEF On, Plus, Scaled
  <2> QED
    BY <1>2, <2>1
<1>4. c \in RoverSet /\ DOMAIN count = DOMAIN t.gate
  BY DEF Running
<1>5. c2 \in RoverSet /\ c2.from = o /\ c2.at = p /\ c2.going = d
  BY <1>1, <1>3, <1>4 DEF RoverSet
<1>6. DOMAIN t.gate = 1 .. Gates(t) /\ Gates(t) \in Nat
  BY GateIs DEF Gates, Roads
<1>7. DOMAIN count2 = DOMAIN count
  OBVIOUS
<1>8. ASSUME NEW j \in DOMAIN count
      PROVE  /\ count2[j].through = IF Crossed(t, j - 1, o, p) THEN 1 ELSE 0
             /\ count2[j].past = IF Missed(t, j - 1, o, p) THEN 1 ELSE 0
  <2>1. j - 1 \in 0 .. Gates(t) - 1
    BY <1>4, <1>6
  <2>2. /\ count[j].through = IF Crossed(t, j - 1, o, x) THEN 1 ELSE 0
        /\ count[j].past = IF Missed(t, j - 1, o, x) THEN 1 ELSE 0
    BY <1>1 DEF Running, Told
  <2>3. /\ count2[j].through = count[j].through + IF Crossed(t, j - 1, x, p) THEN 1 ELSE 0
        /\ count2[j].past = count[j].past + IF Missed(t, j - 1, x, p) THEN 1 ELSE 0
    BY <1>1
  <2>4. /\ Crossed(t, j - 1, o, p) <=> Crossed(t, j - 1, o, x) \/ Crossed(t, j - 1, x, p)
        /\ ~(Crossed(t, j - 1, o, x) /\ Crossed(t, j - 1, x, p))
        /\ Missed(t, j - 1, o, p) <=> Missed(t, j - 1, o, x) \/ Missed(t, j - 1, x, p)
        /\ ~(Missed(t, j - 1, o, x) /\ Missed(t, j - 1, x, p))
    BY <1>1, <1>2, <2>1, RunsOn
  <2>5. count2[j].through = IF Crossed(t, j - 1, o, p) THEN 1 ELSE 0
    BY <2>2, <2>3, <2>4
  <2>6. count2[j].past = IF Missed(t, j - 1, o, p) THEN 1 ELSE 0
    BY <2>2, <2>3, <2>4
  <2> QED
    BY <2>5, <2>6
<1>9. Told(t, c2, count2)
  BY <1>5, <1>7, <1>8 DEF Told
<1>10. k + l \in Nat
  OBVIOUS
<1> QED
  BY <1>2, <1>4, <1>5, <1>7, <1>9, <1>10 DEF Running

\* A gate more is a track still.
LEMMA AddKeeps ==
  ASSUME GroundInv, AddGate
  PROVE  GroundInv'
<1>1. PICK s \in Sites : track' = [track EXCEPT !.gate = Append(@, <<s, FALSE>>)]
  BY DEF AddGate
<1>2. track \in Roads /\ rover = <<>> /\ UNCHANGED <<rover, tally>>
  BY DEF GroundInv, AddGate, Laying
<1>3. PICK g \in Posts : g = <<s, FALSE>>
  BY GroundAssumption DEF Posts
<1>4. PICK q \in Seq(Posts) : q = track.gate
  BY <1>2 DEF Roads
<1>5. PICK r \in Seq(Posts) : r = Append(q, g)
  BY AppendProperties
<1>6. track' = [track EXCEPT !.gate = r]
  BY <1>1, <1>3, <1>4, <1>5
<1>7. track' \in Roads
  BY <1>2, <1>6 DEF Roads
<1>8. tally = <<>>
  <2>1. CASE rover = <<>> /\ tally = <<>>
    BY <2>1
  <2>2. CASE Running(track, rover, tally)
    <3>1. DOMAIN rover = {"from", "at", "going", "turns"}
      BY <2>2 DEF Running, RoverSet
    <3>2. DOMAIN rover = {}
      BY <1>2
    <3> QED
      BY <3>1, <3>2
  <2> QED
    BY <2>1, <2>2 DEF GroundInv
<1> QED
  BY <1>2, <1>7, <1>8 DEF GroundInv

\* A gate fewer.
LEMMA RemoveKeeps ==
  ASSUME GroundInv, RemoveGate
  PROVE  track' \in Roads
<1>1. PICK i \in DOMAIN track.gate :
        track' = [track EXCEPT !.gate = SubSeq(@, 1, i - 1) \o SubSeq(@, i + 1, Len(@))]
  BY DEF RemoveGate
<1>2. track \in Roads
  BY DEF GroundInv
<1>3. PICK q \in Seq(Posts), n \in Nat : q = track.gate /\ n = Len(q) /\ i \in 1 .. n
  BY <1>2 DEF Roads
<1>4. PICK a \in Seq(Posts) : a = SubSeq(q, 1, i - 1)
  <2>1. PICK lo \in Int, hi \in Int : lo = 1 /\ hi = i - 1
    BY <1>3
  <2>2. \A j \in lo .. hi : j \in 1 .. n
    BY <1>3, <2>1
  <2>3. \A j \in lo .. hi : q[j] \in Posts
    BY <1>3, <2>2
  <2>4. SubSeq(q, lo, hi) \in Seq(Posts)
    BY <2>3, SubSeqProperties
  <2> QED
    BY <2>1, <2>4
<1>5. PICK b \in Seq(Posts) : b = SubSeq(q, i + 1, n)
  <2>1. PICK lo \in Int, hi \in Int : lo = i + 1 /\ hi = n
    BY <1>3
  <2>2. \A j \in lo .. hi : j \in 1 .. n
    BY <1>3, <2>1
  <2>3. \A j \in lo .. hi : q[j] \in Posts
    BY <1>3, <2>2
  <2>4. SubSeq(q, lo, hi) \in Seq(Posts)
    BY <2>3, SubSeqProperties
  <2> QED
    BY <2>1, <2>4
<1>6. PICK r \in Seq(Posts) : r = a \o b
  BY ConcatProperties
<1>7. track' = [track EXCEPT !.gate = r]
  BY <1>1, <1>3, <1>4, <1>5, <1>6
<1> QED
  BY <1>2, <1>7 DEF Roads

\* While it is laid nothing is driven.
LEMMA LayingKeeps ==
  ASSUME GroundInv, Laying, track' \in Roads
  PROVE  GroundInv'
<1>1. rover = <<>> /\ UNCHANGED <<rover, tally>>
  BY DEF Laying
<1>2. tally = <<>>
  <2>1. CASE rover = <<>> /\ tally = <<>>
    BY <2>1
  <2>2. CASE Running(track, rover, tally)
    <3>1. DOMAIN rover = {"from", "at", "going", "turns"}
      BY <2>2 DEF Running, RoverSet
    <3>2. DOMAIN rover = {}
      BY <1>1
    <3> QED
      BY <3>1, <3>2
  <2> QED
    BY <2>1, <2>2 DEF GroundInv
<1> QED
  BY <1>1, <1>2 DEF GroundInv

\* The field's size is so many tiles.
LEMMA FieldIs ==
  W \in Int /\ H \in Int /\ W >= Tile /\ H >= Tile /\ Tile \in Int
<1>1. PICK d \in Nat \ {0}, w \in Nat \ {0}, h \in Nat \ {0} : d = Tile /\ w = Width /\ h = Height
  BY GroundAssumption
<1>2. w * d \in Int /\ h * d \in Int /\ w * d >= d /\ h * d >= d
  OBVIOUS
<1> QED
  BY <1>1, <1>2 DEF W, H

\* Which way along each axis.
Sign(n) == IF n > 0 THEN 1 ELSE IF n < 0 THEN -1 ELSE 0

LEMMA UnitIs ==
  ASSUME NEW a \in Int, NEW b \in Int
  PROVE  Unit(<<a, b>>) = <<Sign(a), Sign(b)>> /\ Sign(a) \in Int /\ Sign(b) \in Int
BY DEF Unit, Sign

LEMMA UnitIsAWay ==
  ASSUME NEW v \in Int \X Int
  PROVE  Unit(v) \in Int \X Int
<1>1. PICK a \in Int, b \in Int : v = <<a, b>>
  OBVIOUS
<1> QED
  BY <1>1, UnitIs

\* Where the grid stands is a place.
LEMMA GridIsPlace ==
  ASSUME NEW t \in Roads, Gates(t) >= 1, NEW slot \in Nat, NEW racing \in Nat
  PROVE  GridOf(t, slot, racing) \in Int \X Int
<1>1. 0 \in 0 .. Gates(t) - 1
  BY GateIs
<1>2. Middle(t, 0) \in Int \X Int /\ Site(t, 0).half \in Int /\ Facing(t, 0) \in Int \X Int
  BY <1>1, GateIs
<1>3. PICK f1 \in Int, f2 \in Int : Unit(Facing(t, 0)) = <<f1, f2>>
  BY <1>2, UnitIsAWay
<1>4. PICK m1 \in Int, m2 \in Int : Middle(t, 0) = <<m1, m2>>
  BY <1>2
<1>5. PICK h \in Int : h = Site(t, 0).half * (2 * slot + 1 - racing)
  BY <1>2
<1>6. PICK c \in Int : c = h \div GridSlots
  <2>1. PICK g \in Nat \ {0} : g = GridSlots
    BY GroundAssumption
  <2>2. h \div g \in Int
    OBVIOUS
  <2> QED
    BY <2>1, <2>2
<1>7. PICK b \in Int : b = Back + Stagger * slot
  BY GroundAssumption
<1>8. PICK lo \in Int, hi1 \in Int, hi2 \in Int :
        lo = Tile \div 2 /\ hi1 = W - Tile \div 2 /\ hi2 = H - Tile \div 2
  <2>1. PICK e \in Int : e = Tile \div 2
    BY GroundAssumption
  <2>2. W \in Int /\ H \in Int
    BY FieldIs
  <2>3. PICK x \in Int : x = W - e
    BY <2>2
  <2>4. PICK y \in Int : y = H - e
    BY <2>2
  <2> QED
    BY <2>1, <2>3, <2>4
<1>9. PICK p1 \in Int, p2 \in Int : p1 = m1 - b * f1 + c * (-f2) /\ p2 = m2 - b * f2 + c * f1
  OBVIOUS
<1>10. Plus(Minus(<<m1, m2>>, Scaled(b, <<f1, f2>>)), Scaled(c, <<-f2, f1>>)) = <<p1, p2>>
  BY <1>9 DEF Plus, Minus, Scaled
<1>11. GridOf(t, slot, racing) = <<Clamp(p1, lo, hi1), Clamp(p2, lo, hi2)>>
  BY <1>3, <1>4, <1>5, <1>6, <1>7, <1>8, <1>10 DEF GridOf
<1>12. Clamp(p1, lo, hi1) \in Int /\ Clamp(p2, lo, hi2) \in Int
  BY DEF Clamp
<1> QED
  BY <1>11, <1>12

\* What goes on on the ground keeps that so.
LEMMA GroundKeeps == GroundInv /\ [GroundNext]_groundVars => GroundInv'
<1> SUFFICES ASSUME GroundInv, [GroundNext]_groundVars PROVE GroundInv'
  OBVIOUS
<1>1. ASSUME AddGate PROVE GroundInv'
  BY <1>1, AddKeeps
<1>2. ASSUME RemoveGate PROVE GroundInv'
  <2>1. Laying /\ track' \in Roads
    BY <1>2, RemoveKeeps DEF RemoveGate
  <2> QED
    BY <2>1, LayingKeeps
<1>3. ASSUME CloseIt PROVE GroundInv'
  <2>1. Laying /\ track \in Roads /\ track' = [track EXCEPT !.route = "circuit"]
    BY <1>3 DEF CloseIt, GroundInv
  <2>2. track' \in Roads
    BY <2>1 DEF Roads
  <2> QED
    BY <2>1, <2>2, LayingKeeps
<1>4. ASSUME FaceThem PROVE GroundInv'
  <2>1. Laying /\ track \in Roads /\ track' = FacedAlong(track)
    BY <1>4 DEF FaceThem, GroundInv
  <2> QED
    BY <2>1, FacedIs, LayingKeeps
<1>5. ASSUME TurnItRound PROVE GroundInv'
  <2>1. Laying /\ track \in Roads /\ track' = TurnRound(track)
    BY <1>5 DEF TurnItRound, GroundInv
  <2> QED
    BY <2>1, TurnedIs, LayingKeeps
<1>6. ASSUME StandOnGrid PROVE GroundInv'
  <2>1. PICK racing \in 1 .. GridSlots : \E slot \in 0 .. racing - 1 :
          rover' = [from |-> GridOf(track, slot, racing), at |-> GridOf(track, slot, racing),
                    going |-> Unit(Facing(track, 0)), turns |-> 0]
    BY <1>6 DEF StandOnGrid
  <2>2. PICK slot \in 0 .. racing - 1 :
          rover' = [from |-> GridOf(track, slot, racing), at |-> GridOf(track, slot, racing),
                    going |-> Unit(Facing(track, 0)), turns |-> 0]
    BY <2>1
  <2>3. /\ tally' = [j \in DOMAIN track.gate |-> NoTally] /\ track' = track
        /\ track \in Roads /\ Problem(track) = "ok"
    BY <1>6 DEF StandOnGrid, GroundInv
  <2>4. Gates(track) \in Nat /\ Gates(track) >= 1
    <3>1. Gates(track) \in Nat
      BY <2>3, GateIs
    <3>2. Gates(track) # 0
      BY <2>3 DEF Problem
    <3> QED
      BY <3>1, <3>2
  <2>5. racing \in Nat /\ slot \in Nat
    BY GroundAssumption
  <2>6. PICK p \in Int \X Int : p = GridOf(track, slot, racing)
    BY <2>3, <2>4, <2>5, GridIsPlace
  <2>7. PICK d \in Int \X Int : d = Unit(Facing(track, 0))
    <3>1. 0 \in 0 .. Gates(track) - 1
      BY <2>4
    <3>2. Facing(track, 0) \in Int \X Int
      BY <2>3, <3>1, GateIs
    <3> QED
      BY <3>2, UnitIsAWay
  <2>8. PICK gates : gates = DOMAIN track.gate
    OBVIOUS
  <2>9. PICK c : c = [from |-> p, at |-> p, going |-> d, turns |-> 0]
    OBVIOUS
  <2>10. Running(track, c, [j \in gates |-> NoTally])
    BY <2>3, <2>8, <2>9, RunningFrom
  <2>11. rover' = c /\ tally' = [j \in gates |-> NoTally]
    BY <2>2, <2>3, <2>6, <2>7, <2>8, <2>9
  <2> QED
    BY <2>3, <2>10, <2>11 DEF GroundInv
<1>7. ASSUME rover # <<>> PROVE Running(track, rover, tally) /\ track \in Roads
  BY <1>7 DEF GroundInv
<1>8. ASSUME Steer PROVE GroundInv'
  <2>1. PICK d \in Steps : rover' = [from |-> rover.at, at |-> rover.at, going |-> d, turns |-> rover.turns + 1]
    BY <1>8 DEF Steer
  <2>2. /\ tally' = [j \in DOMAIN tally |-> NoTally] /\ track' = track
        /\ rover \in RoverSet /\ DOMAIN tally = DOMAIN track.gate /\ track \in Roads
    BY <1>7, <1>8 DEF Steer, Running
  <2>3. PICK p \in Int \X Int, k \in Nat : p = rover.at /\ k = rover.turns + 1
    BY <2>2 DEF RoverSet
  <2>4. d \in Int \X Int
    BY GroundAssumption
  <2>5. PICK gates : gates = DOMAIN track.gate
    OBVIOUS
  <2>6. PICK c : c = [from |-> p, at |-> p, going |-> d, turns |-> k]
    OBVIOUS
  <2>7. Running(track, c, [j \in gates |-> NoTally])
    BY <2>2, <2>4, <2>5, <2>6, RunningFrom
  <2>8. rover' = c /\ tally' = [j \in gates |-> NoTally]
    BY <2>1, <2>2, <2>3, <2>5, <2>6
  <2> QED
    BY <2>2, <2>7, <2>8 DEF GroundInv
<1>9. ASSUME Roll PROVE GroundInv'
  <2>1. PICK k \in 1 .. 2 :
          LET p == Plus(rover.at, Scaled(k, rover.going))
          IN  /\ rover' = [rover EXCEPT !.at = p]
              /\ tally' = [j \in DOMAIN tally |->
                  [through |-> tally[j].through + IF Crossed(track, j - 1, rover.at, p) THEN 1 ELSE 0,
                   past |-> tally[j].past + IF Missed(track, j - 1, rover.at, p) THEN 1 ELSE 0]]
    BY <1>9 DEF Roll
  <2>2. k \in Nat \ {0} /\ Running(track, rover, tally) /\ track \in Roads /\ track' = track
    BY <1>7, <1>9 DEF Roll
  <2>3. PICK p : p = Plus(rover.at, Scaled(k, rover.going))
    OBVIOUS
  <2>4. PICK c : c = [rover EXCEPT !.at = p]
    OBVIOUS
  <2>5. PICK count : count = [j \in DOMAIN tally |->
                  [through |-> tally[j].through + IF Crossed(track, j - 1, rover.at, p) THEN 1 ELSE 0,
                   past |-> tally[j].past + IF Missed(track, j - 1, rover.at, p) THEN 1 ELSE 0]]
    OBVIOUS
  <2>6. Running(track, c, count)
    BY <2>2, <2>3, <2>4, <2>5, RunningOn
  <2>7. rover' = c /\ tally' = count
    BY <2>1, <2>3, <2>4, <2>5
  <2> QED
    BY <2>2, <2>6, <2>7 DEF GroundInv
<1>10. ASSUME UNCHANGED groundVars PROVE GroundInv'
  BY <1>10 DEF groundVars, GroundInv
<1> QED
  BY <1>1, <1>2, <1>3, <1>4, <1>5, <1>6, <1>8, <1>9, <1>10 DEF GroundNext

\* To begin with there is a field and nothing on it.
LEMMA GroundStarts == GroundInit => GroundInv
<1> SUFFICES ASSUME GroundInit PROVE GroundInv
  OBVIOUS
<1>1. PICK q \in Seq(Posts) : q = <<>>
  BY EmptySeq
<1>2. track = [ground |-> "field", gate |-> q, route |-> "sprint", every |-> 1, cut |-> {}]
  BY <1>1 DEF GroundInit, NewTrack
<1>3. track \in Roads
  BY <1>2 DEF Roads
<1> QED
  BY <1>3 DEF GroundInit, GroundInv

\* Each gate has counted what the run did.
LEMMA CountsOnce == GroundInv => EachPassOnce
<1> SUFFICES ASSUME GroundInv PROVE EachPassOnce
  OBVIOUS
<1>1. CASE rover = <<>> /\ tally = <<>>
  <2>1. DOMAIN tally = {}
    BY <1>1
  <2> QED
    BY <2>1 DEF EachPassOnce
<1>2. CASE Running(track, rover, tally)
  BY <1>2 DEF Running, Told, EachPassOnce
<1> QED
  BY <1>1, <1>2 DEF GroundInv

-----------------------------------------------------------------------------
(* The ground: how high it is off the field *)

\* The tile along one axis, and how far into it.
Spot(n, cells) == Clamp(n \div Tile, 0, cells - 1)
Into(n, cells) == Clamp(n - Spot(n, cells) * Tile, 0, Tile)

\* Off the field one step further out is the same edge of the same tile, and one further off.
LEMMA OffTheEdge ==
  ASSUME NEW n \in Int, NEW cells \in Nat \ {0}, NEW far, far = cells * Tile,
         NEW o, o = IF n < 0 THEN -1 ELSE 1, OutOn(n, far) > 0
  PROVE  /\ Spot(n + o, cells) = Spot(n, cells) /\ Into(n + o, cells) = Into(n, cells)
         /\ OutOn(n + o, far) = OutOn(n, far) + 1
         /\ n < 0 \/ n > far
<1>1. PICK d \in Nat \ {0}, w \in Nat : d = Tile /\ w = cells * d /\ far = w /\ w >= d
  BY GroundAssumption
<1>2. n < 0 \/ n > w
  BY <1>1 DEF OutOn
<1>3. CASE n < 0
  <2>1. n \div d < 0 /\ (n - 1) \div d < 0
    BY <1>3
  <2>2. Spot(n, cells) = 0 /\ Spot(n + o, cells) = 0
    BY <1>1, <1>3, <2>1 DEF Spot, Clamp
  <2>3. 0 * d = 0
    OBVIOUS
  <2>4. Into(n, cells) = 0 /\ Into(n + o, cells) = 0
    BY <1>1, <1>3, <2>2, <2>3 DEF Into, Clamp
  <2>5. OutOn(n, far) = -n /\ OutOn(n + o, far) = -n + 1
    BY <1>1, <1>3 DEF OutOn
  <2> QED
    BY <1>3, <2>2, <2>4, <2>5
<1>4. CASE n > w
  <2>1. \A m \in Int : m > w => m \div d >= cells
    BY <1>1
  <2>2. n + 1 > w /\ o = 1
    BY <1>1, <1>4
  <2>3. n \div d \in Int /\ (n + 1) \div d \in Int /\ n \div d >= cells /\ (n + 1) \div d >= cells
    BY <2>1, <1>4, <2>2
  <2>4. Spot(n, cells) = cells - 1 /\ Spot(n + o, cells) = cells - 1
    BY <1>1, <2>2, <2>3 DEF Spot, Clamp
  <2>5. (cells - 1) * d = w - d /\ (cells - 1) * d \in Int
    BY <1>1
  <2>6. Into(n, cells) = d /\ Into(n + o, cells) = d
    BY <1>1, <1>4, <2>2, <2>4, <2>5 DEF Into, Clamp
  <2>7. OutOn(n, far) = n - w /\ OutOn(n + o, far) = n + 1 - w
    BY <1>1, <1>4, <2>2 DEF OutOn
  <2> QED
    BY <1>1, <1>4, <2>4, <2>6, <2>7
<1> QED
  BY <1>2, <1>3, <1>4

\* On an axis it is somewhere on the field's tiles.
LEMMA SpotIs ==
  ASSUME NEW n \in Int, NEW cells \in Nat \ {0}
  PROVE  Spot(n, cells) \in 0 .. cells - 1 /\ Into(n, cells) \in Int
<1>1. PICK d \in Nat \ {0} : d = Tile
  BY GroundAssumption
<1>2. n \div d \in Int
  OBVIOUS
<1>3. Spot(n, cells) \in 0 .. cells - 1
  BY <1>1, <1>2 DEF Spot, Clamp
<1>4. PICK x \in Int : x = Spot(n, cells) * d
  BY <1>3
<1>5. Into(n, cells) \in Int
  BY <1>1, <1>4 DEF Into, Clamp
<1> QED
  BY <1>3, <1>5

\* The four corners of a tile, and how far down the drop takes what is so far out.
Corners(cx, fx, cy, fy) ==
    (Corner[cx][cy] * (Tile - fx) + Corner[cx + 1][cy] * fx) * (Tile - fy)
    + (Corner[cx][cy + 1] * (Tile - fx) + Corner[cx + 1][cy + 1] * fx) * fy

LEMMA EdgesAre ==
  ASSUME NEW cx \in 0 .. Width - 1, NEW cy \in 0 .. Height - 1, NEW fx \in Int, NEW fy \in Int
  PROVE  /\ (Corner[cx][cy] * (Tile - fx) + Corner[cx + 1][cy] * fx) * (Tile - fy) \in Int
         /\ (Corner[cx][cy + 1] * (Tile - fx) + Corner[cx + 1][cy + 1] * fx) * fy \in Int
<1>1. cx \in 0 .. Width /\ cx + 1 \in 0 .. Width /\ cy \in 0 .. Height /\ cy + 1 \in 0 .. Height
  BY GroundAssumption
<1>2. PICK a \in Int, b \in Int, c \in Int, e \in Int :
        a = Corner[cx][cy] /\ b = Corner[cx + 1][cy] /\ c = Corner[cx][cy + 1] /\ e = Corner[cx + 1][cy + 1]
  BY <1>1, GroundAssumption
<1>3. PICK d \in Int : d = Tile
  BY GroundAssumption
<1>4. (a * (d - fx) + b * fx) * (d - fy) \in Int /\ (c * (d - fx) + e * fx) * fy \in Int
  OBVIOUS
<1> QED
  BY <1>2, <1>3, <1>4

LEMMA CornersAre ==
  ASSUME NEW cx \in 0 .. Width - 1, NEW cy \in 0 .. Height - 1, NEW fx \in Int, NEW fy \in Int
  PROVE  Corners(cx, fx, cy, fy) \in Int
<1>1. PICK u \in Int, v \in Int :
        /\ u = (Corner[cx][cy] * (Tile - fx) + Corner[cx + 1][cy] * fx) * (Tile - fy)
        /\ v = (Corner[cx][cy + 1] * (Tile - fx) + Corner[cx + 1][cy + 1] * fx) * fy
  BY EdgesAre
<1>2. Corners(cx, fx, cy, fy) = u + v
  BY <1>1, Zenon DEF Corners
<1> QED
  BY <1>2

\* How far out that is.
LEMMA OutOnIs ==
  ASSUME NEW n \in Int, NEW far \in Int
  PROVE  OutOn(n, far) \in Int /\ (far >= 0 => OutOn(n, far) >= 0)
<1>1. OutOn(n, far) = IF n < 0 THEN -n ELSE IF n > far THEN n - far ELSE 0
  BY DEF OutOn
<1> QED
  BY <1>1

LEMMA OutsideIs ==
  ASSUME NEW a \in Int, NEW b \in Int, NEW x \in Int, NEW y \in Int, NEW shoulder \in Nat,
         x = OutOn(a, W), y = OutOn(b, H), shoulder = RunOff * Tile
  PROVE  Dropped(<<a, b>>) = (IF x > y THEN x ELSE y) - shoulder
BY DEF Dropped, Outside

LEMMA DroppedIs ==
  ASSUME NEW a \in Int, NEW b \in Int
  PROVE  Dropped(<<a, b>>) \in Int /\ FallOff(<<a, b>>) \in Int
<1>1. PICK x \in Int, y \in Int : x = OutOn(a, W) /\ y = OutOn(b, H)
  BY OutOnIs, FieldIs
<1>2. PICK shoulder \in Nat, fall \in Nat, floor \in Nat : shoulder = RunOff * Tile /\ fall = Fall /\ floor = Floor * Tile
  BY GroundAssumption
<1>3. PICK d \in Int : d = Dropped(<<a, b>>)
  BY <1>1, <1>2, OutsideIs
<1>4. PICK u \in Int : u = d * fall
  OBVIOUS
<1> QED
  BY <1>2, <1>3, <1>4 DEF FallOff

LEMMA HeightIs ==
  ASSUME NEW a \in Int, NEW b \in Int
  PROVE  HeightAt(<<a, b>>) =
           Corners(Spot(a, Width), Into(a, Width), Spot(b, Height), Into(b, Height))
           - IF Dropped(<<a, b>>) > 0 THEN FallOff(<<a, b>>) * Tile ELSE 0
<1>1. TileOf(<<a, b>>) = <<Spot(a, Width), Spot(b, Height)>>
  BY DEF TileOf, Spot
<1>2. PICK c : c = TileOf(<<a, b>>)
  OBVIOUS
<1>3. c[1] = Spot(a, Width) /\ c[2] = Spot(b, Height)
  BY <1>1, <1>2
<1>4. PICK fx, fy : fx = Into(a, Width) /\ fy = Into(b, Height)
  OBVIOUS
<1>5. fx = Clamp(a - c[1] * Tile, 0, Tile) /\ fy = Clamp(b - c[2] * Tile, 0, Tile)
  BY <1>3, <1>4, Zenon DEF Into
<1>6. <<a, b>>[1] = a /\ <<a, b>>[2] = b
  OBVIOUS
<1>7. PICK p : p = <<a, b>>
  OBVIOUS
<1>8. PICK drop \in Int : drop = IF Dropped(p) > 0 THEN FallOff(p) * Tile ELSE 0
  <2>1. Dropped(p) \in Int /\ FallOff(p) \in Int
    BY <1>7, DroppedIs
  <2>2. FallOff(p) * Tile \in Int
    BY <2>1, GroundAssumption
  <2> QED
    BY <2>2
<1>9. Spot(a, Width) \in 0 .. Width - 1 /\ Spot(b, Height) \in 0 .. Height - 1 /\ fx \in Int /\ fy \in Int
  BY <1>4, SpotIs, GroundAssumption
<1>10. PICK near \in Int, further \in Int :
         /\ near = (Corner[c[1]][c[2]] * (Tile - fx) + Corner[c[1] + 1][c[2]] * fx) * (Tile - fy)
         /\ further = (Corner[c[1]][c[2] + 1] * (Tile - fx) + Corner[c[1] + 1][c[2] + 1] * fx) * fy
  BY <1>3, <1>9, EdgesAre
<1>11. HeightAt(p) = near + (further - drop)
  <2>1. fx = Clamp(p[1] - c[1] * Tile, 0, Tile) /\ fy = Clamp(p[2] - c[2] * Tile, 0, Tile)
    BY <1>5, <1>6, <1>7, Zenon
  <2>2. c = TileOf(p)
    BY <1>2, <1>7, Zenon
  <2> QED
    BY <1>8, <1>10, <2>1, <2>2, Zenon DEF HeightAt
<1>12. Corners(c[1], fx, c[2], fy) = near + further
  BY <1>10, Zenon DEF Corners
<1>13. near + (further - drop) = (near + further) - drop
  OBVIOUS
<1> QED
  BY <1>3, <1>4, <1>7, <1>8, <1>11, <1>12, <1>13, Zenon

\* Off one side of the field the ground changes by what the slope says.
LEMMA SlopeHolds == GroundInv => SlopeIsTheGround
<1> SUFFICES ASSUME GroundInv, rover # <<>>, NEW axis \in {1, 2},
                    NEW p, p = rover.at,
                    NEW out, out = <<IF axis = 1 THEN IF p[1] < 0 THEN -1 ELSE 1 ELSE 0,
                                     IF axis = 2 THEN IF p[2] < 0 THEN -1 ELSE 1 ELSE 0>>,
                    NEW q, q = Plus(p, out),
                    OutOn(p[axis], Far(axis)) > 0, OutOn(p[3 - axis], Far(3 - axis)) = 0,
                    Dropped(p) <= 0 <=> Dropped(q) <= 0,
                    Dropped(q) * Fall <= Floor * Tile \/ Dropped(p) * Fall >= Floor * Tile
             PROVE  2 * (HeightAt(q) - HeightAt(p)) = SlopeAt(p, axis) * out[axis] * Tile
  BY DEF SlopeIsTheGround
<1>1. p \in Int \X Int
  BY DEF GroundInv, Running, RoverSet
<1>2. PICK a \in Int, b \in Int : p = <<a, b>>
  BY <1>1
<1>3. PICK w \in Nat \ {0}, h \in Nat \ {0}, tile \in Nat \ {0}, fall \in Nat :
        w = Width /\ h = Height /\ tile = Tile /\ fall = Fall
  BY GroundAssumption
<1>4. PICK floor \in Nat, shoulder \in Nat : floor = Floor * Tile /\ shoulder = RunOff * Tile
  BY GroundAssumption
<1>5. PICK fw \in Int, fh \in Int : fw = W /\ fh = H
  BY FieldIs
<1>6. fw = w * Tile /\ fh = h * Tile
  BY <1>3, <1>5 DEF W, H
<1>7. PICK e : e = Corners(Spot(a, w), Into(a, w), Spot(b, h), Into(b, h))
  OBVIOUS
<1>8. e \in Int
  <2>1. Spot(a, w) \in 0 .. w - 1 /\ Into(a, w) \in Int /\ Spot(b, h) \in 0 .. h - 1 /\ Into(b, h) \in Int
    BY SpotIs
  <2> QED
    BY <1>3, <1>7, <2>1, CornersAre
<1>9. ASSUME NEW d \in Int, Dropped(p) = d, Dropped(q) = d + 1,
             HeightAt(q) = e - IF d + 1 > 0 THEN FallOff(q) * Tile ELSE 0
      PROVE  2 * (HeightAt(q) - HeightAt(p)) = IF d > 0 /\ d * fall < floor THEN -(2 * fall * tile) ELSE 0
  <2>1. HeightAt(p) = e - IF d > 0 THEN FallOff(p) * tile ELSE 0
    <3>1. HeightAt(<<a, b>>) = Corners(Spot(a, Width), Into(a, Width), Spot(b, Height), Into(b, Height))
             - IF Dropped(<<a, b>>) > 0 THEN FallOff(<<a, b>>) * Tile ELSE 0
      BY HeightIs
    <3> QED
      BY <1>2, <1>3, <1>7, <1>9, <3>1, Zenon
  <2>2. /\ d <= 0 <=> d + 1 <= 0
        /\ HeightAt(q) = e - IF d + 1 > 0 THEN FallOff(q) * tile ELSE 0
    BY <1>3, <1>9
  <2>3. (d + 1) * fall <= floor \/ d * fall >= floor
    BY <1>3, <1>4, <1>9
  <2>4. PICK u \in Int, v \in Int : u = d * fall /\ v = (d + 1) * fall
    OBVIOUS
  <2>5. v = u + fall
    BY <2>4
  <2>6. FallOff(p) = (IF u > floor THEN floor ELSE u) /\ FallOff(q) = (IF v > floor THEN floor ELSE v)
    BY <1>3, <1>4, <1>9, <2>4 DEF FallOff
  <2>7. CASE d <= 0
    <3>1. HeightAt(p) = e /\ HeightAt(q) = e
      BY <1>8, <2>1, <2>2, <2>7
    <3> QED
      BY <1>8, <2>7, <3>1
  <2>8. CASE d > 0 /\ u >= floor
    <3>1. FallOff(p) = floor /\ FallOff(q) = floor
      BY <2>5, <2>6, <2>8
    <3>2. PICK x \in Int : x = floor * tile
      OBVIOUS
    <3>3. HeightAt(p) = e - x /\ HeightAt(q) = e - x
      BY <1>8, <2>1, <2>2, <2>8, <3>1, <3>2
    <3> QED
      BY <1>8, <2>4, <2>8, <3>3
  <2>9. CASE d > 0 /\ u < floor
    <3>1. FallOff(p) = u /\ FallOff(q) = u + fall
      <4>1. v <= floor
        BY <2>3, <2>4, <2>9
      <4> QED
        BY <2>5, <2>6, <2>9, <4>1
    <3>2. PICK x \in Int, y \in Int : x = u * tile /\ y = fall * tile
      OBVIOUS
    <3>3. (u + fall) * tile = x + y
      BY <3>2
    <3>4. HeightAt(p) = e - x /\ HeightAt(q) = e - (x + y)
      BY <1>8, <2>1, <2>2, <2>9, <3>1, <3>2, <3>3
    <3>5. 2 * fall * tile = 2 * y
      BY <3>2
    <3> QED
      BY <1>8, <2>4, <2>9, <3>4, <3>5
  <2> QED
    BY <2>4, <2>7, <2>8, <2>9
<1>10. ASSUME NEW n \in Int, NEW far \in Int, NEW o, o = IF n < 0 THEN -1 ELSE 1,
              n = p[axis], far = Far(axis), n < 0 \/ n > far, far >= 0, OutOn(n, far) > 0,
              NEW d \in Int, Dropped(p) = d
       PROVE  SlopeAt(p, axis) * o * Tile = IF d > 0 /\ d * fall < floor THEN -(2 * fall * tile) ELSE 0
  <2>1. PICK u \in Int : u = d * fall
    OBVIOUS
  <2>2. SlopeAt(p, axis) = IF d > 0 THEN IF u >= floor THEN 0 ELSE IF n < 0 THEN 2 * fall ELSE -2 * fall ELSE 0
    BY <1>3, <1>4, <1>10, <2>1 DEF SlopeAt
  <2>3. (2 * fall) * (-1) * tile = -(2 * fall * tile) /\ (-2 * fall) * 1 * tile = -(2 * fall * tile)
        /\ 0 * (-1) * tile = 0 /\ 0 * 1 * tile = 0
    OBVIOUS
  <2>4. CASE d > 0 /\ u < floor
    BY <1>3, <1>10, <2>1, <2>2, <2>3, <2>4
  <2>5. CASE ~(d > 0 /\ u < floor)
    <3>1. SlopeAt(p, axis) = 0
      BY <2>2, <2>5
    <3> QED
      BY <1>3, <1>10, <2>1, <2>3, <2>5, <3>1
  <2> QED
    BY <2>4, <2>5
<1>11. CASE axis = 1
  <2>1. PICK o \in Int : o = IF a < 0 THEN -1 ELSE 1
    OBVIOUS
  <2>2. out = <<o, 0>> /\ out[axis] = o /\ p[axis] = a /\ p[3 - axis] = b /\ Far(axis) = fw /\ Far(3 - axis) = fh
    BY <1>2, <1>5, <1>11, <2>1 DEF Far
  <2>3. b + 0 = b
    OBVIOUS
  <2>4. q = <<a + o, b>>
    BY <1>2, <2>2, <2>3 DEF Plus
  <2>5. OutOn(a, fw) > 0 /\ OutOn(b, fh) = 0
    BY <2>2
  <2>6. /\ Spot(a + o, w) = Spot(a, w) /\ Into(a + o, w) = Into(a, w)
        /\ OutOn(a + o, fw) = OutOn(a, fw) + 1
        /\ a < 0 \/ a > fw
    BY <1>6, <2>1, <2>5, OffTheEdge
  <2>7. PICK x \in Int : x = OutOn(a, fw)
    BY OutOnIs
  <2>8. PICK n \in Int, x1 \in Int : n = a + o /\ x1 = x + 1 /\ q = <<n, b>>
    BY <2>4
  <2>9. OutOn(a, W) = x /\ OutOn(b, H) = 0 /\ OutOn(n, W) = x1
    BY <1>5, <2>5, <2>6, <2>7, <2>8
  <2>10. PICK d \in Int : d = x - shoulder /\ x1 - shoulder = d + 1
    BY <2>8
  <2>11. x > 0 /\ x1 > 0
    BY <2>5, <2>7, <2>8
  <2>12. Dropped(p) = d
    <3>1. Dropped(<<a, b>>) = (IF x > 0 THEN x ELSE 0) - shoulder
      BY <1>4, <2>9, OutsideIs
    <3> QED
      BY <1>2, <2>10, <2>11, <3>1
  <2>13. Dropped(q) = d + 1
    <3>1. Dropped(<<n, b>>) = (IF x1 > 0 THEN x1 ELSE 0) - shoulder
      BY <1>4, <2>9, OutsideIs
    <3> QED
      BY <2>8, <2>10, <2>11, <3>1
  <2>14. HeightAt(q) = e - IF d + 1 > 0 THEN FallOff(q) * Tile ELSE 0
    <3>1. HeightAt(<<n, b>>) = Corners(Spot(n, Width), Into(n, Width), Spot(b, Height), Into(b, Height))
             - IF Dropped(<<n, b>>) > 0 THEN FallOff(<<n, b>>) * Tile ELSE 0
      BY HeightIs
    <3>2. Corners(Spot(n, Width), Into(n, Width), Spot(b, Height), Into(b, Height)) = e
      BY <1>3, <1>7, <2>6, <2>8, Zenon
    <3> QED
      BY <2>8, <2>13, <3>1, <3>2, Zenon
  <2>15. 2 * (HeightAt(q) - HeightAt(p)) = IF d > 0 /\ d * fall < floor THEN -(2 * fall * tile) ELSE 0
    BY <1>9, <2>12, <2>13, <2>14
  <2>16. fw >= 0
    BY <1>5, FieldIs, GroundAssumption
  <2>17. SlopeAt(p, axis) * o * Tile = IF d > 0 /\ d * fall < floor THEN -(2 * fall * tile) ELSE 0
    BY <1>10, <2>1, <2>2, <2>5, <2>6, <2>16, <2>12
  <2> QED
    BY <2>2, <2>15, <2>17
<1>12. CASE axis = 2
  <2>1. PICK o \in Int : o = IF b < 0 THEN -1 ELSE 1
    OBVIOUS
  <2>2. out = <<0, o>> /\ out[axis] = o /\ p[axis] = b /\ p[3 - axis] = a /\ Far(axis) = fh /\ Far(3 - axis) = fw
    BY <1>2, <1>5, <1>12, <2>1 DEF Far
  <2>3. a + 0 = a
    OBVIOUS
  <2>4. q = <<a, b + o>>
    BY <1>2, <2>2, <2>3 DEF Plus
  <2>5. OutOn(b, fh) > 0 /\ OutOn(a, fw) = 0
    BY <2>2
  <2>6. /\ Spot(b + o, h) = Spot(b, h) /\ Into(b + o, h) = Into(b, h)
        /\ OutOn(b + o, fh) = OutOn(b, fh) + 1
        /\ b < 0 \/ b > fh
    BY <1>6, <2>1, <2>5, OffTheEdge
  <2>7. PICK x \in Int : x = OutOn(b, fh)
    BY OutOnIs
  <2>8. PICK n \in Int, x1 \in Int : n = b + o /\ x1 = x + 1 /\ q = <<a, n>>
    BY <2>4
  <2>9. OutOn(b, H) = x /\ OutOn(a, W) = 0 /\ OutOn(n, H) = x1
    BY <1>5, <2>5, <2>6, <2>7, <2>8
  <2>10. PICK d \in Int : d = x - shoulder /\ x1 - shoulder = d + 1
    BY <2>8
  <2>11. x > 0 /\ x1 > 0
    BY <2>5, <2>7, <2>8
  <2>12. Dropped(p) = d
    <3>1. Dropped(<<a, b>>) = (IF 0 > x THEN 0 ELSE x) - shoulder
      BY <1>4, <2>9, OutsideIs
    <3> QED
      BY <1>2, <2>10, <2>11, <3>1
  <2>13. Dropped(q) = d + 1
    <3>1. Dropped(<<a, n>>) = (IF 0 > x1 THEN 0 ELSE x1) - shoulder
      BY <1>4, <2>9, OutsideIs
    <3> QED
      BY <2>8, <2>10, <2>11, <3>1
  <2>14. HeightAt(q) = e - IF d + 1 > 0 THEN FallOff(q) * Tile ELSE 0
    <3>1. HeightAt(<<a, n>>) = Corners(Spot(a, Width), Into(a, Width), Spot(n, Height), Into(n, Height))
             - IF Dropped(<<a, n>>) > 0 THEN FallOff(<<a, n>>) * Tile ELSE 0
      BY HeightIs
    <3>2. Corners(Spot(a, Width), Into(a, Width), Spot(n, Height), Into(n, Height)) = e
      BY <1>3, <1>7, <2>6, <2>8, Zenon
    <3> QED
      BY <2>8, <2>13, <3>1, <3>2, Zenon
  <2>15. 2 * (HeightAt(q) - HeightAt(p)) = IF d > 0 /\ d * fall < floor THEN -(2 * fall * tile) ELSE 0
    BY <1>9, <2>12, <2>13, <2>14
  <2>16. fh >= 0
    BY <1>5, FieldIs, GroundAssumption
  <2>17. SlopeAt(p, axis) * o * Tile = IF d > 0 /\ d * fall < floor THEN -(2 * fall * tile) ELSE 0
    BY <1>10, <2>1, <2>2, <2>5, <2>6, <2>16, <2>12
  <2> QED
    BY <2>2, <2>15, <2>17
<1> QED
  BY <1>11, <1>12

-----------------------------------------------------------------------------
(* The ground: the grid is behind the line *)

\* How far to the side of the line's middle a slot is.
LEMMA Sideways ==
  ASSUME NEW h \in Nat, NEW g \in Nat \ {0}, NEW racing \in 1 .. g, NEW slot \in 0 .. racing - 1,
         NEW e, e = 2 * slot + 1 - racing, NEW c, c = (h * e) \div g
  PROVE  c \in Int /\ -h <= c /\ c <= h
<1>1. PICK u \in Int, v \in Int, n \in Int : u = g - e /\ v = g + e /\ n = h * e /\ u >= 0 /\ v >= 0
  OBVIOUS
<1>2. h * u >= 0 /\ h * v >= 0 /\ h * u = h * g - n /\ h * v = h * g + n /\ h * g \in Nat
  BY <1>1
<1>3. PICK hg \in Nat : hg = h * g /\ n <= hg /\ -hg <= n
  BY <1>2
<1>4. c \in Int /\ c * g <= n /\ n < c * g + g
  BY <1>1
<1>5. PICK over \in Int, under \in Int : over = c - h /\ under = c + h
  BY <1>4
<1>6. over * g = c * g - hg /\ under * g = c * g + hg /\ c * g \in Int
  BY <1>3, <1>4, <1>5
<1>7. (over > 0 => over * g >= g) /\ (under < 0 => under * g <= -g)
  BY <1>5
<1>8. over <= 0
  BY <1>3, <1>4, <1>5, <1>6, <1>7
<1>9. under >= 0
  BY <1>3, <1>4, <1>5, <1>6, <1>7
<1> QED
  BY <1>4, <1>5, <1>8, <1>9

\* A driver on the grid who goes straight on crosses the line, on whichever axis that is.
LEMMA StraightOver ==
  ASSUME NEW t \in Roads, Gates(t) >= 1, NEW k \in Nat \ {0}, NEW f1 \in Int, NEW f2 \in Int,
         f1 * f1 + f2 * f2 = 1, Facing(t, 0) = <<k * f1, k * f2>>,
         NEW p1 \in Int, NEW p2 \in Int, NEW m1 \in Int, NEW m2 \in Int, Middle(t, 0) = <<m1, m2>>,
         NEW h \in Nat, h = Site(t, 0).half, NEW l \in Nat \ {0},
         NEW a \in Int, a = (p1 - m1) * f1 + (p2 - m2) * f2, a < 0, a + l >= 0,
         NEW v \in Int, v = f1 * (p2 - m2) - f2 * (p1 - m1), -h <= v, v <= h
  PROVE  Crossed(t, 0, <<p1, p2>>, Plus(<<p1, p2>>, Scaled(l, <<f1, f2>>)))
<1>1. 0 \in 0 .. Gates(t) - 1
  BY GateIs
<1>2. PICK p \in Int \X Int, d \in Int \X Int : p = <<p1, p2>> /\ d = <<f1, f2>>
  OBVIOUS
<1>3. Dot(d, Facing(t, 0)) = k
  <2>1. Dot(d, Facing(t, 0)) = f1 * (k * f1) + f2 * (k * f2)
    BY <1>2 DEF Dot
  <2>2. f1 * (k * f1) + f2 * (k * f2) = k * (f1 * f1 + f2 * f2)
    OBVIOUS
  <2> QED
    BY <2>1, <2>2
<1>4. Ahead(t, 0, p) = k * a
  <2>1. Ahead(t, 0, p) = (p1 - m1) * (k * f1) + (p2 - m2) * (k * f2)
    BY <1>2 DEF Ahead, Dot, Minus
  <2>2. (p1 - m1) * (k * f1) + (p2 - m2) * (k * f2) = k * ((p1 - m1) * f1 + (p2 - m2) * f2)
    OBVIOUS
  <2> QED
    BY <2>1, <2>2
<1>5. Ahead(t, 0, On(p, d, l)) = k * a + l * k
  BY <1>1, <1>3, <1>4, AheadAlong
<1>6. k * a < 0 /\ k * a + l * k >= 0
  <2>1. PICK b \in Nat, c \in Nat \ {0} : b = a + l /\ c = -a
    OBVIOUS
  <2>2. k * b >= 0 /\ k * b = k * a + l * k /\ k * c > 0 /\ k * c = -(k * a) /\ k * a \in Int
    BY <2>1
  <2> QED
    BY <2>2
<1>7. GetsTo(t, 0, p, On(p, d, l))
  BY <1>4, <1>5, <1>6 DEF GetsTo
<1>8. PICK x \in Int, y \in Int : x = p1 - m1 /\ y = p2 - m2
  OBVIOUS
<1>9. Meets(t, 0, p, d) = <<k * x - (k * a) * f1, k * y - (k * a) * f2>>
  BY <1>2, <1>3, <1>4, <1>8 DEF Meets, Minus, Scaled
<1>10. Cross(Facing(t, 0), Meets(t, 0, p, d)) = (k * k) * v
  <2>1. Cross(Facing(t, 0), Meets(t, 0, p, d))
          = (k * f1) * (k * y - (k * a) * f2) - (k * f2) * (k * x - (k * a) * f1)
    BY <1>9 DEF Cross
  <2>2. (k * f1) * (k * y - (k * a) * f2) - (k * f2) * (k * x - (k * a) * f1)
          = (k * k) * (f1 * y - f2 * x)
    OBVIOUS
  <2> QED
    BY <1>8, <2>1, <2>2
<1>11. Dot(Facing(t, 0), Facing(t, 0)) = k * k
  <2>1. Dot(Facing(t, 0), Facing(t, 0)) = (k * f1) * (k * f1) + (k * f2) * (k * f2)
    BY DEF Dot
  <2>2. (k * f1) * (k * f1) + (k * f2) * (k * f2) = (k * k) * (f1 * f1 + f2 * f2)
    OBVIOUS
  <2> QED
    BY <2>1, <2>2
<1>12. PICK s \in Nat \ {0}, z \in Int, e \in Int, w \in Nat \ {0} : s = k * k /\ z = v * v /\ e = h * h /\ w = s * s
  <2>1. k * k \in Nat \ {0} /\ v * v \in Int /\ h * h \in Int
    <3>1. h \in Int /\ v \in Int /\ k \in Nat \ {0}
      OBVIOUS
    <3> QED
      BY <3>1, Squares, Zenon
  <2>2. PICK s \in Nat \ {0} : s = k * k
    BY <2>1, Zenon
  <2>3. s * s \in Nat \ {0}
    BY Squares, Zenon
  <2> QED
    BY <2>1, <2>2, <2>3, Zenon
<1>13. z <= e
  <2>1. PICK u \in Nat, b \in Nat : u = h - v /\ b = h + v
    OBVIOUS
  <2>2. u * b >= 0 /\ u * b = (h - v) * (h + v)
    BY <2>1
  <2>3. (h - v) * (h + v) = h * h - v * v
    OBVIOUS
  <2> QED
    BY <1>12, <2>2, <2>3
<1>14. (s * v) * (s * v) = w * z /\ ((h * k) * (h * k)) * s = w * e
  <2>1. (s * v) * (s * v) = (s * s) * (v * v)
    OBVIOUS
  <2>2. (h * k) * (h * k) = (h * h) * (k * k)
    <3>1. PICK reach \in Int, by \in Int : reach = h /\ by = k
      OBVIOUS
    <3>2. (reach * by) * (reach * by) = (reach * reach) * (by * by)
      BY Products, Zenon
    <3> QED
      BY <3>1, <3>2, Zenon
  <2>3. (e * s) * s = (s * s) * e
    <3>1. e \in Int /\ s \in Int
      OBVIOUS
    <3> QED
      BY <3>1, Products, Zenon
  <2> QED
    BY <1>12, <2>1, <2>2, <2>3
<1>15. w * z <= w * e
  BY <1>13, TimesSame
<1>16. WithinLine(t, 0, p, d)
  <2>1. WithinLine(t, 0, p, d) <=> (s * v) * (s * v) <= ((h * k) * (h * k)) * s
    BY <1>3, <1>10, <1>11, <1>12 DEF WithinLine, Sq
  <2> QED
    BY <1>14, <1>15, <2>1
<1>17. p = On(p, d, 0)
  BY <1>2 DEF On, Plus, Scaled
<1>18. Within(t, 0, On(p, d, 0), On(p, d, l)) <=> WithinLine(t, 0, p, d)
  BY <1>1, WithinAlong
<1>19. Crossed(t, 0, p, On(p, d, l))
  BY <1>7, <1>16, <1>17, <1>18, Zenon DEF Crossed
<1> QED
  BY <1>2, <1>19, Zenon DEF On

\* A track that is in order has no gate that is not.
LEMMA OkIs ==
  ASSUME NEW t \in Roads, Gates(t) >= 1, Problem(t) = "ok"
  PROVE  \A i \in 0 .. Gates(t) - 1 : ~Faulty(t, i) /\ FacesRoute(t, i)
<1>1. PICK n \in Nat : n = Gates(t)
  BY GateIs
<1>2. PICK bad \in BOOLEAN : bad <=> \E k \in 0 .. n - 1 : Faulty(t, k)
  OBVIOUS
<1>3. PICK facing \in BOOLEAN : facing <=> \E k \in 0 .. n - 1 : ~FacesRoute(t, k)
  OBVIOUS
<1>4. /\ n = 1 => Problem(t) = "too few gates"
      /\ n >= 2 /\ bad => Problem(t) \in {"too narrow", "off track", "coincide"}
      /\ n >= 2 /\ ~bad => Problem(t) = IF facing THEN "facing" ELSE "ok"
  BY <1>1, <1>2, <1>3, ProblemIs, Zenon
<1>5. n >= 2 /\ ~bad /\ ~facing
  BY <1>1, <1>4
<1> QED
  BY <1>1, <1>2, <1>3, <1>5

\* A start that is square to the field and faces anywhere faces along an axis.
LEMMA SquareIs ==
  ASSUME NEW t \in Roads, Gates(t) >= 1, Problem(t) = "ok", SquareOn(t, 0)
  PROVE  \E k \in Nat \ {0} : \E f1 \in Int, f2 \in Int :
           /\ Facing(t, 0) = <<k * f1, k * f2>> /\ Unit(Facing(t, 0)) = <<f1, f2>>
           /\ \/ f1 = 1 /\ f2 = 0
              \/ f1 = -1 /\ f2 = 0
              \/ f1 = 0 /\ f2 = 1
              \/ f1 = 0 /\ f2 = -1
<1>1. Gates(t) \in Nat /\ 0 \in 0 .. Gates(t) - 1
  BY GateIs
<1>2. PICK a \in Int, b \in Int : Facing(t, 0) = <<a, b>>
  BY <1>1, GateIs
<1>3. FacesRoute(t, 0)
  BY <1>1, OkIs
<1>4. PICK chord : AlongIt(Facing(t, 0), chord) /\ chord \in Int \X Int
  <2>1. Before(t, 0) \in 0 .. Gates(t) - 1 /\ After(t, 0) \in 0 .. Gates(t) - 1
    BY <1>1, BesideIs
  <2>2. /\ Middle(t, Before(t, 0)) \in Int \X Int /\ Middle(t, 0) \in Int \X Int
        /\ Middle(t, After(t, 0)) \in Int \X Int
    BY <1>1, <2>1, GateIs
  <2>3. \A x, y \in Int \X Int : Minus(x, y) \in Int \X Int
    BY DEF Minus
  <2> QED
    BY <1>3, <2>2, <2>3 DEF FacesRoute
<1>5. PICK c \in Int, d \in Int : chord = <<c, d>>
  BY <1>4
<1>6. a * c + b * d > 0
  BY <1>2, <1>4, <1>5 DEF AlongIt, Dot
<1>7. a # 0 \/ b # 0
  <2>1. 0 * c + 0 * d = 0
    OBVIOUS
  <2> QED
    BY <1>6, <2>1
<1>8. a = 0 \/ b = 0
  BY <1>2 DEF SquareOn
<1>9. Unit(Facing(t, 0)) = <<Sign(a), Sign(b)>>
  BY <1>2, UnitIs
<1>10. CASE a > 0
  <2>1. b = 0 /\ a = a * 1 /\ b = a * 0 /\ Sign(a) = 1 /\ Sign(b) = 0 /\ a \in Nat \ {0}
    BY <1>8, <1>10 DEF Sign
  <2> QED
    BY <1>2, <1>9, <2>1
<1>11. CASE a < 0
  <2>1. PICK k \in Nat \ {0} : k = -a
    BY <1>11
  <2>2. b = 0 /\ a = k * (-1) /\ b = k * 0 /\ Sign(a) = -1 /\ Sign(b) = 0
    BY <1>8, <1>11, <2>1 DEF Sign
  <2> QED
    BY <1>2, <1>9, <2>2
<1>12. CASE b > 0
  <2>1. a = 0 /\ b = b * 1 /\ a = b * 0 /\ Sign(a) = 0 /\ Sign(b) = 1 /\ b \in Nat \ {0}
    BY <1>8, <1>12 DEF Sign
  <2> QED
    BY <1>2, <1>9, <2>1
<1>13. CASE b < 0
  <2>1. PICK k \in Nat \ {0} : k = -b
    BY <1>13
  <2>2. a = 0 /\ b = k * (-1) /\ a = k * 0 /\ Sign(a) = 0 /\ Sign(b) = -1
    BY <1>8, <1>13, <2>1 DEF Sign
  <2>3. Facing(t, 0) = <<k * 0, k * (-1)>> /\ Unit(Facing(t, 0)) = <<0, -1>>
    BY <1>2, <1>9, <2>2
  <2> WITNESS k \in Nat \ {0}
  <2> WITNESS 0 \in Int, -1 \in Int
  <2> QED
    BY <2>3
<1> QED
  BY <1>7, <1>10, <1>11, <1>12, <1>13

\* A car on the grid is on the field and behind the line.
LEMMA GridHolds == track \in Roads => GridIsBehindTheLine
<1> SUFFICES ASSUME track \in Roads, Gates(track) > 0, Problem(track) = "ok", SquareOn(track, 0),
                    NEW racing \in 1 .. GridSlots, NEW slot \in 0 .. racing - 1
             PROVE  LET p == GridOf(track, slot, racing)
                        f == Unit(Facing(track, 0))
                        m == Middle(track, 0)
                    IN  /\ OnField(p)
                        /\ m[1] \in Tile .. W - Tile /\ m[2] \in Tile .. H - Tile =>
                              Crossed(track, 0, p, Plus(p, Scaled(W + H, f)))
  BY DEF GridIsBehindTheLine
<1>1. Gates(track) \in Nat /\ Gates(track) >= 1 /\ 0 \in 0 .. Gates(track) - 1
  BY GateIs
<1>2. PICK k \in Nat \ {0}, f1 \in Int, f2 \in Int :
        /\ Facing(track, 0) = <<k * f1, k * f2>> /\ Unit(Facing(track, 0)) = <<f1, f2>>
        /\ \/ f1 = 1 /\ f2 = 0
           \/ f1 = -1 /\ f2 = 0
           \/ f1 = 0 /\ f2 = 1
           \/ f1 = 0 /\ f2 = -1
  BY <1>1, SquareIs
<1>3. Middle(track, 0) \in Int \X Int
  BY <1>1, GateIs
<1>4. PICK m1 \in Int, m2 \in Int : Middle(track, 0) = <<m1, m2>>
  BY <1>3
<1>5. PICK h \in Nat : h = Site(track, 0).half
  <2>1. Site(track, 0).half \in Int
    BY <1>1, GateIs
  <2>2. ~Faulty(track, 0)
    BY <1>1, OkIs
  <2>3. ~(Site(track, 0).half < LeastHalf)
    BY <2>2 DEF Faulty
  <2> QED
    BY <2>1, <2>3, GroundAssumption
<1>6. PICK g \in Nat \ {0} : g = GridSlots /\ racing \in 1 .. g
  BY GroundAssumption
<1>7. PICK e \in Int : e = 2 * slot + 1 - racing
  BY <1>6
<1>8. PICK c \in Int : c = (h * e) \div g /\ -h <= c /\ c <= h
  BY <1>6, <1>7, Sideways
<1>9. PICK b \in Nat \ {0} : b = Back + Stagger * slot
  <2>1. PICK x \in Nat \ {0}, y \in Nat, z \in Nat : x = Back /\ y = Stagger /\ z = slot
    BY <1>6, GroundAssumption
  <2>2. x + y * z \in Nat \ {0}
    <3>1. y * z \in Nat
      OBVIOUS
    <3> QED
      BY <3>1
  <2> QED
    BY <2>1, <2>2
<1>10. PICK w \in Int, hh \in Int, tile \in Nat : w = W /\ hh = H /\ tile = Tile /\ tile >= 2 /\ w >= tile /\ hh >= tile
  BY FieldIs, GroundAssumption
<1>11. PICK lo \in Int, hi1 \in Int, hi2 \in Int : lo = tile \div 2 /\ hi1 = w - lo /\ hi2 = hh - lo
  OBVIOUS
<1>12. PICK n1 \in Int, n2 \in Int : n1 = m1 - b * f1 + c * (-f2) /\ n2 = m2 - b * f2 + c * f1
  OBVIOUS
<1>13. Plus(Minus(<<m1, m2>>, Scaled(b, <<f1, f2>>)), Scaled(c, <<-f2, f1>>)) = <<n1, n2>>
  BY <1>12 DEF Plus, Minus, Scaled
<1>14. PICK p1 \in Int, p2 \in Int :
         /\ p1 = IF n1 < lo THEN lo ELSE IF n1 > w - lo THEN w - lo ELSE n1
         /\ p2 = IF n2 < lo THEN lo ELSE IF n2 > hh - lo THEN hh - lo ELSE n2
  <2>1. /\ (IF n1 < lo THEN lo ELSE IF n1 > w - lo THEN w - lo ELSE n1) \in Int
        /\ (IF n2 < lo THEN lo ELSE IF n2 > hh - lo THEN hh - lo ELSE n2) \in Int
    <3>1. w - lo \in Int /\ hh - lo \in Int /\ lo \in Int /\ n1 \in Int /\ n2 \in Int
      OBVIOUS
    <3> QED
      BY <3>1, Zenon
  <2> QED
    BY <2>1, Zenon
<1>20. p1 = Clamp(n1, lo, hi1) /\ p2 = Clamp(n2, lo, hi2)
  BY <1>11, <1>14 DEF Clamp
<1>21. lo \in Int /\ lo >= 1 /\ 2 * lo <= tile /\ w >= tile /\ hh >= tile
  BY <1>10, <1>11
<1>15. GridOf(track, slot, racing) = <<p1, p2>>
  BY <1>2, <1>4, <1>5, <1>6, <1>7, <1>8, <1>9, <1>10, <1>11, <1>13, <1>20 DEF GridOf
<1>16. /\ p1 \in 0 .. w - 1
       /\ \A m \in tile .. w - tile :
              /\ n1 < m => p1 < m
              /\ n1 > m => p1 > m
              /\ \A j \in Nat : -j <= n1 - m /\ n1 - m <= j => -j <= p1 - m /\ p1 - m <= j
  <2>1. /\ n1 \in Int /\ w \in Int /\ tile \in Nat /\ lo \in Int /\ p1 \in Int
        /\ lo >= 1 /\ 2 * lo <= tile /\ w >= tile
    BY <1>21
  <2>2. p1 = IF n1 < lo THEN lo ELSE IF n1 > w - lo THEN w - lo ELSE n1
    BY <1>14, Zenon
  <2> QED
    BY <2>1, <2>2
<1>17. /\ p2 \in 0 .. hh - 1
       /\ \A m \in tile .. hh - tile :
              /\ n2 < m => p2 < m
              /\ n2 > m => p2 > m
              /\ \A j \in Nat : -j <= n2 - m /\ n2 - m <= j => -j <= p2 - m /\ p2 - m <= j
  <2>1. /\ n2 \in Int /\ hh \in Int /\ tile \in Nat /\ lo \in Int /\ p2 \in Int
        /\ lo >= 1 /\ 2 * lo <= tile /\ hh >= tile
    BY <1>21
  <2>2. p2 = IF n2 < lo THEN lo ELSE IF n2 > hh - lo THEN hh - lo ELSE n2
    BY <1>14, Zenon
  <2> QED
    BY <2>1, <2>2
<1>18. OnField(<<p1, p2>>)
  BY <1>10, <1>16, <1>17 DEF OnField
<1>19. ASSUME m1 \in tile .. w - tile, m2 \in tile .. hh - tile
       PROVE  Crossed(track, 0, <<p1, p2>>, Plus(<<p1, p2>>, Scaled(w + hh, <<f1, f2>>)))
  <2>1. f1 * f1 + f2 * f2 = 1
    BY <1>2
  <2>2. PICK l \in Nat \ {0} : l = w + hh
    BY <1>10
  <2>3. PICK a \in Int, v \in Int : a = (p1 - m1) * f1 + (p2 - m2) * f2 /\ v = f1 * (p2 - m2) - f2 * (p1 - m1)
    BY <1>16, <1>17
  <2>4. /\ p1 - m1 \in -w .. w /\ p2 - m2 \in -hh .. hh
    BY <1>10, <1>16, <1>17, <1>19
  <2>5. a < 0 /\ a + l >= 0 /\ -h <= v /\ v <= h
    <3>1. CASE f1 = 1 /\ f2 = 0
      <4>1. n1 = m1 - b /\ n2 = m2 + c /\ a = p1 - m1 /\ v = p2 - m2
        BY <1>12, <1>16, <1>17, <2>3, <3>1
      <4>3. -h <= n2 - m2 /\ n2 - m2 <= h
        BY <1>8, <4>1
      <4>2. p1 < m1 /\ -h <= p2 - m2 /\ p2 - m2 <= h
        BY <1>16, <1>17, <1>19, <4>1, <4>3
      <4> QED
        BY <1>10, <1>16, <2>2, <2>4, <4>1, <4>2
    <3>2. CASE f1 = -1 /\ f2 = 0
      <4>1. n1 = m1 + b /\ n2 = m2 - c /\ a = m1 - p1 /\ v = m2 - p2
        BY <1>12, <1>16, <1>17, <2>3, <3>2
      <4>3. -h <= n2 - m2 /\ n2 - m2 <= h
        BY <1>8, <4>1
      <4>2. p1 > m1 /\ -h <= p2 - m2 /\ p2 - m2 <= h
        BY <1>16, <1>17, <1>19, <4>1, <4>3
      <4> QED
        BY <1>10, <1>16, <1>17, <2>2, <2>4, <4>1, <4>2
    <3>3. CASE f1 = 0 /\ f2 = 1
      <4>1. n1 = m1 - c /\ n2 = m2 - b /\ a = p2 - m2 /\ v = m1 - p1
        BY <1>12, <1>16, <1>17, <2>3, <3>3
      <4>3. -h <= n1 - m1 /\ n1 - m1 <= h
        BY <1>8, <4>1
      <4>2. p2 < m2 /\ -h <= p1 - m1 /\ p1 - m1 <= h
        BY <1>16, <1>17, <1>19, <4>1, <4>3
      <4> QED
        BY <1>10, <1>16, <1>17, <2>2, <2>4, <4>1, <4>2
    <3>4. CASE f1 = 0 /\ f2 = -1
      <4>1. n1 = m1 + c /\ n2 = m2 + b /\ a = m2 - p2 /\ v = p1 - m1
        BY <1>12, <1>16, <1>17, <2>3, <3>4
      <4>3. -h <= n1 - m1 /\ n1 - m1 <= h
        BY <1>8, <4>1
      <4>2. p2 > m2 /\ -h <= p1 - m1 /\ p1 - m1 <= h
        BY <1>16, <1>17, <1>19, <4>1, <4>3
      <4> QED
        BY <1>10, <1>16, <1>17, <2>2, <2>4, <4>1, <4>2
    <3> QED
      BY <1>2, <3>1, <3>2, <3>3, <3>4
  <2>6. Crossed(track, 0, <<p1, p2>>, Plus(<<p1, p2>>, Scaled(l, <<f1, f2>>)))
    <3>1. track \in Roads /\ Gates(track) >= 1 /\ k \in Nat \ {0} /\ f1 \in Int /\ f2 \in Int
      BY <1>1
    <3>2. Facing(track, 0) = <<k * f1, k * f2>> /\ Middle(track, 0) = <<m1, m2>>
      BY <1>2, <1>4
    <3>3. h \in Nat /\ h = Site(track, 0).half /\ l \in Nat \ {0} /\ a \in Int /\ v \in Int
      BY <1>5
    <3>4. a = (p1 - m1) * f1 + (p2 - m2) * f2 /\ v = f1 * (p2 - m2) - f2 * (p1 - m1)
      BY <2>3
    <3>5. a < 0 /\ a + l >= 0 /\ -h <= v /\ v <= h
      BY <2>5
    <3>6. p1 \in Int /\ p2 \in Int /\ m1 \in Int /\ m2 \in Int
      OBVIOUS
    <3> QED
      BY <2>1, <3>1, <3>2, <3>3, <3>4, <3>5, <3>6, StraightOver, Zenon
  <2> QED
    BY <2>2, <2>6
<1> QED
  BY <1>2, <1>4, <1>10, <1>15, <1>18, <1>19

\* The ground and the gates on it say the same to whoever asks, on every field, with any gates on
\* it, wherever a car is driven (gs_track.c).
THEOREM GroundIsSoundAlways == GroundSpec => []GroundIsSound
<1>1. GroundInv => GroundIsSound
  <2> SUFFICES ASSUME GroundInv PROVE GroundIsSound
    OBVIOUS
  <2>1. track \in Roads
    BY DEF GroundInv
  <2>2. EachPassOnce /\ SameRoadBack
    BY <2>1, CountsOnce, RoadBack
  <2>3. ArcIsWhole /\ GridIsBehindTheLine /\ SlopeIsTheGround
    BY <2>1, ArcHolds, GridHolds, SlopeHolds
  <2>4. FacedIsSound
    BY <2>1, FacedSound DEF FacedIsSound
  <2> QED
    BY <2>2, <2>3, <2>4 DEF GroundIsSound
<1> QED
  BY <1>1, GroundStarts, GroundKeeps, PTL DEF GroundSpec
=============================================================================
