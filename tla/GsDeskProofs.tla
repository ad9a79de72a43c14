---------------------------- MODULE GsDeskProofs ----------------------------
(***************************************************************************)
(* What one machine does by itself, for any number of races, tracks,       *)
(* drivers, cars, gates and frames: the screens (GsFront), the sound       *)
(* (GsSound) and the race as the simulation keeps it (GsContest).          *)
(***************************************************************************)
EXTENDS GsFront, GsSound, GsContest, FiniteSetTheorems, WellFoundedInduction, TLAPS

-----------------------------------------------------------------------------
(* What the screens do to the race behind them.  That a race was not worked*)
(* out yet is known only because what is shown is always the newest race,  *)
(* and that GO builds one only because no way through the screens leaves   *)
(* the flag of a race that waits behind it.  InHand says both.             *)

\* The world is that of the recording's race, which is worked out at most once, the
\* races before it are done with, and there is nothing to come back to but through the
\* setup's own button.
InHand ==
    /\ "number" \in DOMAIN tape /\ "number" \in DOMAIN contest
    /\ tape.number \in Nat /\ contest.number = tape.number
    /\ filed \in Seq(Nat)
    /\ \A i \in DOMAIN filed : filed[i] <= tape.number
    /\ ~settled => \A i \in DOMAIN filed : filed[i] < tape.number
    /\ \A i, j \in DOMAIN filed : filed[i] = filed[j] => i = j
    /\ resume = FALSE

\* A race that begins is a new one, not worked out.
LEMMA RaceBegins ==
    ASSUME InHand, NEW g, StartRace(g), resume' = FALSE
    PROVE  InHand' /\ tape'.number = tape.number + 1
  BY DEF InHand, StartRace, Built

\* Of the same race.
Same(old, new) == "number" \in DOMAIN new /\ new.number = old.number

\* A step that leaves the race, its recording and what was worked out as they were.
LEMMA RaceKept ==
    ASSUME InHand, UNCHANGED <<settled, filed>>, resume' = FALSE,
           Same(tape, tape'), Same(contest, contest')
    PROVE  InHand'
  BY DEF InHand, Same

\* Every way through the screens keeps hold of the race, or begins a new one.
LEMMA Leads ==
    ASSUME InHand, NEW next, NEW back \in BOOLEAN, GoesTo(next, back),
           ~back \/ next = "race"
    PROVE  /\ InHand'
           /\ ~back /\ next = "race" => tape'.number = tape.number + 1
<1>1. CASE next = "race" /\ ~back
  BY <1>1, RaceBegins DEF GoesTo
<1>2. CASE ~(next = "race" /\ ~back)
  BY <1>2, RaceKept DEF InHand, Same, GoesTo, raced
<1> QED
  BY <1>1, <1>2

\* Whatever is pressed, the race in hand is the newest.
LEMMA InHandInductive == FrontSpec => []InHand
<1>1. FrontInit => InHand
  BY DEF FrontInit, InHand, Built
<1>2. ASSUME InHand, [FrontNext]_frontVars PROVE InHand'
  <2> USE DEF menu, raced, shared, modes
  <2>r. resume = FALSE
    BY <1>2 DEF InHand
  <2>1. CASE CloseEditor \/ BackOut \/ LeaveWatching
    BY <1>2, <2>1, <2>r, RaceKept DEF InHand, Same, CloseEditor, BackOut, LeaveWatching
  <2>2. CASE Watch
    BY <1>2, <2>2, <2>r, RaceKept DEF InHand, Same, Watch, StartWatching, Built
  <2>3. CASE Restart
    BY <1>2, <2>3, <2>r, RaceBegins DEF Restart
  <2>4. CASE Tab
    <3>1. Same(contest, contest')
      BY <1>2, <2>4 DEF Same, Tab, TestDrive, Built, InHand
    <3>2. UNCHANGED <<settled, tape, filed>>
      BY <2>4 DEF Tab, TestDrive
    <3> QED
      BY <1>2, <2>4, <2>r, <3>1, <3>2, RaceKept DEF InHand, Same, Tab
  <2>5. CASE Finish
    <3>1. CASE contest.over /\ ~settled
      <4>1. /\ UNCHANGED <<tape, contest, resume>>
            /\ settled' = TRUE /\ filed' = Append(filed, contest.number)
        BY <2>5, <3>1 DEF Finish, InHand
      <4>2. /\ filed' \in Seq(Nat) /\ DOMAIN filed' = DOMAIN filed \cup {Len(filed) + 1}
            /\ \A i \in DOMAIN filed : filed'[i] = filed[i] /\ filed[i] < tape.number
            /\ filed'[Len(filed) + 1] = tape.number
        BY <1>2, <3>1, <4>1 DEF InHand
      <4> QED
        BY <1>2, <3>1, <4>1, <4>2 DEF InHand
    <3>2. CASE ~(contest.over /\ ~settled)
      BY <1>2, <2>5, <2>r, <3>2, RaceKept DEF InHand, Same, Finish
    <3> QED
      BY <3>1, <3>2
  <2>6. CASE Settle \/ RaceShared \/ Steps
    BY <1>2, <2>6, <2>r, RaceKept DEF InHand, Same, Settle, RaceShared, Steps, Runs
  <2>7. CASE Wait
    <3>1. CASE \E g \in [track : Track, turned : BOOLEAN] : StartRace(g)
      BY <1>2, <2>7, <2>r, <3>1, RaceBegins DEF Wait
    <3>2. CASE UNCHANGED raced
      BY <1>2, <2>7, <2>r, <3>2, RaceKept DEF InHand, Same, Wait
    <3> QED
      BY <2>7, <3>1, <3>2 DEF Wait
  <2>8. CASE NoMenu \/ SignOut \/ Nothing \/ OpenRecords \/ Dial \/ AskToRace
    BY <1>2, <2>8, <2>r, RaceKept DEF InHand, Same, NoMenu, SignOut, Nothing, OpenRecords, Dial, AskToRace
  <2>9. CASE Door \/ FromTitle \/ FromSetup \/ FromResults \/ LeadBack
    <3>1. CASE \E next, back : GoesTo(next, back) /\ back \in BOOLEAN /\ (~back \/ next = "race")
      BY <1>2, <3>1, Leads
    <3>2. CASE UNCHANGED raced /\ UNCHANGED resume
      BY <1>2, <2>r, <3>2, RaceKept DEF InHand, Same
    <3> QED
      BY <2>9, <2>r, <3>1, <3>2 DEF Door, FromTitle, FromSetup, FromResults, LeadBack, Button
  <2>10. ASSUME NEW t \in Track \cup {Draft}, Load(t) \/ Build(t) PROVE InHand'
    BY <1>2, <2>10, <2>r, RaceKept DEF InHand, Same, Load, Build
  <2>11. CASE UNCHANGED frontVars
    BY <1>2, <2>11, <2>r, RaceKept DEF InHand, Same, frontVars
  <2> QED
    BY <1>2, <2>1, <2>2, <2>3, <2>4, <2>5, <2>6, <2>7, <2>8, <2>9, <2>10, <2>11 DEF FrontNext
<1> QED
  BY <1>1, <1>2, PTL DEF FrontSpec

\* main.c:2030: a finished race is worked out once, whatever is pressed.
THEOREM ResultsAreOnce == FrontSpec => []OneResultEach
<1>1. InHand => OneResultEach
  BY DEF InHand, OneResultEach
<1> QED
  BY <1>1, InHandInductive, PTL

\* main.c:1781: GO, NEW RACE and Race again start a race and never the one before.
THEOREM GoIsANewRace == FrontSpec => NewRaceIsNew
<1>1. ASSUME InHand, FrontNext, at = "menu", ~editing', screen \in {"setup", "results"},
             screen' = "race", screen = "setup" => ~Paused
      PROVE  tape'.number = tape.number + 1
  <2>1. resume = FALSE
    BY <1>1 DEF InHand
  <2>2. \E next : GoesTo(next, FALSE) /\ next = "race"
    BY <1>1, <2>1 DEF FrontNext, CloseEditor, BackOut, LeaveWatching, Watch, Restart, Tab, Happens,
       Finish, Settle, Wait, RaceShared, Steps, Goes, NoMenu, Draws, Behind, Door, SignOut, Nothing,
       FromTitle, OpenRecords, Dial, FromSetup, FromResults, AskToRace, LeadBack, Button, GoesTo,
       Load, Build, menu
  <2> QED
    BY <1>1, <2>2, Leads
<1>2. InHand /\ [FrontNext]_frontVars
      => [/\ at = "menu" /\ ~editing' /\ screen \in {"setup", "results"} /\ screen' = "race"
          /\ screen = "setup" => ~Paused
          => tape'.number = tape.number + 1]_frontVars
  BY <1>1
<1> QED
  BY <1>2, InHandInductive, PTL DEF FrontSpec, NewRaceIsNew

-----------------------------------------------------------------------------
(* What the device's thread makes of a frame, for any number of frames: it is*)
(* one frame's, because neither thread is between the two halves of what it*)
(* does while the other holds the lock.                                    *)

\* Who holds the lock is who is inside, and what has been written and read of the
\* two halves goes by where each thread is.
Locked ==
    /\ mutex = "caller" <=> caller \in {"cars", "hazards"}
    /\ mutex = "device" <=> device \in {"voices", "burning"}
    /\ shown \in [1 .. 2 -> Int] /\ heard \in [1 .. 2 -> Int]
    /\ caller # "hazards" => shown[1] = shown[2]
    /\ caller = "hazards" => shown[1] = (shown[2] + 1) % Frames
    /\ device = "burning" => heard[1] = shown[1]
    /\ device # "burning" => heard[1] = heard[2]

\* The lock keeps the two halves together.
LEMMA LockedInductive == SoundSpec => []Locked
<1>1. SoundInit => Locked
  BY DEF SoundInit, Locked
<1>2. Locked /\ [SoundNext]_soundVars => Locked'
  <2> SUFFICES ASSUME Locked, [SoundNext]_soundVars PROVE Locked'
    OBVIOUS
  <2>1. CASE UpdateLocks
    BY <2>1 DEF UpdateLocks, Locked
  <2>2. CASE UpdateCars
    BY <2>2, SoundAssumption DEF UpdateCars, Locked
  <2>3. CASE UpdateHazards
    BY <2>3, SoundAssumption DEF UpdateHazards, Locked
  <2>4. CASE RenderLocks
    BY <2>4 DEF RenderLocks, Locked
  <2>5. CASE RenderCars
    BY <2>5 DEF RenderCars, Locked
  <2>6. CASE RenderHazards
    BY <2>6 DEF RenderHazards, Locked
  <2>7. CASE Silence \/ PressesMusic \/ TrackChanges \/ StartComposes \/ StartPlays
    BY <2>7 DEF Silence, PressesMusic, TrackChanges, StartClears, StartComposes, StartPlays, Locked
  <2>8. CASE MixBegins \/ MixSample \/ MixLooks \/ MixStops
    BY <2>8 DEF MixBegins, MixSample, MixLooks, MixStops, Locked
  <2>9. CASE UNCHANGED soundVars
    BY <2>9 DEF soundVars, Locked
  <2> QED
    BY <2>1, <2>2, <2>3, <2>4, <2>5, <2>6, <2>7, <2>8, <2>9 DEF SoundNext
<1> QED
  BY <1>1, <1>2, PTL DEF SoundSpec

\* Whatever the threads do, the cars and the hazards of one stretch of sound are those
\* of one frame (gs_audio.c: gs_audio_update, gs_audio_render).
THEOREM SoundIsOfOneFrame == SoundSpec => []OneFrameAtATime
<1>1. Locked => OneFrameAtATime
  BY DEF Locked, OneFrameAtATime
<1> QED
  BY <1>1, LockedInductive, PTL

-----------------------------------------------------------------------------
(* A tick of a race: who laps, finishes and wins, and what stands after.   *)
(* A place is a count of those ahead, so that the places are right rests on*)
(* what has crossed and when, and on whoever goes round having every       *)
(* checkpoint behind them.                                                 *)

\* Car i as a race keeps it.
CarOK(c) ==
    /\ c = [wrecked |-> c.wrecked, next |-> c.next, laps |-> c.laps, finish |-> c.finish,
            begun |-> c.begun, best |-> c.best, tow |-> c.tow]
    /\ c.wrecked \in BOOLEAN /\ c.next \in Nat /\ c.laps \in Nat /\ c.finish \in Nat
    /\ c.tow \in Nat
    /\ c.next < Gates(course) \/ c.next = 0

ContestTyped ==
    /\ course \in Course
    /\ race = [mode |-> race.mode, laps |-> race.laps, tick |-> race.tick,
               over |-> race.over, winner |-> race.winner]
    /\ race.mode \in {"race", "destruction"} /\ race.laps \in Nat /\ race.tick \in Nat
    /\ race.over \in BOOLEAN
    /\ race.mode = "race" => race.winner \in Grid \cup {NoWinner}
    /\ car = [i \in Grid |-> car[i]] /\ crossed = [i \in Grid |-> crossed[i]]
    /\ \A i \in Grid : CarOK(car[i])

\* Of a car: before the first tick nothing has happened; who is not home has laps to
\* do; and whoever goes round has every checkpoint behind it in hand.
CarStands(c, done) ==
    /\ race.tick = 0 => c.laps = 0 /\ c.next = 0 /\ c.finish = 0
    /\ c.finish # 0 => race.mode = "race" /\ c.finish < race.tick
    /\ race.mode = "race" /\ LapsNeeded > 0 /\ c.finish = 0 => LapsDone(c) < LapsNeeded
    /\ IsCircuit(course) /\ c.laps > 0 =>
         \A g \in 1 .. Gates(course) - 1 :
            IsCheckpoint(course, g) /\ (g < c.next \/ c.next = 0) => g \in done

\* Whoever won was first, and a race is over when nobody can still come in.
ResultHeld ==
    race.mode = "race" =>
        /\ race.over => LapsNeeded > 0 /\ \A i \in Grid : car[i].wrecked \/ car[i].finish # 0
        /\ race.winner = NoWinner => \A i \in Grid : car[i].finish = 0
        /\ race.winner # NoWinner =>
              /\ car[race.winner].finish # 0
              /\ \A i \in Grid : car[i].finish # 0 =>
                    \/ car[race.winner].finish < car[i].finish
                    \/ car[race.winner].finish = car[i].finish /\ race.winner <= i

ContestStands ==
    /\ ContestTyped /\ ResultHeld
    /\ \A i \in Grid : CarStands(car[i], crossed[i])

\* The order of the naturals, as a well-founded relation.
LEMMA NatLess ==
  \E R : IsWellFoundedOn(R, Nat) /\ \A x, y \in Nat : y < x => <<y, x>> \in R
<1> DEFINE R == OpToRel(<, Nat)
<1>1. IsWellFoundedOn(R, Nat)
  BY NatLessThanWellFounded, Zenon
<1>2. \A x, y \in Nat : y < x => <<y, x>> \in R
  BY Zenon DEF OpToRel
<1> HIDE DEF R
<1>3. QED
  BY <1>1, <1>2

\* A set of naturals that is not empty has a least element.
LEMMA LeastNat ==
  ASSUME NEW T, T \subseteq Nat, T # {}
  PROVE  \E x \in T : \A y \in T : x <= y
<1>1. PICK R : IsWellFoundedOn(R, Nat) /\ \A x, y \in Nat : y < x => <<y, x>> \in R
  BY NatLess
<1>2. \E x \in T : \A y \in T : ~(<<y, x>> \in R)
  BY <1>1, WFMin
<1>3. PICK x \in T : \A y \in T : ~(<<y, x>> \in R)
  BY <1>2
<1>4. ASSUME NEW y \in T PROVE x <= y
  <2>1. x \in Nat /\ y \in Nat /\ ~(<<y, x>> \in R)
    BY <1>3
  <2>2. ~(y < x)
    BY <1>1, <2>1
  <2> QED
    BY <2>1, <2>2
<1>5. QED
  BY <1>4

\* What is ahead of a car on its way round, counted without going past the line.
LEMMA RoundTheLine ==
    ASSUME NEW n \in Nat \ {0}, NEW k \in 0 .. n - 1, NEW s \in 0 .. n - 1
    PROVE  (k + s) % n = IF k + s < n THEN k + s ELSE k + s - n
<1>1. CASE k + s < n
  BY <1>1
<1>2. CASE k + s >= n
  <2>1. /\ k + s = n * ((k + s) \div n) + ((k + s) % n) /\ (k + s) % n \in 0 .. n - 1
        /\ (k + s) \div n \in Int
    OBVIOUS
  <2>2. k + s < n + n
    OBVIOUS
  <2>3. PICK q \in Int : q = (k + s) \div n
    BY <2>1
  <2>4. q <= 0 => n * q <= 0
    BY <2>3
  <2>5. q >= 2 => n * q >= n + n
    BY <2>3
  <2>6. q = 1
    BY <1>2, <2>1, <2>2, <2>3, <2>4, <2>5
  <2> QED
    BY <1>2, <2>1, <2>3, <2>6
<1> QED
  BY <1>1, <1>2

\* The gates looked at: the car's next one, or one beyond it with no checkpoint between
\* them, or the line when there is none before that.
LEMMA InWindow ==
    ASSUME ContestTyped, NEW c, CarOK(c), NEW g \in Window(c)
    PROVE  /\ g \in 0 .. Gates(course) - 1 /\ IsCheckpoint(course, 0)
           /\ c.next = 0 => g = 0
           /\ \/ g >= c.next /\ \A h \in c.next .. g - 1 : ~IsCheckpoint(course, h)
              \/ g = 0 /\ \A h \in c.next .. Gates(course) - 1 : ~IsCheckpoint(course, h)
<1> DEFINE gateAt(s) == (c.next + s) % Gates(course)
<1>1. PICK s \in 0 .. Gates(course) - 1 :
        g = gateAt(s) /\ \A r \in 0 .. s - 1 : ~IsCheckpoint(course, gateAt(r))
  BY DEF Window
<1>2. PICK n : n = Gates(course)
  OBVIOUS
<1>3. n \in Nat \ {0} /\ c.next \in 0 .. n - 1 /\ s \in 0 .. n - 1
  BY <1>1, <1>2, ContestAssumption DEF ContestTyped, CarOK
<1>4. IsCheckpoint(course, 0)
  BY <1>2, <1>3 DEF IsCheckpoint
<1>5. \A r \in 0 .. n - 1 : gateAt(r) = IF c.next + r < n THEN c.next + r ELSE c.next + r - n
  BY <1>2, <1>3, RoundTheLine
<1> HIDE DEF gateAt
<1>6. \A r \in 0 .. s - 1 : c.next + r # n
  <2> SUFFICES ASSUME NEW r \in 0 .. s - 1, c.next + r = n PROVE FALSE
    OBVIOUS
  <2>1. gateAt(r) = 0
    BY <1>3, <1>5
  <2> QED
    BY <1>1, <1>4, <2>1
<1>7. s <= n - c.next
  <2>1. ~(s > n - c.next)
    <3> SUFFICES ASSUME s > n - c.next PROVE FALSE
      OBVIOUS
    <3>1. n - c.next \in 0 .. s - 1
      BY <1>3
    <3> QED
      BY <1>3, <1>6, <3>1
  <2> QED
    BY <1>3, <2>1
<1>8. c.next = 0 => s = 0
  <2> SUFFICES ASSUME c.next = 0, s > 0 PROVE FALSE
    BY <1>3
  <2>1. gateAt(0) = 0 /\ 0 \in 0 .. s - 1
    BY <1>3, <1>5
  <2> QED
    BY <1>1, <1>4, <2>1
<1>9. ASSUME NEW h \in c.next .. (c.next + s) - 1, h < n PROVE ~IsCheckpoint(course, h)
  <2>1. h - c.next \in 0 .. s - 1 /\ gateAt(h - c.next) = h
    BY <1>3, <1>5, <1>9
  <2> QED
    BY <1>1, <2>1
<1>10. CASE c.next + s < n
  <2>1. g = c.next + s
    BY <1>1, <1>3, <1>5, <1>10
  <2> QED
    BY <1>2, <1>3, <1>4, <1>8, <1>9, <1>10, <2>1
<1>11. CASE c.next + s = n
  <2>1. g = 0
    BY <1>1, <1>3, <1>5, <1>11
  <2> QED
    BY <1>2, <1>3, <1>4, <1>8, <1>9, <1>11, <2>1
<1> QED
  BY <1>3, <1>7, <1>10, <1>11

\* What a tick makes of a car before anybody else strikes it.
After(c, fate, g) == FinishTick(IF g = NoWinner THEN Stepped(c, fate) ELSE Crosses(Stepped(c, fate), g))
Lapped(c, fate, g) == IF g = NoWinner THEN Stepped(c, fate) ELSE Crosses(Stepped(c, fate), g)
Done(done, g) == IF g = NoWinner THEN done ELSE IF g = FinishGate(course) THEN {} ELSE done \cup {g}

May(c, fate, g) ==
    /\ MayMeet(c, fate)
    /\ g # NoWinner => MayCross(c, Stepped(c, fate)) /\ g \in Window(Stepped(c, fate))

\* What a tick of driving does to a car: its laps and gates stay as they were.
LEMMA StepsOn ==
    ASSUME ContestTyped, NEW c, CarOK(c), NEW fate
    PROVE  LET d == Stepped(c, fate)
           IN  /\ CarOK(d) /\ d.next = c.next /\ d.laps = c.laps /\ d.finish = c.finish
               /\ c.wrecked => d = c
<1>1. TowTicks \in Nat
  BY ContestAssumption
<1>2. PICK d : d = Stepped(c, fate)
  OBVIOUS
<1>3. CASE c.wrecked
  BY <1>2, <1>3 DEF Stepped, Moves
<1>4. CASE ~c.wrecked
  <2>1. CASE c.tow > 0
    <3>1. d = [c EXCEPT !.tow = c.tow - 1] /\ c.tow - 1 \in Nat
      BY <1>2, <1>4, <2>1 DEF Stepped, Moves, CarOK
    <3> QED
      BY <1>2, <1>4, <3>1 DEF CarOK
  <2>2. CASE ~(c.tow > 0)
    <3>1. \E w \in BOOLEAN, n \in Nat : d = [c EXCEPT !.wrecked = w, !.tow = n]
      BY <1>1, <1>2, <1>4, <2>2 DEF Stepped, Moves
    <3>2. PICK w \in BOOLEAN, n \in Nat : d = [c EXCEPT !.wrecked = w, !.tow = n]
      BY <3>1
    <3> QED
      BY <1>2, <1>4, <3>2 DEF CarOK
  <2> QED
    BY <2>1, <2>2
<1> QED
  BY <1>3, <1>4

\* A car that has not crossed the line has as many laps as it had, and one that has,
\* one more; either way it looks for the gate after the one it crossed.
LEMMA Laps1 ==
    ASSUME ContestTyped, NEW c, CarOK(c), NEW fate, NEW g, May(c, fate, g)
    PROVE  LET l == Lapped(c, fate, g)
           IN  /\ CarOK(l) /\ l.finish = c.finish
               /\ c.wrecked => l = c
               /\ g = NoWinner => l.laps = c.laps /\ l.next = c.next
               /\ g # NoWinner =>
                    /\ g \in 0 .. Gates(course) - 1 /\ g \in Window(Stepped(c, fate))
                    /\ l.laps = IF g = FinishGate(course) THEN c.laps + 1 ELSE c.laps
                    /\ l.next = IF g + 1 = Gates(course) THEN 0 ELSE g + 1
<1>1. PICK d : d = Stepped(c, fate)
  OBVIOUS
<1>2. /\ CarOK(d) /\ d.next = c.next /\ d.laps = c.laps /\ d.finish = c.finish
      /\ c.wrecked => d = c
  BY <1>1, StepsOn
<1>3. CASE g = NoWinner
  BY <1>1, <1>2, <1>3 DEF Lapped
<1>4. CASE g # NoWinner
  <2>1. ~c.wrecked /\ g \in Window(d) /\ g \in 0 .. Gates(course) - 1
    BY <1>1, <1>2, <1>4, InWindow DEF May, MayCross, Moves
  <2>2. PICK n : n = Gates(course)
    OBVIOUS
  <2>3. n \in Nat \ {0}
    BY <2>1, <2>2, ContestAssumption DEF ContestTyped
  <2>4. (g + 1) % n = IF g + 1 = n THEN 0 ELSE g + 1
    <3>1. CASE g + 1 = n
      BY <2>3, <3>1
    <3>2. CASE g + 1 < n
      BY <2>1, <2>2, <2>3, <3>2
    <3> QED
      BY <2>1, <2>2, <2>3, <3>1, <3>2
  <2>5. PICK l : l = Crosses(d, g)
    OBVIOUS
  <2>6. /\ l.finish = d.finish /\ l.next = (g + 1) % n /\ l.wrecked = d.wrecked /\ l.tow = d.tow
        /\ l.laps = IF g = FinishGate(course) THEN d.laps + 1 ELSE d.laps
        /\ l = [wrecked |-> l.wrecked, next |-> l.next, laps |-> l.laps, finish |-> l.finish,
                begun |-> l.begun, best |-> l.best, tow |-> l.tow]
    BY <1>2, <2>2, <2>5 DEF Crosses, CarOK
  <2>7. CarOK(l)
    BY <1>2, <2>1, <2>2, <2>3, <2>4, <2>6 DEF CarOK
  <2> QED
    BY <1>1, <1>2, <1>4, <2>1, <2>2, <2>4, <2>5, <2>6, <2>7 DEF Lapped
<1> QED
  BY <1>3, <1>4

\* Who has laps to do before a tick comes in during it or still has laps to do, and never
\* in the first, at the end of which no route can be.
LEMMA ComesHome ==
    ASSUME ContestTyped, NEW c, CarOK(c), NEW done, CarStands(c, done), NEW fate, NEW g,
           May(c, fate, g)
    PROVE  LET l == Lapped(c, fate, g)
               f == After(c, fate, g)
           IN  /\ CarOK(f) /\ f.laps = l.laps /\ f.next = l.next
               /\ f.finish = IF Finishes(l) THEN race.tick ELSE c.finish
               /\ Finishes(l) => race.tick > 0 /\ race.mode = "race" /\ c.finish = 0
               /\ race.mode = "race" /\ LapsNeeded > 0 /\ f.finish = 0 => LapsDone(f) < LapsNeeded
               /\ c.wrecked => f = c /\ ~Finishes(l)
<1>1. PICK l : l = Lapped(c, fate, g)
  OBVIOUS
<1>2. PICK f : f = After(c, fate, g)
  OBVIOUS
<1>3. f = FinishTick(l)
  BY <1>1, <1>2 DEF After, Lapped
<1>4. /\ CarOK(l) /\ l.finish = c.finish
      /\ c.wrecked => l = c
      /\ g = NoWinner => l.laps = c.laps /\ l.next = c.next
      /\ g # NoWinner =>
           /\ g \in 0 .. Gates(course) - 1 /\ g \in Window(Stepped(c, fate))
           /\ l.laps = IF g = FinishGate(course) THEN c.laps + 1 ELSE c.laps
  BY <1>1, Laps1
<1>5. CarOK(f) /\ f.laps = l.laps /\ f.next = l.next
      /\ f.finish = IF Finishes(l) THEN race.tick ELSE c.finish
  <2>1. race.tick \in Nat
    BY DEF ContestTyped
  <2>2. f = l \/ f = [l EXCEPT !.finish = race.tick]
    BY <1>3 DEF FinishTick
  <2>3. CarOK([l EXCEPT !.finish = race.tick])
    BY <1>4, <2>1 DEF CarOK
  <2>4. f.finish = IF Finishes(l) THEN race.tick ELSE c.finish
    BY <1>3, <1>4 DEF FinishTick, CarOK
  <2> QED
    BY <1>4, <2>2, <2>3, <2>4 DEF CarOK
<1>6. LapsNeeded \in Nat /\ LapsDone(l) \in Nat /\ LapsDone(f) = LapsDone(l)
  BY <1>4, <1>5 DEF LapsNeeded, LapsDone, ContestTyped, CarOK
<1>7. Finishes(l) => race.tick > 0
  <2> SUFFICES ASSUME Finishes(l), race.tick = 0 PROVE FALSE
    BY DEF ContestTyped
  <2>1. c.laps = 0 /\ c.next = 0 /\ LapsDone(l) >= 1
    BY <1>6 DEF CarStands, Finishes
  <2>2. CASE IsCircuit(course)
    BY <1>4, <2>1, <2>2 DEF LapsDone
  <2>3. CASE ~IsCircuit(course)
    <3>1. g # NoWinner /\ g = FinishGate(course) /\ Gates(course) \in Nat
      BY <1>4, <2>1, <2>3, ContestAssumption DEF LapsDone, ContestTyped
    <3>2. Stepped(c, fate).next = 0 /\ CarOK(Stepped(c, fate))
      BY <2>1, StepsOn
    <3>3. g = 0
      BY <1>4, <3>1, <3>2, InWindow
    <3> QED
      BY <1>4, <2>3, <3>1, <3>3, ContestAssumption DEF FinishGate, ContestTyped
  <2> QED
    BY <2>2, <2>3
<1>8. race.mode = "race" /\ LapsNeeded > 0 /\ f.finish = 0 => LapsDone(f) < LapsNeeded
  BY <1>4, <1>5, <1>6, <1>7 DEF Finishes
<1>9. Finishes(l) => race.mode = "race" /\ c.finish = 0
  BY <1>4 DEF Finishes
<1>10. c.wrecked => ~Finishes(l)
  <2>1. Finishes(l) /\ c.wrecked => LapsDone(c) < LapsNeeded
    BY <1>4, <1>9 DEF CarStands, Finishes
  <2> QED
    BY <1>4, <1>6, <2>1 DEF Finishes
<1>11. c.wrecked => f = c
  BY <1>3, <1>4, <1>10 DEF FinishTick
<1> QED
  BY <1>1, <1>2, <1>5, <1>7, <1>8, <1>9, <1>10, <1>11

\* The checkpoints behind a car stay in hand, and when it comes round they all are.
LEMMA GoesRound ==
    ASSUME ContestTyped, NEW c, CarOK(c), NEW done, CarStands(c, done), NEW fate, NEW g,
           May(c, fate, g), IsCircuit(course)
    PROVE  LET l == Lapped(c, fate, g)
           IN  /\ l.laps > 0 =>
                    \A h \in 1 .. Gates(course) - 1 :
                       IsCheckpoint(course, h) /\ (h < l.next \/ l.next = 0) => h \in Done(done, g)
               /\ LapsDone(l) > LapsDone(c) =>
                    \A h \in 1 .. Gates(course) - 1 : IsCheckpoint(course, h) => h \in done
<1>1. PICK l : l = Lapped(c, fate, g)
  OBVIOUS
<1>2. PICK n : n = Gates(course)
  OBVIOUS
<1>3. /\ CarOK(l)
      /\ g = NoWinner => l.laps = c.laps /\ l.next = c.next
      /\ g # NoWinner =>
           /\ g \in 0 .. n - 1 /\ g \in Window(Stepped(c, fate))
           /\ l.laps = IF g = 0 THEN c.laps + 1 ELSE c.laps
           /\ l.next = IF g + 1 = n THEN 0 ELSE g + 1
  BY <1>1, <1>2, Laps1 DEF FinishGate
<1>4. FinishGate(course) = 0 /\ c.laps \in Nat /\ c.next \in Nat /\ n \in Nat
  BY <1>2, ContestAssumption DEF FinishGate, CarOK, ContestTyped
<1>5. c.laps > 0 => \A h \in 1 .. n - 1 :
        IsCheckpoint(course, h) /\ (h < c.next \/ c.next = 0) => h \in done
  BY <1>2 DEF CarStands
<1>6. CASE g = NoWinner
  <2>1. l.laps = c.laps /\ l.next = c.next /\ Done(done, g) = done
    BY <1>3, <1>6 DEF Done
  <2>2. ~(LapsDone(l) > LapsDone(c))
    BY <1>4, <2>1 DEF LapsDone
  <2> QED
    BY <1>1, <1>2, <1>5, <2>1, <2>2
<1>7. CASE g # NoWinner
  <2>1. Stepped(c, fate).next = c.next /\ CarOK(Stepped(c, fate))
    BY StepsOn
  <2>2. /\ c.next = 0 => g = 0
        /\ \/ g >= c.next /\ \A h \in c.next .. g - 1 : ~IsCheckpoint(course, h)
           \/ g = 0 /\ \A h \in c.next .. n - 1 : ~IsCheckpoint(course, h)
    BY <1>2, <1>3, <1>7, <2>1, InWindow
  <2>3. CASE g = 0
    <3>1. \A h \in 1 .. n - 1 : ~(IsCheckpoint(course, h) /\ (h < l.next \/ l.next = 0))
      BY <1>3, <1>4, <1>7, <2>3
    <3>2. ASSUME c.laps > 0, NEW h \in 1 .. n - 1, IsCheckpoint(course, h)
          PROVE  h \in done
      BY <1>4, <1>5, <2>2, <2>3, <3>2
    <3>3. LapsDone(l) > LapsDone(c) => c.laps > 0
      BY <1>3, <1>4, <1>7, <2>3 DEF LapsDone
    <3> QED
      BY <1>1, <1>2, <3>1, <3>2, <3>3
  <2>4. CASE g # 0
    <3>1. l.laps = c.laps /\ Done(done, g) = done \cup {g}
      BY <1>3, <1>4, <1>7, <2>4 DEF Done
    <3>2. ASSUME c.laps > 0, NEW h \in 1 .. n - 1, IsCheckpoint(course, h), h < l.next \/ l.next = 0
          PROVE  h \in done \cup {g}
      <4>1. h <= g
        BY <1>3, <1>4, <1>7, <3>2
      <4>2. h < c.next \/ h = g
        BY <1>3, <1>4, <1>7, <2>2, <2>4, <3>2, <4>1
      <4> QED
        BY <1>5, <3>2, <4>2
    <3>3. ~(LapsDone(l) > LapsDone(c))
      BY <1>4, <3>1 DEF LapsDone
    <3> QED
      BY <1>1, <1>2, <3>1, <3>2, <3>3
  <2> QED
    BY <2>3, <2>4
<1> QED
  BY <1>6, <1>7

\* The lowest of some cars, if there are any.
LEMMA FirstOf ==
    ASSUME NEW S \in SUBSET Grid
    PROVE  /\ S = {} => First(S) = NoWinner
           /\ S # {} => First(S) \in S /\ \A j \in S : First(S) <= j
<1>1. S \subseteq Nat
  BY ContestAssumption DEF Grid
<1>2. CASE S # {}
  <2>1. \E i \in S : \A j \in S : i <= j
    BY <1>1, <1>2, LeastNat
  <2>2. First(S) = CHOOSE i \in S : \A j \in S : i <= j
    BY <1>2 DEF First
  <2> QED
    BY <1>2, <2>1, <2>2
<1> QED
  BY <1>2 DEF First

\* A tick, car by car: the car as it has moved, as it was timed, and what is left of it.
Parts(fate, gate, lapped, flagged, mined) ==
    /\ lapped = [i \in Grid |-> Lapped(car[i], fate[i], gate[i])]
    /\ flagged = [i \in Grid |-> After(car[i], fate[i], gate[i])]
    /\ course' = course
    /\ car' = [i \in Grid |-> car'[i]] /\ crossed' = [i \in Grid |-> crossed'[i]]
    /\ \A i \in Grid :
         /\ May(car[i], fate[i], gate[i])
         /\ car'[i] \in {flagged[i], [flagged[i] EXCEPT !.wrecked = TRUE]}
         /\ crossed'[i] = Done(crossed[i], gate[i])
    /\ race' = [Decided(Flagged(race, lapped, flagged), mined) EXCEPT !.tick = @ + 1]

\* A tick, taken apart: how each car fares, which gate each crosses, and who laps,
\* finishes and is wrecked.
LEMMA StepParts ==
    ASSUME Step
    PROVE  \E fate, gate, lapped, flagged, mined : Parts(fate, gate, lapped, flagged, mined)
<1>1. PICK fate \in [Grid -> Fates], gate \in [Grid -> {NoWinner} \cup 0 .. Gates(course) - 1] :
        /\ \A i \in Grid : MayMeet(car[i], fate[i])
        /\ \A i \in Grid : gate[i] # NoWinner =>
              MayCross(car[i], Stepped(car[i], fate[i])) /\ gate[i] \in Window(Stepped(car[i], fate[i]))
        /\ LET driven == [i \in Grid |-> Stepped(car[i], fate[i])]
               Meet(f) == {i \in Grid : fate[i] = f}
               lapped == [i \in Grid |-> IF gate[i] = NoWinner THEN driven[i]
                                         ELSE Crosses(driven[i], gate[i])]
               flagged == [i \in Grid |-> FinishTick(lapped[i])]
               mined == Wrecked(flagged, Meet("burnt"))
           IN  /\ car' = Wrecked(mined, Meet("hit"))
               /\ race' = [Decided(Flagged(race, lapped, flagged), mined) EXCEPT !.tick = @ + 1]
        /\ crossed' = [i \in Grid |->
             IF gate[i] = NoWinner THEN crossed[i]
             ELSE IF gate[i] = FinishGate(course) THEN {}
             ELSE crossed[i] \cup {gate[i]}]
  BY DEF Step
<1>2. PICK lapped : lapped = [i \in Grid |-> Lapped(car[i], fate[i], gate[i])]
  OBVIOUS
<1>3. PICK flagged : flagged = [i \in Grid |-> After(car[i], fate[i], gate[i])]
  OBVIOUS
<1>4. lapped = [i \in Grid |-> IF gate[i] = NoWinner THEN [j \in Grid |-> Stepped(car[j], fate[j])][i]
                               ELSE Crosses([j \in Grid |-> Stepped(car[j], fate[j])][i], gate[i])]
  BY <1>2 DEF Lapped
<1>5. flagged = [i \in Grid |-> FinishTick(lapped[i])]
  BY <1>2, <1>3 DEF Lapped, After
<1>6. PICK mined : mined = Wrecked(flagged, {i \in Grid : fate[i] = "burnt"})
  OBVIOUS
<1>7. /\ car' = Wrecked(mined, {i \in Grid : fate[i] = "hit"})
      /\ race' = [Decided(Flagged(race, lapped, flagged), mined) EXCEPT !.tick = @ + 1]
  BY <1>1, <1>4, <1>5, <1>6
<1>8. car' = [i \in Grid |-> car'[i]]
  BY <1>7 DEF Wrecked
<1>9. ASSUME NEW i \in Grid
      PROVE  car'[i] \in {flagged[i], [flagged[i] EXCEPT !.wrecked = TRUE]}
  <2>1. mined[i] \in {flagged[i], [flagged[i] EXCEPT !.wrecked = TRUE]}
    BY <1>6 DEF Wrecked
  <2>2. car'[i] = IF fate[i] = "hit" THEN [mined[i] EXCEPT !.wrecked = TRUE] ELSE mined[i]
    BY <1>7 DEF Wrecked
  <2>3. fate[i] = "hit" => mined[i] = flagged[i]
    BY <1>6 DEF Wrecked
  <2> QED
    BY <2>1, <2>2, <2>3
<1>10. /\ \A i \in Grid : May(car[i], fate[i], gate[i]) /\ crossed'[i] = Done(crossed[i], gate[i])
       /\ crossed' = [i \in Grid |-> crossed'[i]] /\ course' = course
  BY <1>1 DEF May, Done, Step
<1>11. Parts(fate, gate, lapped, flagged, mined)
  BY <1>2, <1>3, <1>7, <1>8, <1>9, <1>10 DEF Parts
<1> QED
  BY <1>11

\* What a tick makes of the result.
LEMMA ResultStep ==
    ASSUME ContestTyped, NEW before, NEW after, NEW mined,
           race' = [Decided(Flagged(race, before, after), mined) EXCEPT !.tick = @ + 1]
    PROVE  /\ race' = [mode |-> race'.mode, laps |-> race'.laps, tick |-> race'.tick,
                       over |-> race'.over, winner |-> race'.winner]
           /\ race'.mode = race.mode /\ race'.laps = race.laps /\ race'.tick = race.tick + 1
           /\ race'.over \in BOOLEAN
           /\ race.mode = "race" /\ LapsNeeded = 0 =>
                race'.over = race.over /\ race'.winner = race.winner
           /\ race.mode = "race" /\ LapsNeeded # 0 =>
                /\ race'.over <=> race.over \/ \A i \in Grid : ~Moves(after[i]) \/ after[i].finish # 0
                /\ race'.winner = IF race.winner = NoWinner THEN First({i \in Grid : Finishes(before[i])})
                                  ELSE race.winner
           /\ race.mode = "destruction" /\ race.over => race'.over /\ race'.winner = race.winner
<1>1. PICK f : f = Flagged(race, before, after)
  OBVIOUS
<1>2. PICK w : w = First({i \in Grid : Finishes(before[i])})
  OBVIOUS
<1>3. PICK all \in BOOLEAN : all <=> \A i \in Grid : ~Moves(after[i]) \/ after[i].finish # 0
  OBVIOUS
<1>4. CASE race.mode = "race"
  <2>1. f = IF LapsNeeded = 0 THEN race
            ELSE [race EXCEPT !.winner = IF race.winner = NoWinner THEN w ELSE race.winner,
                              !.over = race.over \/ all]
    <3>1. CASE LapsNeeded = 0
      BY <1>1, <1>4, <3>1 DEF Flagged
    <3>2. CASE LapsNeeded # 0
      <4>1. (race.over \/ all) = (race.over \/ \A i \in Grid : ~Moves(after[i]) \/ after[i].finish # 0)
        BY <1>3
      <4> QED
        BY <1>1, <1>2, <1>4, <3>2, <4>1 DEF Flagged
    <3> QED
      BY <3>1, <3>2
  <2>2. race' = [f EXCEPT !.tick = f.tick + 1]
    <3>1. f.mode = "race"
      BY <1>4, <2>1 DEF ContestTyped
    <3> QED
      BY <1>1, <3>1 DEF Decided
  <2> QED
    BY <1>2, <1>3, <1>4, <2>1, <2>2 DEF ContestTyped
<1>5. CASE race.mode = "destruction"
  <2>1. f = race
    BY <1>1, <1>5 DEF Flagged
  <2>2. PICK d : d = Decided(race, mined)
    OBVIOUS
  <2>3. race' = [d EXCEPT !.tick = d.tick + 1]
    BY <1>1, <2>1, <2>2
  <2>4. d = race \/ (~race.over /\ \E x : d = [race EXCEPT !.over = TRUE, !.winner = x])
    BY <2>2 DEF Decided
  <2>5. CASE d = race
    BY <1>5, <2>3, <2>5 DEF ContestTyped
  <2>6. CASE ~race.over /\ \E x : d = [race EXCEPT !.over = TRUE, !.winner = x]
    <3>1. PICK x : d = [race EXCEPT !.over = TRUE, !.winner = x]
      BY <2>6
    <3> QED
      BY <1>5, <2>3, <2>6, <3>1 DEF ContestTyped
  <2> QED
    BY <2>4, <2>5, <2>6
<1> QED
  BY <1>4, <1>5 DEF ContestTyped

\* What a tick leaves of each car and of the result.
LEMMA ContestStep ==
    ASSUME ContestStands, Step
    PROVE  /\ ContestStands'
           /\ race.over => /\ race'.winner = race.winner /\ race'.over
                           /\ \A i \in Grid : car'[i].finish = car[i].finish
           /\ \A i \in Grid : LapsDone(car'[i]) > LapsDone(car[i]) =>
                 \A g \in 0 .. Gates(course) - 1 :
                    IsCheckpoint(course, g) /\ g # FinishGate(course)
                      => g \in crossed[i] \/ ~IsCircuit(course)
<1>1. PICK fate, gate, lapped, flagged, mined : Parts(fate, gate, lapped, flagged, mined)
  BY StepParts
<1>2. /\ ContestTyped /\ ResultHeld
      /\ \A i \in Grid : CarOK(car[i]) /\ CarStands(car[i], crossed[i])
  BY DEF ContestStands, ContestTyped
<1>3. /\ course' = course
      /\ car' = [i \in Grid |-> car'[i]] /\ crossed' = [i \in Grid |-> crossed'[i]]
      /\ race' = [Decided(Flagged(race, lapped, flagged), mined) EXCEPT !.tick = @ + 1]
  BY <1>1 DEF Parts
<1>4. /\ race' = [mode |-> race'.mode, laps |-> race'.laps, tick |-> race'.tick,
                  over |-> race'.over, winner |-> race'.winner]
      /\ race'.mode = race.mode /\ race'.laps = race.laps /\ race'.tick = race.tick + 1
      /\ race'.over \in BOOLEAN
      /\ race.mode = "race" /\ LapsNeeded = 0 =>
           race'.over = race.over /\ race'.winner = race.winner
      /\ race.mode = "race" /\ LapsNeeded # 0 =>
           /\ race'.over <=> race.over \/ \A i \in Grid : ~Moves(flagged[i]) \/ flagged[i].finish # 0
           /\ race'.winner = IF race.winner = NoWinner THEN First({i \in Grid : Finishes(lapped[i])})
                             ELSE race.winner
      /\ race.mode = "destruction" /\ race.over => race'.over /\ race'.winner = race.winner
  BY <1>2, <1>3, ResultStep
<1>5. LapsNeeded' = LapsNeeded /\ LapsNeeded \in Nat /\ race.tick \in Nat /\ race'.tick > 0
  BY <1>2, <1>3, <1>4 DEF LapsNeeded, ContestTyped
<1>6. ASSUME NEW i \in Grid
      PROVE  /\ CarOK(flagged[i])
             /\ flagged[i].finish = IF Finishes(lapped[i]) THEN race.tick ELSE car[i].finish
             /\ Finishes(lapped[i]) => race.tick > 0 /\ race.mode = "race" /\ car[i].finish = 0
             /\ race.mode = "race" /\ LapsNeeded > 0 /\ flagged[i].finish = 0
                  => LapsDone(flagged[i]) < LapsNeeded
             /\ car[i].wrecked => flagged[i] = car[i] /\ ~Finishes(lapped[i])
             /\ IsCircuit(course) =>
                  /\ flagged[i].laps > 0 =>
                       \A h \in 1 .. Gates(course) - 1 :
                          IsCheckpoint(course, h) /\ (h < flagged[i].next \/ flagged[i].next = 0)
                            => h \in crossed'[i]
                  /\ LapsDone(flagged[i]) > LapsDone(car[i]) =>
                       \A h \in 1 .. Gates(course) - 1 : IsCheckpoint(course, h) => h \in crossed[i]
  <2>1. PICK c : c = car[i]
    OBVIOUS
  <2>2. PICK l : l = Lapped(c, fate[i], gate[i])
    OBVIOUS
  <2>3. PICK f : f = After(c, fate[i], gate[i])
    OBVIOUS
  <2>4. lapped[i] = l /\ flagged[i] = f /\ crossed'[i] = Done(crossed[i], gate[i])
        /\ May(c, fate[i], gate[i])
    BY <1>1, <2>1, <2>2, <2>3 DEF Parts
  <2>5. /\ CarOK(f) /\ f.laps = l.laps /\ f.next = l.next
        /\ f.finish = IF Finishes(l) THEN race.tick ELSE c.finish
        /\ Finishes(l) => race.tick > 0 /\ race.mode = "race" /\ c.finish = 0
        /\ race.mode = "race" /\ LapsNeeded > 0 /\ f.finish = 0 => LapsDone(f) < LapsNeeded
        /\ c.wrecked => f = c /\ ~Finishes(l)
    BY <1>2, <2>1, <2>2, <2>3, <2>4, ComesHome
  <2>6. IsCircuit(course) =>
          /\ l.laps > 0 =>
               \A h \in 1 .. Gates(course) - 1 :
                  IsCheckpoint(course, h) /\ (h < l.next \/ l.next = 0) => h \in crossed'[i]
          /\ LapsDone(l) > LapsDone(c) =>
               \A h \in 1 .. Gates(course) - 1 : IsCheckpoint(course, h) => h \in crossed[i]
    BY <1>2, <2>1, <2>2, <2>4, GoesRound
  <2>7. LapsDone(f) = LapsDone(l)
    BY <2>5 DEF LapsDone
  <2> QED
    BY <2>1, <2>4, <2>5, <2>6, <2>7
<1>7. ASSUME NEW i \in Grid
      PROVE  /\ CarOK(car'[i]) /\ car'[i].finish = flagged[i].finish /\ car'[i].laps = flagged[i].laps
             /\ car'[i].next = flagged[i].next /\ (flagged[i].wrecked => car'[i].wrecked)
  <2>1. PICK f : f = flagged[i]
    OBVIOUS
  <2>2. PICK d : d = [f EXCEPT !.wrecked = TRUE]
    OBVIOUS
  <2>3. CarOK(f) /\ car'[i] \in {f, d}
    BY <1>1, <1>6, <2>1, <2>2 DEF Parts
  <2>4. d = [wrecked |-> TRUE, next |-> f.next, laps |-> f.laps, finish |-> f.finish,
             begun |-> f.begun, best |-> f.best, tow |-> f.tow]
    BY <2>2, <2>3 DEF CarOK
  <2>5. CarOK(d)
    BY <2>3, <2>4 DEF CarOK
  <2>6. CASE car'[i] = f
    BY <2>1, <2>3, <2>6
  <2>7. CASE car'[i] = d
    BY <2>1, <2>4, <2>5, <2>7
  <2> QED
    BY <2>3, <2>6, <2>7
<1>8. \A i \in Grid : LapsDone(car'[i]) = LapsDone(flagged[i])
  BY <1>7 DEF LapsDone
<1>9. \A c : LapsDone(c)' = LapsDone(c)' /\ (CarOK(c) => CarOK(c)')
  BY <1>3 DEF CarOK
<1>10. ASSUME race.over, race.mode = "race"
       PROVE  /\ \A i \in Grid : ~Finishes(lapped[i]) /\ car'[i].finish = car[i].finish
              /\ \A i \in Grid : car'[i].wrecked \/ car'[i].finish # 0
              /\ race'.winner = race.winner /\ race'.over /\ LapsNeeded > 0
  <2>1. LapsNeeded > 0 /\ \A i \in Grid : car[i].wrecked \/ car[i].finish # 0
    BY <1>2, <1>10 DEF ResultHeld
  <2>2. ASSUME NEW i \in Grid
        PROVE  ~Finishes(lapped[i]) /\ car'[i].finish = car[i].finish
               /\ (car'[i].wrecked \/ car'[i].finish # 0)
    BY <1>6, <1>7, <2>1
  <2>3. {i \in Grid : Finishes(lapped[i])} = {}
    BY <2>2
  <2>4. First({i \in Grid : Finishes(lapped[i])}) = NoWinner
    BY <2>3, FirstOf
  <2> QED
    BY <1>4, <1>5, <1>10, <2>1, <2>2, <2>4
<1>11. race.over => /\ race'.winner = race.winner /\ race'.over
                    /\ \A i \in Grid : car'[i].finish = car[i].finish
  <2>1. CASE race.mode = "race"
    BY <1>10, <2>1
  <2>2. CASE race.mode = "destruction"
    BY <1>4, <1>6, <1>7, <2>2
  <2> QED
    BY <1>2, <2>1, <2>2 DEF ContestTyped
<1>12. ASSUME NEW i \in Grid, LapsDone(car'[i]) > LapsDone(car[i]), IsCircuit(course),
              NEW g \in 0 .. Gates(course) - 1, IsCheckpoint(course, g), g # FinishGate(course)
       PROVE  g \in crossed[i]
  BY <1>6, <1>8, <1>12 DEF FinishGate
<1>13. race.mode = "race" => race'.winner \in Grid \cup {NoWinner}
  <2>1. First({i \in Grid : Finishes(lapped[i])}) \in Grid \cup {NoWinner}
    BY FirstOf
  <2> QED
    BY <1>2, <1>4, <2>1 DEF ContestTyped
<1>14. ContestTyped'
  <2>1. \A i \in Grid : CarOK(car[i])'
    BY <1>3, <1>7 DEF CarOK
  <2> QED
    BY <1>2, <1>3, <1>4, <1>5, <1>13, <2>1 DEF ContestTyped
<1>15. ASSUME NEW i \in Grid PROVE CarStands(car[i], crossed[i])'
  <2>1. car'[i].finish # 0 => race.mode = "race" /\ car'[i].finish < race'.tick
    <3>1. Finishes(lapped[i]) => race.mode = "race" /\ flagged[i].finish = race.tick
      BY <1>6
    <3>2. car[i].finish # 0 => race.mode = "race" /\ car[i].finish < race.tick /\ car[i].finish \in Nat
      BY <1>2 DEF CarStands, CarOK
    <3> QED
      BY <1>4, <1>5, <1>6, <1>7, <3>1, <3>2
  <2>2. race.mode = "race" /\ LapsNeeded > 0 /\ car'[i].finish = 0 => LapsDone(car'[i]) < LapsNeeded
    BY <1>6, <1>7, <1>8
  <2>3. IsCircuit(course) /\ car'[i].laps > 0 =>
          \A g \in 1 .. Gates(course) - 1 :
             IsCheckpoint(course, g) /\ (g < car'[i].next \/ car'[i].next = 0) => g \in crossed'[i]
    BY <1>6, <1>7
  <2>4. LapsDone(car[i])' = LapsDone(car'[i])
    BY <1>3 DEF LapsDone
  <2> QED
    BY <1>3, <1>4, <1>5, <2>1, <2>2, <2>3, <2>4 DEF CarStands
<1>16. ASSUME race.mode = "race"
       PROVE  /\ race'.over => LapsNeeded > 0 /\ \A i \in Grid : car'[i].wrecked \/ car'[i].finish # 0
              /\ race'.winner = NoWinner => \A i \in Grid : car'[i].finish = 0
              /\ race'.winner # NoWinner =>
                    /\ car'[race'.winner].finish # 0
                    /\ \A i \in Grid : car'[i].finish # 0 =>
                          \/ car'[race'.winner].finish < car'[i].finish
                          \/ car'[race'.winner].finish = car'[i].finish /\ race'.winner <= i
  <2>1. race'.over => LapsNeeded > 0 /\ \A i \in Grid : car'[i].wrecked \/ car'[i].finish # 0
    <3>1. CASE race.over
      BY <1>10, <1>16, <3>1
    <3>2. CASE ~race.over
      <4>1. LapsNeeded = 0 => ~race'.over
        BY <1>4, <1>16, <3>2
      <4>2. LapsNeeded # 0 /\ race'.over => \A i \in Grid : ~Moves(flagged[i]) \/ flagged[i].finish # 0
        BY <1>4, <1>16, <3>2
      <4>3. \A i \in Grid : ~Moves(flagged[i]) => car'[i].wrecked
        BY <1>6, <1>7 DEF Moves
      <4> QED
        BY <1>5, <1>7, <4>1, <4>2, <4>3
    <3> QED
      BY <3>1, <3>2
  <2>2. CASE race.winner = NoWinner
    <3>1. \A i \in Grid : car[i].finish = 0
      BY <1>2, <1>16, <2>2 DEF ResultHeld
    <3>2. PICK F : F = {i \in Grid : Finishes(lapped[i])}
      OBVIOUS
    <3>3. \A i \in Grid : /\ i \in F => car'[i].finish = race.tick /\ race.tick > 0
                          /\ i \notin F => car'[i].finish = 0
      BY <1>6, <1>7, <3>1, <3>2
    <3>4. race'.winner = IF LapsNeeded = 0 THEN NoWinner ELSE First(F)
      BY <1>4, <1>16, <2>2, <3>2
    <3>5. LapsNeeded = 0 => F = {}
      BY <3>2 DEF Finishes
    <3>6. /\ F = {} => race'.winner = NoWinner
          /\ F # {} => race'.winner \in F /\ \A j \in F : race'.winner <= j
      BY <3>2, <3>4, <3>5, FirstOf
    <3>7. NoWinner \notin Grid
      BY ContestAssumption DEF NoWinner, Grid
    <3> QED
      BY <2>1, <3>2, <3>3, <3>6, <3>7
  <2>3. CASE race.winner # NoWinner
    <3>1. /\ race.winner \in Grid /\ race'.winner = race.winner
          /\ car[race.winner].finish # 0
          /\ \A i \in Grid : car[i].finish # 0 =>
                \/ car[race.winner].finish < car[i].finish
                \/ car[race.winner].finish = car[i].finish /\ race.winner <= i
      BY <1>2, <1>4, <1>16, <2>3 DEF ResultHeld, ContestTyped
    <3>2. \A i \in Grid : car[i].finish # 0 => car'[i].finish = car[i].finish
      BY <1>6, <1>7
    <3>3. \A i \in Grid : car[i].finish = 0 => car'[i].finish \in {0, race.tick}
      BY <1>6, <1>7
    <3>4. car[race.winner].finish < race.tick
      BY <1>2, <3>1 DEF CarStands
    <3> QED
      BY <2>1, <2>3, <3>1, <3>2, <3>3, <3>4
  <2> QED
    BY <2>2, <2>3
<1>17. ResultHeld'
  BY <1>3, <1>4, <1>5, <1>16 DEF ResultHeld
<1> QED
  BY <1>11, <1>12, <1>14, <1>15, <1>17 DEF ContestStands

\* The invariant holds of every race.
LEMMA ContestAlwaysStands == ContestSpec => []ContestStands
<1>1. ContestInit => ContestStands
  <2> SUFFICES ASSUME ContestInit PROVE ContestStands
    OBVIOUS
  <2>1. /\ course \in Course
        /\ race \in [mode : {"race", "destruction"}, laps : Laps, tick : {0},
                     over : {FALSE}, winner : {NoWinner}]
        /\ car = [i \in Grid |-> NewCar] /\ crossed = [i \in Grid |-> {}]
    BY DEF ContestInit
  <2>2. CarOK(NewCar)
    BY DEF CarOK, NewCar
  <2>3. ContestTyped
    <3>1. PICK r : r = race
      OBVIOUS
    <3>2. /\ r = [mode |-> r.mode, laps |-> r.laps, tick |-> r.tick, over |-> r.over,
                  winner |-> r.winner]
          /\ r.mode \in {"race", "destruction"} /\ r.laps \in Nat /\ r.tick \in Nat
          /\ r.over \in BOOLEAN /\ r.winner \in Grid \cup {NoWinner}
      <4>1. r \in [mode : {"race", "destruction"}, laps : Laps, tick : {0},
                   over : {FALSE}, winner : {NoWinner}]
        BY <2>1, <3>1, Zenon
      <4>2. /\ r = [mode |-> r.mode, laps |-> r.laps, tick |-> r.tick, over |-> r.over,
                    winner |-> r.winner]
            /\ r.mode \in {"race", "destruction"} /\ r.laps \in Laps /\ r.tick = 0
        BY <4>1
      <4>3. r.over \in {FALSE} /\ r.winner \in {NoWinner}
        BY <4>1
      <4>4. r.laps \in Nat /\ r.tick \in Nat
        BY <4>2, ContestAssumption
      <4>5. r.over \in BOOLEAN /\ r.winner \in Grid \cup {NoWinner}
        BY <4>3, Zenon
      <4> QED
        BY <4>2, <4>4, <4>5, Zenon
    <3>3. car = [i \in Grid |-> car[i]]
      BY <2>1, Zenon
    <3>4. crossed = [i \in Grid |-> crossed[i]]
      BY <2>1, Zenon
    <3>5. \A i \in Grid : CarOK(car[i])
      BY <2>1, <2>2
    <3>6. course \in Course
      BY <2>1
    <3>7. race = [mode |-> race.mode, laps |-> race.laps, tick |-> race.tick,
                  over |-> race.over, winner |-> race.winner]
      BY <3>1, <3>2, Zenon
    <3>8. /\ race.mode \in {"race", "destruction"} /\ race.laps \in Nat /\ race.tick \in Nat
          /\ race.over \in BOOLEAN
          /\ race.mode = "race" => race.winner \in Grid \cup {NoWinner}
      BY <3>1, <3>2, Zenon
    <3> QED
      BY <3>3, <3>4, <3>5, <3>6, <3>7, <3>8, Zenon DEF ContestTyped
  <2>4. ResultHeld
    BY <2>1 DEF ResultHeld, NewCar
  <2>5. CarStands(NewCar, {})
    <3>1. LapsDone(NewCar) = 0 /\ LapsNeeded \in Nat
      BY <2>3 DEF LapsDone, NewCar, LapsNeeded, ContestTyped
    <3> QED
      BY <3>1 DEF CarStands, NewCar
  <2> QED
    BY <2>1, <2>3, <2>4, <2>5 DEF ContestStands
<1>2. ContestStands /\ [Step]_contestVars => ContestStands'
  <2>1. ASSUME ContestStands, UNCHANGED contestVars PROVE ContestStands'
    BY <2>1 DEF ContestStands, ContestTyped, ResultHeld, CarStands, CarOK, LapsDone, LapsNeeded, contestVars
  <2> QED
    BY <2>1, ContestStep
<1> QED
  BY <1>1, <1>2, PTL DEF ContestSpec

\* gs_sim.h: "the result is settled and will not change", and a lap on a circuit is
\* counted only with every other checkpoint crossed since the last: for any cars, courses,
\* laps, crashes and tows.
THEOREM ResultsAndLapsStand == ContestSpec => RaceStands
<1>1. ContestStands /\ [Step]_contestVars
        => [race.over => /\ race'.winner = race.winner /\ race'.over
                         /\ \A i \in Grid : car'[i].finish = car[i].finish]_contestVars
  BY ContestStep
<1>2. ContestStands /\ [Step]_contestVars
        => [\A i \in Grid : LapsDone(car'[i]) > LapsDone(car[i]) =>
              \A g \in 0 .. Gates(course) - 1 :
                 IsCheckpoint(course, g) /\ g # FinishGate(course)
                   => g \in crossed[i] \/ ~IsCircuit(course)]_contestVars
  BY ContestStep
<1> QED
  BY <1>1, <1>2, ContestAlwaysStands, PTL DEF ContestSpec, RaceStands, ResultStands, LapGoesRound

-----------------------------------------------------------------------------
(* Places *)

\* Where everybody of n has so many before them, and the order is a total one, the places
\* are the first to the n-th.
LEMMA PlacesOfAll ==
    ASSUME NEW n \in Nat, NEW S, IsFiniteSet(S), Cardinality(S) = n,
           NEW before \in [S -> SUBSET S],
           \A i \in S : i \notin before[i],
           \A i, j \in S : i # j => i \in before[j] \/ j \in before[i],
           \A i, j \in S : i \in before[j] => before[i] \subseteq before[j]
    PROVE  {1 + Cardinality(before[i]) : i \in S} = 1 .. n
<1> DEFINE place == [i \in S |-> 1 + Cardinality(before[i])]
<1>1. ASSUME NEW i \in S
      PROVE  /\ IsFiniteSet(before[i]) /\ Cardinality(before[i]) \in Nat
             /\ Cardinality(before[i]) <= n - 1
  <2>1. IsFiniteSet(S \ {i}) /\ Cardinality(S \ {i}) = n - 1
    BY FS_RemoveElement
  <2>2. before[i] \in SUBSET (S \ {i})
    OBVIOUS
  <2> QED
    BY <2>1, <2>2, FS_Subset, FS_CardinalityType
<1>2. ASSUME NEW i \in S, NEW j \in S, i \in before[j]
      PROVE  Cardinality(before[i]) < Cardinality(before[j])
  <2>1. IsFiniteSet(before[j] \ {i})
        /\ Cardinality(before[j] \ {i}) = Cardinality(before[j]) - 1
    BY <1>1, <1>2, FS_RemoveElement
  <2>2. before[i] \in SUBSET (before[j] \ {i})
    BY <1>2
  <2>3. Cardinality(before[i]) <= Cardinality(before[j] \ {i})
    BY <2>1, <2>2, FS_Subset
  <2> QED
    BY <1>1, <2>1, <2>3
<1>3. place \in [S -> 1 .. n]
  BY <1>1
<1>4. ASSUME NEW i \in S, NEW j \in S, i # j
      PROVE  place[i] # place[j]
  <2>1. CASE i \in before[j]
    BY <1>1, <1>2, <2>1
  <2>2. CASE j \in before[i]
    BY <1>1, <1>2, <2>2
  <2> QED
    BY <1>4, <2>1, <2>2
<1>5. place \in Injection(S, 1 .. n)
  BY <1>3, <1>4 DEF Injection, IsInjective
<1>6. IsFiniteSet(1 .. n) /\ Cardinality(1 .. n) = n
  BY FS_Interval
<1>7. place \in Surjection(S, 1 .. n)
  BY <1>5, <1>6, FS_Injection
<1>8. \A k \in 1 .. n : \E i \in S : place[i] = k
  BY <1>7 DEF Surjection
<1> QED
  BY <1>3, <1>8

\* To be ahead is a total order, whatever part of its leg each car has done.
LEMMA AheadIsAnOrder ==
    ASSUME ContestTyped, NEW part \in [Grid -> 0 .. 1]
    PROVE  /\ \A i, j \in Grid : i # j => AheadOf(i, j, part) \/ AheadOf(j, i, part)
           /\ \A i, j \in Grid : ~(AheadOf(i, j, part) /\ AheadOf(j, i, part))
           /\ \A i, j, k \in Grid :
                 AheadOf(i, j, part) /\ AheadOf(j, k, part) => AheadOf(i, k, part)
<1>1. PICK far : far = [i \in Grid |-> Progress(i, part)]
  OBVIOUS
<1>2. PICK home : home = [i \in Grid |-> car[i].finish]
  OBVIOUS
<1>3. \A i \in Grid : Progress(i, part) \in Nat
  <2>1. PICK n \in Nat : n = Gates(course)
    BY ContestAssumption DEF ContestTyped
  <2>2. ASSUME NEW i \in Grid PROVE Progress(i, part) \in Nat
    <3>1. PICK l \in Nat, x \in Nat, y \in Nat : l = car[i].laps /\ x = car[i].next /\ y = part[i]
      BY DEF ContestTyped, CarOK
    <3>2. l * n \in Nat
      OBVIOUS
    <3>3. 2 * (l * n + x) + y \in Nat
      BY <3>2
    <3> QED
      BY <2>1, <3>1, <3>3 DEF Progress
  <2> QED
    BY <2>2
<1>4. far \in [Grid -> Nat] /\ home \in [Grid -> Nat] /\ Grid \subseteq Nat
  BY <1>1, <1>2, <1>3, ContestAssumption DEF ContestTyped, CarOK, Grid, NoWinner
<1>5. ASSUME NEW i \in Grid, NEW j \in Grid
      PROVE  AheadOf(i, j, part) <=>
               IF home[i] # 0 \/ home[j] # 0
               THEN home[i] # 0 /\ (home[j] = 0 \/ home[i] < home[j] \/ (home[i] = home[j] /\ i < j))
               ELSE far[i] > far[j] \/ (far[i] = far[j] /\ i < j)
  BY <1>1, <1>2 DEF AheadOf
<1>6. ASSUME NEW i \in Grid, NEW j \in Grid
      PROVE  /\ i # j => AheadOf(i, j, part) \/ AheadOf(j, i, part)
             /\ ~(AheadOf(i, j, part) /\ AheadOf(j, i, part))
  BY <1>4, <1>5
<1>7. ASSUME NEW i \in Grid, NEW j \in Grid, NEW k \in Grid,
             AheadOf(i, j, part), AheadOf(j, k, part)
      PROVE  AheadOf(i, k, part)
  BY <1>4, <1>5, <1>7
<1> QED
  BY <1>6, <1>7

\* gs_world_place and gs_menu_finish agree: places are the first to the last, one each,
\* whoever wins has the first, and those home keep the place they were shown.
THEOREM PlacesAreRightAlways == ContestSpec => []PlacesAreRight
<1>1. ContestStands => WinnerIsFirst
  <2> SUFFICES ASSUME ContestStands, race.mode = "race", race.winner # NoWinner
               PROVE  LET w == car[race.winner].finish
                      IN  /\ w # 0 /\ Place(race.winner) = 1
                          /\ \A i \in Grid : car[i].finish # 0 =>
                                w < car[i].finish \/ (w = car[i].finish /\ race.winner <= i)
    BY DEF WinnerIsFirst
  <2>1. PICK v \in Grid : v = race.winner
    BY DEF ContestStands, ContestTyped
  <2>2. /\ car[v].finish # 0
        /\ \A i \in Grid : car[i].finish # 0 =>
              car[v].finish < car[i].finish \/ (car[v].finish = car[i].finish /\ v <= i)
    BY <2>1 DEF ContestStands, ResultHeld
  <2>3. /\ \A i \in Grid : car[i].finish \in Nat
        /\ Grid \subseteq Nat
    BY ContestAssumption DEF ContestStands, ContestTyped, CarOK, Grid, NoWinner
  <2>4. {j \in Grid : Worse(car[v], car[j]) \/ (j < v /\ ~Worse(car[j], car[v]))} = {}
    <3>1. ASSUME NEW j \in Grid
          PROVE  ~Worse(car[v], car[j]) /\ (j < v => Worse(car[j], car[v]))
      BY <2>2, <2>3 DEF Worse
    <3> QED
      BY <3>1
  <2>5. Place(v) = 1
    BY <2>4, FS_EmptySet DEF Place
  <2> QED
    BY <2>1, <2>2, <2>5
<1>2. ContestStands => PlacesAddUp
  <2> SUFFICES ASSUME ContestStands, NEW part \in [Grid -> 0 .. 1]
               PROVE  /\ {LivePlace(i, part) : i \in Grid} = 1 .. Cars
                      /\ \A i \in Grid : car[i].finish # 0 => LivePlace(i, part) = Place(i)
    BY DEF PlacesAddUp
  <2>1. /\ \A i, j \in Grid : i # j => AheadOf(i, j, part) \/ AheadOf(j, i, part)
        /\ \A i, j \in Grid : ~(AheadOf(i, j, part) /\ AheadOf(j, i, part))
        /\ \A i, j, k \in Grid :
              AheadOf(i, j, part) /\ AheadOf(j, k, part) => AheadOf(i, k, part)
    BY AheadIsAnOrder DEF ContestStands
  <2>2. PICK before : before = [i \in Grid |-> {j \in Grid \ {i} : AheadOf(j, i, part)}]
    OBVIOUS
  <2>3. /\ before \in [Grid -> SUBSET Grid]
        /\ \A i \in Grid : i \notin before[i]
    BY <2>2
  <2>4. \A i, j \in Grid : i # j => i \in before[j] \/ j \in before[i]
    BY <2>1, <2>2
  <2>5. ASSUME NEW i \in Grid, NEW j \in Grid, i \in before[j], NEW k \in before[i]
        PROVE  k \in before[j]
    <3>1. AheadOf(i, j, part) /\ k \in Grid /\ AheadOf(k, i, part)
      BY <2>2, <2>5
    <3>2. AheadOf(k, j, part)
      BY <2>1, <3>1
    <3>3. k # j
      BY <2>1, <3>1
    <3> QED
      BY <2>2, <3>1, <3>2, <3>3
  <2>6. IsFiniteSet(Grid) /\ Cardinality(Grid) = Cars /\ Cars \in Nat
    <3>1. PICK n \in Nat : n = Cars
      BY ContestAssumption DEF NoWinner
    <3>2. IsFiniteSet(0 .. n - 1) /\ Cardinality(0 .. n - 1) = IF 0 > n - 1 THEN 0 ELSE n - 1 - 0 + 1
      BY FS_Interval
    <3>3. (IF 0 > n - 1 THEN 0 ELSE n - 1 - 0 + 1) = n
      OBVIOUS
    <3> QED
      BY <3>1, <3>2, <3>3 DEF Grid
  <2>7. {1 + Cardinality(before[i]) : i \in Grid} = 1 .. Cars
    BY <2>3, <2>4, <2>5, <2>6, PlacesOfAll
  <2>8. \A i \in Grid : LivePlace(i, part) = 1 + Cardinality(before[i])
    BY <2>2 DEF LivePlace
  <2>9. ASSUME NEW i \in Grid, car[i].finish # 0 PROVE LivePlace(i, part) = Place(i)
    <3>1. /\ \A j \in Grid : car[j].finish \in Nat
          /\ Grid \subseteq Nat
      BY ContestAssumption DEF ContestStands, ContestTyped, CarOK, Grid, NoWinner
    <3>2. ASSUME NEW j \in Grid
          PROVE  (j # i /\ AheadOf(j, i, part))
                   <=> (Worse(car[i], car[j]) \/ (j < i /\ ~Worse(car[j], car[i])))
      <4>1. PICK a \in Nat, b \in Nat : a = car[i].finish /\ b = car[j].finish
        BY <3>1
      <4>2. a # 0 /\ i \in Nat /\ j \in Nat
        BY <2>9, <3>1, <4>1
      <4>3. AheadOf(j, i, part) <=> b # 0 /\ (b < a \/ (b = a /\ j < i))
        BY <4>1, <4>2 DEF AheadOf
      <4>4. Worse(car[i], car[j]) <=> b # 0 /\ a > b
        BY <4>1, <4>2 DEF Worse
      <4>5. Worse(car[j], car[i]) <=> b = 0 \/ b > a
        BY <4>1, <4>2 DEF Worse
      <4> QED
        BY <4>1, <4>2, <4>3, <4>4, <4>5
    <3>3. {j \in Grid \ {i} : AheadOf(j, i, part)}
             = {j \in Grid : Worse(car[i], car[j]) \/ (j < i /\ ~Worse(car[j], car[i]))}
      BY <3>2
    <3> QED
      BY <3>3 DEF LivePlace, Place
  <2> QED
    BY <2>7, <2>8, <2>9
<1>3. ContestStands => PlacesAreRight
  BY <1>1, <1>2 DEF PlacesAreRight
<1> QED
  BY <1>3, ContestAlwaysStands, PTL
=============================================================================
