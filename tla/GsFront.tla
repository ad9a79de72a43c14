------------------------------ MODULE GsFront ------------------------------
(***************************************************************************)
(* The front end of the game (frontend/game/main.c and ui/gs_menu.c): which*)
(* screen is up, what the keys and the buttons of each do, and what that   *)
(* does to the race behind it.  What happens to the window comes between   *)
(* two calls of SDL_AppIterate, and one call goes through its parts in     *)
(* order: a race that is over is worked out; a shared one is settled and   *)
(* the wire heard, one of one's own is stepped; then the screen is drawn   *)
(* and its buttons are read.                                               *)
(*                                                                         *)
(* Many ticks of a race are one step, of which is kept on what ground it   *)
(* was; when a race ends is a choice, and so is what the wire has heard.   *)
(***************************************************************************)
EXTENDS Naturals, FiniteSets, Sequences

CONSTANTS Track,      \* tracks there are to pick
          Draft,      \* what comes out of the editor
          Driver,     \* who may sign in
          MaxRaces    \* how many races are built

Screens == {"login", "title", "profiles", "setup", "race", "results", "records",
            "lobby", "tracks"}
Ground == [track : Track \cup {Draft}, turned : BOOLEAN]

VARIABLES
    online,       \* whether it was started for a server
    at,           \* which part of SDL_AppIterate is next, or the events before it
    screen,       \* menu.screen
    signed,       \* menu.signed_in
    origin,       \* where the setup, the tracks and the records were opened from
    turned,       \* menu.setup.reversed, of the dials the one that turns the track
    resume,       \* menu.resume
    ground,       \* the track loaded and whether it is turned round: t, t_reversed
    contest,      \* the world
    settled,      \* race_settled
    tape,         \* recording: of which race, on what ground, whether it has ticks
    watching,
    editing,      \* editor.active
    building,     \* edit_session
    linked,       \* net_started
    settling,     \* net_settling
    hold,         \* lobby_hold
    asked,        \* menu.race_requested
    canRace,      \* what the menu was last told of the lobby
    filed         \* the races whose results were worked out, in order

menu == <<screen, signed, origin, turned, resume>>
raced == <<ground, contest, settled, tape, filed>>
shared == <<linked, settling, hold, asked, canRace>>
modes == <<watching, editing, building>>
frontVars == <<online, at, menu, raced, shared, modes>>

\* A world: of which race, what for, the way round it was built and the ways it was stepped.
Built(n, kind, way) == [number |-> n, kind |-> kind, built |-> way, ran |-> {}, over |-> FALSE]

FrontInit ==
    /\ online \in BOOLEAN /\ at = "events"
    /\ screen = "login" /\ signed = "nobody"
    /\ origin = [setup |-> "title", tracks |-> "title", records |-> "title"]
    /\ turned = FALSE /\ resume = FALSE
    /\ ground \in [track : Track, turned : {FALSE}]
    /\ contest = Built(1, "race", FALSE)
    /\ settled = FALSE /\ filed = <<>>
    /\ tape = [number |-> 1, on |-> ground, ticks |-> FALSE]
    /\ watching = FALSE /\ editing = FALSE /\ building = FALSE
    /\ linked = FALSE /\ settling = FALSE /\ hold = FALSE /\ asked = FALSE /\ canRace = FALSE

-----------------------------------------------------------------------------
(* The track and the race *)

Facing(g, way) == [g EXCEPT !.turned = way]

\* gs_start_race on this ground.
StartRace(g) ==
    /\ tape.number < MaxRaces
    /\ ground' = g
    /\ contest' = Built(tape.number + 1, "race", g.turned)
    /\ tape' = [number |-> tape.number + 1, on |-> g, ticks |-> FALSE]
    /\ settled' = FALSE
    /\ UNCHANGED filed

\* gs_start_test_drive: a car where one is building; nothing is begun but the driving.
TestDrive ==
    /\ contest' = Built(tape.number, "drive", FALSE)
    /\ UNCHANGED <<settled, tape, filed>>

Runs(over) == contest' = [contest EXCEPT !.ran = @ \cup {ground.turned}, !.over = over]

\* A race may end with any of its steps, a drive has no laps to end with.
MayEnd == IF contest.kind = "race" THEN {contest.over, TRUE} ELSE {contest.over}

-----------------------------------------------------------------------------
(* Events *)

\* gs_menu_setup_is_paused
Paused == ~online /\ origin.setup = "race"

\* gs_menu_back; the title and the door have nothing behind them.
BackFrom(s) ==
    CASE s = "race"    -> IF online THEN "lobby" ELSE "setup"
      [] s = "results" -> IF online THEN "lobby" ELSE "title"
      [] s = "records" -> origin.records
      [] s = "setup"   -> IF Paused THEN "race" ELSE "title"
      [] s = "tracks"  -> IF origin.tracks = "setup" THEN "setup" ELSE "title"
      [] OTHER         -> "title"

\* gs_note_origin
NoteOrigin(next) ==
    origin' = CASE next = "setup"  -> [origin EXCEPT !.setup = screen]
                [] next = "tracks" -> [origin EXCEPT !.tracks = screen]
                [] OTHER           -> origin

Happens == at = "events" /\ UNCHANGED <<online, at>>

\* gs_back_out out of the construction set
CloseEditor ==
    /\ Happens /\ editing /\ ~watching
    /\ editing' = FALSE /\ ground' = Facing(ground, FALSE)
    /\ UNCHANGED <<menu, contest, settled, tape, filed, shared, watching, building>>

\* gs_back_out from a screen; a shared race that was left is left.
BackOut ==
    /\ Happens /\ ~editing /\ ~watching /\ screen \notin {"title", "login"}
    /\ screen' = BackFrom(screen) /\ NoteOrigin(screen') /\ resume' = FALSE
    /\ IF screen = "race" /\ online /\ linked /\ ~settling
       THEN linked' = FALSE /\ hold' = TRUE
       ELSE UNCHANGED <<linked, hold>>
    /\ UNCHANGED <<signed, turned, raced, settling, asked, canRace, modes>>

\* Escape while a race is watched: gs_stop_watching
LeaveWatching ==
    /\ Happens /\ watching
    /\ watching' = FALSE /\ screen' = "results"
    /\ UNCHANGED <<signed, origin, turned, resume, raced, shared, editing, building>>

\* gs_start_watching: the recording from its start, on the ground it is of.
StartWatching ==
    /\ ~online /\ tape.ticks
    /\ ground' = Facing(ground, turned)
    /\ IF tape.on = ground'
       THEN contest' = Built(tape.number, "watch", turned) /\ watching' = TRUE /\ screen' = "race"
       ELSE UNCHANGED <<contest, watching, screen>>
    /\ UNCHANGED settled

\* W on the results, and R while watching.
Watch ==
    /\ Happens /\ (watching \/ screen = "results")
    /\ StartWatching
    /\ UNCHANGED <<signed, origin, turned, resume, tape, filed, shared, editing, building>>

\* R, on whatever screen it is pressed.
Restart ==
    /\ Happens /\ ~online /\ ~watching
    /\ StartRace(Facing(ground, turned))
    /\ UNCHANGED <<menu, shared, modes>>

\* Tab: into the construction set and out of it, within a session of building.
Tab ==
    /\ Happens /\ (editing \/ building)
    /\ editing' = ~editing /\ ground' = Facing(ground, FALSE)
    /\ IF editing THEN TestDrive ELSE UNCHANGED <<contest, settled, tape, filed>>
    /\ UNCHANGED <<menu, shared, watching, building>>

-----------------------------------------------------------------------------
(* SDL_AppIterate, up to the screen *)

Goes(from, to) == at = from /\ at' = to /\ UNCHANGED online

\* Off the race the track faces the way the library has it; and a finished race is worked
\* out once: gs_menu_finish, and the net is settled.
Finish ==
    /\ Goes("events", IF online THEN "settle" ELSE "steps")
    /\ ground' = Facing(ground, ground.turned /\ screen = "race")
    /\ IF contest.over /\ ~settled
       THEN /\ settled' = TRUE /\ screen' = "results"
            /\ filed' = Append(filed, contest.number)
            /\ settling' = (settling \/ (online /\ linked))
       ELSE UNCHANGED <<settled, screen, filed, settling>>
    /\ UNCHANGED <<signed, origin, turned, resume, contest, tape, linked, hold, asked, canRace, modes>>

\* gs_net_settle: the race that is agreed on goes on to its end, as long as it has one
\* to go to and the others may need to hear of it.
Settle ==
    /\ Goes("settle", "net")
    /\ \/ settling /\ Runs(contest.over) /\ UNCHANGED settling
       \/ settling /\ settling' = FALSE /\ UNCHANGED contest
       \/ UNCHANGED <<contest, settling>>
    /\ UNCHANGED <<menu, ground, settled, tape, filed, linked, hold, asked, canRace, modes>>

\* Nobody races until everybody is here; waiting in the lobby is how somebody says yes.
Wait ==
    /\ Goes("net", "menu") /\ ~linked
    /\ canRace' \in BOOLEAN /\ asked' = FALSE /\ hold' = (hold /\ ~asked)
    /\ LET waits == IF screen = "race" THEN "lobby" ELSE screen
       IN  IF canRace' /\ waits = "lobby" /\ ~hold'
           THEN /\ \E g \in [track : Track, turned : BOOLEAN] : StartRace(g)
                /\ linked' = TRUE /\ settling' = FALSE /\ screen' = "race"
           ELSE /\ screen' = waits
                /\ UNCHANGED <<raced, linked, settling>>
    /\ UNCHANGED <<signed, origin, turned, resume, modes>>

\* A shared race: it goes on and may end, or somebody broke a promise, or the others
\* have been quiet for too long.
RaceShared ==
    /\ Goes("net", "menu") /\ linked
    /\ IF screen = "race" /\ ~editing
       THEN \/ (\E over \in MayEnd : Runs(over)) /\ UNCHANGED <<linked, settling, screen>>
            \/ /\ linked' = FALSE /\ settling' \in {settling, FALSE} /\ screen' = "results"
               /\ UNCHANGED contest
       ELSE UNCHANGED <<contest, linked, settling, screen>>
    /\ UNCHANGED <<signed, origin, turned, resume, ground, settled, tape, filed, hold, asked,
                   canRace, modes>>

\* gs_watch_step until the recording runs out, or the race and its recording; only on the
\* race's own screen, and not while it is being built.
Steps ==
    /\ Goes("steps", "menu")
    /\ IF screen # "race" \/ editing
       THEN UNCHANGED <<contest, tape, watching, screen>>
       ELSE IF watching
            THEN \/ /\ \E over \in BOOLEAN : Runs(contest.over \/ over)
                    /\ UNCHANGED <<tape, watching, screen>>
                 \/ watching' = FALSE /\ screen' = "results" /\ UNCHANGED <<contest, tape>>
            ELSE /\ \E over \in MayEnd : Runs(over)
                 /\ tape' = [tape EXCEPT !.ticks = TRUE]
                 /\ UNCHANGED <<watching, screen>>
    /\ UNCHANGED <<signed, origin, turned, resume, ground, settled, filed, shared, editing, building>>

-----------------------------------------------------------------------------
(* The screen and its buttons *)

Draws == Goes("menu", "events")

\* There is no menu over a race, and the construction set has one of its own.
NoMenu ==
    /\ Draws /\ (editing \/ screen = "race")
    /\ \/ editing /\ ground' = [ground EXCEPT !.track = Draft]
       \/ UNCHANGED ground
    /\ UNCHANGED <<menu, contest, settled, tape, filed, shared, modes>>

\* Slip: a race that was come back to is one to come back to ever after.
GoesToBack(next, back) ==
    /\ screen' = next /\ NoteOrigin(next)
    /\ IF next = "race" /\ ~back THEN StartRace(Facing(ground, turned)) ELSE UNCHANGED raced
    /\ resume' = back
    /\ hold' = (hold \/ next = "lobby")
    /\ linked' = (linked /\ (next = "lobby" => settling))
    /\ building' = (building /\ next = "race")

\* Slip: the finished race is to be worked out again when the lobby is reached.
GoesToUnsettled(next, back) ==
    /\ screen' = next /\ NoteOrigin(next)
    /\ IF next = "race" /\ ~back THEN StartRace(Facing(ground, turned))
       ELSE settled' = (settled /\ next # "lobby") /\ UNCHANGED <<ground, contest, tape, filed>>
    /\ resume' = FALSE
    /\ hold' = (hold \/ next = "lobby")
    /\ linked' = (linked /\ (next = "lobby" => settling))
    /\ building' = (building /\ next = "race")

\* The change of screen a button asked for.  A race is built, unless there is one to come
\* back to; whoever comes to the lobby waits there, and has left the race, unless it is
\* being settled.
GoesTo(next, back) ==
    /\ screen' = next /\ NoteOrigin(next)
    /\ IF next = "race" /\ ~back THEN StartRace(Facing(ground, turned)) ELSE UNCHANGED raced
    /\ resume' = (back /\ next # "race")
    /\ hold' = (hold \/ next = "lobby")
    /\ linked' = (linked /\ (next = "lobby" => settling))
    /\ building' = (building /\ next = "race")

\* gs_menu_frame: nothing but the door for as long as nobody has come in.
Behind(s) == Draws /\ ~editing /\ screen = s /\ signed # "nobody"

Button(s, next) ==
    /\ Behind(s) /\ GoesTo(next, resume)
    /\ UNCHANGED <<signed, turned, settling, asked, canRace, watching, editing>>

\* gs_login_screen, and gs_menu_sign_in
Door ==
    /\ Draws /\ ~editing /\ screen # "race" /\ (signed = "nobody" \/ screen = "login")
    /\ \/ screen' = "login" /\ UNCHANGED <<signed, origin, turned, resume, raced, shared, modes>>
       \/ /\ signed' \in Driver /\ GoesTo("title", resume)
          /\ UNCHANGED <<turned, settling, asked, canRace, watching, editing>>

SignOut ==
    /\ Behind("title") /\ signed' = "nobody"
    /\ UNCHANGED <<screen, origin, turned, resume, raced, shared, modes>>

Nothing ==
    /\ \E s \in Screens \ {"race"} : Behind(s)
    /\ UNCHANGED <<menu, raced, shared, modes>>

\* PLAY, Tracks, Profile; the way back from that one.
FromTitle == \E next \in {IF online THEN "lobby" ELSE "tracks", "tracks", "profiles"} : Button("title", next)

\* Records remembers where it was opened from.
OpenRecords ==
    /\ \E s \in {"title", "results"} :
          /\ Behind(s) /\ screen' = "records" /\ origin' = [origin EXCEPT !.records = s]
    /\ building' = FALSE
    /\ UNCHANGED <<signed, turned, resume, raced, shared, watching, editing>>

\* The dial that turns the track round; the others are none of the screens' business.
Dial ==
    /\ Behind("setup")
    /\ turned' = ~turned
    /\ UNCHANGED <<screen, signed, origin, resume, raced, shared, modes>>

\* GO and NEW RACE; Resume of a race that waits; the way out, and to the tracks.
FromSetup ==
    /\ Behind("setup")
    /\ \/ GoesTo("race", FALSE)
       \/ Paused /\ GoesTo("race", TRUE)
       \/ GoesTo("title", resume)
       \/ ~Paused /\ GoesTo("tracks", resume)
    /\ UNCHANGED <<signed, turned, settling, asked, canRace, watching, editing>>

\* Race again, or back to the lobby; the setup of a race of one's own; the main menu.
FromResults ==
    \E next \in (IF online THEN {"lobby", "title"} ELSE {"race", "setup", "title"}) :
        Button("results", next)

\* The lobby's Race, which is there when everybody is.
AskToRace ==
    /\ Behind("lobby") /\ canRace /\ asked' = TRUE
    /\ UNCHANGED <<menu, raced, linked, settling, hold, canRace, modes>>

\* The buttons that only lead back.
LeadBack == \E s \in {"lobby", "profiles", "records", "tracks"} :
             Button(s, IF s = "lobby" THEN "title" ELSE BackFrom(s))

\* Load, Race this one: the track picked is the track; a server's race is not set up here.
Load(t) ==
    /\ Behind("tracks")
    /\ ground' = [track |-> t, turned |-> FALSE]
    /\ IF online THEN UNCHANGED <<screen, origin, building>>
       ELSE screen' = "setup" /\ NoteOrigin("setup") /\ building' = FALSE
    /\ UNCHANGED <<signed, turned, resume, contest, settled, tape, filed, shared, watching, editing>>

\* New, Edit and Edit a copy: into the construction set, over the race's screen.
Build(t) ==
    /\ Behind("tracks")
    /\ ground' = [track |-> t, turned |-> FALSE]
    /\ screen' = "race" /\ building' = TRUE /\ editing' = TRUE
    /\ UNCHANGED <<signed, origin, turned, resume, contest, settled, tape, filed, shared, watching>>

FrontNext ==
    \/ CloseEditor \/ BackOut \/ LeaveWatching \/ Watch \/ Restart \/ Tab
    \/ Finish \/ Settle \/ Wait \/ RaceShared \/ Steps
    \/ NoMenu \/ Door \/ SignOut \/ Nothing
    \/ FromTitle \/ OpenRecords \/ Dial \/ FromSetup \/ FromResults \/ AskToRace \/ LeadBack
    \/ \E t \in Track \cup {Draft} : Load(t) \/ Build(t)

FrontSpec == FrontInit /\ [][FrontNext]_frontVars

-----------------------------------------------------------------------------
(* Properties *)

\* main.c:2030: "A finished race is worked out once."  However the results are left and
\* come back to, and whatever is watched, no race has two results.
OneResultEach == \A i, j \in DOMAIN filed : filed[i] = filed[j] => i = j

\* main.c:1781: a flag left from a race that was come back to cannot make the next GO do
\* nothing: to go to the race from anywhere but a paused one is to go to a new one.
NewRaceIsNew ==
    [][/\ at = "menu" /\ ~editing' /\ screen \in {"setup", "results"} /\ screen' = "race"
       /\ screen = "setup" => ~Paused
       => tape'.number = tape.number + 1]_frontVars

\* main.c:2578: a paused race is "untouched while a menu is up", "so there is nothing to
\* restore".  A race of one's own, with no track being built, is raced the way round it was
\* built for from start to end: that is the way round its times go under.
RacedOneWay ==
    ~online /\ ~building /\ contest.kind = "race" => contest.ran \subseteq {contest.built}

\* main.c:2594: "Asking for another online race means there can be another one."  Whoever
\* waits in the lobby, with nothing left to settle, is where a race can begin.
LobbyIsLive == screen = "lobby" /\ ~settling /\ at = "events" => ~linked
=============================================================================
