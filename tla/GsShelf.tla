------------------------------- MODULE GsShelf ------------------------------
(***************************************************************************)
(* What one machine keeps between executions (gs_store_load, gs_store_save *)
(* and the tracks that ship, frontend/game/main.c): drivers, times and     *)
(* tracks in one file, read once at the start and written when the screen  *)
(* changes, when a race ends and when the game does.  The game may be      *)
(* replaced by another version between two executions, which ships other   *)
(* tracks; the day may change; the machine may lose its power.             *)
(*                                                                         *)
(* A race is a result, one of those that could have been driven.           *)
(*                                                                         *)
(* The table of times (core/gs_records.c) has a row for each driver on each*)
(* track under each conditions over each distance, with the best lap and the*)
(* best race, and so many rows.  A track under its conditions is a place; a*)
(* time of nothing is none set; vehicles, modes and dates are left out.    *)
(*                                                                         *)
(* The tracks (core/gs_library.c): a track is what it is made of, and there*)
(* is one entry for it, whatever it is called, the game's or the player's. *)
(***************************************************************************)
EXTENDS Integers, FiniteSets, SequencesExt

CONSTANTS RowsMax,       \* GS_RECORDS_MAX
          EntriesMax,    \* GS_LIBRARY_MAX
          Versions,     \* the tracks a version ships: a set of sequences
          Daily,        \* Daily[d]: the track of day d
          Own,          \* tracks a player may build
          Who,          \* names of drivers
          Distances,    \* how many laps may be asked for
          Results,      \* what may be driven: a best lap and a race, 0 is none
          Bounds        \* how many executions, upgrades, things built, and races

Days == DOMAIN Daily
Shippable == UNION {ToSet(v) : v \in Versions}
Tracks == Shippable \cup {Daily[d] : d \in Days} \cup Own

ASSUME ShelfAssumption ==
    /\ RowsMax \in Nat /\ EntriesMax \in Nat \ {0}
    /\ Versions \subseteq Seq(Tracks) /\ 1 \in Days
    /\ Results \subseteq Nat \X Nat
NoFile == [there |-> FALSE, drivers |-> <<>>, table |-> <<>>, lib |-> <<>>]

VARIABLES
    ships,      \* what the installed version has in assets/tracks
    day,
    on,         \* whether the game runs
    lib,        \* menu.library
    table,      \* menu.records
    drivers,    \* menu.profiles: a sequence of [name, races]
    loaded,     \* the track that would be raced
    dirty,      \* menu.store_dirty
    disk,       \* gearstick.store
    made,       \* the player's own tracks, those on the machine and those saved
    driven,     \* the results given to the table, likewise
    bound       \* [starts, upgrades, built, races], how many are left

shelfVars == <<ships, day, on, lib, table, drivers, loaded, dirty, disk, made, driven, bound>>

ShelfInit ==
    /\ ships \in Versions /\ day = 1
    /\ on = FALSE
    /\ lib = <<>> /\ table = <<>> /\ drivers = <<>>
    /\ loaded = "none" /\ dirty = FALSE /\ disk = NoFile
    /\ made = [here |-> {}, saved |-> {}] /\ driven = [here |-> {}, saved |-> {}]
    /\ bound \in Bounds

-----------------------------------------------------------------------------
(* The table and the library *)

Faster(x, y) == x > 0 /\ (y = 0 \/ x < y)

\* gs_find_or_add: whose row it is.
IsFor(e, place, laps, who) == e.place = place /\ e.laps = laps /\ e.who = who

NewRow(place, laps, who) == [place |-> place, laps |-> laps, who |-> who, lap |-> 0, race |-> 0]

\* The slowest lap anywhere, the first of them if there are several.
Slowest(r) == CHOOSE i \in DOMAIN r :
                 \A j \in DOMAIN r : r[j].lap < r[i].lap \/ (r[j].lap = r[i].lap /\ i <= j)

FindOrAdd(r, place, laps, who) ==
    IF \E i \in DOMAIN r : IsFor(r[i], place, laps, who) THEN r
    ELSE IF Len(r) < RowsMax THEN Append(r, NewRow(place, laps, who))
    ELSE [r EXCEPT ![Slowest(r)] = NewRow(place, laps, who)]

\* gs_records_submit: a row takes what is better than it has, a lap and a race apart.
Submit(r, place, laps, who, lap, race) ==
    LET rows == FindOrAdd(r, place, laps, who)
        better(e) == [e EXCEPT !.lap = IF Faster(lap, @) THEN lap ELSE @,
                               !.race = IF Faster(race, @) THEN race ELSE @]
    IN  [i \in DOMAIN rows |-> IF IsFor(rows[i], place, laps, who) THEN better(rows[i]) ELSE rows[i]]

\* gs_records_best_lap, gs_records_best_race: nothing if there is none.
Best(S) == IF S = {} THEN 0 ELSE CHOOSE x \in S : \A y \in S : x <= y
BestLap(r, place) == Best({r[i].lap : i \in {i \in DOMAIN r : r[i].place = place}} \ {0})
BestRace(r, place, laps) ==
    Best({r[i].race : i \in {i \in DOMAIN r : r[i].place = place /\ r[i].laps = laps}} \ {0})

\* What a result beat, as the table stood before it.
BeatLap(r, place, lap) == Faster(lap, BestLap(r, place))
BeatRace(r, place, laps, race) == Faster(race, BestRace(r, place, laps))

-----------------------------------------------------------------------------
(* The library *)

TracksIn(l) == {l[i].track : i \in DOMAIN l}
EntryOf(l, t) == CHOOSE i \in DOMAIN l : l[i].track = t
OwnIn(l) == {l[i].track : i \in {i \in DOMAIN l : ~l[i].builtin}}
BuiltinIn(l) == TracksIn(l) \ OwnIn(l)

\* gs_library_put: a new name for one that is here, an entry if there is room.
Put(l, t, name) ==
    IF t \in TracksIn(l) THEN [l EXCEPT ![EntryOf(l, t)].name = name]
    ELSE IF Len(l) < EntriesMax THEN Append(l, [track |-> t, name |-> name, builtin |-> FALSE])
    ELSE l

PutBuiltin(l, t, name) ==
    [i \in DOMAIN Put(l, t, name) |->
        LET e == Put(l, t, name)[i] IN IF e.track = t THEN [e EXCEPT !.builtin = TRUE] ELSE e]

\* gs_library_remove, for each that is not among those to keep: the list is closed up.
Keeping(l, kept) == FoldLeft(LAMBDA got, e : IF e \in kept THEN Append(got, e) ELSE got, <<>>, l)

Without(l, t) == Keeping(l, {e \in ToSet(l) : e.track # t})

\* Slip: whatever does not ship goes.
RetireAll(l, keep) == Keeping(l, {e \in ToSet(l) : e.track \in keep})

\* gs_library_retire_builtins: what is the game's and no longer ships goes.
Retire(l, keep) == IF keep = {} THEN l
                   ELSE Keeping(l, {e \in ToSet(l) : ~e.builtin \/ e.track \in keep})

-----------------------------------------------------------------------------
(* Starting *)

\* Slip: what does not ship goes after what ships has come.
SyncAddsFirst(l) ==
    IF ships = <<>> THEN l
    ELSE Retire(FoldLeft(LAMBDA got, t : PutBuiltin(got, t, "shipped"), l, ships), ToSet(ships))

\* gs_sync_stock_tracks: what ships no longer goes, then all that ships comes, in the
\* order of the directory, as long as there is room.
Sync(l) ==
    IF ships = <<>> THEN l
    ELSE FoldLeft(LAMBDA got, t : PutBuiltin(got, t, "shipped"), Retire(l, ToSet(ships)), ships)

SyncWrites(l) ==
    LET kept == Retire(l, ToSet(ships))
    IN  ships # <<>> /\ (kept # l \/ Len(Sync(l)) # Len(kept))

\* SDL_AppInit, before the file: what ships, and the track of the day.
Fresh == PutBuiltin(Sync(<<>>), Daily[day], "today")

\* What would be raced is chosen before the file is read.
FirstTrack == Fresh[1].track

\* gs_menu_load: the file's drivers, times and tracks in place of what there is.
ReadStore == IF disk.there THEN [drivers |-> disk.drivers, table |-> disk.table, lib |-> disk.lib]
        ELSE [drivers |-> <<>>, table |-> <<>>, lib |-> Fresh]

\* The rest of SDL_AppInit: the file over what there is, and what ships over that.
Start ==
    /\ ~on /\ bound.starts > 0
    /\ on' = TRUE
    /\ lib' = Sync(ReadStore.lib) /\ table' = ReadStore.table /\ drivers' = ReadStore.drivers
    /\ loaded' = FirstTrack
    /\ dirty' = (SyncWrites(<<>>) \/ SyncWrites(ReadStore.lib))
    /\ made' = [made EXCEPT !.here = made.saved]
    /\ driven' = [driven EXCEPT !.here = driven.saved]
    /\ bound' = [bound EXCEPT !.starts = @ - 1]
    /\ UNCHANGED <<ships, day, disk>>

-----------------------------------------------------------------------------
(* Playing *)

\* A thing done to the library; where it is done is no matter.
Builds ==
    /\ on /\ bound.built > 0
    /\ bound' = [bound EXCEPT !.built = @ - 1]
    /\ UNCHANGED <<ships, day, on, table, drivers, disk, driven>>

\* "Load" and, of a track of one's own, "Edit".
Take(i) ==
    /\ on /\ loaded # lib[i].track
    /\ loaded' = lib[i].track
    /\ UNCHANGED <<ships, day, on, lib, table, drivers, dirty, disk, made, driven, bound>>

\* "Edit a copy": a track that came with the game is put in again under another name.
EditCopy(i) ==
    /\ lib[i].builtin
    /\ Builds
    /\ loaded' = lib[i].track /\ lib' = Put(lib, lib[i].track, "copy") /\ dirty' = TRUE
    /\ UNCHANGED made

\* "New" and whatever the editor makes of what is loaded.
Edit(t) ==
    /\ Builds
    /\ t # loaded /\ loaded' = t
    /\ UNCHANGED <<lib, dirty, made>>

\* "Keep this one".
KeepThisOne ==
    /\ Builds
    /\ lib' = Put(lib, loaded, "untitled")
    /\ dirty' = (dirty \/ loaded \in TracksIn(lib'))
    /\ made' = [made EXCEPT !.here = IF loaded \in OwnIn(lib') THEN @ \cup {loaded} ELSE @]
    /\ UNCHANGED loaded

Rename(i) ==
    /\ ~lib[i].builtin
    /\ Builds
    /\ lib' = Put(lib, lib[i].track, "mine") /\ dirty' = TRUE
    /\ UNCHANGED <<loaded, made>>

DeleteTrack(i) ==
    /\ ~lib[i].builtin
    /\ Builds
    /\ lib' = Without(lib, lib[i].track) /\ dirty' = TRUE
    /\ made' = [made EXCEPT !.here = @ \ {lib[i].track}]
    /\ UNCHANGED loaded

\* gs_profile_add: a name nobody else has.
AddDriver(w) ==
    /\ on /\ \A i \in DOMAIN drivers : drivers[i].name # w
    /\ drivers' = Append(drivers, [name |-> w, races |-> 0]) /\ dirty' = TRUE
    /\ UNCHANGED <<ships, day, on, lib, table, loaded, disk, made, driven, bound>>

-----------------------------------------------------------------------------
(* Writing it down *)

\* gs_store_save: written if anything changed; if that fails it is for another time.
\* It may also fail with the file cut short; a cut is modelled where the game ends by it (Torn).
\* What is driven and made is then what was saved.
WriteStore(ls, bs, ds, mine, results, changed) ==
    \/ /\ changed
       /\ disk' = [there |-> TRUE, drivers |-> ds, table |-> bs, lib |-> ls]
       /\ dirty' = FALSE
       /\ made' = [here |-> mine, saved |-> mine]
       /\ driven' = [here |-> results, saved |-> results]
    \/ /\ dirty' = changed
       /\ made' = [made EXCEPT !.here = mine] /\ driven' = [driven EXCEPT !.here = results]
       /\ UNCHANGED disk

\* gs_menu_finish and the save after it: a race of driver i over so many laps.
Race(i, laps, lap, race) ==
    /\ on /\ bound.races > 0
    /\ LET who == drivers[i].name
           rows == Submit(table, loaded, laps, who, lap, race)
           people == [drivers EXCEPT ![i].races = @ + 1]
           result == [place |-> loaded, laps |-> laps, who |-> who, lap |-> lap, race |-> race]
       IN  /\ table' = rows /\ drivers' = people
           /\ WriteStore(lib, rows, people, made.here, driven.here \cup {result}, TRUE)
    /\ bound' = [bound EXCEPT !.races = @ - 1]
    /\ UNCHANGED <<ships, day, on, lib, loaded>>

ChangeScreen ==
    /\ on /\ dirty
    /\ WriteStore(lib, table, drivers, made.here, driven.here, dirty)
    /\ UNCHANGED <<ships, day, on, lib, table, drivers, loaded, bound>>

Gone == /\ on' = FALSE /\ lib' = <<>> /\ table' = <<>> /\ drivers' = <<>> /\ loaded' = "none"

Quit ==
    /\ on /\ Gone
    /\ \/ dirty /\ disk' = [there |-> TRUE, drivers |-> drivers, table |-> table, lib |-> lib]
                /\ made' = [here |-> {}, saved |-> made.here]
                /\ driven' = [here |-> {}, saved |-> driven.here]
       \/ made' = [made EXCEPT !.here = {}] /\ driven' = [driven EXCEPT !.here = {}]
          /\ UNCHANGED disk
    /\ dirty' = FALSE
    /\ UNCHANGED <<ships, day, bound>>

\* The power goes while the file is written: it ends before the tracks do, or before
\* anything that can be read.
Torn ==
    /\ on /\ dirty /\ Gone
    /\ \/ \E k \in 0 .. Len(lib) - 1 :
            disk' = [there |-> TRUE, drivers |-> drivers, table |-> table, lib |-> SubSeq(lib, 1, k)]
       \/ disk' = NoFile
    /\ made' = [here |-> {}, saved |-> {}]
    /\ driven' = [here |-> {}, saved |-> IF disk'.there THEN driven.here ELSE {}]
    /\ dirty' = FALSE
    /\ UNCHANGED <<ships, day, bound>>

\* Another version is installed, and it is another day.
TimeGoesBy ==
    /\ ~on /\ bound.upgrades > 0
    /\ ships' \in Versions /\ day' \in Days /\ <<ships, day>>' # <<ships, day>>
    /\ bound' = [bound EXCEPT !.upgrades = @ - 1]
    /\ UNCHANGED <<on, lib, table, drivers, loaded, dirty, disk, made, driven>>

ShelfNext ==
    \/ Start
    \/ \E i \in DOMAIN lib : Take(i) \/ EditCopy(i) \/ Rename(i) \/ DeleteTrack(i)
    \/ \E t \in Own : Edit(t)
    \/ KeepThisOne
    \/ \E w \in Who : AddDriver(w)
    \/ \E i \in DOMAIN drivers, laps \in Distances, d \in Results : Race(i, laps, d[1], d[2])
    \/ ChangeScreen \/ Quit \/ Torn \/ TimeGoesBy

ShelfSpec == ShelfInit /\ [][ShelfNext]_shelfVars

-----------------------------------------------------------------------------
(* Properties *)

\* gs_library.h: "the player's own work is never touched".  What was made here and not
\* deleted is here, whatever ships and however often the game was started since, as far
\* as it was saved; except what a version came to ship itself, which becomes the game's.
OwnWorkStays == on => made.here \ Shippable \subseteq OwnIn(lib)

\* What ships is here after a start, and of the game's nothing that does not; only what
\* is the player's own may have left no room.
WhatShipsIsHere ==
    [][~on /\ on' /\ ships # <<>> =>
          /\ BuiltinIn(lib') \subseteq ToSet(ships)
          /\ ToSet(ships) \subseteq TracksIn(lib') \/ Len(lib') = EntriesMax
          /\ Cardinality(OwnIn(lib')) + Cardinality(ToSet(ships)) <= EntriesMax
                => ToSet(ships) \subseteq TracksIn(lib')]_shelfVars

\* Without that exception it is not so: what the player kept, a later version ships and
\* the one after that no longer does, is gone.
OwnWorkIsUntouched == on => made.here \subseteq OwnIn(lib)

Rows(results) == {<<d.place, d.laps, d.who>> : d \in results}

\* As long as every driver, track and distance has had a row, the table says the best
\* lap of each track and the best race over each distance, of all that were driven and
\* saved.
TimesStand ==
    on /\ Cardinality(Rows(driven.here)) <= RowsMax =>
        \A d \in driven.here :
            LET at == {e \in driven.here : e.place = d.place}
            IN  /\ BestLap(table, d.place) = Best({e.lap : e \in at} \ {0})
                /\ BestRace(table, d.place, d.laps)
                     = Best({e.race : e \in {e \in at : e.laps = d.laps}} \ {0})

\* What is the player's own, tracks and times, is there after every start.
ShelfStands == OwnWorkStays /\ TimesStand

\* gs_add_daily_track: "Today's track, in the library beside the ones that ship".
TodaysTrackIsHere == on => Daily[day] \in TracksIn(lib) \/ Len(lib) = EntriesMax

\* "The original stays in the library exactly as it shipped" (SDL_AppIterate): what is
\* the game's has the name the game gave it.
ShippedAsItCame ==
    on => \A i \in DOMAIN lib : lib[i].builtin => lib[i].name \in {"shipped", "today"}
=============================================================================
