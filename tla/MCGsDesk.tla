------------------------------ MODULE MCGsDesk ------------------------------
(***************************************************************************)
(* What one machine does by itself, one part at a time: the editor         *)
(* (GsEditor), the race as the simulation keeps it (GsContest), the two    *)
(* threads of the sound (GsSound), and what is kept of it all (GsShelf).   *)
(***************************************************************************)
EXTENDS GsEditor, GsContest, GsSound, GsShelf

CONSTANTS s1,       \* a square
          p, q, r   \* where a gate may be

TheSquare == {s1}
TheGate == {<<p, FALSE>>}
TheRoad == << <<s1, 0>>, <<s1, 1>> >>

\* A new track, and a loop of three gates with a shortcut.
Blanked == NewTrack([s \in TheSquare |-> 0])
Looped == [Blanked EXCEPT !.gate = << <<p, FALSE>>, <<q, FALSE>>, <<r, FALSE>> >>,
                          !.route = "circuit", !.cut = {0}]
TheElsewhere == {Blanked, Looped}

\* A loop of three gates of which two are checkpoints, and a path of two.
Raced(n, route, every) == [gate |-> [i \in 1 .. n |-> i], route |-> route,
                           every |-> every, cut |-> {}]
TheCourses == {Raced(3, "circuit", 2), Raced(2, "sprint", 1)}

\* A version that ships two tracks and one that ships another in place of the first.
TheVersions == {<<p, q>>, <<r, q>>}
TheDaily == <<"sun", "mon">>

\* No lap at all, a lap and no race, and a slower lap with a race.
TheResults == {<<0, 0>>, <<1, 0>>, <<2, 2>>}

\* Somebody who builds and somebody who races.
TheBounds == {[starts |-> 3, upgrades |-> 2, built |-> 2, races |-> 0],
              [starts |-> 2, upgrades |-> 0, built |-> 0, races |-> 3]}

VARIABLE part     \* what is being run; the others stay as they start

DeskInit ==
    /\ part \in {"editor", "contest", "sound", "shelf"}
    /\ EditorInit /\ ContestInit /\ SoundInit /\ ShelfInit
    /\ part # "editor" => board = Blanked
    /\ part # "contest" => course.route = "sprint" /\ race.mode = "race" /\ race.laps = 0
    /\ part # "shelf" => ships = <<p, q>> /\ bound.races = 0

DeskNext ==
    \/ part = "editor" /\ EditorNext /\ UNCHANGED <<part, contestVars, soundVars, shelfVars>>
    \/ part = "contest" /\ Step /\ UNCHANGED <<part, editorVars, soundVars, shelfVars>>
    \/ part = "sound" /\ SoundNext /\ UNCHANGED <<part, editorVars, contestVars, shelfVars>>
    \/ part = "shelf" /\ ShelfNext /\ UNCHANGED <<part, editorVars, contestVars, soundVars>>

DeskSpec == DeskInit /\ [][DeskNext]_<<part, editorVars, contestVars, soundVars, shelfVars>>
=============================================================================
