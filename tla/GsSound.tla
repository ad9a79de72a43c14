------------------------------ MODULE GsSound ------------------------------
(***************************************************************************)
(* Sound (audio/gs_audio.c, audio/gs_music.c): the game's thread says what *)
(* is to be heard once a frame, and the device's thread asks for samples   *)
(* whenever it needs some.  What the cars and hazards sound like is under a*)
(* mutex.  The music is not: it is started, stopped, played and faded out  *)
(* by both threads as they come.                                           *)
(*                                                                         *)
(* A sample is a step; a loudness is "none" or "some", and it moves towards*)
(* the one that is wanted.  Which notes, tones and pans is left out.  What *)
(* is known of the world is in two halves, the cars and the hazards, each  *)
(* written and read on its own.                                            *)
(***************************************************************************)
EXTENDS Integers

CONSTANT Frames         \* bound: worlds shown before they look like the first again

ASSUME SoundAssumption == Frames \in Nat \ {0}

VARIABLES
    caller,     \* where the game's thread is
    device,     \* where the device's thread is
    mutex,      \* who holds gs_a.lock
    shown,      \* gs_a: <<cars, hazards>>, which frame's each is
    heard,      \* what the device read of them last
    master,     \* gs_a.master_want
    music,      \* gs_m: [playing, want, gain, tune]
    wanted      \* what the game last asked of the music

soundVars == <<caller, device, mutex, shown, heard, master, music, wanted>>

Silent == [playing |-> FALSE, want |-> 0, gain |-> "none", tune |-> "none"]

SoundInit ==
    /\ caller = "idle" /\ device = "out" /\ mutex = "free"
    /\ shown = <<0, 0>> /\ heard = <<0, 0>> /\ master = 1
    /\ music = Silent /\ wanted = "off"

-----------------------------------------------------------------------------
(* The game's thread *)

\* Slip: nothing is locked.
UpdateUnlocked ==
    /\ caller = "idle"
    /\ caller' = "cars" /\ master' = 1
    /\ UNCHANGED <<device, mutex, shown, heard, music, wanted>>

\* gs_audio_update: the lock, the cars, the hazards, and the lock given back.
UpdateLocks ==
    /\ caller = "idle" /\ mutex = "free"
    /\ mutex' = "caller" /\ caller' = "cars" /\ master' = 1
    /\ UNCHANGED <<device, shown, heard, music, wanted>>

UpdateCars ==
    /\ caller = "cars" /\ caller' = "hazards"
    /\ shown' = [shown EXCEPT ![1] = (@ + 1) % Frames]
    /\ UNCHANGED <<device, mutex, heard, master, music, wanted>>

UpdateHazards ==
    /\ caller = "hazards" /\ caller' = "idle"
    /\ shown' = [shown EXCEPT ![2] = (@ + 1) % Frames]
    /\ mutex' = "free"
    /\ UNCHANGED <<device, heard, master, music, wanted>>

Silence ==
    /\ caller = "idle" /\ mutex = "free" /\ master' = 0
    /\ UNCHANGED <<caller, device, mutex, shown, heard, music, wanted>>

\* gs_music_start: everything to nothing, the tune, that it is wanted, that it plays.
StartClears ==
    /\ caller = "idle" /\ caller' = "composing"
    /\ music' = Silent /\ wanted' = "on"
    /\ UNCHANGED <<device, mutex, shown, heard, master>>

StartComposes ==
    /\ caller = "composing" /\ caller' = "starting"
    /\ music' = [music EXCEPT !.want = 1, !.tune = "whole"]
    /\ UNCHANGED <<device, mutex, shown, heard, master, wanted>>

StartPlays ==
    /\ caller = "starting" /\ caller' = "idle"
    /\ music' = [music EXCEPT !.playing = TRUE]
    /\ UNCHANGED <<device, mutex, shown, heard, master, wanted>>

Audible == music.playing /\ music.gain = "some"

\* The music key: off if it is playing, on if it is not.
PressesMusic ==
    \/ ~Audible /\ StartClears
    \/ /\ Audible /\ caller = "idle"
       /\ music' = [music EXCEPT !.want = 0] /\ wanted' = "off"
       /\ UNCHANGED <<caller, device, mutex, shown, heard, master>>

\* Another track is another tune, whether or not there was one.
TrackChanges == StartClears

-----------------------------------------------------------------------------
(* The device's thread: gs_audio_render *)

\* gs_music_mix, entered only if the music plays.
MixBegins ==
    /\ device = "out"
    /\ device' = IF music.playing THEN "mixing" ELSE "locking"
    /\ UNCHANGED <<caller, mutex, shown, heard, master, music, wanted>>

\* The loudness moves towards the one wanted, over any number of calls.
MixSample ==
    /\ device = "mixing"
    /\ \/ device' = "ended" /\ UNCHANGED music
       \/ /\ music' = [music EXCEPT !.gain = IF music.want = 1 THEN "some" ELSE "none"]
          /\ UNCHANGED device
    /\ UNCHANGED <<caller, mutex, shown, heard, master, wanted>>

\* Nobody wants it and it cannot be heard: looked at here, and done after.
MixLooks ==
    /\ device = "ended"
    /\ device' = IF music.want = 0 /\ music.gain = "none" THEN "stopping" ELSE "locking"
    /\ UNCHANGED <<caller, mutex, shown, heard, master, music, wanted>>

MixStops ==
    /\ device = "stopping" /\ device' = "locking"
    /\ music' = [music EXCEPT !.playing = FALSE]
    /\ UNCHANGED <<caller, mutex, shown, heard, master, wanted>>

RenderLocks ==
    /\ device = "locking" /\ mutex = "free"
    /\ mutex' = "device" /\ device' = "voices"
    /\ UNCHANGED <<caller, shown, heard, master, music, wanted>>

RenderCars ==
    /\ device = "voices" /\ device' = "burning"
    /\ heard' = [heard EXCEPT ![1] = shown[1]]
    /\ UNCHANGED <<caller, mutex, shown, master, music, wanted>>

RenderHazards ==
    /\ device = "burning" /\ device' = "out"
    /\ heard' = [heard EXCEPT ![2] = shown[2]]
    /\ mutex' = "free"
    /\ UNCHANGED <<caller, shown, master, music, wanted>>

SoundNext ==
    \/ UpdateLocks \/ UpdateCars \/ UpdateHazards \/ Silence
    \/ PressesMusic \/ TrackChanges \/ StartComposes \/ StartPlays
    \/ MixBegins \/ MixSample \/ MixLooks \/ MixStops
    \/ RenderLocks \/ RenderCars \/ RenderHazards

SoundSpec == SoundInit /\ [][SoundNext]_soundVars

-----------------------------------------------------------------------------
(* Properties *)

\* Whatever the threads do, the cars and the hazards of one stretch of sound are
\* those of one frame.
OneFrameAtATime == device = "out" => heard[1] = heard[2]

\* gs_music.h: "Compose and start playing".  Music that was started and not stopped
\* since is playing.
StartedPlays == wanted = "on" /\ caller = "idle" => music.playing
=============================================================================
