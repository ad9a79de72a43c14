------------------------------- MODULE GsKeys -------------------------------
(***************************************************************************)
(* From fingers to the byte a car is driven by: what the window says of the*)
(* keyboard and what is made of it (platform/gs_input.c), what each control*)
(* does (platform/gs_bind.c), and changing that (gs_capture_rebind and the *)
(* controls panel, ui/gs_editor.c).                                        *)
(*                                                                         *)
(* The windowing library is external: it forgets every key when the window *)
(* is left, says nothing of keys while it is away, and some of them tell   *)
(* of a key held down as one let go and pressed again, over and over.      *)
(***************************************************************************)
EXTENDS Naturals, SequencesExt, FiniteSets

CONSTANTS Key,        \* the keyboard, by scancode
          Escape,     \* one of them
          Button,     \* a pad's buttons, by number: triggers and stick are left out
          Pad,        \* the pads there are
          Action,     \* gs_action
          Cars,       \* GS_MAX_CARS
          Defaults,   \* gs_bind_defaults: [key, button], each [player -> [action -> control]]
          OldFiles,   \* files of older versions: [acts, bind], of the actions they knew
          Blip,       \* GS_INPUT_BLIP_MS
          Grace,      \* GS_INPUT_GRACE_MS
          MaxTime     \* bound: how long is watched

Player == 0 .. Cars - 1

ASSUME KeysAssumption ==
    LET controls == [Player -> [Action -> Nat]] IN Defaults \in [key : controls, button : controls]

Unset == 0        \* GS_KEY_NONE, GS_BUTTON_NONE
Nobody == Cars    \* rebind_player when no control waits
Idle == [player |-> Nobody, action |-> "none", armed |-> FALSE]

VARIABLES
    now,        \* the clock of the events
    finger,     \* the keys somebody has a finger on
    away,       \* the window does not have the focus
    sdl,        \* the keys the library says are down
    held, upAt, lostAt, shielding,      \* gs_input_state
    pad,        \* gs_input_state.pad, in order
    pushed,     \* the buttons down on each pad
    bind,       \* gs_bindings
    file,       \* controls.gsbind: [acts, bind]; it knows of no action when there is none
    rebind,     \* gs_editor.rebind_player, rebind_action, rebind_armed
    missed,     \* keys let go while the window was away, and not heard of since
    heard,      \* keys heard pressed, that a finger has been on ever since
    stale       \* what has been down ever since the capture began

clockVars == <<now, away, lostAt>>
typedVars == <<finger, sdl, held, upAt, shielding, missed, heard>>
controlVars == <<pad, pushed, bind, file, rebind>>
keysVars == <<clockVars, typedVars, controlVars, stale>>

-----------------------------------------------------------------------------
(* What each control does *)

\* gs_bind_set_key and gs_bind_set_button: whoever else on this player has it loses it.
Point(of, p, a, c) ==
    [of EXCEPT ![p] = [b \in Action |-> IF b = a THEN c
                                        ELSE IF @[b] = c THEN Unset ELSE @[b]]]

\* gs_bind_resolve
Resolve(p, keys, buttons) ==
    {a \in Action : bind.key[p][a] \in keys \/ bind.button[p][a] \in buttons}

\* gs_bind_serialize
Serialize(b) == [acts |-> Action, bind |-> b]

\* gs_bind_deserialize: what the file knows as it says, and the rest at its default.
Deserialize(f) ==
    LET read(of, def) == [p \in Player |-> [a \in Action |->
                            IF a \in f.acts THEN of[p][a] ELSE def[p][a]]]
    IN  [key |-> read(f.bind.key, Defaults.key),
         button |-> read(f.bind.button, Defaults.button)]

\* gs_input_load_bindings: no file is somebody who has never changed anything.
NoFile == [acts |-> {}, bind |-> Defaults]

-----------------------------------------------------------------------------
(* The window *)

\* gs_input_init
KeysInit ==
    /\ now = 1 /\ finger = {} /\ away = FALSE /\ sdl = {}
    /\ held = {} /\ upAt = [k \in Key |-> 0] /\ lostAt = 0 /\ shielding = FALSE
    /\ pushed = [d \in Pad |-> {}]
    /\ pad \in {<<>>} \cup {<<d>> : d \in Pad}
    /\ file \in {NoFile} \cup OldFiles
    /\ bind = Deserialize(file)
    /\ rebind = Idle /\ missed = {} /\ heard = {} /\ stale = {}

\* SDL_EVENT_KEY_DOWN
KeyDown(k) ==
    /\ sdl' = sdl \cup {k}
    /\ held' = held \cup {k}
    /\ upAt' = [upAt EXCEPT ![k] = 0]
    /\ missed' = missed \ {k} /\ heard' = heard \cup {k}
    /\ UNCHANGED <<shielding, stale>>

\* SDL_EVENT_KEY_UP
KeyUp(k) ==
    /\ sdl' = sdl \ {k}
    /\ held' = held \ {k}
    /\ upAt' = [upAt EXCEPT ![k] = now]
    /\ shielding' = FALSE
    /\ missed' = missed \ {k} /\ heard' = heard \ {k} /\ stale' = stale \ {k}

Press(k) ==
    /\ k \notin finger /\ finger' = finger \cup {k}
    /\ IF away THEN UNCHANGED <<sdl, held, upAt, shielding, missed, heard, stale>> ELSE KeyDown(k)

Release(k) ==
    /\ k \in finger /\ finger' = finger \ {k}
    /\ IF away
       THEN /\ missed' = missed \cup {k} /\ heard' = heard \ {k}
            /\ UNCHANGED <<sdl, held, upAt, shielding, stale>>
       ELSE KeyUp(k)

\* A key held down that arrives as let go and, the next frame, as pressed again.
Flaps(k) ==
    /\ k \in finger /\ ~away
    /\ IF k \in sdl THEN KeyUp(k) ELSE KeyDown(k)
    /\ UNCHANGED finger

Typing == (\E k \in Key : Press(k) \/ Release(k)) /\ UNCHANGED <<clockVars, controlVars>>
Flapping == (\E k \in Key : Flaps(k)) /\ UNCHANGED <<clockVars, controlVars>>

\* SDL_EVENT_WINDOW_FOCUS_LOST
FocusLost ==
    /\ ~away /\ away' = TRUE
    /\ sdl' = {} /\ stale' = stale \ sdl
    /\ lostAt' = now
    /\ UNCHANGED <<now, finger, held, upAt, shielding, missed, heard, controlVars>>

Briefly == now - lostAt <= Blip

\* What is still taken to be held when the window is back.
StillHeld == IF Briefly THEN held ELSE {}

\* SDL_EVENT_WINDOW_FOCUS_GAINED
FocusGained ==
    /\ away /\ away' = FALSE
    /\ held' = StillHeld
    /\ shielding' = Briefly
    /\ missed' = IF Briefly THEN missed ELSE {}
    /\ heard' = IF Briefly THEN heard ELSE {}
    /\ lostAt' = 0
    /\ UNCHANGED <<now, finger, sdl, upAt, controlVars, stale>>

Tick == now < MaxTime /\ now' = now + 1 /\ UNCHANGED <<away, lostAt, typedVars, controlVars, stale>>

\* gs_input_event, the keyboard and the window.
WindowNext == Typing \/ Flapping \/ FocusLost \/ FocusGained \/ Tick

\* gs_input_shielded and gs_input_graced
Shielded(k) == shielding /\ k \in held
Graced(k) == k \notin held /\ upAt[k] # 0 /\ now - upAt[k] < Grace

\* The keys a poll goes by.
Effective == {k \in Key : k \in sdl \/ Shielded(k) \/ Graced(k)}

\* gs_input_poll and gs_input_combine: pad N drives car N, and so does the keyboard.
Polled(i) == (IF i < Len(pad) THEN Resolve(i, {}, pushed[pad[i + 1]]) ELSE {})
             \cup Resolve(i, Effective, {})

-----------------------------------------------------------------------------
(* The pads *)

Plug(d) == /\ d \notin ToSet(pad) /\ Len(pad) < Cars
           /\ pad' = Append(pad, d)
           /\ UNCHANGED <<pushed, bind, file, rebind, stale>>

\* The gap is closed.
Unplug(d) == /\ \E n \in DOMAIN pad : pad[n] = d /\ pad' = RemoveAt(pad, n)
             /\ pushed' = [pushed EXCEPT ![d] = {}]
             /\ stale' = stale \ pushed[d]
             /\ UNCHANGED <<bind, file, rebind>>

Push(d, b) == /\ d \in ToSet(pad) /\ b \notin pushed[d]
              /\ pushed' = [pushed EXCEPT ![d] = @ \cup {b}]
              /\ UNCHANGED <<pad, bind, file, rebind, stale>>

LetGo(d, b) == /\ b \in pushed[d]
               /\ pushed' = [pushed EXCEPT ![d] = @ \ {b}]
               /\ stale' = stale \ {b}
               /\ UNCHANGED <<pad, bind, file, rebind>>

-----------------------------------------------------------------------------
(* Changing a control *)

\* Every pad's, for the capture.
Buttons == UNION {pushed[pad[n]] : n \in DOMAIN pad}

\* A control on the panel is pressed, with whatever it was pressed with.
Begin(p, a) ==
    /\ rebind' = [player |-> p, action |-> a, armed |-> FALSE]
    /\ stale' = sdl \cup Buttons
    /\ UNCHANGED <<pad, pushed, bind, file>>

\* Slip: what is held binds at once.
PickAtOnce(armed, keys, buttons) ==
    IF keys \cup buttons = {} THEN "wait"
    ELSE IF Escape \in keys THEN "cancel"
    ELSE IF keys # {} THEN "key" ELSE "button"

\* gs_bind_pick: let go first.
Pick(armed, keys, buttons) ==
    IF keys \cup buttons = {} THEN IF armed THEN "wait" ELSE "arm"
    ELSE IF ~armed THEN "wait"
    ELSE IF Escape \in keys THEN "cancel"
    ELSE IF keys # {} THEN "key" ELSE "button"

Lowest(S) == CHOOSE c \in S : \A d \in S : c <= d

\* gs_capture_rebind, once a frame.
Capture ==
    LET what == Pick(rebind.armed, sdl, Buttons)
        p == rebind.player
        a == rebind.action
    IN  /\ rebind # Idle /\ what # "wait"
        /\ rebind' = IF what = "arm" THEN [rebind EXCEPT !.armed = TRUE] ELSE Idle
        /\ bind' = CASE what = "key" -> [bind EXCEPT !.key = Point(@, p, a, Lowest(sdl))]
                     [] what = "button" -> [bind EXCEPT !.button = Point(@, p, a, Lowest(Buttons))]
                     [] OTHER -> bind
        /\ stale' = IF what = "arm" THEN stale ELSE {}
        /\ UNCHANGED <<pad, pushed, file>>

\* The panel's other two buttons, and the game started again.
Save == file' = Serialize(bind) /\ UNCHANGED <<pad, pushed, bind, rebind, stale>>
PutBack == bind' = Defaults /\ UNCHANGED <<pad, pushed, file, rebind, stale>>
StartAgain == /\ bind' = Deserialize(file) /\ rebind' = Idle /\ stale' = {}
              /\ UNCHANGED <<pad, pushed, file>>

ControlNext ==
    \/ Typing
    \/ /\ \/ \E d \in Pad : \/ Plug(d) \/ Unplug(d)
                            \/ \E b \in Button : Push(d, b) \/ LetGo(d, b)
          \/ \E p \in Player, a \in Action : Begin(p, a)
          \/ Capture \/ Save \/ PutBack \/ StartAgain
       /\ UNCHANGED <<clockVars, typedVars>>

KeysSpec == KeysInit /\ [][WindowNext \/ ControlNext]_keysVars

-----------------------------------------------------------------------------
(* Properties *)

\* A car is not driven by a key nobody is holding: past the grace of a release, only by
\* one that was let go while the window was briefly away; and a window left for longer
\* forgets what was held ("a key held on the way out may have been released anywhere").
NoPhantomKey ==
    ~away => \A i \in Player : \A a \in Polled(i) :
                \/ i < Len(pad) /\ bind.button[i][a] \in pushed[pad[i + 1]]
                \/ LET k == bind.key[i][a] IN k \in finger \/ Graced(k) \/ k \in missed

\* "a focus loss shorter than a second never releases the keys a driver is holding".
HoldsAreKept == ~away => heard \subseteq Effective

Becomes(old, new, p, a) ==
    new[p][a] \notin {old[p][a], Unset} =>
      new[p][a] \notin stale /\ \A b \in Action \ {a} : new[p][b] # new[p][a]

\* "The control that started this capture was pressed with something": what a control
\* becomes was pressed after it was asked for, and then nothing else of that player's
\* does the same thing.
BoundAfresh ==
    [][Capture =>
         \A p \in Player, a \in Action :
            Becomes(bind.key, bind'.key, p, a) /\ Becomes(bind.button, bind'.button, p, a)
      ]_keysVars

\* A control answers to what is pressed now, driving it and setting it.
KeysAnswer == []NoPhantomKey /\ BoundAfresh
=============================================================================
