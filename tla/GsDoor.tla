------------------------------- MODULE GsDoor -------------------------------
(***************************************************************************)
(* Who is at the keyboard (ui/gs_menu.c): the door, which asks for a name, *)
(* a password and a code if the driver has one, where drivers are made and *)
(* those of an older roster choose a password; the title's sign out; and   *)
(* the screen where one changes one's own name and password.               *)
(*                                                                         *)
(* A password and its hash are one thing.  Paint and machines are left out,*)
(* and a driver with a phone is one a file had: nothing here makes one.    *)
(***************************************************************************)
EXTENDS Naturals, Sequences

CONSTANTS Name, Word,   \* what may be typed: names and passwords; "" is nothing
          ProfilesMax,  \* GS_PROFILES_MAX
          Rosters       \* what files have: sequences of [name, lock, phone, made]

\* A file is one the game has written; who has a phone has a password, which is older.
ASSUME DoorAssumption ==
    \A r \in Rosters :
        /\ r \in Seq([name : Name, lock : Word \cup {""}, phone : BOOLEAN, made : {FALSE}])
        /\ \A i, j \in DOMAIN r : r[i].name = r[j].name => i = j
        /\ \A i \in DOMAIN r : r[i].phone => r[i].lock # ""

Box == {"who", "fresh", "pass", "again", "code"}
Codes == {"now", "old"}      \* what the phone says, and what it has said

VARIABLES
    roster,     \* menu.profiles: whether a driver was made here is the model's
    shown,      \* menu.screen
    driving,    \* menu.signed_in, 0 for nobody
    form,       \* login_making, login_setting, or neither
    wants,      \* login_wants_code
    box,        \* login_name, new_name, login_password, login_confirm, login_code
    told,       \* login_error
    renaming,   \* menu.editing
    wired,      \* whether there is a server to tell
    pending     \* server_password, "" when none waits

doorVars == <<roster, shown, driving, form, wants, box, told, renaming, wired, pending>>
seen == <<shown, form, wants, told>>

Opened(r) ==
    /\ roster' = r /\ shown' = "login" /\ driving' = 0 /\ form' = "signing" /\ wants' = FALSE
    /\ box' = [b \in Box |-> ""] /\ told' = "" /\ renaming' = 0 /\ pending' = ""

\* gs_menu_init, and gs_menu_load
DoorInit ==
    /\ roster \in Rosters /\ wired \in BOOLEAN
    /\ shown = "login" /\ driving = 0 /\ form = "signing" /\ wants = FALSE
    /\ box = [b \in Box |-> ""] /\ told = "" /\ renaming = 0 /\ pending = ""

-----------------------------------------------------------------------------
(* The roster *)

Called(n) == {i \in DOMAIN roster : roster[i].name = n}

\* gs_profile_find
Find(n) == IF Called(n) = {} THEN 0 ELSE CHOOSE i \in Called(n) : \A j \in Called(n) : i <= j

\* gs_profile_add
MayAdd(n) == n # "" /\ Len(roster) < ProfilesMax /\ Find(n) = 0

\* gs_menu_set_password, which the hashing may fail: what it says, "" when it is done.
SetPassword(i, hashes) ==
    IF i = 0 THEN "pick a driver first"
    ELSE IF box.pass = "" THEN "a driver needs a password"
    ELSE IF box.pass # box.again THEN "those two passwords are different"
    ELSE IF ~hashes THEN "could not set that password" ELSE ""

Locked(i) == [roster EXCEPT ![i].lock = box.pass]

\* gs_forget_typing
Forgotten == [box EXCEPT !.pass = "", !.again = "", !.code = ""]

-----------------------------------------------------------------------------
(* Signing in *)

\* gs_menu_sign_in: the whole rule.
Opens(d, pass, code) == d.lock # "" /\ d.lock = pass /\ (d.phone => code = "now")

Answer(what, ok) == [told |-> what, ok |-> ok, wants |-> FALSE, form |-> "signing"]
Refuse == Answer("that name and password do not match", FALSE)

\* gs_menu_sign_in_named: one answer for both kinds of wrong.  It is given the boxes
\* themselves, which gs_menu_sign_in has emptied by the time it refuses: what is left of
\* them is what the password is compared with again.
Attempt(n, pass, code) ==
    LET d == roster[Find(n)]
        left == Forgotten
    IN  IF Find(n) = 0 THEN Refuse
        ELSE IF d.lock = "" THEN [Answer("choose one", FALSE) EXCEPT !.form = "setting"]
        ELSE IF Opens(d, pass, code) THEN Answer("", TRUE)
        ELSE IF d.phone /\ d.lock = left.pass
        THEN [Answer(IF left.code = "" THEN "the code" ELSE "that code is not right", FALSE)
                 EXCEPT !.wants = TRUE]
        ELSE Refuse

\* gs_menu_sign_in once it is right: what was typed is kept for the server, which is told
\* in the same frame, and forgotten here.
Enter(i) ==
    /\ driving' = i /\ shown' = "title"
    /\ pending' = IF wired THEN "" ELSE box.pass
    /\ box' = Forgotten

AtDoor(f) == shown = "login" /\ form = f

SignIn ==
    /\ AtDoor("signing") /\ roster # <<>>
    /\ LET answer == Attempt(box.who, box.pass, box.code)
       IN  /\ told' = answer.told /\ wants' = answer.wants /\ form' = answer.form
           /\ IF answer.ok THEN Enter(Find(box.who))
              ELSE box' = Forgotten /\ UNCHANGED <<driving, shown, pending>>
    /\ UNCHANGED <<roster, renaming, wired>>

\* NEW DRIVER, New driver
NewDriver ==
    /\ AtDoor("signing")
    /\ form' = "making" /\ told' = "" /\ wants' = FALSE /\ box' = Forgotten
    /\ UNCHANGED <<roster, shown, driving, renaming, wired, pending>>

\* CREATE: the first thing that is wrong, and nobody is left behind by it.
Complaint ==
    IF box.fresh = "" THEN "a driver needs a name"
    ELSE IF box.pass = "" THEN "a driver needs a password"
    ELSE IF box.pass # box.again THEN "those two passwords are different"
    ELSE IF ~MayAdd(box.fresh) THEN "that name is taken, empty, or the roster is full" ELSE ""

Newcomer == [name |-> box.fresh, lock |-> box.pass, phone |-> FALSE, made |-> TRUE]

Create(hashes) ==
    /\ AtDoor("making")
    /\ IF Complaint # "" \/ ~hashes
       THEN /\ told' = (IF Complaint # "" THEN Complaint ELSE "could not set that password")
            /\ UNCHANGED <<roster, form, box>>
       ELSE /\ roster' = Append(roster, Newcomer) /\ told' = "" /\ form' = "signing"
            /\ box' = [Forgotten EXCEPT !.who = box.fresh, !.fresh = ""]
    /\ UNCHANGED <<shown, driving, wants, renaming, wired, pending>>

\* SET IT AND SIGN IN, with no code to give.
SetIt(hashes) ==
    /\ AtDoor("setting")
    /\ LET i == Find(box.who)
           problem == SetPassword(i, hashes)
       IN  IF problem # ""
           THEN told' = problem /\ UNCHANGED <<roster, driving, shown, pending, box, form>>
           ELSE /\ roster' = Locked(i)
                /\ IF Opens(roster'[i], box.pass, "")
                   THEN Enter(i) /\ told' = "" /\ form' = "signing"
                   ELSE /\ told' = "that code is not right" /\ box' = Forgotten
                        /\ UNCHANGED <<driving, shown, pending, form>>
    /\ UNCHANGED <<wants, renaming, wired>>

BackToDoor ==
    /\ shown = "login" /\ form \in {"making", "setting"}
    /\ form' = "signing" /\ told' = ""
    /\ box' = [Forgotten EXCEPT !.fresh = IF form = "making" THEN "" ELSE @]
    /\ UNCHANGED <<roster, shown, driving, wants, renaming, wired, pending>>

-----------------------------------------------------------------------------
(* Behind the door *)

SignOut ==
    /\ shown = "title"
    /\ driving' = 0 /\ shown' = "login" /\ told' = ""
    /\ UNCHANGED <<roster, form, wants, box, renaming, wired, pending>>

\* The fields start on whoever is signed in.
OpenProfile ==
    /\ shown = "title" /\ shown' = "profiles"
    /\ renaming' = driving
    /\ box' = IF renaming # driving THEN [box EXCEPT !.fresh = roster[driving].name] ELSE box
    /\ UNCHANGED <<roster, driving, form, wants, told, wired, pending>>

\* save: a name nobody else has.
SaveName ==
    /\ shown = "profiles"
    /\ roster' = IF box.fresh = "" \/ Find(box.fresh) \notin {0, driving} THEN roster
                 ELSE [roster EXCEPT ![driving].name = box.fresh]
    /\ UNCHANGED <<seen, driving, box, renaming, wired, pending>>

UndoName ==
    /\ shown = "profiles" /\ box' = [box EXCEPT !.fresh = roster[driving].name]
    /\ UNCHANGED <<roster, seen, driving, renaming, wired, pending>>

\* Slip: the password of whoever the name box says.
ChangeNamed(hashes) ==
    /\ shown = "profiles"
    /\ told' = SetPassword(Find(box.fresh), hashes)
    /\ roster' = IF told' = "" THEN Locked(Find(box.fresh)) ELSE roster
    /\ box' = Forgotten
    /\ UNCHANGED <<shown, driving, form, wants, renaming, wired, pending>>

\* change: one's own password, and it is forgotten either way.
Change(hashes) ==
    /\ shown = "profiles"
    /\ told' = SetPassword(driving, hashes)
    /\ roster' = IF told' = "" THEN Locked(driving) ELSE roster
    /\ box' = Forgotten
    /\ UNCHANGED <<shown, driving, form, wants, renaming, wired, pending>>

CloseProfile ==
    /\ shown = "profiles" /\ shown' = "title"
    /\ UNCHANGED <<roster, driving, form, wants, box, told, renaming, wired, pending>>

\* Exit, and the game started again
ExitAndStart == shown \in {"login", "title"} /\ Opened(roster) /\ UNCHANGED wired

\* The boxes there are on the screen there is.
Drawn == CASE shown = "profiles" \/ AtDoor("making") -> {"fresh", "pass", "again"}
           [] AtDoor("setting")                      -> {"pass", "again"}
           [] AtDoor("signing") /\ roster # <<>>     -> {"who", "pass"} \cup (IF wants THEN {"code"} ELSE {})
           [] OTHER                                  -> {}

\* What may be typed in a box, or nothing.
Typeable(b) == {""} \cup (IF b \in {"who", "fresh"} THEN Name ELSE IF b = "code" THEN Codes ELSE Word)

Typed(b, w) ==
    /\ b \in Drawn /\ w # box[b] /\ box' = [box EXCEPT ![b] = w]
    /\ UNCHANGED <<roster, seen, driving, renaming, wired, pending>>

DoorNext ==
    \/ SignIn \/ NewDriver \/ BackToDoor \/ SignOut
    \/ OpenProfile \/ SaveName \/ UndoName \/ CloseProfile \/ ExitAndStart
    \/ \E hashes \in BOOLEAN : Create(hashes) \/ SetIt(hashes) \/ Change(hashes)
    \/ \E b \in Box : \E w \in Typeable(b) : Typed(b, w)

DoorSpec == DoorInit /\ [][DoorNext]_doorVars

-----------------------------------------------------------------------------
(* Properties *)

\* gs_menu.c:369, "whether somebody gets in is decided here and nowhere else", and 865,
\* "changing somebody else's password from a screen they are not standing at would make
\* the gate decorative": whoever comes in typed the password of whom they come in as, and
\* a password there is changes only while its driver is signed in.
PasswordIsOnesOwn ==
    [][/\ driving' \notin {driving, 0} => roster'[driving'].lock = box.pass /\ box.pass # ""
       /\ \A i \in DOMAIN roster : roster[i].lock \notin {"", roster'[i].lock} => driving = i
      ]_doorVars

\* gs_menu.c:490, "a form abandoned half way through must leave nobody behind", and 842: no
\* two drivers have a name, which their times are filed under, and only a file's have no
\* password.
RosterIsSound ==
    /\ \A i, j \in DOMAIN roster : roster[i].name = roster[j].name => i = j
    /\ \A i \in DOMAIN roster : roster[i].lock = "" => ~roster[i].made

\* gs_menu.c:1773: "no such driver" and "wrong password" told apart would be a way to ask who
\* is on this machine one guess at a time.
RefusedAlike ==
    \A n \in Name, i \in DOMAIN roster, w \in Word, c \in Codes \cup {""} :
        Find(n) = 0 /\ roster[i].lock \notin {"", w} =>
            Attempt(n, w, c) = Attempt(roster[i].name, w, c)

\* Each driver has a name and a lock, opens it with what locked it, and is not told by it.
DoorHolds == [](RosterIsSound /\ RefusedAlike) /\ PasswordIsOnesOwn

\* gs_menu.h:191: "Only set when a server is configured; offline this stays empty."
OfflineKeepsNothing == ~wired => pending = ""

\* gs_menu.h:171: what is typed "lives here for as long as it takes to check it and is wiped
\* immediately afterwards": nothing of it is left when the screen it was typed on is.
TypedIsForgotten == shown = "title" => box.pass = "" /\ box.again = ""

\* gs_menu.h:184, "the password was right and a code is due", and gs_menu.c:1797, "the code
\* is only ever asked for once the password was right": a driver with a phone whose password
\* is right is asked for the code, or is in.
PhoneIsAsked ==
    [][\A i \in DOMAIN roster :
          SignIn /\ box.who = roster[i].name /\ roster[i].phone /\ box.pass = roster[i].lock =>
              wants' \/ driving' = i]_doorVars
=============================================================================
