------------------------------- MODULE GsAuth -------------------------------
(***************************************************************************)
(* Whose name it is: what a client is called when it joins, logs in or     *)
(* puts a password on a name (frontend/server/main.c), and the one-time    *)
(* codes (net/gs_auth.c).  A code is the secret and the step it was made   *)
(* for; that two steps may share a code is left out.                       *)
(***************************************************************************)
EXTENDS GsStore

CONSTANTS Remote,         \* the machines that are clients
          SlotOf,         \* SlotOf[m]: the slot each is given
          Name,           \* names, and the spares the server makes of them
          Spare(_, _)     \* the name "wanted-slot"

Slack == 1

\* gs_join: a name somebody has put a password on is not one to be had by typing.
NameAtDoor(driver, c, wanted, seat) ==
    IF c.proved THEN c.name
    ELSE IF HasPassword(driver, wanted) THEN Spare(wanted, seat) ELSE wanted

\* gs_auth_check_code: the step a code is right for, one either side of now.
RightSteps(driver, who, code, now) ==
    {step \in now - Slack .. now + Slack :
        code = [secret |-> driver[who].totp, step |-> step]}

\* The second factor, where the name has one: right, and not spent.
CodeOpens(driver, who, code, now) ==
    \/ driver[who].totp = NoOne
    \/ \E step \in RightSteps(driver, who, code, now) : MayUseTotp(driver, who, step)

\* The driver table after a login with this code.
CodeSpent(driver, who, code) ==
    IF driver[who].totp = NoOne THEN driver ELSE UseTotp(driver, who, code.step)

\* A name with a password is only changed by whoever proved it.
MayClaimName(driver, c, who) ==
    HasPassword(driver, who) => c.proved /\ c.name = who
=============================================================================
