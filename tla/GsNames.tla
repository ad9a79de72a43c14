------------------------------ MODULE GsNames -------------------------------
(***************************************************************************)
(* Names on the server: joining under one, logging in to one, putting a    *)
(* password and a second factor on one.  The server may drop a client, and *)
(* may stop and start; the database stays.                                 *)
(*                                                                         *)
(* A password is right or nothing happens, so only right ones are sent.    *)
(* `openings` is no part of the program: the codes that have opened a name *)
(* since its secret was last set, in order.                                *)
(***************************************************************************)
EXTENDS GsAuth, Sequences

CONSTANTS Word,        \* names people type
          Secret,      \* shared secrets for one-time codes
          MaxStep      \* bound: the steps of the clock

ASSUME NamesAssumption ==
    /\ Word \subseteq Name
    /\ NoOne \notin Secret
    /\ MaxStep \in Nat
    /\ \A n \in Word, m \in Remote : Spare(n, SlotOf[m]) \in Name

VARIABLES
    account,    \* the table of drivers
    caller,     \* caller[m]: [used, name, proved]
    step,       \* the step of the clock, GS_AUTH_STEP_SECONDS each
    openings    \* openings[n]: the steps of the codes that opened name n

namesVars == <<account, caller, step, openings>>

Blank == [used |-> FALSE, name |-> NoOne, proved |-> FALSE]

NamesInit ==
    /\ account = [n \in Name |-> NoDriver]
    /\ caller = [m \in Remote |-> Blank]
    /\ step = 1
    /\ openings = [n \in Name |-> <<>>]

JoinAs(m, wanted) ==
    /\ LET name == NameAtDoor(account, caller[m], wanted, SlotOf[m])
       IN  /\ caller' = [caller EXCEPT ![m].used = TRUE, ![m].name = name]
           /\ account' = IF caller[m].used THEN account ELSE PutDriver(account, name)
    /\ UNCHANGED <<step, openings>>

\* GS_MSG_LOGIN with the right password
Login(m, who, code) ==
    /\ caller[m].used
    /\ HasPassword(account, who)
    /\ CodeOpens(account, who, code, step)
    /\ account' = CodeSpent(account, who, code)
    /\ caller' = [caller EXCEPT ![m].name = who, ![m].proved = TRUE]
    /\ openings' = IF account[who].totp = NoOne THEN openings
                 ELSE [openings EXCEPT ![who] = Append(@, code.step)]
    /\ UNCHANGED step

\* GS_MSG_CLAIM: no secret takes the second factor off again.
ClaimName(m, who, secret) ==
    /\ caller[m].used
    /\ MayClaimName(account, caller[m], who)
    /\ account' = SetTotp(SetPassword(account, who, "password"), who, secret)
    /\ caller' = [caller EXCEPT ![m].name = who, ![m].proved = TRUE]
    /\ openings' = [openings EXCEPT ![who] = <<>>]
    /\ UNCHANGED step

\* A goodbye, or silence, or the operator.
DropClient(m) ==
    /\ caller[m].used
    /\ caller' = [caller EXCEPT ![m] = Blank]
    /\ UNCHANGED <<account, step, openings>>

RestartNames ==
    /\ caller' = [m \in Remote |-> Blank]
    /\ UNCHANGED <<account, step, openings>>

StepPasses ==
    /\ step < MaxStep
    /\ step' = step + 1
    /\ UNCHANGED <<account, caller, openings>>

NamesNext ==
    \/ \E m \in Remote, n \in Word :
        \/ JoinAs(m, n)
        \/ \E s \in Secret \cup {NoOne} : ClaimName(m, n, s)
        \/ \E s \in Secret, at \in 1 .. MaxStep + 1 :
            Login(m, n, [secret |-> s, step |-> at])
    \/ \E m \in Remote : DropClient(m)
    \/ RestartNames
    \/ StepPasses

NamesSpec == NamesInit /\ [][NamesNext]_namesVars

-----------------------------------------------------------------------------
NamesTypeOK ==
    /\ account \in [Name -> [there : BOOLEAN, password : {NoOne, "password"},
                            totp : Secret \cup {NoOne}, at : 0 .. MaxStep + 1]]
    /\ caller \in [Remote -> [used : BOOLEAN, name : Name \cup {NoOne},
                               proved : BOOLEAN]]
    /\ step \in 1 .. MaxStep

\* A code opens a name once, and an older one does not after it: since the secret
\* was set, every login that was taken came with a later code than the one before.
CodesOpenOnce ==
    \A n \in Name : \A i \in 2 .. Len(openings[n]) : openings[n][i-1] < openings[n][i]
=============================================================================
