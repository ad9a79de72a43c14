------------------------------ MODULE GsTunnel ------------------------------
(***************************************************************************)
(* One direction of one tunnel: an end that seals, a network that loses,   *)
(* repeats, delays and damages, and the end that opens.                    *)
(***************************************************************************)
EXTENDS GsNoise, Sequences

VARIABLES sender,     \* the session at the end that seals
          receiver,   \* the session at the end that opens
          opened      \* what was handed on there, in order

vars == <<sender, receiver, opened>>

Init ==
    /\ sender = Split
    /\ receiver = Split
    /\ opened = <<>>

Seal ==
    /\ MaySeal(sender)
    /\ sender' = Sealed(sender)
    /\ UNCHANGED <<receiver, opened>>

\* A datagram under this counter turns up.  One that was sealed may do so at any
\* time after, any number of times, or never; a damaged one may carry any counter.
Arrive(counter, genuine) ==
    /\ receiver' = Open(receiver, counter, genuine)
    /\ opened' = IF Opens(receiver, counter, genuine)
                 THEN Append(opened, counter) ELSE opened
    /\ UNCHANGED sender

Receive == \E counter \in 0 .. sender.n - 1 : Arrive(counter, TRUE)
Damaged == \E counter \in 0 .. MessageLimit : Arrive(counter, FALSE)

Next == Seal \/ Receive \/ Damaged

Spec == Init /\ [][Next]_vars

-----------------------------------------------------------------------------
Opened == {opened[i] : i \in DOMAIN opened}

\* Both sessions keep their type: in particular no bit is ever set past the map.
TunnelTypeOK ==
    /\ sender \in Session
    /\ receiver \in Session
    /\ opened \in Seq(Nat)

\* The window refuses a datagram for two reasons and no others: it was opened
\* before, or something a whole window newer was.  In particular overtaking alone
\* loses nothing, and a damaged datagram never shuts out the one it resembles.
RefusedForCause ==
    \A counter \in 0 .. sender.n - 1 :
        Opens(receiver, counter, TRUE) <=>
            /\ counter \notin Opened
            /\ \A o \in Opened : o - counter < Window

\* The channel is one over which everything comes out at most once.
Datagrams == INSTANCE GsDatagrams WITH sent <- sender.n
ImplementsDatagrams == Datagrams!Spec
=============================================================================
