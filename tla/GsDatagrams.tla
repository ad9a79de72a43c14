----------------------------- MODULE GsDatagrams -----------------------------
(***************************************************************************)
(* What a sealed channel promises whoever uses it: datagrams may vanish    *)
(* and may overtake each other, but only what was sent comes out, and each *)
(* of them at most once.                                                   *)
(***************************************************************************)
EXTENDS Naturals, Sequences

VARIABLES sent,     \* datagrams sent so far: numbers 0 .. sent - 1
          opened    \* those handed on at the far end, in order of arrival

vars == <<sent, opened>>

Init == sent = 0 /\ opened = <<>>

Send == sent' = sent + 1 /\ UNCHANGED opened

HandOn(d) ==
    /\ \A i \in DOMAIN opened : opened[i] # d
    /\ opened' = Append(opened, d)
    /\ UNCHANGED sent

Next == Send \/ \E d \in 0 .. sent - 1 : HandOn(d)

Spec == Init /\ [][Next]_vars
=============================================================================
