------------------------------ MODULE MCGsPeer ------------------------------
(***************************************************************************)
(* GsPeer on a small ring: two cars, two inputs, a window of three ticks   *)
(* and one tick more than fits it.  A datagram here promises one tick, or  *)
(* promises a tick and proves that very tick, or promises one tick and     *)
(* proves the tick before it, as an honest one does; each speaks of either *)
(* input, so between datagrams a peer may change its mind, or prove what   *)
(* it never promised.                                                      *)
(***************************************************************************)
EXTENDS GsPeer

Just(t, v) == [u \in {t} |-> v]

MCSaid ==
    UNION {{<<Just(t, v), [u \in {} |-> v]>>,
            <<Just(t, v), Just(t, v)>>,
            <<Just(t + 1, v), Just(t, v)>>} : t \in 0 .. LastPeerTick, v \in Input}

MCClaimed == {LastPeerTick - 1}
=============================================================================
