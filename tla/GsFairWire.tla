----------------------------- MODULE GsFairWire -----------------------------
(***************************************************************************)
(* GsWire with knocking that never stops and a network kinder than any:    *)
(* whatever has been sent, and would still change something, does arrive.  *)
(***************************************************************************)
EXTENDS GsWire

\* Past the bound a fresh handshake bears the last number there is.  To the far end
\* it is one more greeting, and an answer to any of them passes for an answer to
\* the one in hand: the bound makes joining easier, never harder.
KnockAgain(m) ==
    LET due == {i \in Seat : MayGreet(m, i) /\ peer[m][i].made = MaxGreets} IN
    /\ ~Hosting(m) /\ due # {}
    /\ peer' = [peer EXCEPT ![m] = [i \in Seat |->
                  IF i \in due THEN [@[i] EXCEPT !.hs = MaxGreets] ELSE @[i]]]
    /\ net' = net \cup {Greet(m, peer[m][i].who, peer[m][i].key, MaxGreets) : i \in due}
    /\ UNCHANGED <<local, players, ready>>

Greets(m) == Hello(m) \/ GreetAll(m) \/ KnockAgain(m)

FairNext == WireNext \/ \E m \in Machine : KnockAgain(m)

\* Tells the datagrams of one kind from one machine apart.
Number(d) == CASE d.kind = "greet"  -> d.e
               [] d.kind = "answer" -> d.tunnel[1]
               [] d.kind = "roster" -> d.counter

Arrives(m, kind, k) ==
    \E d \in net : d.from = m /\ d.kind = kind /\ Number(d) = k /\ TakeIn(d)

\* Polling goes on every frame while nobody is racing (main.c, SDL_AppIterate), and
\* every datagram that would do something gets through in the end.
Fairness ==
    /\ \A m \in Joiner : WF_wireVars(Greets(m))
    /\ \A m \in Machine, kind \in {"greet", "answer", "roster"}, k \in 0 .. MaxGreets :
          WF_wireVars(Arrives(m, kind, k))

FairWire == WireInit /\ [][FairNext]_wireVars /\ Fairness

-----------------------------------------------------------------------------
\* A joiner that keeps knocking on a host with a seat free ends up in the race, and
\* so does the host (gs_wire.c, "Sent again and again rather than acknowledged").
EveryoneMeets == <>(\A m \in Machine : ready[m])
=============================================================================
