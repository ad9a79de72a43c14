------------------------------- MODULE GsWire -------------------------------
(***************************************************************************)
(* Meeting to race without a server (platform/gs_wire.c): a host waits,    *)
(* joiners knock, the host seats them and tells everybody who is where,    *)
(* and every pair brings up a sealed channel of its own.                   *)
(*                                                                         *)
(* A machine stands for its address and for its key.  Datagrams are never  *)
(* acknowledged; what has been sent may arrive at any time, in any order,  *)
(* any number of times, or never, so the network is the set of all that    *)
(* was ever sent.  A knock goes out again on a clock that does not wait    *)
(* for the answer to the one before.                                       *)
(*                                                                         *)
(* Left out: race traffic over the tunnels (GsRace), the way by a server,  *)
(* a name that does not resolve, and two machines behind one address.  An  *)
(* action marked "Slip" is the one below it with a plausible mistake.      *)
(***************************************************************************)
EXTENDS GsNoise, FiniteSets

CONSTANTS Host,         \* the machine that waits
          Joiner,       \* the machines that knock
          Nowhere,        \* no address, no key
          Zeroes,       \* a key nobody has: what an empty seat's entry holds
          MaxPlayers,   \* GS_WIRE_PLAYERS
          MaxGreets     \* bound: handshakes begun with one peer

Machine  == Joiner \cup {Host}
Seat     == 0 .. MaxPlayers - 1
Unplaced == 255         \* `local` until the host has said otherwise

ASSUME WireAssumption ==
    /\ Host \notin Joiner
    /\ Nowhere \notin Machine /\ Zeroes \notin Machine \cup {Nowhere}
    /\ MaxPlayers \in 2 .. 255
    /\ MaxGreets \in Nat

VARIABLES
    peer,      \* peer[m][i]: what machine m knows of the player in seat i
    local,     \* local[m]: the seat of m itself
    players,   \* players[m]: how many there will be; 0 before a roster
    ready,     \* ready[m]: m may race
    net        \* every datagram ever sent

wireVars == <<peer, local, players, ready, net>>

\* gs_peer: `who` its address (`known`), `key` the key it must prove, `made` the
\* ephemeral keys made for it, `hs` the one whose answer is awaited (0: `greeted`
\* is false), `tunnel` the two ephemerals the session's keys are made of, and the
\* session itself.
Stranger == [who |-> Nowhere, key |-> Nowhere, made |-> 0, hs |-> 0,
             tunnel |-> <<>>, session |-> Split]

Hosting(m) == m = Host
Established(p) == p.tunnel # <<>>
Known(p) == p.who # Nowhere

\* gs_we_initiate: the higher seat does, and whoever has none yet.
WeInitiate(m, i) == local[m] > i

\* gs_peer_at: the seat a datagram came from, by its address.
SeatOf(m, from) == {i \in Seat : peer[m][i].who = from}

\* gs_wire_host and gs_wire_join: a host is its own player zero; a joiner has the
\* host's address and key from the command line.
WireInit ==
    /\ local   = [m \in Machine |-> IF Hosting(m) THEN 0 ELSE Unplaced]
    /\ players \in {[m \in Machine |-> IF Hosting(m) THEN n ELSE 0] : n \in 2 .. MaxPlayers}
    /\ ready   = [m \in Machine |-> FALSE]
    /\ net     = {}
    /\ peer    = [m \in Machine |-> [i \in Seat |->
                    IF i # 0 THEN Stranger
                    ELSE IF Hosting(m) THEN [Stranger EXCEPT !.who = Host]
                    ELSE [Stranger EXCEPT !.who = Host, !.key = Host]]]

-----------------------------------------------------------------------------
(* Datagrams.                                                              *)

\* The first message of a handshake: made for one key, proving another.
Greet(from, to, key, e) ==
    [kind |-> "greet", from |-> from, to |-> to, key |-> key, e |-> e]

\* The second, which only the handshake it answers can read.
Answer(from, to, e, mine) ==
    [kind |-> "answer", from |-> from, to |-> to, tunnel |-> <<e, mine>>]

\* gs_send_roster: personalised, and sealed to one peer.  The host's own entry has
\* no address, and a seat nobody has taken has neither address nor key.
Roster(n, table, i) ==
    [kind |-> "roster", from |-> Host, to |-> table[i].who,
     tunnel |-> table[i].tunnel, counter |-> table[i].session.n,
     players |-> n, seat |-> i,
     who |-> [k \in 0 .. n - 1 |-> IF k = 0 THEN Nowhere ELSE table[k].who],
     key |-> [k \in 0 .. n - 1 |-> IF k = 0 THEN Host
                                  ELSE IF Known(table[k]) THEN table[k].key ELSE Zeroes]]

-----------------------------------------------------------------------------
(* Deciding.                                                               *)

\* gs_settle_ready, for the machines the seat and the size of the race are known
\* at; elsewhere `ready` stays what it was.
SettledReady(m, table, seat, n, was) ==
    IF n = 0 \/ seat >= n THEN was
    ELSE \A i \in 0 .. n - 1 : i # seat => Known(table[i]) /\ Established(table[i])

\* Slip: what the handler made of it is not decided again: addresses are enough.
DecideEarly(m, table, seat, n, now) == ready' = [ready EXCEPT ![m] = now]

\* gs_wire_poll decides last, once nothing more has arrived, and only while the
\* machine is not ready: from then on datagrams are taken by the race loop
\* (gs_wire_recv) and `now`, what the handler itself made of it, stands.
Decide(m, table, seat, n, now) ==
    ready' = [ready EXCEPT ![m] =
                IF ready[m] THEN now ELSE SettledReady(m, table, seat, n, now)]

-----------------------------------------------------------------------------
(* Sending.                                                                *)

\* gs_greet_peer's early returns.
MayGreet(m, i) ==
    LET p == peer[m][i] IN
    /\ i # local[m]
    /\ Known(p) /\ p.key # Nowhere
    /\ ~Established(p)
    /\ WeInitiate(m, i)

\* gs_wire_poll on a retry tick: everybody due in these seats is greeted anew, with
\* a fresh handshake that forgets the one before.
GreetIn(m, seats) ==
    LET due == {i \in seats : MayGreet(m, i)}
        next(i) == peer[m][i].made + 1
    IN  /\ due # {}
        /\ \A i \in due : next(i) <= MaxGreets
        /\ peer' = [peer EXCEPT ![m] = [i \in Seat |->
                      IF i \in due THEN [@[i] EXCEPT !.made = next(i), !.hs = next(i)]
                      ELSE @[i]]]
        /\ net' = net \cup {Greet(m, peer[m][i].who, peer[m][i].key, next(i)) : i \in due}
        /\ UNCHANGED <<local, players, ready>>

\* gs_send_hello, and the links to everybody: two clocks that tick a poll apart.
Hello(m)    == ~ready[m] /\ ~Hosting(m) /\ GreetIn(m, {0})
GreetAll(m) == GreetIn(m, Seat)

\* The peers everybody already here is told about again, and what telling them
\* leaves: gs_send_roster to each seat whose tunnel is up.
Told(n, table) ==
    {k \in 1 .. n - 1 : Established(table[k]) /\ MaySeal(table[k].session)}
AfterRosters(n, table) ==
    [k \in Seat |-> IF k \in Told(n, table)
                    THEN [table[k] EXCEPT !.session = Sealed(@)] ELSE table[k]]

-----------------------------------------------------------------------------
(* Receiving (gs_wire_recv): by where a datagram came from.                *)

\* A responder that has read a greeting: its answer, and the tunnel, at once.
Answered(p, d) ==
    [p EXCEPT !.made = @ + 1, !.tunnel = <<d.e, p.made + 1>>, !.session = Split]

\* gs_take_knock: somebody new takes the first free seat, is answered, and
\* everybody whose tunnel is up is told.  (That a machine already seated knocks
\* again is provided for there, but gs_wire_recv never sends it that way.)
Knock(d) ==
    LET m    == d.to
        n    == players[m]
        free == {i \in 1 .. n - 1 : ~Known(peer[m][i])}
    IN  /\ d.kind = "greet" /\ d.key = m
        /\ Hosting(m) /\ SeatOf(m, d.from) = {}
        /\ \E i \in free :
              /\ \A k \in free : i <= k
              /\ LET seated == [peer[m] EXCEPT ![i] =
                                  [Answered(@, d) EXCEPT !.who = d.from, !.key = d.from]]
                     table  == AfterRosters(n, seated)
                 IN  /\ peer' = [peer EXCEPT ![m] = table]
                     /\ net' = net \cup {Answer(m, d.from, d.e, seated[i].made)}
                                   \cup {Roster(n, seated, k) : k \in Told(n, seated)}
                     /\ Decide(m, table, local[m], n,
                               Cardinality({k \in Seat : Known(table[k])}) = n)
        /\ UNCHANGED <<local, players>>

\* Slip: every greeting is answered, also where a tunnel is up.
AnswerAgain(d) ==
    \E i \in SeatOf(d.to, d.from) :
        LET m == d.to
            p == peer[m][i]
        IN  /\ d.kind = "greet" /\ d.key = m
            /\ ~WeInitiate(m, i)
            /\ p.key \in {Nowhere, d.from} /\ p.made < MaxGreets
            /\ peer' = [peer EXCEPT ![m][i] = Answered(@, d)]
            /\ net' = net \cup {Answer(m, d.from, d.e, p.made + 1)}
            /\ Decide(m, peer'[m], local[m], players[m], ready[m])
            /\ UNCHANGED <<local, players>>

\* gs_take_peer_handshake, answering: once, and only the key the broker named.
AnswerPeer(d) ==
    \E i \in SeatOf(d.to, d.from) :
        LET m == d.to
            p == peer[m][i]
        IN  /\ d.kind = "greet" /\ d.key = m
            /\ ~Established(p) /\ ~WeInitiate(m, i)
            /\ p.key \in {Nowhere, d.from}
            /\ peer' = [peer EXCEPT ![m][i] = Answered(@, d)]
            /\ net' = net \cup {Answer(m, d.from, d.e, p.made + 1)}
            /\ Decide(m, peer'[m], local[m], players[m], ready[m])
            /\ UNCHANGED <<local, players>>

\* Slip: the answer to the handshake in hand is read a second time.
FinishAgain(d) ==
    \E i \in SeatOf(d.to, d.from) :
        LET m == d.to
            p == peer[m][i]
        IN  /\ d.kind = "answer"
            /\ WeInitiate(m, i) /\ p.hs # 0 /\ d.tunnel[1] = p.hs
            /\ peer' = [peer EXCEPT ![m][i] = [@ EXCEPT !.tunnel = d.tunnel, !.session = Split]]
            /\ Decide(m, peer'[m], local[m], players[m], ready[m])
            /\ UNCHANGED <<local, players, net>>

\* gs_take_peer_handshake, initiating: the answer to the handshake in hand brings
\* the tunnel up; any other message kills that handshake.
FinishGreeting(d) ==
    \E i \in SeatOf(d.to, d.from) :
        LET m == d.to
            p == peer[m][i]
        IN  /\ d.kind \in {"greet", "answer"}
            /\ ~Established(p) /\ WeInitiate(m, i) /\ p.hs # 0
            /\ IF d.kind = "answer" /\ d.tunnel[1] = p.hs
               THEN peer' = [peer EXCEPT ![m][i] =
                               [@ EXCEPT !.tunnel = d.tunnel, !.session = Split]]
               ELSE peer' = [peer EXCEPT ![m][i].hs = 0]
            /\ Decide(m, peer'[m], local[m], players[m], ready[m])
            /\ UNCHANGED <<local, players, net>>

\* gs_take_roster: an empty entry is somebody who has not arrived; a key or an
\* address already known stands.
Filled(p, who, key) ==
    IF who = Nowhere THEN p
    ELSE [p EXCEPT !.key = IF @ = Nowhere THEN key ELSE @,
                   !.who = IF @ = Nowhere THEN who ELSE @]

TakeRoster(d) ==
    \E i \in SeatOf(d.to, d.from) :
        LET m     == d.to
            p     == peer[m][i]
            table == [k \in Seat |->
                        IF k = d.seat THEN [peer[m][k] EXCEPT !.who = m]
                        ELSE IF k >= d.players THEN peer[m][k]
                        ELSE LET q == IF k = i THEN [p EXCEPT !.session = Open(@, d.counter, TRUE)]
                                      ELSE peer[m][k]
                             IN  Filled(q, IF k = 0 THEN Host ELSE d.who[k], d.key[k])]
        IN  /\ d.kind = "roster"
            /\ d.tunnel = p.tunnel /\ Opens(p.session, d.counter, TRUE)
            /\ ~Hosting(m)
            /\ peer' = [peer EXCEPT ![m] = table]
            /\ local' = [local EXCEPT ![m] = d.seat]
            /\ players' = [players EXCEPT ![m] = d.players]
            /\ Decide(m, table, d.seat, d.players,
                      \A k \in 0 .. d.players - 1 : Known(table[k]))
            /\ UNCHANGED net

TakeIn(d) ==
    \/ Knock(d)
    \/ AnswerPeer(d)
    \/ FinishGreeting(d)
    \/ TakeRoster(d)

WireNext ==
    \/ \E m \in Machine : Hello(m) \/ GreetAll(m)
    \/ \E d \in net : TakeIn(d)

WireSpec == WireInit /\ [][WireNext]_wireVars

-----------------------------------------------------------------------------
Seated(i) == peer[Host][i].who

\* Nobody is in two seats, whoever was told a seat has it, and nobody takes one
\* player for another: the address a seat is known by and the key its player must
\* prove are those of whoever has it, whichever rosters were lost or came late, and
\* also when the first to arrive was sent before anybody had.
SeatsAgree ==
    /\ \A i, k \in Seat : i # k /\ Seated(i) # Nowhere => Seated(i) # Seated(k)
    /\ \A m \in Machine : local[m] # Unplaced => Seated(local[m]) = m
    /\ \A m \in Machine, i \in Seat : /\ peer[m][i].who \in {Nowhere, Seated(i)}
                                      /\ peer[m][i].key \in {Nowhere, Seated(i)}

\* Two ends that both have a tunnel have the same one, and the end that began the
\* handshake never has one alone.
TunnelsPair ==
    \A m \in Machine, i \in Seat :
        Established(peer[m][i]) =>
            LET far == peer[peer[m][i].who]
                me  == {k \in Seat : far[k].who = m}
            IN  /\ \A k \in me : Established(far[k]) => far[k].tunnel = peer[m][i].tunnel
                /\ WeInitiate(m, i) => \E k \in me : Established(far[k])

\* Everybody knows who sits where, and holds one end of the tunnel the other holds.
WhoIsWho == SeatsAgree /\ TunnelsPair

\* A machine that may race has its seat, the host has filled all the others, and
\* the tunnel to every one of them is up.
ReadyIsWhole ==
    \A m \in Machine : ready[m] =>
        /\ players[m] = players[Host] /\ local[m] < players[m]
        /\ \A i \in 0 .. players[m] - 1 :
              /\ Seated(i) # Nowhere
              /\ i # local[m] => Established(peer[m][i])

\* Nothing that arrives twice or late tears down what works: a seat given, a
\* tunnel up and the window of datagrams seen over it all stand.
WhatWorksStands ==
    [][\A m \in Machine, i \in Seat :
          /\ Known(peer[m][i]) => peer'[m][i].who = peer[m][i].who
          /\ Established(peer[m][i]) =>
                /\ peer'[m][i].tunnel = peer[m][i].tunnel
                /\ peer'[m][i].session.n >= peer[m][i].session.n
                /\ peer[m][i].session.started => peer'[m][i].session.started
          /\ local[m] # Unplaced => local'[m] = local[m]
          /\ ready[m] => ready'[m]]_wireVars
=============================================================================
