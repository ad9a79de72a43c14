------------------------------ MODULE GsLobby -------------------------------
(***************************************************************************)
(* Meeting at a server: the handshake, the seats and what everybody is     *)
(* told on the server (gs_handle, gs_join, gs_drop and the loop of         *)
(* frontend/server/main.c), and the other half on each client, racing by   *)
(* relay (gs_take_server, gs_wire_poll and what they call, gs_wire.c).     *)
(*                                                                         *)
(* An address is one connection: opening another gets another port.  A     *)
(* handshake is in the clear and may arrive at any time, any number of     *)
(* times, or never; what is sealed is opened once (GsTunnel), in any       *)
(* order, or never, and two datagrams alike and both on their way count as *)
(* one.  The timeout is longer than a datagram lives: when a client is     *)
(* dropped for silence, nothing of it is on its way any more.              *)
(*                                                                         *)
(* Left out: names (GsNames), tokens (GsClaims), the peers' own tunnels    *)
(* (GsWire), pings but for the roster that goes with them, and race        *)
(* traffic.  A track arrives whole (GsCarrier has the pieces).             *)
(***************************************************************************)
EXTENDS Integers, FiniteSets, SequencesExt

CONSTANTS Address,      \* connections
          Guest,        \* Guest[n]: those that turn up at a server of n seats
          Passer,       \* Passer[n]: those that knock there and no more is heard of
          Nobody,
          MaxSeats,     \* GS_PROTO_MAX_PLAYERS
          Tunnels,      \* GS_SRV_TUNNELS
          Lossy,        \* whether sealed datagrams may be lost
          MaxPost,      \* bound: those on their way at once, where they may be
          MaxKnocks,    \* bound: handshakes one client begins
          MaxAnswers    \* bound: MaxAnswers[n]: answers to one of them

Slot == 0 .. MaxSeats - 1
Unseated == 255

ASSUME LobbyAssumption ==
    /\ IsFiniteSet(Address) /\ Nobody \notin Address
    /\ Guest \in [1 .. MaxSeats -> SUBSET Address]
    /\ Passer \in [1 .. MaxSeats -> SUBSET Address]
    /\ MaxSeats \in 1 .. 254 /\ Tunnels > MaxSeats
    /\ Lossy \in BOOLEAN
    /\ MaxPost \in Nat /\ MaxKnocks \in Nat
    /\ MaxAnswers \in [1 .. MaxSeats -> Nat]

VARIABLES
    capacity,   \* --players
    seat,       \* seat[i]: the address of client i; Nobody: not used
    tunnel,     \* the tunnels, each [who, keys], the longest silent first
    served,     \* the track this lobby races on is up
    far,        \* far[a]: the client at address a
    hello,      \* every handshake datagram ever sent
    post        \* sealed datagrams on their way: [to, keys, body]

lobbyVars == <<capacity, seat, tunnel, served, far, hello, post>>

\* gs_wire: `made` handshakes begun, `hs` the one in hand (0: none that can still
\* succeed), `keys` of the tunnel.  `count` and `capacity` are of the roster last
\* heard.  `ground`: "unheard" until a START; then "none", "wanted" or "here".
NewWire == [made |-> 0, hs |-> 0, keys |-> <<>>, local |-> Unseated,
            count |-> 0, capacity |-> 0, ground |-> "unheard",
            refused |-> FALSE, ready |-> FALSE, open |-> TRUE]

LobbyInit ==
    /\ capacity \in 1 .. MaxSeats
    /\ seat = [i \in Slot |-> Nobody]
    /\ tunnel = <<>>
    /\ served \in BOOLEAN
    /\ far = [a \in Address |-> NewWire]
    /\ hello = {} /\ post = {}

Seats(a) == {i \in Slot : seat[i] = a}
Here(a) == Seats(a) # {}
Present(s) == Cardinality({i \in Slot : s[i] # Nobody})
Empty == {i \in Slot : i < capacity /\ seat[i] = Nobody}

TunnelsOf(a) == {j \in DOMAIN tunnel : tunnel[j].who = a}

\* The first of them, as a set: empty where there is none.
Lowest(S) == {i \in S : \A k \in S : i <= k}

\* What has just been heard through moves behind the others: last_ms = now.
Touch(a) == LET j == CHOOSE k \in TunnelsOf(a) : TRUE
            IN  Append(RemoveAt(tunnel, j), tunnel[j])

\* gs_send: through the tunnel of that address as it is now, or not at all.
Mail(a, bodies) ==
    {[to |-> a, keys |-> tunnel[j].keys, body |-> b] : j \in TunnelsOf(a), b \in bodies}

RosterNow(s) == [kind |-> "lobby", count |-> Present(s)]

\* gs_broadcast_lobby
ToEverybody(s) == UNION {Mail(s[i], {RosterNow(s)}) : i \in {k \in Slot : s[k] # Nobody}}

\* What is sent joins what is left of what was on its way, or is lost.
Sends(left, new) ==
    \E through \in IF Lossy THEN SUBSET new ELSE {new} :
        /\ Lossy => Cardinality(left \cup through) <= MaxPost
        /\ post' = left \cup through

-----------------------------------------------------------------------------
(* The client: knocking *)

\* Slip: nothing heard is nothing to wait for.
SettledUnheard(w) == w.ground # "wanted"

\* gs_wire_settled
Settled(w) == w.ground \in {"none", "here"}

Crowded(w) == w.count >= w.capacity

\* gs_placed: the server has placed this client and the ground is agreed.
Placed(w) == w.local # Unseated /\ Crowded(w) /\ Settled(w)

\* gs_settle_ready, at the end of a poll, for a client that relays.  A client that
\* was ready is not polled: what it heard in its race (gs_wire_recv) stands.
Decided(was, w) ==
    IF was.ready \/ w.capacity = 0 \/ w.local >= w.capacity THEN w
    ELSE [w EXCEPT !.ready = Placed(w)]

\* gs_send_handshake: a fresh one, and the one before it is forgotten.
Knocks(a) ==
    /\ far[a].open /\ far[a].keys = <<>>
    /\ far[a].made < MaxKnocks
    /\ far' = [far EXCEPT ![a].made = @ + 1, ![a].hs = far[a].made + 1]
    /\ hello' = hello \cup {[from |-> a, e |-> far[a].made + 1, f |-> 0]}
    /\ UNCHANGED <<capacity, seat, tunnel, served, post>>

\* gs_take_handshake
TakeAnswer(a, d) ==
    /\ d \in hello /\ d.from = a /\ d.f > 0
    /\ far[a].open /\ far[a].keys = <<>> /\ far[a].hs # 0
    /\ far' = [far EXCEPT ![a] = IF d.e = @.hs THEN [@ EXCEPT !.keys = <<d.e, d.f>>]
                                 ELSE [@ EXCEPT !.hs = 0]]
    /\ UNCHANGED <<capacity, seat, tunnel, served, hello, post>>

SendJoin(a) ==
    /\ far[a].open /\ far[a].keys # <<>>
    /\ ~far[a].ready /\ ~far[a].refused
    /\ Sends(post, {[to |-> Nobody, who |-> a, keys |-> far[a].keys, body |-> "join"]})
    /\ UNCHANGED <<capacity, seat, tunnel, served, far, hello>>

AskTrack(a) ==
    /\ far[a].open /\ far[a].ground = "wanted"
    /\ Sends(post, {[to |-> Nobody, who |-> a, keys |-> far[a].keys, body |-> "want"]})
    /\ UNCHANGED <<capacity, seat, tunnel, served, far, hello>>

\* gs_wire_close: one goodbye, if there is a tunnel to say it through.
Close(a) ==
    /\ far[a].open
    /\ far' = [far EXCEPT ![a] = [NewWire EXCEPT !.open = FALSE]]
    /\ Sends({d \in post : d.to # a},
             IF far[a].keys = <<>> THEN {}
             ELSE {[to |-> Nobody, who |-> a, keys |-> far[a].keys, body |-> "bye"]})
    /\ UNCHANGED <<capacity, seat, tunnel, served, hello>>

-----------------------------------------------------------------------------
(* The server: handshakes, and what comes through the tunnels *)

\* Slip: whoever has been quiet longest goes.
RoomForAnybody(t, a) ==
    LET own == {j \in DOMAIN t : t[j].who = a}
    IN  IF own # {} THEN {RemoveAt(t, j) : j \in own}
        ELSE IF Len(t) < Tunnels THEN {t} ELSE {Tail(t)}

\* gs_tunnel_slot: this address's own, a free one, or that of whoever has been quiet
\* longest and is not here.  The tunnels that are left.
RoomFor(t, a) ==
    LET own  == {j \in DOMAIN t : t[j].who = a}
        idle == {j \in DOMAIN t : ~Here(t[j].who)}
    IN  IF own # {} THEN {RemoveAt(t, j) : j \in own}
        ELSE IF Len(t) < Tunnels THEN {t}
        ELSE {RemoveAt(t, j) : j \in Lowest(idle)}

\* A handshake is answered, with an ephemeral key of its own, and its tunnel stands
\* from then on: unless the address is a client's already.
TakeHello(a, d) ==
    LET f == 1 + Cardinality({x \in hello : x.from = a /\ x.e = d.e /\ x.f > 0})
    IN  /\ d \in hello /\ d.from = a /\ d.f = 0
        /\ f <= MaxAnswers[capacity]
        /\ ~Here(a)
        /\ \E t \in RoomFor(tunnel, a) :
              tunnel' = Append(t, [who |-> a, keys |-> <<d.e, f>>])
        /\ hello' = hello \cup {[from |-> a, e |-> d.e, f |-> f]}
        /\ UNCHANGED <<capacity, seat, served, far, post>>

\* The datagram opens under the tunnel that address has now.
Arrives(d, body) ==
    /\ d \in post /\ d.to = Nobody /\ d.body = body
    /\ \E j \in TunnelsOf(d.who) : tunnel[j].keys = d.keys

Start == [kind |-> "start", ground |-> IF served THEN "wanted" ELSE "none"]

\* Slip: the first seat that is free, whoever asks.
SeatForAll(a) == IF Empty = {} THEN Seats(a) ELSE Lowest(Empty)

\* The seat it has, or the first that is free.
SeatFor(a) == IF Here(a) THEN Seats(a) ELSE Lowest(Empty)

TakeJoin(d) ==
    /\ Arrives(d, "join")
    /\ tunnel' = Touch(d.who)
    /\ IF SeatFor(d.who) = {}
       THEN /\ Sends(post \ {d}, Mail(d.who, {[kind |-> "full"]}))
            /\ UNCHANGED seat
       ELSE \E i \in SeatFor(d.who) :
              LET s == [seat EXCEPT ![i] = d.who]
              IN  /\ seat' = s
                  /\ Sends(post \ {d},
                       Mail(d.who, {[kind |-> "welcome", slot |-> i, count |-> Present(s)], Start})
                       \cup IF Here(d.who) THEN {} ELSE ToEverybody(s))
    /\ UNCHANGED <<capacity, served, far, hello>>

\* gs_drop
Without(i) == [seat EXCEPT ![i] = Nobody]

TakeBye(d) ==
    /\ Arrives(d, "bye")
    /\ tunnel' = Touch(d.who)
    /\ \/ \E i \in Seats(d.who) :
            /\ seat' = Without(i)
            /\ Sends(post \ {d}, ToEverybody(Without(i)))
       \/ /\ ~Here(d.who)
          /\ post' = post \ {d}
          /\ UNCHANGED seat
    /\ UNCHANGED <<capacity, served, far, hello>>

\* WANT_TRACK: answered while the track is up, and only for a client.
TakeWant(d) ==
    /\ Arrives(d, "want")
    /\ tunnel' = Touch(d.who)
    /\ Sends(post \ {d},
             IF Here(d.who) /\ served THEN Mail(d.who, {[kind |-> "track"]}) ELSE {})
    /\ UNCHANGED <<capacity, seat, served, far, hello>>

\* Every two seconds the roster again, in case it was lost.
SayAgain(i) ==
    /\ seat[i] # Nobody
    /\ Sends(post, Mail(seat[i], {RosterNow(seat)}))
    /\ UNCHANGED <<capacity, seat, tunnel, served, far, hello>>

\* Nothing was heard of a client for gs_timeout_ms.
WentQuiet(i) ==
    /\ seat[i] # Nobody
    /\ seat' = Without(i)
    /\ Sends({d \in post : d.to # seat[i] /\ (d.to = Nobody => d.who # seat[i])},
             ToEverybody(Without(i)))
    /\ UNCHANGED <<capacity, tunnel, served, far, hello>>

\* gs_take_down, by the operator.
TakeTrackDown ==
    /\ served
    /\ served' = FALSE
    /\ UNCHANGED <<capacity, seat, tunnel, far, hello, post>>

-----------------------------------------------------------------------------
(* The client: what it hears (gs_take_server) *)

Heard(w, b) ==
    CASE b.kind = "welcome" ->
           LET v == [w EXCEPT !.local = b.slot, !.count = b.count, !.capacity = capacity,
                              !.refused = FALSE]
           IN  [v EXCEPT !.ready = Crowded(v) /\ Settled(v)]
      [] b.kind = "lobby" ->
           LET v == [w EXCEPT !.count = b.count, !.capacity = capacity]
           IN  [v EXCEPT !.ready = Placed(v)]
      [] b.kind = "start" ->
           LET v == IF b.ground = "wanted" /\ w.ground = "here" THEN w
                    ELSE [w EXCEPT !.ground = b.ground]
           IN  [v EXCEPT !.ready = Crowded(v) /\ Settled(v)]
      [] b.kind = "track" ->
           IF w.ground # "wanted" THEN w
           ELSE LET v == [w EXCEPT !.ground = "here"]
                IN  [v EXCEPT !.ready = Placed(v)]
      [] b.kind = "full" -> [w EXCEPT !.refused = TRUE]

Hear(d) ==
    /\ d \in post /\ d.to # Nobody
    /\ far[d.to].open /\ far[d.to].keys = d.keys
    /\ post' = post \ {d}
    /\ far' = [far EXCEPT ![d.to] = Decided(@, Heard(@, d.body))]
    /\ UNCHANGED <<capacity, seat, tunnel, served, hello>>

LobbyNext ==
    \/ \E a \in Guest[capacity] \cup Passer[capacity] : Knocks(a)
    \/ \E a \in Guest[capacity] : SendJoin(a) \/ AskTrack(a) \/ Close(a)
    \/ \E d \in hello :
        \/ d.from \in Guest[capacity] /\ TakeAnswer(d.from, d)
        \/ TakeHello(d.from, d)
    \/ \E d \in post : TakeJoin(d) \/ TakeBye(d) \/ TakeWant(d) \/ Hear(d)
    \/ \E i \in Slot : SayAgain(i) \/ WentQuiet(i)
    \/ TakeTrackDown

LobbySpec == LobbyInit /\ [][LobbyNext]_lobbyVars

-----------------------------------------------------------------------------
\* Nobody has two seats, however often a JOIN is repeated and whatever of it was
\* lost, and whoever has one has the tunnel to be spoken to through.
OneSeatEach ==
    /\ \A i, k \in Slot : seat[i] # Nobody /\ seat[i] = seat[k] => i = k
    /\ \A i \in Slot : seat[i] # Nobody => TunnelsOf(seat[i]) # {}
    /\ \A j, k \in DOMAIN tunnel : tunnel[j].who = tunnel[k].who => j = k

\* "Never one belonging to a client that is here": a client keeps the very tunnel it
\* joined through for as long as it has its seat, whoever else knocks.
PresentKeepsTunnel ==
    [][\A i \in Slot : seat[i] # Nobody /\ seat'[i] = seat[i] =>
          {tunnel'[j].keys : j \in {k \in DOMAIN tunnel' : tunnel'[k].who = seat[i]}}
            = {tunnel[j].keys : j \in TunnelsOf(seat[i])}]_lobbyVars

\* While the track is up nobody who is ready races anything else, and where there is
\* none all of them know it: "everybody races the same ground".
SameGround ==
    \A a, b \in Address :
        /\ far[a].ready => far[a].ground \in {"none", "here"}
        /\ served /\ far[a].ready /\ far[b].ready => far[a].ground = far[b].ground
=============================================================================
