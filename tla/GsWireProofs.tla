---------------------------- MODULE GsWireProofs ----------------------------
(***************************************************************************)
(* Machines that meet by themselves agree who is who, for any number of    *)
(* machines, seats and knocks, and whatever the network loses, repeats or  *)
(* delays.                                                                 *)
(*                                                                         *)
(* None of the properties of GsWire is inductive: each is about what two   *)
(* machines know, and what a machine learns it reads from a datagram that  *)
(* may be old.  So the invariant says what every datagram ever sent still  *)
(* has to be true of (SentOK), which can be said because nothing known is  *)
(* ever forgotten: rows of the table only fill (Standing).                 *)
(*                                                                         *)
(* And the tunnels they get have it that a receiver refuses a datagram only*)
(* for cause, and that everything is handed on at most once (GsTunnel), for*)
(* every width of the window and every limit on the messages: the map and  *)
(* the newest counter are all the receiver keeps, both properties are about*)
(* everything it ever opened, and what joins the two is Tracks: the map is *)
(* the history, as far back as a window reaches.                           *)
(***************************************************************************)
EXTENDS GsWire, GsTunnel, TLAPS

Row == [who : Machine \cup {Nowhere}, key : Machine \cup {Nowhere}, made : Nat, hs : Nat,
        tunnel : {<<>>} \cup (Nat \X Nat), session : Session]

WireTyped ==
    /\ peer \in [Machine -> [Seat -> Row]]
    /\ local \in [Machine -> Seat \cup {Unplaced}]
    /\ players \in [Machine -> Nat]
    /\ ready \in [Machine -> BOOLEAN]

\* Everybody counts the players and the seats as the host does.
Places ==
    /\ players[Host] \in 2 .. MaxPlayers
    /\ \A m \in Machine : players[m] \in {0, players[Host]}
    /\ Seated(0) = Host
    /\ \A i, k \in Seat : i # k /\ Seated(i) # Nowhere => Seated(i) # Seated(k)
    /\ local[Host] = 0
    /\ \A m \in Machine : local[m] # Unplaced => Seated(local[m]) = m

\* One row of one machine's table agrees with the host's; nobody has a tunnel to
\* itself, and a machine without a seat knows nobody but the host.
RowSound(m, i) ==
    /\ peer[m][i].who \in {Nowhere, Seated(i)}
    /\ peer[m][i].key \in {Nowhere, Seated(i)}
    /\ i = 0 => peer[m][i].who = Host
    /\ local[m] = Unplaced /\ i # 0 => peer[m][i].who = Nowhere
    /\ Hosting(m) /\ i # 0 => peer[m][i].key = peer[m][i].who
    /\ peer[m][i].who \in {Nowhere, m} => peer[m][i].tunnel = <<>>

\* Who began a handshake and has a tunnel has the one the far end answered with.
Paired(m, i) ==
    peer[m][i].tunnel # <<>> /\ local[m] > i =>
        \E k \in Seat : /\ peer[peer[m][i].who][k].who = m
                        /\ peer[peer[m][i].who][k].tunnel = peer[m][i].tunnel

RowsSound == \A m \in Machine, i \in Seat : RowSound(m, i)
AllPaired == \A m \in Machine, i \in Seat : Paired(m, i)

\* What is true of a datagram as long as it may still arrive.
GreetOK(d)  == d.from # d.to /\ d.e \in Nat
AnswerOK(d) == \E k \in Seat : /\ peer[d.from][k].who = d.to
                               /\ peer[d.from][k].tunnel = d.tunnel
                               /\ d.tunnel # <<>>
RosterOK(d) ==
    /\ d.from = Host /\ d.counter \in Nat
    /\ d.players = players[Host]
    /\ d.seat \in 1 .. d.players - 1 /\ d.to = Seated(d.seat)
    /\ d.key[0] = Host
    /\ \A k \in 1 .. d.players - 1 :
          d.who[k] # Nowhere => d.who[k] = Seated(k) /\ d.key[k] = Seated(k)

SentOK(d) ==
    /\ d.from \in Machine /\ d.to \in Machine
    /\ d.kind \in {"greet", "answer", "roster"}
    /\ d.kind = "greet"  => GreetOK(d)
    /\ d.kind = "answer" => AnswerOK(d)
    /\ d.kind = "roster" => RosterOK(d)

AllSent == \A d \in net : SentOK(d)

Met == WireTyped /\ Places /\ RowsSound /\ AllPaired /\ AllSent /\ ReadyIsWhole

-----------------------------------------------------------------------------
(* Rows only fill.                                                         *)

Stands(p, q) ==
    /\ p.who # Nowhere => q.who = p.who
    /\ p.tunnel # <<>> => /\ q.tunnel = p.tunnel
                          /\ q.session.n >= p.session.n
                          /\ p.session.started => q.session.started

Standing == \A m \in Machine, i \in Seat : Stands(peer[m][i], peer'[m][i])

\* What opening and sealing leave of a session (gs_noise_open, gs_noise_seal).
LEMMA SessionKept ==
    ASSUME NEW s \in Session, NEW c \in Nat
    PROVE  /\ Open(s, c, TRUE) \in Session
           /\ Open(s, c, TRUE).n = s.n
           /\ s.started => Open(s, c, TRUE).started
           /\ Sealed(s) \in Session /\ Sealed(s).n = s.n + 1 /\ Sealed(s).started = s.started
           /\ Split \in Session
<1>1. Split \in Session
  BY DEF Session, Split
<1>2. Sealed(s) \in Session /\ Sealed(s).n = s.n + 1 /\ Sealed(s).started = s.started
  BY DEF Session, Sealed
<1>3. ASSUME Opens(s, c, TRUE)
      PROVE  /\ WindowRecord(s, c) \in Session
             /\ WindowRecord(s, c).n = s.n /\ WindowRecord(s, c).started
  <2>1. 0 \in 0 .. Window - 1
    BY NoiseAssumption
  <2>2. CASE ~s.started
    BY <2>1, <2>2 DEF Session, WindowRecord
  <2>3. CASE s.started /\ c > s.newest
    BY <2>1, <2>3 DEF Session, WindowRecord
  <2>4. CASE s.started /\ ~(c > s.newest)
    <3>1. s.newest - c \in 0 .. Window - 1
      BY <1>3, <2>4, NoiseAssumption DEF Session, Opens, WindowAllows
    <3> QED
      BY <2>4, <3>1 DEF Session, WindowRecord
  <2> QED
    BY <2>2, <2>3, <2>4 DEF Session
<1> QED
  BY <1>1, <1>2, <1>3 DEF Open

\* A datagram does not become untrue.
LEMMA SentStill ==
    ASSUME Standing, Places, players'[Host] = players[Host], NEW d, SentOK(d)
    PROVE  SentOK(d)'
<1> USE DEF SentOK
<1>0. Host \in Machine /\ 0 \in Seat /\ Nowhere \notin Machine
  BY WireAssumption DEF Machine, Seat
<1>1. \A k \in Seat : Seated(k) # Nowhere => Seated(k)' = Seated(k)
  BY <1>0 DEF Standing, Stands, Seated
<1>2. ASSUME d.kind = "answer" PROVE AnswerOK(d)'
  <2>1. d.from \in Machine /\ d.to # Nowhere
    BY <1>0
  <2> QED
    BY <1>2, <2>1 DEF AnswerOK, Standing, Stands
<1>3. ASSUME d.kind = "roster" PROVE RosterOK(d)'
  <2>1. \A k \in 1 .. d.players - 1 : k \in Seat
    BY <1>3, WireAssumption DEF RosterOK, Places, Seat
  <2>2. d.to = Seated(d.seat)'
    BY <1>0, <1>1, <1>3, <2>1 DEF RosterOK
  <2>3. \A k \in 1 .. d.players - 1 :
          d.who[k] # Nowhere => d.who[k] = Seated(k)' /\ d.key[k] = Seated(k)'
    BY <1>1, <1>3, <2>1 DEF RosterOK
  <2> QED
    BY <1>3, <2>2, <2>3 DEF RosterOK
<1> QED
  BY <1>2, <1>3 DEF GreetOK

\* Machine m's table becomes T and nobody's face, key or seat changes; a tunnel that
\* comes up is one the far end has, if m began the handshake.
TableOf(m, T) ==
    /\ T \in [Seat -> Row]
    /\ peer' = [peer EXCEPT ![m] = T]
    /\ UNCHANGED <<local, players>>

KeepsFace(m, i, q) ==
    LET p == peer[m][i] IN
    /\ q.who = p.who /\ q.key = p.key
    /\ p.tunnel # <<>> => q.tunnel = p.tunnel /\ q.session = p.session
    /\ p.tunnel = <<>> /\ q.tunnel # <<>> =>
          /\ p.who \notin {Nowhere, m}
          /\ local[m] > i => \E k \in Seat : /\ peer[p.who][k].who = m
                                             /\ peer[p.who][k].tunnel = q.tunnel

LEMMA SameFaces ==
    ASSUME Met, NEW m \in Machine, NEW T, TableOf(m, T),
           \A i \in Seat : KeepsFace(m, i, T[i])
    PROVE  /\ peer' \in [Machine -> [Seat -> Row]]
           /\ Standing /\ Places' /\ RowsSound' /\ AllPaired'
<1> USE DEF Met, WireTyped, TableOf
<1>1. /\ \A i \in Seat : peer'[m][i] = T[i]
      /\ \A j \in Machine, i \in Seat : j # m => peer'[j][i] = peer[j][i]
      /\ peer' \in [Machine -> [Seat -> Row]]
  OBVIOUS
<1>2. \A j \in Machine, i \in Seat :
        /\ peer'[j][i].who = peer[j][i].who /\ peer'[j][i].key = peer[j][i].key
        /\ peer[j][i].tunnel # <<>> =>
              peer'[j][i].tunnel = peer[j][i].tunnel /\ peer'[j][i].session = peer[j][i].session
  BY <1>1 DEF KeepsFace
<1>3. \A j \in Machine, i \in Seat : peer[j][i].session.n \in Nat
  BY DEF Row, Session
<1>4. Standing
  BY <1>2, <1>3 DEF Standing, Stands
<1>5. Host \in Machine /\ 0 \in Seat
  BY WireAssumption DEF Machine, Seat
<1>6. \A i \in Seat : Seated(i)' = Seated(i)
  BY <1>2, <1>5 DEF Seated
<1>7. Places'
  BY <1>5, <1>6 DEF Places, Unplaced
<1>8. ASSUME NEW j \in Machine, NEW i \in Seat PROVE RowSound(j, i)'
  <2>1. RowSound(j, i)
    BY DEF RowsSound
  <2>2. peer'[j][i].who \in {Nowhere, j} => peer'[j][i].tunnel = <<>>
    BY <1>1, <1>2, <2>1 DEF RowSound, KeepsFace
  <2> QED
    BY <1>2, <1>6, <2>1, <2>2 DEF RowSound
<1>9. ASSUME NEW j \in Machine, NEW i \in Seat, peer'[j][i].tunnel # <<>>, local'[j] > i
      PROVE  \E k \in Seat : /\ peer'[peer'[j][i].who][k].who = j
                             /\ peer'[peer'[j][i].who][k].tunnel = peer'[j][i].tunnel
  <2> DEFINE far == peer[j][i].who
  <2>1. far # Nowhere /\ peer'[j][i].who = far
    BY <1>1, <1>2, <1>9 DEF KeepsFace, RowsSound, RowSound
  <2>2. far \in Machine
    BY <2>1 DEF Row
  <2>3. local[j] > i
    BY <1>9
  <2>4. PICK k \in Seat : peer[far][k].who = j /\ peer[far][k].tunnel = peer'[j][i].tunnel
    <3>1. CASE peer[j][i].tunnel # <<>>
      <4>1. Paired(j, i) /\ peer'[j][i].tunnel = peer[j][i].tunnel
        BY <1>2, <3>1 DEF AllPaired
      <4> QED
        BY <2>3, <3>1, <4>1 DEF Paired
    <3>2. CASE peer[j][i].tunnel = <<>>
      <4>1. j = m
        BY <1>1, <1>9, <3>2
      <4>2. KeepsFace(m, i, T[i]) /\ peer'[j][i] = T[i]
        BY <1>1, <4>1
      <4> QED
        BY <1>9, <2>3, <3>2, <4>1, <4>2 DEF KeepsFace
    <3> QED
      BY <3>1, <3>2
  <2>5. peer[far][k].tunnel # <<>>
    BY <1>9, <2>4
  <2>6. peer'[far][k].who = j /\ peer'[far][k].tunnel = peer'[j][i].tunnel
    BY <1>2, <2>2, <2>4, <2>5
  <2> QED
    BY <2>1, <2>6
<1> QED
  BY <1>1, <1>4, <1>7, <1>8, <1>9 DEF RowsSound, AllPaired, Paired

\* Whoever is ready stays so, and whoever becomes so is (gs_settle_ready).
LEMMA StillWhole ==
    ASSUME Met, Standing, WireTyped', Places', RowsSound',
           NEW m \in Machine, NEW now \in BOOLEAN,
           Decide(m, peer'[m], local'[m], players'[m], now),
           players'[Host] = players[Host],
           \A j \in Machine : local[j] # Unplaced => local'[j] = local[j],
           \A j \in Machine : players[j] # 0 => players'[j] = players[j],
           ~ready[m] /\ (players'[m] = 0 \/ local'[m] >= players'[m]) => ~now
    PROVE  ReadyIsWhole'
<1> USE DEF Met
<1>0. Host \in Machine /\ 0 \in Seat /\ Unplaced \notin Seat /\ \A i \in Seat : i \in Nat
  BY WireAssumption DEF Machine, Seat, Unplaced
<1>1. SUFFICES ASSUME NEW j \in Machine, ready'[j]
               PROVE  /\ players'[j] = players'[Host] /\ local'[j] < players'[j]
                      /\ \A i \in 0 .. players'[j] - 1 :
                            /\ Seated(i)' # Nowhere
                            /\ i # local'[j] => peer'[j][i].tunnel # <<>>
  BY DEF ReadyIsWhole, Established
<1>2. \A i \in 0 .. players'[j] - 1 : i \in Seat
  BY <1>0, WireAssumption DEF Places, Seat
<1>3. CASE ready[j]
  <2>1. /\ players[j] = players[Host] /\ local[j] < players[j]
        /\ \A i \in 0 .. players[j] - 1 :
              Seated(i) # Nowhere /\ (i # local[j] => peer[j][i].tunnel # <<>>)
    BY <1>3 DEF ReadyIsWhole, Established
  <2>2. players[Host] \in Nat /\ players[Host] <= MaxPlayers /\ players[Host] # 0
    BY WireAssumption DEF Places
  <2>3. players[j] # 0 /\ local[j] # Unplaced
    <3>1. MaxPlayers \in Nat /\ MaxPlayers <= 255
      BY WireAssumption
    <3>2. players[j] \in Nat /\ players[j] <= 255 /\ local[j] < players[j] /\ players[j] # 0
      BY <2>1, <2>2, <3>1
    <3> QED
      BY <3>2 DEF Unplaced
  <2>4. players'[j] = players[j] /\ local'[j] = local[j]
    BY <2>3
  <2>5. ASSUME NEW i \in 0 .. players'[j] - 1
        PROVE  Seated(i)' # Nowhere /\ (i # local'[j] => peer'[j][i].tunnel # <<>>)
    <3>1. Stands(peer[Host][i], peer'[Host][i]) /\ Stands(peer[j][i], peer'[j][i])
      BY <1>0, <1>2 DEF Standing
    <3>2. Seated(i) # Nowhere /\ (i # local[j] => peer[j][i].tunnel # <<>>)
      BY <2>1, <2>4
    <3> QED
      BY <2>4, <3>1, <3>2 DEF Stands, Seated
  <2> QED
    BY <2>1, <2>4, <2>5
<1>4. CASE ~ready[j]
  <2>1. j = m /\ ready'[m] = SettledReady(m, peer'[m], local'[m], players'[m], now)
    BY <1>1, <1>4 DEF Decide, WireTyped
  <2>2. /\ players'[m] # 0 /\ ~(local'[m] >= players'[m])
        /\ \A i \in 0 .. players'[m] - 1 :
              i # local'[m] => Known(peer'[m][i]) /\ Established(peer'[m][i])
    BY <1>1, <1>4, <2>1 DEF SettledReady
  <2>3. players'[m] = players'[Host] /\ players'[m] <= MaxPlayers /\ players'[m] \in Nat
    BY <2>2 DEF Places, WireTyped
  <2>4. local'[m] \in Seat \cup {Unplaced}
    BY DEF WireTyped
  <2>5. local'[m] < players'[m] /\ local'[m] # Unplaced /\ local'[m] \in Seat
    <3>1. local'[m] # Unplaced
      BY <2>2, <2>3, WireAssumption DEF Unplaced
    <3>2. local'[m] \in Nat
      BY <1>0, <2>4, <3>1
    <3> QED
      BY <2>2, <2>3, <2>4, <3>1, <3>2
  <2>6. peer'[Host][local'[m]].who = m
    <3>1. \A k \in Machine : local'[k] # Unplaced => peer'[Host][local'[k]].who = k
      BY DEF Places, Seated
    <3> QED
      BY <2>5, <3>1
  <2>7. m # Nowhere
    BY WireAssumption
  <2>8. ASSUME NEW i \in 0 .. players'[m] - 1, i # local'[m] PROVE Seated(i)' # Nowhere
    <3>1. peer'[m][i].who # Nowhere
      BY <2>2, <2>8 DEF Known
    <3>2. RowSound(m, i)'
      BY <1>2, <2>1 DEF RowsSound
    <3> QED
      BY <3>1, <3>2 DEF RowSound
  <2> QED
    <3>1. \A i \in 0 .. players'[m] - 1 :
            Seated(i)' # Nowhere /\ (i # local'[m] => peer'[m][i].tunnel # <<>>)
      <4> SUFFICES ASSUME NEW i \in 0 .. players'[m] - 1
                   PROVE  Seated(i)' # Nowhere /\ (i # local'[m] => peer'[m][i].tunnel # <<>>)
        OBVIOUS
      <4>1. CASE i = local'[m]
        BY <2>6, <2>7, <4>1 DEF Seated
      <4>2. CASE i # local'[m]
        BY <2>2, <2>8, <4>2 DEF Established
      <4> QED
        BY <4>1, <4>2
    <3> QED
      BY <2>1, <2>3, <2>5, <3>1
<1> QED
  BY <1>3, <1>4

-----------------------------------------------------------------------------
(* Each handler.                                                           *)

\* What the invariant and WhatWorksStands ask of a step together.
StillMet ==
    /\ Met' /\ Standing
    /\ \A m \in Machine : /\ local[m] # Unplaced => local'[m] = local[m]
                          /\ ready[m] => ready'[m]

LEMMA HostIsOne == Host \in Machine /\ 0 \in Seat /\ Nowhere \notin Machine
  BY WireAssumption DEF Machine, Seat

LEMMA GreetedRow ==
    ASSUME NEW p \in Row
    PROVE  LET q == [p EXCEPT !.made = p.made + 1, !.hs = p.made + 1]
           IN  /\ q \in Row /\ q.who = p.who /\ q.key = p.key
               /\ q.tunnel = p.tunnel /\ q.session = p.session
<1>1. p.made + 1 \in Nat
  BY DEF Row
<1> QED
  BY <1>1 DEF Row

\* gs_greet_peer, for the peers due (gs_wire_poll).
LEMMA GreetStep ==
    ASSUME Met, NEW m \in Machine, NEW seats \in SUBSET Seat, GreetIn(m, seats)
    PROVE  StillMet
<1> USE DEF Met
<1> DEFINE due  == {i \in seats : MayGreet(m, i)}
           T    == [i \in Seat |->
                      IF i \in due THEN [peer[m][i] EXCEPT !.made = peer[m][i].made + 1,
                                                           !.hs = peer[m][i].made + 1]
                      ELSE peer[m][i]]
           new  == {Greet(m, peer[m][i].who, peer[m][i].key, peer[m][i].made + 1) : i \in due}
<1>1. /\ peer' = [peer EXCEPT ![m] = T] /\ net' = net \cup new
      /\ UNCHANGED <<local, players, ready>>
  <2>1. [peer EXCEPT ![m] = [i \in Seat |->
                      IF i \in due THEN [@[i] EXCEPT !.made = peer[m][i].made + 1,
                                                     !.hs = peer[m][i].made + 1]
                      ELSE @[i]]] = [peer EXCEPT ![m] = T]
    BY DEF WireTyped
  <2> QED
    BY <2>1 DEF GreetIn
<1>2. \A i \in Seat : peer[m][i] \in Row
  BY DEF WireTyped
<1>3. ASSUME NEW i \in Seat
      PROVE  /\ T[i] \in Row /\ T[i].who = peer[m][i].who /\ T[i].key = peer[m][i].key
             /\ T[i].tunnel = peer[m][i].tunnel /\ T[i].session = peer[m][i].session
  <2>1. peer[m][i] \in Row
    BY <1>2
  <2>2. \/ T[i] = peer[m][i]
        \/ T[i] = [peer[m][i] EXCEPT !.made = peer[m][i].made + 1,
                                     !.hs = peer[m][i].made + 1]
    OBVIOUS
  <2> HIDE DEF T
  <2> QED
    BY <2>1, <2>2, GreetedRow
<1>4. TableOf(m, T)
  <2>1. T \in [Seat -> Row]
    BY <1>3
  <2> QED
    BY <1>1, <2>1 DEF TableOf
<1>5. \A i \in Seat : KeepsFace(m, i, T[i])
  <2> HIDE DEF T
  <2> QED
    BY <1>3 DEF KeepsFace
<1>6. /\ peer' \in [Machine -> [Seat -> Row]]
      /\ Standing /\ Places' /\ RowsSound' /\ AllPaired'
  <2> HIDE DEF T, Met
  <2> QED
    BY <1>4, <1>5, SameFaces
<1>7. ASSUME NEW d \in new PROVE SentOK(d)'
  <2> PICK i \in due : d = Greet(m, peer[m][i].who, peer[m][i].key, peer[m][i].made + 1)
    OBVIOUS
  <2>1. i \in Seat /\ i # local[m] /\ peer[m][i].who # Nowhere
    BY DEF MayGreet, Known
  <2>2. peer[m][i].who \in Machine /\ peer[m][i].made \in Nat
    BY <1>2, <2>1 DEF Row
  <2>3. peer[m][i].who = Seated(i) /\ (i = 0 => Seated(i) = Host)
        /\ (local[m] = Unplaced => i = 0)
    BY <2>1 DEF RowsSound, RowSound, Places
  <2>4. peer[m][i].who # m
    <3>1. SUFFICES ASSUME Seated(i) = m PROVE FALSE
      BY <2>3
    <3>2. local[m] # Unplaced
      BY <2>3, <3>1, HostIsOne, WireAssumption DEF Places, Unplaced
    <3>3. local[m] \in Seat /\ Seated(local[m]) = m
      BY <3>2 DEF WireTyped, Places
    <3> QED
      BY <2>1, <3>1, <3>3, HostIsOne DEF Places
  <2> QED
    BY <2>2, <2>4 DEF SentOK, Greet, GreetOK
<1>8. AllSent'
  <2>1. ASSUME NEW d \in net PROVE SentOK(d)'
    <3>1. SentOK(d)
      BY DEF AllSent
    <3> QED
      BY <1>1, <1>6, <3>1, SentStill
  <2> QED
    <3> HIDE DEF new
    <3> QED
      BY <1>1, <1>7, <2>1 DEF AllSent
<1>9. WireTyped'
  BY <1>1, <1>6 DEF WireTyped
<1>10. ReadyIsWhole'
  <2>1. \A j \in Machine, i \in Seat : /\ peer'[j][i].who = peer[j][i].who
                                       /\ peer'[j][i].tunnel = peer[j][i].tunnel
    BY <1>1, <1>3 DEF WireTyped
  <2>2. \A j \in Machine : \A i \in 0 .. players[j] - 1 : i \in Seat
    BY WireAssumption DEF Places, Seat
  <2>3. ASSUME NEW j \in Machine, ready[j], NEW i \in 0 .. players[j] - 1
        PROVE  peer'[Host][i].who # Nowhere /\ (i # local[j] => peer'[j][i].tunnel # <<>>)
    BY <2>1, <2>2, <2>3, HostIsOne DEF ReadyIsWhole, Seated, Established
  <2> QED
    BY <1>1, <2>3 DEF ReadyIsWhole, Seated, Established
<1> QED
  BY <1>1, <1>6, <1>8, <1>9, <1>10 DEF StillMet

\* A responder's row, and an initiator's.
LEMMA AnsweredRow ==
    ASSUME NEW p \in Row, NEW d, d.e \in Nat
    PROVE  LET q == Answered(p, d)
           IN  /\ q \in Row /\ q.who = p.who /\ q.key = p.key
               /\ q.tunnel = <<d.e, p.made + 1>> /\ q.tunnel # <<>>
<1>1. p.made + 1 \in Nat /\ Split \in Session
  BY DEF Row, Session, Split
<1>2. <<d.e, p.made + 1>> \in Nat \X Nat /\ <<d.e, p.made + 1>> # <<>>
  BY <1>1
<1> QED
  BY <1>1, <1>2 DEF Row, Answered

LEMMA FinishedRow ==
    ASSUME NEW p \in Row, NEW t \in Nat \X Nat
    PROVE  LET q == [p EXCEPT !.tunnel = t, !.session = Split]
           IN  q \in Row /\ q.who = p.who /\ q.key = p.key /\ q.tunnel = t
<1>1. Split \in Session
  BY DEF Session, Split
<1> QED
  BY <1>1 DEF Row

\* What gs_take_peer_handshake has in common, whichever end it is.
TakesRow(m, i, q, new) ==
    /\ KeepsFace(m, i, q)
    /\ peer' = [peer EXCEPT ![m][i] = q]
    /\ net' = net \cup new
    /\ Decide(m, peer'[m], local[m], players[m], ready[m])
    /\ UNCHANGED <<local, players>>
    /\ \A d \in new : SentOK(d)'

LEMMA HandshakeStep ==
    ASSUME Met, NEW m \in Machine, NEW i \in Seat, NEW q \in Row, NEW new,
           TakesRow(m, i, q, new)
    PROVE  StillMet
<1> USE DEF Met, TakesRow
<1> DEFINE T == [peer[m] EXCEPT ![i] = q]
<1>1. TableOf(m, T)
  BY DEF TableOf, WireTyped
<1>2. \A k \in Seat : T[k] = IF k = i THEN q ELSE peer[m][k]
  BY DEF WireTyped
<1>3. \A k \in Seat : KeepsFace(m, k, T[k])
  <2> HIDE DEF T
  <2> TAKE k \in Seat
  <2>1. CASE k = i
    BY <1>2, <2>1
  <2>2. CASE k # i
    BY <1>2, <2>2 DEF KeepsFace
  <2> QED
    BY <2>1, <2>2
<1>4. /\ peer' \in [Machine -> [Seat -> Row]]
      /\ Standing /\ Places' /\ RowsSound' /\ AllPaired'
  <2> HIDE DEF T, Met
  <2> QED
    BY <1>1, <1>3, SameFaces
<1>5. ready' \in [Machine -> BOOLEAN]
  <2>1. SettledReady(m, peer'[m], local[m], players[m], ready[m]) \in BOOLEAN
    BY DEF SettledReady, WireTyped
  <2> QED
    BY <2>1 DEF Decide, WireTyped
<1>6. WireTyped'
  BY <1>4, <1>5 DEF WireTyped
<1>7. ReadyIsWhole'
  <2>1. ready[m] \in BOOLEAN
    BY DEF WireTyped
  <2>2. Decide(m, peer'[m], local'[m], players'[m], ready[m])
    OBVIOUS
  <2> HIDE DEF Met
  <2> QED
    BY <1>4, <1>6, <2>1, <2>2, StillWhole
<1>8. AllSent'
  <2>1. ASSUME NEW d \in net PROVE SentOK(d)'
    <3>1. SentOK(d)
      BY DEF AllSent
    <3> QED
      BY <1>4, <3>1, SentStill
  <2> QED
    BY <1>4, <2>1 DEF AllSent
<1>9. \A j \in Machine : ready[j] => ready'[j]
  BY DEF Decide, WireTyped
<1> QED
  BY <1>4, <1>6, <1>7, <1>8, <1>9 DEF StillMet

LEMMA AnswerStep ==
    ASSUME Met, NEW d \in net, AnswerPeer(d)
    PROVE  StillMet
<1> USE DEF Met
<1>1. SentOK(d) /\ d.to \in Machine /\ d.from \in Machine
      /\ d.from # d.to /\ d.e \in Nat /\ d.to # Nowhere
  BY HostIsOne DEF AllSent, SentOK, GreetOK, AnswerPeer
<1> DEFINE m == d.to
<1>2. PICK i \in SeatOf(m, d.from) :
        LET p == peer[m][i]
        IN  /\ ~Established(p) /\ ~WeInitiate(m, i)
            /\ peer' = [peer EXCEPT ![m][i] = Answered(@, d)]
            /\ net' = net \cup {Answer(m, d.from, d.e, p.made + 1)}
            /\ Decide(m, peer'[m], local[m], players[m], ready[m])
            /\ UNCHANGED <<local, players>>
  BY DEF AnswerPeer
<1>3. i \in Seat /\ peer[m][i].who = d.from /\ peer[m][i] \in Row
  BY <1>1 DEF SeatOf, WireTyped
<1> DEFINE q == Answered(peer[m][i], d)
<1>4. /\ q \in Row /\ q.who = d.from /\ q.key = peer[m][i].key
      /\ q.tunnel = <<d.e, peer[m][i].made + 1>> /\ q.tunnel # <<>>
  BY <1>1, <1>3, AnsweredRow
<1>5. peer' = [peer EXCEPT ![m][i] = q] /\ peer'[m][i] = q
  BY <1>1, <1>2, <1>3 DEF WireTyped
<1>6. KeepsFace(m, i, q)
  BY <1>1, <1>2, <1>3, <1>4, HostIsOne DEF KeepsFace, Established, WeInitiate
<1>7. \A a \in {Answer(m, d.from, d.e, peer[m][i].made + 1)} : SentOK(a)'
  <2> TAKE a \in {Answer(m, d.from, d.e, peer[m][i].made + 1)}
  <2>1. /\ a.kind = "answer" /\ a.from = m /\ a.to = d.from
        /\ a.tunnel = <<d.e, peer[m][i].made + 1>>
    BY DEF Answer
  <2>2. AnswerOK(a)'
    BY <1>3, <1>4, <1>5, <2>1 DEF AnswerOK
  <2> QED
    BY <1>1, <2>1, <2>2 DEF SentOK
<1> QED
  <2> DEFINE new == {Answer(m, d.from, d.e, peer[m][i].made + 1)}
  <2> HIDE DEF q, Met
  <2>1. TakesRow(m, i, q, new)
    BY <1>2, <1>5, <1>6, <1>7 DEF TakesRow
  <2> HIDE DEF new
  <2> QED
    BY <1>1, <1>3, <1>4, <2>1, HandshakeStep

LEMMA FinishStep ==
    ASSUME Met, NEW d \in net, FinishGreeting(d)
    PROVE  StillMet
<1> USE DEF Met
<1>1. SentOK(d) /\ d.to \in Machine /\ d.from \in Machine
  BY DEF AllSent, SentOK
<1> DEFINE m == d.to
<1>2. PICK i \in SeatOf(m, d.from) :
        LET p == peer[m][i]
        IN  /\ ~Established(p) /\ WeInitiate(m, i)
            /\ IF d.kind = "answer" /\ d.tunnel[1] = p.hs
               THEN peer' = [peer EXCEPT ![m][i] =
                               [@ EXCEPT !.tunnel = d.tunnel, !.session = Split]]
               ELSE peer' = [peer EXCEPT ![m][i].hs = 0]
            /\ Decide(m, peer'[m], local[m], players[m], ready[m])
            /\ UNCHANGED <<local, players, net>>
  BY DEF FinishGreeting
<1>3. i \in Seat /\ peer[m][i].who = d.from /\ peer[m][i] \in Row
  BY <1>1 DEF SeatOf, WireTyped
<1>4. PICK q \in Row : KeepsFace(m, i, q) /\ peer' = [peer EXCEPT ![m][i] = q]
  <2>1. CASE d.kind = "answer" /\ d.tunnel[1] = peer[m][i].hs
    <3> DEFINE r == [peer[m][i] EXCEPT !.tunnel = d.tunnel, !.session = Split]
    <3>1. PICK k \in Seat : /\ peer[d.from][k].who = m
                            /\ peer[d.from][k].tunnel = d.tunnel
                            /\ d.tunnel # <<>>
      BY <1>1, <2>1 DEF SentOK, AnswerOK
    <3>2. d.tunnel \in Nat \X Nat
      BY <1>1, <3>1 DEF WireTyped, Row
    <3>3. r \in Row /\ r.who = d.from /\ r.key = peer[m][i].key /\ r.tunnel = d.tunnel
      BY <1>3, <3>2, FinishedRow
    <3>4. d.from # m
      <4>1. m # Nowhere /\ RowSound(m, k)
        BY <1>1, HostIsOne DEF RowsSound
      <4> QED
        BY <3>1, <4>1 DEF RowSound
    <3>5. KeepsFace(m, i, r)
      BY <1>1, <1>2, <1>3, <3>1, <3>3, <3>4, HostIsOne DEF KeepsFace, Established
    <3> QED
      BY <1>2, <2>1, <3>3, <3>5
  <2>2. CASE ~(d.kind = "answer" /\ d.tunnel[1] = peer[m][i].hs)
    <3> DEFINE r == [peer[m][i] EXCEPT !.hs = 0]
    <3>1. /\ r \in Row /\ r.who = d.from /\ r.key = peer[m][i].key
          /\ r.tunnel = peer[m][i].tunnel
      BY <1>3 DEF Row
    <3>2. KeepsFace(m, i, r)
      BY <1>2, <1>3, <3>1 DEF KeepsFace, Established
    <3> QED
      BY <1>2, <2>2, <3>1, <3>2
  <2> QED
    BY <2>1, <2>2
<1>5. TakesRow(m, i, q, {})
  BY <1>2, <1>4 DEF TakesRow
<1> QED
  <2> HIDE DEF Met
  <2> QED
    BY <1>1, <1>3, <1>5, HandshakeStep

\* What gs_take_roster leaves of one row.
LEMMA FilledRow ==
    ASSUME NEW p \in Row, NEW who \in Machine \cup {Nowhere}, NEW key,
           who # Nowhere => key = who
    PROVE  LET q == Filled(p, who, key)
           IN  /\ q \in Row /\ q.tunnel = p.tunnel /\ q.session = p.session
               /\ q.who = IF p.who = Nowhere THEN who ELSE p.who
               /\ q.key \in {p.key, who}
<1>1. CASE who = Nowhere
  BY <1>1 DEF Filled, Row
<1>2. CASE who # Nowhere
  BY <1>2 DEF Filled, Row
<1> QED
  BY <1>1, <1>2

\* A row after a roster: filled where it was empty, and no tunnel anew.
Learns(m, k, q) ==
    /\ q \in Row
    /\ Stands(peer[m][k], q)
    /\ q.who \in {Nowhere, Seated(k)} /\ q.key \in {Nowhere, Seated(k)}
    /\ q.tunnel = peer[m][k].tunnel

LEMMA RosterRow ==
    ASSUME Met, NEW d, SentOK(d), d.kind = "roster", d.to # Host, NEW k \in Seat,
           d.tunnel = peer[d.to][0].tunnel
    PROVE  LET m == d.to
               p == peer[m][0]
               q == IF k = 0 THEN [p EXCEPT !.session = Open(@, d.counter, TRUE)]
                    ELSE peer[m][k]
           IN  Learns(m, k, IF k = d.seat THEN [peer[m][k] EXCEPT !.who = m]
                            ELSE IF k >= d.players THEN peer[m][k]
                            ELSE Filled(q, IF k = 0 THEN Host ELSE d.who[k], d.key[k]))
<1> USE DEF Met
<1> DEFINE m == d.to
           p == peer[m][k]
           q == IF k = 0 THEN [peer[m][0] EXCEPT !.session = Open(@, d.counter, TRUE)]
                ELSE peer[m][k]
<1>1. m \in Machine /\ RosterOK(d)
  BY DEF SentOK
<1>2. p \in Row /\ p.session \in Session /\ p.session.n \in Nat
  BY <1>1 DEF WireTyped, Row, Session
<1>3. /\ p.who \in {Nowhere, Seated(k)} /\ p.key \in {Nowhere, Seated(k)}
      /\ k = 0 => p.who = Host
  BY <1>1 DEF RowsSound, RowSound
<1>4. CASE k = d.seat
  <2> DEFINE r == [p EXCEPT !.who = m]
  <2>1. Seated(k) = m /\ m # Nowhere
    BY <1>1, <1>4, HostIsOne DEF RosterOK
  <2>2. /\ r \in Row /\ r.who = m /\ r.key = p.key /\ r.tunnel = p.tunnel
        /\ r.session = p.session
    BY <1>1, <1>2 DEF Row
  <2>3. Learns(m, k, r)
    <3> HIDE DEF r
    <3> QED
      BY <1>2, <1>3, <2>1, <2>2 DEF Learns, Stands
  <2> QED
    BY <1>4, <2>3
<1>5. CASE k # d.seat /\ k >= d.players
  <2>1. Learns(m, k, p)
    BY <1>2, <1>3 DEF Learns, Stands
  <2> QED
    BY <1>5, <2>1
<1>6. CASE k # d.seat /\ ~(k >= d.players)
  <2> DEFINE who == IF k = 0 THEN Host ELSE d.who[k]
             r   == Filled(q, who, d.key[k])
  <2>1. /\ q \in Row /\ q.who = p.who /\ q.key = p.key /\ q.tunnel = p.tunnel
        /\ q.session.n = p.session.n /\ (p.session.started => q.session.started)
    <3>1. CASE k = 0
      <4>1. d.counter \in Nat
        BY <1>1 DEF RosterOK
      <4>2. /\ Open(p.session, d.counter, TRUE) \in Session
            /\ Open(p.session, d.counter, TRUE).n = p.session.n
            /\ p.session.started => Open(p.session, d.counter, TRUE).started
        BY <1>2, <4>1, SessionKept
      <4>3. q = [p EXCEPT !.session = Open(p.session, d.counter, TRUE)]
        BY <3>1
      <4> HIDE DEF q
      <4> QED
        BY <1>2, <4>2, <4>3 DEF Row
    <3>2. CASE k # 0
      BY <1>2, <3>2
    <3> QED
      BY <3>1, <3>2
  <2>2. who \in {Nowhere, Seated(k)} /\ (who # Nowhere => d.key[k] = who)
    <3>1. CASE k = 0
      BY <1>1, <3>1 DEF RosterOK, Places
    <3>2. CASE k # 0
      <4>1. k \in 1 .. d.players - 1
        BY <1>1, <1>6, <3>2, WireAssumption DEF RosterOK, Seat, Places
      <4> QED
        BY <1>1, <3>2, <4>1 DEF RosterOK
    <3> QED
      BY <3>1, <3>2
  <2>3. Seated(k) \in Machine \cup {Nowhere}
    BY HostIsOne DEF Seated, WireTyped, Row
  <2>4. /\ r \in Row /\ r.tunnel = q.tunnel /\ r.session = q.session
        /\ r.who = IF q.who = Nowhere THEN who ELSE q.who
        /\ r.key \in {q.key, who}
    <3> HIDE DEF q, who, Met
    <3> QED
      BY <2>1, <2>2, <2>3, FilledRow
  <2>5. Learns(m, k, r)
    <3> HIDE DEF q, who, r, Met
    <3> QED
      BY <1>2, <1>3, <2>1, <2>2, <2>4 DEF Learns, Stands
  <2> QED
    BY <1>6, <2>5
<1> QED
  BY <1>4, <1>5, <1>6

LEMMA SeatNumbers == Unplaced \in Nat /\ \A k \in Seat : k \in Nat /\ k < Unplaced
<1>1. MaxPlayers \in Nat /\ MaxPlayers <= 255
  BY WireAssumption
<1> QED
  BY <1>1 DEF Unplaced, Seat

\* Two seats with one face are one seat.
LEMMA OneSeat ==
    ASSUME Places, NEW i \in Seat, NEW k \in Seat, Seated(i) = Seated(k), Seated(i) # Nowhere
    PROVE  i = k
  BY DEF Places

LEMMA RosterStep ==
    ASSUME Met, NEW d \in net, TakeRoster(d)
    PROVE  StillMet
<1> USE DEF Met
<1>1. /\ SentOK(d) /\ d.kind = "roster" /\ d.to \in Machine /\ d.to # Host /\ d.from = Host
      /\ RosterOK(d) /\ d.seat \in Seat /\ d.seat # 0
  <2>1. SentOK(d) /\ d.kind = "roster" /\ d.to # Host
    BY DEF AllSent, TakeRoster, Hosting
  <2>2. RosterOK(d) /\ d.to \in Machine
    BY <2>1 DEF SentOK
  <2> QED
    BY <2>1, <2>2, WireAssumption DEF RosterOK, Seat, Places
<1> DEFINE m == d.to
           q(i, k) == IF k = i THEN [peer[m][i] EXCEPT !.session = Open(@, d.counter, TRUE)]
                      ELSE peer[m][k]
           F(i) == [k \in Seat |->
                      IF k = d.seat THEN [peer[m][k] EXCEPT !.who = m]
                      ELSE IF k >= d.players THEN peer[m][k]
                      ELSE Filled(q(i, k), IF k = 0 THEN Host ELSE d.who[k], d.key[k])]
           T == F(0)
           now == \A k \in 0 .. d.players - 1 : Known(T[k])
<1>2. SeatOf(m, Host) = {0}
  <2>1. ASSUME NEW i \in Seat, peer[m][i].who = Host PROVE i = 0
    <3>1. Seated(i) = Host /\ Seated(0) = Host
      BY <1>1, <2>1, HostIsOne DEF RowsSound, RowSound, Places
    <3> QED
      BY <3>1, HostIsOne, OneSeat
  <2> QED
    BY <1>1, <2>1, HostIsOne DEF SeatOf, RowsSound, RowSound
<1>3. /\ d.tunnel = peer[m][0].tunnel
      /\ peer' = [peer EXCEPT ![m] = T]
      /\ local' = [local EXCEPT ![m] = d.seat]
      /\ players' = [players EXCEPT ![m] = d.players]
      /\ Decide(m, T, d.seat, d.players, now)
      /\ UNCHANGED net
  <2>1. PICK i \in SeatOf(d.to, d.from) :
          /\ d.tunnel = peer[m][i].tunnel
          /\ peer' = [peer EXCEPT ![m] = F(i)]
          /\ local' = [local EXCEPT ![m] = d.seat]
          /\ players' = [players EXCEPT ![m] = d.players]
          /\ Decide(m, F(i), d.seat, d.players, \A k \in 0 .. d.players - 1 : Known(F(i)[k]))
          /\ UNCHANGED net
    BY DEF TakeRoster
  <2> HIDE DEF F
  <2>2. i = 0
    BY <1>1, <1>2
  <2> QED
    BY <2>1, <2>2
<1>4. \A k \in Seat : Learns(m, k, T[k])
  <2> TAKE k \in Seat
  <2>1. T[k] = IF k = d.seat THEN [peer[m][k] EXCEPT !.who = m]
               ELSE IF k >= d.players THEN peer[m][k]
               ELSE Filled(q(0, k), IF k = 0 THEN Host ELSE d.who[k], d.key[k])
    OBVIOUS
  <2> HIDE DEF T, Met
  <2> QED
    BY <1>1, <1>3, <2>1, RosterRow
<1>5. T[d.seat].who = m
  BY <1>1 DEF WireTyped, Row
<1> HIDE DEF T, now, q, F
<1>6. /\ T \in [Seat -> Row]
      /\ peer' \in [Machine -> [Seat -> Row]]
      /\ \A k \in Seat : peer'[m][k] = T[k]
      /\ \A j \in Machine, k \in Seat : j # m => peer'[j][k] = peer[j][k]
  <2>1. T \in [Seat -> Row]
    <3>1. \A k \in Seat : T[k] \in Row
      BY <1>4 DEF Learns
    <3>2. T = [k \in Seat |-> T[k]]
      BY DEF T, F
    <3> QED
      BY <3>1, <3>2
  <2> QED
    BY <1>1, <1>3, <2>1 DEF WireTyped
<1>7. Standing
  <2>1. \A p \in Row : Stands(p, p)
    BY DEF Stands, Row, Session
  <2>2. ASSUME NEW j \in Machine, NEW k \in Seat PROVE Stands(peer[j][k], peer'[j][k])
    BY <1>4, <1>6, <2>1 DEF Learns, WireTyped
  <2> QED
    BY <2>2 DEF Standing
<1>8. \A k \in Seat : Seated(k)' = Seated(k)
  BY <1>1, <1>6, HostIsOne DEF Seated
<1>9. \A j \in Machine : local[j] # Unplaced => local'[j] = local[j]
  <2>1. ASSUME local[m] # Unplaced PROVE local[m] = d.seat
    <3>1. local[m] \in Seat /\ Seated(local[m]) = m /\ Seated(d.seat) = m /\ m # Nowhere
      BY <1>1, <2>1, HostIsOne DEF WireTyped, Places, RosterOK
    <3> QED
      BY <1>1, <3>1, OneSeat
  <2> QED
    BY <1>1, <1>3, <2>1 DEF WireTyped
<1>10. players'[Host] = players[Host] /\ \A j \in Machine : players[j] # 0 => players'[j] = players[j]
  BY <1>1, <1>3, HostIsOne DEF WireTyped, Places, RosterOK
<1>11. Places'
  <2>1. players'[Host] \in 2 .. MaxPlayers /\ \A j \in Machine : players'[j] \in {0, players'[Host]}
    BY <1>1, <1>3, <1>10 DEF WireTyped, Places, RosterOK
  <2>2. /\ Seated(0)' = Host
        /\ \A i, k \in Seat : i # k /\ Seated(i)' # Nowhere => Seated(i)' # Seated(k)'
    BY <1>8, HostIsOne DEF Places
  <2>3. local'[Host] = 0
    BY <1>1, <1>3, HostIsOne DEF WireTyped, Places
  <2>4. ASSUME NEW j \in Machine, local'[j] # Unplaced PROVE peer'[Host][local'[j]].who = j
    <3>1. CASE j = m
      <4>1. local'[j] = d.seat /\ Seated(d.seat) = m
        BY <1>1, <1>3, <3>1 DEF WireTyped, RosterOK
      <4> QED
        BY <1>1, <1>8, <3>1, <4>1 DEF Seated
    <3>2. CASE j # m
      <4>1. local'[j] = local[j]
        BY <1>1, <1>3, <3>2 DEF WireTyped
      <4>2. local[j] \in Seat /\ Seated(local[j]) = j
        BY <2>4, <4>1 DEF WireTyped, Places
      <4> QED
        BY <1>8, <4>1, <4>2 DEF Seated
    <3> QED
      BY <3>1, <3>2
  <2> QED
    BY <2>1, <2>2, <2>3, <2>4 DEF Places, Seated
<1>12. \A j \in Machine, k \in Seat : peer'[j][k].tunnel = peer[j][k].tunnel
  BY <1>4, <1>6 DEF Learns
<1>13. ASSUME NEW j \in Machine, NEW k \in Seat PROVE RowSound(j, k)'
  <2>1. RowSound(j, k)
    BY DEF RowsSound
  <2>2. CASE j # m
    <3>1. peer'[j][k] = peer[j][k] /\ local'[j] = local[j]
      BY <1>1, <1>3, <1>6, <2>2 DEF WireTyped
    <3> QED
      BY <1>8, <2>1, <3>1 DEF RowSound
  <2>3. CASE j = m
    <3>1. Learns(m, k, peer'[m][k])
      BY <1>4, <1>6
    <3>2. local'[m] # Unplaced
      BY <1>1, <1>3, WireAssumption DEF WireTyped, Seat, Unplaced
    <3>3. ASSUME peer'[m][k].who \in {Nowhere, m} PROVE peer'[m][k].tunnel = <<>>
      BY <2>1, <2>3, <3>1, <3>3 DEF RowSound, Learns, Stands
    <3>4. k = 0 => peer'[m][k].who = Host
      BY <2>1, <2>3, <3>1, HostIsOne DEF RowSound, Learns, Stands
    <3> QED
      BY <1>1, <1>8, <2>3, <3>1, <3>2, <3>3, <3>4 DEF RowSound, Learns, Hosting
  <2> QED
    BY <2>2, <2>3
<1>14. ASSUME NEW j \in Machine, NEW k \in Seat PROVE Paired(j, k)'
  <2>1. SUFFICES ASSUME peer'[j][k].tunnel # <<>>, local'[j] > k
                 PROVE  \E e \in Seat : /\ peer'[peer'[j][k].who][e].who = j
                                        /\ peer'[peer'[j][k].who][e].tunnel = peer'[j][k].tunnel
    BY DEF Paired
  <2> DEFINE far == peer[j][k].who
  <2>2. peer[j][k].tunnel # <<>> /\ far # Nowhere
    BY <1>12, <2>1 DEF RowsSound, RowSound
  <2>3. peer'[j][k].who = far /\ far \in Machine
    BY <1>7, <2>2 DEF Standing, Stands, WireTyped, Row
  <2>4. local[j] > k
    <3>1. CASE local[j] = Unplaced
      BY <3>1, WireAssumption DEF Unplaced, Seat
    <3>2. CASE local[j] # Unplaced
      BY <1>9, <2>1, <3>2
    <3> QED
      BY <3>1, <3>2
  <2>5. PICK e \in Seat : peer[far][e].who = j /\ peer[far][e].tunnel = peer[j][k].tunnel
    BY <2>2, <2>4 DEF AllPaired, Paired
  <2>6. peer'[far][e].who = j /\ peer'[far][e].tunnel = peer'[j][k].tunnel
    BY <1>7, <1>12, <2>3, <2>5, HostIsOne DEF Standing, Stands
  <2> QED
    BY <2>3, <2>6
<1>15. WireTyped'
  <2>1. SettledReady(m, T, d.seat, d.players, now) \in BOOLEAN /\ now \in BOOLEAN
    BY DEF SettledReady, now
  <2>2. d.players \in Nat
    BY <1>1 DEF RosterOK, WireTyped, Places
  <2> QED
    BY <1>1, <1>3, <1>6, <2>1, <2>2 DEF WireTyped, Decide
<1>16. AllSent'
  <2>1. ASSUME NEW a \in net PROVE SentOK(a)'
    <3>1. SentOK(a)
      BY DEF AllSent
    <3> QED
      BY <1>7, <1>10, <3>1, SentStill
  <2> QED
    BY <1>3, <2>1 DEF AllSent
<1>17. local'[m] = d.seat /\ players'[m] = d.players /\ peer'[m] = T
  BY <1>1, <1>3 DEF WireTyped
<1>18. Decide(m, peer'[m], local'[m], players'[m], now)
  BY <1>3, <1>17
<1>19. ~(players'[m] = 0 \/ local'[m] >= players'[m])
  BY <1>1, <1>17, WireAssumption DEF RosterOK, Places
<1>20. ReadyIsWhole'
  <2>1. now \in BOOLEAN /\ RowsSound'
    BY <1>13 DEF now, RowsSound
  <2> HIDE DEF Met
  <2> QED
    BY <1>1, <1>7, <1>9, <1>10, <1>11, <1>15, <1>18, <1>19, <2>1, StillWhole
<1>21. \A j \in Machine : ready[j] => ready'[j]
  <2>1. ASSUME ready[m], NEW k \in 0 .. d.players - 1 PROVE Known(T[k])
    <3>1. players[m] = d.players /\ k \in Seat
      BY <1>1, <2>1, WireAssumption DEF ReadyIsWhole, RosterOK, Places, Seat
    <3>2. CASE k = d.seat
      BY <1>1, <1>5, <3>2, HostIsOne DEF Known
    <3>3. CASE k # d.seat
      <4>1. local[m] = d.seat
        <5>1. local[m] # Unplaced
          BY <1>1, <2>1, <3>1, WireAssumption DEF ReadyIsWhole, RosterOK, Places, Unplaced
        <5> QED
          BY <1>1, <1>9, <1>17, <5>1
      <4>2. peer[m][k].tunnel # <<>>
        BY <1>1, <2>1, <3>1, <3>3, <4>1 DEF ReadyIsWhole, Established
      <4>3. peer[m][k].who # Nowhere
        BY <1>1, <3>1, <4>2 DEF RowsSound, RowSound
      <4> QED
        BY <1>1, <1>4, <3>1, <4>3 DEF Learns, Stands, Known
    <3> QED
      BY <3>2, <3>3
  <2>2. ready[m] => now
    BY <2>1 DEF now
  <2> QED
    BY <1>1, <1>3, <2>2 DEF Decide, WireTyped
<1> QED
  BY <1>7, <1>9, <1>11, <1>13, <1>14, <1>15, <1>16, <1>20, <1>21
     DEF StillMet, RowsSound, AllPaired

\* gs_seat_new and the rosters behind it (gs_take_knock).
LEMMA KnockStep ==
    ASSUME Met, NEW d \in net, Knock(d)
    PROVE  StillMet
<1> USE DEF Met
<1> DEFINE n == players[Host]
<1>1. /\ d.to = Host /\ d.from \in Machine /\ d.from # Host /\ d.e \in Nat
      /\ \A k \in Seat : Seated(k) # d.from
  <2>1. d.to = Host /\ SentOK(d) /\ d.kind = "greet"
    BY DEF Knock, Hosting, AllSent
  <2>2. \A k \in Seat : Seated(k) # d.from
    BY <2>1 DEF Knock, SeatOf, Seated
  <2> QED
    BY <2>1, <2>2 DEF SentOK, GreetOK
<1> DEFINE R(m, i) == [peer[m] EXCEPT ![i] =
                         [Answered(@, d) EXCEPT !.who = d.from, !.key = d.from]]
           S(i)   == R(Host, i)
           new(i) == {Answer(Host, d.from, d.e, S(i)[i].made)}
                        \cup {Roster(n, S(i), k) : k \in Told(n, S(i))}
<1>2. PICK i \in 1 .. n - 1 :
        /\ ~Known(peer[Host][i])
        /\ peer' = [peer EXCEPT ![Host] = AfterRosters(n, S(i))]
        /\ net' = net \cup new(i)
        /\ Decide(Host, AfterRosters(n, S(i)), local[Host], n,
                  Cardinality({k \in Seat : Known(AfterRosters(n, S(i))[k])}) = n)
        /\ UNCHANGED <<local, players>>
  <2> DEFINE m == d.to
  <2>1. PICK i \in 1 .. players[m] - 1 :
          /\ ~Known(peer[m][i])
          /\ peer' = [peer EXCEPT ![m] = AfterRosters(players[m], R(m, i))]
          /\ net' = net \cup {Answer(m, d.from, d.e, R(m, i)[i].made)}
                          \cup {Roster(players[m], R(m, i), k) : k \in Told(players[m], R(m, i))}
          /\ Decide(m, AfterRosters(players[m], R(m, i)), local[m], players[m],
                    Cardinality({k \in Seat : Known(AfterRosters(players[m], R(m, i))[k])})
                      = players[m])
          /\ UNCHANGED <<local, players>>
    BY DEF Knock
  <2> HIDE DEF R
  <2>2. m = Host
    BY <1>1
  <2> HIDE DEF m
  <2> QED
    BY <2>1, <2>2
<1>3. /\ i \in Seat /\ i # 0 /\ n \in 2 .. MaxPlayers
      /\ peer[Host][i] \in Row /\ peer[Host][i].who = Nowhere /\ peer[Host][i].tunnel = <<>>
      /\ \A k \in 1 .. n - 1 : k \in Seat
  <2>1. i \in Seat /\ i # 0 /\ n \in 2 .. MaxPlayers /\ \A k \in 1 .. n - 1 : k \in Seat
    BY WireAssumption DEF Places, Seat
  <2> QED
    BY <1>2, <2>1, HostIsOne DEF Known, WireTyped, RowsSound, RowSound
<1> DEFINE seated == S(i)
           table  == AfterRosters(n, seated)
           p      == peer[Host][i]
<1>4. \A k \in Seat : seated[k] = IF k = i THEN [Answered(p, d) EXCEPT !.who = d.from, !.key = d.from]
                                  ELSE peer[Host][k]
  BY <1>3, HostIsOne DEF WireTyped
<1>5. /\ seated[i] \in Row /\ seated[i].who = d.from /\ seated[i].key = d.from
      /\ seated[i].tunnel = <<d.e, p.made + 1>> /\ seated[i].tunnel # <<>>
      /\ seated[i].made = p.made + 1
  <2>1. /\ Answered(p, d) \in Row
        /\ Answered(p, d).tunnel = <<d.e, p.made + 1>> /\ Answered(p, d).tunnel # <<>>
    BY <1>1, <1>3, AnsweredRow
  <2>2. Answered(p, d).made = p.made + 1
    BY <1>3 DEF Answered, Row
  <2>3. seated[i] = [Answered(p, d) EXCEPT !.who = d.from, !.key = d.from]
    BY <1>3, <1>4
  <2> HIDE DEF seated
  <2> QED
    BY <1>1, <2>1, <2>2, <2>3 DEF Row
<1> HIDE DEF S
<1>6. ASSUME NEW k \in Seat
      PROVE  /\ seated[k] \in Row /\ table[k] \in Row
             /\ table[k].who = seated[k].who /\ table[k].key = seated[k].key
             /\ table[k].tunnel = seated[k].tunnel
             /\ table[k].session.n >= seated[k].session.n
             /\ seated[k].session.started => table[k].session.started
  <2>1. seated[k] \in Row
    BY <1>4, <1>5, HostIsOne DEF WireTyped
  <2>2. /\ Sealed(seated[k].session) \in Session
        /\ Sealed(seated[k].session).n = seated[k].session.n + 1
        /\ Sealed(seated[k].session).started = seated[k].session.started
        /\ seated[k].session.n \in Nat
    BY <2>1, SessionKept DEF Row, Session
  <2>3. \/ table[k] = seated[k]
        \/ table[k] = [seated[k] EXCEPT !.session = Sealed(@)]
    BY DEF AfterRosters
  <2> HIDE DEF table, seated
  <2> QED
    BY <2>1, <2>2, <2>3 DEF Row
<1>7. /\ table \in [Seat -> Row]
      /\ peer' = [peer EXCEPT ![Host] = table]
      /\ peer' \in [Machine -> [Seat -> Row]]
      /\ \A k \in Seat : peer'[Host][k] = table[k]
      /\ \A j \in Machine, k \in Seat : j # Host => peer'[j][k] = peer[j][k]
  <2>1. table \in [Seat -> Row]
    <3>1. \A k \in Seat : table[k] \in Row
      BY <1>6
    <3>2. table = [k \in Seat |-> table[k]]
      BY DEF AfterRosters
    <3> HIDE DEF table
    <3> QED
      BY <3>1, <3>2
  <2> HIDE DEF table
  <2>2. peer' = [peer EXCEPT ![Host] = table]
    BY <1>2 DEF table
  <2> QED
    BY <2>1, <2>2, HostIsOne DEF WireTyped
<1> HIDE DEF table, seated
<1>8. ASSUME NEW j \in Machine, NEW k \in Seat PROVE Stands(peer[j][k], peer'[j][k])
  <2>1. \A r \in Row : Stands(r, r)
    BY DEF Stands, Row, Session
  <2>2. CASE j # Host
    BY <1>7, <2>1, <2>2 DEF WireTyped
  <2>3. CASE j = Host /\ k # i
    <3>1. seated[k] = peer[Host][k] /\ peer'[j][k] = table[k]
      BY <1>4, <1>7, <2>3
    <3> QED
      BY <1>6, <2>3, <3>1 DEF Stands
  <2>4. CASE j = Host /\ k = i
    BY <1>3, <2>4 DEF Stands
  <2> QED
    BY <2>2, <2>3, <2>4
<1>9. Standing
  BY <1>8 DEF Standing
<1>10. ASSUME NEW k \in Seat
       PROVE  /\ Seated(k)' = IF k = i THEN d.from ELSE Seated(k)
              /\ seated[k].who = Seated(k)'
              /\ peer'[Host][k].key = IF k = i THEN d.from ELSE peer[Host][k].key
              /\ seated[k].key = peer'[Host][k].key
              /\ seated[k].tunnel = peer'[Host][k].tunnel
  BY <1>4, <1>5, <1>6, <1>7 DEF Seated
<1>11. Places'
  <2>1. /\ Seated(0)' = Host
        /\ \A e, k \in Seat : e # k /\ Seated(e)' # Nowhere => Seated(e)' # Seated(k)'
    <3>1. Seated(0)' = Host
      BY <1>3, <1>10, HostIsOne DEF Places
    <3>2. ASSUME NEW e \in Seat, NEW k \in Seat, e # k, Seated(e)' # Nowhere
          PROVE  Seated(e)' # Seated(k)'
      BY <1>1, <1>10, <3>2 DEF Places
    <3> QED
      BY <3>1, <3>2
  <2>2. ASSUME NEW j \in Machine, local[j] # Unplaced PROVE peer'[Host][local[j]].who = j
    <3>1. local[j] \in Seat /\ Seated(local[j]) = j /\ j # Nowhere
      BY <2>2, HostIsOne DEF WireTyped, Places
    <3>2. local[j] # i
      BY <1>3, <3>1 DEF Seated
    <3> QED
      BY <1>10, <3>1, <3>2 DEF Seated
  <2> QED
    BY <1>2, <2>1, <2>2 DEF Places, Seated
<1>12. ASSUME NEW j \in Machine, NEW k \in Seat PROVE RowSound(j, k)'
  <2>1. RowSound(j, k) /\ RowSound(Host, k)
    BY HostIsOne DEF RowsSound
  <2>2. CASE j # Host
    <3>1. peer'[j][k] = peer[j][k]
      BY <1>7, <2>2
    <3>2. Seated(k) # Nowhere => Seated(k)' = Seated(k)
      BY <1>3, <1>10 DEF Seated
    <3> QED
      BY <1>2, <2>1, <2>2, <3>1, <3>2 DEF RowSound, Hosting
  <2>3. CASE j = Host /\ k = i
    <3>1. peer'[Host][k].who = d.from /\ peer'[Host][k].key = d.from /\ Seated(k)' = d.from
      BY <1>10, <2>3 DEF Seated
    <3>2. local'[Host] # Unplaced
      BY <1>11, WireAssumption DEF Places, Unplaced
    <3> QED
      BY <1>1, <1>3, <2>3, <3>1, <3>2, HostIsOne DEF RowSound
  <2>4. CASE j = Host /\ k # i
    <3>1. /\ peer'[Host][k].who = peer[Host][k].who /\ peer'[Host][k].key = peer[Host][k].key
          /\ peer'[Host][k].tunnel = peer[Host][k].tunnel /\ Seated(k)' = Seated(k)
      BY <1>4, <1>10, <2>4 DEF Seated
    <3> QED
      BY <1>2, <2>1, <2>4, <3>1 DEF RowSound, Hosting
  <2> QED
    BY <2>2, <2>3, <2>4
<1>13. ASSUME NEW j \in Machine, NEW k \in Seat PROVE Paired(j, k)'
  <2>1. SUFFICES ASSUME peer'[j][k].tunnel # <<>>, local'[j] > k
                 PROVE  \E e \in Seat : /\ peer'[peer'[j][k].who][e].who = j
                                        /\ peer'[peer'[j][k].who][e].tunnel = peer'[j][k].tunnel
    BY DEF Paired
  <2>2. j # Host
    BY <1>2, <2>1 DEF Places, Seat
  <2>3. peer'[j][k] = peer[j][k] /\ peer[j][k].tunnel # <<>> /\ peer[j][k].who # Nowhere
    BY <1>7, <2>1, <2>2 DEF RowsSound, RowSound
  <2>4. peer[j][k].who \in Machine
    BY <2>3 DEF WireTyped, Row
  <2>5. PICK e \in Seat : /\ peer[peer[j][k].who][e].who = j
                          /\ peer[peer[j][k].who][e].tunnel = peer[j][k].tunnel
    BY <1>2, <2>1, <2>3 DEF AllPaired, Paired
  <2>6. Stands(peer[peer[j][k].who][e], peer'[peer[j][k].who][e])
    BY <1>8, <2>4
  <2> QED
    BY <2>3, <2>5, <2>6, HostIsOne DEF Stands
<1>14. ASSUME NEW a \in new(i) PROVE SentOK(a)'
  <2>1. CASE a = Answer(Host, d.from, d.e, seated[i].made)
    <3>1. a.kind = "answer" /\ a.from = Host /\ a.to = d.from /\ a.tunnel = <<d.e, p.made + 1>>
      BY <1>5, <2>1 DEF Answer
    <3>2. AnswerOK(a)'
      BY <1>3, <1>5, <1>10, <3>1 DEF AnswerOK, Seated
    <3> QED
      BY <1>1, <3>1, <3>2, HostIsOne DEF SentOK
  <2>2. ASSUME NEW k \in Told(n, seated), a = Roster(n, seated, k) PROVE SentOK(a)'
    <3>1. k \in 1 .. n - 1 /\ k \in Seat /\ seated[k].tunnel # <<>>
      BY <1>3 DEF Told, Established
    <3>2. /\ a.kind = "roster" /\ a.from = Host /\ a.to = seated[k].who
          /\ a.counter = seated[k].session.n /\ a.players = n /\ a.seat = k
          /\ a.who = [e \in 0 .. n - 1 |-> IF e = 0 THEN Nowhere ELSE seated[e].who]
          /\ a.key = [e \in 0 .. n - 1 |-> IF e = 0 THEN Host
                                          ELSE IF Known(seated[e]) THEN seated[e].key ELSE Zeroes]
      BY <2>2 DEF Roster
    <3>3. RowSound(Host, k)' /\ seated[k] \in Row
      BY <1>6, <1>12, <3>1, HostIsOne
    <3>4. a.to \in Machine /\ a.to = Seated(k)' /\ a.counter \in Nat
      <4>1. seated[k].who # Nowhere
        BY <1>10, <3>1, <3>3 DEF RowSound, Seated
      <4> QED
        BY <1>10, <3>1, <3>2, <3>3, <4>1 DEF Row, Session
    <3>5. ASSUME NEW e \in 1 .. n - 1, a.who[e] # Nowhere
          PROVE  a.who[e] = Seated(e)' /\ a.key[e] = Seated(e)'
      <4>1. e \in Seat /\ e # 0 /\ e \in 0 .. n - 1
        BY <1>3
      <4>2. a.who[e] = seated[e].who
        BY <3>2, <4>1
      <4>3. a.key[e] = seated[e].key
        BY <3>2, <3>5, <4>1, <4>2 DEF Known
      <4>4. RowSound(Host, e)'
        BY <1>12, <4>1, HostIsOne
      <4> QED
        BY <1>10, <4>1, <4>2, <4>3, <4>4 DEF RowSound, Hosting, Seated
    <3>6. a.key[0] = Host
      BY <1>3, <3>2
    <3>7. RosterOK(a)'
      <4>1. a.to = Seated(a.seat)'
        BY <3>2, <3>4 DEF Seated
      <4> QED
        BY <1>2, <3>1, <3>2, <3>4, <3>5, <3>6, <4>1 DEF RosterOK
    <3> QED
      BY <3>2, <3>4, <3>7, HostIsOne DEF SentOK
  <2> QED
    BY <2>1, <2>2 DEF seated
<1>15. AllSent'
  <2>1. ASSUME NEW a \in net PROVE SentOK(a)'
    <3>1. SentOK(a)
      BY DEF AllSent
    <3> QED
      BY <1>2, <1>9, <3>1, SentStill
  <2> HIDE DEF new
  <2> QED
    BY <1>2, <1>14, <2>1 DEF AllSent
<1> DEFINE now == Cardinality({k \in Seat : Known(table[k])}) = n
<1>16. now \in BOOLEAN /\ Decide(Host, peer'[Host], local'[Host], players'[Host], now)
  <2>1. peer'[Host] = table
    BY <1>7, HostIsOne DEF WireTyped
  <2> QED
    BY <1>2, <2>1 DEF table, seated
<1> HIDE DEF now
<1>17. WireTyped'
  <2>1. SettledReady(Host, peer'[Host], local'[Host], players'[Host], now) \in BOOLEAN
    BY <1>16 DEF SettledReady
  <2> QED
    BY <1>2, <1>7, <1>16, <2>1 DEF WireTyped, Decide
<1>18. ~ready[Host]
  BY <1>2, <1>3, HostIsOne DEF ReadyIsWhole, Seated, Known
<1>19. ~(players'[Host] = 0 \/ local'[Host] >= players'[Host])
  BY <1>2, <1>3, WireAssumption DEF Places
<1>20. ReadyIsWhole'
  <2>1. RowsSound'
    BY <1>12 DEF RowsSound
  <2>2. \A j \in Machine : local'[j] = local[j] /\ players'[j] = players[j]
    BY <1>2
  <2> HIDE DEF Met
  <2> QED
    BY <1>9, <1>11, <1>16, <1>17, <1>19, <2>1, <2>2, HostIsOne, StillWhole
<1>21. \A j \in Machine : ready[j] => ready'[j]
  BY <1>2, <1>18 DEF Decide, WireTyped
<1> QED
  BY <1>2, <1>9, <1>11, <1>12, <1>13, <1>15, <1>17, <1>20, <1>21
     DEF StillMet, RowsSound, AllPaired

-----------------------------------------------------------------------------
LEMMA MetAtFirst == WireInit => Met
<1> SUFFICES ASSUME WireInit PROVE Met
  OBVIOUS
<1>1. Stranger \in Row /\ [Stranger EXCEPT !.who = Host] \in Row
      /\ [Stranger EXCEPT !.who = Host, !.key = Host] \in Row
  BY HostIsOne DEF Stranger, Row, Session, Split
<1>2. PICK n \in 2 .. MaxPlayers : players = [m \in Machine |-> IF Hosting(m) THEN n ELSE 0]
  BY DEF WireInit
<1>3. \A m \in Machine, i \in Seat :
        peer[m][i] = IF i # 0 THEN Stranger
                     ELSE IF Hosting(m) THEN [Stranger EXCEPT !.who = Host]
                     ELSE [Stranger EXCEPT !.who = Host, !.key = Host]
  BY DEF WireInit
<1>4. \A m \in Machine, i \in Seat :
        /\ peer[m][i].who = (IF i = 0 THEN Host ELSE Nowhere)
        /\ peer[m][i].key = (IF i = 0 /\ ~Hosting(m) THEN Host ELSE Nowhere)
        /\ peer[m][i].tunnel = <<>>
  <2>1. LET p == [Stranger EXCEPT !.who = Host, !.key = Host]
        IN  p.who = Host /\ p.key = Host /\ p.tunnel = <<>>
    BY DEF Stranger
  <2>2. LET p == [Stranger EXCEPT !.who = Host]
        IN  p.who = Host /\ p.key = Nowhere /\ p.tunnel = <<>>
    BY DEF Stranger
  <2>3. Stranger.who = Nowhere /\ Stranger.key = Nowhere /\ Stranger.tunnel = <<>>
    BY DEF Stranger
  <2> TAKE m \in Machine, i \in Seat
  <2>4. CASE i # 0
    BY <1>3, <2>3, <2>4
  <2>5. CASE i = 0 /\ Hosting(m)
    BY <1>3, <2>2, <2>5
  <2>6. CASE i = 0 /\ ~Hosting(m)
    BY <1>3, <2>1, <2>6
  <2> QED
    BY <2>4, <2>5, <2>6
<1>5. WireTyped
  <2>1. peer \in [Machine -> [Seat -> Row]]
    BY <1>1 DEF WireInit
  <2>2. players \in [Machine -> Nat]
    BY <1>2, WireAssumption
  <2> QED
    BY <2>1, <2>2, HostIsOne DEF WireTyped, WireInit
<1>6. \A k \in Seat : Seated(k) = IF k = 0 THEN Host ELSE Nowhere
  BY <1>4, HostIsOne DEF Seated
<1>7. Places
  <2>1. players[Host] \in 2 .. MaxPlayers /\ \A m \in Machine : players[m] \in {0, players[Host]}
    BY <1>2, HostIsOne DEF Hosting
  <2>2. local[Host] = 0 /\ \A m \in Machine : local[m] # Unplaced => m = Host /\ local[m] = 0
    BY HostIsOne DEF WireInit, Hosting
  <2>3. Seated(0) = Host
    BY <1>6, HostIsOne
  <2>4. \A i, k \in Seat : i # k /\ Seated(i) # Nowhere => Seated(i) # Seated(k)
    BY <1>6, HostIsOne
  <2> QED
    BY <2>1, <2>2, <2>3, <2>4 DEF Places
<1>8. RowsSound /\ AllPaired
  BY <1>4, <1>6, HostIsOne DEF RowsSound, RowSound, AllPaired, Paired, Hosting
<1>9. AllSent /\ ReadyIsWhole
  BY DEF WireInit, AllSent, ReadyIsWhole
<1> QED
  BY <1>5, <1>7, <1>8, <1>9 DEF Met

LEMMA MetStep ==
    ASSUME Met, [WireNext]_wireVars
    PROVE  StillMet
<1>1. CASE UNCHANGED wireVars
  <2>1. Met'
    <3> USE <1>1 DEF wireVars
    <3>1. WireTyped' /\ Places' /\ RowsSound' /\ AllPaired'
      BY DEF Met, WireTyped, Places, RowsSound, RowSound, AllPaired, Paired, Seated
    <3>2. AllSent' /\ ReadyIsWhole'
      BY DEF Met, AllSent, SentOK, GreetOK, AnswerOK, RosterOK, ReadyIsWhole, Seated
    <3> QED
      BY <3>1, <3>2 DEF Met
  <2>2. \A p \in Row : Stands(p, p)
    BY DEF Stands, Row, Session
  <2>3. Standing
    BY <1>1, <2>2 DEF wireVars, Standing, Met, WireTyped
  <2> QED
    BY <1>1, <2>1, <2>3 DEF wireVars, StillMet
<1>2. ASSUME NEW m \in Machine, Hello(m) \/ GreetAll(m) PROVE StillMet
  <2>1. {0} \in SUBSET Seat
    BY HostIsOne
  <2>2. GreetIn(m, {0}) \/ GreetIn(m, Seat)
    BY <1>2 DEF Hello, GreetAll
  <2> QED
    BY <2>1, <2>2, GreetStep
<1>3. ASSUME NEW d \in net, TakeIn(d) PROVE StillMet
  BY <1>3, KnockStep, AnswerStep, FinishStep, RosterStep DEF TakeIn
<1> QED
  BY <1>1, <1>2, <1>3 DEF WireNext

LEMMA MetInductive == WireSpec => []Met
<1>1. Met /\ [WireNext]_wireVars => Met'
  BY MetStep DEF StillMet
<1> QED
  BY <1>1, MetAtFirst, PTL DEF WireSpec

\* Nobody is in two seats and nobody takes one player for another, by address or by
\* key, whichever rosters were lost or came late (gs_wire.c: gs_take_knock,
\* gs_take_roster).
THEOREM EverybodyKnowsWho == WireSpec => []SeatsAgree
<1>1. Met => SeatsAgree
  BY DEF Met, SeatsAgree, Places, RowsSound, RowSound
<1> QED
  BY <1>1, MetInductive, PTL

\* The two ends of a tunnel have the same one, and who began the handshake never has
\* one alone (gs_take_peer_handshake).
THEOREM BothEndsOfATunnel == WireSpec => []TunnelsPair
<1>1. ASSUME Met PROVE TunnelsPair
  <2> USE <1>1 DEF Met
  <2> SUFFICES ASSUME NEW m \in Machine, NEW i \in Seat, peer[m][i].tunnel # <<>>
               PROVE  LET far == peer[peer[m][i].who]
                          me  == {k \in Seat : far[k].who = m}
                      IN  /\ \A k \in me : far[k].tunnel # <<>> => far[k].tunnel = peer[m][i].tunnel
                          /\ local[m] > i => \E k \in me : far[k].tunnel # <<>>
    BY DEF TunnelsPair, Established, WeInitiate
  <2> DEFINE b == peer[m][i].who
  <2>1. /\ b \in Machine /\ b # m /\ b = Seated(i) /\ m # Nowhere
        /\ local[m] \in Seat \cup {Unplaced} /\ local[b] \in Seat \cup {Unplaced}
    <3>1. RowSound(m, i) /\ m # Nowhere
      BY HostIsOne DEF RowsSound
    <3>2. b \notin {Nowhere, m} /\ b = Seated(i)
      BY <3>1 DEF RowSound
    <3>3. b \in Machine
      BY <3>2 DEF WireTyped, Row
    <3> QED
      BY <3>1, <3>2, <3>3 DEF WireTyped
  <2>2. Unplaced \in Nat /\ \A k \in Seat : k \in Nat /\ k < Unplaced
    BY SeatNumbers
  <2>3. ASSUME NEW k \in Seat, peer[b][k].who = m PROVE Seated(k) = m
    <3>1. RowSound(b, k)
      BY <2>1 DEF RowsSound
    <3> HIDE DEF b
    <3> QED
      BY <2>1, <2>3, <3>1 DEF RowSound
  <2>4. local[b] # Unplaced => local[b] = i
    <3>1. SUFFICES ASSUME local[b] # Unplaced PROVE local[b] = i
      OBVIOUS
    <3>2. local[b] \in Seat /\ Seated(local[b]) = b
      BY <2>1, <3>1 DEF Places
    <3> QED
      BY <2>1, <3>2, HostIsOne, OneSeat
  <2>5. ASSUME local[m] > i
        PROVE  \E k \in Seat : peer[b][k].who = m /\ peer[b][k].tunnel = peer[m][i].tunnel
    BY <2>5 DEF AllPaired, Paired
  <2>6. ASSUME NEW k \in Seat, peer[b][k].who = m, peer[b][k].tunnel # <<>>
        PROVE  peer[b][k].tunnel = peer[m][i].tunnel
    <3>1. CASE local[m] > i
      <4>1. PICK e \in Seat : peer[b][e].who = m /\ peer[b][e].tunnel = peer[m][i].tunnel
        BY <2>5, <3>1
      <4>2. Seated(e) = m /\ Seated(k) = m
        BY <2>3, <2>6, <4>1
      <4>3. e = k
        BY <2>1, <4>2, OneSeat
      <4> QED
        BY <4>1, <4>3
    <3>2. CASE ~(local[m] > i)
      <4>1. local[m] \in Seat /\ Seated(local[m]) = m
        BY <2>1, <2>2, <3>2 DEF Places
      <4>2. local[m] = k
        BY <2>1, <2>3, <2>6, <4>1, OneSeat
      <4>3. i # k
        BY <2>1, <4>1, <4>2
      <4>4. local[b] > k
        BY <2>1, <2>2, <2>4, <3>2, <4>2, <4>3
      <4>5. PICK e \in Seat : peer[m][e].who = b /\ peer[m][e].tunnel = peer[b][k].tunnel
        BY <2>1, <2>6, <4>4 DEF AllPaired, Paired
      <4>6. Seated(e) = b
        BY <2>1, <4>5, HostIsOne DEF RowsSound, RowSound
      <4>7. e = i
        BY <2>1, <4>6, HostIsOne, OneSeat
      <4> QED
        BY <4>5, <4>7
    <3> QED
      BY <3>1, <3>2
  <2> QED
    BY <2>5, <2>6
<1> QED
  BY <1>1, MetInductive, PTL

\* Everybody knows who sits where, and holds an end of the tunnel the other holds, as
\* long as they meet (gs_take_knock, gs_take_handshake and gs_take_roster, platform/gs_wire.c).
THEOREM WhoIsWhoAlways == WireSpec => []WhoIsWho
<1>1. SeatsAgree /\ TunnelsPair => WhoIsWho
  BY DEF WhoIsWho
<1> QED
  BY <1>1, EverybodyKnowsWho, BothEndsOfATunnel, PTL

\* A machine that may race has its seat, the host has filled every other, and the
\* tunnel to each is up (gs_settle_ready).
THEOREM NobodyIsReadyAlone == WireSpec => []ReadyIsWhole
<1>1. Met => ReadyIsWhole
  BY DEF Met
<1> QED
  BY <1>1, MetInductive, PTL

\* Nothing that arrives twice or late undoes a seat, a tunnel, what its window has
\* seen, or a machine's being ready (gs_wire_recv and its handlers).
THEOREM NothingIsUndone == WireSpec => WhatWorksStands
<1>1. ASSUME Met, [WireNext]_wireVars
      PROVE  [\A m \in Machine, i \in Seat :
                /\ Known(peer[m][i]) => peer'[m][i].who = peer[m][i].who
                /\ Established(peer[m][i]) =>
                      /\ peer'[m][i].tunnel = peer[m][i].tunnel
                      /\ peer'[m][i].session.n >= peer[m][i].session.n
                      /\ peer[m][i].session.started => peer'[m][i].session.started
                /\ local[m] # Unplaced => local'[m] = local[m]
                /\ ready[m] => ready'[m]]_wireVars
  BY <1>1, MetStep DEF StillMet, Standing, Stands, Known, Established
<1> QED
  BY <1>1, MetInductive, PTL DEF WireSpec, WhatWorksStands

-----------------------------------------------------------------------------
(* The tunnels                                                             *)

\* The receiver's window is the last Window counters of what it opened.
Tracks ==
    /\ receiver.started <=> Opened # {}
    /\ receiver.started => receiver.newest \in Opened
    /\ \A c \in Opened : c <= receiver.newest /\ c < sender.n
    /\ \A o \in 0 .. Window - 1 : o \in receiver.seen <=> receiver.newest - o \in Opened
    /\ sender.n <= MessageLimit

TunnelInv == TunnelTypeOK /\ Tracks

-----------------------------------------------------------------------------
\* Opening one more adds its counter to what was opened, and nothing else.
LEMMA AppendOpens ==
    ASSUME NEW s \in Seq(Nat), NEW c \in Nat
    PROVE  /\ Append(s, c) \in Seq(Nat)
           /\ {Append(s, c)[i] : i \in DOMAIN Append(s, c)}
                 = {s[i] : i \in DOMAIN s} \cup {c}
<1>1. Append(s, c) \in Seq(Nat)
  OBVIOUS
<1>2. /\ DOMAIN Append(s, c) = 1 .. Len(s) + 1
      /\ DOMAIN s = 1 .. Len(s)
      /\ Len(s) \in Nat
      /\ \A i \in 1 .. Len(s) : Append(s, c)[i] = s[i]
      /\ Append(s, c)[Len(s) + 1] = c
  OBVIOUS
<1>3. ASSUME NEW x PROVE x \in {Append(s, c)[i] : i \in DOMAIN Append(s, c)}
                            <=> x \in {s[i] : i \in DOMAIN s} \cup {c}
  <2>1. ASSUME NEW i \in DOMAIN Append(s, c), x = Append(s, c)[i]
        PROVE  x \in {s[j] : j \in DOMAIN s} \cup {c}
    <3>1. CASE i \in 1 .. Len(s)
      BY <1>2, <2>1, <3>1
    <3>2. CASE i = Len(s) + 1
      BY <1>2, <2>1, <3>2
    <3> QED BY <1>2, <3>1, <3>2
  <2>2. ASSUME NEW j \in DOMAIN s, x = s[j]
        PROVE  \E i \in DOMAIN Append(s, c) : x = Append(s, c)[i]
    BY <1>2, <2>2
  <2>3. \E i \in DOMAIN Append(s, c) : c = Append(s, c)[i]
    <3>1. Len(s) + 1 \in DOMAIN Append(s, c)
      BY <1>2
    <3> QED BY <1>2, <3>1
  <2> QED BY <2>1, <2>2, <2>3
<1> QED BY <1>1, <1>3

\* What recording a counter leaves of the window.
LEMMA RecordKeepsType ==
    ASSUME NEW s \in Session, NEW c \in Nat, WindowAllows(s, c)
    PROVE  /\ WindowRecord(s, c) \in Session
           /\ WindowRecord(s, c).n = s.n
           /\ WindowRecord(s, c).started
<1> USE NoiseAssumption DEF NoiseAssumption
<1> DEFINE moved == {o \in 0 .. Window - 1 : o - (c - s.newest) \in s.seen}
<1>0. 0 \in 0 .. Window - 1 /\ {0} \in SUBSET (0 .. Window - 1)
  OBVIOUS
<1>1. CASE ~s.started
  <2>1. WindowRecord(s, c) = [s EXCEPT !.started = TRUE, !.newest = c, !.seen = {0}]
    BY <1>1 DEF WindowRecord
  <2> QED BY <1>0, <2>1 DEF Session
<1>2. CASE s.started /\ c > s.newest
  <2>1. WindowRecord(s, c) = [s EXCEPT !.newest = c, !.seen = {0} \cup moved]
    BY <1>2 DEF WindowRecord
  <2>2. {0} \cup moved \in SUBSET (0 .. Window - 1)
    BY <1>0
  <2> HIDE DEF moved
  <2> QED BY <1>2, <2>1, <2>2 DEF Session
<1>3. CASE s.started /\ ~(c > s.newest)
  <2>1. s.newest - c \in 0 .. Window - 1
    BY <1>3 DEF WindowAllows, Session
  <2> QED BY <1>3, <2>1 DEF WindowRecord, Session
<1> QED BY <1>1, <1>2, <1>3

-----------------------------------------------------------------------------
LEMMA InitTracks == Init => TunnelInv
<1> SUFFICES ASSUME Init PROVE TunnelInv
  OBVIOUS
<1>1. opened = <<>> /\ Opened = {}
  BY DEF Init, Opened
<1>2. TunnelTypeOK
  BY <1>1, NoiseAssumption DEF NoiseAssumption, Init, TunnelTypeOK, Split, Session
<1>3. Tracks
  BY <1>1, NoiseAssumption DEF NoiseAssumption, Init, Tracks, Split
<1> QED BY <1>2, <1>3 DEF TunnelInv

LEMMA SealTracks == TunnelInv /\ Seal => TunnelInv'
<1> SUFFICES ASSUME TunnelInv, Seal PROVE TunnelInv'
  OBVIOUS
<1> USE NoiseAssumption DEF NoiseAssumption, TunnelInv
<1>1. sender.n \in Nat /\ sender.n < MessageLimit
  BY DEF Seal, MaySeal, TunnelTypeOK, Session
<1>2. sender' \in Session /\ sender'.n = sender.n + 1
  <2>1. sender' = [sender EXCEPT !.n = sender.n + 1] /\ sender \in Session
    BY DEF Seal, Sealed, TunnelTypeOK
  <2>2. sender.n + 1 \in Nat
    BY <1>1
  <2> QED BY <2>1, <2>2 DEF Session
<1>3. receiver' = receiver /\ opened' = opened /\ Opened' = Opened
  BY DEF Seal, Opened
<1>4. TunnelTypeOK'
  BY <1>2, <1>3 DEF TunnelTypeOK
<1>5. \A c \in Opened : c \in Nat
  BY DEF TunnelTypeOK, Opened
<1>6. Tracks'
  BY <1>1, <1>2, <1>3, <1>5 DEF Tracks
<1> QED BY <1>4, <1>6

\* The heart of it: a counter the window allows was not opened before, and once
\* recorded the window still is the end of the history.
LEMMA RecordTracks ==
    ASSUME TunnelInv, NEW c \in Nat, c < sender.n, WindowAllows(receiver, c),
           receiver' = WindowRecord(receiver, c),
           opened' = Append(opened, c), UNCHANGED sender
    PROVE  TunnelInv' /\ c \notin Opened
<1> USE NoiseAssumption DEF NoiseAssumption, TunnelInv
<1>1. /\ receiver \in Session /\ receiver.newest \in Nat
      /\ receiver.seen \subseteq 0 .. Window - 1 /\ receiver.started \in BOOLEAN
      /\ sender.n \in Nat
  BY DEF TunnelTypeOK, Session
<1>2. Opened' = Opened \cup {c} /\ opened' \in Seq(Nat)
  <2>1. opened \in Seq(Nat)
    BY DEF TunnelTypeOK
  <2>2. /\ opened' \in Seq(Nat)
        /\ {opened'[i] : i \in DOMAIN opened'} = {opened[i] : i \in DOMAIN opened} \cup {c}
    <3> DEFINE more == Append(opened, c)
    <3>1. /\ more \in Seq(Nat)
          /\ {more[i] : i \in DOMAIN more} = {opened[i] : i \in DOMAIN opened} \cup {c}
      BY <2>1, AppendOpens
    <3>2. opened' = more
      OBVIOUS
    <3> HIDE DEF more
    <3> QED BY <3>1, <3>2
  <2> QED BY <2>2 DEF Opened
<1>3. \A o \in Opened : o \in Nat
  BY DEF TunnelTypeOK, Opened
<1>4. receiver' \in Session /\ receiver'.started
  BY <1>1, RecordKeepsType
<1>5. TunnelTypeOK'
  BY <1>2, <1>4 DEF TunnelTypeOK
<1>6. CASE ~receiver.started
  <2>1. Opened = {}
    BY <1>6 DEF Tracks
  <2>2. receiver'.newest = c /\ receiver'.seen = {0}
    BY <1>1, <1>6 DEF WindowRecord, Session
  <2>3. \A o \in 0 .. Window - 1 : o \in receiver'.seen <=> c - o \in Opened'
    BY <1>2, <2>1, <2>2
  <2>4. Tracks'
    BY <1>2, <1>4, <2>1, <2>2, <2>3 DEF Tracks
  <2> QED BY <1>5, <2>1, <2>4
<1>7. CASE receiver.started /\ c > receiver.newest
  <2>1. c \notin Opened
    BY <1>1, <1>7 DEF Tracks
  <2> DEFINE shift == c - receiver.newest
  <2>2. /\ receiver'.newest = c
        /\ receiver'.seen = {0} \cup {o \in 0 .. Window - 1 : o - shift \in receiver.seen}
    BY <1>1, <1>7 DEF WindowRecord, Session
  <2>3. shift \in Nat /\ shift > 0 /\ \A o \in Int : c - o = receiver.newest - (o - shift)
    BY <1>1, <1>7
  <2>4. ASSUME NEW o \in 0 .. Window - 1
        PROVE  o \in receiver'.seen <=> c - o \in Opened'
    <3>1. CASE o = 0
      BY <1>2, <2>2, <3>1
    <3>2. CASE o # 0 /\ o < shift
      <4>1. o - shift \notin receiver.seen
        <5>1. o \in Int /\ shift \in Int /\ o - shift < 0
          BY <2>3, <3>2
        <5> HIDE DEF shift
        <5>2. o - shift \notin 0 .. Window - 1
          BY <5>1
        <5> QED BY <1>1, <5>2
      <4>2. c - o > receiver.newest /\ c - o # c
        BY <1>1, <1>7, <3>2
      <4>3. c - o \notin Opened
        BY <1>1, <1>3, <4>2 DEF Tracks
      <4> QED BY <1>2, <2>2, <3>2, <4>1, <4>2, <4>3
    <3>3. CASE o # 0 /\ o >= shift
      <4>1. o - shift \in 0 .. Window - 1
        <5> HIDE DEF shift
        <5> QED BY <2>3, <3>3
      <4>2. o - shift \in receiver.seen <=> receiver.newest - (o - shift) \in Opened
        BY <4>1 DEF Tracks
      <4>3. c - o = receiver.newest - (o - shift) /\ c - o # c
        BY <1>1, <3>3
      <4> QED BY <1>2, <2>2, <3>3, <4>2, <4>3
    <3> QED BY <2>3, <3>1, <3>2, <3>3
  <2>5. \A p \in Opened : p <= c /\ p < sender.n
    BY <1>1, <1>3, <1>7 DEF Tracks
  <2>6. Tracks'
    BY <1>2, <1>4, <2>2, <2>4, <2>5 DEF Tracks
  <2> QED BY <1>5, <2>1, <2>6
<1>8. CASE receiver.started /\ ~(c > receiver.newest)
  <2> DEFINE back == receiver.newest - c
  <2>1. back \in 0 .. Window - 1 /\ back \notin receiver.seen /\ receiver.newest - back = c
    BY <1>1, <1>8 DEF WindowAllows
  <2>2. c \notin Opened
    BY <2>1 DEF Tracks
  <2>3. receiver'.newest = receiver.newest /\ receiver'.seen = receiver.seen \cup {back}
    BY <1>1, <1>8 DEF WindowRecord, Session
  <2>4. ASSUME NEW o \in 0 .. Window - 1
        PROVE  o \in receiver'.seen <=> receiver.newest - o \in Opened'
    <3>1. o = back <=> receiver.newest - o = c
      BY <1>1
    <3>2. o \in receiver.seen <=> receiver.newest - o \in Opened
      BY DEF Tracks
    <3> QED BY <1>2, <2>3, <3>1, <3>2
  <2>5. Tracks'
    BY <1>1, <1>2, <1>4, <1>8, <2>3, <2>4 DEF Tracks
  <2> QED BY <1>5, <2>2, <2>5
<1> QED BY <1>1, <1>6, <1>7, <1>8

\* A datagram that is refused leaves everything as it was.
LEMMA RefusedChangesNothing ==
    ASSUME NEW c, NEW genuine, Arrive(c, genuine), ~Opens(receiver, c, genuine)
    PROVE  UNCHANGED vars
BY DEF Arrive, Open, vars

\* One that is opened was sealed, and is recorded.
LEMMA OpenedIsRecorded ==
    ASSUME NEW c, NEW genuine, Arrive(c, genuine), Opens(receiver, c, genuine)
    PROVE  /\ genuine /\ WindowAllows(receiver, c)
           /\ receiver' = WindowRecord(receiver, c)
           /\ opened' = Append(opened, c)
           /\ UNCHANGED sender
BY DEF Arrive, Open, Opens

LEMMA SameTracks == TunnelInv /\ UNCHANGED vars => TunnelInv'
BY DEF TunnelInv, TunnelTypeOK, Tracks, Opened, vars

LEMMA NextTracks == TunnelInv /\ [Next]_vars => TunnelInv'
<1> SUFFICES ASSUME TunnelInv, [Next]_vars PROVE TunnelInv'
  OBVIOUS
<1>1. CASE Seal
  BY <1>1, SealTracks
<1>2. CASE Receive
  <2>1. PICK c \in 0 .. sender.n - 1 : Arrive(c, TRUE)
    BY <1>2 DEF Receive
  <2>2. CASE Opens(receiver, c, TRUE)
    <3>1. c \in Nat /\ c < sender.n
      BY DEF TunnelInv, TunnelTypeOK, Session
    <3> QED BY <2>1, <2>2, <3>1, OpenedIsRecorded, RecordTracks
  <2>3. CASE ~Opens(receiver, c, TRUE)
    BY <2>1, <2>3, RefusedChangesNothing, SameTracks
  <2> QED BY <2>2, <2>3
<1>3. CASE Damaged
  <2>1. PICK c \in 0 .. MessageLimit : Arrive(c, FALSE)
    BY <1>3 DEF Damaged
  <2> QED BY <2>1, RefusedChangesNothing, SameTracks DEF Opens
<1>4. CASE UNCHANGED vars
  BY <1>4, SameTracks
<1> QED BY <1>1, <1>2, <1>3, <1>4 DEF Next

\* The window is the end of the history in every state.
THEOREM TunnelTracks == Spec => []TunnelInv
BY InitTracks, NextTracks, PTL DEF Spec

-----------------------------------------------------------------------------
\* The receiver's session keeps its type, whatever its window and the limit: no
\* bit of the map (gs_noise.c, `seen`) is ever set beyond its width.
THEOREM TunnelTyped == Spec => []TunnelTypeOK
<1>1. TunnelInv => TunnelTypeOK
  BY DEF TunnelInv
<1> QED BY <1>1, TunnelTracks, PTL

\* gs_window_allows refuses a datagram that was sealed exactly when it was opened
\* before or has been overtaken by a whole window.
THEOREM TunnelRefusesForCause == Spec => []RefusedForCause
<1>1. TunnelInv => RefusedForCause
  <2> SUFFICES ASSUME TunnelInv, NEW c \in 0 .. sender.n - 1
               PROVE  Opens(receiver, c, TRUE) <=>
                        c \notin Opened /\ \A o \in Opened : o - c < Window
    BY DEF RefusedForCause
  <2> USE NoiseAssumption DEF NoiseAssumption, TunnelInv
  <2>1. /\ sender.n \in Nat /\ c \in Nat /\ c < MessageLimit
        /\ receiver.newest \in Nat /\ receiver.started \in BOOLEAN
    BY DEF TunnelTypeOK, Session, Tracks
  <2>2. \A o \in Opened : o \in Nat
    BY DEF TunnelTypeOK, Opened
  <2>3. CASE ~receiver.started
    BY <2>1, <2>3 DEF Opens, WindowAllows, Tracks
  <2>4. CASE receiver.started /\ c > receiver.newest
    <3>1. c \notin Opened /\ \A o \in Opened : o - c < Window
      BY <2>1, <2>2, <2>4 DEF Tracks
    <3> QED BY <2>1, <2>4, <3>1 DEF Opens, WindowAllows
  <2>5. CASE receiver.started /\ ~(c > receiver.newest)
    <3>1. receiver.newest - c < Window <=> \A o \in Opened : o - c < Window
      BY <2>1, <2>2, <2>5 DEF Tracks
    <3>2. ASSUME receiver.newest - c < Window
          PROVE  receiver.newest - c \in receiver.seen <=> c \in Opened
      <4>1. receiver.newest - c \in 0 .. Window - 1 /\ receiver.newest - (receiver.newest - c) = c
        BY <2>1, <2>5, <3>2
      <4> QED BY <4>1 DEF Tracks
    <3> QED BY <2>1, <2>5, <3>1, <3>2 DEF Opens, WindowAllows
  <2> QED BY <2>1, <2>3, <2>4, <2>5
<1> QED BY <1>1, TunnelTracks, PTL

\* A sealed channel hands on only what was sealed and each datagram at most once.
THEOREM TunnelImplementsDatagrams == Spec => ImplementsDatagrams
<1>1. Init => Datagrams!Init
  BY DEF Init, Datagrams!Init, Split
<1>2. TunnelInv /\ [Next]_vars => [Datagrams!Next]_Datagrams!vars
  <2> SUFFICES ASSUME TunnelInv, [Next]_vars
               PROVE  [Datagrams!Next]_Datagrams!vars
    OBVIOUS
  <2>1. CASE Seal
    <3>1. sender'.n = sender.n + 1
      BY <2>1 DEF Seal, Sealed, TunnelInv, TunnelTypeOK, Session
    <3> QED BY <2>1, <3>1 DEF Seal, Datagrams!Next, Datagrams!Send
  <2>2. CASE Receive
    <3>1. PICK c \in 0 .. sender.n - 1 : Arrive(c, TRUE)
      BY <2>2 DEF Receive
    <3>2. CASE Opens(receiver, c, TRUE)
      <4>1. c \in Nat /\ c < sender.n
        BY DEF TunnelInv, TunnelTypeOK, Session
      <4>2. opened' = Append(opened, c) /\ UNCHANGED sender
        BY <3>1, <3>2, OpenedIsRecorded
      <4>3. c \notin Opened
        BY <3>1, <3>2, <4>1, OpenedIsRecorded, RecordTracks
      <4> QED BY <4>2, <4>3 DEF Opened, Datagrams!Next, Datagrams!HandOn
    <3>3. CASE ~Opens(receiver, c, TRUE)
      BY <3>1, <3>3, RefusedChangesNothing DEF vars, Datagrams!vars
    <3> QED BY <3>2, <3>3
  <2>3. CASE Damaged
    <3>1. PICK c \in 0 .. MessageLimit : Arrive(c, FALSE)
      BY <2>3 DEF Damaged
    <3> QED BY <3>1, RefusedChangesNothing DEF Opens, vars, Datagrams!vars
  <2>4. CASE UNCHANGED vars
    BY <2>4 DEF vars, Datagrams!vars
  <2> QED BY <2>1, <2>2, <2>3, <2>4 DEF Next
<1> QED BY <1>1, <1>2, TunnelTracks, PTL DEF Spec, ImplementsDatagrams, Datagrams!Spec
=============================================================================
