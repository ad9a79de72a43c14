--------------------------- MODULE GsServerProofs ---------------------------
(***************************************************************************)
(* Who is ready races what the server serves, and who has a seat keeps it  *)
(* and the tunnel it is spoken to through, for any number of seats,        *)
(* clients, handshakes and datagrams lost or out of order.                 *)
(*                                                                         *)
(* SameGround is about two clients and what each was told, perhaps long    *)
(* ago: what is still on its way must say the same, as long as the track   *)
(* is up, and a client must have settled before it is ready.  Told adds    *)
(* both.  OneSeatEach is inductive with what a table of tunnels is; that   *)
(* is stated of its Range, which taking one out and putting one in change  *)
(* by that one.                                                            *)
(*                                                                         *)
(* What a claim on a track is worth, for any number of tracks and people   *)
(* and any order of messages, withdrawals, deletions and restarts.         *)
(*                                                                         *)
(* FirstClaimStands is not inductive alone: a row the table does not hold  *)
(* has no owner to lose, and the stock is shipped, there and ownerless     *)
(* before every step.  Claimed adds both.  SeenByThoseItIsFor compares what*)
(* the owner said with what the rule shows: Spoken says that they differ   *)
(* only where the server has put a track up, and that a track so put up    *)
(* and not yet shown is one the next start may show.                       *)
(*                                                                         *)
(* What stands in the table was driven and paid for, for any number of     *)
(* machines, names, tokens and races, whatever of it is lost or late and   *)
(* whoever restarts.                                                       *)
(*                                                                         *)
(* EachTimeIsPaidFor speaks of times long accepted.  It lasts because a    *)
(* token once spent is never issued again and what is being collected can  *)
(* only have come from recordings somebody cut up; Held and Paid add       *)
(* both, of what is on its way and of what the server holds.               *)
(*                                                                         *)
(* NeverLeftWithout needs that no machine ever sends another's token: Own  *)
(* says so of every place a token may be.  TableIsTheBest is carried as    *)
(* what the best of a set of times is, without choosing it (Best).         *)
(*                                                                         *)
(* At the end, the names themselves (GsNames): a code opens one once.      *)
(***************************************************************************)
EXTENDS GsLobby, GsCatalogue, GsClaims, GsNames, FiniteSetTheorems, SequenceTheorems, TLAPS

(* Who sits where, and on what ground                                      *)

\* What a server may say while its track is up, or not.
BodyOK(b, standing) ==
    /\ b.kind \in {"welcome", "lobby", "start", "track", "full"}
    /\ standing /\ b.kind = "start" => b.ground = "wanted"

PostOK(d, standing) ==
    IF d.to = Nobody THEN d.who \in Address
    ELSE d.to \in Address /\ BodyOK(d.body, standing)

\* Nobody is ready on a ground that is not settled, and nobody has heard that there is
\* no track while there is one.
WireOK(w, standing) ==
    /\ "ground" \in DOMAIN w /\ "ready" \in DOMAIN w
    /\ w.ready => w.ground \in {"none", "here"}
    /\ standing => w.ground # "none"

Told ==
    /\ capacity \in 1 .. MaxSeats
    /\ seat \in [Slot -> Address \cup {Nobody}]
    /\ DOMAIN far = Address
    /\ \A a \in Address : WireOK(far[a], served)
    /\ \A d \in post : PostOK(d, served)

\* Hearing leaves a client as it should be (gs_wire.c: gs_take_server, gs_settle_ready).
LEMMA HeardIsSound ==
    ASSUME NEW w, NEW b, NEW standing, WireOK(w, standing), BodyOK(b, standing)
    PROVE  WireOK(Decided(w, Heard(w, b)), standing)
<1> DEFINE v == Heard(w, b)
<1>1. WireOK(v, standing)
  BY DEF WireOK, BodyOK, Heard, Placed, Settled, Crowded
<1> QED
  BY <1>1 DEF WireOK, Decided, Placed, Settled

\* What the server sends the clients it has seats for.
LEMMA MailIsSound ==
    ASSUME NEW a \in Address, NEW bodies, NEW standing, \A b \in bodies : BodyOK(b, standing)
    PROVE  \A d \in Mail(a, bodies) : PostOK(d, standing)
  BY LobbyAssumption DEF Mail, PostOK

LEMMA RosterIsSound ==
    ASSUME NEW s \in [Slot -> Address \cup {Nobody}], NEW standing
    PROVE  \A d \in ToEverybody(s) : PostOK(d, standing)
<1>1. ASSUME NEW i \in Slot, s[i] # Nobody
      PROVE  \A d \in Mail(s[i], {RosterNow(s)}) : PostOK(d, standing)
  <2>1. s[i] \in Address
    BY <1>1
  <2>2. \A b \in {RosterNow(s)} : BodyOK(b, standing)
    BY DEF RosterNow, BodyOK
  <2> QED
    BY <2>1, <2>2, MailIsSound
<1> QED
  BY <1>1 DEF ToEverybody

\* Whether any of it is lost or not.
LEMMA SendsSound ==
    ASSUME NEW left, NEW new, Sends(left, new), NEW standing,
           \A d \in left \cup new : PostOK(d, standing)
    PROVE  \A d \in post' : PostOK(d, standing)
  BY DEF Sends

LEMMA ServerSteps ==
    ASSUME Told, NEW d \in post,
           TakeJoin(d) \/ TakeBye(d) \/ TakeWant(d)
    PROVE  Told'
<1> USE DEF Told
<1>1. d.who \in Address
  BY DEF TakeJoin, TakeBye, TakeWant, Arrives, PostOK
<1>2. CASE TakeJoin(d)
  <2>1. CASE SeatFor(d.who) = {}
    <3>1. \A x \in Mail(d.who, {[kind |-> "full"]}) : PostOK(x, served)
      BY <1>1, MailIsSound DEF BodyOK
    <3>2. \A x \in post' : PostOK(x, served)
      BY <1>2, <2>1, <3>1, SendsSound DEF TakeJoin
    <3> QED
      BY <1>2, <2>1, <3>2 DEF TakeJoin
  <2>2. ASSUME NEW i \in SeatFor(d.who), NEW s,
               s = [seat EXCEPT ![i] = d.who], seat' = s,
               Sends(post \ {d},
                     Mail(d.who, {[kind |-> "welcome", slot |-> i, count |-> Present(s)], Start})
                     \cup IF Here(d.who) THEN {} ELSE ToEverybody(s))
        PROVE  Told'
    <3> DEFINE welcome == [kind |-> "welcome", slot |-> i, count |-> Present(s)]
    <3>1. s \in [Slot -> Address \cup {Nobody}]
      BY <1>1, <2>2
    <3>2. \A x \in Mail(d.who, {welcome, Start}) : PostOK(x, served)
      <4>1. BodyOK(welcome, served) /\ BodyOK(Start, served)
        BY DEF BodyOK, Start
      <4> QED
        BY <1>1, <4>1, MailIsSound
    <3>3. \A x \in ToEverybody(s) : PostOK(x, served)
      BY <3>1, RosterIsSound
    <3>4. \A x \in post' : PostOK(x, served)
      <4> HIDE DEF welcome
      <4>1. Sends(post \ {d}, Mail(d.who, {welcome, Start})
                               \cup IF Here(d.who) THEN {} ELSE ToEverybody(s))
        BY <2>2 DEF welcome
      <4> QED
        BY <3>2, <3>3, <4>1, SendsSound
    <3> QED
      BY <1>2, <2>2, <3>1, <3>4 DEF TakeJoin
  <2> QED
    BY <1>2, <2>1, <2>2 DEF TakeJoin
<1>3. CASE TakeBye(d)
  <2>1. CASE ~Here(d.who) /\ post' = post \ {d} /\ UNCHANGED seat
    BY <1>3, <2>1 DEF TakeBye
  <2>2. ASSUME NEW i \in Seats(d.who), seat' = Without(i),
               Sends(post \ {d}, ToEverybody(Without(i)))
        PROVE  Told'
    <3>1. Without(i) \in [Slot -> Address \cup {Nobody}]
      BY DEF Without
    <3>2. \A x \in post' : PostOK(x, served)
      BY <2>2, <3>1, RosterIsSound, SendsSound
    <3> QED
      BY <1>3, <2>2, <3>1, <3>2 DEF TakeBye
  <2> QED
    BY <1>3, <2>1, <2>2 DEF TakeBye
<1>4. CASE TakeWant(d)
  <2>1. \A x \in Mail(d.who, {[kind |-> "track"]}) : PostOK(x, served)
    <3>1. \A b \in {[kind |-> "track"]} : BodyOK(b, served)
      BY DEF BodyOK
    <3> QED
      BY <1>1, <3>1, MailIsSound
  <2>2. \A x \in post' : PostOK(x, served)
    BY <1>4, <2>1, SendsSound DEF TakeWant
  <2> QED
    BY <1>4, <2>2 DEF TakeWant
<1> QED
  BY <1>2, <1>3, <1>4

LEMMA ToldInductive == LobbySpec => []Told
<1>1. LobbyInit => Told
  BY LobbyAssumption DEF LobbyInit, Told, NewWire, WireOK
<1>2. ASSUME Told, [LobbyNext]_lobbyVars PROVE Told'
  <2> USE DEF Told
  <2>1. ASSUME NEW a \in Guest[capacity] \cup Passer[capacity], Knocks(a) PROVE Told'
    BY <1>2, <2>1 DEF Knocks, WireOK
  <2>2. ASSUME NEW a \in Guest[capacity], SendJoin(a) \/ AskTrack(a) \/ Close(a) PROVE Told'
    <3>1. a \in Address
      BY <1>2, LobbyAssumption
    <3>2. CASE SendJoin(a)
      <4>1. \A x \in post' : PostOK(x, served)
        <5>1. PostOK([to |-> Nobody, who |-> a, keys |-> far[a].keys, body |-> "join"], served)
          BY <3>1 DEF PostOK
        <5> QED
          BY <1>2, <3>2, <5>1, SendsSound DEF SendJoin
      <4> QED
        BY <1>2, <3>2, <4>1 DEF SendJoin
    <3>3. CASE AskTrack(a)
      <4>1. \A x \in post' : PostOK(x, served)
        <5>1. PostOK([to |-> Nobody, who |-> a, keys |-> far[a].keys, body |-> "want"], served)
          BY <3>1 DEF PostOK
        <5> QED
          BY <1>2, <3>3, <5>1, SendsSound DEF AskTrack
      <4> QED
        BY <1>2, <3>3, <4>1 DEF AskTrack
    <3>4. CASE Close(a)
      <4>1. \A x \in post' : PostOK(x, served)
        <5>1. PostOK([to |-> Nobody, who |-> a, keys |-> far[a].keys, body |-> "bye"], served)
          BY <3>1 DEF PostOK
        <5> QED
          BY <1>2, <3>4, <5>1, SendsSound DEF Close
      <4> QED
        BY <1>2, <3>4, <4>1 DEF Close, NewWire, WireOK
    <3> QED
      BY <2>2, <3>2, <3>3, <3>4
  <2>3. ASSUME NEW d \in hello, TakeAnswer(d.from, d) \/ TakeHello(d.from, d) PROVE Told'
    BY <1>2, <2>3 DEF TakeAnswer, TakeHello, WireOK
  <2>4. ASSUME NEW d \in post, Hear(d) PROVE Told'
    <3>1. WireOK(Decided(far[d.to], Heard(far[d.to], d.body)), served)
      BY <1>2, <2>4, HeardIsSound DEF Hear, PostOK
    <3> QED
      BY <1>2, <2>4, <3>1 DEF Hear
  <2>5. ASSUME NEW i \in Slot, SayAgain(i) \/ WentQuiet(i) PROVE Told'
    <3>1. CASE SayAgain(i)
      <4>1. \A x \in Mail(seat[i], {RosterNow(seat)}) : PostOK(x, served)
        <5>1. seat[i] \in Address
          BY <1>2, <3>1 DEF SayAgain
        <5>2. \A b \in {RosterNow(seat)} : BodyOK(b, served)
          BY DEF RosterNow, BodyOK
        <5> QED
          BY <5>1, <5>2, MailIsSound
      <4>2. \A x \in post' : PostOK(x, served)
        BY <1>2, <3>1, <4>1, SendsSound DEF SayAgain
      <4> QED
        BY <1>2, <3>1, <4>2 DEF SayAgain
    <3>2. CASE WentQuiet(i)
      <4>1. Without(i) \in [Slot -> Address \cup {Nobody}]
        BY <1>2 DEF Without
      <4>2. \A x \in post' : PostOK(x, served)
        BY <1>2, <3>2, <4>1, RosterIsSound, SendsSound DEF WentQuiet
      <4> QED
        BY <1>2, <3>2, <4>1, <4>2 DEF WentQuiet
    <3> QED
      BY <2>5, <3>1, <3>2
  <2>6. CASE TakeTrackDown
    BY <1>2, <2>6 DEF TakeTrackDown, PostOK, BodyOK, WireOK
  <2>7. CASE UNCHANGED lobbyVars
    BY <1>2, <2>7 DEF lobbyVars
  <2> QED
    BY <1>2, <2>1, <2>2, <2>3, <2>4, <2>5, <2>6, <2>7, ServerSteps DEF LobbyNext
<1> QED
  BY <1>1, <1>2, PTL DEF LobbySpec

\* Who is ready is on the ground the others are on, while the server has it to give
\* (gs_wire.c: gs_take_start, gs_wire_settled; main.c of the server: gs_send_start).
THEOREM ReadyShareGround == LobbySpec => []SameGround
<1>1. Told => SameGround
  BY DEF Told, WireOK, SameGround
<1> QED
  BY <1>1, ToldInductive, PTL

-----------------------------------------------------------------------------
(* Seats, and the tunnels of those that have them *)

\* A table of tunnels: a sequence, one to an address.
IsTable(t) ==
    /\ \E S : t \in Seq(S)
    /\ \A j, k \in DOMAIN t : t[j].who = t[k].who => j = k

\* The keys kept for an address.
KeysIn(R, a) == {x.keys : x \in {y \in R : y.who = a}}

\* One tunnel goes and the others stay, in their order.
LEMMA RemoveLeaves ==
    ASSUME NEW t, IsTable(t), NEW i \in DOMAIN t
    PROVE  /\ IsTable(RemoveAt(t, i))
           /\ Range(RemoveAt(t, i)) = Range(t) \ {t[i]}
<1>1. PICK S : t \in Seq(S)
  BY DEF IsTable
<1> DEFINE r == RemoveAt(t, i)
<1>2. /\ DOMAIN t = 1 .. Len(t) /\ Len(t) \in Nat /\ i \in 1 .. Len(t)
  BY <1>1
<1>3. /\ r \in Seq(S) /\ Len(r) = Len(t) - 1
      /\ \A k \in 1 .. Len(t) - 1 : r[k] = IF k < i THEN t[k] ELSE t[k + 1]
  <2> DEFINE p == SubSeq(t, 1, i - 1)
             q == SubSeq(t, i + 1, Len(t))
  <2>1. \A k \in 1 .. Len(t) : t[k] \in S
    BY <1>1, <1>2
  <2>2. /\ p \in Seq(S) /\ Len(p) = i - 1
        /\ \A k \in 1 .. i - 1 : p[k] = t[k]
    <3>1. /\ p \in Seq(S) /\ Len(p) = IF 1 <= i - 1 THEN (i - 1) - 1 + 1 ELSE 0
          /\ \A k \in 1 .. (i - 1) - 1 + 1 : p[k] = t[1 + k - 1]
      BY <1>2, <2>1, SubSeqProperties
    <3> QED
      BY <1>2, <3>1
  <2>3. /\ q \in Seq(S) /\ Len(q) = Len(t) - i
        /\ \A k \in 1 .. Len(t) - i : q[k] = t[i + k]
    <3>1. /\ q \in Seq(S)
          /\ Len(q) = IF i + 1 <= Len(t) THEN Len(t) - (i + 1) + 1 ELSE 0
          /\ \A k \in 1 .. Len(t) - (i + 1) + 1 : q[k] = t[(i + 1) + k - 1]
      BY <1>2, <2>1, SubSeqProperties
    <3> QED
      BY <1>2, <3>1
  <2>4. r = p \o q
    BY DEF RemoveAt
  <2> HIDE DEF p, q, r
  <2>5. /\ r \in Seq(S) /\ Len(r) = Len(p) + Len(q)
        /\ \A k \in 1 .. Len(p) + Len(q) : r[k] = IF k <= Len(p) THEN p[k] ELSE q[k - Len(p)]
    BY <2>2, <2>3, <2>4, ConcatProperties
  <2>6. ASSUME NEW k \in 1 .. Len(t) - 1 PROVE r[k] = IF k < i THEN t[k] ELSE t[k + 1]
    <3>1. CASE k < i
      BY <1>2, <2>2, <2>3, <2>5, <3>1
    <3>2. CASE ~(k < i)
      <4>1. k - (i - 1) \in 1 .. Len(t) - i /\ i + (k - (i - 1)) = k + 1
        BY <1>2, <3>2
      <4>2. r[k] = q[k - (i - 1)]
        BY <1>2, <2>2, <2>3, <2>5, <3>2
      <4>3. q[k - (i - 1)] = t[i + (k - (i - 1))]
        BY <2>3, <4>1
      <4> QED
        BY <3>2, <4>1, <4>2, <4>3
    <3> QED
      BY <3>1, <3>2
  <2> QED
    BY <1>2, <2>2, <2>3, <2>5, <2>6
<1> HIDE DEF r
<1>4. DOMAIN r = 1 .. Len(t) - 1
  BY <1>3
<1>5. ASSUME NEW j \in DOMAIN r, NEW k \in DOMAIN r, r[j].who = r[k].who PROVE j = k
  <2> DEFINE g(l) == IF l < i THEN l ELSE l + 1
  <2>1. /\ g(j) \in DOMAIN t /\ g(k) \in DOMAIN t
        /\ r[j] = t[g(j)] /\ r[k] = t[g(k)]
    BY <1>2, <1>3, <1>4
  <2>2. g(j) = g(k)
    BY <1>5, <2>1 DEF IsTable
  <2> QED
    BY <1>2, <1>4, <2>2
<1>6. ASSUME NEW x \in Range(r) PROVE x \in Range(t) \ {t[i]}
  <2>1. PICK k \in 1 .. Len(t) - 1 : x = r[k]
    BY <1>4 DEF Range
  <2>2. \E j \in DOMAIN t : j # i /\ x = t[j]
    BY <1>2, <1>3, <2>1
  <2> QED
    BY <1>2, <2>2 DEF IsTable, Range
<1>7. ASSUME NEW x \in Range(t) \ {t[i]} PROVE x \in Range(r)
  <2>1. PICK j \in 1 .. Len(t) : x = t[j] /\ j # i
    BY <1>2 DEF Range
  <2>2. \E k \in 1 .. Len(t) - 1 : x = r[k]
    <3>1. CASE j < i
      <4>1. j \in 1 .. Len(t) - 1
        BY <1>2, <3>1
      <4> QED
        BY <1>3, <2>1, <3>1, <4>1
    <3>2. CASE j > i
      <4>1. j - 1 \in 1 .. Len(t) - 1 /\ ~(j - 1 < i) /\ (j - 1) + 1 = j
        BY <1>2, <3>2
      <4> QED
        BY <1>3, <2>1, <4>1
    <3> QED
      BY <1>2, <2>1, <3>1, <3>2
  <2> QED
    BY <1>4, <2>2 DEF Range
<1> QED
  BY <1>3, <1>5, <1>6, <1>7 DEF IsTable, r

\* One is put behind the others, of an address that had none.
LEMMA AppendAdds ==
    ASSUME NEW t, IsTable(t), NEW x, \A y \in Range(t) : y.who # x.who
    PROVE  /\ IsTable(Append(t, x))
           /\ Range(Append(t, x)) = Range(t) \cup {x}
<1>1. PICK S : t \in Seq(S)
  BY DEF IsTable
<1> DEFINE r == Append(t, x)
<1>2. t \in Seq(S \cup {x})
  BY <1>1, SeqMonotonic
<1>3. /\ DOMAIN t = 1 .. Len(t) /\ Len(t) \in Nat
      /\ r \in Seq(S \cup {x}) /\ DOMAIN r = 1 .. Len(t) + 1
      /\ \A k \in 1 .. Len(t) : r[k] = t[k]
      /\ r[Len(t) + 1] = x
  BY <1>2
<1> HIDE DEF r
<1>4. ASSUME NEW j \in DOMAIN r, NEW k \in DOMAIN r, r[j].who = r[k].who PROVE j = k
  <2>1. \A l \in 1 .. Len(t) : t[l].who # x.who
    BY <1>3 DEF Range
  <2> QED
    BY <1>3, <1>4, <2>1 DEF IsTable
<1>5. Range(r) = Range(t) \cup {x}
  BY <1>3 DEF Range
<1> QED
  BY <1>3, <1>4, <1>5 DEF IsTable, r

\* What is heard through a tunnel leaves the table what it was, in another order.
LEMMA TouchKeeps ==
    ASSUME NEW a, IsTable(tunnel), TunnelsOf(a) # {}
    PROVE  IsTable(Touch(a)) /\ Range(Touch(a)) = Range(tunnel)
<1> DEFINE j == CHOOSE k \in TunnelsOf(a) : TRUE
<1>1. j \in TunnelsOf(a)
  OBVIOUS
<1>2. Touch(a) = Append(RemoveAt(tunnel, j), tunnel[j])
  BY DEF Touch
<1> HIDE DEF j
<1>3. j \in DOMAIN tunnel
  BY <1>1 DEF TunnelsOf
<1>4. /\ IsTable(RemoveAt(tunnel, j))
      /\ Range(RemoveAt(tunnel, j)) = Range(tunnel) \ {tunnel[j]}
  BY <1>3, RemoveLeaves
<1>5. \A y \in Range(tunnel) \ {tunnel[j]} : y.who # tunnel[j].who
  BY <1>3 DEF IsTable, Range
<1>6. /\ IsTable(Touch(a))
      /\ Range(Touch(a)) = Range(RemoveAt(tunnel, j)) \cup {tunnel[j]}
  BY <1>2, <1>4, <1>5, AppendAdds
<1>7. tunnel[j] \in Range(tunnel)
  BY <1>3 DEF Range
<1> QED
  BY <1>4, <1>6, <1>7

\* Room is made by taking out nobody's that is here.
LEMMA RoomKeeps ==
    ASSUME NEW a, IsTable(tunnel), ~Here(a), NEW t \in RoomFor(tunnel, a)
    PROVE  /\ IsTable(t)
           /\ \A y \in Range(t) : y.who # a
           /\ Range(t) \subseteq Range(tunnel)
           /\ \A y \in Range(tunnel) : Here(y.who) => y \in Range(t)
<1>1. ASSUME NEW j \in DOMAIN tunnel, t = RemoveAt(tunnel, j), ~Here(tunnel[j].who)
      PROVE  /\ IsTable(t) /\ Range(t) = Range(tunnel) \ {tunnel[j]}
             /\ \A y \in Range(tunnel) : Here(y.who) => y \in Range(t)
  <2>1. IsTable(t) /\ Range(t) = Range(tunnel) \ {tunnel[j]}
    BY <1>1, RemoveLeaves
  <2> QED
    BY <1>1, <2>1
<1>2. CASE TunnelsOf(a) # {}
  <2>1. PICK j \in TunnelsOf(a) : t = RemoveAt(tunnel, j)
    BY <1>2 DEF RoomFor, TunnelsOf
  <2>2. j \in DOMAIN tunnel /\ tunnel[j].who = a
    BY <2>1 DEF TunnelsOf
  <2>3. \A y \in Range(tunnel) \ {tunnel[j]} : y.who # a
    BY <2>2 DEF IsTable, Range
  <2> QED
    BY <1>1, <2>1, <2>2, <2>3
<1>3. CASE TunnelsOf(a) = {}
  <2>1. \A y \in Range(tunnel) : y.who # a
    BY <1>3 DEF TunnelsOf, Range
  <2>2. CASE t = tunnel
    BY <2>1, <2>2
  <2>3. ASSUME NEW j \in DOMAIN tunnel, t = RemoveAt(tunnel, j), ~Here(tunnel[j].who)
        PROVE  /\ IsTable(t)
               /\ \A y \in Range(t) : y.who # a
               /\ Range(t) \subseteq Range(tunnel)
               /\ \A y \in Range(tunnel) : Here(y.who) => y \in Range(t)
    BY <1>1, <2>1, <2>3
  <2> QED
    BY <1>3, <2>2, <2>3 DEF RoomFor, TunnelsOf, Lowest
<1> QED
  BY <1>2, <1>3

\* There is a tunnel to an address.
Linked(t, a) == \E x \in Range(t) : x.who = a

LEMMA LinkedIsTunnel == \A a : Linked(tunnel, a) <=> TunnelsOf(a) # {}
  BY DEF Linked, Range, TunnelsOf

\* Who sits where, and that each can be spoken to.
Seated ==
    /\ seat \in [Slot -> Address \cup {Nobody}]
    /\ IsTable(tunnel)
    /\ \A i, k \in Slot : seat[i] # Nobody /\ seat[i] = seat[k] => i = k
    /\ \A i \in Slot : seat[i] # Nobody => Linked(tunnel, seat[i])

\* The steps that leave seats and tunnels alone, or only reorder the tunnels and empty
\* a seat.
LEMMA SeatedStill ==
    ASSUME Seated, \/ seat' = seat
                   \/ \E i \in Slot : seat' = Without(i),
           IsTable(tunnel'), Range(tunnel') = Range(tunnel)
    PROVE  Seated'
<1>1. \A i \in Slot : seat'[i] \in {seat[i], Nobody}
  BY DEF Without, Seated
<1>2. seat' \in [Slot -> Address \cup {Nobody}]
  BY DEF Without, Seated
<1>3. ASSUME NEW i \in Slot, seat'[i] # Nobody PROVE Linked(tunnel', seat'[i])
  BY <1>1, <1>3 DEF Seated, Linked
<1>4. ASSUME NEW i \in Slot, NEW k \in Slot, seat'[i] # Nobody, seat'[i] = seat'[k]
      PROVE  i = k
  BY <1>1, <1>4 DEF Seated
<1> QED
  BY <1>2, <1>3, <1>4 DEF Seated

LEMMA SeatedStep ==
    ASSUME Told, Seated, [LobbyNext]_lobbyVars
    PROVE  /\ Seated'
           /\ \A i \in Slot : seat[i] # Nobody /\ seat'[i] = seat[i] =>
                 KeysIn(Range(tunnel'), seat[i]) = KeysIn(Range(tunnel), seat[i])
<1> DEFINE Goal == /\ Seated'
                  /\ \A i \in Slot : seat[i] # Nobody /\ seat'[i] = seat[i] =>
                        KeysIn(Range(tunnel'), seat[i]) = KeysIn(Range(tunnel), seat[i])
<1>1. ASSUME UNCHANGED tunnel, seat' = seat \/ \E i \in Slot : seat' = Without(i)
      PROVE  Goal
  BY <1>1, SeatedStill DEF Seated
<1>2. ASSUME NEW a, TunnelsOf(a) # {}, tunnel' = Touch(a),
             seat' = seat \/ \E i \in Slot : seat' = Without(i)
      PROVE  Goal
  <2>1. IsTable(tunnel') /\ Range(tunnel') = Range(tunnel)
    BY <1>2, TouchKeeps DEF Seated
  <2> QED
    BY <1>2, <2>1, SeatedStill
<1>3. ASSUME NEW d \in post, TakeJoin(d) PROVE Goal
  <2>1. TunnelsOf(d.who) # {} /\ tunnel' = Touch(d.who) /\ d.who \in Address
    BY <1>3 DEF TakeJoin, Arrives, Told, PostOK
  <2>2. CASE UNCHANGED seat
    BY <1>2, <2>1, <2>2
  <2>3. ASSUME NEW i \in SeatFor(d.who), seat' = [seat EXCEPT ![i] = d.who] PROVE Goal
    <3>1. CASE Here(d.who)
      <4>1. seat' = seat
        BY <2>3, <3>1 DEF SeatFor, Seats, Seated
      <4> QED
        BY <1>2, <2>1, <4>1
    <3>2. CASE ~Here(d.who)
      <4>1. i \in Slot /\ seat[i] = Nobody /\ \A k \in Slot : seat[k] # d.who
        BY <2>3, <3>2 DEF SeatFor, Lowest, Empty, Here, Seats
      <4>2. IsTable(tunnel') /\ Range(tunnel') = Range(tunnel)
        BY <2>1, TouchKeeps DEF Seated
      <4>3. Linked(tunnel, d.who)
        BY <2>1, LinkedIsTunnel
      <4>4. \A k \in Slot : seat'[k] = IF k = i THEN d.who ELSE seat[k]
        BY <2>3, <4>1 DEF Seated
      <4>5. \A k \in Slot : seat'[k] # Nobody => Linked(tunnel', seat'[k])
        BY <4>2, <4>3, <4>4 DEF Seated, Linked
      <4>6. \A k, l \in Slot : seat'[k] # Nobody /\ seat'[k] = seat'[l] => k = l
        BY <4>1, <4>4 DEF Seated
      <4>7. seat' \in [Slot -> Address \cup {Nobody}]
        BY <2>1, <2>3 DEF Seated
      <4> QED
        BY <4>2, <4>5, <4>6, <4>7 DEF Seated
    <3> QED
      BY <3>1, <3>2
  <2> QED
    BY <1>3, <2>2, <2>3 DEF TakeJoin
<1>4. ASSUME NEW d \in post, TakeBye(d) \/ TakeWant(d) PROVE Goal
  <2>1. TunnelsOf(d.who) # {} /\ tunnel' = Touch(d.who)
    BY <1>4 DEF TakeBye, TakeWant, Arrives
  <2>2. seat' = seat \/ \E i \in Slot : seat' = Without(i)
    BY <1>4 DEF TakeBye, TakeWant, Seats
  <2> QED
    BY <1>2, <2>1, <2>2
<1>5. ASSUME NEW d \in hello, TakeHello(d.from, d) PROVE Goal
  <2> DEFINE a == d.from
  <2>1. ~Here(a) /\ seat' = seat
    BY <1>5 DEF TakeHello
  <2> DEFINE f == 1 + Cardinality({x \in hello : x.from = a /\ x.e = d.e /\ x.f > 0})
             keys == <<d.e, f>>
  <2>2. \E t \in RoomFor(tunnel, a) : tunnel' = Append(t, [who |-> a, keys |-> keys])
    BY <1>5 DEF TakeHello
  <2> HIDE DEF keys, f
  <2> PICK t \in RoomFor(tunnel, a) : tunnel' = Append(t, [who |-> a, keys |-> keys])
    BY <2>2
  <2> DEFINE x == [who |-> a, keys |-> keys]
  <2>3. tunnel' = Append(t, x) /\ x.who = a
    OBVIOUS
  <2> HIDE DEF x
  <2> HIDE DEF a
  <2>4. /\ IsTable(t) /\ Range(t) \subseteq Range(tunnel)
        /\ \A y \in Range(t) : y.who # a
        /\ \A y \in Range(tunnel) : Here(y.who) => y \in Range(t)
    BY <2>1, RoomKeeps DEF Seated
  <2>5. IsTable(tunnel') /\ Range(tunnel') = Range(t) \cup {x}
    BY <2>3, <2>4, AppendAdds
  <2>6. ASSUME NEW i \in Slot, seat[i] # Nobody
        PROVE  /\ KeysIn(Range(tunnel'), seat[i]) = KeysIn(Range(tunnel), seat[i])
               /\ Linked(tunnel', seat[i])
    <3>1. Here(seat[i]) /\ seat[i] # a
      BY <2>1 DEF Here, Seats
    <3>2. {y \in Range(tunnel') : y.who = seat[i]} = {y \in Range(tunnel) : y.who = seat[i]}
      BY <2>3, <2>4, <2>5, <3>1
    <3>3. \E y \in Range(tunnel) : y.who = seat[i]
      BY <2>6 DEF Seated, Linked
    <3>4. \E y \in Range(tunnel') : y.who = seat[i]
      BY <3>2, <3>3
    <3> QED
      BY <3>2, <3>4 DEF KeysIn, Linked
  <2> QED
    BY <2>1, <2>5, <2>6 DEF Seated
<1>6. ASSUME NEW i \in Slot, SayAgain(i) \/ WentQuiet(i) PROVE Goal
  BY <1>1, <1>6 DEF SayAgain, WentQuiet
<1>7. ASSUME NEW a, Knocks(a) \/ SendJoin(a) \/ AskTrack(a) \/ Close(a) PROVE Goal
  BY <1>1, <1>7 DEF Knocks, SendJoin, AskTrack, Close
<1>8. ASSUME NEW d, Hear(d) \/ TakeAnswer(d.from, d) PROVE Goal
  BY <1>1, <1>8 DEF Hear, TakeAnswer
<1>9. CASE TakeTrackDown \/ UNCHANGED lobbyVars
  BY <1>1, <1>9 DEF TakeTrackDown, lobbyVars
<1> QED
  BY <1>3, <1>4, <1>5, <1>6, <1>7, <1>8, <1>9 DEF LobbyNext

LEMMA SeatedInductive == LobbySpec => []Seated
<1>1. LobbyInit => Seated
  <2>1. \E S : <<>> \in Seq(S)
    OBVIOUS
  <2> QED
    BY <2>1 DEF LobbyInit, Seated, IsTable
<1>2. Told /\ Seated /\ [LobbyNext]_lobbyVars => Seated'
  BY SeatedStep
<1> QED
  BY <1>1, <1>2, ToldInductive, PTL DEF LobbySpec

\* However often it asks, a client has one seat, and a tunnel of its own to it
\* (main.c of the server: gs_join, gs_drop; gs_tunnel_slot).
THEOREM OneSeat == LobbySpec => []OneSeatEach
<1>1. Seated => OneSeatEach
  BY LinkedIsTunnel DEF Seated, OneSeatEach, IsTable
<1> QED
  BY <1>1, SeatedInductive, PTL

\* No handshake, from whomever, takes a client's tunnel while it has its seat
\* (gs_tunnel_slot, gs_answer_handshake).
THEOREM TunnelsOfClientsStay == LobbySpec => PresentKeepsTunnel
<1>1. Told /\ Seated /\ [LobbyNext]_lobbyVars
      => [\A i \in Slot : seat[i] # Nobody /\ seat'[i] = seat[i] =>
          {tunnel'[j].keys : j \in {k \in DOMAIN tunnel' : tunnel'[k].who = seat[i]}}
            = {tunnel[j].keys : j \in TunnelsOf(seat[i])}]_lobbyVars
  <2> SUFFICES ASSUME Told, Seated, [LobbyNext]_lobbyVars, NEW i \in Slot,
                      seat[i] # Nobody, seat'[i] = seat[i]
               PROVE  {tunnel'[j].keys : j \in {k \in DOMAIN tunnel' : tunnel'[k].who = seat[i]}}
                        = {tunnel[j].keys : j \in TunnelsOf(seat[i])}
    OBVIOUS
  <2>1. KeysIn(Range(tunnel'), seat[i]) = KeysIn(Range(tunnel), seat[i])
    BY SeatedStep
  <2>2. ASSUME NEW t, NEW a
        PROVE  KeysIn(Range(t), a) = {t[j].keys : j \in {k \in DOMAIN t : t[k].who = a}}
    BY DEF KeysIn, Range
  <2> QED
    BY <2>1, <2>2 DEF TunnelsOf
<1> QED
  BY <1>1, ToldInductive, SeatedInductive, PTL DEF LobbySpec, PresentKeepsTunnel

-----------------------------------------------------------------------------
(* Whose a track is, and who sees it                                       *)

\* A row of the table of tracks.
Row == [there : BOOLEAN, owner : Key \cup {NoOne}, shipped : BOOLEAN,
        visible : VisibleTo, published : BOOLEAN,
        author : {NoOne, "driver", "gearstick", "the calendar"}]

\* What the table keeps of a track, as far as a claim is concerned.
RowOK(h, row) ==
    /\ row \in Row
    /\ ~row.there => row.owner = NoOne
    /\ h \in Stock => row.there /\ row.shipped /\ row.owner = NoOne

\* What a step may make of a row.
Stands(old, new) ==
    /\ old.owner # NoOne => new.owner \in {old.owner, NoOne}
    /\ old.owner # NoOne /\ new.owner = NoOne => ~new.there

Claimed ==
    /\ track \in [Hash -> Row]
    /\ \A h \in Hash : RowOK(h, track[h])
    /\ racing \in Hash \cup {NoOne}

Sound(rows) == rows \in [Hash -> Row] /\ \A h \in Hash : RowOK(h, rows[h])

\* A statement that leaves every claim as it was.
Keeps(rows, new) ==
    /\ Sound(new)
    /\ \A h \in Hash : new[h].owner = rows[h].owner

\* One that may make a claim or take the claimed track out.
Follows(rows, new) ==
    /\ Sound(new)
    /\ \A h \in Hash : Stands(rows[h], new[h])

\* What the server does of itself leaves every claim (gs_store.c: gs_store_put_track,
\* gs_store_publish, gs_store_withdraw).
LEMMA ServerStatements ==
    ASSUME NEW rows, Sound(rows), NEW h \in Hash,
           NEW author \in {NoOne, "driver", "gearstick", "the calendar"}
    PROVE  /\ Keeps(rows, PutTrack(rows, h, author))
           /\ Keeps(rows, Publish(rows, h, author))
           /\ Keeps(rows, Withdraw(rows, h, author))
<1> USE DEF Keeps, Sound, Row, RowOK, HasTrack
<1>1. Keeps(rows, PutTrack(rows, h, author))
  BY DEF PutTrack, NoTrack, VisibleTo
<1>2. Keeps(rows, Publish(rows, h, author))
  BY DEF Publish
<1>3. Keeps(rows, Withdraw(rows, h, author))
  BY DEF Withdraw, MayWithdraw, VisibleTo
<1> QED
  BY <1>1, <1>2, <1>3

\* What is done for a client leaves the other rows alone, and of its own row a claim
\* that stands (gs_store.c: the conditions of its UPDATEs and DELETEs).
LEMMA ClientStatements ==
    ASSUME NEW rows, Sound(rows), NEW h \in Hash, NEW who \in Key,
           NEW how \in VisibleTo
    PROVE  /\ Follows(rows, ClaimTrack(rows, h, who))
           /\ Keeps(rows, SetVisible(rows, h, who, how))
           /\ Follows(rows, DeleteTrack(rows, h, who))
<1> USE DEF Keeps, Follows, Sound, Row, RowOK, Stands, HasTrack
<1>1. Follows(rows, ClaimTrack(rows, h, who))
  BY CatalogueAssumption DEF ClaimTrack, MayClaim
<1>2. Keeps(rows, SetVisible(rows, h, who, how))
  BY DEF SetVisible, Owns
<1>3. Follows(rows, DeleteTrack(rows, h, who))
  BY DEF DeleteTrack, NoTrack, Owns, VisibleTo
<1> QED
  BY <1>1, <1>2, <1>3

\* One statement after another.
LEMMA Then ==
    ASSUME NEW rows, NEW mid, NEW new, Keeps(rows, mid)
    PROVE  /\ Keeps(mid, new) => Keeps(rows, new)
           /\ Follows(mid, new) => Follows(rows, new)
           /\ Follows(rows, mid)
  BY CatalogueAssumption DEF Keeps, Follows, Stands

LEMMA EachStep ==
    ASSUME Claimed, [CatalogueNext]_catalogueVars
    PROVE  Follows(track, track') /\ racing' \in Hash \cup {NoOne}
<1>1. Sound(track)
  BY DEF Claimed, Sound
<1>2. ASSUME NEW h \in Hash, NEW who \in Key, Upload(h, who)
      PROVE  Follows(track, track') /\ racing' = racing
  <2>1. Keeps(track, PutTrack(track, h, "driver"))
    BY <1>1, ServerStatements
  <2>2. Follows(PutTrack(track, h, "driver"), track')
    BY <1>2, <2>1, ClientStatements DEF Upload, Keeps, VisibleTo
  <2> QED
    BY <1>2, <2>1, <2>2, Then DEF Upload
<1>3. ASSUME NEW h \in Hash, NEW who \in Key, PublishTrack(h, who)
      PROVE  Follows(track, track') /\ racing' = racing
  <2>1. Follows(track, ClaimTrack(track, h, who))
    BY <1>1, ClientStatements DEF VisibleTo
  <2>2. Keeps(ClaimTrack(track, h, who), track')
    BY <1>3, <2>1, ClientStatements DEF PublishTrack, Follows, VisibleTo
  <2>3. \A g \in Hash : track'[g].owner = ClaimTrack(track, h, who)[g].owner
    BY <2>2 DEF Keeps
  <2>4. \A g \in Hash : track[g].owner # NoOne
                       => ClaimTrack(track, h, who)[g].owner = track[g].owner
    BY <1>1, <1>3 DEF PublishTrack, ClaimTrack, MayClaim, Sound, Row
  <2> QED
    BY <1>3, <2>2, <2>3, <2>4 DEF PublishTrack, Keeps, Follows, Stands
<1>4. ASSUME NEW h \in Hash, NEW who \in Key, NEW how \in VisibleTo,
             track' = SetVisible(track, h, who, how)
      PROVE  Follows(track, track')
  <2>1. Keeps(track, track')
    BY <1>1, <1>4, ClientStatements
  <2> QED
    BY <2>1, Then
<1>5. ASSUME NEW h \in Hash, NEW who \in Key, Delete(h, who)
      PROVE  Follows(track, track') /\ racing' = racing
  BY <1>1, <1>5, ClientStatements DEF Delete, VisibleTo
<1>6. ASSUME NEW h \in Hash, KeepDaily(h)
      PROVE  Follows(track, track') /\ racing' = racing
  <2>1. Keeps(track, PutTrack(track, h, "the calendar"))
    BY <1>1, ServerStatements
  <2>2. Keeps(PutTrack(track, h, "the calendar"), track')
    <3>1. Sound(PutTrack(track, h, "the calendar"))
      BY <2>1 DEF Keeps
    <3>2. track' = Publish(PutTrack(track, h, "the calendar"), h, "the calendar")
      BY <1>6 DEF KeepDaily
    <3> QED
      BY <3>1, <3>2, ServerStatements
  <2> QED
    BY <1>6, <2>1, <2>2, Then DEF KeepDaily
<1>7. ASSUME TakeDown PROVE Follows(track, track') /\ racing' = NoOne
  <2>1. Keeps(track, track')
    BY <1>1, <1>7, ServerStatements DEF Claimed, TakeDown
  <2> QED
    BY <1>7, <2>1, Then DEF TakeDown
<1>8. ASSUME NEW named \in Hash \cup {NoOne}, Restart(named)
      PROVE  Follows(track, track') /\ racing' \in Hash \cup {NoOne}
  <2>1. Keeps(track, Migrate(track))
    BY <1>1 DEF Keeps, Sound, Row, RowOK, Migrate, VisibleTo
  <2>2. Keeps(Migrate(track), track')
    <3>1. CASE named = NoOne
      BY <1>8, <2>1, <3>1 DEF Restart, Imported, Keeps
    <3>2. CASE named # NoOne
      <4>1. named \in Hash
        BY <3>2
      <4>2. Keeps(Migrate(track), PutTrack(Migrate(track), named, NoOne))
        BY <2>1, <4>1, ServerStatements DEF Keeps
      <4>3. Keeps(PutTrack(Migrate(track), named, NoOne), track')
        <5>1. track' = Publish(PutTrack(Migrate(track), named, NoOne), named, NoOne)
          BY <1>8, <3>2 DEF Restart, Imported
        <5> QED
          BY <4>1, <4>2, <5>1, ServerStatements DEF Keeps
      <4> QED
        BY <4>2, <4>3, Then
    <3> QED
      BY <3>1, <3>2
  <2>3. Follows(track, track')
    BY <2>1, <2>2, Then
  <2>4. racing' \in Hash \cup {NoOne}
    BY <1>8, <2>3 DEF Restart, Serves, ListPublished, Follows, Sound
  <2> QED
    BY <2>3, <2>4
<1>9. ASSUME NEW h \in Hash, NEW who \in Key, NEW with \in Key,
             WithdrawTrack(h, who) \/ Share(h, who, with) \/ Unshare(h, who, with)
      PROVE  Follows(track, track') /\ racing' \in Hash \cup {NoOne}
  <2>1. CASE WithdrawTrack(h, who)
    BY <1>4, <2>1 DEF WithdrawTrack, VisibleTo, Claimed
  <2>2. CASE Share(h, who, with)
    BY <1>4, <2>2 DEF Share, VisibleTo, Claimed
  <2>3. CASE Unshare(h, who, with)
    BY <1>1, <2>3 DEF Unshare, Claimed, Follows, Stands
  <2> QED
    BY <1>9, <2>1, <2>2, <2>3
<1>10. CASE UNCHANGED catalogueVars
  BY <1>1, <1>10 DEF Claimed, Follows, Stands, catalogueVars
<1> QED
  BY <1>2, <1>3, <1>4, <1>5, <1>6, <1>7, <1>8, <1>9, <1>10
     DEF CatalogueNext, Claimed

LEMMA ClaimedInductive == CatalogueSpec => []Claimed
<1>1. CatalogueInit => Claimed
  <2> SUFFICES ASSUME CatalogueInit PROVE Claimed
    OBVIOUS
  <2>1. ASSUME NEW h \in Hash PROVE track[h] \in Row /\ RowOK(h, track[h])
    <3>1. CASE h \in Stock
      BY <3>1 DEF CatalogueInit, RowOK, Row, VisibleTo, NoTrack
    <3>2. CASE h \notin Stock
      BY <3>2 DEF CatalogueInit, RowOK, Row, VisibleTo, NoTrack
    <3> QED
      BY <3>1, <3>2
  <2> QED
    BY <2>1 DEF CatalogueInit, Claimed
<1>2. Claimed /\ [CatalogueNext]_catalogueVars => Claimed'
  BY EachStep DEF Follows, Sound, Claimed
<1> QED
  BY <1>1, <1>2, PTL DEF CatalogueSpec

\* Whoever claims a track first keeps it until they take it out, and a track that
\* came with the game is nobody's and everybody's to see, whatever is asked of the
\* server and however often it is restarted (main.c: GS_MSG_TRACK, GS_MSG_PUBLISH,
\* GS_MSG_SHARE; gs_store.c).
THEOREM ClaimsStand == CatalogueSpec => FirstClaimStands
<1>1. Claimed /\ [CatalogueNext]_catalogueVars
      => [\A h \in Hash :
            /\ track[h].owner # NoOne => track'[h].owner \in {track[h].owner, NoOne}
            /\ (track[h].owner # NoOne /\ track'[h].owner = NoOne) => ~track'[h].there
            /\ h \in Stock => /\ track'[h].shipped
                              /\ track'[h].owner = NoOne
                              /\ \A k \in Key : CanSee(track', share', h, k)]_catalogueVars
  <2> SUFFICES ASSUME Claimed, [CatalogueNext]_catalogueVars
               PROVE  \A h \in Hash :
            /\ track[h].owner # NoOne => track'[h].owner \in {track[h].owner, NoOne}
            /\ (track[h].owner # NoOne /\ track'[h].owner = NoOne) => ~track'[h].there
            /\ h \in Stock => /\ track'[h].shipped
                              /\ track'[h].owner = NoOne
                              /\ \A k \in Key : CanSee(track', share', h, k)
    OBVIOUS
  <2>1. Follows(track, track')
    BY EachStep
  <2> QED
    BY <2>1 DEF Follows, Sound, RowOK, Stands, CanSee, HasTrack
<1> QED
  BY <1>1, ClaimedInductive, PTL DEF CatalogueSpec, FirstClaimStands

-----------------------------------------------------------------------------
(* Who sees a track *)

\* What the table shows of a track and what its owner last said of it.
SpokenOf(h, row, said_h, own) ==
    /\ row.shipped <=> h \in Stock
    /\ ~row.there => row.visible = "private" /\ ~row.published /\ said_h = "private"
    /\ row.visible # said_h => h \in Stock \/ (h \in own /\ said_h = "private"
                                              /\ row.visible = "public")
    /\ row.published /\ row.visible = "private" => h \in own
    /\ h \in Stock => said_h = "private"

Spoken ==
    /\ share = asked
    /\ said \in [Hash -> VisibleTo]
    /\ \A h \in Hash : SpokenOf(h, track[h], said[h], putUp)

\* Two rows that agree on what is spoken of.
LEMMA SpokenSame ==
    ASSUME NEW h \in Hash, NEW row, NEW new, NEW s, NEW own, NEW wider,
           SpokenOf(h, row, s, own), own \subseteq wider,
           new.there = row.there, new.shipped = row.shipped,
           new.visible = row.visible, new.published = row.published
    PROVE  SpokenOf(h, new, s, wider)
  BY DEF SpokenOf

LEMMA PutIsThere ==
    ASSUME NEW rows, Sound(rows), NEW h \in Hash, NEW author
    PROVE  HasTrack(PutTrack(rows, h, author), h)
  BY DEF PutTrack, HasTrack, Sound, NoTrack

\* gs_store_put_track, gs_store_publish: on a track that is not shown, only for one
\* the server puts up itself.
LEMMA PutSpoken ==
    ASSUME NEW rows, Sound(rows), NEW s, NEW own,
           \A g \in Hash : SpokenOf(g, rows[g], s[g], own),
           NEW h \in Hash, NEW author \in {NoOne, "driver", "gearstick", "the calendar"}
    PROVE  /\ \A g \in Hash : SpokenOf(g, PutTrack(rows, h, author)[g], s[g], own)
           /\ HasTrack(rows, h) =>
                \A g \in Hash : SpokenOf(g, Publish(rows, h, author)[g], s[g], own \cup {h})
<1>1. ASSUME NEW g \in Hash PROVE SpokenOf(g, PutTrack(rows, h, author)[g], s[g], own)
  <2>1. CASE g = h /\ ~rows[h].there
    <3>1. PutTrack(rows, h, author)[g] = [NoTrack EXCEPT !.there = TRUE, !.author = author]
      BY <2>1 DEF PutTrack, HasTrack, Sound
    <3> QED
      BY <2>1, <3>1 DEF SpokenOf, Sound, RowOK, NoTrack
  <2>2. CASE ~(g = h /\ ~rows[h].there)
    <3>1. PutTrack(rows, h, author)[g] = rows[g]
      BY <2>2 DEF PutTrack, HasTrack, Sound
    <3> QED
      BY <3>1
  <2> QED
    BY <2>1, <2>2
<1>2. ASSUME HasTrack(rows, h), NEW g \in Hash
      PROVE  SpokenOf(g, Publish(rows, h, author)[g], s[g], own \cup {h})
  <2>1. CASE g = h
    <3>1. Publish(rows, h, author)[g]
             = [rows[g] EXCEPT !.published = TRUE, !.author = author]
      BY <1>2, <2>1 DEF Publish, Sound
    <3>2. rows[g] \in Row /\ rows[g].there
      BY <1>2, <2>1 DEF Sound, HasTrack
    <3> QED
      BY <2>1, <3>1, <3>2 DEF SpokenOf, Row
  <2>2. CASE g # h
    <3>1. Publish(rows, h, author)[g] = rows[g]
      BY <2>2 DEF Publish, Sound
    <3> QED
      BY <3>1 DEF SpokenOf
  <2> QED
    BY <2>1, <2>2
<1> QED
  BY <1>1, <1>2

LEMMA SpokenInductive == CatalogueSpec => [](Claimed /\ Spoken)
<1>1. CatalogueInit => Spoken
  <2> SUFFICES ASSUME CatalogueInit, NEW h \in Hash
               PROVE  SpokenOf(h, track[h], said[h], putUp)
    BY DEF CatalogueInit, Spoken, VisibleTo
  <2>1. CASE h \in Stock
    BY <2>1 DEF CatalogueInit, SpokenOf, NoTrack
  <2>2. CASE h \notin Stock
    BY <2>2 DEF CatalogueInit, SpokenOf, NoTrack
  <2> QED
    BY <2>1, <2>2
<1>2. ASSUME Claimed, Spoken, [CatalogueNext]_catalogueVars PROVE Spoken'
  <2>1. /\ Sound(track) /\ share = asked /\ said \in [Hash -> VisibleTo]
        /\ \A g \in Hash : SpokenOf(g, track[g], said[g], putUp)
    BY <1>2 DEF Claimed, Sound, Spoken
  <2>2. ASSUME NEW h \in Hash, NEW who \in Key, Upload(h, who) PROVE Spoken'
    <3>1. \A g \in Hash : SpokenOf(g, PutTrack(track, h, "driver")[g], said[g], putUp)
      BY <2>1, PutSpoken
    <3>2. Sound(PutTrack(track, h, "driver"))
      BY <2>1, ServerStatements DEF Keeps
    <3>3. ASSUME NEW g \in Hash PROVE SpokenOf(g, track'[g], said[g], putUp)
      <4>1. \/ track'[g] = PutTrack(track, h, "driver")[g]
            \/ track'[g] = [PutTrack(track, h, "driver")[g] EXCEPT !.owner = who]
        BY <2>2, <3>2 DEF Upload, ClaimTrack, Sound
      <4>2. PutTrack(track, h, "driver")[g] \in Row
        BY <3>2 DEF Sound
      <4> QED
        BY <3>1, <4>1, <4>2, SpokenSame DEF Row
    <3> QED
      BY <2>1, <2>2, <3>3 DEF Upload, Spoken
  <2>3. ASSUME NEW h \in Hash, NEW who \in Key, PublishTrack(h, who) PROVE Spoken'
    <3>1. who # NoOne
      BY CatalogueAssumption
    <3>2. ASSUME NEW g \in Hash PROVE SpokenOf(g, track'[g], said'[g], putUp)
      <4>1. CASE g = h
        <5>1. track'[g] = [track[g] EXCEPT !.owner = who, !.visible = "public",
                                          !.published = TRUE]
          BY <2>1, <2>3, <3>1, <4>1
             DEF PublishTrack, SetVisible, Owns, ClaimTrack, MayClaim, HasTrack, Sound, Row
        <5>2. said'[g] = "public"
          BY <2>1, <2>3, <4>1 DEF PublishTrack
        <5>3. track[g] \in Row /\ track[g].there /\ ~track[g].shipped
          BY <2>1, <2>3, <4>1 DEF PublishTrack, MayClaim, HasTrack, Sound
        <5>4. /\ track'[g].there /\ ~track'[g].shipped
              /\ track'[g].visible = "public"
          BY <5>1, <5>3 DEF Row
        <5> QED
          BY <2>1, <5>2, <5>3, <5>4 DEF SpokenOf
      <4>2. CASE g # h
        <5>1. track'[g] = track[g] /\ said'[g] = said[g]
          BY <2>1, <2>3, <4>2 DEF PublishTrack, SetVisible, ClaimTrack, Sound
        <5> QED
          BY <2>1, <5>1
      <4> QED
        BY <4>1, <4>2
    <3> QED
      BY <2>1, <2>3, <3>2 DEF PublishTrack, Spoken, VisibleTo
  <2>4. ASSUME NEW h \in Hash, NEW who \in Key, NEW how \in {"private", "shared"},
               track' = SetVisible(track, h, who, how),
               IF Owns(track, h, who)
               THEN said' = [said EXCEPT ![h] = how] /\ putUp' = putUp \ {h}
               ELSE UNCHANGED <<said, putUp>>,
               share' = asked'
        PROVE  Spoken'
    <3>1. CASE Owns(track, h, who)
      <4>1. ASSUME NEW g \in Hash PROVE SpokenOf(g, track'[g], said'[g], putUp')
        <5>1. CASE g = h
          <6>1. track'[g] = [track[g] EXCEPT !.visible = how, !.published = FALSE]
            BY <2>1, <2>4, <3>1, <5>1 DEF SetVisible, Sound
          <6>2. said'[g] = how
            BY <2>1, <2>4, <3>1, <5>1
          <6> QED
            BY <2>1, <3>1, <5>1, <6>1, <6>2 DEF Owns, HasTrack, SpokenOf, Sound, Row
        <5>2. CASE g # h
          <6>1. track'[g] = track[g] /\ said'[g] = said[g] /\ (g \in putUp' <=> g \in putUp)
            BY <2>1, <2>4, <3>1, <5>2 DEF SetVisible, Sound
          <6> QED
            BY <2>1, <6>1 DEF SpokenOf
        <5> QED
          BY <5>1, <5>2
      <4> QED
        BY <2>1, <2>4, <3>1, <4>1 DEF Spoken, VisibleTo
    <3>2. CASE ~Owns(track, h, who)
      BY <2>1, <2>4, <3>2 DEF SetVisible, Spoken
    <3> QED
      BY <3>1, <3>2
  <2>5. ASSUME NEW h \in Hash, NEW who \in Key, WithdrawTrack(h, who) PROVE Spoken'
    BY <2>1, <2>4, <2>5 DEF WithdrawTrack
  <2>6. ASSUME NEW h \in Hash, NEW who \in Key, NEW with \in Key, Share(h, who, with)
        PROVE  Spoken'
    BY <2>1, <2>4, <2>6 DEF Share, ShareTrack
  <2>7. ASSUME NEW h \in Hash, NEW who \in Key, NEW with \in Key, Unshare(h, who, with)
        PROVE  Spoken'
    BY <2>1, <2>7 DEF Unshare, UnshareTrack, Spoken
  <2>8. ASSUME NEW h \in Hash, NEW who \in Key, Delete(h, who) PROVE Spoken'
    <3>1. ASSUME NEW g \in Hash PROVE SpokenOf(g, track'[g], said'[g], putUp')
      <4>1. CASE g = h
        <5>1. track'[g] = NoTrack /\ said'[g] = "private" /\ ~track[g].shipped
          BY <2>1, <2>8, <4>1 DEF Delete, DeleteTrack, Owns, Sound
        <5> QED
          BY <2>1, <5>1 DEF SpokenOf, NoTrack
      <4>2. CASE g # h
        <5>1. track'[g] = track[g] /\ said'[g] = said[g] /\ (g \in putUp' <=> g \in putUp)
          BY <2>1, <2>8, <4>2 DEF Delete, DeleteTrack, Sound
        <5> QED
          BY <2>1, <5>1 DEF SpokenOf
      <4> QED
        BY <4>1, <4>2
    <3> QED
      BY <2>1, <2>8, <3>1 DEF Delete, DeleteShares, Spoken, VisibleTo
  <2>9. ASSUME NEW h \in Hash, KeepDaily(h) PROVE Spoken'
    <3> DEFINE mid == PutTrack(track, h, "the calendar")
    <3>1. \A g \in Hash : SpokenOf(g, mid[g], said[g], putUp)
      BY <2>1, PutSpoken
    <3>2. Sound(mid) /\ HasTrack(mid, h)
      BY <2>1, ServerStatements, PutIsThere DEF Keeps
    <3>3. track' = Publish(mid, h, "the calendar") /\ putUp' = putUp \cup {h}
      BY <2>9 DEF KeepDaily
    <3> HIDE DEF mid
    <3>4. \A g \in Hash : SpokenOf(g, track'[g], said[g], putUp')
      BY <3>1, <3>2, <3>3, PutSpoken
    <3> QED
      BY <2>1, <2>9, <3>4 DEF KeepDaily, Spoken
  <2>10. CASE TakeDown
    <3>1. CASE MayWithdraw(track, racing, NoOne)
      <4>1. ASSUME NEW g \in Hash PROVE SpokenOf(g, track'[g], said'[g], putUp')
        <5>1. CASE g = racing
          <6>1. /\ track'[g] = [track[g] EXCEPT !.published = FALSE, !.visible = "private"]
                /\ said'[g] = "private" /\ ~track[g].shipped /\ track[g].there
            BY <2>1, <2>10, <3>1, <5>1 DEF TakeDown, Withdraw, MayWithdraw, HasTrack, Sound
          <6>2. track[g] \in Row
            BY <2>1 DEF Sound
          <6>3. /\ track'[g].there /\ ~track'[g].shipped
                /\ track'[g].visible = "private" /\ ~track'[g].published
            BY <6>1, <6>2 DEF Row
          <6> QED
            BY <2>1, <6>1, <6>3 DEF SpokenOf
        <5>2. CASE g # racing
          <6>1. track'[g] = track[g] /\ said'[g] = said[g] /\ (g \in putUp' <=> g \in putUp)
            BY <2>1, <2>10, <3>1, <5>2 DEF TakeDown, Withdraw, Sound
          <6> QED
            BY <2>1, <6>1 DEF SpokenOf
        <5> QED
          BY <5>1, <5>2
      <4> QED
        BY <2>1, <2>10, <3>1, <4>1 DEF TakeDown, Spoken, VisibleTo
    <3>2. CASE ~MayWithdraw(track, racing, NoOne)
      BY <2>1, <2>10, <3>2 DEF TakeDown, Withdraw, Spoken
    <3> QED
      BY <3>1, <3>2
  <2>11. ASSUME NEW named \in Hash \cup {NoOne}, Restart(named) PROVE Spoken'
    <3> DEFINE old == Migrate(track)
    <3>1. Sound(old)
      BY <2>1 DEF Sound, Row, RowOK, Migrate, VisibleTo
    <3>2. ASSUME NEW g \in Hash PROVE SpokenOf(g, old[g], said[g], putUp)
      <4>1. CASE track[g].published /\ track[g].visible = "private"
        <5>1. old[g] = [track[g] EXCEPT !.visible = "public"]
          BY <2>1, <4>1 DEF Sound, Migrate
        <5>2. track[g] \in Row
          BY <2>1 DEF Sound
        <5>3. /\ old[g].there = track[g].there /\ old[g].shipped = track[g].shipped
              /\ old[g].visible = "public" /\ old[g].published
          BY <4>1, <5>1, <5>2 DEF Row
        <5> QED
          BY <2>1, <4>1, <5>3 DEF SpokenOf
      <4>2. CASE ~(track[g].published /\ track[g].visible = "private")
        <5>1. old[g] = track[g]
          BY <2>1, <4>2 DEF Sound, Migrate
        <5> QED
          BY <2>1, <5>1
      <4> QED
        BY <4>1, <4>2
    <3> HIDE DEF old
    <3>3. CASE named = NoOne
      <4>1. track' = old /\ putUp' = putUp /\ UNCHANGED <<share, said, asked>>
        BY <2>11, <3>3 DEF Restart, Imported, old
      <4> QED
        BY <2>1, <3>2, <4>1 DEF Spoken
    <3>4. CASE named # NoOne
      <4> DEFINE mid == PutTrack(old, named, NoOne)
      <4>1. /\ named \in Hash /\ track' = Publish(mid, named, NoOne)
            /\ putUp' = putUp \cup {named} /\ UNCHANGED <<share, said, asked>>
        BY <2>11, <3>4 DEF Restart, Imported, old
      <4>2. Sound(mid) /\ HasTrack(mid, named)
        BY <3>1, <4>1, ServerStatements, PutIsThere DEF Keeps
      <4>3. \A g \in Hash : SpokenOf(g, mid[g], said[g], putUp)
        BY <3>1, <3>2, <4>1, PutSpoken
      <4> HIDE DEF mid
      <4>4. \A g \in Hash : SpokenOf(g, track'[g], said[g], putUp')
        BY <4>1, <4>2, <4>3, PutSpoken
      <4> QED
        BY <2>1, <4>1, <4>4 DEF Spoken
    <3> QED
      BY <3>3, <3>4
  <2>12. CASE UNCHANGED catalogueVars
    BY <2>1, <2>12 DEF catalogueVars, Spoken
  <2> QED
    BY <1>2, <2>2, <2>3, <2>5, <2>6, <2>7, <2>8, <2>9, <2>10, <2>11, <2>12 DEF CatalogueNext
<1> QED
  BY <1>1, <1>2, ClaimedInductive, PTL DEF CatalogueSpec

\* Everybody a track is for sees it, and nobody else does unless the server has put
\* it up itself, through any run of uploads, claims, shares, withdrawals, deletions and
\* restarts (main.c: GS_MSG_PUBLISH, GS_MSG_SHARE; gs_store.c: GS_VISIBLE_TO).
THEOREM OnlyThoseItIsFor == CatalogueSpec => []SeenByThoseItIsFor
<1>1. Claimed /\ Spoken => SeenByThoseItIsFor
  <2> SUFFICES ASSUME Claimed, Spoken, NEW h \in Hash, NEW k \in Key
               PROVE
        LET told == \/ h \in Stock
                    \/ track[h].owner = k
                    \/ said[h] = "public"
                    \/ said[h] = "shared" /\ <<h, k>> \in asked
        IN  /\ told => CanSee(track, share, h, k)
            /\ CanSee(track, share, h, k) => told \/ h \in putUp
    BY DEF SeenByThoseItIsFor
  <2>1. /\ track[h] \in Row /\ RowOK(h, track[h]) /\ share = asked
        /\ said[h] \in VisibleTo /\ SpokenOf(h, track[h], said[h], putUp)
    BY DEF Claimed, Spoken
  <2>2. k # NoOne
    BY CatalogueAssumption
  <2> QED
    BY <2>1, <2>2 DEF SpokenOf, RowOK, VisibleTo, CanSee, HasTrack
<1> QED
  BY <1>1, SpokenInductive, PTL

-----------------------------------------------------------------------------
(* What is claimed of races, and who has a name *)

\* What playing a recording back comes to is a time.
RunOK(r) == r.run.finish[0] \in Nat

ClaimOK(c) ==
    /\ {"who", "car", "lap", "race"} \subseteq DOMAIN c
    /\ c.car = 0 /\ c.lap \in Nat /\ c.race \in Nat

ChunkOK(d) ==
    /\ d.chunk \in Nat /\ d.chunks \in Int
    /\ RunOK(d.data)

\* What is on its way to the server.
UpOK(u) ==
    /\ u[1] \in Remote
    /\ u[2].kind = "result" => ClaimOK(u[2].claim)
    /\ u[2].kind = "proof" => ChunkOK(u[2].chunk)

\* What is collected lies within what there is to collect.
CarrierOK(p) ==
    /\ {"hash", "chunks", "pieces"} \subseteq DOMAIN p
    /\ p.chunks \in Int
    /\ DOMAIN p.pieces \subseteq 0 .. p.chunks - 1
    /\ \A i \in DOMAIN p.pieces : RunOK(p.pieces[i])

\* What the server holds of a machine.
ClientOK(c) ==
    /\ {"used", "name", "proved", "session", "nonce", "claim", "proof"} \subseteq DOMAIN c
    /\ c.claim # NoClaim => ClaimOK(c.claim)
    /\ CarrierOK(c.proof)

Held ==
    /\ raced \in Nat
    /\ \A u \in up : UpOK(u)
    /\ DOMAIN client = Remote
    /\ \A m \in Remote : ClientOK(client[m])

Tokens(s) ==
    /\ DOMAIN s = 1 .. MaxTokens
    /\ \A n \in DOMAIN s : {"driver", "expires", "spent"} \subseteq DOMAIN s[n]

PaidWith(s, k) ==
    /\ k.token \in DOMAIN s /\ s[k.token].spent
    /\ s[k.token].driver = k.name

Paid ==
    /\ Tokens(session)
    /\ \A k \in kept : PaidWith(session, k)
    /\ \A j, k \in kept : j.token = k.token => j = k
    /\ \A k \in kept : k.claim.race > 0 => k.run.finish[0] \in 1 .. k.claim.race

-----------------------------------------------------------------------------
(* Cutting up and collecting *)

LEMMA EmptyIsSound == CarrierOK(EmptyCarrier) /\ ClientOK(Gone)
  BY DEF CarrierOK, EmptyCarrier, ClientOK, Gone

\* gs_carrier_chunk: each piece is of the recording it was cut from.
LEMMA CutIsSound ==
    ASSUME NEW hash, NEW len \in Nat, NEW data, RunOK(data)
    PROVE  \A d \in Cut(hash, len, data) : ChunkOK(d)
<1>1. ChunksOf(len) \in Int
  BY ClaimsAssumption DEF ChunksOf
<1> QED
  BY <1>1 DEF Cut, ChunkOK

\* gs_carrier_take: a chunk is kept where it belongs.
LEMMA CollectedIsSound ==
    ASSUME NEW p, NEW d, CarrierOK(p), ChunkOK(d)
    PROVE  CarrierOK(Collected(p, d))
<1>1. CASE Takes(p, d)
  <2> DEFINE q == [i \in {d.chunk} \cup DOMAIN p.pieces |->
                       IF i = d.chunk THEN d.data ELSE p.pieces[i]]
  <2>1. \A i \in DOMAIN q : i \in 0 .. d.chunks - 1 /\ RunOK(q[i])
    BY <1>1 DEF CarrierOK, ChunkOK, Takes
  <2>2. Collected(p, d) = [p EXCEPT !.chunks = d.chunks, !.pieces = q]
    BY <1>1 DEF Collected
  <2> HIDE DEF q
  <2> QED
    BY <2>1, <2>2 DEF CarrierOK, ChunkOK
<1>2. CASE ~Takes(p, d)
  BY <1>2 DEF Collected
<1> QED
  BY <1>1, <1>2

\* Whatever is complete has its first piece.
LEMMA CompleteHasAll ==
    ASSUME NEW p, CarrierOK(p), Complete(p)
    PROVE  0 \in DOMAIN p.pieces
<1>1. p.chunks \in Nat /\ p.chunks > 0
  BY DEF CarrierOK, Complete
<1>2. IsFiniteSet(0 .. p.chunks - 1) /\ Cardinality(0 .. p.chunks - 1) = p.chunks
  <2>1. ASSUME NEW n \in Int
        PROVE  /\ IsFiniteSet(0 .. n)
               /\ Cardinality(0 .. n) = IF 0 > n THEN 0 ELSE n - 0 + 1
    BY FS_Interval
  <2>2. p.chunks - 1 \in Int /\ ~(0 > p.chunks - 1) /\ p.chunks - 1 - 0 + 1 = p.chunks
    BY <1>1
  <2> QED
    BY <2>1, <2>2
<1>3. DOMAIN p.pieces = 0 .. p.chunks - 1
  BY <1>1, <1>2, FS_Subset DEF CarrierOK, Complete
<1> QED
  BY <1>1, <1>3

\* gs_verify: who claims a time finished no later.
LEMMA VerdictIsSound ==
    ASSUME NEW c, ClientOK(c), c.claim # NoClaim, Complete(c.proof), Verdict(c) = "ok",
           c.claim.race > 0
    PROVE  c.proof.pieces[0].run.finish[0] \in 1 .. c.claim.race
<1>1. RunOK(c.proof.pieces[0])
  BY CompleteHasAll DEF ClientOK, CarrierOK
<1>2. TimeVerdict(c.claim.race, c.proof.pieces[0].run.finish[0], "race too good") = "ok"
  BY DEF Verdict, Verify, ClientOK, ClaimOK
<1> QED
  BY <1>1, <1>2 DEF TimeVerdict, RunOK, ClientOK, ClaimOK

-----------------------------------------------------------------------------
(* Tokens *)

\* gs_issue_session: the token is one that paid for nothing.
LEMMA IssuePays ==
    ASSUME NEW m \in Remote, NEW s, NEW c, Issue(m, s, c), Tokens(s),
           NEW ks, \A k \in ks : PaidWith(s, k)
    PROVE  /\ Tokens(session')
           /\ \A k \in ks : PaidWith(session', k)
<1>1. Fresh(s) \in DOMAIN s /\ s[Fresh(s)] = NoSession
  <2>1. Fresh(s) \in FreshToken(s)
    BY DEF Issue, SomeFresh, Fresh
  <2> QED
    BY <2>1 DEF FreshToken, MayIssue
<1> QED
  BY <1>1 DEF Issue, IssueSession, Tokens, PaidWith, NoSession

\* gs_store_spend_session: nothing but that it is spent is changed.
LEMMA SpendPays ==
    ASSUME NEW token \in DOMAIN session, Paid
    PROVE  /\ Tokens(SpendSession(session, token))
           /\ SpendSession(session, token)[token].spent
           /\ \A n \in DOMAIN session :
                SpendSession(session, token)[n].driver = session[n].driver
           /\ \A k \in kept : PaidWith(SpendSession(session, token), k)
  BY DEF Paid, Tokens, PaidWith, SpendSession

-----------------------------------------------------------------------------
(* What each step does *)

\* The datagrams that a result becomes (gs_wire_send_result).
LEMMA ResultIsSound ==
    ASSUME Held, NEW m \in Remote, raced < Len(Driven), NEW race \in Driven[raced + 1],
           SendResult(m, race[1], race[2], race[3])
    PROVE  Held'
<1>1. race[2] \in Nat /\ race[3] \in Nat
  BY ClaimsAssumption DEF Held
<1> DEFINE r == Recorded(m, race[1], race[2])
<1>2. RunOK(r)
  BY <1>1 DEF RunOK, Recorded
<1>3. UpOK(<<m, [kind |-> "result", claim |-> Claim(race[1], race[2]),
                 nonce |-> wire[m].session]>>)
  BY <1>1 DEF UpOK, ClaimOK, Claim
<1>4. ASSUME NEW d \in Cut(race[1], race[3], r)
      PROVE  UpOK(<<m, [kind |-> "proof", chunk |-> d]>>)
  <2>1. ChunkOK(d)
    BY <1>1, <1>2, <1>4, CutIsSound
  <2> QED
    BY <2>1 DEF UpOK
<1>5. \A u \in up' : UpOK(u)
  BY <1>3, <1>4 DEF SendResult, Held
<1> QED
  BY <1>5 DEF SendResult, Held

\* What issuing does to the client it is issued to.
LEMMA IssueHolds ==
    ASSUME Held, NEW m \in Remote, NEW s, NEW c, ClientOK(c), Issue(m, s, c),
           UNCHANGED raced, up' \subseteq up
    PROVE  Held'
  BY DEF Held, Issue, ClientOK

\* A piece of a recording comes in; what it may complete is judged, and paid for.
LEMMA ProofStep ==
    ASSUME Held, Paid, NEW u \in up, u[2].kind = "proof", NEW c,
           \/ Unfinished(u[1], u[2], c)
           \/ TrackMissing(u[1], u[2], c)
           \/ Rejected(u[1], u[2], c)
           \/ TokenRefused(u[1], u[2], c)
           \/ Accepted(u[1], u[2], c)
    PROVE  Held' /\ Paid'
<1> DEFINE m == u[1]
           d == u[2]
<1>1. TakeProof(m, d, c)
  BY DEF Unfinished, TrackMissing, Rejected, TokenRefused, Accepted
<1>2. m \in Remote /\ ClientOK(client[m]) /\ ChunkOK(d.chunk)
  BY DEF Held, UpOK
<1>3. /\ c = [client[m] EXCEPT !.proof = Collected(client[m].proof, d.chunk)]
      /\ up' \subseteq up /\ UNCHANGED raced
  BY <1>1 DEF TakeProof
<1>4. ClientOK(c) /\ c.claim = client[m].claim
  BY <1>2, <1>3, CollectedIsSound DEF ClientOK
<1>5. ClientOK(Judged(c))
  BY <1>4 DEF ClientOK, Judged
<1> HIDE DEF m, d
<1>6. ASSUME UNCHANGED <<session, kept>>,
             client' \in {client, [client EXCEPT ![m] = c], [client EXCEPT ![m] = Judged(c)]}
      PROVE  Held' /\ Paid'
  BY <1>2, <1>3, <1>4, <1>5, <1>6 DEF Held, Paid
<1>7. ASSUME Issue(m, session, Judged(c)), UNCHANGED kept PROVE Held' /\ Paid'
  <2>1. Held'
    BY <1>2, <1>3, <1>5, <1>7, IssueHolds
  <2>2. Tokens(session') /\ \A k \in kept : PaidWith(session', k)
    BY <1>2, <1>7, IssuePays DEF Paid
  <2> QED
    BY <1>7, <2>1, <2>2 DEF Paid
<1>8. CASE Accepted(m, d, c)
  <2> DEFINE s == SpendSession(session, c.nonce)
             new == [token |-> c.nonce, name |-> c.name, claim |-> c.claim,
                     run |-> c.proof.pieces[0].run]
  <2>1. /\ c.nonce \in DOMAIN session /\ ~session[c.nonce].spent
        /\ session[c.nonce].driver = c.name
    BY <1>8 DEF Accepted, MayPay, MaySpend
  <2>2. Issue(m, s, Judged(c)) /\ kept' = kept \cup {new}
    BY <1>8 DEF Accepted
  <2>3. /\ Tokens(s)
        /\ \A k \in kept : PaidWith(s, k)
        /\ PaidWith(s, new)
    <3>1. /\ Tokens(s) /\ s[c.nonce].spent
          /\ s[c.nonce].driver = session[c.nonce].driver
          /\ \A k \in kept : PaidWith(s, k)
      BY <2>1, SpendPays
    <3>2. c.nonce \in DOMAIN s
      BY <2>1, <3>1 DEF Paid, Tokens
    <3> HIDE DEF s
    <3> QED
      BY <2>1, <3>1, <3>2 DEF PaidWith
  <2>4. new.claim.race > 0 => new.run.finish[0] \in 1 .. new.claim.race
    <3>1. c.claim # NoClaim /\ Complete(c.proof) /\ Verdict(c) = "ok"
      BY <1>4, <1>8 DEF Accepted, Finishes, ForThisClaim
    <3> QED
      BY <1>4, <3>1, VerdictIsSound
  <2>5. \A k \in kept : k.token # new.token
    BY <2>1 DEF Paid, PaidWith
  <2> HIDE DEF s, new
  <2>6. Tokens(session') /\ \A k \in kept \cup {new} : PaidWith(session', k)
    BY <1>2, <2>2, <2>3, IssuePays
  <2>7. Held'
    BY <1>2, <1>3, <1>5, <2>2, IssueHolds
  <2> QED
    BY <2>2, <2>4, <2>5, <2>6, <2>7 DEF Paid
<1> QED
  BY <1>6, <1>7, <1>8 DEF m, d, Unfinished, TrackMissing, Rejected, TokenRefused

LEMMA PaidInductive == ClaimsSpec => [](Held /\ Paid)
<1>1. ClaimsInit => Held /\ Paid
  BY EmptyIsSound DEF ClaimsInit, Held, Paid, Tokens, NoSession
<1>2. ASSUME Held, Paid, [ClaimsNext]_claimsVars PROVE Held' /\ Paid'
  <2>1. ASSUME NEW m \in Remote, NEW n, HearToken(m, n) \/ HearRoster(m) PROVE Held' /\ Paid'
    BY <1>2, <2>1 DEF HearToken, HearRoster, Held, Paid
  <2>2. ASSUME NEW m \in Remote, NEW n, JoinUnder(m, n) PROVE Held' /\ Paid'
    <3> DEFINE name == NameAtDoor(driver, client[m], n, SlotOf[m])
               c == [client[m] EXCEPT !.used = TRUE, !.name = name]
    <3>1. ClientOK(c)
      BY <1>2 DEF Held, ClientOK
    <3>2. Issue(m, session, c) /\ UNCHANGED <<raced, up, kept>>
      BY <2>2 DEF JoinUnder
    <3> HIDE DEF c
    <3>3. Held'
      BY <1>2, <3>1, <3>2, IssueHolds
    <3>4. Tokens(session') /\ \A k \in kept : PaidWith(session', k)
      BY <1>2, <3>2, IssuePays DEF Paid
    <3> QED
      BY <1>2, <3>2, <3>3, <3>4 DEF Paid
  <2>3. ASSUME NEW m \in Remote, NEW n, LogIn(m, n) \/ TakeName(m, n) PROVE Held' /\ Paid'
    BY <1>2, <2>3 DEF LogIn, TakeName, BecomeProved, Held, Paid, ClientOK
  <2>4. ASSUME NEW m \in Remote, raced < Len(Driven), NEW race \in Driven[raced + 1],
               SendResult(m, race[1], race[2], race[3])
        PROVE  Held' /\ Paid'
    BY <1>2, <2>4, ResultIsSound DEF SendResult, Paid
  <2>5. ASSUME NEW m \in Remote, Leave(m) PROVE Held' /\ Paid'
    BY <1>2, <2>5, EmptyIsSound DEF Leave, Held, Paid
  <2>6. ASSUME NEW u \in up, TakeResult(u[1], u[2]) PROVE Held' /\ Paid'
    <3>1. ClientOK(ClientClaiming(u[1], u[2]))
      BY <1>2, <2>6, EmptyIsSound
         DEF TakeResult, ClientClaiming, Held, UpOK, ClientOK, ClaimOK, CarrierOK, Expect, EmptyCarrier
    <3> QED
      BY <1>2, <2>6, <3>1 DEF TakeResult, Held, Paid
  <2>7. CASE RestartClaims
    BY <1>2, <2>7, EmptyIsSound DEF RestartClaims, Held, Paid
  <2>8. CASE TimePasses \/ UNCHANGED claimsVars
    BY <1>2, <2>8 DEF TimePasses, claimsVars, Held, Paid
  <2> QED
    BY <1>2, <2>1, <2>2, <2>3, <2>4, <2>5, <2>6, <2>7, <2>8, ProofStep DEF ClaimsNext
<1> QED
  BY <1>1, <1>2, PTL DEF ClaimsSpec

\* A time in the table was driven, in no more than was claimed, and paid for with a
\* token of its own, issued to the name it is under (main.c: gs_take_proof and
\* gs_issue_session; gs_store.c: gs_store_spend_session; gs_verify.c).
THEOREM TimesArePaidFor == ClaimsSpec => []EachTimeIsPaidFor
<1>1. Paid => EachTimeIsPaidFor
  BY DEF Paid, PaidWith, EachTimeIsPaidFor
<1> QED
  BY <1>1, PaidInductive, PTL

-----------------------------------------------------------------------------
(* The table holds the best *)

\* x is the least of the times that are times; 0 where there is none.
IsBest(x, times) ==
    IF times \ {0} = {} THEN x = 0
    ELSE x \in times \ {0} /\ \A u \in times \ {0} : x <= u

LEMMA BestIsLeast ==
    ASSUME NEW times \in SUBSET Nat, NEW x, IsBest(x, times)
    PROVE  Least(times) = x
<1>1. CASE times \ {0} = {}
  BY <1>1 DEF IsBest, Least
<1>2. CASE times \ {0} # {}
  <2>1. x \in times \ {0} /\ \A u \in times \ {0} : x <= u
    BY <1>2 DEF IsBest
  <2>2. ASSUME NEW y \in times \ {0}, \A u \in times \ {0} : y <= u PROVE y = x
    BY <2>1, <2>2
  <2>3. Least(times) = CHOOSE z \in times \ {0} : \A u \in times \ {0} : z <= u
    BY <1>2 DEF Least
  <2> DEFINE y == CHOOSE z \in times \ {0} : \A u \in times \ {0} : z <= u
  <2>4. y \in times \ {0} /\ \A u \in times \ {0} : y <= u
    <3>1. \E z \in times \ {0} : \A u \in times \ {0} : z <= u
      BY <2>1
    <3> QED
      BY <3>1, Zenon
  <2> HIDE DEF y
  <2>5. y = x
    BY <2>2, <2>4
  <2> QED
    BY <2>3, <2>5 DEF y
<1> QED
  BY <1>1, <1>2

\* gs_store_put_record: the better of what stands and what comes.
LEMMA BetterIsBest ==
    ASSUME NEW times \in SUBSET Nat, NEW x, IsBest(x, times), NEW r \in Nat
    PROVE  IsBest(Better(x, r), times \cup {r})
<1>1. CASE times \ {0} = {}
  <2>1. x = 0
    BY <1>1 DEF IsBest
  <2>2. CASE r = 0
    BY <1>1, <2>1, <2>2 DEF IsBest, Better
  <2>3. CASE r # 0
    <3>1. Better(x, r) = r /\ r <= r /\ r \in times \cup {r}
      BY <2>1, <2>3 DEF Better
    <3>2. \A u \in (times \cup {r}) \ {0} : u = r
      BY <1>1
    <3> QED
      BY <2>3, <3>1, <3>2 DEF IsBest
  <2> QED
    BY <2>2, <2>3
<1>2. CASE times \ {0} # {}
  <2>1. x \in times \ {0} /\ \A u \in times \ {0} : x <= u
    BY <1>2 DEF IsBest
  <2>2. x \in Nat /\ x # 0
    BY <2>1
  <2>3. Better(x, r) = IF r > 0 /\ r < x THEN r ELSE x
    BY <2>2 DEF Better
  <2>4. /\ Better(x, r) \in (times \cup {r}) \ {0}
        /\ \A u \in (times \cup {r}) \ {0} : Better(x, r) <= u
    BY <2>1, <2>2, <2>3
  <2> QED
    BY <2>4 DEF IsBest
<1> QED
  BY <1>1, <1>2

LEMMA BetterIsATime ==
    ASSUME NEW old \in [lap : Int, race : Int], NEW lap \in Nat, NEW race \in Nat
    PROVE  [lap |-> Better(old.lap, lap), race |-> Better(old.race, race)]
             \in [lap : Int, race : Int]
<1>1. old.lap \in Int /\ old.race \in Int
  OBVIOUS
<1> QED
  BY <1>1 DEF Better

\* The times accepted of a name on a track.
TimesOf(ks, n, t) == {k.claim.race : k \in {j \in ks : j.name = n /\ j.claim.track = t}}

Best ==
    /\ record \in [Name -> [Kept -> [lap : Int, race : Int]]]
    /\ \A k \in kept : k.claim.race \in Nat /\ k.claim.lap \in Nat
    /\ \A n \in Name, t \in Kept : IsBest(record[n][t].race, TimesOf(kept, n, t))

\* A time that is accepted, and what the table holds after it.
LEMMA AcceptedIsBest ==
    ASSUME Held, Best, NEW u \in up, NEW c,
           c = [client[u[1]] EXCEPT !.proof = Collected(@, u[2].chunk)],
           Accepted(u[1], u[2], c)
    PROVE  Best'
<1> DEFINE new == [token |-> c.nonce, name |-> c.name, claim |-> c.claim,
                   run |-> c.proof.pieces[0].run]
           t0 == c.claim.track
<1>1. /\ kept' = kept \cup {new} /\ t0 \in Kept
      /\ record' = [record EXCEPT ![c.name] = PutRecord(@, t0, c.claim.lap, c.claim.race)]
  BY DEF Accepted
<1>2. c.claim.race \in Nat /\ c.claim.lap \in Nat
  <2>1. ClientOK(client[u[1]]) /\ client[u[1]].claim # NoClaim
    BY DEF Held, UpOK, Accepted, Finishes, ForThisClaim
  <2>2. c.claim = client[u[1]].claim
    BY <2>1 DEF ClientOK
  <2> QED
    BY <2>1, <2>2 DEF ClientOK, ClaimOK
<1>3. ASSUME NEW n \in Name, NEW t \in Kept
      PROVE  IsBest(record'[n][t].race, TimesOf(kept', n, t))
  <2>1. /\ TimesOf(kept, n, t) \in SUBSET Nat
        /\ IsBest(record[n][t].race, TimesOf(kept, n, t))
    BY DEF Best, TimesOf
  <2>2. CASE n = c.name /\ t = t0
    <3>1. TimesOf(kept', n, t) = TimesOf(kept, n, t) \cup {c.claim.race}
      <4>1. new.name = n /\ new.claim.track = t /\ new.claim.race = c.claim.race
        BY <2>2
      <4> HIDE DEF new
      <4> QED
        BY <1>1, <4>1 DEF TimesOf
    <3>2. record'[n][t].race = Better(record[n][t].race, c.claim.race)
      BY <1>1, <2>2 DEF Best, PutRecord
    <3> QED
      BY <1>2, <2>1, <3>1, <3>2, BetterIsBest
  <2>3. CASE ~(n = c.name /\ t = t0)
    <3>1. TimesOf(kept', n, t) = TimesOf(kept, n, t)
      <4>1. ~(new.name = n /\ new.claim.track = t)
        BY <2>3
      <4> HIDE DEF new
      <4> QED
        BY <1>1, <4>1 DEF TimesOf
    <3>2. record'[n][t] = record[n][t]
      BY <1>1, <2>3 DEF Best, PutRecord
    <3> QED
      BY <2>1, <3>1, <3>2
  <2> QED
    BY <2>2, <2>3
<1>4. record' \in [Name -> [Kept -> [lap : Int, race : Int]]]
  <2>1. CASE c.name \in Name
    <3>1. PutRecord(record[c.name], t0, c.claim.lap, c.claim.race)
            \in [Kept -> [lap : Int, race : Int]]
      <4> DEFINE old == record[c.name][t0]
      <4>1. record[c.name] \in [Kept -> [lap : Int, race : Int]] /\ old \in [lap : Int, race : Int]
        BY <1>1, <2>1 DEF Best
      <4> DEFINE row == [lap |-> Better(old.lap, c.claim.lap),
                         race |-> Better(old.race, c.claim.race)]
      <4>2. PutRecord(record[c.name], t0, c.claim.lap, c.claim.race)
              = [record[c.name] EXCEPT ![t0] = row]
        BY DEF PutRecord
      <4> HIDE DEF old
      <4>3. row \in [lap : Int, race : Int]
        BY <1>2, <4>1, BetterIsATime
      <4> HIDE DEF row
      <4> QED
        BY <4>1, <4>2, <4>3
    <3> QED
      BY <1>1, <2>1, <3>1 DEF Best
  <2>2. CASE c.name \notin Name
    BY <1>1, <2>2 DEF Best
  <2> QED
    BY <2>1, <2>2
<1>5. \A k \in kept' : k.claim.race \in Nat /\ k.claim.lap \in Nat
  BY <1>1, <1>2 DEF Best
<1> QED
  BY <1>3, <1>4, <1>5 DEF Best

LEMMA BestInductive == ClaimsSpec => []Best
<1>1. ClaimsInit => Best
  <2> SUFFICES ASSUME ClaimsInit PROVE Best
    OBVIOUS
  <2>1. record \in [Name -> [Kept -> [lap : Int, race : Int]]] /\ kept = {}
    BY DEF ClaimsInit, NoRecord
  <2>2. ASSUME NEW n \in Name, NEW t \in Kept
        PROVE  IsBest(record[n][t].race, TimesOf(kept, n, t))
    <3>1. TimesOf(kept, n, t) = {} /\ record[n][t].race = 0
      BY DEF ClaimsInit, NoRecord, TimesOf
    <3> QED
      BY <3>1 DEF IsBest
  <2> QED
    BY <2>1, <2>2 DEF Best
<1>2. ASSUME Held, Best, [ClaimsNext]_claimsVars PROVE Best'
  <2>1. ASSUME UNCHANGED <<record, kept>> PROVE Best'
    BY <1>2, <2>1 DEF Best
  <2>2. ASSUME NEW u \in up, NEW c,
               c = [client[u[1]] EXCEPT !.proof = Collected(@, u[2].chunk)],
               \/ Unfinished(u[1], u[2], c) \/ TrackMissing(u[1], u[2], c)
               \/ Rejected(u[1], u[2], c) \/ TokenRefused(u[1], u[2], c)
               \/ Accepted(u[1], u[2], c)
        PROVE  Best'
    BY <1>2, <2>1, <2>2, AcceptedIsBest
       DEF Unfinished, TrackMissing, Rejected, TokenRefused
  <2>3. ASSUME NEW m \in Remote, NEW n,
               \/ HearToken(m, n) \/ HearRoster(m) \/ JoinUnder(m, n) \/ LogIn(m, n)
               \/ TakeName(m, n) \/ Leave(m)
        PROVE  Best'
    BY <2>1, <2>3 DEF HearToken, HearRoster, JoinUnder, LogIn, TakeName, BecomeProved, Leave
  <2>4. ASSUME NEW m \in Remote, NEW race, SendResult(m, race[1], race[2], race[3])
        PROVE  Best'
    BY <2>1, <2>4 DEF SendResult
  <2>5. ASSUME NEW u \in up, TakeResult(u[1], u[2]) PROVE Best'
    BY <2>1, <2>5 DEF TakeResult
  <2>6. CASE RestartClaims \/ TimePasses \/ UNCHANGED claimsVars
    BY <2>1, <2>6 DEF RestartClaims, TimePasses, claimsVars
  <2> QED
    BY <1>2, <2>2, <2>3, <2>4, <2>5, <2>6 DEF ClaimsNext
<1> QED
  BY <1>1, <1>2, PaidInductive, PTL DEF ClaimsSpec

\* The table holds, of every name on every track, the best time that was accepted and
\* nothing else (main.c: gs_take_proof; gs_store.c: gs_store_put_record).
THEOREM BestStands == ClaimsSpec => []TableIsTheBest
<1>1. Best => TableIsTheBest
  <2> SUFFICES ASSUME Best, NEW n \in Name, NEW t \in Kept
               PROVE  record[n][t].race = Least(TimesOf(kept, n, t))
    BY DEF TableIsTheBest, TimesOf
  <2>1. TimesOf(kept, n, t) \in SUBSET Nat /\ IsBest(record[n][t].race, TimesOf(kept, n, t))
    BY DEF Best, TimesOf
  <2> QED
    BY <2>1, BestIsLeast
<1> QED
  BY <1>1, BestInductive, PTL

-----------------------------------------------------------------------------
(* Everybody can claim once more *)

\* The tokens machine m may yet claim with: heard, on their way either way, or come
\* with a claim.
Holds(m) ==
    {wire[m].session, client[m].session, client[m].nonce}
    \cup {t[2] : t \in {x \in down : x[1] = m}}
    \cup {u[2].nonce : u \in {x \in up : x[1] = m /\ x[2].kind = "result"}}

OwnOf(m) ==
    /\ client[m].used => client[m].name # NoOne
    /\ client[m].proved => client[m].used
    /\ client[m].claim # NoClaim => client[m].used
    /\ client[m].session # 0 =>
          ~session[client[m].session].spent
    /\ \A t \in Holds(m) \ {0} :
          t \in DOMAIN session /\ session[t].driver # NoOne

Own ==
    /\ DOMAIN wire = Remote
    /\ \A m \in Remote : {"session", "called"} \subseteq DOMAIN wire[m]
    /\ \A m \in Remote : OwnOf(m)
    /\ \A m, k \in Remote : client[k].session # 0 /\ client[k].session \in Holds(m) => m = k

\* A step that issues no token spreads none either.
LEMMA NothingIssued ==
    ASSUME Own, UNCHANGED session,
           DOMAIN wire' = Remote,
           \A m \in Remote :
               /\ {"session", "called"} \subseteq DOMAIN wire'[m]
               /\ client'[m].used => client'[m].name # NoOne
               /\ client'[m].proved => client'[m].used
               /\ client'[m].claim # NoClaim => client'[m].used
               /\ client'[m].session \in {0, client[m].session}
               /\ Holds(m)' \subseteq Holds(m) \cup {0}
    PROVE  Own'
<1>1. ASSUME NEW m \in Remote PROVE OwnOf(m)'
  <2>1. OwnOf(m)
    BY DEF Own
  <2>2. client'[m].session # 0 => ~session'[client'[m].session].spent
    BY <2>1 DEF OwnOf
  <2>3. \A t \in Holds(m)' \ {0} : t \in DOMAIN session' /\ session'[t].driver # NoOne
    BY <2>1 DEF OwnOf
  <2> QED
    BY <2>2, <2>3 DEF OwnOf
<1>2. ASSUME NEW m \in Remote, NEW k \in Remote,
             client'[k].session # 0, client'[k].session \in Holds(m)'
      PROVE  m = k
  <2>1. client[k].session = client'[k].session /\ client[k].session \in Holds(m)
    BY <1>2
  <2> QED
    BY <1>2, <2>1 DEF Own
<1> QED
  BY <1>1, <1>2 DEF Own

\* gs_issue_session: the new token is nobody's, and the one that may have been spent
\* for it is this machine's.
LEMMA IssuedIsOwn ==
    ASSUME Own, Held, Paid, NEW m \in Remote, NEW s, NEW c, Issue(m, s, c),
           Tokens(s), ClientOK(c), c.used, c.name # NoOne, c.nonce = client[m].nonce,
           \A t \in DOMAIN session :
               /\ s[t].driver = session[t].driver
               /\ s[t].spent => session[t].spent \/ t = c.nonce,
           up' \subseteq up, UNCHANGED wire
    PROVE  Own'
<1> DEFINE n == Fresh(s)
<1>1. n \in DOMAIN s /\ s[n] = NoSession
  <2>1. n \in FreshToken(s)
    BY DEF Issue, SomeFresh, Fresh
  <2> QED
    BY <2>1 DEF FreshToken, MayIssue
<1>2. /\ session' = [s EXCEPT ![n] = [driver |-> c.name, expires |-> now + Lifetime,
                                     spent |-> FALSE]]
      /\ client' = [client EXCEPT ![m] = [c EXCEPT !.session = n]]
      /\ down' = down \cup {<<m, n>>}
  BY DEF Issue, IssueSession
<1> HIDE DEF n
<1>3. DOMAIN session = DOMAIN s /\ n # 0 /\ session[n].driver = NoOne
  BY <1>1 DEF Paid, Tokens, NoSession
<1>4. \A k \in Remote : n \notin Holds(k)
  BY <1>3 DEF Own, OwnOf
<1>5. /\ \A k \in Remote \ {m} : client'[k] = client[k]
      /\ client'[m].session = n /\ client'[m].nonce = client[m].nonce
      /\ client'[m].used /\ client'[m].name # NoOne
  BY <1>2 DEF Held, ClientOK
<1>6. /\ \A k \in Remote \ {m} : Holds(k)' \subseteq Holds(k)
      /\ Holds(m)' \subseteq Holds(m) \cup {n}
  <2>1. ASSUME NEW k \in Remote
        PROVE  {u[2].nonce : u \in {x \in up' : x[1] = k /\ x[2].kind = "result"}}
                 \subseteq Holds(k)
    BY DEF Holds
  <2>2. ASSUME NEW k \in Remote
        PROVE  {t[2] : t \in {x \in down' : x[1] = k}}
                 \subseteq Holds(k) \cup (IF k = m THEN {n} ELSE {})
    BY <1>2 DEF Holds
  <2>3. ASSUME NEW k \in Remote
        PROVE  {wire'[k].session, client'[k].session, client'[k].nonce}
                 \subseteq Holds(k) \cup (IF k = m THEN {n} ELSE {})
    BY <1>5 DEF Holds
  <2>4. ASSUME NEW k \in Remote, NEW t \in Holds(k)'
        PROVE  t \in Holds(k) \cup (IF k = m THEN {n} ELSE {})
    <3>1. \/ t \in {wire'[k].session, client'[k].session, client'[k].nonce}
          \/ t \in {x[2] : x \in {y \in down' : y[1] = k}}
          \/ t \in {u[2].nonce : u \in {x \in up' : x[1] = k /\ x[2].kind = "result"}}
      BY DEF Holds
    <3> QED
      BY <2>1, <2>2, <2>3, <3>1
  <2> QED
    BY <2>4
<1>7. ASSUME NEW k \in Remote PROVE OwnOf(k)'
  <2>1. \A t \in Holds(k)' \ {0} : t \in DOMAIN session' /\ session'[t].driver # NoOne
    <3>1. \A t \in Holds(k) \ {0} : t \in DOMAIN s /\ s[t].driver # NoOne
      BY <1>3 DEF Own, OwnOf
    <3>2. Holds(k)' \subseteq Holds(k) \cup {n}
      BY <1>6
    <3> QED
      BY <1>1, <1>2, <3>1, <3>2
  <2>2. client'[k].session # 0 => ~session'[client'[k].session].spent
    <3>1. CASE k = m
      BY <1>1, <1>2, <1>5, <3>1
    <3>2. CASE k # m /\ client[k].session # 0
      <4>1. /\ client[k].session \in Holds(k) /\ client[k].session \in DOMAIN session
            /\ ~session[client[k].session].spent
        BY <3>2 DEF Own, OwnOf, Holds
      <4>2. client[k].session # c.nonce
        BY <3>2 DEF Own, Holds
      <4>3. client[k].session # n
        BY <1>4, <4>1
      <4> QED
        BY <1>2, <1>3, <1>5, <3>2, <4>1, <4>2, <4>3
    <3> QED
      BY <1>5, <3>1, <3>2
  <2>3. /\ client'[k].used => client'[k].name # NoOne
        /\ client'[k].proved => client'[k].used
        /\ client'[k].claim # NoClaim => client'[k].used
    <3>1. CASE k = m
      BY <1>5, <3>1
    <3>2. CASE k # m
      <4>1. OwnOf(k) /\ client'[k] = client[k]
        BY <1>5, <3>2 DEF Own
      <4> QED
        BY <4>1 DEF OwnOf
    <3> QED
      BY <3>1, <3>2
  <2> QED
    BY <2>1, <2>2, <2>3 DEF OwnOf
<1>8. ASSUME NEW j \in Remote, NEW k \in Remote,
             client'[k].session # 0, client'[k].session \in Holds(j)'
      PROVE  j = k
  <2>1. CASE k = m
    BY <1>4, <1>5, <1>6, <1>8, <2>1
  <2>2. CASE k # m
    <3>1. client[k].session \in Holds(k) /\ client[k].session = client'[k].session
      BY <1>5, <2>2 DEF Holds
    <3>2. client[k].session \in Holds(j)
      BY <1>4, <1>6, <1>8, <3>1
    <3> QED
      BY <1>8, <3>1, <3>2 DEF Own
  <2> QED
    BY <2>1, <2>2
<1> QED
  BY <1>7, <1>8 DEF Own

\* A piece of a recording that comes in, whichever way it goes.
LEMMA ProofIsOwn ==
    ASSUME Own, Held, Paid, NEW u \in up, u[2].kind = "proof", NEW c,
           \/ Unfinished(u[1], u[2], c)
           \/ TrackMissing(u[1], u[2], c)
           \/ Rejected(u[1], u[2], c)
           \/ TokenRefused(u[1], u[2], c)
           \/ Accepted(u[1], u[2], c)
    PROVE  Own'
<1> DEFINE m == u[1]
           d == u[2]
<1>1. /\ m \in Remote /\ ClientOK(client[m]) /\ ChunkOK(d.chunk)
      /\ c = [client[m] EXCEPT !.proof = Collected(client[m].proof, d.chunk)]
      /\ up' \subseteq up /\ UNCHANGED wire
  BY DEF Held, UpOK, TakeProof, Unfinished, TrackMissing, Rejected, TokenRefused, Accepted
<1>2. /\ ClientOK(c)
      /\ c.used = client[m].used /\ c.name = client[m].name /\ c.proved = client[m].proved
      /\ c.claim = client[m].claim
      /\ c.nonce = client[m].nonce /\ c.session = client[m].session
  BY <1>1, CollectedIsSound DEF ClientOK
<1>3. /\ ClientOK(Judged(c)) /\ Judged(c).claim = NoClaim
      /\ Judged(c).used = client[m].used /\ Judged(c).name = client[m].name
      /\ Judged(c).proved = client[m].proved
      /\ Judged(c).nonce = client[m].nonce /\ Judged(c).session = client[m].session
  BY <1>2 DEF ClientOK, Judged
<1>4. OwnOf(m)
  BY <1>1 DEF Own
<1> HIDE DEF m, d
<1>5. ASSUME UNCHANGED <<session, down>>,
             client' \in {client, [client EXCEPT ![m] = c], [client EXCEPT ![m] = Judged(c)]}
      PROVE  Own'
  <2>1. ASSUME NEW k \in Remote
        PROVE  /\ {"session", "called"} \subseteq DOMAIN wire'[k]
               /\ client'[k].used => client'[k].name # NoOne
               /\ client'[k].proved => client'[k].used
               /\ client'[k].claim # NoClaim => client'[k].used
               /\ client'[k].session \in {0, client[k].session}
               /\ Holds(k)' \subseteq Holds(k) \cup {0}
    <3>1. OwnOf(k) /\ {"session", "called"} \subseteq DOMAIN wire[k]
      BY DEF Own
    <3>2. /\ client'[k].used = client[k].used /\ client'[k].name = client[k].name
          /\ client'[k].proved = client[k].proved
          /\ client'[k].claim \in {client[k].claim, NoClaim}
          /\ client'[k].nonce = client[k].nonce /\ client'[k].session = client[k].session
      BY <1>1, <1>2, <1>3, <1>5 DEF Held
    <3>3. Holds(k)' \subseteq Holds(k)
      BY <1>1, <1>5, <3>2 DEF Holds
    <3> QED
      BY <1>1, <3>1, <3>2, <3>3 DEF OwnOf
  <2> QED
    BY <1>1, <1>5, <2>1, NothingIssued DEF Own
<1>6. ASSUME ForThisClaim(m, d),
             \/ Issue(m, session, Judged(c))
             \/ c.nonce \in DOMAIN session /\ Issue(m, SpendSession(session, c.nonce), Judged(c))
      PROVE  Own'
  <2>1. Judged(c).used /\ Judged(c).name # NoOne
    BY <1>3, <1>4, <1>6 DEF ForThisClaim, OwnOf
  <2>2. ASSUME Issue(m, session, Judged(c)) PROVE Own'
    BY <1>1, <1>2, <1>3, <2>1, <2>2, IssuedIsOwn DEF Paid
  <2>3. ASSUME c.nonce \in DOMAIN session,
               Issue(m, SpendSession(session, c.nonce), Judged(c))
        PROVE  Own'
    <3> DEFINE s == SpendSession(session, c.nonce)
    <3>1. Tokens(s) /\ \A t \in DOMAIN session : s[t].driver = session[t].driver
      BY <2>3, SpendPays
    <3>2. \A t \in DOMAIN session : s[t].spent => session[t].spent \/ t = c.nonce
      BY <2>3 DEF SpendSession
    <3> HIDE DEF s
    <3>3. Issue(m, s, Judged(c))
      BY <2>3 DEF s
    <3> QED
      BY <1>1, <1>2, <1>3, <2>1, <3>1, <3>2, <3>3, IssuedIsOwn
  <2> QED
    BY <1>6, <2>2, <2>3
<1>7. CASE Unfinished(m, d, c) \/ TrackMissing(m, d, c)
  BY <1>5, <1>7 DEF Unfinished, TrackMissing
<1>8. CASE Rejected(m, d, c) \/ TokenRefused(m, d, c)
  BY <1>6, <1>8 DEF Rejected, TokenRefused, Finishes
<1>9. CASE Accepted(m, d, c)
  BY <1>6, <1>9 DEF Accepted, Finishes, MayPay, MaySpend
<1> QED
  BY <1>7, <1>8, <1>9 DEF m, d

LEMMA OwnInductive == ClaimsSpec => []Own
<1>1. ClaimsInit => Own
  BY DEF ClaimsInit, Own, OwnOf, Holds, Gone, Unheard
<1>2. ASSUME Held, Paid, Own, [ClaimsNext]_claimsVars PROVE Own'
  <2> DEFINE Fine(k) ==
        /\ {"session", "called"} \subseteq DOMAIN wire'[k]
        /\ client'[k].used => client'[k].name # NoOne
        /\ client'[k].proved => client'[k].used
        /\ client'[k].claim # NoClaim => client'[k].used
        /\ client'[k].session \in {0, client[k].session}
        /\ Holds(k)' \subseteq Holds(k) \cup {0}
  <2>1. \A k \in Remote : /\ OwnOf(k) /\ ClientOK(client[k])
                          /\ {"session", "called"} \subseteq DOMAIN wire[k]
    BY <1>2 DEF Own, Held
  <2>2. DOMAIN wire = Remote /\ DOMAIN client = Remote
    BY <1>2 DEF Own, Held
  <2>3. ASSUME NEW m \in Remote, NEW n, HearToken(m, n) PROVE Own'
    <3>1. ASSUME NEW k \in Remote PROVE Fine(k)
      <4>1. client' = client /\ UNCHANGED <<session, up>>
        BY <2>3 DEF HearToken
      <4>2. Holds(k)' \subseteq Holds(k)
        <5>1. wire'[k].session \in Holds(k) /\ {"session", "called"} \subseteq DOMAIN wire'[k]
          BY <2>1, <2>2, <2>3 DEF HearToken, Holds
        <5> QED
          BY <2>3, <4>1, <5>1 DEF HearToken, Holds
      <4>3. {"session", "called"} \subseteq DOMAIN wire'[k]
        BY <2>1, <2>2, <2>3 DEF HearToken
      <4> QED
        BY <2>1, <4>1, <4>2, <4>3 DEF OwnOf
    <3> QED
      BY <1>2, <2>2, <2>3, <3>1, NothingIssued DEF HearToken
  <2>4. ASSUME NEW m \in Remote, HearRoster(m) PROVE Own'
    <3>1. ASSUME NEW k \in Remote PROVE Fine(k)
      <4>1. UNCHANGED <<client, session, up, down>>
        BY <2>4 DEF HearRoster
      <4>2. /\ wire'[k].session = wire[k].session
            /\ {"session", "called"} \subseteq DOMAIN wire'[k]
        BY <2>1, <2>2, <2>4 DEF HearRoster
      <4>3. Holds(k)' = Holds(k)
        BY <4>1, <4>2 DEF Holds
      <4> QED
        BY <2>1, <4>1, <4>2, <4>3 DEF OwnOf
    <3> QED
      BY <1>2, <2>2, <2>4, <3>1, NothingIssued DEF HearRoster
  <2>5. ASSUME NEW m \in Remote, NEW n \in Typed[m], JoinUnder(m, n) PROVE Own'
    <3> DEFINE name == NameAtDoor(driver, client[m], n, SlotOf[m])
               c == [client[m] EXCEPT !.used = TRUE, !.name = name]
    <3>1. name # NoOne
      BY <2>1, ClaimsAssumption DEF NameAtDoor, OwnOf
    <3>2. Issue(m, session, c) /\ UNCHANGED <<up, wire>>
      BY <2>5 DEF JoinUnder
    <3> HIDE DEF name
    <3>3. ClientOK(c) /\ c.used /\ c.name = name /\ c.nonce = client[m].nonce
      BY <2>1 DEF ClientOK
    <3> HIDE DEF c
    <3> QED
      BY <1>2, <3>1, <3>2, <3>3, IssuedIsOwn DEF Paid
  <2>6. ASSUME NEW m \in Remote, NEW n \in Typed[m], LogIn(m, n) \/ TakeName(m, n) PROVE Own'
    <3>1. n # NoOne /\ BecomeProved(m, n)
      BY <2>6, ClaimsAssumption DEF LogIn, TakeName
    <3>2. ASSUME NEW k \in Remote PROVE Fine(k)
      <4>1. UNCHANGED <<wire, session, up, down>>
        BY <3>1 DEF BecomeProved
      <4>2. /\ client'[k].session = client[k].session /\ client'[k].nonce = client[k].nonce
            /\ client'[k].used = client[k].used /\ client'[k].claim = client[k].claim
            /\ client'[k].name \in {client[k].name, n}
            /\ client'[k].proved => client'[k].used
        BY <2>1, <2>2, <3>1 DEF BecomeProved, ClientOK, OwnOf
      <4>3. Holds(k)' = Holds(k)
        BY <4>1, <4>2 DEF Holds
      <4> QED
        BY <2>1, <3>1, <4>1, <4>2, <4>3 DEF OwnOf
    <3> QED
      BY <1>2, <2>2, <3>1, <3>2, NothingIssued DEF BecomeProved
  <2>7. ASSUME NEW m \in Remote, NEW on, NEW time, NEW len, SendResult(m, on, time, len)
        PROVE  Own'
    <3>1. UNCHANGED <<client, wire, session, down>>
      BY <2>7 DEF SendResult
    <3>2. \A x \in up' : x \in up \/ (x[1] = m /\ (x[2].kind = "result" => x[2].nonce = wire[m].session))
      BY <2>7 DEF SendResult
    <3>3. ASSUME NEW k \in Remote PROVE Fine(k)
      <4>1. Holds(k)' \subseteq Holds(k)
        BY <3>1, <3>2 DEF Holds
      <4> QED
        BY <2>1, <3>1, <4>1 DEF OwnOf
    <3> QED
      BY <1>2, <2>2, <3>1, <3>3, NothingIssued
  <2>8. ASSUME NEW m \in Remote, Leave(m) PROVE Own'
    <3>1. ASSUME NEW k \in Remote PROVE Fine(k)
      <4>1. up' \subseteq up /\ down' \subseteq down
        BY <2>8 DEF Leave
      <4>2. \/ client'[k] = client[k] /\ wire'[k] = wire[k]
            \/ client'[k] = Gone /\ wire'[k] = Unheard
        BY <2>2, <2>8 DEF Leave
      <4>3. Holds(k)' \subseteq Holds(k) \cup {0}
        BY <4>1, <4>2 DEF Holds, Gone, Unheard
      <4> QED
        BY <2>1, <4>2, <4>3 DEF OwnOf, Gone, Unheard
    <3>2. DOMAIN wire' = Remote /\ UNCHANGED session
      BY <2>2, <2>8 DEF Leave
    <3> QED
      BY <1>2, <3>1, <3>2, NothingIssued
  <2>9. ASSUME NEW u \in up, TakeResult(u[1], u[2]) PROVE Own'
    <3>1. u[1] \in Remote
      BY <1>2 DEF Held, UpOK
    <3>2. ASSUME NEW k \in Remote PROVE Fine(k)
      <4>1. up' \subseteq up /\ UNCHANGED <<down, wire, session>>
        BY <2>9 DEF TakeResult
      <4>2. /\ client'[k].session = client[k].session
            /\ client'[k].used = client[k].used /\ client'[k].name = client[k].name
            /\ client'[k].proved = client[k].proved
            /\ client'[k].claim # NoClaim => client'[k].used
            /\ client'[k].nonce \in Holds(k)
        BY <2>1, <2>2, <2>9, <3>1 DEF TakeResult, ClientClaiming, ClientOK, OwnOf, Holds
      <4>3. Holds(k)' \subseteq Holds(k)
        BY <4>1, <4>2 DEF Holds
      <4> QED
        BY <2>1, <4>1, <4>2, <4>3 DEF OwnOf
    <3> QED
      BY <1>2, <2>2, <2>9, <3>2, NothingIssued DEF TakeResult
  <2>10. CASE RestartClaims
    BY <2>10 DEF RestartClaims, Own, OwnOf, Holds, Gone, Unheard
  <2>11. CASE TimePasses \/ UNCHANGED claimsVars
    BY <1>2, <2>11 DEF TimePasses, claimsVars, Own, OwnOf, Holds
  <2> QED
    BY <1>2, <2>3, <2>4, <2>5, <2>6, <2>7, <2>8, <2>9, <2>10, <2>11, ProofIsOwn DEF ClaimsNext
<1> QED
  BY <1>1, <1>2, PaidInductive, PTL DEF ClaimsSpec

\* Whatever became of its claims, of other machines' and of the server, the token a
\* client was last given is good (main.c: gs_issue_session, gs_take_proof).
THEOREM AlwaysOneToSpend == ClaimsSpec => []NeverLeftWithout
<1>1. Own => NeverLeftWithout
  BY DEF Own, OwnOf, Holds, NeverLeftWithout
<1> QED
  BY <1>1, OwnInductive, PTL

-----------------------------------------------------------------------------
(* A code opens a name once *)

\* The last code that opened a name is the last step its row remembers, so that what
\* opens it next is later.
Opened ==
    /\ DOMAIN account = Name
    /\ \A n \in Name : {"there", "password", "totp", "at"} \subseteq DOMAIN account[n]
    /\ openings \in [Name -> Seq(Nat)]
    /\ \A n \in Name : openings[n] # <<>> => account[n].at = openings[n][Len(openings[n])]

LEMMA OpenedInductive == NamesSpec => [](Opened /\ CodesOpenOnce)
<1>1. NamesInit => Opened /\ CodesOpenOnce
  BY DEF NamesInit, Opened, CodesOpenOnce, NoDriver
<1>2. ASSUME Opened, CodesOpenOnce, [NamesNext]_namesVars PROVE Opened' /\ CodesOpenOnce'
  <2>1. ASSUME NEW m \in Remote, NEW n \in Word, JoinAs(m, n)
        PROVE  Opened' /\ CodesOpenOnce'
    <3>1. /\ openings' = openings
          /\ account' = account \/ \E name : account' = PutDriver(account, name)
      BY <2>1 DEF JoinAs
    <3>2. DOMAIN account' = Name
      BY <1>2, <3>1 DEF Opened, PutDriver
    <3>3. ASSUME NEW k \in Name
          PROVE  /\ {"there", "password", "totp", "at"} \subseteq DOMAIN account'[k]
                 /\ account'[k].at = account[k].at
      <4>1. {"there", "password", "totp", "at"} \subseteq DOMAIN account[k] /\ k \in DOMAIN account
        BY <1>2 DEF Opened
      <4>2. CASE account' = account
        BY <4>1, <4>2
      <4>3. ASSUME NEW name, account' = PutDriver(account, name)
            PROVE  account'[k] \in {account[k], [account[k] EXCEPT !.there = TRUE]}
        BY <4>1, <4>3 DEF PutDriver
      <4> QED
        BY <3>1, <4>1, <4>2, <4>3
    <3> QED
      BY <1>2, <3>1, <3>2, <3>3 DEF Opened, CodesOpenOnce
  <2>2. ASSUME NEW m \in Remote, NEW n \in Word, NEW s, ClaimName(m, n, s)
        PROVE  Opened' /\ CodesOpenOnce'
    <3>1. n \in Name
      BY NamesAssumption
    <3>2. /\ openings' = [openings EXCEPT ![n] = <<>>]
          /\ \A k \in Name \ {n} : account'[k] = account[k]
          /\ DOMAIN account' = Name
          /\ {"there", "password", "totp", "at"} \subseteq DOMAIN account'[n]
      BY <1>2, <2>2, <3>1 DEF ClaimName, Opened, SetTotp, SetPassword, PutDriver
    <3>3. openings' \in [Name -> Seq(Nat)] /\ openings'[n] = <<>>
      <4>1. <<>> \in Seq(Nat)
        OBVIOUS
      <4> QED
        BY <1>2, <3>1, <3>2, <4>1 DEF Opened
    <3>4. ASSUME NEW k \in Name
          PROVE  /\ {"there", "password", "totp", "at"} \subseteq DOMAIN account'[k]
                 /\ openings'[k] # <<>> => account'[k].at = openings'[k][Len(openings'[k])]
                 /\ \A i \in 2 .. Len(openings'[k]) : openings'[k][i-1] < openings'[k][i]
      <4>1. CASE k = n
        BY <3>2, <3>3, <4>1
      <4>2. CASE k # n
        <5>1. openings'[k] = openings[k] /\ account'[k] = account[k]
          BY <1>2, <3>2, <4>2 DEF Opened
        <5> QED
          BY <1>2, <5>1 DEF Opened, CodesOpenOnce
      <4> QED
        BY <4>1, <4>2
    <3> QED
      BY <3>2, <3>3, <3>4 DEF Opened, CodesOpenOnce
  <2>3. ASSUME NEW m \in Remote, NEW n \in Word, NEW s \in Secret, NEW at \in 1 .. MaxStep + 1,
               Login(m, n, [secret |-> s, step |-> at])
        PROVE  Opened' /\ CodesOpenOnce'
    <3>1. n \in Name /\ at \in Nat
      BY NamesAssumption
    <3>2. CASE account[n].totp = NoOne
      BY <1>2, <2>3, <3>2 DEF Login, CodeSpent, Opened, CodesOpenOnce
    <3>3. CASE account[n].totp # NoOne
      <4>1. account[n].at < at
        BY <2>3, <3>3 DEF Login, CodeOpens, RightSteps, MayUseTotp
      <4>2. /\ openings' = [openings EXCEPT ![n] = Append(openings[n], at)]
            /\ account' = [account EXCEPT ![n].at = at]
        BY <2>3, <3>3 DEF Login, CodeSpent, UseTotp
      <4>3. /\ openings[n] \in Seq(Nat)
            /\ openings'[n] = Append(openings[n], at)
            /\ openings' \in [Name -> Seq(Nat)]
            /\ account'[n].at = at
            /\ \A k \in Name \ {n} : openings'[k] = openings[k] /\ account'[k] = account[k]
            /\ DOMAIN account' = Name
            /\ {"there", "password", "totp", "at"} \subseteq DOMAIN account'[n]
        BY <1>2, <3>1, <4>2 DEF Opened
      <4>4. \A i \in 2 .. Len(openings'[n]) : openings'[n][i-1] < openings'[n][i]
        <5> DEFINE o == openings[n]
        <5>1. /\ o \in Seq(Nat) /\ Len(o) \in Nat
              /\ Len(Append(o, at)) = Len(o) + 1 /\ Append(o, at)[Len(o) + 1] = at
              /\ \A i \in 1 .. Len(o) : Append(o, at)[i] = o[i]
          BY <3>1, <4>3
        <5>2. \A i \in 2 .. Len(o) : o[i-1] < o[i]
          BY <1>2, <3>1 DEF CodesOpenOnce
        <5>3. o # <<>> => o[Len(o)] < at
          BY <1>2, <3>1, <4>1 DEF Opened
        <5>4. Len(o) >= 1 => o # <<>>
          OBVIOUS
        <5> HIDE DEF o
        <5>5. ASSUME NEW i \in 2 .. Len(o) + 1 PROVE Append(o, at)[i-1] < Append(o, at)[i]
          <6>1. CASE i = Len(o) + 1
            BY <5>1, <5>3, <5>4, <6>1
          <6>2. CASE i # Len(o) + 1
            <7>1. i \in 2 .. Len(o) /\ i \in 1 .. Len(o) /\ i - 1 \in 1 .. Len(o)
              BY <5>1, <6>2
            <7> QED
              BY <5>1, <5>2, <7>1
          <6> QED
            BY <6>1, <6>2
        <5> QED
          BY <4>3, <5>1, <5>5 DEF o
      <4>5. account'[n].at = openings'[n][Len(openings'[n])]
        BY <3>1, <4>3
      <4> QED
        BY <1>2, <4>3, <4>4, <4>5 DEF Opened, CodesOpenOnce
    <3> QED
      BY <3>2, <3>3
  <2>4. ASSUME UNCHANGED <<account, openings>> PROVE Opened' /\ CodesOpenOnce'
    BY <1>2, <2>4 DEF Opened, CodesOpenOnce
  <2> QED
    BY <1>2, <2>1, <2>2, <2>3, <2>4
       DEF NamesNext, DropClient, RestartNames, StepPasses, namesVars
<1> QED
  BY <1>1, <1>2, PTL DEF NamesSpec

\* A one-time code opens a name once, and no older one does after it, whoever asks and
\* however often the server is restarted (main.c: GS_MSG_LOGIN; gs_store.c:
\* gs_store_use_totp).
THEOREM NoCodeTwice == NamesSpec => []CodesOpenOnce
  BY OpenedInductive, PTL

\* What the server keeps of races is earned, as all three together (GS_MSG_RESULT and
\* GS_MSG_PROOF, frontend/server/main.c).
THEOREM EarnedAlways == ClaimsSpec => []TimesAreEarned
<1>1. EachTimeIsPaidFor /\ TableIsTheBest /\ NeverLeftWithout => TimesAreEarned
  BY DEF TimesAreEarned
<1> QED
  BY <1>1, TimesArePaidFor, BestStands, AlwaysOneToSpend, PTL
=============================================================================
