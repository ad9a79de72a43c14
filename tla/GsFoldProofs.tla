---------------------------- MODULE GsFoldProofs ----------------------------
(***************************************************************************)
(* Messages, a tick of the race, what is kept, and a track from a number:  *)
(* proofs about GsProto, GsArms, GsShelf and GsRoute, with the lemmas on   *)
(* folds, strides and tracks of GsEditorProofs.                            *)
(*                                                                         *)
(*   - a message's fields take a sum of bytes, what is written of it is    *)
(*     read (ReadBack), and no more is taken than came (ReadIsThere);      *)
(*   - a world in which the cars before some number have driven is Sound:  *)
(*     a car's tick leads to the next (SoundStep), what is left behind and *)
(*     collisions leave it so (KeptSound), and ageing begins the next tick *)
(*     (AgedSound); four folds take it through a tick (TickKeeps);         *)
(*   - what is kept on the machine is kept in the file: a list without a   *)
(*     track twice (Shelved) and a table of what was driven (TableOf);     *)
(*   - a walk is a Trail: over the grid from cell to next cell, nowhere    *)
(*     twice.  A path's says also what it has not tried and how far it has *)
(*     kept its heading (Grows), so that it can be backed out of; a        *)
(*     circuit's is a Circle, pushed out edge by edge (PushedIs) and       *)
(*     turned to begin elsewhere (RotatedIs);                              *)
(*   - ramps are further apart than what follows one is long (RampInv),    *)
(*     and what is lifted ends before what is lifted next (LiftInv);       *)
(*   - what is built has a gate on every post and a checkpoint on every    *)
(*     fourth (Posted), and that comes through being turned round.         *)
(***************************************************************************)
EXTENDS GsEditorProofs, GsArms, GsProto, GsShelf, GsRoute

-----------------------------------------------------------------------------
(* Messages *)

Field == DOMAIN Wide

\* The fields nothing else depends on.
Lone == Field \ {"chunk", "chunks", "size"}

\* A sequence made of two has what they have.
LEMMA JoinedIs ==
  ASSUME NEW T, NEW a \in Seq(T), NEW b \in Seq(T)
  PROVE  a \o b \in Seq(T)
OBVIOUS

\* Every field has a width.
LEMMA WideIs == \A type \in Field : Wide[type] \in Nat /\ Wide[type] >= 1
BY DEF Field, Wide

\* Rosters have eight fields for each of the four.
LEMMA RosterIs == RosterFields \in Seq(Lone) /\ WelcomeMsg \in Seq(Lone)
<1>1. PlayerFields \in Seq(Lone)
  BY DEF PlayerFields, Lone, Field, Wide
<1>2. <<"count", "count">> \in Seq(Lone) /\ <<"slot">> \in Seq(Lone)
  BY DEF Lone, Field, Wide
<1>3. RosterFields \in Seq(Lone)
  <2>1. <<"count", "count">> \o PlayerFields \in Seq(Lone)
    BY <1>1, <1>2, JoinedIs
  <2>2. <<"count", "count">> \o PlayerFields \o PlayerFields \in Seq(Lone)
    BY <1>1, <2>1, JoinedIs
  <2>3. <<"count", "count">> \o PlayerFields \o PlayerFields \o PlayerFields \in Seq(Lone)
    BY <1>1, <2>2, JoinedIs
  <2> QED
    BY <1>1, <2>3, JoinedIs DEF RosterFields
<1> QED
  BY <1>2, <1>3, JoinedIs DEF WelcomeMsg

\* What the kinds are.
LEMMA KindIs ==
  /\ Kind = {"handshake", "sealed", "join", "bye", "ping", "want_track", "relay", "result",
             "session", "want_best", "proof", "publish", "withdraw", "want_list", "share",
             "login", "claim", "welcome", "full", "lobby", "track", "start", "pong",
             "forward", "best", "listing"}
  /\ "NONE" \notin Kind
BY DEF Kind, Layout

\* A chunk says which, of how many, and its size; what is relayed says its size; every
\* other message has fields that stand for themselves, and what is wrapped has none.
LEMMA LayoutIs ==
  /\ \A kind \in Chunked : Layout[kind] = <<"u64", "chunk", "chunks", "size">>
  /\ Layout["relay"] = <<"size">> /\ Layout["forward"] = <<"u8", "size">>
  /\ \A kind \in Wrapped : Layout[kind] = <<>>
  /\ \A kind \in Kind \ (Chunked \cup Relayed) : Layout[kind] \in Seq(Lone)
<1>1. \A kind \in Chunked : Layout[kind] = <<"u64", "chunk", "chunks", "size">>
  BY DEF Layout, Chunked, TrackMsg, ProofMsg
<1>2. Layout["relay"] = <<"size">> /\ Layout["forward"] = <<"u8", "size">>
  BY DEF Layout, RelayMsg, ForwardMsg
<1>3. \A kind \in Wrapped : Layout[kind] = <<>>
  BY DEF Layout, Wrapped, WrapMsg
<1>4. /\ <<>> \in Seq(Lone) /\ JoinMsg \in Seq(Lone) /\ StampMsg \in Seq(Lone)
      /\ FullMsg \in Seq(Lone) /\ StartMsg \in Seq(Lone) /\ WantTrackMsg \in Seq(Lone)
      /\ SessionMsg \in Seq(Lone) /\ WantBestMsg \in Seq(Lone) /\ PublishMsg \in Seq(Lone)
      /\ WithdrawMsg \in Seq(Lone) /\ LoginMsg \in Seq(Lone) /\ ClaimMsg \in Seq(Lone)
      /\ ShareMsg \in Seq(Lone)
  BY DEF Lone, Field, Wide, JoinMsg, StampMsg, FullMsg, StartMsg, WantTrackMsg, SessionMsg,
         WantBestMsg, PublishMsg, WithdrawMsg, LoginMsg, ClaimMsg, ShareMsg
<1>5. ResultMsg \in Seq(Lone) /\ BestMsg \in Seq(Lone) /\ ListingMsg \in Seq(Lone)
  BY DEF Lone, Field, Wide, ResultMsg, BestMsg, ListingMsg
<1>6. /\ Layout["handshake"] = WrapMsg /\ Layout["sealed"] = WrapMsg
      /\ Layout["join"] = JoinMsg /\ Layout["bye"] = ByeMsg
      /\ Layout["ping"] = StampMsg /\ Layout["want_track"] = WantTrackMsg
      /\ Layout["result"] = ResultMsg /\ Layout["session"] = SessionMsg
      /\ Layout["want_best"] = WantBestMsg /\ Layout["publish"] = PublishMsg
      /\ Layout["withdraw"] = WithdrawMsg /\ Layout["want_list"] = WantListMsg
      /\ Layout["share"] = ShareMsg /\ Layout["login"] = LoginMsg
      /\ Layout["claim"] = ClaimMsg /\ Layout["welcome"] = WelcomeMsg
      /\ Layout["full"] = FullMsg /\ Layout["lobby"] = LobbyMsg
      /\ Layout["start"] = StartMsg /\ Layout["pong"] = StampMsg
      /\ Layout["best"] = BestMsg /\ Layout["listing"] = ListingMsg
  BY DEF Layout
<1>7. WrapMsg = <<>> /\ ByeMsg = <<>> /\ WantListMsg = <<>> /\ LobbyMsg = RosterFields
  BY DEF WrapMsg, ByeMsg, WantListMsg, LobbyMsg
<1>8. Kind \ (Chunked \cup Relayed) = {"handshake", "sealed", "join", "bye", "ping", "want_track", "result",
              "session", "want_best", "publish", "withdraw", "want_list", "share", "login",
              "claim", "welcome", "full", "lobby", "start", "pong", "best",
              "listing"}
  BY KindIs DEF Chunked, Relayed
<1>9. \A kind \in Kind \ (Chunked \cup Relayed) : Layout[kind] \in Seq(Lone)
  BY <1>4, <1>5, <1>6, <1>7, <1>8, RosterIs
<1> QED
  BY <1>1, <1>2, <1>3, <1>9

\* The fields of a message take some bytes, those of a wrapped one none.
LEMMA BytesAre ==
  ASSUME NEW kind \in Kind
  PROVE  /\ Layout[kind] \in Seq(Field) /\ Len(Layout[kind]) \in Nat
         /\ DOMAIN Layout[kind] = 1 .. Len(Layout[kind])
         /\ FieldBytes(kind) \in Nat
         /\ kind \in Wrapped => FieldBytes(kind) = 0
<1> DEFINE s == Layout[kind]
           S == DOMAIN s
           first == [r \in SUBSET S |-> CHOOSE x \in r : TRUE]
           F == [k \in S |-> [sum \in Nat |-> sum + Wide[s[k]]]]
           Folds(f) == f = [r \in SUBSET S |-> IF r = {} THEN 0
                              ELSE LET x == CHOOSE x \in r : TRUE
                                   IN  f[r \ {x}] + Wide[s[x]]]
           it == CHOOSE f : Folds(f)
<1>1. s \in Seq(Field)
  <2>1. Lone \subseteq Field
    BY DEF Lone
  <2>0. "u8" \in Field /\ "u64" \in Field /\ "chunk" \in Field /\ "chunks" \in Field
        /\ "size" \in Field
    BY DEF Field, Wide
  <2>2. CASE kind \in Chunked
    <3>1. s = <<"u64", "chunk", "chunks", "size">>
      BY <2>2, LayoutIs
    <3> QED
      BY <2>0, <3>1
  <2>3. CASE kind \in Relayed
    <3>1. s = <<"size">> \/ s = <<"u8", "size">>
      BY <2>3, LayoutIs DEF Relayed
    <3>2. <<"size">> \in Seq(Field)
      BY <2>0
    <3>3. <<"u8", "size">> \in Seq(Field)
      BY <2>0
    <3> HIDE DEF s
    <3> QED
      BY <3>1, <3>2, <3>3
  <2>4. CASE kind \notin Chunked /\ kind \notin Relayed
    <3>1. s \in Seq(Lone)
      BY <2>4, LayoutIs
    <3> HIDE DEF s
    <3> QED
      BY <2>1, <3>1
  <2> QED
    BY <2>2, <2>3, <2>4
<1>2. S = 1 .. Len(s) /\ Len(s) \in Nat /\ \A k \in S : s[k] \in Field
  BY <1>1
<1>3. \A k \in S : Wide[s[k]] \in Nat
  BY <1>2, WideIs
<1>4. FieldBytes(kind) = it[S]
  BY DEF FieldBytes, FoldSeq, FoldFunction, FoldFunctionOnSet, MapThenFoldSet
<1>5. kind \in Wrapped => S = {}
  BY LayoutIs
<1> HIDE DEF s
<1>6. IsFiniteSet(S)
  BY <1>2, FS_Interval
<1> HIDE DEF S
<1>7. Picks(first, S)
  BY DEF Picks
<1>8. \A k \in S : F[k] \in [Nat -> Nat]
  BY <1>3
<1>9. StepsIn(F, S, Nat)
  BY <1>8 DEF StepsIn
<1>10. PICK f \in [SUBSET S -> Nat] : FoldOf(f, S, 0, first, F)
  BY <1>6, <1>7, <1>9, FoldThere
<1>11. ASSUME NEW r \in SUBSET S
       PROVE  f[r] = IF r = {} THEN 0
                     ELSE LET x == CHOOSE x \in r : TRUE IN f[r \ {x}] + Wide[s[x]]
  <2>1. CASE r = {}
    BY <1>10, <2>1 DEF FoldOf
  <2>2. CASE r # {}
    <3>1. PICK x : x = first[r]
      OBVIOUS
    <3>2. x \in r /\ x = CHOOSE y \in r : TRUE
      BY <2>2, <3>1
    <3>3. f[r] = F[x][f[r \ {x}]]
      BY <1>10, <2>2, <3>1 DEF FoldOf
    <3>4. f[r \ {x}] \in Nat /\ x \in S
      BY <3>2, <1>10
    <3>5. f[r] = f[r \ {x}] + Wide[s[x]]
      BY <3>3, <3>4
    <3> QED
      BY <2>2, <3>2, <3>5
  <2> QED
    BY <2>1, <2>2
<1>12. Folds(f)
  BY <1>10, <1>11
<1>13. Folds(it)
  BY <1>12
<1> HIDE DEF it
<1>14. it[{}] = 0
  BY <1>13
<1>15. ASSUME NEW r \in SUBSET S, r # {} PROVE it[r] = it[r \ {first[r]}] + Wide[s[first[r]]]
  BY <1>13, <1>15
<1>16. it[S] \in Nat
  <2>1. \A r \in SUBSET S : r # {} /\ it[r \ {first[r]}] \in Nat => it[r] \in Nat
    <3>1. ASSUME NEW r \in SUBSET S, r # {}, it[r \ {first[r]}] \in Nat PROVE it[r] \in Nat
      <4>1. first[r] \in S
        BY <1>7, <3>1 DEF Picks
      <4>2. it[r] = it[r \ {first[r]}] + Wide[s[first[r]]]
        BY <1>15, <3>1
      <4>3. Wide[s[first[r]]] \in Nat
        BY <1>3, <4>1
      <4> QED
        BY <3>1, <4>2, <4>3
    <3> QED
      BY <3>1
  <2>2. it[{}] \in Nat
    BY <1>14
  <2> HIDE DEF first, Folds
  <2> QED
    BY <1>6, <1>7, <2>1, <2>2, FoldStays, Zenon
<1>17. kind \in Wrapped => it[S] = 0
  BY <1>5, <1>14
<1> QED
  BY <1>1, <1>2, <1>4, <1>16, <1>17 DEF s

\* Where the fields are that others depend on.
LEMMA FieldsAre ==
  ASSUME NEW kind \in Kind, NEW i \in DOMAIN Layout[kind]
  PROVE  /\ Layout[kind][i] \in Field
         /\ Layout[kind][i] = "chunk" <=> kind \in Chunked /\ i = 2
         /\ Layout[kind][i] = "chunks" <=> kind \in Chunked /\ i = 3
         /\ kind \in Chunked => DOMAIN Layout[kind] = 1 .. 4
         /\ Layout[kind][i] = "size" =>
              kind \in Chunked \cup Relayed /\ i = Len(Layout[kind])
<1>1. Layout[kind][i] \in Field
  BY BytesAre
<1>2. CASE kind \in Chunked
  <2>1. Layout[kind] = <<"u64", "chunk", "chunks", "size">>
    BY <1>2, LayoutIs
  <2> QED
    BY <1>1, <1>2, <2>1
<1>3. CASE kind \in Relayed
  <2>1. Layout[kind] = <<"size">> \/ Layout[kind] = <<"u8", "size">>
    BY <1>3, LayoutIs DEF Relayed
  <2>2. kind \notin Chunked
    BY <1>3 DEF Relayed, Chunked
  <2>3. CASE Layout[kind] = <<"size">>
    BY <1>1, <1>3, <2>2, <2>3
  <2>4. CASE Layout[kind] = <<"u8", "size">>
    BY <1>1, <1>3, <2>2, <2>4
  <2> QED
    BY <2>1, <2>3, <2>4
<1>4. CASE kind \notin Chunked /\ kind \notin Relayed
  <2>1. Layout[kind] \in Seq(Lone)
    BY <1>4, LayoutIs
  <2>2. Layout[kind][i] \in Lone
    BY <2>1
  <2> QED
    BY <1>1, <1>4, <2>2 DEF Lone
<1> QED
  BY <1>2, <1>3, <1>4

\* Where it says how many bytes of its own it has.
LEMMA ToldIs ==
  ASSUME NEW kind \in Chunked \cup Relayed, NEW field, DOMAIN field = DOMAIN Layout[kind]
  PROVE  \E i \in DOMAIN Layout[kind] : Layout[kind][i] = "size" /\ Told(kind, field) = field[i]
<1>1. kind \in Kind
  BY KindIs DEF Chunked, Relayed
<1>2. \E i \in DOMAIN Layout[kind] : Layout[kind][i] = "size"
  <2>1. CASE kind \in Chunked
    <3>1. Layout[kind] = <<"u64", "chunk", "chunks", "size">>
      BY <2>1, LayoutIs
    <3>2. 4 \in DOMAIN Layout[kind] /\ Layout[kind][4] = "size"
      BY <3>1
    <3> QED
      BY <3>2
  <2>2. CASE kind = "relay"
    BY <2>2, LayoutIs
  <2>3. CASE kind = "forward"
    <3>1. Layout[kind] = <<"u8", "size">>
      BY <2>3, LayoutIs
    <3>2. 2 \in DOMAIN Layout[kind] /\ Layout[kind][2] = "size"
      BY <3>1
    <3> QED
      BY <3>2
  <2> QED
    BY <2>1, <2>2, <2>3 DEF Relayed
<1> DEFINE at == CHOOSE i \in DOMAIN field : Layout[kind][i] = "size"
<1>3. at \in DOMAIN field /\ Layout[kind][at] = "size"
  BY <1>2
<1>4. Told(kind, field) = field[at]
  BY DEF Told
<1> HIDE DEF at
<1> QED
  BY <1>3, <1>4

\* What is said in a field.
MayBe(type, v, data) ==
    /\ v \in Nat
    /\ type = "slot" => v < Places
    /\ type = "count" => v <= Places
    /\ type = "players" => v \in 1 .. Places
    /\ type \in {"flag", "bit"} => v \in {0, 1}
    /\ type = "chunk" => v <= 1
    /\ type = "chunks" => v = 2
    /\ type = "size" => v = data

\* What is said in a message.
Saying(s) ==
    /\ s.kind \in Kind /\ s.data \in Nat
    /\ s.field \in [DOMAIN Layout[s.kind] -> Nat]
    /\ \A i \in DOMAIN Layout[s.kind] : MayBe(Layout[s.kind][i], s.field[i], s.data)
    /\ s.kind \notin Wrapped \cup Chunked \cup Relayed => s.data = 0

LEMMA SayableIs ==
  ASSUME NEW type \in Field \ {"size"}, NEW v \in Sayable(type)
  PROVE  MayBe(type, v, 0)
<1>1. CASE type \in Strings
  <2>1. v \in {0, Wide[type] - 1, Wide[type]}
    BY <1>1 DEF Sayable, Strings
  <2>2. Wide[type] \in Nat /\ Wide[type] >= 1
    BY WideIs
  <2> QED
    BY <1>1, <2>1, <2>2 DEF MayBe, Strings
<1>2. CASE type \notin Strings
  <2>1. v \in Nat
    BY <1>2 DEF Sayable, SecretBytes
  <2> QED
    BY <1>2, <2>1 DEF Sayable, MayBe, Places
<1> QED
  BY <1>1, <1>2

LEMMA PlainIs ==
  ASSUME NEW kind \in Kind, NEW data \in Nat
  PROVE  /\ Plain(kind, data) \in [DOMAIN Layout[kind] -> Nat]
         /\ \A i \in DOMAIN Layout[kind] : MayBe(Layout[kind][i], Plain(kind, data)[i], data)
<1>1. ASSUME NEW i \in DOMAIN Layout[kind]
      PROVE  /\ Plain(kind, data)[i] \in Nat
             /\ MayBe(Layout[kind][i], Plain(kind, data)[i], data)
  <2>1. PICK type \in Field : type = Layout[kind][i]
    BY FieldsAre
  <2>2. Plain(kind, data)[i] = CASE type = "size" -> data [] type = "chunks" -> 2
                                 [] type = "players" -> 1 [] OTHER -> 0
    BY <2>1 DEF Plain
  <2>3. PICK v : v = Plain(kind, data)[i]
    OBVIOUS
  <2>4. v \in Nat /\ MayBe(type, v, data)
    BY <2>2, <2>3 DEF MayBe, Places
  <2> QED
    BY <2>1, <2>3, <2>4
<1> QED
  BY <1>1 DEF Plain

\* All that a program has to say is that.
LEMMA SaidIs ==
  ASSUME NEW kind \in Kind, NEW s \in Said(kind)
  PROVE  Saying(s)
<1>1. CASE \E data \in Sizes(kind) : s = [kind |-> kind, field |-> Plain(kind, data), data |-> data]
  <2>1. PICK data \in Sizes(kind) : s = [kind |-> kind, field |-> Plain(kind, data), data |-> data]
    BY <1>1
  <2>2. data \in Nat /\ (kind \notin Wrapped \cup Chunked \cup Relayed => data = 0)
    BY DEF Sizes, ChunkBytes
  <2> QED
    BY <2>1, <2>2, PlainIs DEF Saying
<1>2. CASE \E i \in DOMAIN Layout[kind] : \E v \in Sayable(Layout[kind][i]) :
             /\ Layout[kind][i] # "size"
             /\ s = [kind |-> kind, field |-> [Plain(kind, 0) EXCEPT ![i] = v], data |-> 0]
  <2>0. PICK i \in DOMAIN Layout[kind] : \E v \in Sayable(Layout[kind][i]) :
             /\ Layout[kind][i] # "size"
             /\ s = [kind |-> kind, field |-> [Plain(kind, 0) EXCEPT ![i] = v], data |-> 0]
    BY <1>2
  <2>1. PICK v \in Sayable(Layout[kind][i]) :
             /\ Layout[kind][i] # "size"
             /\ s = [kind |-> kind, field |-> [Plain(kind, 0) EXCEPT ![i] = v], data |-> 0]
    BY <2>0
  <2>2. MayBe(Layout[kind][i], v, 0) /\ v \in Nat
    BY <2>1, FieldsAre, SayableIs DEF MayBe
  <2>3. s.kind = kind /\ s.data = 0 /\ s.field = [Plain(kind, 0) EXCEPT ![i] = v]
    BY <2>1
  <2>4. PICK p : p = Plain(kind, 0)
    OBVIOUS
  <2>5. /\ p \in [DOMAIN Layout[kind] -> Nat]
        /\ \A j \in DOMAIN Layout[kind] : MayBe(Layout[kind][j], p[j], 0)
    BY <2>4, PlainIs
  <2>6. s.field \in [DOMAIN Layout[kind] -> Nat]
    BY <2>2, <2>3, <2>4, <2>5
  <2>7. \A j \in DOMAIN Layout[kind] : s.field[j] = IF j = i THEN v ELSE p[j]
    BY <2>3, <2>4, <2>5
  <2>8. \A j \in DOMAIN Layout[kind] : MayBe(Layout[kind][j], s.field[j], 0)
    BY <2>2, <2>5, <2>7
  <2> QED
    BY <2>3, <2>6, <2>8 DEF Saying
<1> QED
  BY <1>1, <1>2 DEF Said

\* Anything that may arrive where a message should.
Arriving == {d \in [ours : BOOLEAN, kind : Kind, len : Int,
                    field : UNION {[DOMAIN Layout[kind] -> Nat] : kind \in Kind}] :
                d.field \in [DOMAIN Layout[d.kind] -> Nat]}

\* The wire has what was said on it, unless somebody meddled, and what is learnt is of it.
ProtoStands ==
    /\ Saying(said)
    /\ wire = Nothing => ~meddled /\ learnt.kind = "NONE"
    /\ wire # Nothing => wire \in Arriving
    /\ wire # Nothing /\ ~meddled =>
         /\ wire = Packed(said.kind, said.field, said.data)
         /\ \E cap \in Int : MayWrite(said.kind, said.field, said.data, cap)
    /\ learnt.kind # "NONE" => wire # Nothing /\ learnt = Unpacked(wire)

\* What arrives is a message, and not nothing.
LEMMA ArrivingIs ==
  ASSUME NEW d \in Arriving
  PROVE  /\ d.kind \in Kind /\ d.kind # "NONE" /\ d # Nothing /\ d.len \in Int /\ d.ours \in BOOLEAN
         /\ d.field \in [DOMAIN Layout[d.kind] -> Nat]
         /\ \A i \in DOMAIN d.field : \A v \in Nat : [d EXCEPT !.field[i] = v] \in Arriving
         /\ \A len \in Int : [d EXCEPT !.len = len] \in Arriving
         /\ [d EXCEPT !.ours = FALSE] \in Arriving
<1>1. d.kind \in Kind /\ d.len \in Int /\ d.ours \in BOOLEAN /\ d.field \in [DOMAIN Layout[d.kind] -> Nat]
  BY DEF Arriving
<1>2. d.kind # "NONE"
  BY <1>1, KindIs
<1>3. d # Nothing
  BY <1>2 DEF Nothing
<1>4. ASSUME NEW f \in [DOMAIN Layout[d.kind] -> Nat] PROVE [d EXCEPT !.field = f] \in Arriving
  BY <1>1 DEF Arriving
<1>5. ASSUME NEW i \in DOMAIN d.field, NEW v \in Nat PROVE [d EXCEPT !.field[i] = v] \in Arriving
  <2>1. [d.field EXCEPT ![i] = v] \in [DOMAIN Layout[d.kind] -> Nat]
    BY <1>1
  <2>2. [d EXCEPT !.field[i] = v] = [d EXCEPT !.field = [d.field EXCEPT ![i] = v]]
    OBVIOUS
  <2> QED
    BY <1>4, <2>1, <2>2
<1>6. \A len \in Int : [d EXCEPT !.len = len] \in Arriving
  BY <1>1 DEF Arriving
<1>7. [d EXCEPT !.ours = FALSE] \in Arriving
  BY <1>1 DEF Arriving
<1> QED
  BY <1>1, <1>2, <1>3, <1>5, <1>6, <1>7

\* What is put in a field is a number, and whoever may say it may be read: it comes out as
\* it went in, cut to what the field has room for.
LEMMA PutIs ==
  ASSUME NEW type \in Field, NEW v \in Nat
  PROVE  /\ PutField(type, v) \in Nat
         /\ type \notin Strings \cup {"flag"} => PutField(type, v) = v
<1>1. Wide[type] \in Nat /\ Wide[type] >= 1
  BY WideIs
<1> QED
  BY <1>1 DEF PutField, PutStr

LEMMA GotIs ==
  ASSUME NEW type \in Field, NEW v, NEW data, MayBe(type, v, data),
         type = "length" => v <= SecretBytes
  PROVE  /\ Fine(type, PutField(type, v))
         /\ Got(type, PutField(type, v)) =
              IF type \in Strings THEN IF v >= Wide[type] THEN Wide[type] - 1 ELSE v ELSE v
<1>1. Wide[type] \in Nat /\ Wide[type] >= 1 /\ v \in Nat
  BY WideIs DEF MayBe
<1>2. CASE type \in Strings
  BY <1>1, <1>2 DEF PutField, PutStr, Got, GetStr, Fine, Strings
<1>3. CASE type = "flag"
  BY <1>1, <1>3 DEF PutField, Got, Fine, Strings, MayBe
<1>4. CASE type = "bit"
  <2>1. v = 0 \/ v = 1
    BY <1>4 DEF MayBe
  <2>2. v % 2 = v
    BY <2>1
  <2> QED
    BY <1>4, <2>2 DEF PutField, Got, Fine, Strings
<1>5. CASE type \notin Strings \cup {"flag", "bit"}
  BY <1>1, <1>5 DEF PutField, Got, Fine, MayBe
<1> QED
  BY <1>2, <1>3, <1>4, <1>5

\* gs_proto.c, of any message with any numbers in its fields: what was written is what is
\* read.
THEOREM ReadBack ==
  ASSUME NEW s, Saying(s), NEW cap \in Int, MayWrite(s.kind, s.field, s.data, cap)
  PROVE  /\ Packed(s.kind, s.field, s.data) \in Arriving
         /\ Unpacked(Packed(s.kind, s.field, s.data)) =
              [kind |-> s.kind, data |-> s.data,
               field |-> [i \in DOMAIN s.field |->
                  IF Layout[s.kind][i] \in Strings
                  THEN IF s.field[i] >= Wide[Layout[s.kind][i]]
                       THEN Wide[Layout[s.kind][i]] - 1 ELSE s.field[i]
                  ELSE s.field[i]]]
<1>1. PICK k, f, n, d : /\ k = s.kind /\ f = s.field /\ n = s.data
                        /\ d = Packed(s.kind, s.field, s.data)
  OBVIOUS
<1>2. /\ k \in Kind /\ n \in Nat /\ f \in [DOMAIN Layout[k] -> Nat]
      /\ \A i \in DOMAIN Layout[k] : MayBe(Layout[k][i], f[i], n)
      /\ k \notin Wrapped \cup Chunked \cup Relayed => n = 0
  BY <1>1 DEF Saying
<1>3. /\ k \in Wrapped => n > 0
      /\ k \in Chunked => n <= ChunkBytes
      /\ \A i \in DOMAIN Layout[k] : Layout[k][i] = "length" => f[i] <= SecretBytes
  BY <1>1, <1>2 DEF MayWrite
<1>4. /\ d.ours = TRUE /\ d.kind = k /\ d.len = HeadBytes + FieldBytes(k) + n
      /\ d.field = [i \in DOMAIN f |-> PutField(Layout[k][i], f[i])]
      /\ d = [ours |-> TRUE, kind |-> k, len |-> HeadBytes + FieldBytes(k) + n,
              field |-> [i \in DOMAIN f |-> PutField(Layout[k][i], f[i])]]
  BY <1>1 DEF Packed
<1>5. FieldBytes(k) \in Nat /\ (k \in Wrapped => FieldBytes(k) = 0) /\ HeadBytes = 6
  BY <1>2, BytesAre DEF HeadBytes
<1>6. DOMAIN f = DOMAIN Layout[k] /\ DOMAIN d.field = DOMAIN Layout[k]
  BY <1>2, <1>4
<1>7. ASSUME NEW i \in DOMAIN Layout[k]
      PROVE  /\ d.field[i] = PutField(Layout[k][i], f[i]) /\ d.field[i] \in Nat
             /\ Fine(Layout[k][i], d.field[i])
             /\ Got(Layout[k][i], d.field[i]) =
                  IF Layout[k][i] \in Strings
                  THEN IF f[i] >= Wide[Layout[k][i]] THEN Wide[Layout[k][i]] - 1 ELSE f[i]
                  ELSE f[i]
  <2>1. d.field[i] = PutField(Layout[k][i], f[i])
    BY <1>4, <1>6
  <2>2. Layout[k][i] \in Field /\ f[i] \in Nat /\ MayBe(Layout[k][i], f[i], n)
    BY <1>2, FieldsAre
  <2>3. Layout[k][i] = "length" => f[i] <= SecretBytes
    BY <1>3
  <2>4. PICK type, v : type = Layout[k][i] /\ v = f[i]
    OBVIOUS
  <2>5. /\ PutField(type, v) \in Nat /\ Fine(type, PutField(type, v))
        /\ Got(type, PutField(type, v)) =
              IF type \in Strings THEN IF v >= Wide[type] THEN Wide[type] - 1 ELSE v ELSE v
    BY <2>2, <2>3, <2>4, PutIs, GotIs
  <2> QED
    BY <2>1, <2>4, <2>5
<1>8. d \in Arriving
  <2>1. d.field \in [DOMAIN Layout[k] -> Nat]
    BY <1>4, <1>6, <1>7
  <2>2. d.len \in Int
    BY <1>2, <1>4, <1>5
  <2> QED
    BY <1>2, <1>4, <2>1, <2>2 DEF Arriving
<1>9. k \in Chunked \cup Relayed => Told(k, d.field) = n
  <2>1. SUFFICES ASSUME k \in Chunked \cup Relayed PROVE Told(k, d.field) = n
    OBVIOUS
  <2>2. PICK i \in DOMAIN Layout[k] : Layout[k][i] = "size" /\ Told(k, d.field) = d.field[i]
    BY <1>6, <2>1, ToldIs
  <2>3. f[i] = n
    BY <1>2, <2>2 DEF MayBe
  <2>4. PutField("size", f[i]) = f[i]
    BY <1>2, PutIs DEF Strings, Field, Wide
  <2> QED
    BY <1>7, <2>2, <2>3, <2>4
<1>10. Need(k) = HeadBytes + FieldBytes(k) + (IF k \in Wrapped THEN 1 ELSE 0)
  BY DEF Need
<1>11. /\ k \in Chunked => k \notin Wrapped \cup Relayed
       /\ k \in Relayed => k \notin Wrapped \cup Chunked
  BY DEF Chunked, Relayed, Wrapped
<1>12. k \in Chunked => FineChunk(d)
  <2>1. SUFFICES ASSUME k \in Chunked PROVE FineChunk(d)
    OBVIOUS
  <2>2. DOMAIN Layout[k] = 1 .. 4
    <3>1. 1 \in DOMAIN Layout[k]
      <4>1. Layout[k] = <<"u64", "chunk", "chunks", "size">>
        BY <2>1, LayoutIs
      <4> QED
        BY <4>1
    <3> QED
      BY <1>2, <2>1, <3>1, FieldsAre
  <2>3. Layout[k][2] = "chunk" /\ Layout[k][3] = "chunks"
    BY <1>2, <2>1, <2>2, FieldsAre
  <2>4. f[2] \in Nat /\ f[2] <= 1 /\ f[3] = 2
    BY <1>2, <2>2, <2>3 DEF MayBe
  <2>5. d.field[2] = f[2] /\ d.field[3] = f[3]
    <3>1. PutField("chunk", f[2]) = f[2] /\ PutField("chunks", f[3]) = f[3]
      BY DEF PutField, Strings
    <3> QED
      BY <1>7, <2>2, <2>3, <3>1
  <2> QED
    BY <1>2, <1>3, <1>4, <1>5, <1>9, <1>10, <1>11, <2>1, <2>4, <2>5 DEF FineChunk
<1>13. k \in Relayed => FinePayload(d)
  BY <1>2, <1>4, <1>5, <1>9, <1>10, <1>11 DEF FinePayload
<1>14. Accepts(d)
  <2>1. Expect(d, d.kind)
    BY <1>2, <1>3, <1>4, <1>5, <1>10 DEF Expect, KindOf
  <2> QED
    BY <1>4, <1>6, <1>7, <1>12, <1>13, <2>1 DEF Accepts
<1>15. Taken(d) = n
  BY <1>2, <1>4, <1>5, <1>9 DEF Taken
<1>16. [i \in DOMAIN d.field |-> Got(Layout[d.kind][i], d.field[i])] =
       [i \in DOMAIN f |-> IF Layout[k][i] \in Strings
                           THEN IF f[i] >= Wide[Layout[k][i]] THEN Wide[Layout[k][i]] - 1 ELSE f[i]
                           ELSE f[i]]
  BY <1>4, <1>6, <1>7
<1>17. Unpacked(d) = [kind |-> k, data |-> n,
                      field |-> [i \in DOMAIN d.field |-> Got(Layout[d.kind][i], d.field[i])]]
  <2>1. d.kind = k
    BY <1>4
  <2> QED
    BY <1>14, <1>15, <2>1 DEF Unpacked
<1>18. Unpacked(d) = [kind |-> k, data |-> n,
                      field |-> [i \in DOMAIN f |->
                                   IF Layout[k][i] \in Strings
                                   THEN IF f[i] >= Wide[Layout[k][i]] THEN Wide[Layout[k][i]] - 1
                                        ELSE f[i]
                                   ELSE f[i]]]
  BY <1>16, <1>17, Zenon
<1> QED
  BY <1>1, <1>8, <1>18, Zenon

\* gs_proto.c, of any datagram at all: of what is accepted no more is taken than has come,
\* and what it says of seats, players, chunks and secrets is what it may be.
THEOREM ReadIsThere ==
  ASSUME NEW d \in Arriving, NEW l, l = Unpacked(d), l.kind # "NONE"
  PROVE  /\ HeadBytes + FieldBytes(l.kind) + l.data <= d.len
         /\ \A i \in DOMAIN l.field :
              LET type == Layout[l.kind][i]
                  v == l.field[i]
              IN  /\ type \in {"count", "players"} => v <= Places
                  /\ type = "slot" => v < Places
                  /\ type = "length" => v <= SecretBytes
                  /\ type \in Strings => v < Wide[type]
                  /\ type = "chunk" => v < l.field[i + 1]
<1>1. PICK k, f : k = d.kind /\ f = d.field
  OBVIOUS
<1>2. k \in Kind /\ f \in [DOMAIN Layout[k] -> Nat] /\ d.len \in Int
  BY <1>1, ArrivingIs
<1>3. Accepts(d)
  BY DEF Unpacked
<1>4. l.kind = k /\ l.data = Taken(d)
      /\ l.field = [i \in DOMAIN f |-> Got(Layout[k][i], f[i])]
  BY <1>1, <1>3 DEF Unpacked
<1>5. /\ d.len >= Need(k) /\ \A i \in DOMAIN Layout[k] : Fine(Layout[k][i], f[i])
      /\ k \in Chunked => FineChunk(d)
      /\ k \in Relayed => FinePayload(d)
  BY <1>1, <1>2, <1>3 DEF Accepts, Expect
<1>6. FieldBytes(k) \in Nat /\ (k \in Wrapped => FieldBytes(k) = 0) /\ HeadBytes = 6
  BY <1>2, BytesAre DEF HeadBytes
<1>7. Need(k) = HeadBytes + FieldBytes(k) + (IF k \in Wrapped THEN 1 ELSE 0)
  BY DEF Need
<1>8. /\ k \in Chunked => k \notin Wrapped
      /\ k \in Relayed => k \notin Wrapped
  BY DEF Chunked, Relayed, Wrapped
<1>9. k \in Chunked \cup Relayed => Told(k, f) \in Nat
  BY <1>2, ToldIs
<1>10. HeadBytes + FieldBytes(k) + Taken(d) <= d.len
  <2>1. CASE k \in Wrapped
    BY <1>1, <1>2, <1>6, <2>1 DEF Taken
  <2>2. CASE k \in Chunked
    <3>1. Need(k) + Told(k, f) <= d.len
      BY <1>1, <1>5, <2>2 DEF FineChunk
    <3> QED
      BY <1>1, <1>2, <1>6, <1>7, <1>8, <1>9, <2>2, <3>1 DEF Taken
  <2>3. CASE k \in Relayed
    <3>1. Need(k) + Told(k, f) <= d.len
      BY <1>1, <1>5, <2>3 DEF FinePayload
    <3> QED
      BY <1>1, <1>2, <1>6, <1>7, <1>8, <1>9, <2>3, <3>1 DEF Taken
  <2>4. CASE k \notin Wrapped \cup Chunked \cup Relayed
    BY <1>1, <1>2, <1>5, <1>6, <1>7, <2>4 DEF Taken
  <2> QED
    BY <2>1, <2>2, <2>3, <2>4
<1>11. ASSUME NEW i \in DOMAIN Layout[k]
       PROVE  /\ Layout[k][i] \in Field /\ f[i] \in Nat
              /\ l.field[i] = Got(Layout[k][i], f[i])
              /\ Layout[k][i] \in {"count", "players"} => l.field[i] <= Places
              /\ Layout[k][i] = "slot" => l.field[i] < Places
              /\ Layout[k][i] = "length" => l.field[i] <= SecretBytes
              /\ Layout[k][i] \in Strings => l.field[i] < Wide[Layout[k][i]]
              /\ Layout[k][i] \in {"chunk", "chunks"} => l.field[i] = f[i]
  <2>1. Layout[k][i] \in Field /\ f[i] \in Nat /\ l.field[i] = Got(Layout[k][i], f[i])
        /\ Fine(Layout[k][i], f[i])
    BY <1>2, <1>4, <1>5, FieldsAre
  <2>2. PICK type, v, w : type = Layout[k][i] /\ v = f[i] /\ w = l.field[i]
    OBVIOUS
  <2>3. type \in Field /\ v \in Nat /\ w = Got(type, v) /\ Fine(type, v)
    BY <2>1, <2>2
  <2>4. Wide[type] \in Nat /\ Wide[type] >= 1
    BY <2>3, WideIs
  <2>5. type \in {"count", "players", "slot", "length", "chunk", "chunks"} => w = v
    BY <2>3 DEF Got, Strings
  <2>6. type \in {"count", "players"} => v <= Places
    BY <2>3 DEF Fine, Places
  <2>7. (type = "slot" => v < Places) /\ (type = "length" => v <= SecretBytes)
    BY <2>3 DEF Fine
  <2>8. type \in Strings => w < Wide[type]
    BY <2>3, <2>4 DEF Got, GetStr
  <2> QED
    BY <2>1, <2>2, <2>5, <2>6, <2>7, <2>8
<1>12. ASSUME NEW i \in DOMAIN Layout[k], Layout[k][i] = "chunk"
       PROVE  l.field[i] < l.field[i + 1]
  <2>1. k \in Chunked /\ i = 2 /\ DOMAIN Layout[k] = 1 .. 4
    BY <1>2, <1>12, FieldsAre
  <2>2. Layout[k][2] = "chunk" /\ Layout[k][3] = "chunks"
    BY <1>2, <2>1, FieldsAre
  <2>3. l.field[2] = f[2] /\ l.field[3] = f[3]
    BY <1>11, <2>1, <2>2
  <2>4. f[2] < f[3]
    BY <1>1, <1>5, <2>1 DEF FineChunk
  <2> QED
    BY <2>1, <2>3, <2>4
<1>13. DOMAIN l.field = DOMAIN Layout[k]
  BY <1>2, <1>4
<1> QED
  BY <1>4, <1>10, <1>11, <1>12, <1>13

\* What is said and what is on the wire, to begin with ...
LEMMA ProtoStarts == ProtoInit => ProtoStands
<1> SUFFICES ASSUME ProtoInit PROVE ProtoStands
  OBVIOUS
<1>1. PICK kind \in Kind : said \in Said(kind)
  BY DEF ProtoInit
<1>2. Saying(said)
  BY <1>1, SaidIs
<1>3. wire = Nothing /\ meddled = FALSE /\ learnt.kind = "NONE"
  BY DEF ProtoInit
<1> QED
  BY <1>2, <1>3 DEF ProtoStands

\* ... and after every step.
LEMMA ProtoKeeps == ProtoStands /\ [ProtoNext]_protoVars => ProtoStands'
<1> SUFFICES ASSUME ProtoStands, [ProtoNext]_protoVars PROVE ProtoStands'
  OBVIOUS
<1>1. CASE UNCHANGED protoVars
  BY <1>1 DEF ProtoStands, protoVars
<1>2. CASE WriteMessage
  <2>1. /\ wire = Nothing /\ wire' = Packed(said.kind, said.field, said.data)
        /\ said' = said /\ meddled' = meddled /\ learnt' = learnt
    BY <1>2 DEF WriteMessage
  <2>2. PICK cap \in {wire'.len - 1, wire'.len} : MayWrite(said.kind, said.field, said.data, cap)
    BY <1>2, <2>1 DEF WriteMessage
  <2>3. Saying(said) /\ ~meddled /\ learnt.kind = "NONE"
    BY <2>1 DEF ProtoStands
  <2>4. cap \in Int
    <3>1. FieldBytes(said.kind) \in Nat /\ said.data \in Nat /\ HeadBytes \in Nat
      BY <2>3, BytesAre DEF Saying, HeadBytes
    <3>2. wire'.len = HeadBytes + FieldBytes(said.kind) + said.data
      BY <2>1 DEF Packed
    <3> QED
      BY <2>2, <3>1, <3>2
  <2>5. wire' \in Arriving
    BY <2>1, <2>2, <2>3, <2>4, ReadBack
  <2>6. wire' # Nothing
    BY <2>5, ArrivingIs
  <2> QED
    BY <2>1, <2>2, <2>3, <2>4, <2>5, <2>6 DEF ProtoStands
<1>3. CASE Meddle
  <2>1. /\ wire # Nothing /\ learnt.kind = "NONE" /\ meddled' = TRUE
        /\ said' = said /\ learnt' = learnt
    BY <1>3 DEF Meddle
  <2>2. wire \in Arriving
    BY <2>1 DEF ProtoStands
  <2>3. wire' \in Arriving
    <3>1. CASE \E i \in DOMAIN wire.field : \E v \in Comes(Layout[wire.kind][i]) :
                  wire' = [wire EXCEPT !.field[i] = v]
      <4>1. PICK i \in DOMAIN wire.field : \E v \in Comes(Layout[wire.kind][i]) :
                  wire' = [wire EXCEPT !.field[i] = v]
        BY <3>1
      <4>2. PICK v \in Comes(Layout[wire.kind][i]) : wire' = [wire EXCEPT !.field[i] = v]
        BY <4>1
      <4>3. v \in Nat
        <5>1. Layout[wire.kind][i] \in Field
          BY <2>2, ArrivingIs, FieldsAre
        <5>2. PICK type \in Field : type = Layout[wire.kind][i]
          BY <5>1
        <5>3. Wide[type] \in Nat /\ Wide[type] >= 1 /\ v \in Comes(type)
          BY <4>2, <5>2, WideIs
        <5> QED
          BY <5>3 DEF Comes, ChunkBytes, SecretBytes, Strings
      <4> QED
        BY <2>2, <4>2, <4>3, ArrivingIs
    <3>2. CASE \E len \in {0, HeadBytes - 1, HeadBytes, wire.len - 1, wire.len + 1} :
                  wire' = [wire EXCEPT !.len = len]
      <4>1. PICK len \in {0, HeadBytes - 1, HeadBytes, wire.len - 1, wire.len + 1} :
                  wire' = [wire EXCEPT !.len = len]
        BY <3>2
      <4>2. len \in Int
        <5>1. wire.len \in Int
          BY <2>2 DEF Arriving
        <5>2. HeadBytes \in Int
          BY DEF HeadBytes
        <5> QED
          BY <5>1, <5>2
      <4> QED
        BY <2>2, <4>1, <4>2, ArrivingIs
    <3>3. CASE wire' = [wire EXCEPT !.ours = FALSE]
      BY <2>2, <3>3, ArrivingIs
    <3> QED
      BY <1>3, <3>1, <3>2, <3>3 DEF Meddle
  <2>4. wire' # Nothing
    BY <2>3, ArrivingIs
  <2> QED
    BY <2>1, <2>3, <2>4 DEF ProtoStands
<1>4. CASE ReadMessage
  BY <1>4 DEF ReadMessage, ProtoStands
<1> QED
  BY <1>1, <1>2, <1>3, <1>4 DEF ProtoNext

\* gs_proto.c, every message with any fields, meddled with or not: what a program wrote is
\* read as it was said, and of whatever comes no more is taken than came, and nothing that
\* would reach past a table, a string's end or the last chunk.
THEOREM MessagesAreHeardRight == ProtoSpec => []HeardRight
<1>1. ProtoStands => HeardRight
  <2> SUFFICES ASSUME ProtoStands PROVE HeardRight
    OBVIOUS
  <2>1. ReadAsSaid
    <3> SUFFICES ASSUME wire # Nothing, ~meddled
                 PROVE  Unpacked(wire) =
                          [kind |-> said.kind, data |-> said.data,
                           field |-> [i \in DOMAIN said.field |->
                              IF Layout[said.kind][i] \in Strings
                              THEN IF said.field[i] >= Wide[Layout[said.kind][i]]
                                   THEN Wide[Layout[said.kind][i]] - 1 ELSE said.field[i]
                              ELSE said.field[i]]]
      BY DEF ReadAsSaid
    <3>1. Saying(said) /\ wire = Packed(said.kind, said.field, said.data)
      BY DEF ProtoStands
    <3>2. PICK cap \in Int : MayWrite(said.kind, said.field, said.data, cap)
      BY DEF ProtoStands
    <3> QED
      BY <3>1, <3>2, ReadBack, Zenon
  <2>2. TakenIsThere
    <3> SUFFICES ASSUME learnt.kind # "NONE" PROVE TakenIsThere
      BY DEF TakenIsThere
    <3>1. wire \in Arriving /\ learnt = Unpacked(wire)
      BY DEF ProtoStands
    <3> QED
      BY <3>1, ReadIsThere DEF TakenIsThere
  <2> QED
    BY <2>1, <2>2 DEF HeardRight
<1> QED
  BY <1>1, ProtoStarts, ProtoKeeps, PTL DEF ProtoSpec

-----------------------------------------------------------------------------
(* Cars, and what they leave behind them *)

Selected == Armed \cup {Unarmed}
Car == [at : Place, air : BOOLEAN, damage : Nat, wrecked : BOOLEAN, tow : Nat, home : BOOLEAN,
        ammo : [Armed -> Nat], selected : Selected, held : Nat, cycled : BOOLEAN, cooldown : Nat]
LeftBehind == [kind : Armed, owner : Racer, at : Place, life : Nat, spent : BOOLEAN, born : Nat]
Worlds == [car : [Racer -> Car], hazard : Seq(LeftBehind)]

\* What is selected is there to be used.
Ready(c) == IF c.selected = Unarmed THEN \A k \in Armed : c.ammo[k] = 0
            ELSE c.ammo[c.selected] > 0

\* What is left of a number less than twice as much as it is divided by.
LEMMA Wraps ==
  ASSUME NEW m \in Nat, NEW x \in Nat, x < m
  PROVE  x % m = x /\ (x + m) % m = x
<1>1. x % m = x
  OBVIOUS
<1>2. (x + m) % m = x
  OBVIOUS
<1> QED
  BY <1>1, <1>2

\* gs_next_armed looks at every kind, wherever it begins.
LEMMA NextArmedIs ==
  ASSUME NEW c, c.ammo \in [Armed -> Nat], c.selected \in Selected
  PROVE  /\ NextArmed(c) \in Selected
         /\ IF NextArmed(c) = Unarmed THEN \A k \in Armed : c.ammo[k] = 0
            ELSE c.ammo[NextArmed(c)] > 0
<1> DEFINE m == Len(Weapons)
           from == IF c.selected = Unarmed THEN 0
                   ELSE CHOOSE i \in DOMAIN Weapons : Weapons[i] = c.selected
           kind(s) == Weapons[1 + ((from - 1 + s) % m)]
           found == {s \in 1 .. m : c.ammo[kind(s)] > 0}
           first == CHOOSE s \in found : \A r \in found : s <= r
<1>1. NextArmed(c) = IF found = {} THEN Unarmed ELSE kind(first)
  BY DEF NextArmed
<1>2. /\ m \in Nat /\ DOMAIN Weapons = 1 .. m /\ Unarmed \notin Armed
      /\ \A i \in 1 .. m : Weapons[i] \in Armed
      /\ \A k \in Armed : \E i \in 1 .. m : Weapons[i] = k
  BY ArmsAssumption DEF Armed, ToSet
<1>3. from \in 0 .. m
  <2>1. CASE c.selected = Unarmed
    BY <1>2, <2>1
  <2>2. CASE c.selected # Unarmed
    <3>1. \E i \in DOMAIN Weapons : Weapons[i] = c.selected
      BY <1>2, <2>2 DEF Selected
    <3> QED
      BY <1>2, <2>2, <3>1
  <2> QED
    BY <2>1, <2>2
<1> HIDE DEF from, m
<1>4. ASSUME NEW s \in 1 .. m PROVE 1 + ((from - 1 + s) % m) \in 1 .. m
  <2>1. from - 1 + s \in Nat /\ m > 0
    BY <1>2, <1>3
  <2>2. PICK x \in Nat : x = from - 1 + s
    BY <2>1
  <2>3. x % m \in 0 .. m - 1
    BY <1>2, <2>1
  <2>4. PICK y \in Nat : y = x % m /\ y <= m - 1
    BY <1>2, <2>1, <2>3
  <2>5. 1 + y \in 1 .. m
    BY <1>2, <2>1, <2>4
  <2> QED
    BY <2>2, <2>4, <2>5
<1>5. \A s \in 1 .. m : kind(s) \in Armed
  BY <1>2, <1>4
<1>6. ASSUME NEW i \in 1 .. m PROVE \E s \in 1 .. m : kind(s) = Weapons[i]
  <2>0. PICK x \in Nat : x = i - 1 /\ x < m
    BY <1>2
  <2>1. CASE from < i
    <3>1. PICK s \in 1 .. m : s = i - from
      BY <1>2, <1>3, <2>1
    <3>2. from - 1 + s = x /\ x + 1 = i
      BY <1>2, <1>3, <2>0, <3>1
    <3>3. x % m = x
      BY <1>2, <2>0, Wraps
    <3>4. 1 + ((from - 1 + s) % m) = i
      BY <2>0, <3>2, <3>3
    <3> QED
      BY <3>4
  <2>2. CASE ~(from < i)
    <3>1. PICK s \in 1 .. m : s = i - from + m
      BY <1>2, <1>3, <2>2
    <3>2. from - 1 + s = x + m /\ x + 1 = i
      BY <1>2, <1>3, <2>0, <3>1
    <3>3. (x + m) % m = x
      BY <1>2, <2>0, Wraps
    <3>4. 1 + ((from - 1 + s) % m) = i
      BY <2>0, <3>2, <3>3
    <3> QED
      BY <3>4
  <2> QED
    BY <2>1, <2>2
<1> HIDE DEF kind
<1>7. CASE found = {}
  <2>1. \A k \in Armed : c.ammo[k] = 0
    <3>1. ASSUME NEW k \in Armed PROVE c.ammo[k] = 0
      <4>1. PICK i \in 1 .. m : Weapons[i] = k
        BY <1>2
      <4>2. PICK s \in 1 .. m : kind(s) = k
        BY <1>6, <4>1
      <4>3. ~(c.ammo[k] > 0)
        BY <1>7, <4>2
      <4> QED
        BY <4>3
    <3> QED
      BY <3>1
  <2> QED
    BY <1>1, <1>7, <2>1 DEF Selected
<1>8. CASE found # {}
  <2>1. found \subseteq Nat
    OBVIOUS
  <2>2. \E s \in found : \A r \in found : s <= r
    <3> HIDE DEF found
    <3> QED
      BY <1>8, <2>1, LeastNat
  <2>3. first \in found
    BY <2>2
  <2> HIDE DEF first
  <2>4. kind(first) \in Armed /\ c.ammo[kind(first)] > 0
    BY <1>5, <2>3
  <2> QED
    BY <1>1, <1>2, <1>8, <2>4 DEF Selected
<1> QED
  BY <1>7, <1>8

\* One more left behind, at place m.
Dropped(h, h2, m, new) ==
    /\ h2 \in Seq(LeftBehind) /\ m \in DOMAIN h2 /\ h2[m] = new
    /\ \A n \in DOMAIN h2 : n # m => n \in DOMAIN h /\ h2[n] = h[n]

\* The ring takes one more, in a new place or in another's.
LEMMA RingIs ==
  ASSUME NEW h \in Seq(LeftBehind), NEW new \in LeftBehind, tick \in Nat
  PROVE  \E m : Dropped(h, IF Len(h) < Ring THEN Append(h, new)
                           ELSE [h EXCEPT ![1 + (tick % Ring)] = new], m, new)
<1>1. Ring \in Nat /\ Ring > 0
  BY ArmsAssumption
<1>2. CASE Len(h) < Ring
  <2>1. PICK u : u = Append(h, new)
    OBVIOUS
  <2>2. u \in Seq(LeftBehind) /\ Len(u) = Len(h) + 1
    BY <2>1
  <2>3. u[Len(h) + 1] = new /\ \A n \in 1 .. Len(h) : u[n] = h[n]
    BY <2>1
  <2>4. DOMAIN u = 1 .. Len(h) + 1 /\ DOMAIN h = 1 .. Len(h) /\ Len(h) \in Nat
    BY <2>2
  <2>5. Dropped(h, u, Len(h) + 1, new)
    BY <2>2, <2>3, <2>4 DEF Dropped
  <2> QED
    BY <1>2, <2>1, <2>5
<1>3. CASE ~(Len(h) < Ring)
  <2>1. PICK m : m = 1 + (tick % Ring)
    OBVIOUS
  <2>2. tick % Ring \in 0 .. Ring - 1
    BY <1>1
  <2>3. m \in 1 .. Len(h)
    BY <1>1, <1>3, <2>1, <2>2
  <2>4. PICK u : u = [h EXCEPT ![m] = new]
    OBVIOUS
  <2>5. u \in Seq(LeftBehind) /\ DOMAIN u = DOMAIN h /\ DOMAIN h = 1 .. Len(h)
    BY <2>3, <2>4
  <2>6. u[m] = new /\ \A n \in DOMAIN h : n # m => u[n] = h[n]
    BY <2>3, <2>4, <2>5
  <2>7. Dropped(h, u, m, new)
    BY <2>3, <2>5, <2>6 DEF Dropped
  <2> QED
    BY <1>3, <2>1, <2>4, <2>7
<1> QED
  BY <1>2, <1>3

\* A car of which nothing that the weapons need has changed.
Alike(c, c2) == c2.ammo = c.ammo /\ c2.selected = c.selected /\ c2.cooldown = c.cooldown

\* Ready it stays, then.
LEMMA AlikeReady ==
  ASSUME NEW c, NEW c2, Alike(c, c2), Ready(c)
  PROVE  Ready(c2)
BY DEF Alike, Ready

Go == [down : BOOLEAN, tow : BOOLEAN, to : Place, blows : Nat,
       how : {"rolls", "flies", "lands", "lost"}]

\* A car is one with any of its fields another.
LEMMA CarIs ==
  ASSUME NEW c \in Car
  PROVE  /\ c.at \in Place /\ c.air \in BOOLEAN /\ c.damage \in Nat /\ c.wrecked \in BOOLEAN
         /\ c.tow \in Nat /\ c.home \in BOOLEAN /\ c.ammo \in [Armed -> Nat]
         /\ c.selected \in Selected /\ c.held \in Nat /\ c.cycled \in BOOLEAN
         /\ c.cooldown \in Nat
BY DEF Car

\* A car hit so many times is a car, with what it carried.
LEMMA StruckIs ==
  ASSUME NEW c \in Car, NEW blows \in Nat
  PROVE  Struck(c, blows) \in Car /\ Alike(c, Struck(c, blows))
<1>1. Blows \in Nat /\ c.damage \in Nat /\ c.wrecked \in BOOLEAN
  BY CarIs, ArmsAssumption
<1>2. PICK d : d = IF c.damage + blows < Blows THEN c.damage + blows ELSE Blows
  OBVIOUS
<1>3. d \in Nat
  BY <1>1, <1>2
<1>4. PICK o \in BOOLEAN : o = (c.wrecked \/ d = Blows)
  OBVIOUS
<1>5. Struck(c, blows) = [c EXCEPT !.damage = d, !.wrecked = o]
  BY <1>2, <1>4 DEF Struck
<1>6. [c EXCEPT !.damage = d, !.wrecked = o] \in Car
  BY <1>3 DEF Car
<1>7. Alike(c, [c EXCEPT !.damage = d, !.wrecked = o])
  BY DEF Alike, Car
<1> QED
  BY <1>5, <1>6, <1>7

\* So is one that rolls, flies, lands or is lost.
LEMMA CourseIs ==
  ASSUME NEW c \in Car, NEW go \in Go
  PROVE  Course(c, go) \in Car /\ Alike(c, Course(c, go))
<1>1. go.to \in Place /\ go.blows \in Nat /\ go.how \in {"rolls", "flies", "lands", "lost"}
  BY DEF Go
<1>2. CASE go.how = "lost"
  <2>1. Course(c, go) = [c EXCEPT !.damage = Blows, !.wrecked = TRUE]
    BY <1>2 DEF Course, Lost
  <2>2. Blows \in Nat
    BY ArmsAssumption
  <2> QED
    BY <2>1, <2>2 DEF Car, Alike
<1>3. CASE go.how = "rolls"
  <2>1. Course(c, go) = [c EXCEPT !.at = go.to]
    BY <1>3 DEF Course
  <2> QED
    BY <1>1, <2>1 DEF Car, Alike
<1>4. CASE go.how = "flies"
  <2>1. Course(c, go) = [c EXCEPT !.at = go.to, !.air = TRUE]
    BY <1>4 DEF Course
  <2> QED
    BY <1>1, <2>1 DEF Car, Alike
<1>5. CASE go.how = "lands"
  <2>1. PICK c1 : c1 = [c EXCEPT !.at = go.to, !.air = FALSE]
    OBVIOUS
  <2>2. Course(c, go) = Struck(c1, go.blows)
    BY <1>5, <2>1 DEF Course
  <2>3. c1 \in Car /\ Alike(c, c1)
    BY <1>1, <2>1 DEF Car, Alike
  <2>4. Struck(c1, go.blows) \in Car /\ Alike(c1, Struck(c1, go.blows))
    BY <1>1, <2>3, StruckIs
  <2> QED
    BY <2>2, <2>3, <2>4 DEF Alike
<1> QED
  BY <1>1, <1>2, <1>3, <1>4, <1>5

\* A world with another car in it.
LEMMA WithCarIs ==
  ASSUME NEW w \in Worlds, NEW i \in Racer, NEW c \in Car
  PROVE  /\ w.car \in [Racer -> Car] /\ w.hazard \in Seq(LeftBehind) /\ w.car[i] \in Car
         /\ [w EXCEPT !.car[i] = c] \in Worlds
         /\ [w EXCEPT !.car[i] = c].hazard = w.hazard
         /\ [w EXCEPT !.car[i] = c].car = [w.car EXCEPT ![i] = c]
         /\ [w EXCEPT !.car[i] = c].car[i] = c
         /\ \A j \in Racer : j # i => [w EXCEPT !.car[i] = c].car[j] = w.car[j]
<1>1. w.car \in [Racer -> Car] /\ w.hazard \in Seq(LeftBehind)
  BY DEF Worlds
<1>2. PICK u : u = [w.car EXCEPT ![i] = c]
  OBVIOUS
<1>3. u \in [Racer -> Car] /\ u[i] = c /\ \A j \in Racer : j # i => u[j] = w.car[j]
  BY <1>1, <1>2
<1>4. [w EXCEPT !.car[i] = c] = [w EXCEPT !.car = u]
  BY <1>2
<1>5. [w EXCEPT !.car = u] \in Worlds /\ [w EXCEPT !.car = u].hazard = w.hazard
      /\ [w EXCEPT !.car = u].car = u
  BY <1>3 DEF Worlds
<1> QED
  BY <1>1, <1>2, <1>3, <1>4, <1>5

\* What a car left: as much less of it, and one more behind it.
LeftOne(w, w2, i) ==
    LET c == w.car[i]
        c2 == w2.car[i]
    IN  /\ c.selected \in Armed /\ c.ammo[c.selected] > 0
        /\ c2.ammo = [c.ammo EXCEPT ![c.selected] = @ - 1] /\ c2.cooldown = Cooldown
        /\ \E m, new :
              /\ Dropped(w.hazard, w2.hazard, m, new) /\ new \in LeftBehind
              /\ new.kind = c.selected /\ new.owner = i /\ new.life = Lasts[c.selected]
              /\ new.spent = FALSE /\ new.born = tick

\* What a car's button may do to the world.
Acted(w, w2, i) ==
    /\ w2 \in Worlds /\ \A j \in Racer : j # i => w2.car[j] = w.car[j]
    /\ Ready(w.car[i]) => Ready(w2.car[i])
    /\ \/ /\ w2.hazard = w.hazard /\ w2.car[i].ammo = w.car[i].ammo
          /\ w2.car[i].cooldown = w.car[i].cooldown
       \/ w.car[i].cooldown = 0 /\ LeftOne(w, w2, i)

\* Nothing done is done as well.
LEMMA NoAct ==
  ASSUME NEW w \in Worlds, NEW i \in Racer
  PROVE  Acted(w, w, i)
BY DEF Acted

LEMMA DropIs ==
  ASSUME NEW w \in Worlds, NEW i \in Racer, tick \in Nat
  PROVE  Acted(w, Drop(w, i), i)
<1>1. PICK c, kind : c = w.car[i] /\ kind = c.selected
  OBVIOUS
<1>2. c \in Car /\ w.car \in [Racer -> Car] /\ w.hazard \in Seq(LeftBehind)
  BY <1>1 DEF Worlds
<1>3. CASE kind = Unarmed \/ c.wrecked \/ c.cooldown # 0 \/ c.ammo[kind] = 0
  <2>1. Drop(w, i) = w
    BY <1>1, <1>3 DEF Drop
  <2> QED
    BY <2>1, NoAct
<1>4. CASE ~(kind = Unarmed \/ c.wrecked \/ c.cooldown # 0 \/ c.ammo[kind] = 0)
  <2>1. kind \in Armed /\ c.ammo \in [Armed -> Nat] /\ c.ammo[kind] > 0 /\ c.at \in Place
        /\ c.cooldown = 0 /\ Lasts[kind] \in Nat /\ Cooldown \in Nat
    <3>1. c.selected \in Selected /\ c.ammo \in [Armed -> Nat] /\ c.at \in Place
      BY <1>2, CarIs
    <3>2. kind \in Armed
      BY <1>1, <1>4, <3>1 DEF Selected
    <3> QED
      BY <1>4, <3>1, <3>2, ArmsAssumption
  <2>2. PICK new : new = [kind |-> kind, owner |-> i, at |-> c.at, life |-> Lasts[kind],
                          spent |-> FALSE, born |-> tick]
    OBVIOUS
  <2>3. new \in LeftBehind
    BY <2>1, <2>2 DEF LeftBehind
  <2>4. PICK h : h = IF Len(w.hazard) < Ring THEN Append(w.hazard, new)
                     ELSE [w.hazard EXCEPT ![1 + (tick % Ring)] = new]
    OBVIOUS
  <2>5. PICK m : Dropped(w.hazard, h, m, new)
    BY <1>2, <2>3, <2>4, RingIs
  <2>6. PICK ammo : ammo = [c.ammo EXCEPT ![kind] = @ - 1]
    OBVIOUS
  <2>7. ammo \in [Armed -> Nat]
    BY <2>1, <2>6
  <2>8. PICK less : less = [c EXCEPT !.cooldown = Cooldown, !.ammo[kind] = @ - 1]
    OBVIOUS
  <2>9. less = [c EXCEPT !.cooldown = Cooldown, !.ammo = ammo]
    BY <1>2, <2>6, <2>8 DEF Car
  <2>10. /\ less \in Car /\ less.ammo = ammo /\ less.cooldown = Cooldown
         /\ less.selected = kind
    BY <1>1, <1>2, <2>1, <2>7, <2>9 DEF Car
  <2>11. PICK c2 : c2 = IF less.ammo[kind] = 0 THEN [less EXCEPT !.selected = NextArmed(less)]
                        ELSE less
    OBVIOUS
  <2>12. c2 \in Car /\ c2.ammo = ammo /\ c2.cooldown = Cooldown /\ Ready(c2)
    <3>1. CASE less.ammo[kind] = 0
      <4>1. NextArmed(less) \in Selected
            /\ IF NextArmed(less) = Unarmed THEN \A k \in Armed : less.ammo[k] = 0
               ELSE less.ammo[NextArmed(less)] > 0
        BY <2>7, <2>10, NextArmedIs, CarIs
      <4>2. PICK k \in Selected : k = NextArmed(less)
        BY <4>1
      <4>3. c2 = [less EXCEPT !.selected = k]
        BY <2>11, <3>1, <4>2
      <4>4. c2 \in Car /\ c2.ammo = ammo /\ c2.cooldown = Cooldown /\ c2.selected = k
        BY <2>10, <4>3 DEF Car
      <4> QED
        BY <2>10, <4>1, <4>2, <4>4 DEF Ready
    <3>2. CASE less.ammo[kind] # 0
      <4>1. c2 = less /\ ammo[kind] \in Nat /\ ammo[kind] # 0 /\ kind # Unarmed
        BY <1>4, <2>1, <2>7, <2>10, <2>11, <3>2
      <4> QED
        BY <2>10, <4>1 DEF Ready
    <3> QED
      BY <3>1, <3>2
  <2>13. Drop(w, i) = [car |-> [w.car EXCEPT ![i] = c2], hazard |-> h]
    BY <1>1, <1>4, <2>2, <2>4, <2>8, <2>11 DEF Drop
  <2>14. PICK w2 : w2 = Drop(w, i)
    OBVIOUS
  <2>15. /\ w2.hazard = h /\ w2.car = [w.car EXCEPT ![i] = c2] /\ w2.car[i] = c2
         /\ \A j \in Racer : j # i => w2.car[j] = w.car[j]
    BY <1>2, <2>13, <2>14
  <2>16. h \in Seq(LeftBehind)
    BY <2>5 DEF Dropped
  <2>17. w2 \in Worlds
    BY <1>2, <2>12, <2>13, <2>14, <2>16 DEF Worlds
  <2>18. LeftOne(w, w2, i)
    <3>1. /\ new.kind = kind /\ new.owner = i /\ new.life = Lasts[kind] /\ new.spent = FALSE
          /\ new.born = tick
      BY <2>2
    <3> QED
      BY <1>1, <2>1, <2>3, <2>5, <2>6, <2>12, <2>15, <3>1 DEF LeftOne
  <2> QED
    BY <1>1, <2>1, <2>12, <2>14, <2>15, <2>17, <2>18 DEF Acted
<1> QED
  BY <1>3, <1>4

\* The button does to a world what a car that leaves something does, or nothing of it.
LEMMA FireIs ==
  ASSUME NEW w \in Worlds, NEW i \in Racer, NEW down \in BOOLEAN, tick \in Nat
  PROVE  Acted(w, FireButton(w, i, down), i)
<1>1. PICK c : c = w.car[i]
  OBVIOUS
<1>2. c \in Car /\ w.car \in [Racer -> Car]
  BY <1>1 DEF Worlds
<1>3. FireHold \in Nat
  BY ArmsAssumption
<1>4. PICK longer : longer = IF c.held < FireHold THEN c.held + 1 ELSE c.held
  OBVIOUS
<1>5. longer \in Nat
  BY <1>2, <1>3, <1>4, CarIs
<1>6. CASE down
  <2>1. PICK c2 : c2 = IF longer >= FireHold /\ ~c.cycled
                       THEN [c EXCEPT !.held = longer, !.selected = NextArmed(c), !.cycled = TRUE]
                       ELSE [c EXCEPT !.held = longer]
    OBVIOUS
  <2>2. c2 \in Car /\ c2.ammo = c.ammo /\ c2.cooldown = c.cooldown /\ (Ready(c) => Ready(c2))
    <3>1. CASE longer >= FireHold /\ ~c.cycled
      <4>1. NextArmed(c) \in Selected
            /\ IF NextArmed(c) = Unarmed THEN \A k \in Armed : c.ammo[k] = 0
               ELSE c.ammo[NextArmed(c)] > 0
        BY <1>2, CarIs, NextArmedIs
      <4>2. PICK k \in Selected : k = NextArmed(c)
        BY <4>1
      <4>3. c2 = [c EXCEPT !.held = longer, !.selected = k, !.cycled = TRUE]
        BY <2>1, <3>1, <4>2
      <4>4. c2 \in Car /\ c2.ammo = c.ammo /\ c2.cooldown = c.cooldown /\ c2.selected = k
        BY <1>2, <1>5, <4>3 DEF Car
      <4> QED
        BY <4>1, <4>2, <4>4 DEF Ready
    <3>2. CASE ~(longer >= FireHold /\ ~c.cycled)
      <4>1. c2 = [c EXCEPT !.held = longer]
        BY <2>1, <3>2
      <4>2. c2 \in Car /\ Alike(c, c2)
        BY <1>2, <1>5, <4>1 DEF Car, Alike
      <4> QED
        BY <4>2, AlikeReady DEF Alike
    <3> QED
      BY <3>1, <3>2
  <2>3. FireButton(w, i, down) = [w EXCEPT !.car[i] = c2]
    BY <1>1, <1>4, <1>6, <2>1 DEF FireButton
  <2>4. PICK w2 : w2 = [w EXCEPT !.car[i] = c2]
    OBVIOUS
  <2>5. /\ w2 \in Worlds /\ w2.hazard = w.hazard /\ w2.car[i] = c2
        /\ \A j \in Racer : j # i => w2.car[j] = w.car[j]
    BY <2>2, <2>4, WithCarIs
  <2> QED
    BY <1>1, <2>2, <2>3, <2>4, <2>5 DEF Acted
<1>7. CASE ~down
  <2>1. PICK up : up = IF c.held > 0 /\ ~c.cycled THEN Drop(w, i) ELSE w
    OBVIOUS
  <2>2. Acted(w, up, i)
    <3>1. CASE c.held > 0 /\ ~c.cycled
      BY <2>1, <3>1, DropIs
    <3>2. CASE ~(c.held > 0 /\ ~c.cycled)
      BY <2>1, <3>2, NoAct
    <3> QED
      BY <3>1, <3>2
  <2>3. PICK c1 : c1 = up.car[i]
    OBVIOUS
  <2>4. up \in Worlds /\ c1 \in Car /\ up.car \in [Racer -> Car]
    BY <2>2, <2>3 DEF Acted, Worlds
  <2>5. PICK c2 : c2 = [c1 EXCEPT !.held = 0, !.cycled = FALSE]
    OBVIOUS
  <2>6. c2 \in Car /\ Alike(c1, c2)
    BY <2>4, <2>5 DEF Car, Alike
  <2>7. PICK w2 : w2 = FireButton(w, i, down)
    OBVIOUS
  <2>8. w2 = [up EXCEPT !.car[i].held = 0, !.car[i].cycled = FALSE]
    BY <1>1, <1>7, <2>1, <2>7 DEF FireButton
  <2>9. w2 = [up EXCEPT !.car[i] = c2]
    <3>1. [up.car EXCEPT ![i].held = 0, ![i].cycled = FALSE] = [up.car EXCEPT ![i] = c2]
      BY <2>3, <2>4, <2>5
    <3> QED
      BY <2>4, <2>8, <3>1 DEF Worlds
  <2>10. /\ w2 \in Worlds /\ w2.hazard = up.hazard /\ w2.car[i] = c2
         /\ \A j \in Racer : j # i => w2.car[j] = up.car[j]
    BY <2>4, <2>6, <2>9, WithCarIs
  <2>11. c2.ammo = c1.ammo /\ c2.cooldown = c1.cooldown
    BY <2>6 DEF Alike
  <2>12. Ready(c1) => Ready(c2)
    BY <2>6, AlikeReady
  <2>13. \/ /\ w2.hazard = w.hazard /\ w2.car[i].ammo = w.car[i].ammo
            /\ w2.car[i].cooldown = w.car[i].cooldown
         \/ w.car[i].cooldown = 0 /\ LeftOne(w, w2, i)
    BY <2>2, <2>3, <2>10, <2>11 DEF Acted, LeftOne
  <2>14. \A j \in Racer : j # i => w2.car[j] = w.car[j]
    BY <2>2, <2>10 DEF Acted
  <2>15. Ready(w.car[i]) => Ready(w2.car[i])
    BY <2>2, <2>3, <2>10, <2>12 DEF Acted
  <2> QED
    BY <2>7, <2>10, <2>13, <2>14, <2>15 DEF Acted
<1> QED
  BY <1>6, <1>7

\* What a car's own tick does to the world: at most one more is left behind, by that
\* car, and only when the last one was long enough ago.
Stepped(w, w2, i) ==
    /\ w2 \in Worlds /\ \A j \in Racer : j # i => w2.car[j] = w.car[j]
    /\ Ready(w.car[i]) => Ready(w2.car[i])
    /\ \/ /\ w2.hazard = w.hazard /\ w2.car[i].ammo = w.car[i].ammo
          /\ w2.car[i].cooldown + 1 >= w.car[i].cooldown
       \/ w.car[i].cooldown <= 1 /\ LeftOne(w, w2, i)

\* A car of which nothing that the weapons need has changed, in its world.
LEMMA QuietStep ==
  ASSUME NEW w \in Worlds, NEW i \in Racer, NEW c2 \in Car, Alike(w.car[i], c2)
  PROVE  Stepped(w, [w EXCEPT !.car[i] = c2], i)
<1>1. PICK w2 : w2 = [w EXCEPT !.car[i] = c2]
  OBVIOUS
<1>2. /\ w2 \in Worlds /\ w2.hazard = w.hazard /\ w2.car[i] = c2 /\ w.car[i] \in Car
      /\ \A j \in Racer : j # i => w2.car[j] = w.car[j]
  BY <1>1, WithCarIs
<1>3. Ready(w.car[i]) => Ready(c2)
  BY AlikeReady
<1>4. c2.ammo = w.car[i].ammo /\ c2.cooldown = w.car[i].cooldown /\ c2.cooldown \in Nat
  BY CarIs DEF Alike
<1> QED
  BY <1>1, <1>2, <1>3, <1>4 DEF Stepped

\* gs_car_step is such a step: a wreck, a car on the hook, one that calls for it, and one
\* that drives.
LEMMA StepCarIs ==
  ASSUME NEW w \in Worlds, NEW i \in Racer, NEW does \in Go, tick \in Nat
  PROVE  Stepped(w, StepCar(w, i, does), i)
<1>1. PICK c : c = w.car[i]
  OBVIOUS
<1>2. c \in Car /\ w.car \in [Racer -> Car] /\ Hook \in Nat
  BY <1>1, ArmsAssumption DEF Worlds
<1>3. does.down \in BOOLEAN /\ does.tow \in BOOLEAN /\ does.to \in Place
  BY DEF Go
<1>4. CASE c.wrecked
  <2>1. StepCar(w, i, does) = w
    BY <1>1, <1>4 DEF StepCar
  <2>2. w.car[i].cooldown \in Nat
    BY <1>1, <1>2, CarIs
  <2> QED
    BY <2>1, <2>2 DEF Stepped
<1>5. CASE ~c.wrecked /\ c.tow = 1
  <2>1. PICK c2 : c2 = [c EXCEPT !.tow = 0, !.at = does.to, !.air = FALSE]
    OBVIOUS
  <2>2. c2 \in Car /\ Alike(c, c2)
    BY <1>2, <1>3, <2>1 DEF Car, Alike
  <2>3. StepCar(w, i, does) = [w EXCEPT !.car[i].tow = 0, !.car[i].at = does.to,
                                         !.car[i].air = FALSE]
    BY <1>1, <1>5 DEF StepCar
  <2>4. [w.car EXCEPT ![i].tow = 0, ![i].at = does.to, ![i].air = FALSE]
          = [w.car EXCEPT ![i] = c2]
    BY <1>1, <1>2, <2>1
  <2>5. StepCar(w, i, does) = [w EXCEPT !.car[i] = c2]
    BY <2>3, <2>4 DEF Worlds
  <2> QED
    BY <1>1, <2>2, <2>5, QuietStep
<1>6. CASE ~c.wrecked /\ c.tow # 1 /\ c.tow > 0
  <2>1. PICK c2 : c2 = [c EXCEPT !.tow = c.tow - 1]
    OBVIOUS
  <2>2. c.tow - 1 \in Nat
    BY <1>2, <1>6, CarIs
  <2>3. c2 \in Car /\ Alike(c, c2)
    BY <1>2, <2>1, <2>2 DEF Car, Alike
  <2>4. StepCar(w, i, does) = [w EXCEPT !.car[i].tow = @ - 1]
    BY <1>1, <1>6 DEF StepCar
  <2>5. StepCar(w, i, does) = [w EXCEPT !.car[i] = c2]
    BY <1>1, <2>1, <2>4
  <2> QED
    BY <1>1, <2>3, <2>5, QuietStep
<1>7. CASE ~c.wrecked /\ c.tow # 1 /\ ~(c.tow > 0) /\ does.tow /\ ~c.home
  <2>1. PICK c2 : c2 = [c EXCEPT !.tow = Hook]
    OBVIOUS
  <2>2. c2 \in Car /\ Alike(c, c2)
    BY <1>2, <2>1 DEF Car, Alike
  <2>3. StepCar(w, i, does) = [w EXCEPT !.car[i].tow = Hook]
    BY <1>1, <1>7 DEF StepCar
  <2>4. StepCar(w, i, does) = [w EXCEPT !.car[i] = c2]
    BY <1>1, <2>1, <2>3
  <2> QED
    BY <1>1, <2>2, <2>4, QuietStep
<1>8. CASE ~c.wrecked /\ c.tow # 1 /\ ~(c.tow > 0) /\ ~(does.tow /\ ~c.home)
  <2>1. PICK down \in BOOLEAN : down = (does.down /\ ~c.home)
    OBVIOUS
  <2>2. PICK cool : cool = IF c.cooldown > 0 THEN c.cooldown - 1 ELSE 0
    OBVIOUS
  <2>3. cool \in Nat /\ cool + 1 >= c.cooldown /\ (cool = 0 => c.cooldown <= 1)
        /\ c.cooldown \in Nat
    BY <1>2, <2>2, CarIs
  <2>4. PICK cooled : cooled = [c EXCEPT !.cooldown = cool]
    OBVIOUS
  <2>5. cooled \in Car /\ cooled.ammo = c.ammo /\ cooled.selected = c.selected
        /\ cooled.cooldown = cool
    BY <1>2, <2>3, <2>4 DEF Car
  <2>6. PICK w1 : w1 = [w EXCEPT !.car[i] = cooled]
    OBVIOUS
  <2>7. /\ w1 \in Worlds /\ w1.hazard = w.hazard /\ w1.car[i] = cooled
        /\ \A j \in Racer : j # i => w1.car[j] = w.car[j]
    BY <2>5, <2>6, WithCarIs
  <2>8. PICK fired : fired = FireButton(w1, i, down)
    OBVIOUS
  <2>9. Acted(w1, fired, i)
    BY <2>7, <2>8, FireIs
  <2>10. PICK c1 : c1 = fired.car[i]
    OBVIOUS
  <2>11. fired \in Worlds /\ c1 \in Car
    BY <2>9, <2>10 DEF Acted, Worlds
  <2>12. PICK c2 : c2 = Course(c1, does)
    OBVIOUS
  <2>13. c2 \in Car /\ Alike(c1, c2)
    BY <2>11, <2>12, CourseIs
  <2>14. PICK w2 : w2 = StepCar(w, i, does)
    OBVIOUS
  <2>15. w2 = [fired EXCEPT !.car[i] = c2]
    <3>1. cooled = [c EXCEPT !.cooldown = IF @ > 0 THEN @ - 1 ELSE 0]
      BY <2>2, <2>4
    <3>2. fired = FireButton([w EXCEPT !.car[i] = [c EXCEPT !.cooldown = IF @ > 0 THEN @ - 1 ELSE 0]], i,
                             does.down /\ ~c.home)
      BY <2>1, <2>6, <2>8, <3>1
    <3>3. w2 = [fired EXCEPT !.car[i] = Course(@, does)]
      BY <1>1, <1>8, <2>14, <3>2 DEF StepCar
    <3> QED
      BY <2>10, <2>12, <3>3
  <2>16. /\ w2 \in Worlds /\ w2.hazard = fired.hazard /\ w2.car[i] = c2
         /\ \A j \in Racer : j # i => w2.car[j] = fired.car[j]
    BY <2>11, <2>13, <2>15, WithCarIs
  <2>17. c2.ammo = c1.ammo /\ c2.cooldown = c1.cooldown /\ (Ready(c1) => Ready(c2))
    BY <2>13, AlikeReady DEF Alike
  <2>18. \A j \in Racer : j # i => w2.car[j] = w.car[j]
    BY <2>7, <2>9, <2>16 DEF Acted
  <2>19. Ready(w.car[i]) => Ready(w2.car[i])
    <3>1. Ready(c) => Ready(cooled)
      BY <2>5 DEF Ready
    <3>2. Ready(cooled) => Ready(c1)
      BY <2>7, <2>9, <2>10 DEF Acted
    <3> QED
      BY <1>1, <2>16, <2>17, <3>1, <3>2
  <2>20. CASE fired.hazard = w1.hazard /\ c1.ammo = cooled.ammo /\ c1.cooldown = cooled.cooldown
    BY <1>1, <2>3, <2>5, <2>7, <2>14, <2>16, <2>17, <2>18, <2>19, <2>20 DEF Stepped
  <2>21. CASE cool = 0 /\ LeftOne(w1, fired, i)
    <3>1. LeftOne(w, w2, i)
      BY <1>1, <2>5, <2>7, <2>10, <2>16, <2>17, <2>21 DEF LeftOne
    <3> QED
      BY <1>1, <2>3, <2>14, <2>16, <2>18, <2>19, <2>21, <3>1 DEF Stepped
  <2> QED
    BY <2>5, <2>7, <2>9, <2>10, <2>20, <2>21 DEF Acted
<1>9. c.tow \in Nat /\ c.home \in BOOLEAN /\ c.wrecked \in BOOLEAN
  BY <1>2, CarIs
<1> QED
  BY <1>3, <1>4, <1>5, <1>6, <1>7, <1>8, <1>9

\* What has been left behind burns as long as its kind does: a mine that was hit is the
\* only one that is spent before its time.
Burning(h, t) ==
    /\ h.born <= t /\ h.life + (t - h.born) >= Lasts[h.kind]
    /\ Lasts[h.kind] # 0 /\ ~h.spent => h.life = Lasts[h.kind] - (t - h.born) /\ h.life > 0
    /\ h.kind # "mine" /\ Lasts[h.kind] # 0 /\ h.spent => t - h.born >= Lasts[h.kind]

\* How many of kind k there are of car i's.
Left(h, i, k) == {n \in DOMAIN h : h[n].owner = i /\ h[n].kind = k}

\* What was left was carried.
Counted(w) ==
    \A i \in Racer : \A k \in Armed :
        Cardinality(Left(w.hazard, i, k)) <= Loadout[k] - w.car[i].ammo[k]

\* Whoever leaves one leaves the next a good while later.
Apart(h) ==
    \A n, m \in DOMAIN h :
        n # m /\ h[n].owner = h[m].owner /\ h[n].born >= h[m].born
          => h[n].born - h[m].born >= Cooldown

\* The last tick car i has driven, when those before k have driven in tick t.
Drove(i, k, t) == IF i < k THEN t ELSE t - 1

\* ... for a car that has just left one has to wait.
Spaced(w, k, t) ==
    \A n \in DOMAIN w.hazard : \A i \in Racer :
        w.hazard[n].owner = i
          => Drove(i, k, t) - w.hazard[n].born + w.car[i].cooldown >= Cooldown

\* A world in tick t in which the cars before k have driven.
Sound(w, k, t) ==
    /\ w \in Worlds /\ \A i \in Racer : Ready(w.car[i])
    /\ Counted(w) /\ \A n \in DOMAIN w.hazard : Burning(w.hazard[n], t)
    /\ Apart(w.hazard) /\ Spaced(w, k, t)

\* There are only so many of them.
LEMMA LeftIsFinite ==
  ASSUME NEW h \in Seq(LeftBehind), NEW i, NEW k
  PROVE  IsFiniteSet(Left(h, i, k)) /\ Cardinality(Left(h, i, k)) \in Nat
<1>1. DOMAIN h = 1 .. Len(h) /\ Len(h) \in Nat
  OBVIOUS
<1>2. IsFiniteSet(1 .. Len(h))
  BY <1>1, FS_Interval
<1>3. Left(h, i, k) \subseteq 1 .. Len(h)
  BY <1>1 DEF Left
<1>4. IsFiniteSet(Left(h, i, k))
  BY <1>2, <1>3, FS_Subset
<1> QED
  BY <1>4, FS_CardinalityType

\* One more behind a car is at most one more of what it was, and none of the others.
LEMMA LeftThen ==
  ASSUME NEW h \in Seq(LeftBehind), NEW h2, NEW m, NEW new \in LeftBehind,
         Dropped(h, h2, m, new), NEW i, NEW k
  PROVE  /\ h2 \in Seq(LeftBehind)
         /\ Cardinality(Left(h2, i, k)) <= Cardinality(Left(h, i, k)) + 1
         /\ ~(new.owner = i /\ new.kind = k)
              => Cardinality(Left(h2, i, k)) <= Cardinality(Left(h, i, k))
<1>1. h2 \in Seq(LeftBehind) /\ m \in DOMAIN h2 /\ h2[m] = new
      /\ \A n \in DOMAIN h2 : n # m => n \in DOMAIN h /\ h2[n] = h[n]
  BY DEF Dropped
<1>2. PICK S, T : S = Left(h, i, k) /\ T = Left(h2, i, k)
  OBVIOUS
<1>3. IsFiniteSet(S) /\ IsFiniteSet(T) /\ Cardinality(S) \in Nat /\ Cardinality(T) \in Nat
  BY <1>1, <1>2, LeftIsFinite
<1>4. T \subseteq S \cup {m}
  <2>1. ASSUME NEW n \in T PROVE n \in S \cup {m}
    <3>1. n \in DOMAIN h2 /\ h2[n].owner = i /\ h2[n].kind = k
      BY <1>2, <2>1 DEF Left
    <3>2. CASE n # m
      <4>1. n \in DOMAIN h /\ h[n].owner = i /\ h[n].kind = k
        BY <1>1, <3>1, <3>2
      <4> QED
        BY <1>2, <4>1 DEF Left
    <3> QED
      BY <3>2
  <2> QED
    BY <2>1
<1>5. IsFiniteSet(S \cup {m}) /\ Cardinality(S \cup {m}) \in Nat
      /\ Cardinality(S \cup {m}) <= Cardinality(S) + 1
  BY <1>3, FS_AddElement, FS_CardinalityType
<1>6. Cardinality(T) <= Cardinality(S \cup {m})
  BY <1>4, <1>5, FS_Subset
<1>7. Cardinality(T) <= Cardinality(S) + 1
  BY <1>3, <1>5, <1>6
<1>8. ASSUME ~(new.owner = i /\ new.kind = k) PROVE Cardinality(T) <= Cardinality(S)
  <2>1. m \notin T
    BY <1>1, <1>2, <1>8 DEF Left
  <2>2. T \subseteq S
    BY <1>4, <2>1
  <2> QED
    BY <1>3, <2>2, FS_Subset
<1> QED
  BY <1>1, <1>2, <1>7, <1>8

\* A car that leaves nothing leaves the world sound.
LEMMA QuietSound ==
  ASSUME NEW w, NEW w2, NEW i \in Racer, tick \in Nat, Sound(w, i, tick),
         Stepped(w, w2, i), w2.hazard = w.hazard, w2.car[i].ammo = w.car[i].ammo,
         w2.car[i].cooldown + 1 >= w.car[i].cooldown
  PROVE  Sound(w2, i + 1, tick)
<1>1. w2 \in Worlds /\ w \in Worlds /\ \A j \in Racer : j # i => w2.car[j] = w.car[j]
  BY DEF Stepped, Sound
<1>2. \A j \in Racer : Ready(w2.car[j])
  BY <1>1 DEF Stepped, Sound
<1>3. Counted(w2)
  <2>1. \A j \in Racer : w2.car[j].ammo = w.car[j].ammo
    BY <1>1
  <2>2. Counted(w)
    BY DEF Sound
  <2> QED
    BY <2>1, <2>2 DEF Counted
<1>4. (\A n \in DOMAIN w2.hazard : Burning(w2.hazard[n], tick)) /\ Apart(w2.hazard)
  BY DEF Sound
<1>5. Spaced(w2, i + 1, tick)
  <2>1. ASSUME NEW n \in DOMAIN w2.hazard, NEW j \in Racer, w2.hazard[n].owner = j
        PROVE  Drove(j, i + 1, tick) - w2.hazard[n].born + w2.car[j].cooldown >= Cooldown
    <3>1. Drove(j, i, tick) - w.hazard[n].born + w.car[j].cooldown >= Cooldown
      BY <2>1 DEF Sound, Spaced
    <3>2. w.hazard[n] \in LeftBehind /\ w.car[j] \in Car /\ w2.car[j] \in Car
      BY <1>1, <2>1 DEF Worlds
    <3>3. PICK b, c, c2 : b = w.hazard[n].born /\ c = w.car[j].cooldown
                          /\ c2 = w2.car[j].cooldown
      OBVIOUS
    <3>4. b \in Nat /\ c \in Nat /\ c2 \in Nat /\ Cooldown \in Nat /\ i \in Int /\ j \in Int
      <4>1. b \in Nat
        BY <3>2, <3>3 DEF LeftBehind
      <4>2. c \in Nat /\ c2 \in Nat
        BY <3>2, <3>3, CarIs
      <4>3. Cooldown \in Nat /\ i \in Int /\ j \in Int
        BY ArmsAssumption DEF Racer
      <4> QED
        BY <4>1, <4>2, <4>3
    <3>5. CASE j = i
      <4>1. tick - 1 - b + c >= Cooldown /\ c2 + 1 >= c
        BY <3>1, <3>3, <3>4, <3>5 DEF Drove
      <4>2. Drove(j, i + 1, tick) = tick
        BY <3>4, <3>5 DEF Drove
      <4> QED
        BY <3>3, <3>4, <4>1, <4>2
    <3>6. CASE j # i
      <4>1. c2 = c
        BY <1>1, <3>3, <3>6
      <4>2. Drove(j, i + 1, tick) = Drove(j, i, tick)
        BY <3>4, <3>6 DEF Drove
      <4> QED
        BY <3>1, <3>3, <4>1, <4>2
    <3> QED
      BY <3>5, <3>6
  <2> QED
    BY <2>1 DEF Spaced
<1> QED
  BY <1>1, <1>2, <1>3, <1>4, <1>5 DEF Sound

\* A car that leaves one leaves a sound world.
LEMMA LeftSound ==
  ASSUME NEW w, NEW w2, NEW i \in Racer, tick \in Nat, Sound(w, i, tick),
         Stepped(w, w2, i), w.car[i].cooldown <= 1, LeftOne(w, w2, i)
  PROVE  Sound(w2, i + 1, tick)
<1>1. w2 \in Worlds /\ w \in Worlds /\ \A j \in Racer : j # i => w2.car[j] = w.car[j]
  BY DEF Stepped, Sound
<1>2. \A j \in Racer : Ready(w2.car[j])
  BY <1>1 DEF Stepped, Sound
<1>3. PICK kind : kind = w.car[i].selected
  OBVIOUS
<1>4. PICK m, new :
        /\ Dropped(w.hazard, w2.hazard, m, new) /\ new \in LeftBehind
        /\ new.kind = kind /\ new.owner = i /\ new.life = Lasts[kind]
        /\ new.spent = FALSE /\ new.born = tick
  BY <1>3 DEF LeftOne
<1>5. /\ kind \in Armed /\ w.car[i].ammo[kind] > 0
      /\ w2.car[i].ammo = [w.car[i].ammo EXCEPT ![kind] = @ - 1]
      /\ w2.car[i].cooldown = Cooldown
  BY <1>3 DEF LeftOne
<1>6. PICK h, h2 : h = w.hazard /\ h2 = w2.hazard
  OBVIOUS
<1>7. /\ h \in Seq(LeftBehind) /\ h2 \in Seq(LeftBehind) /\ m \in DOMAIN h2 /\ h2[m] = new
      /\ \A n \in DOMAIN h2 : n # m => n \in DOMAIN h /\ h2[n] = h[n]
  BY <1>1, <1>4, <1>6 DEF Dropped, Worlds
<1>8. Cooldown \in Nat /\ Loadout \in [Armed -> Nat] /\ Lasts \in [Armed -> Nat]
  BY ArmsAssumption
<1>9. i \in Nat /\ \A j \in Racer : j \in Nat
  BY ArmsAssumption DEF Racer
<1>10. \A n \in DOMAIN h : h[n] \in LeftBehind /\ h[n].born \in Nat
  <2>1. \A n \in DOMAIN h : h[n] \in LeftBehind
    BY <1>7
  <2> QED
    BY <2>1 DEF LeftBehind
<1>11. \A j \in Racer : w.car[j] \in Car /\ w2.car[j] \in Car
  BY <1>1 DEF Worlds
<1>12. w.car[i].ammo \in [Armed -> Nat] /\ w.car[i].cooldown \in Nat
  BY <1>11, CarIs
<1>13. Counted(w2)
  <2>1. ASSUME NEW j \in Racer, NEW k \in Armed
        PROVE  Cardinality(Left(h2, j, k)) <= Loadout[k] - w2.car[j].ammo[k]
    <3>1. Cardinality(Left(h, j, k)) <= Loadout[k] - w.car[j].ammo[k]
      BY <1>6 DEF Sound, Counted
    <3>2. /\ Cardinality(Left(h2, j, k)) <= Cardinality(Left(h, j, k)) + 1
          /\ ~(new.owner = j /\ new.kind = k)
               => Cardinality(Left(h2, j, k)) <= Cardinality(Left(h, j, k))
      BY <1>4, <1>6, <1>7, LeftThen
    <3>3. PICK s, t : s = Cardinality(Left(h, j, k)) /\ t = Cardinality(Left(h2, j, k))
      OBVIOUS
    <3>4. s \in Nat /\ t \in Nat
      BY <1>7, <3>3, LeftIsFinite
    <3>5. PICK a, a2 : a = w.car[j].ammo[k] /\ a2 = w2.car[j].ammo[k]
      OBVIOUS
    <3>6. a \in Nat /\ a2 \in Nat /\ Loadout[k] \in Nat
      <4>1. w.car[j].ammo \in [Armed -> Nat] /\ w2.car[j].ammo \in [Armed -> Nat]
        BY <1>11, CarIs
      <4> QED
        BY <1>8, <3>5, <4>1
    <3>7. CASE j = i /\ k = kind
      <4>1. a2 = a - 1
        BY <1>5, <1>12, <3>5, <3>7
      <4> QED
        BY <3>1, <3>2, <3>3, <3>4, <3>5, <3>6, <4>1
    <3>8. CASE ~(j = i /\ k = kind)
      <4>1. a2 = a
        <5>1. CASE j = i
          BY <1>5, <1>12, <3>5, <3>8, <5>1
        <5>2. CASE j # i
          BY <1>1, <3>5, <5>2
        <5> QED
          BY <5>1, <5>2
      <4>2. ~(new.owner = j /\ new.kind = k)
        BY <1>4, <3>8
      <4> QED
        BY <3>1, <3>2, <3>3, <3>4, <3>5, <3>6, <4>1, <4>2
    <3> QED
      BY <3>7, <3>8
  <2> QED
    BY <1>6, <2>1 DEF Counted
<1>14. ASSUME NEW n \in DOMAIN h2 PROVE Burning(h2[n], tick)
  <2>1. CASE n = m
    <3>1. h2[n] = new /\ Lasts[kind] \in Nat
      BY <1>5, <1>7, <1>8, <2>1
    <3> QED
      BY <1>4, <3>1 DEF Burning
  <2>2. CASE n # m
    BY <1>6, <1>7, <2>2 DEF Sound
  <2> QED
    BY <2>1, <2>2
<1>15. ASSUME NEW n \in DOMAIN h, h[n].owner = i
       PROVE  tick - h[n].born >= Cooldown
  <2>1. Drove(i, i, tick) - h[n].born + w.car[i].cooldown >= Cooldown
    BY <1>6, <1>15 DEF Sound, Spaced
  <2>2. Drove(i, i, tick) = tick - 1
    BY <1>9 DEF Drove
  <2>3. PICK b, c : b = h[n].born /\ c = w.car[i].cooldown
    OBVIOUS
  <2>4. b \in Nat /\ c \in Nat /\ c <= 1
    BY <1>10, <1>12, <2>3
  <2> QED
    BY <1>8, <2>1, <2>2, <2>3, <2>4
<1>16. Apart(h2)
  <2>1. ASSUME NEW n \in DOMAIN h2, NEW r \in DOMAIN h2, n # r,
               h2[n].owner = h2[r].owner, h2[n].born >= h2[r].born
        PROVE  h2[n].born - h2[r].born >= Cooldown
    <3>1. CASE n # m /\ r # m
      <4>1. n \in DOMAIN h /\ r \in DOMAIN h /\ h2[n] = h[n] /\ h2[r] = h[r]
        BY <1>7, <3>1
      <4> QED
        BY <1>6, <2>1, <4>1 DEF Sound, Apart
    <3>2. CASE n = m
      <4>1. r \in DOMAIN h /\ h2[r] = h[r] /\ h2[n] = new
        BY <1>7, <2>1, <3>2
      <4>2. h[r].owner = i
        BY <1>4, <2>1, <4>1
      <4> QED
        BY <1>4, <1>15, <4>1, <4>2
    <3>3. CASE r = m /\ n # m
      <4>1. n \in DOMAIN h /\ h2[n] = h[n] /\ h2[r] = new
        BY <1>7, <3>3
      <4>2. h[n].owner = i /\ h[n].born \in Nat
        BY <1>4, <1>10, <2>1, <4>1
      <4>3. tick - h[n].born >= Cooldown
        BY <1>15, <4>1, <4>2
      <4>4. h[n].born >= tick
        BY <1>4, <2>1, <4>1
      <4> QED
        BY <1>4, <1>8, <4>1, <4>2, <4>3, <4>4
    <3> QED
      BY <3>1, <3>2, <3>3
  <2> QED
    BY <2>1 DEF Apart
<1>17. Spaced(w2, i + 1, tick)
  <2>1. ASSUME NEW n \in DOMAIN h2, NEW j \in Racer, h2[n].owner = j
        PROVE  Drove(j, i + 1, tick) - h2[n].born + w2.car[j].cooldown >= Cooldown
    <3>1. CASE j = i
      <4>1. Drove(j, i + 1, tick) = tick /\ w2.car[j].cooldown = Cooldown
        BY <1>5, <1>9, <3>1 DEF Drove
      <4>2. h2[n].born \in Nat /\ h2[n].born <= tick
        <5>1. Burning(h2[n], tick)
          BY <1>14
        <5>2. h2[n] \in LeftBehind
          BY <1>7
        <5> QED
          BY <5>1, <5>2 DEF Burning, LeftBehind
      <4> QED
        BY <1>8, <4>1, <4>2
    <3>2. CASE j # i
      <4>1. n # m
        BY <1>4, <1>7, <2>1, <3>2
      <4>2. n \in DOMAIN h /\ h2[n] = h[n] /\ w2.car[j] = w.car[j]
        BY <1>1, <1>7, <3>2, <4>1
      <4>3. Drove(j, i, tick) - h[n].born + w.car[j].cooldown >= Cooldown
        BY <1>6, <2>1, <4>2 DEF Sound, Spaced
      <4>4. Drove(j, i + 1, tick) = Drove(j, i, tick)
        <5>1. j < i + 1 <=> j < i
          BY <1>9, <3>2
        <5> QED
          BY <5>1 DEF Drove
      <4> QED
        BY <4>2, <4>3, <4>4
    <3> QED
      BY <3>1, <3>2
  <2> QED
    BY <1>6, <2>1 DEF Spaced
<1> QED
  BY <1>1, <1>2, <1>6, <1>13, <1>14, <1>16, <1>17 DEF Sound

\* A car's own tick leads to the next car's.
LEMMA SoundStep ==
  ASSUME NEW w, NEW w2, NEW i \in Racer, tick \in Nat, Sound(w, i, tick), Stepped(w, w2, i)
  PROVE  Sound(w2, i + 1, tick)
<1>1. CASE /\ w2.hazard = w.hazard /\ w2.car[i].ammo = w.car[i].ammo
           /\ w2.car[i].cooldown + 1 >= w.car[i].cooldown
  BY <1>1, QuietSound
<1>2. CASE w.car[i].cooldown <= 1 /\ LeftOne(w, w2, i)
  BY <1>2, LeftSound
<1> QED
  BY <1>1, <1>2 DEF Stepped

\* What lies about as it did, in a world of the same cars: a mine may be spent.
LiesOn(h, h2) ==
    /\ h2.kind = h.kind /\ h2.owner = h.owner /\ h2.life = h.life /\ h2.born = h.born
    /\ h2.spent = h.spent \/ (h.kind = "mine" /\ h2.spent = TRUE)

Kept(w, w2) ==
    /\ w2 \in Worlds /\ DOMAIN w2.hazard = DOMAIN w.hazard
    /\ \A n \in DOMAIN w.hazard : LiesOn(w.hazard[n], w2.hazard[n])
    /\ \A i \in Racer : Alike(w.car[i], w2.car[i])

\* Keeping what was kept is keeping it; so is doing nothing.
LEMMA KeptOn ==
  ASSUME NEW a, NEW b, NEW c, Kept(a, b), Kept(b, c)
  PROVE  Kept(a, c)
<1>1. c \in Worlds /\ DOMAIN c.hazard = DOMAIN a.hazard
  BY DEF Kept
<1>2. ASSUME NEW n \in DOMAIN a.hazard PROVE LiesOn(a.hazard[n], c.hazard[n])
  <2>1. LiesOn(a.hazard[n], b.hazard[n]) /\ LiesOn(b.hazard[n], c.hazard[n])
    BY DEF Kept
  <2> QED
    BY <2>1 DEF LiesOn
<1>3. \A i \in Racer : Alike(a.car[i], c.car[i])
  BY DEF Kept, Alike
<1> QED
  BY <1>1, <1>2, <1>3 DEF Kept

LEMMA KeptItself ==
  ASSUME NEW w \in Worlds
  PROVE  Kept(w, w)
BY DEF Kept, LiesOn, Alike

\* A mine hit burns no less for it.
LEMMA StaysBurning ==
  ASSUME NEW h, NEW h2, NEW t, Burning(h, t), LiesOn(h, h2)
  PROVE  Burning(h2, t)
<1>1. h2.kind = h.kind /\ h2.life = h.life /\ h2.born = h.born
      /\ (h2.spent = h.spent \/ (h.kind = "mine" /\ h2.spent = TRUE))
  BY DEF LiesOn
<1>2. CASE h2.spent = h.spent
  BY <1>1, <1>2 DEF Burning
<1>3. CASE h.kind = "mine" /\ h2.spent = TRUE
  BY <1>1, <1>3 DEF Burning
<1> QED
  BY <1>1, <1>2, <1>3

\* A sound world stays one as long as its cars and what lies about are kept.
LEMMA KeptSound ==
  ASSUME NEW w, NEW w2, NEW k, NEW t, Sound(w, k, t), Kept(w, w2)
  PROVE  Sound(w2, k, t)
<1>1. w2 \in Worlds /\ DOMAIN w2.hazard = DOMAIN w.hazard
  BY DEF Kept
<1>2. \A n \in DOMAIN w.hazard : /\ LiesOn(w.hazard[n], w2.hazard[n])
                                /\ w2.hazard[n].kind = w.hazard[n].kind
                                /\ w2.hazard[n].owner = w.hazard[n].owner
                                /\ w2.hazard[n].born = w.hazard[n].born
  BY DEF Kept, LiesOn
<1>3. \A i \in Racer : /\ Alike(w.car[i], w2.car[i]) /\ w2.car[i].ammo = w.car[i].ammo
                       /\ w2.car[i].cooldown = w.car[i].cooldown
  BY DEF Kept, Alike
<1>4. \A i \in Racer : Ready(w2.car[i])
  BY <1>3, AlikeReady DEF Sound
<1>5. Counted(w2)
  <2>1. \A i, k2 : Left(w2.hazard, i, k2) = Left(w.hazard, i, k2)
    BY <1>1, <1>2 DEF Left
  <2> QED
    BY <1>3, <2>1 DEF Counted, Sound
<1>6. \A n \in DOMAIN w2.hazard : Burning(w2.hazard[n], t)
  BY <1>1, <1>2, StaysBurning DEF Sound
<1>7. Apart(w2.hazard)
  <2>1. Apart(w.hazard)
    BY DEF Sound
  <2> QED
    BY <1>1, <1>2, <2>1 DEF Apart
<1>8. Spaced(w2, k, t)
  <2>1. Spaced(w, k, t)
    BY DEF Sound
  <2> QED
    BY <1>1, <1>2, <1>3, <2>1 DEF Spaced
<1> QED
  BY <1>1, <1>4, <1>5, <1>6, <1>7, <1>8 DEF Sound

\* What a mine, a flame and a knock do.
LEMMA MineIs ==
  ASSUME NEW w \in Worlds, NEW m \in DOMAIN w.hazard
  PROVE  Kept(w, Mine(w, m))
<1>1. PICK h, there : h = w.hazard[m] /\ there = {i \in Racer : Reaches(h, w.car[i], i)}
  OBVIOUS
<1>2. w.car \in [Racer -> Car] /\ w.hazard \in Seq(LeftBehind) /\ Racer \subseteq Nat
  BY ArmsAssumption DEF Worlds, Racer
<1>3. h \in LeftBehind
  BY <1>1, <1>2
<1>4. CASE h.kind # "mine" \/ h.spent \/ there = {}
  <2>1. Mine(w, m) = w
    BY <1>1, <1>4 DEF Mine
  <2> QED
    BY <2>1, KeptItself
<1>5. CASE ~(h.kind # "mine" \/ h.spent \/ there = {})
  <2>1. \E j \in there : \A k \in there : j <= k
    <3>1. there \subseteq Nat /\ there # {}
      BY <1>1, <1>2, <1>5
    <3> QED
      BY <3>1, LeastNat
  <2>2. PICK i : i = CHOOSE j \in there : \A k \in there : j <= k
    OBVIOUS
  <2>3. i \in Racer
    BY <1>1, <2>1, <2>2
  <2>4. PICK c : c = w.car[i]
    OBVIOUS
  <2>5. c \in Car
    BY <1>2, <2>3, <2>4
  <2>6. PICK c1 : c1 = [c EXCEPT !.air = TRUE]
    OBVIOUS
  <2>7. c1 \in Car /\ Alike(c, c1)
    BY <2>5, <2>6 DEF Car, Alike
  <2>8. PICK c2 : c2 = Struck(c1, 1)
    OBVIOUS
  <2>9. c2 \in Car /\ Alike(c, c2)
    <3>1. c2 \in Car /\ Alike(c1, c2)
      BY <2>7, <2>8, StruckIs
    <3> QED
      BY <2>7, <3>1 DEF Alike
  <2>10. PICK h2 : h2 = [h EXCEPT !.spent = TRUE]
    OBVIOUS
  <2>11. h2 \in LeftBehind /\ LiesOn(h, h2)
    BY <1>3, <1>5, <2>10 DEF LeftBehind, LiesOn
  <2>12. PICK cars, hs : cars = [w.car EXCEPT ![i] = c2] /\ hs = [w.hazard EXCEPT ![m] = h2]
    OBVIOUS
  <2>13. Mine(w, m) = [w EXCEPT !.car = cars, !.hazard = hs]
    <3>1. Mine(w, m) = [w EXCEPT !.car[i] = Struck([@ EXCEPT !.air = TRUE], 1),
                                 !.hazard[m].spent = TRUE]
      BY <1>1, <1>5, <2>2 DEF Mine
    <3>2. [w.car EXCEPT ![i] = Struck([@ EXCEPT !.air = TRUE], 1)] = cars
      BY <2>4, <2>6, <2>8, <2>12
    <3>3. [w.hazard EXCEPT ![m].spent = TRUE] = hs
      BY <1>1, <2>10, <2>12
    <3> QED
      BY <3>1, <3>2, <3>3
  <2>14. /\ cars \in [Racer -> Car] /\ cars[i] = c2
         /\ \A j \in Racer : j # i => cars[j] = w.car[j]
    BY <1>2, <2>3, <2>9, <2>12
  <2>15. /\ hs \in Seq(LeftBehind) /\ DOMAIN hs = DOMAIN w.hazard /\ hs[m] = h2
         /\ \A n \in DOMAIN w.hazard : n # m => hs[n] = w.hazard[n]
    BY <1>2, <2>11, <2>12
  <2>16. PICK w2 : w2 = Mine(w, m)
    OBVIOUS
  <2>17. w2 \in Worlds /\ w2.car = cars /\ w2.hazard = hs
    BY <2>13, <2>14, <2>15, <2>16 DEF Worlds
  <2>18. \A j \in Racer : Alike(w.car[j], w2.car[j])
    BY <2>4, <2>9, <2>14, <2>17 DEF Alike
  <2>19. \A n \in DOMAIN w.hazard : LiesOn(w.hazard[n], w2.hazard[n])
    <3>1. \A n \in DOMAIN w.hazard : n # m => LiesOn(w.hazard[n], w2.hazard[n])
      BY <2>15, <2>17 DEF LiesOn
    <3> QED
      BY <1>1, <2>11, <2>15, <2>17, <3>1
  <2> QED
    BY <2>15, <2>16, <2>17, <2>18, <2>19 DEF Kept
<1> QED
  BY <1>4, <1>5

\* A flame costs whoever stands in it, and nobody what they carry.
LEMMA FlameIs ==
  ASSUME NEW w \in Worlds, NEW f
  PROVE  Kept(w, Flame(w, f))
<1>1. PICK h : h = w.hazard[f]
  OBVIOUS
<1>2. w.car \in [Racer -> Car]
  BY DEF Worlds
<1>3. CASE h.kind # "flame" \/ h.spent \/ tick % FlameEvery # 0
  <2>1. Flame(w, f) = w
    BY <1>1, <1>3 DEF Flame
  <2> QED
    BY <2>1, KeptItself
<1>4. CASE ~(h.kind # "flame" \/ h.spent \/ tick % FlameEvery # 0)
  <2>1. PICK cars : cars = [i \in Racer |-> IF Reaches(h, w.car[i], i) THEN Struck(w.car[i], 1)
                                           ELSE w.car[i]]
    OBVIOUS
  <2>2. Flame(w, f) = [w EXCEPT !.car = cars]
    BY <1>1, <1>4, <2>1 DEF Flame
  <2>3. ASSUME NEW i \in Racer PROVE cars[i] \in Car /\ Alike(w.car[i], cars[i])
    <3>1. w.car[i] \in Car
      BY <1>2
    <3>2. Struck(w.car[i], 1) \in Car /\ Alike(w.car[i], Struck(w.car[i], 1))
      BY <3>1, StruckIs
    <3>3. Alike(w.car[i], w.car[i])
      BY DEF Alike
    <3>4. cars[i] = Struck(w.car[i], 1) \/ cars[i] = w.car[i]
      BY <2>1
    <3> QED
      BY <3>1, <3>2, <3>3, <3>4
  <2>4. cars \in [Racer -> Car]
    BY <2>1, <2>3
  <2>5. PICK w2 : w2 = Flame(w, f)
    OBVIOUS
  <2>6. w2 \in Worlds /\ w2.car = cars /\ w2.hazard = w.hazard
    BY <2>2, <2>4, <2>5 DEF Worlds
  <2> QED
    BY <2>3, <2>5, <2>6 DEF Kept, LiesOn
<1> QED
  BY <1>3, <1>4

\* So does a knock.
LEMMA KnockedIs ==
  ASSUME NEW c \in Car, NEW hit \in Knock
  PROVE  Knocked(c, hit) \in Car /\ Alike(c, Knocked(c, hit))
<1>1. hit.lift \in BOOLEAN /\ hit.blows \in Nat
  BY ArmsAssumption
<1>2. CASE c.wrecked
  BY <1>2 DEF Knocked, Alike
<1>3. CASE ~c.wrecked
  <2>1. PICK up \in BOOLEAN : up = (c.air \/ hit.lift)
    OBVIOUS
  <2>2. PICK c1 : c1 = [c EXCEPT !.air = up]
    OBVIOUS
  <2>3. c1 \in Car /\ Alike(c, c1)
    BY <2>2 DEF Car, Alike
  <2>4. Knocked(c, hit) = Struck(c1, hit.blows)
    BY <1>3, <2>1, <2>2 DEF Knocked
  <2>5. Struck(c1, hit.blows) \in Car /\ Alike(c1, Struck(c1, hit.blows))
    BY <1>1, <2>3, StruckIs
  <2> QED
    BY <2>3, <2>4, <2>5 DEF Alike
<1> QED
  BY <1>2, <1>3

LEMMA CollideIs ==
  ASSUME NEW w \in Worlds, NEW i \in Racer, NEW j \in Racer, NEW hit \in Knock
  PROVE  Kept(w, Collide(w, i, j, hit))
<1>1. CASE ~(i < j /\ MayTouch(w, i, j))
  <2>1. Collide(w, i, j, hit) = w
    BY <1>1 DEF Collide
  <2> QED
    BY <2>1, KeptItself
<1>2. CASE i < j /\ MayTouch(w, i, j)
  <2>1. i # j /\ w.car \in [Racer -> Car]
    BY <1>2 DEF Racer, Worlds
  <2>2. PICK ci, cj : ci = Knocked(w.car[i], hit) /\ cj = Knocked(w.car[j], hit)
    OBVIOUS
  <2>3. ci \in Car /\ cj \in Car /\ Alike(w.car[i], ci) /\ Alike(w.car[j], cj)
    BY <2>1, <2>2, KnockedIs
  <2>4. PICK cars : cars = [w.car EXCEPT ![i] = ci, ![j] = cj]
    OBVIOUS
  <2>5. Collide(w, i, j, hit) = [w EXCEPT !.car = cars]
    <3>1. Collide(w, i, j, hit) = [w EXCEPT !.car[i] = Knocked(@, hit), !.car[j] = Knocked(@, hit)]
      BY <1>2 DEF Collide
    <3>2. [w.car EXCEPT ![i] = Knocked(@, hit), ![j] = Knocked(@, hit)] = cars
      BY <2>1, <2>2, <2>4
    <3> QED
      BY <3>1, <3>2
  <2>6. /\ cars \in [Racer -> Car] /\ cars[i] = ci /\ cars[j] = cj
        /\ \A r \in Racer : r # i /\ r # j => cars[r] = w.car[r]
    BY <2>1, <2>3, <2>4
  <2>7. PICK w2 : w2 = Collide(w, i, j, hit)
    OBVIOUS
  <2>8. w2 \in Worlds /\ w2.car = cars /\ w2.hazard = w.hazard
    BY <2>5, <2>6, <2>7 DEF Worlds
  <2>9. \A r \in Racer : Alike(w.car[r], w2.car[r])
    BY <2>3, <2>6, <2>8 DEF Alike
  <2> QED
    BY <2>7, <2>8, <2>9 DEF Kept, LiesOn
<1> QED
  BY <1>1, <1>2

\* What a tick does to what has been left behind.
LEMMA AgeIs ==
  ASSUME NEW h \in LeftBehind, NEW t \in Nat, Burning(h, t)
  PROVE  /\ Age(h) \in LeftBehind /\ Burning(Age(h), t + 1)
         /\ Age(h).kind = h.kind /\ Age(h).owner = h.owner /\ Age(h).born = h.born
<1>1. /\ h.kind \in Armed /\ h.life \in Nat /\ h.born \in Nat /\ h.spent \in BOOLEAN
      /\ Lasts[h.kind] \in Nat
  BY ArmsAssumption DEF LeftBehind
<1>2. PICK b, f, L : b = h.born /\ f = h.life /\ L = Lasts[h.kind]
  OBVIOUS
<1>3. b \in Nat /\ f \in Nat /\ L \in Nat /\ b <= t /\ f + (t - b) >= L
  BY <1>1, <1>2 DEF Burning
<1>4. CASE h.spent
  <2>1. Age(h) = h
    BY <1>4 DEF Age
  <2>2. b <= t + 1 /\ f + (t + 1 - b) >= L
    BY <1>3
  <2>3. h.kind # "mine" /\ L # 0 => t + 1 - b >= L
    <3>1. h.kind # "mine" /\ L # 0 => t - b >= L
      BY <1>2, <1>4 DEF Burning
    <3> QED
      BY <1>3, <3>1
  <2>4. Burning(h, t + 1)
    BY <1>1, <1>2, <1>3, <1>4, <2>2, <2>3 DEF Burning
  <2> QED
    BY <2>1, <2>4
<1>5. CASE ~h.spent
  <2>1. L # 0 => f = L - (t - b) /\ f > 0
    BY <1>2, <1>5 DEF Burning
  <2>2. CASE f = 0
    <3>1. Age(h) = h /\ L = 0
      BY <1>2, <2>1, <2>2 DEF Age
    <3>2. b <= t + 1 /\ f + (t + 1 - b) >= L
      BY <1>3
    <3>3. Burning(h, t + 1)
      BY <1>1, <1>2, <1>3, <3>1, <3>2 DEF Burning
    <3> QED
      BY <3>1, <3>3
  <2>3. CASE f # 0
    <3>1. PICK o : o = (f = 1)
      OBVIOUS
    <3>2. PICK g : g = f - 1
      OBVIOUS
    <3>3. g \in Nat /\ o \in BOOLEAN
      BY <1>3, <2>3, <3>1, <3>2
    <3>4. PICK h2 : h2 = [h EXCEPT !.life = g, !.spent = o]
      OBVIOUS
    <3>5. Age(h) = h2
      BY <1>2, <1>5, <2>3, <3>1, <3>2, <3>4 DEF Age
    <3>6. /\ h2 \in LeftBehind /\ h2.kind = h.kind /\ h2.owner = h.owner /\ h2.born = b
          /\ h2.life = g /\ h2.spent = o
      BY <1>2, <3>3, <3>4 DEF LeftBehind
    <3>7. b <= t + 1 /\ g + (t + 1 - b) >= L
      BY <1>3, <3>2
    <3>8. CASE f = 1
      <4>1. L # 0 => t + 1 - b >= L
        BY <1>3, <2>1, <3>8
      <4>2. h2.spent
        BY <3>1, <3>6, <3>8
      <4>3. Burning(h2, t + 1)
        BY <1>1, <1>2, <1>3, <3>3, <3>6, <3>7, <4>1, <4>2 DEF Burning
      <4> QED
        BY <1>2, <3>5, <3>6, <4>3
    <3>9. CASE f # 1
      <4>1. L # 0 => g = L - (t + 1 - b) /\ g > 0
        BY <1>3, <2>1, <2>3, <3>2, <3>9
      <4>2. ~h2.spent
        BY <3>1, <3>6, <3>9
      <4>3. Burning(h2, t + 1)
        BY <1>1, <1>2, <1>3, <3>3, <3>6, <3>7, <4>1, <4>2 DEF Burning
      <4> QED
        BY <1>2, <3>5, <3>6, <4>3
    <3> QED
      BY <3>8, <3>9
  <2> QED
    BY <2>2, <2>3
<1> QED
  BY <1>4, <1>5

\* When all have driven and all that lies about is a tick older, the next tick may come.
LEMMA AgedSound ==
  ASSUME NEW w, tick \in Nat, Sound(w, Racers, tick)
  PROVE  Sound([w EXCEPT !.hazard = [n \in DOMAIN @ |-> Age(@[n])]], 0, tick + 1)
<1>1. PICK h, h2 : h = w.hazard /\ h2 = [n \in DOMAIN h |-> Age(h[n])]
  OBVIOUS
<1>2. w \in Worlds /\ h \in Seq(LeftBehind) /\ \A n \in DOMAIN h : Burning(h[n], tick)
  BY <1>1 DEF Sound, Worlds
<1>3. \A n \in DOMAIN h : h[n] \in LeftBehind
  BY <1>2
<1>4. \A n \in DOMAIN h : /\ h2[n] \in LeftBehind /\ Burning(h2[n], tick + 1)
                          /\ h2[n].kind = h[n].kind /\ h2[n].owner = h[n].owner
                          /\ h2[n].born = h[n].born
  BY <1>1, <1>2, <1>3, AgeIs
<1>5. h2 \in Seq(LeftBehind) /\ DOMAIN h2 = DOMAIN h
  <2>1. DOMAIN h2 = DOMAIN h /\ DOMAIN h = 1 .. Len(h) /\ Len(h) \in Nat
    BY <1>1, <1>2
  <2>2. h2 \in [1 .. Len(h) -> LeftBehind]
    BY <1>1, <1>4, <2>1
  <2> QED
    BY <2>1, <2>2
<1>6. PICK w2 : w2 = [w EXCEPT !.hazard = [n \in DOMAIN @ |-> Age(@[n])]]
  OBVIOUS
<1>7. w2 \in Worlds /\ w2.hazard = h2 /\ w2.car = w.car
  BY <1>1, <1>2, <1>5, <1>6 DEF Worlds
<1>8. \A i \in Racer : Ready(w2.car[i])
  BY <1>7 DEF Sound
<1>9. Counted(w2)
  <2>1. \A i, k : Left(h2, i, k) = Left(h, i, k)
    BY <1>4, <1>5 DEF Left
  <2> QED
    BY <1>1, <1>7, <2>1 DEF Counted, Sound
<1>10. Apart(h2)
  <2>1. Apart(h)
    BY <1>1 DEF Sound
  <2> QED
    BY <1>4, <1>5, <2>1 DEF Apart
<1>11. Spaced(w2, 0, tick + 1)
  <2>1. ASSUME NEW n \in DOMAIN h2, NEW i \in Racer, h2[n].owner = i
        PROVE  Drove(i, 0, tick + 1) - h2[n].born + w2.car[i].cooldown >= Cooldown
    <3>1. Drove(i, Racers, tick) - h[n].born + w.car[i].cooldown >= Cooldown
      BY <1>1, <1>4, <1>5, <2>1 DEF Sound, Spaced
    <3>2. Drove(i, 0, tick + 1) = tick /\ Drove(i, Racers, tick) = tick
      BY ArmsAssumption DEF Drove, Racer
    <3> QED
      BY <1>4, <1>5, <1>7, <3>1, <3>2
  <2> QED
    BY <1>7, <2>1 DEF Spaced
<1> QED
  BY <1>4, <1>5, <1>6, <1>7, <1>8, <1>9, <1>10, <1>11 DEF Sound

\* A fold from the left whose steps lead from each of some sets to the next.
LEMMA LeftLeads ==
  ASSUME NEW n \in Nat, NEW D, NEW base \in D, NEW F, StepsIn(F, 1 .. n, D), NEW it,
         FromLeft(it, n, D, base, F), NEW G, base \in G[0],
         \A k \in 1 .. n : \A e \in D : e \in G[k - 1] => F[k][e] \in G[k]
  PROVE  it[1 .. n] \in D /\ it[1 .. n] \in G[n]
<1>1. PICK g \in [0 .. n -> D] : UpChain(g, n, base, F) /\ it[1 .. n] = g[n]
  BY LeftChain
<1> DEFINE P == {k \in 0 .. n : g[k] \in G[k]}
<1>2. 0 \in P
  BY <1>1 DEF UpChain
<1>3. ASSUME NEW k \in 1 .. n, k - 1 \in P PROVE k \in P
  <2>1. k - 1 \in 0 .. n /\ k \in 0 .. n
    OBVIOUS
  <2>2. g[k - 1] \in D /\ g[k - 1] \in G[k - 1] /\ g[k] = F[k][g[k - 1]]
    BY <1>1, <1>3, <2>1 DEF UpChain
  <2> QED
    BY <2>1, <2>2
<1>4. \A k \in 0 .. n : k \in P
  <2> HIDE DEF P
  <2> QED
    BY <1>2, <1>3, StepByStep
<1> QED
  BY <1>1, <1>4

\* Every car's tick, one after the other.
Driven(d, does) == FoldLeft(LAMBDA w, i : StepCar(w, i, does[i]), d, InOrder)

\* When all have driven, all have: from no car to every car, each in its turn.
LEMMA DrivenIs ==
  ASSUME tick \in Nat, NEW d, Sound(d, 0, tick), NEW does, \A i \in Racer : does[i] \in Go
  PROVE  Sound(Driven(d, does), Racers, tick)
<1> DEFINE n == Racers
           S == DOMAIN InOrder
           D == Worlds
           One(e, i) == StepCar(e, i, does[i])
           F == [k \in 1 .. n |-> [e \in D |-> One(e, InOrder[k])]]
           G == [k \in 0 .. n |-> {e \in D : Sound(e, k, tick)}]
           Folds(f) == f = [r \in SUBSET S |-> IF r = {} THEN d
                                               ELSE One(f[r \ {Max(r)}], InOrder[Max(r)])]
           it == CHOOSE f : Folds(f)
<1>1. Driven(d, does) = it[S]
  BY DEF Driven, FoldLeft, MapThenFoldSet
<1>2. S = 1 .. n /\ n \in Nat /\ \A k \in 1 .. n : InOrder[k] = k - 1 /\ k - 1 \in Racer
  BY ArmsAssumption DEF InOrder, Racer
<1>3. ASSUME NEW k \in 1 .. n, NEW e \in D
      PROVE  One(e, InOrder[k]) \in D
             /\ (Sound(e, k - 1, tick) => Sound(One(e, InOrder[k]), k, tick))
  <2>1. PICK i \in Racer : i = k - 1 /\ InOrder[k] = i
    BY <1>2
  <2>2. Stepped(e, StepCar(e, i, does[i]), i)
    BY StepCarIs
  <2>3. i + 1 = k
    BY <1>2, <2>1
  <2>4. Sound(e, i, tick) => Sound(StepCar(e, i, does[i]), i + 1, tick)
    BY <2>2, SoundStep
  <2> QED
    BY <2>1, <2>2, <2>3, <2>4 DEF Stepped
<1> HIDE DEF One
<1>4. StepsIn(F, 1 .. n, D)
  BY <1>3 DEF StepsIn
<1>5. \A k \in 1 .. n : \A e \in D : F[k][e] = One(e, InOrder[k])
  OBVIOUS
<1>6. d \in D /\ d \in G[0]
  BY <1>2 DEF Sound
<1>7. \A r \in SUBSET (1 .. n) : r # {} => Max(r) \in 1 .. n
  BY <1>2, GreatestUpTo
<1>8. \A k \in 1 .. n : \A e \in D : e \in G[k - 1] => F[k][e] \in G[k]
  <2>1. ASSUME NEW k \in 1 .. n, NEW e \in D, e \in G[k - 1] PROVE F[k][e] \in G[k]
    <3>1. k - 1 \in 0 .. n /\ k \in 0 .. n
      BY <1>2
    <3>2. Sound(e, k - 1, tick)
      BY <2>1, <3>1
    <3>3. One(e, InOrder[k]) \in D /\ Sound(One(e, InOrder[k]), k, tick)
      BY <1>3, <3>2
    <3> QED
      BY <1>5, <3>1, <3>3
  <2> QED
    BY <2>1
<1>9. \A e : e \in G[n] => Sound(e, n, tick)
  BY <1>2
<1> HIDE DEF F, G, S, n, D
<1>10. \E f : Folds(f)
  <2>1. PICK f \in [SUBSET (1 .. n) -> D] : FromLeft(f, n, D, d, F)
    BY <1>2, <1>4, <1>6, LeftThere
  <2>2. ASSUME NEW r \in SUBSET (1 .. n)
        PROVE  f[r] = IF r = {} THEN d ELSE One(f[r \ {Max(r)}], InOrder[Max(r)])
    <3>1. CASE r = {}
      BY <2>1, <3>1 DEF FromLeft
    <3>2. CASE r # {}
      <4>1. f[r \ {Max(r)}] \in D
        BY <2>1
      <4>2. f[r] = F[Max(r)][f[r \ {Max(r)}]]
        BY <2>1, <3>2, <4>1 DEF FromLeft
      <4> QED
        BY <1>5, <1>7, <3>2, <4>1, <4>2
    <3> QED
      BY <3>1, <3>2
  <2>3. f = [r \in SUBSET (1 .. n) |-> IF r = {} THEN d
                                       ELSE One(f[r \ {Max(r)}], InOrder[Max(r)])]
    BY <2>1, <2>2
  <2> QED
    BY <1>2, <2>3
<1>11. Folds(it)
  BY <1>10
<1> HIDE DEF it
<1>12. FromLeft(it, n, D, d, F)
  <2>1. it[{}] = d
    BY <1>11
  <2>2. ASSUME NEW r \in SUBSET (1 .. n), r # {}, it[r \ {Max(r)}] \in D
        PROVE  it[r] = F[Max(r)][it[r \ {Max(r)}]]
    <3>1. it[r] = One(it[r \ {Max(r)}], InOrder[Max(r)])
      BY <1>2, <1>11, <2>2
    <3> QED
      BY <1>5, <1>7, <2>2, <3>1
  <2> QED
    BY <2>1, <2>2 DEF FromLeft
<1>13. it[1 .. n] \in G[n]
  BY <1>2, <1>4, <1>6, <1>8, <1>12, LeftLeads
<1> QED
  BY <1>1, <1>2, <1>9, <1>13 DEF n

\* All that lies about, in order; a tick of the mines, and of the flames.
Many(n) == [k \in 1 .. n |-> k]
Mined(d, many) == FoldLeft(Mine, d, many)
Burnt(d, many) == FoldLeft(Flame, d, many)

\* The mines one after the other, as many as there were when all had driven.
LEMMA MinedIs ==
  ASSUME NEW d \in Worlds, NEW n \in Nat, n = Len(d.hazard)
  PROVE  Kept(d, Mined(d, Many(n)))
<1> DEFINE s == Many(n)
           S == DOMAIN s
           D == {e \in Worlds : Kept(d, e)}
           One(e, m) == Mine(e, m)
           F == [k \in 1 .. n |-> [e \in D |-> One(e, s[k])]]
           G == [k \in 0 .. n |-> D]
           Folds(f) == f = [r \in SUBSET S |-> IF r = {} THEN d
                                               ELSE One(f[r \ {Max(r)}], s[Max(r)])]
           it == CHOOSE f : Folds(f)
<1>1. Mined(d, Many(n)) = it[S]
  BY DEF Mined, FoldLeft, MapThenFoldSet
<1>2. S = 1 .. n /\ n \in Nat
  BY DEF Many
<1>3. ASSUME NEW k \in 1 .. n, NEW e \in D
      PROVE  One(e, s[k]) \in D
  <2>1. s[k] = k /\ e \in Worlds /\ Kept(d, e)
    BY DEF Many
  <2>2. k \in DOMAIN e.hazard
    <3>1. d.hazard \in Seq(LeftBehind) /\ n = Len(d.hazard)
      BY DEF Worlds
    <3>2. DOMAIN d.hazard = 1 .. n
      BY <3>1
    <3>3. DOMAIN e.hazard = DOMAIN d.hazard
      BY <2>1 DEF Kept
    <3> QED
      BY <3>2, <3>3
  <2>3. Kept(e, Mine(e, k))
    BY <2>1, <2>2, MineIs
  <2>4. Kept(d, Mine(e, k)) /\ Mine(e, k) \in Worlds
    BY <2>1, <2>3, KeptOn DEF Kept
  <2> QED
    BY <2>1, <2>4
<1> HIDE DEF One
<1>4. StepsIn(F, 1 .. n, D)
  BY <1>3 DEF StepsIn
<1>5. \A k \in 1 .. n : \A e \in D : F[k][e] = One(e, s[k])
  OBVIOUS
<1>6. d \in D
  BY KeptItself
<1>7. \A r \in SUBSET (1 .. n) : r # {} => Max(r) \in 1 .. n
  BY <1>2, GreatestUpTo
<1>8. d \in G[0] /\ \A k \in 1 .. n : \A e \in D : e \in G[k - 1] => F[k][e] \in G[k]
  BY <1>2, <1>3, <1>5, <1>6
<1>9. \A e \in D : Kept(d, e)
  OBVIOUS
<1> HIDE DEF F, G, S, D, s
<1>10. \E f : Folds(f)
  <2>1. PICK f \in [SUBSET (1 .. n) -> D] : FromLeft(f, n, D, d, F)
    BY <1>2, <1>4, <1>6, LeftThere
  <2>2. ASSUME NEW r \in SUBSET (1 .. n)
        PROVE  f[r] = IF r = {} THEN d ELSE One(f[r \ {Max(r)}], s[Max(r)])
    <3>1. CASE r = {}
      BY <2>1, <3>1 DEF FromLeft
    <3>2. CASE r # {}
      <4>1. f[r \ {Max(r)}] \in D
        BY <2>1
      <4>2. f[r] = F[Max(r)][f[r \ {Max(r)}]]
        BY <2>1, <3>2, <4>1 DEF FromLeft
      <4> QED
        BY <1>5, <1>7, <3>2, <4>1, <4>2
    <3> QED
      BY <3>1, <3>2
  <2>3. f = [r \in SUBSET (1 .. n) |-> IF r = {} THEN d
                                       ELSE One(f[r \ {Max(r)}], s[Max(r)])]
    BY <2>1, <2>2
  <2> QED
    BY <1>2, <2>3
<1>11. Folds(it)
  BY <1>10
<1> HIDE DEF it
<1>12. FromLeft(it, n, D, d, F)
  <2>1. it[{}] = d
    BY <1>11
  <2>2. ASSUME NEW r \in SUBSET (1 .. n), r # {}, it[r \ {Max(r)}] \in D
        PROVE  it[r] = F[Max(r)][it[r \ {Max(r)}]]
    <3>1. it[r] = One(it[r \ {Max(r)}], s[Max(r)])
      BY <1>2, <1>11, <2>2
    <3> QED
      BY <1>5, <1>7, <2>2, <3>1
  <2> QED
    BY <2>1, <2>2 DEF FromLeft
<1>13. it[1 .. n] \in D
  BY <1>2, <1>4, <1>6, <1>8, <1>12, LeftLeads
<1> QED
  BY <1>1, <1>2, <1>9, <1>13

\* The flames one after the other.
LEMMA BurntIs ==
  ASSUME NEW d \in Worlds, NEW n \in Nat
  PROVE  Kept(d, Burnt(d, Many(n)))
<1> DEFINE s == Many(n)
           S == DOMAIN s
           D == {e \in Worlds : Kept(d, e)}
           One(e, m) == Flame(e, m)
           F == [k \in 1 .. n |-> [e \in D |-> One(e, s[k])]]
           G == [k \in 0 .. n |-> D]
           Folds(f) == f = [r \in SUBSET S |-> IF r = {} THEN d
                                               ELSE One(f[r \ {Max(r)}], s[Max(r)])]
           it == CHOOSE f : Folds(f)
<1>1. Burnt(d, Many(n)) = it[S]
  BY DEF Burnt, FoldLeft, MapThenFoldSet
<1>2. S = 1 .. n /\ n \in Nat
  BY DEF Many
<1>3. ASSUME NEW k \in 1 .. n, NEW e \in D
      PROVE  One(e, s[k]) \in D
  <2>1. s[k] = k /\ e \in Worlds /\ Kept(d, e)
    BY DEF Many
  <2>2. Kept(e, Flame(e, k))
    BY <2>1, FlameIs
  <2>3. Kept(d, Flame(e, k)) /\ Flame(e, k) \in Worlds
    BY <2>1, <2>2, KeptOn DEF Kept
  <2> QED
    BY <2>1, <2>3
<1> HIDE DEF One
<1>4. StepsIn(F, 1 .. n, D)
  BY <1>3 DEF StepsIn
<1>5. \A k \in 1 .. n : \A e \in D : F[k][e] = One(e, s[k])
  OBVIOUS
<1>6. d \in D
  BY KeptItself
<1>7. \A r \in SUBSET (1 .. n) : r # {} => Max(r) \in 1 .. n
  BY <1>2, GreatestUpTo
<1>8. d \in G[0] /\ \A k \in 1 .. n : \A e \in D : e \in G[k - 1] => F[k][e] \in G[k]
  BY <1>2, <1>3, <1>5, <1>6
<1>9. \A e \in D : Kept(d, e)
  OBVIOUS
<1> HIDE DEF F, G, S, D, s
<1>10. \E f : Folds(f)
  <2>1. PICK f \in [SUBSET (1 .. n) -> D] : FromLeft(f, n, D, d, F)
    BY <1>2, <1>4, <1>6, LeftThere
  <2>2. ASSUME NEW r \in SUBSET (1 .. n)
        PROVE  f[r] = IF r = {} THEN d ELSE One(f[r \ {Max(r)}], s[Max(r)])
    <3>1. CASE r = {}
      BY <2>1, <3>1 DEF FromLeft
    <3>2. CASE r # {}
      <4>1. f[r \ {Max(r)}] \in D
        BY <2>1
      <4>2. f[r] = F[Max(r)][f[r \ {Max(r)}]]
        BY <2>1, <3>2, <4>1 DEF FromLeft
      <4> QED
        BY <1>5, <1>7, <3>2, <4>1, <4>2
    <3> QED
      BY <3>1, <3>2
  <2>3. f = [r \in SUBSET (1 .. n) |-> IF r = {} THEN d
                                       ELSE One(f[r \ {Max(r)}], s[Max(r)])]
    BY <2>1, <2>2
  <2> QED
    BY <1>2, <2>3
<1>11. Folds(it)
  BY <1>10
<1> HIDE DEF it
<1>12. FromLeft(it, n, D, d, F)
  <2>1. it[{}] = d
    BY <1>11
  <2>2. ASSUME NEW r \in SUBSET (1 .. n), r # {}, it[r \ {Max(r)}] \in D
        PROVE  it[r] = F[Max(r)][it[r \ {Max(r)}]]
    <3>1. it[r] = One(it[r \ {Max(r)}], s[Max(r)])
      BY <1>2, <1>11, <2>2
    <3> QED
      BY <1>5, <1>7, <2>2, <3>1
  <2> QED
    BY <2>1, <2>2 DEF FromLeft
<1>13. it[1 .. n] \in D
  BY <1>2, <1>4, <1>6, <1>8, <1>12, LeftLeads
<1> QED
  BY <1>1, <1>2, <1>9, <1>13

\* Every two cars, in order; and what comes of their meeting.
LEMMA PairsAre ==
  \A k \in DOMAIN Pairs : \E i, j \in Racer : Pairs[k] = <<i, j>>
<1> SUFFICES ASSUME NEW k \in DOMAIN Pairs PROVE \E i, j \in Racer : Pairs[k] = <<i, j>>
  OBVIOUS
<1>1. Racers \in Nat /\ k \in 1 .. Racers * Racers
  BY ArmsAssumption DEF Pairs
<1>2. Racers # 0
  BY <1>1
<1>3. PICK x \in Nat, r \in Nat : x = k - 1 /\ r = Racers /\ r > 0 /\ x < r * r
  BY <1>1, <1>2
<1>4. x % r \in 0 .. r - 1
  BY <1>3
<1>5. x \div r \in 0 .. r - 1
  <2>1. x \div r < r
    BY <1>3
  <2>2. x \div r >= 0 /\ x \div r \in Int
    BY <1>3
  <2> QED
    BY <1>3, <2>1, <2>2
<1>6. Pairs[k] = <<x \div r, x % r>>
  BY <1>1, <1>3 DEF Pairs
<1> QED
  BY <1>3, <1>4, <1>5, <1>6 DEF Racer

Met(d, hit) == FoldLeft(LAMBDA w, p : Collide(w, p[1], p[2], hit), d, Pairs)

\* Every two cars one after the other.
LEMMA MetIs ==
  ASSUME NEW d \in Worlds, NEW hit \in Knock
  PROVE  Kept(d, Met(d, hit))
<1> DEFINE n == Racers * Racers
           s == Pairs
           S == DOMAIN s
           D == {e \in Worlds : Kept(d, e)}
           One(e, m) == Collide(e, m[1], m[2], hit)
           F == [k \in 1 .. n |-> [e \in D |-> One(e, s[k])]]
           G == [k \in 0 .. n |-> D]
           Folds(f) == f = [r \in SUBSET S |-> IF r = {} THEN d
                                               ELSE One(f[r \ {Max(r)}], s[Max(r)])]
           it == CHOOSE f : Folds(f)
<1>1. Met(d, hit) = it[S]
  BY DEF Met, FoldLeft, MapThenFoldSet
<1>2. S = 1 .. n /\ n \in Nat
  BY ArmsAssumption DEF Pairs
<1>3. ASSUME NEW k \in 1 .. n, NEW e \in D
      PROVE  One(e, s[k]) \in D
  <2>1. e \in Worlds /\ Kept(d, e)
    OBVIOUS
  <2>2. PICK i \in Racer, j \in Racer : s[k] = <<i, j>>
    BY <1>2, PairsAre
  <2>3. Kept(e, Collide(e, i, j, hit))
    BY <2>1, CollideIs
  <2>4. Kept(d, Collide(e, i, j, hit)) /\ Collide(e, i, j, hit) \in Worlds
    BY <2>1, <2>3, KeptOn DEF Kept
  <2>5. One(e, s[k]) = Collide(e, i, j, hit)
    BY <2>2
  <2> QED
    BY <2>4, <2>5
<1> HIDE DEF One
<1>4. StepsIn(F, 1 .. n, D)
  BY <1>3 DEF StepsIn
<1>5. \A k \in 1 .. n : \A e \in D : F[k][e] = One(e, s[k])
  OBVIOUS
<1>6. d \in D
  BY KeptItself
<1>7. \A r \in SUBSET (1 .. n) : r # {} => Max(r) \in 1 .. n
  BY <1>2, GreatestUpTo
<1>8. d \in G[0] /\ \A k \in 1 .. n : \A e \in D : e \in G[k - 1] => F[k][e] \in G[k]
  BY <1>2, <1>3, <1>5, <1>6
<1>9. \A e \in D : Kept(d, e)
  OBVIOUS
<1> HIDE DEF F, G, S, D, s, n
<1>10. \E f : Folds(f)
  <2>1. PICK f \in [SUBSET (1 .. n) -> D] : FromLeft(f, n, D, d, F)
    BY <1>2, <1>4, <1>6, LeftThere
  <2>2. ASSUME NEW r \in SUBSET (1 .. n)
        PROVE  f[r] = IF r = {} THEN d ELSE One(f[r \ {Max(r)}], s[Max(r)])
    <3>1. CASE r = {}
      BY <2>1, <3>1 DEF FromLeft
    <3>2. CASE r # {}
      <4>1. f[r \ {Max(r)}] \in D
        BY <2>1
      <4>2. f[r] = F[Max(r)][f[r \ {Max(r)}]]
        BY <2>1, <3>2, <4>1 DEF FromLeft
      <4> QED
        BY <1>5, <1>7, <3>2, <4>1, <4>2
    <3> QED
      BY <3>1, <3>2
  <2>3. f = [r \in SUBSET (1 .. n) |-> IF r = {} THEN d
                                       ELSE One(f[r \ {Max(r)}], s[Max(r)])]
    BY <2>1, <2>2
  <2> QED
    BY <1>2, <2>3
<1>11. Folds(it)
  BY <1>10
<1> HIDE DEF it
<1>12. FromLeft(it, n, D, d, F)
  <2>1. it[{}] = d
    BY <1>11
  <2>2. ASSUME NEW r \in SUBSET (1 .. n), r # {}, it[r \ {Max(r)}] \in D
        PROVE  it[r] = F[Max(r)][it[r \ {Max(r)}]]
    <3>1. it[r] = One(it[r \ {Max(r)}], s[Max(r)])
      BY <1>2, <1>11, <2>2
    <3> QED
      BY <1>5, <1>7, <2>2, <3>1
  <2> QED
    BY <2>1, <2>2 DEF FromLeft
<1>13. it[1 .. n] \in D
  BY <1>2, <1>4, <1>6, <1>8, <1>12, LeftLeads
<1> QED
  BY <1>1, <1>2, <1>9, <1>13

\* The race between two ticks: nobody has driven in the one to come.
World == [car |-> car, hazard |-> hazard]
ArmsInv == tick \in Nat /\ Sound(World, 0, tick)

\* gs_car_select_first takes the first kind there is any of.
LEMMA SelectFirstIs ==
  ASSUME NEW ammo \in [Armed -> Nat]
  PROVE  /\ SelectFirst(ammo) \in Selected
         /\ IF SelectFirst(ammo) = Unarmed THEN \A k \in Armed : ammo[k] = 0
            ELSE ammo[SelectFirst(ammo)] > 0
<1>1. PICK some : some = {n \in DOMAIN Weapons : ammo[Weapons[n]] > 0}
  OBVIOUS
<1>2. SelectFirst(ammo) = IF some = {} THEN Unarmed ELSE Weapons[Min(some)]
  BY <1>1 DEF SelectFirst
<1>3. /\ DOMAIN Weapons \subseteq Nat /\ Unarmed \notin Armed
      /\ \A n \in DOMAIN Weapons : Weapons[n] \in Armed
      /\ \A k \in Armed : \E n \in DOMAIN Weapons : Weapons[n] = k
  BY ArmsAssumption DEF Armed, ToSet
<1>4. CASE some = {}
  <2>1. ASSUME NEW k \in Armed PROVE ammo[k] = 0
    <3>1. PICK n \in DOMAIN Weapons : Weapons[n] = k
      BY <1>3
    <3>2. ~(ammo[k] > 0)
      BY <1>1, <1>4, <3>1
    <3> QED
      BY <3>2
  <2> QED
    BY <1>2, <1>4, <2>1 DEF Selected
<1>5. CASE some # {}
  <2>1. some \subseteq Nat
    BY <1>1, <1>3
  <2>2. \E x \in some : \A y \in some : x <= y
    BY <1>5, <2>1, LeastNat
  <2>3. Min(some) \in some
    BY <2>2 DEF Min
  <2>4. PICK x \in some : x = Min(some)
    BY <2>3
  <2>5. Weapons[x] \in Armed /\ ammo[Weapons[x]] > 0
    BY <1>1, <1>3
  <2> QED
    BY <1>2, <1>3, <1>5, <2>4, <2>5 DEF Selected
<1> QED
  BY <1>4, <1>5

\* A race begins sound: nothing lies about, and everybody has what everybody starts with.
LEMMA ArmsBegins ==
  ArmsInit => ArmsInv
<1> SUFFICES ASSUME ArmsInit PROVE ArmsInv
  OBVIOUS
<1>1. tick = 0 /\ hazard = <<>> /\ car \in [Racer -> {ArmedCar(at) : at \in Place}]
  BY DEF ArmsInit
<1>2. Loadout \in [Armed -> Nat]
  BY ArmsAssumption
<1>3. PICK k \in Selected : k = SelectFirst(Loadout)
  BY <1>2, SelectFirstIs
<1>4. IF k = Unarmed THEN \A r \in Armed : Loadout[r] = 0 ELSE Loadout[k] > 0
  BY <1>2, <1>3, SelectFirstIs
<1>5. ASSUME NEW i \in Racer
      PROVE  car[i] \in Car /\ car[i].ammo = Loadout /\ Ready(car[i])
  <2>1. PICK at \in Place : car[i] = ArmedCar(at)
    BY <1>1
  <2>2. car[i] = [at |-> at, air |-> FALSE, damage |-> 0, wrecked |-> FALSE, tow |-> 0,
                  home |-> FALSE, ammo |-> Loadout, selected |-> k,
                  held |-> 0, cycled |-> FALSE, cooldown |-> 0]
    BY <1>3, <2>1 DEF ArmedCar
  <2>3. car[i].ammo = Loadout /\ car[i].selected = k
    BY <2>2
  <2>4. car[i] \in Car
    BY <1>2, <2>2 DEF Car
  <2> QED
    BY <1>4, <2>3, <2>4 DEF Ready
<1>6. car \in [Racer -> Car]
  BY <1>1, <1>5
<1>7. PICK w : w = World
  OBVIOUS
<1>8. w \in Worlds /\ w.car = car /\ w.hazard = <<>> /\ DOMAIN w.hazard = {}
  BY <1>1, <1>6, <1>7 DEF World, Worlds
<1>9. Counted(w)
  <2>1. ASSUME NEW i \in Racer, NEW r \in Armed
        PROVE  Cardinality(Left(w.hazard, i, r)) <= Loadout[r] - w.car[i].ammo[r]
    <3>1. Left(w.hazard, i, r) = {}
      BY <1>8 DEF Left
    <3>2. Cardinality(Left(w.hazard, i, r)) = 0
      BY <3>1, FS_EmptySet
    <3>3. Loadout[r] \in Nat /\ w.car[i].ammo[r] = Loadout[r]
      BY <1>2, <1>5, <1>8
    <3> QED
      BY <3>2, <3>3
  <2> QED
    BY <2>1 DEF Counted
<1>10. Sound(w, 0, tick)
  BY <1>5, <1>8, <1>9 DEF Sound, Apart, Spaced
<1> QED
  BY <1>1, <1>7, <1>10 DEF ArmsInv

\* A tick leads from a sound world to a sound world of the next tick.
LEMMA TickKeeps ==
  ArmsInv /\ ArmsStep => ArmsInv'
<1> SUFFICES ASSUME ArmsInv, ArmsStep PROVE ArmsInv'
  OBVIOUS
<1>1. tick \in Nat /\ Sound(World, 0, tick) /\ tick' = tick + 1
  BY DEF ArmsInv, ArmsStep
<1>2. PICK does \in Doing, hit \in Knock :
        LET went == FoldLeft(LAMBDA w, i : StepCar(w, i, does[i]),
                             [car |-> car, hazard |-> hazard], InOrder)
            many == [n \in 1 .. Len(went.hazard) |-> n]
            mined == FoldLeft(Mine, went, many)
            burnt == FoldLeft(Flame, mined, many)
            aged == [burnt EXCEPT !.hazard = [n \in DOMAIN @ |-> Age(@[n])]]
            struck == FoldLeft(LAMBDA w, p : Collide(w, p[1], p[2], hit), aged, Pairs)
        IN  car' = struck.car /\ hazard' = struck.hazard
  BY DEF ArmsStep
<1>3. \A i \in Racer : does[i] \in Go
  BY ArmsAssumption DEF Doing, Go
<1>4. PICK went : went = Driven(World, does)
  OBVIOUS
<1>5. Sound(went, Racers, tick)
  BY <1>1, <1>3, <1>4, DrivenIs
<1>6. PICK n \in Nat : n = Len(went.hazard)
  <2>1. went.hazard \in Seq(LeftBehind)
    BY <1>5 DEF Sound, Worlds
  <2> QED
    BY <2>1
<1>7. PICK mined : mined = Mined(went, Many(n))
  OBVIOUS
<1>8. went \in Worlds /\ Kept(went, mined)
  BY <1>5, <1>6, <1>7, MinedIs DEF Sound
<1>9. PICK burnt : burnt = Burnt(mined, Many(n))
  OBVIOUS
<1>10. mined \in Worlds /\ Kept(mined, burnt)
  BY <1>8, <1>9, BurntIs DEF Kept
<1>11. Sound(burnt, Racers, tick)
  BY <1>5, <1>8, <1>10, KeptSound
<1>12. PICK aged : aged = [burnt EXCEPT !.hazard = [m \in DOMAIN @ |-> Age(@[m])]]
  OBVIOUS
<1>13. Sound(aged, 0, tick + 1)
  BY <1>1, <1>11, <1>12, AgedSound
<1>14. PICK struck : struck = Met(aged, hit)
  OBVIOUS
<1>15. aged \in Worlds /\ Kept(aged, struck)
  BY <1>13, <1>14, MetIs DEF Sound
<1>16. Sound(struck, 0, tick + 1)
  BY <1>13, <1>15, KeptSound
<1>17. car' = struck.car /\ hazard' = struck.hazard
  BY <1>2, <1>4, <1>6, <1>7, <1>9, <1>12, <1>14 DEF Driven, Mined, Burnt, Met, Many, World
<1>18. World' = struck
  <2>1. struck \in Worlds
    BY <1>16 DEF Sound
  <2>2. struck = [car |-> struck.car, hazard |-> struck.hazard]
    BY <2>1 DEF Worlds
  <2> QED
    BY <1>17, <2>2 DEF World
<1>19. Sound(World', 0, tick')
  BY <1>1, <1>16, <1>18
<1>20. Sound(World, 0, tick)' <=> Sound(World', 0, tick')
  BY DEF Sound, Counted, Apart, Spaced, Burning
<1> QED
  BY <1>1, <1>19, <1>20 DEF ArmsInv

\* A car that comes home carries what it carried.
LEMMA HomeKeeps ==
  ArmsInv /\ GetsHome => ArmsInv'
<1> SUFFICES ASSUME ArmsInv, GetsHome PROVE ArmsInv'
  OBVIOUS
<1>1. PICK i \in Racer : car' = [car EXCEPT ![i].home = TRUE]
  BY DEF GetsHome
<1>2. hazard' = hazard /\ tick' = tick /\ tick \in Nat
  BY DEF GetsHome, ArmsInv
<1>3. PICK w : w = World
  OBVIOUS
<1>4. w.car = car /\ w.hazard = hazard /\ Sound(w, 0, tick)
  BY <1>3 DEF ArmsInv, World
<1>5. w \in Worlds /\ car[i] \in Car
  BY <1>4 DEF Sound, Worlds
<1>6. PICK c2 : c2 = [car[i] EXCEPT !.home = TRUE]
  OBVIOUS
<1>7. c2 \in Car /\ Alike(car[i], c2)
  BY <1>5, <1>6 DEF Car, Alike
<1>8. PICK w2 : w2 = [w EXCEPT !.car[i] = c2]
  OBVIOUS
<1>9. /\ w2 \in Worlds /\ w2.hazard = hazard /\ w2.car = [car EXCEPT ![i] = c2] /\ w2.car[i] = c2
      /\ \A j \in Racer : j # i => w2.car[j] = car[j]
  BY <1>4, <1>5, <1>7, <1>8, WithCarIs
<1>10. Kept(w, w2)
  <2>1. \A j \in Racer : Alike(w.car[j], w2.car[j])
    BY <1>4, <1>7, <1>9 DEF Alike
  <2> QED
    BY <1>4, <1>9, <2>1 DEF Kept, LiesOn
<1>11. Sound(w2, 0, tick)
  BY <1>4, <1>10, KeptSound
<1>12. World' = w2
  <2>1. car' = [car EXCEPT ![i] = c2]
    BY <1>1, <1>6
  <2>2. w2 = [car |-> w2.car, hazard |-> w2.hazard]
    BY <1>9 DEF Worlds
  <2> QED
    BY <1>2, <1>9, <2>1, <2>2 DEF World
<1>13. Sound(World', 0, tick')
  BY <1>2, <1>11, <1>12
<1>14. Sound(World, 0, tick)' <=> Sound(World', 0, tick')
  BY DEF Sound, Counted, Apart, Spaced, Burning
<1> QED
  BY <1>2, <1>13, <1>14 DEF ArmsInv

\* So does whatever happens.
LEMMA ArmsGoesOn ==
  ArmsInv /\ [ArmsNext]_armsVars => ArmsInv'
<1> SUFFICES ASSUME ArmsInv, [ArmsNext]_armsVars PROVE ArmsInv'
  OBVIOUS
<1>1. CASE ArmsStep
  BY <1>1, TickKeeps
<1>2. CASE GetsHome
  BY <1>2, HomeKeeps
<1>3. CASE UNCHANGED armsVars
  <2>1. tick' = tick /\ car' = car /\ hazard' = hazard
    BY <1>3 DEF armsVars
  <2>2. World' = World
    BY <2>1 DEF World
  <2>3. Sound(World, 0, tick)' <=> Sound(World', 0, tick')
    BY DEF Sound, Counted, Apart, Spaced, Burning
  <2> QED
    BY <2>1, <2>2, <2>3 DEF ArmsInv
<1> QED
  BY <1>1, <1>2, <1>3 DEF ArmsNext

\* What a sound world is of what cars carry, and of what they left behind.
LEMMA ArmsInvStands ==
  ArmsInv => ArmsStand
<1> SUFFICES ASSUME ArmsInv PROVE ArmsStand
  OBVIOUS
<1>1. PICK w : w = World
  OBVIOUS
<1>2. w.car = car /\ w.hazard = hazard /\ Sound(w, 0, tick) /\ tick \in Nat
  BY <1>1 DEF ArmsInv, World
<1>3. hazard \in Seq(LeftBehind)
  BY <1>2 DEF Sound, Worlds
<1>4. ArmsAddUp
  <2>1. ASSUME NEW i \in Racer
        PROVE  IF car[i].selected = Unarmed THEN \A k \in Armed : car[i].ammo[k] = 0
               ELSE car[i].ammo[car[i].selected] > 0
    BY <1>2 DEF Sound, Ready
  <2>2. ASSUME NEW i \in Racer, NEW k \in Armed
        PROVE  Cardinality({n \in DOMAIN hazard : hazard[n].owner = i /\ hazard[n].kind = k})
                 <= Loadout[k] - car[i].ammo[k]
    <3>1. Cardinality(Left(hazard, i, k)) <= Loadout[k] - car[i].ammo[k]
      BY <1>2 DEF Sound, Counted
    <3> QED
      BY <3>1 DEF Left
  <2> QED
    BY <2>1, <2>2 DEF ArmsAddUp
<1>5. BurnsItsTime
  <2>1. ASSUME NEW n \in DOMAIN hazard
        PROVE  /\ hazard[n].life + (tick - hazard[n].born) >= Lasts[hazard[n].kind]
               /\ hazard[n].kind # "mine" /\ Lasts[hazard[n].kind] # 0
                    => (hazard[n].spent <=> tick - hazard[n].born >= Lasts[hazard[n].kind])
    <3>1. PICK h : h = hazard[n]
      OBVIOUS
    <3>2. Burning(h, tick) /\ h \in LeftBehind
      BY <1>2, <1>3, <3>1 DEF Sound
    <3>3. h.life \in Nat /\ h.born \in Nat /\ Lasts[h.kind] \in Nat /\ h.spent \in BOOLEAN
      BY <3>2, ArmsAssumption DEF LeftBehind
    <3>4. h.life + (tick - h.born) >= Lasts[h.kind]
      BY <3>2 DEF Burning
    <3>5. ASSUME h.kind # "mine", Lasts[h.kind] # 0
          PROVE  h.spent <=> tick - h.born >= Lasts[h.kind]
      <4>1. CASE h.spent
        BY <3>2, <3>5, <4>1 DEF Burning
      <4>2. CASE ~h.spent
        <5>1. h.life = Lasts[h.kind] - (tick - h.born) /\ h.life > 0
          BY <3>2, <3>5, <4>2 DEF Burning
        <5>2. ~(tick - h.born >= Lasts[h.kind])
          BY <1>2, <3>3, <5>1
        <5> QED
          BY <4>2, <5>2
      <4> QED
        BY <4>1, <4>2
    <3> QED
      BY <3>1, <3>4, <3>5
  <2>2. Apart(hazard)
    BY <1>2 DEF Sound
  <2> QED
    BY <2>1, <2>2 DEF BurnsItsTime, Apart
<1> QED
  BY <1>4, <1>5 DEF ArmsStand

\* In a race of however many cars, whatever their drivers hold down and wherever they go:
\* what a car has selected it has, and nothing is selected only when it has nothing; of
\* what was left behind there is no more than was carried, each burns for as long as its
\* kind does, and whoever leaves one leaves the next gs_drop's cooldown later
\* (gs_world_step).
THEOREM ArmsStandAlways ==
  ArmsSpec => []ArmsStand
<1>1. ArmsInit => ArmsInv
  BY ArmsBegins
<1>2. ArmsInv /\ [ArmsNext]_armsVars => ArmsInv'
  BY ArmsGoesOn
<1>3. ArmsInv => ArmsStand
  BY ArmsInvStands
<1> QED
  BY <1>1, <1>2, <1>3, PTL DEF ArmsSpec

-----------------------------------------------------------------------------
(* What one machine keeps *)

\* Whatever is kept of a list, one after the other, is a list of those.
Which(e) == e.track
NoneTwice(l) == \A i, j \in DOMAIN l : Which(l[i]) = Which(l[j]) => i = j
SoFar(l, S, k, u) ==
    /\ Len(u) <= k /\ \A i \in DOMAIN u : u[i] \in S /\ \E j \in 1 .. k : l[j] = u[i]
    /\ \A j \in 1 .. k : l[j] \in S => \E i \in DOMAIN u : u[i] = l[j]
    /\ NoneTwice(l) => NoneTwice(u)

LEMMA KeepingOn ==
  ASSUME NEW E, NEW l \in Seq(E), NEW S, NEW k \in DOMAIN l, NEW u \in Seq(E),
         SoFar(l, S, k - 1, u)
  PROVE  LET v == IF l[k] \in S THEN Append(u, l[k]) ELSE u
         IN  v \in Seq(E) /\ SoFar(l, S, k, v)
<1>1. DOMAIN l = 1 .. Len(l) /\ Len(l) \in Nat /\ l[k] \in E /\ k \in Nat
  OBVIOUS
<1>2. DOMAIN u = 1 .. Len(u) /\ Len(u) \in Nat
  OBVIOUS
<1>3. CASE l[k] \in S
  <2>1. PICK v : v = Append(u, l[k])
    OBVIOUS
  <2>2. /\ v \in Seq(E) /\ Len(v) = Len(u) + 1 /\ DOMAIN v = 1 .. Len(u) + 1
        /\ v[Len(u) + 1] = l[k] /\ \A i \in DOMAIN u : v[i] = u[i]
    BY <1>1, <1>2, <2>1
  <2>3. Len(v) <= k
    BY <1>1, <1>2, <2>2 DEF SoFar
  <2>4. ASSUME NEW i \in DOMAIN v PROVE v[i] \in S /\ \E j \in 1 .. k : l[j] = v[i]
    <3>1. CASE i = Len(u) + 1
      BY <1>1, <1>3, <2>2, <3>1
    <3>2. CASE i # Len(u) + 1
      <4>1. i \in DOMAIN u /\ v[i] = u[i]
        BY <1>2, <2>2, <3>2
      <4>2. u[i] \in S /\ \E j \in 1 .. k - 1 : l[j] = u[i]
        BY <4>1 DEF SoFar
      <4> QED
        BY <1>1, <4>1, <4>2
    <3> QED
      BY <3>1, <3>2
  <2>5. ASSUME NEW j \in 1 .. k, l[j] \in S PROVE \E i \in DOMAIN v : v[i] = l[j]
    <3>1. CASE j = k
      BY <1>2, <2>2, <3>1
    <3>2. CASE j # k
      <4>1. j \in 1 .. k - 1
        BY <1>1, <3>2
      <4>2. PICK i \in DOMAIN u : u[i] = l[j]
        BY <2>5, <4>1 DEF SoFar
      <4> QED
        BY <1>2, <2>2, <4>2
    <3> QED
      BY <3>1, <3>2
  <2>6. ASSUME NoneTwice(l) PROVE NoneTwice(v)
    <3>1. NoneTwice(u)
      BY <2>6 DEF SoFar
    <3>2. ASSUME NEW i \in DOMAIN u PROVE Which(u[i]) # Which(l[k])
      <4>1. PICK j \in 1 .. k - 1 : l[j] = u[i]
        BY DEF SoFar
      <4>2. j \in DOMAIN l /\ j # k
        BY <1>1
      <4> QED
        BY <2>6, <4>1, <4>2 DEF NoneTwice
    <3>3. \A i \in DOMAIN v : i = Len(u) + 1 \/ (i \in DOMAIN u /\ v[i] = u[i])
      BY <1>2, <2>2
    <3> QED
      BY <2>2, <3>1, <3>2, <3>3 DEF NoneTwice
  <2> QED
    BY <1>3, <2>1, <2>2, <2>3, <2>4, <2>5, <2>6 DEF SoFar
<1>4. CASE l[k] \notin S
  <2>1. Len(u) <= k
    BY <1>1, <1>2 DEF SoFar
  <2>2. ASSUME NEW i \in DOMAIN u PROVE u[i] \in S /\ \E j \in 1 .. k : l[j] = u[i]
    <3>1. u[i] \in S /\ \E j \in 1 .. k - 1 : l[j] = u[i]
      BY DEF SoFar
    <3> QED
      BY <1>1, <3>1
  <2>3. ASSUME NEW j \in 1 .. k, l[j] \in S PROVE \E i \in DOMAIN u : u[i] = l[j]
    <3>1. j \in 1 .. k - 1
      BY <1>1, <1>4, <2>3
    <3> QED
      BY <2>3, <3>1 DEF SoFar
  <2>4. NoneTwice(l) => NoneTwice(u)
    BY DEF SoFar
  <2> QED
    BY <1>4, <2>1, <2>2, <2>3, <2>4 DEF SoFar
<1> QED
  BY <1>3, <1>4

LEMMA KeepingIs ==
  ASSUME NEW E, NEW l \in Seq(E), NEW S
  PROVE  Keeping(l, S) \in Seq(E) /\ SoFar(l, S, Len(l), Keeping(l, S))
<1> DEFINE n == Len(l)
           d == <<>>
           T == DOMAIN l
           D == Seq(E)
           One(u, e) == IF e \in S THEN Append(u, e) ELSE u
           F == [k \in 1 .. n |-> [u \in D |-> One(u, l[k])]]
           G == [k \in 0 .. n |-> {u \in D : SoFar(l, S, k, u)}]
           Folds(f) == f = [r \in SUBSET T |-> IF r = {} THEN d
                                               ELSE One(f[r \ {Max(r)}], l[Max(r)])]
           it == CHOOSE f : Folds(f)
<1>1. Keeping(l, S) = it[T]
  BY DEF Keeping, FoldLeft, MapThenFoldSet
<1>2. T = 1 .. n /\ n \in Nat
  OBVIOUS
<1>3. ASSUME NEW k \in 1 .. n, NEW u \in D
      PROVE  One(u, l[k]) \in D /\ (SoFar(l, S, k - 1, u) => SoFar(l, S, k, One(u, l[k])))
  <2>1. k \in DOMAIN l /\ l[k] \in E
    BY <1>2
  <2>2. One(u, l[k]) \in D
    BY <2>1
  <2>3. SoFar(l, S, k - 1, u) => SoFar(l, S, k, One(u, l[k]))
    BY <2>1, KeepingOn
  <2> QED
    BY <2>2, <2>3
<1> HIDE DEF One
<1>4. StepsIn(F, 1 .. n, D)
  BY <1>3 DEF StepsIn
<1>5. \A k \in 1 .. n : \A u \in D : F[k][u] = One(u, l[k])
  OBVIOUS
<1>6. d \in D /\ d \in G[0]
  BY <1>2 DEF SoFar, NoneTwice
<1>7. \A r \in SUBSET (1 .. n) : r # {} => Max(r) \in 1 .. n
  BY <1>2, GreatestUpTo
<1>8. \A k \in 1 .. n : \A u \in D : u \in G[k - 1] => F[k][u] \in G[k]
  <2>1. ASSUME NEW k \in 1 .. n, NEW u \in D, u \in G[k - 1] PROVE F[k][u] \in G[k]
    <3>1. k - 1 \in 0 .. n /\ k \in 0 .. n
      BY <1>2
    <3>2. SoFar(l, S, k - 1, u)
      BY <2>1, <3>1
    <3>3. One(u, l[k]) \in D /\ SoFar(l, S, k, One(u, l[k]))
      BY <1>3, <3>2
    <3> QED
      BY <1>5, <3>1, <3>3
  <2> QED
    BY <2>1
<1>9. \A u : u \in G[n] => u \in D /\ SoFar(l, S, n, u)
  BY <1>2
<1> HIDE DEF F, G, T, n, D, d
<1>10. \E f : Folds(f)
  <2>1. PICK f \in [SUBSET (1 .. n) -> D] : FromLeft(f, n, D, d, F)
    BY <1>2, <1>4, <1>6, LeftThere
  <2>2. ASSUME NEW r \in SUBSET (1 .. n)
        PROVE  f[r] = IF r = {} THEN d ELSE One(f[r \ {Max(r)}], l[Max(r)])
    <3>1. CASE r = {}
      BY <2>1, <3>1 DEF FromLeft
    <3>2. CASE r # {}
      <4>1. f[r \ {Max(r)}] \in D
        BY <2>1
      <4>2. f[r] = F[Max(r)][f[r \ {Max(r)}]]
        BY <2>1, <3>2, <4>1 DEF FromLeft
      <4> QED
        BY <1>5, <1>7, <3>2, <4>1, <4>2
    <3> QED
      BY <3>1, <3>2
  <2>3. f = [r \in SUBSET (1 .. n) |-> IF r = {} THEN d
                                       ELSE One(f[r \ {Max(r)}], l[Max(r)])]
    BY <2>1, <2>2
  <2> QED
    BY <1>2, <2>3
<1>11. Folds(it)
  BY <1>10
<1> HIDE DEF it
<1>12. FromLeft(it, n, D, d, F)
  <2>1. it[{}] = d
    BY <1>11
  <2>2. ASSUME NEW r \in SUBSET (1 .. n), r # {}, it[r \ {Max(r)}] \in D
        PROVE  it[r] = F[Max(r)][it[r \ {Max(r)}]]
    <3>1. it[r] = One(it[r \ {Max(r)}], l[Max(r)])
      BY <1>2, <1>11, <2>2
    <3> QED
      BY <1>5, <1>7, <2>2, <3>1
  <2> QED
    BY <2>1, <2>2 DEF FromLeft
<1>13. it[1 .. n] \in G[n]
  BY <1>2, <1>4, <1>6, <1>8, <1>12, LeftLeads
<1> QED
  BY <1>1, <1>2, <1>9, <1>13 DEF n, D

\* The library: a list with room, in which no track is twice.
Called == {"shipped", "today", "copy", "untitled", "mine"}
OnShelf == [track : Tracks, name : Called, builtin : BOOLEAN]
Shelved(l) == l \in Seq(OnShelf) /\ Len(l) <= EntriesMax /\ NoneTwice(l)

LEMMA ShelvedIs ==
  ASSUME NEW l, Shelved(l)
  PROVE  /\ DOMAIN l = 1 .. Len(l) /\ Len(l) \in Nat
         /\ \A i \in DOMAIN l : /\ l[i] \in OnShelf /\ l[i].track \in Tracks
                                /\ l[i].name \in Called /\ l[i].builtin \in BOOLEAN
<1>1. l \in Seq(OnShelf)
  BY DEF Shelved
<1>2. \A i \in DOMAIN l : l[i] \in OnShelf
  BY <1>1
<1> QED
  BY <1>1, <1>2 DEF OnShelf

\* A list like another: the same tracks in the same places.
LEMMA SameTracks ==
  ASSUME NEW l, Shelved(l), NEW v, DOMAIN v = DOMAIN l, v \in Seq(OnShelf),
         \A i \in DOMAIN l : v[i].track = l[i].track
  PROVE  Shelved(v) /\ TracksIn(v) = TracksIn(l) /\ Len(v) = Len(l)
<1>1. DOMAIN v = 1 .. Len(v) /\ Len(v) \in Nat /\ DOMAIN l = 1 .. Len(l) /\ Len(l) \in Nat
  BY ShelvedIs
<1>2. Len(v) = Len(l)
  <2>1. PICK m, n \in Nat : m = Len(v) /\ n = Len(l)
    BY <1>1
  <2>2. (\A i \in 1 .. m : i \in 1 .. n) /\ (\A i \in 1 .. n : i \in 1 .. m)
    BY <1>1, <2>1
  <2>3. (\A i \in 1 .. m : i <= n) /\ (\A i \in 1 .. n : i <= m)
    BY <2>1, <2>2
  <2>4. (m > 0 => m \in 1 .. m) /\ (n > 0 => n \in 1 .. n)
    BY <2>1
  <2>5. (m > 0 => m <= n) /\ (n > 0 => n <= m)
    BY <2>3, <2>4
  <2> QED
    BY <2>1, <2>5
<1>3. NoneTwice(v)
  BY DEF Shelved, NoneTwice, Which
<1>4. TracksIn(v) = TracksIn(l)
  BY DEF TracksIn
<1> QED
  BY <1>2, <1>3, <1>4 DEF Shelved

\* gs_library_put.
LEMMA PutHere ==
  ASSUME NEW l, Shelved(l), NEW t \in Tracks, NEW name \in Called
  PROVE  /\ Shelved(Put(l, t, name)) /\ OwnIn(l) \subseteq OwnIn(Put(l, t, name))
         /\ TracksIn(Put(l, t, name)) = TracksIn(l) \cup {t}
              \/ (Put(l, t, name) = l /\ Len(l) = EntriesMax)
         /\ BuiltinIn(Put(l, t, name)) = BuiltinIn(l)
         /\ Len(l) <= Len(Put(l, t, name))
<1>1. PICK v : v = Put(l, t, name)
  OBVIOUS
<1>2. l \in Seq(OnShelf) /\ Len(l) \in Nat /\ DOMAIN l = 1 .. Len(l) /\ EntriesMax \in Nat
      /\ \A i \in DOMAIN l : l[i] \in OnShelf
  BY ShelfAssumption, ShelvedIs DEF Shelved
<1>3. CASE t \in TracksIn(l)
  <2>1. PICK i : i = EntryOf(l, t)
    OBVIOUS
  <2>2. i \in DOMAIN l /\ l[i].track = t
    BY <1>3, <2>1 DEF TracksIn, EntryOf
  <2>3. PICK e : e = [l[i] EXCEPT !.name = name]
    OBVIOUS
  <2>4. e \in OnShelf /\ e.track = l[i].track /\ e.builtin = l[i].builtin
    BY <1>2, <2>2, <2>3 DEF OnShelf
  <2>5. v = [l EXCEPT ![i] = e]
    BY <1>1, <1>3, <2>1, <2>3 DEF Put
  <2>6. /\ v \in Seq(OnShelf) /\ DOMAIN v = DOMAIN l /\ v[i] = e
        /\ \A j \in DOMAIN l : j # i => v[j] = l[j]
    BY <1>2, <2>2, <2>4, <2>5
  <2>7. \A j \in DOMAIN l : v[j].track = l[j].track /\ v[j].builtin = l[j].builtin
    BY <2>4, <2>6
  <2>8. Shelved(v) /\ TracksIn(v) = TracksIn(l) /\ Len(v) = Len(l)
    BY <2>6, <2>7, SameTracks
  <2>9. OwnIn(v) = OwnIn(l)
    BY <2>6, <2>7 DEF OwnIn
  <2>10. BuiltinIn(v) = BuiltinIn(l)
    BY <2>8, <2>9 DEF BuiltinIn
  <2>11. Len(l) <= Len(v) /\ TracksIn(v) = TracksIn(l) \cup {t}
    BY <1>2, <1>3, <2>8
  <2> QED
    BY <1>1, <2>8, <2>9, <2>10, <2>11
<1>4. CASE t \notin TracksIn(l) /\ Len(l) < EntriesMax
  <2>1. PICK e : e = [track |-> t, name |-> name, builtin |-> FALSE]
    OBVIOUS
  <2>2. e \in OnShelf /\ e.track = t /\ e.builtin = FALSE
    BY <2>1 DEF OnShelf
  <2>3. v = Append(l, e)
    BY <1>1, <1>4, <2>1 DEF Put
  <2>4. /\ v \in Seq(OnShelf) /\ Len(v) = Len(l) + 1 /\ DOMAIN v = 1 .. Len(l) + 1
        /\ v[Len(l) + 1] = e /\ \A i \in DOMAIN l : v[i] = l[i]
    BY <1>2, <2>2, <2>3
  <2>5. \A i \in DOMAIN v : i = Len(l) + 1 \/ i \in DOMAIN l
    BY <1>2, <2>4
  <2>6. DOMAIN l \subseteq DOMAIN v /\ Len(l) + 1 \in DOMAIN v
    BY <1>2, <2>4
  <2>7. NoneTwice(v)
    <3>1. \A i \in DOMAIN l : l[i].track # t
      BY <1>4 DEF TracksIn
    <3>2. NoneTwice(l)
      BY DEF Shelved
    <3> QED
      BY <2>2, <2>4, <2>5, <3>1, <3>2 DEF NoneTwice, Which
  <2>8. Shelved(v)
    BY <1>2, <1>4, <2>4, <2>7 DEF Shelved
  <2>9. TracksIn(v) = TracksIn(l) \cup {t}
    BY <2>2, <2>4, <2>5, <2>6 DEF TracksIn
  <2>10. OwnIn(v) = OwnIn(l) \cup {t}
    BY <2>2, <2>4, <2>5, <2>6 DEF OwnIn
  <2>11. BuiltinIn(v) = BuiltinIn(l)
    BY <1>4, <2>9, <2>10 DEF BuiltinIn
  <2> QED
    BY <1>1, <1>2, <2>4, <2>8, <2>9, <2>10, <2>11
<1>5. CASE t \notin TracksIn(l) /\ ~(Len(l) < EntriesMax)
  <2>1. v = l
    BY <1>1, <1>5 DEF Put
  <2>2. Len(l) = EntriesMax
    <3>1. PICK n : n = Len(l)
      OBVIOUS
    <3>2. n \in Nat /\ n <= EntriesMax /\ ~(n < EntriesMax) /\ EntriesMax \in Nat
      BY <1>2, <1>5, <3>1 DEF Shelved
    <3> QED
      BY <3>1, <3>2
  <2> QED
    BY <1>1, <1>2, <2>1, <2>2
<1> QED
  BY <1>2, <1>3, <1>4, <1>5

\* gs_library_put_builtin: what is put is the game's.
LEMMA PutFromGame ==
  ASSUME NEW l, Shelved(l), NEW t \in Tracks, NEW name \in Called
  PROVE  LET v == PutBuiltin(l, t, name)
         IN  /\ Shelved(v) /\ OwnIn(l) \ {t} \subseteq OwnIn(v)
             /\ BuiltinIn(v) \subseteq BuiltinIn(l) \cup {t}
             /\ TracksIn(l) \subseteq TracksIn(v)
             /\ t \in TracksIn(v) \/ Len(v) = EntriesMax
             /\ Len(l) = EntriesMax => Len(v) = EntriesMax
<1>1. PICK u, v : u = Put(l, t, name) /\ v = PutBuiltin(l, t, name)
  OBVIOUS
<1>2. /\ Shelved(u) /\ OwnIn(l) \subseteq OwnIn(u) /\ BuiltinIn(u) = BuiltinIn(l)
      /\ TracksIn(u) = TracksIn(l) \cup {t} \/ (u = l /\ Len(l) = EntriesMax)
      /\ Len(l) <= Len(u)
  <2>1. u = Put(l, t, name)
    BY <1>1
  <2>2. /\ Shelved(Put(l, t, name)) /\ OwnIn(l) \subseteq OwnIn(Put(l, t, name))
        /\ TracksIn(Put(l, t, name)) = TracksIn(l) \cup {t}
              \/ (Put(l, t, name) = l /\ Len(l) = EntriesMax)
        /\ BuiltinIn(Put(l, t, name)) = BuiltinIn(l)
        /\ Len(l) <= Len(Put(l, t, name))
    BY PutHere
  <2> QED
    BY <2>1, <2>2
<1>3. v = [i \in DOMAIN u |-> IF u[i].track = t THEN [u[i] EXCEPT !.builtin = TRUE] ELSE u[i]]
  BY <1>1 DEF PutBuiltin
<1>4. /\ DOMAIN u = 1 .. Len(u) /\ Len(u) \in Nat /\ DOMAIN l = 1 .. Len(l) /\ Len(l) \in Nat
      /\ \A i \in DOMAIN u : u[i] \in OnShelf /\ u[i].builtin \in BOOLEAN
  BY <1>2, ShelvedIs
<1>5. ASSUME NEW i \in DOMAIN u
      PROVE  /\ v[i] \in OnShelf /\ v[i].track = u[i].track
             /\ u[i].track = t => v[i].builtin = TRUE
             /\ u[i].track # t => v[i].builtin = u[i].builtin
  <2>1. CASE u[i].track = t
    <3>1. v[i] = [u[i] EXCEPT !.builtin = TRUE]
      BY <1>3, <2>1
    <3> QED
      BY <1>4, <2>1, <3>1 DEF OnShelf
  <2>2. CASE u[i].track # t
    <3>1. v[i] = u[i]
      BY <1>3, <2>2
    <3> QED
      BY <1>4, <2>2, <3>1
  <2> QED
    BY <2>1, <2>2
<1>6. DOMAIN v = DOMAIN u /\ v \in Seq(OnShelf)
  <2>1. DOMAIN v = 1 .. Len(u) /\ v \in [1 .. Len(u) -> OnShelf]
    BY <1>3, <1>4, <1>5
  <2> QED
    BY <1>4, <2>1
<1>7. Shelved(v) /\ TracksIn(v) = TracksIn(u) /\ Len(v) = Len(u)
  BY <1>2, <1>5, <1>6, SameTracks
<1>8. OwnIn(v) = OwnIn(u) \ {t}
  <2>1. ASSUME NEW x \in OwnIn(v) PROVE x \in OwnIn(u) /\ x # t
    <3>1. PICK i \in DOMAIN v : ~v[i].builtin /\ x = v[i].track
      BY DEF OwnIn
    <3>2. u[i].track # t /\ ~u[i].builtin /\ x = u[i].track /\ i \in DOMAIN u
      BY <1>5, <1>6, <3>1
    <3> QED
      BY <3>2 DEF OwnIn
  <2>2. ASSUME NEW x \in OwnIn(u), x # t PROVE x \in OwnIn(v)
    <3>1. PICK i \in DOMAIN u : ~u[i].builtin /\ x = u[i].track
      BY DEF OwnIn
    <3>2. v[i].track = x /\ ~v[i].builtin /\ i \in DOMAIN v
      BY <1>5, <1>6, <2>2, <3>1
    <3> QED
      BY <3>2 DEF OwnIn
  <2> QED
    BY <2>1, <2>2
<1>9. BuiltinIn(v) \subseteq BuiltinIn(l) \cup {t}
  BY <1>2, <1>7, <1>8 DEF BuiltinIn
<1>10. Len(l) = EntriesMax => Len(v) = EntriesMax
  <2>1. PICK a, b, c : a = Len(l) /\ b = Len(u) /\ c = Len(v)
    OBVIOUS
  <2>2. a \in Nat /\ b \in Nat /\ a <= b /\ c = b /\ c <= EntriesMax /\ EntriesMax \in Nat
    BY <1>2, <1>4, <1>7, <2>1, ShelfAssumption DEF Shelved
  <2> QED
    BY <2>1, <2>2
<1>11. t \in TracksIn(v) \/ Len(v) = EntriesMax
  BY <1>2, <1>7
<1>12. TracksIn(l) \subseteq TracksIn(v) /\ OwnIn(l) \ {t} \subseteq OwnIn(v)
  BY <1>2, <1>7, <1>8
<1> QED
  BY <1>1, <1>7, <1>9, <1>10, <1>11, <1>12

\* gs_library_remove, of some: those that are kept are as they were.
LEMMA KeptHere ==
  ASSUME NEW l, Shelved(l), NEW S
  PROVE  /\ Shelved(Keeping(l, S))
         /\ \A i \in DOMAIN Keeping(l, S) :
               Keeping(l, S)[i] \in S /\ \E j \in DOMAIN l : l[j] = Keeping(l, S)[i]
         /\ \A j \in DOMAIN l : l[j] \in S => \E i \in DOMAIN Keeping(l, S) : Keeping(l, S)[i] = l[j]
<1>1. PICK v : v = Keeping(l, S)
  OBVIOUS
<1>2. l \in Seq(OnShelf) /\ Len(l) <= EntriesMax /\ NoneTwice(l)
  BY DEF Shelved
<1>3. v \in Seq(OnShelf) /\ SoFar(l, S, Len(l), v)
  BY <1>1, <1>2, KeepingIs
<1>4. DOMAIN l = 1 .. Len(l) /\ Len(l) \in Nat
  BY <1>2
<1>5. Len(v) <= EntriesMax
  <2>1. PICK a, b : a = Len(l) /\ b = Len(v)
    OBVIOUS
  <2>2. a \in Nat /\ b \in Nat /\ b <= a /\ a <= EntriesMax /\ EntriesMax \in Nat
    BY <1>2, <1>3, <2>1, ShelfAssumption DEF SoFar
  <2> QED
    BY <2>1, <2>2
<1>6. Shelved(v)
  BY <1>2, <1>3, <1>5 DEF Shelved, SoFar
<1>7. /\ \A i \in DOMAIN v : v[i] \in S /\ \E j \in DOMAIN l : l[j] = v[i]
      /\ \A j \in DOMAIN l : l[j] \in S => \E i \in DOMAIN v : v[i] = l[j]
  BY <1>3, <1>4 DEF SoFar
<1> QED
  BY <1>1, <1>6, <1>7

\* gs_library_retire_builtins: the player's own stays, and of the game's only what is to.
LEMMA RetireIs ==
  ASSUME NEW l, Shelved(l), NEW keep
  PROVE  /\ Shelved(Retire(l, keep)) /\ OwnIn(l) \subseteq OwnIn(Retire(l, keep))
         /\ keep # {} => BuiltinIn(Retire(l, keep)) \subseteq keep
<1>1. CASE keep = {}
  BY <1>1 DEF Retire
<1>2. CASE keep # {}
  <2> DEFINE S == {e \in ToSet(l) : ~e.builtin \/ e.track \in keep}
  <2>1. PICK v : v = Keeping(l, S)
    OBVIOUS
  <2> HIDE DEF S
  <2>2. /\ Shelved(v) /\ \A i \in DOMAIN v : v[i] \in S
        /\ \A j \in DOMAIN l : l[j] \in S => \E i \in DOMAIN v : v[i] = l[j]
    BY <2>1, KeptHere
  <2>3. Retire(l, keep) = v
    BY <1>2, <2>1 DEF Retire, S
  <2>4. ASSUME NEW x \in OwnIn(l) PROVE x \in OwnIn(v)
    <3>1. PICK j \in DOMAIN l : ~l[j].builtin /\ x = l[j].track
      BY DEF OwnIn
    <3>2. l[j] \in S
      BY <3>1 DEF ToSet, S
    <3>3. PICK i \in DOMAIN v : v[i] = l[j]
      BY <2>2, <3>2
    <3> QED
      BY <3>1, <3>3 DEF OwnIn
  <2>5. ASSUME NEW x \in BuiltinIn(v) PROVE x \in keep
    <3>1. x \in TracksIn(v) /\ x \notin OwnIn(v)
      BY DEF BuiltinIn
    <3>2. PICK i \in DOMAIN v : v[i].track = x
      BY <3>1 DEF TracksIn
    <3>3. v[i].builtin
      BY <3>1, <3>2 DEF OwnIn
    <3>4. ~v[i].builtin \/ v[i].track \in keep
      BY <2>2 DEF S
    <3> QED
      BY <3>2, <3>3, <3>4
  <2> QED
    BY <2>2, <2>3, <2>4, <2>5
<1> QED
  BY <1>1, <1>2

\* One track out: the player's own but for that.
LEMMA WithoutIs ==
  ASSUME NEW l, Shelved(l), NEW t
  PROVE  Shelved(Without(l, t)) /\ OwnIn(l) \ {t} \subseteq OwnIn(Without(l, t))
<1> DEFINE S == {e \in ToSet(l) : e.track # t}
<1>1. PICK v : v = Keeping(l, S)
  OBVIOUS
<1> HIDE DEF S
<1>2. /\ Shelved(v) /\ \A i \in DOMAIN v : v[i] \in S
      /\ \A j \in DOMAIN l : l[j] \in S => \E i \in DOMAIN v : v[i] = l[j]
  BY <1>1, KeptHere
<1>3. ASSUME NEW x \in OwnIn(l), x # t PROVE x \in OwnIn(v)
  <2>1. PICK j \in DOMAIN l : ~l[j].builtin /\ x = l[j].track
    BY DEF OwnIn
  <2>2. l[j] \in S
    BY <1>3, <2>1 DEF ToSet, S
  <2>3. PICK i \in DOMAIN v : v[i] = l[j]
    BY <1>2, <2>2
  <2> QED
    BY <2>1, <2>3 DEF OwnIn
<1>4. v = Without(l, t)
  BY <1>1 DEF Without, S
<1> QED
  BY <1>2, <1>3, <1>4

\* What ships, put in one after the other: so many of them are here, or there is no room.
Came(l, k, u) ==
    /\ OwnIn(l) \ ToSet(ships) \subseteq OwnIn(u) /\ BuiltinIn(u) \subseteq ToSet(ships)
    /\ (\A j \in 1 .. k : ships[j] \in TracksIn(u)) \/ Len(u) = EntriesMax
Shelves == {u \in Seq(OnShelf) : Shelved(u)}

LEMMA OneComes ==
  ASSUME ships \in Seq(Tracks), NEW l, NEW k \in DOMAIN ships, NEW u, Shelved(u),
         Came(l, k - 1, u)
  PROVE  /\ Shelved(PutBuiltin(u, ships[k], "shipped"))
         /\ Came(l, k, PutBuiltin(u, ships[k], "shipped"))
<1>1. PICK t, v : t = ships[k] /\ v = PutBuiltin(u, t, "shipped")
  OBVIOUS
<1>2. DOMAIN ships = 1 .. Len(ships) /\ Len(ships) \in Nat /\ k \in Nat
  OBVIOUS
<1>3. t \in Tracks /\ t \in ToSet(ships) /\ "shipped" \in Called
  BY <1>1 DEF ToSet, Called
<1>4. /\ Shelved(v) /\ OwnIn(u) \ {t} \subseteq OwnIn(v)
      /\ BuiltinIn(v) \subseteq BuiltinIn(u) \cup {t}
      /\ TracksIn(u) \subseteq TracksIn(v)
      /\ t \in TracksIn(v) \/ Len(v) = EntriesMax
      /\ Len(u) = EntriesMax => Len(v) = EntriesMax
  BY <1>1, <1>3, PutFromGame
<1>5. OwnIn(l) \ ToSet(ships) \subseteq OwnIn(v) /\ BuiltinIn(v) \subseteq ToSet(ships)
  BY <1>3, <1>4 DEF Came
<1>6. ASSUME Len(v) # EntriesMax, NEW j \in 1 .. k PROVE ships[j] \in TracksIn(v)
  <2>1. CASE j = k
    BY <1>1, <1>4, <1>6, <2>1
  <2>2. CASE j # k
    <3>1. j \in 1 .. k - 1
      BY <1>2, <2>2
    <3>2. ships[j] \in TracksIn(u)
      BY <1>4, <1>6, <3>1 DEF Came
    <3> QED
      BY <1>4, <3>2
  <2> QED
    BY <2>1, <2>2
<1> QED
  BY <1>1, <1>4, <1>5, <1>6 DEF Came

LEMMA AllCome ==
  ASSUME ships \in Seq(Tracks), NEW l, NEW r, Shelved(r), Came(l, 0, r)
  PROVE  LET v == FoldLeft(LAMBDA got, t : PutBuiltin(got, t, "shipped"), r, ships)
         IN  Shelved(v) /\ Came(l, Len(ships), v)
<1> DEFINE n == Len(ships)
           T == DOMAIN ships
           D == Shelves
           One(u, t) == PutBuiltin(u, t, "shipped")
           F == [k \in 1 .. n |-> [u \in D |-> One(u, ships[k])]]
           G == [k \in 0 .. n |-> {u \in D : Came(l, k, u)}]
           Folds(f) == f = [s \in SUBSET T |-> IF s = {} THEN r
                                               ELSE One(f[s \ {Max(s)}], ships[Max(s)])]
           it == CHOOSE f : Folds(f)
<1>1. FoldLeft(LAMBDA got, t : PutBuiltin(got, t, "shipped"), r, ships) = it[T]
  BY DEF FoldLeft, MapThenFoldSet
<1>2. T = 1 .. n /\ n \in Nat
  OBVIOUS
<1>3. \A u : u \in D <=> Shelved(u)
  BY DEF Shelves, Shelved
<1>4. ASSUME NEW k \in 1 .. n, NEW u \in D
      PROVE  One(u, ships[k]) \in D /\ (Came(l, k - 1, u) => Came(l, k, One(u, ships[k])))
  <2>1. k \in DOMAIN ships /\ ships[k] \in Tracks /\ "shipped" \in Called /\ Shelved(u)
    BY <1>2, <1>3 DEF Called
  <2>2. Shelved(One(u, ships[k]))
    BY <2>1, PutFromGame
  <2>3. Came(l, k - 1, u) => Came(l, k, One(u, ships[k]))
    BY <2>1, OneComes
  <2> QED
    BY <1>3, <2>2, <2>3
<1> HIDE DEF One
<1>5. StepsIn(F, 1 .. n, D)
  BY <1>4 DEF StepsIn
<1>6. \A k \in 1 .. n : \A u \in D : F[k][u] = One(u, ships[k])
  OBVIOUS
<1>7. r \in D /\ r \in G[0]
  BY <1>2, <1>3
<1>8. \A s \in SUBSET (1 .. n) : s # {} => Max(s) \in 1 .. n
  BY <1>2, GreatestUpTo
<1>9. \A k \in 1 .. n : \A u \in D : u \in G[k - 1] => F[k][u] \in G[k]
  <2>1. ASSUME NEW k \in 1 .. n, NEW u \in D, u \in G[k - 1] PROVE F[k][u] \in G[k]
    <3>1. k - 1 \in 0 .. n /\ k \in 0 .. n
      BY <1>2
    <3>2. Came(l, k - 1, u)
      BY <2>1, <3>1
    <3>3. One(u, ships[k]) \in D /\ Came(l, k, One(u, ships[k]))
      BY <1>4, <3>2
    <3> QED
      BY <1>6, <3>1, <3>3
  <2> QED
    BY <2>1
<1>10. \A u : u \in G[n] => Shelved(u) /\ Came(l, n, u)
  BY <1>2, <1>3
<1> HIDE DEF F, G, T, n, D
<1>11. \E f : Folds(f)
  <2>1. PICK f \in [SUBSET (1 .. n) -> D] : FromLeft(f, n, D, r, F)
    BY <1>2, <1>5, <1>7, LeftThere
  <2>2. ASSUME NEW s \in SUBSET (1 .. n)
        PROVE  f[s] = IF s = {} THEN r ELSE One(f[s \ {Max(s)}], ships[Max(s)])
    <3>1. CASE s = {}
      BY <2>1, <3>1 DEF FromLeft
    <3>2. CASE s # {}
      <4>1. f[s \ {Max(s)}] \in D
        BY <2>1
      <4>2. f[s] = F[Max(s)][f[s \ {Max(s)}]]
        BY <2>1, <3>2, <4>1 DEF FromLeft
      <4> QED
        BY <1>6, <1>8, <3>2, <4>1, <4>2
    <3> QED
      BY <3>1, <3>2
  <2>3. f = [s \in SUBSET (1 .. n) |-> IF s = {} THEN r
                                       ELSE One(f[s \ {Max(s)}], ships[Max(s)])]
    BY <2>1, <2>2
  <2> QED
    BY <1>2, <2>3
<1>12. Folds(it)
  BY <1>11
<1> HIDE DEF it
<1>13. FromLeft(it, n, D, r, F)
  <2>1. it[{}] = r
    BY <1>12
  <2>2. ASSUME NEW s \in SUBSET (1 .. n), s # {}, it[s \ {Max(s)}] \in D
        PROVE  it[s] = F[Max(s)][it[s \ {Max(s)}]]
    <3>1. it[s] = One(it[s \ {Max(s)}], ships[Max(s)])
      BY <1>2, <1>12, <2>2
    <3> QED
      BY <1>6, <1>8, <2>2, <3>1
  <2> QED
    BY <2>1, <2>2 DEF FromLeft
<1>14. it[1 .. n] \in G[n]
  BY <1>2, <1>5, <1>7, <1>9, <1>13, LeftLeads
<1> QED
  BY <1>1, <1>2, <1>10, <1>14 DEF n

\* gs_sync_stock_tracks.
LEMMA SyncIs ==
  ASSUME ships \in Seq(Tracks), NEW l, Shelved(l)
  PROVE  /\ Shelved(Sync(l)) /\ OwnIn(l) \ ToSet(ships) \subseteq OwnIn(Sync(l))
         /\ ships # <<>> =>
               /\ BuiltinIn(Sync(l)) \subseteq ToSet(ships)
               /\ ToSet(ships) \subseteq TracksIn(Sync(l)) \/ Len(Sync(l)) = EntriesMax
<1>1. CASE ships = <<>>
  BY <1>1 DEF Sync
<1>2. CASE ships # <<>>
  <2>1. DOMAIN ships = 1 .. Len(ships) /\ Len(ships) \in Nat \ {0}
    BY <1>2
  <2>2. ships[1] \in ToSet(ships)
    BY <2>1 DEF ToSet
  <2>3. PICK r : r = Retire(l, ToSet(ships))
    OBVIOUS
  <2>4. Shelved(r) /\ OwnIn(l) \subseteq OwnIn(r) /\ BuiltinIn(r) \subseteq ToSet(ships)
    BY <2>2, <2>3, RetireIs
  <2>5. Came(l, 0, r)
    BY <2>4 DEF Came
  <2>6. PICK v : v = FoldLeft(LAMBDA got, t : PutBuiltin(got, t, "shipped"), r, ships)
    OBVIOUS
  <2>7. Shelved(v) /\ Came(l, Len(ships), v)
    BY <2>4, <2>5, <2>6, AllCome
  <2>8. ToSet(ships) \subseteq TracksIn(v) \/ Len(v) = EntriesMax
    BY <2>1, <2>7 DEF Came, ToSet
  <2>9. Sync(l) = v
    BY <1>2, <2>3, <2>6 DEF Sync
  <2> QED
    BY <2>7, <2>8, <2>9 DEF Came
<1> QED
  BY <1>1, <1>2

LEMMA TracksCounted ==
  ASSUME NEW l, Shelved(l)
  PROVE  IsFiniteSet(TracksIn(l)) /\ Cardinality(TracksIn(l)) = Len(l)
<1>1. DOMAIN l = 1 .. Len(l) /\ Len(l) \in Nat /\ NoneTwice(l)
  BY ShelvedIs DEF Shelved
<1>2. PICK n \in Nat : n = Len(l)
  BY <1>1
<1> DEFINE f == [i \in 1 .. n |-> l[i].track]
           S == TracksIn(l)
<1>3. f \in [1 .. n -> S] /\ \A x \in S : \E i \in 1 .. n : f[i] = x
  BY <1>1, <1>2 DEF TracksIn
<1>4. \A i, j \in 1 .. n : f[i] = f[j] => i = j
  BY <1>1, <1>2 DEF NoneTwice, Which
<1> HIDE DEF f, S
<1>5. IsFiniteSet(S) /\ Cardinality(S) = n
  BY <1>3, <1>4, CountedOnce
<1> QED
  BY <1>2, <1>5 DEF S

LEMMA ShipsCounted ==
  ASSUME ships \in Seq(Tracks)
  PROVE  IsFiniteSet(ToSet(ships))
<1>1. PICK n \in Nat : DOMAIN ships = 1 .. n
  OBVIOUS
<1> DEFINE S == ToSet(ships)
<1>2. ships \in [1 .. n -> S] /\ \A x \in S : \E i \in 1 .. n : ships[i] = x
  BY <1>1 DEF ToSet
<1> HIDE DEF S
<1>3. IsFiniteSet(S)
  BY <1>2, CountedOnce
<1> QED
  BY <1>3 DEF S

\* If there is room for what ships beside the player's own, and all else that is here
\* ships, then it is here.
LEMMA RoomForAll ==
  ASSUME ships \in Seq(Tracks), NEW u, Shelved(u), BuiltinIn(u) \subseteq ToSet(ships),
         Len(u) = EntriesMax,
         Cardinality(OwnIn(u)) + Cardinality(ToSet(ships)) <= EntriesMax
  PROVE  ToSet(ships) \subseteq TracksIn(u)
<1>1. IsFiniteSet(TracksIn(u)) /\ Cardinality(TracksIn(u)) = EntriesMax /\ EntriesMax \in Nat
  BY TracksCounted, ShelfAssumption
<1>2. OwnIn(u) \in SUBSET TracksIn(u) /\ BuiltinIn(u) \in SUBSET TracksIn(u)
  BY DEF OwnIn, TracksIn, BuiltinIn
<1>3. IsFiniteSet(ToSet(ships))
  BY ShipsCounted
<1>4. /\ IsFiniteSet(OwnIn(u)) /\ IsFiniteSet(BuiltinIn(u))
      /\ Cardinality(BuiltinIn(u)) <= Cardinality(ToSet(ships))
      /\ Cardinality(ToSet(ships)) = Cardinality(BuiltinIn(u)) => ToSet(ships) = BuiltinIn(u)
  <2>1. IsFiniteSet(OwnIn(u))
    BY <1>1, <1>2, FS_Subset
  <2>2. BuiltinIn(u) \in SUBSET ToSet(ships)
    OBVIOUS
  <2> QED
    BY <1>3, <2>1, <2>2, FS_Subset
<1>5. OwnIn(u) \cup BuiltinIn(u) = TracksIn(u) /\ OwnIn(u) \cap BuiltinIn(u) = {}
  BY <1>2 DEF BuiltinIn
<1>6. PICK a, b, c : a = Cardinality(OwnIn(u)) /\ b = Cardinality(BuiltinIn(u))
                     /\ c = Cardinality(ToSet(ships))
  OBVIOUS
<1>7. a \in Nat /\ b \in Nat /\ c \in Nat
  BY <1>3, <1>4, <1>6, FS_CardinalityType
<1>8. EntriesMax = a + b
  <2>1. /\ Cardinality(OwnIn(u) \cup BuiltinIn(u))
             = Cardinality(OwnIn(u)) + Cardinality(BuiltinIn(u))
                 - Cardinality(OwnIn(u) \cap BuiltinIn(u))
    BY <1>4, FS_Union
  <2>2. Cardinality(OwnIn(u) \cap BuiltinIn(u)) = 0
    BY <1>5, FS_EmptySet
  <2>3. PICK d, e : /\ d = Cardinality(OwnIn(u) \cup BuiltinIn(u))
                    /\ e = Cardinality(OwnIn(u) \cap BuiltinIn(u))
    OBVIOUS
  <2>4. d = EntriesMax /\ e = 0 /\ d = a + b - e
    BY <1>1, <1>5, <1>6, <2>1, <2>2, <2>3
  <2> QED
    BY <1>7, <2>4
<1>9. a + c <= EntriesMax /\ b <= c
  BY <1>4, <1>6
<1>10. b = c
  BY <1>1, <1>7, <1>8, <1>9
<1> QED
  BY <1>2, <1>4, <1>6, <1>10

\* gs_store_save cut short: the first tracks of a list are a list of tracks.
LEMMA FirstShelved ==
  ASSUME NEW l, Shelved(l), NEW k \in 0 .. Len(l) - 1
  PROVE  Shelved(SubSeq(l, 1, k))
<1>1. /\ DOMAIN l = 1 .. Len(l) /\ Len(l) \in Nat /\ NoneTwice(l) /\ l \in Seq(OnShelf)
      /\ Len(l) <= EntriesMax /\ EntriesMax \in Nat
  BY ShelvedIs, ShelfAssumption DEF Shelved
<1>2. PICK v : v = SubSeq(l, 1, k)
  OBVIOUS
<1>3. v \in Seq(OnShelf) /\ Len(v) = k /\ DOMAIN v = 1 .. k /\ \A i \in 1 .. k : v[i] = l[i]
  BY <1>1, <1>2
<1>4. k <= EntriesMax /\ \A i \in 1 .. k : i \in DOMAIN l
  BY <1>1
<1>5. NoneTwice(v)
  BY <1>1, <1>3, <1>4 DEF NoneTwice
<1> QED
  BY <1>2, <1>3, <1>4, <1>5 DEF Shelved

\* SDL_AppInit before the file: there is a track to race.
LEMMA FreshIs ==
  ASSUME ships \in Versions, day \in Days
  PROVE  ships \in Seq(Tracks) /\ Shelved(Fresh) /\ FirstTrack \in Tracks
<1>1. ships \in Seq(Tracks)
  BY ShelfAssumption
<1>2. Shelved(<<>>)
  BY ShelfAssumption DEF Shelved, NoneTwice
<1>3. PICK s, t, v : s = Sync(<<>>) /\ t = Daily[day] /\ v = PutBuiltin(s, t, "today")
  OBVIOUS
<1>4. Shelved(s)
  BY <1>1, <1>2, <1>3, SyncIs
<1>5. t \in Tracks /\ "today" \in Called
  BY <1>3 DEF Tracks, Called
<1>6. Shelved(v) /\ (t \in TracksIn(v) \/ Len(v) = EntriesMax)
  BY <1>3, <1>4, <1>5, PutFromGame
<1>7. /\ DOMAIN v = 1 .. Len(v) /\ Len(v) \in Nat
      /\ \A i \in DOMAIN v : v[i].track \in Tracks
  BY <1>6, ShelvedIs
<1>8. Len(v) # 0
  <2>1. CASE Len(v) = EntriesMax
    BY <2>1, ShelfAssumption
  <2>2. CASE t \in TracksIn(v)
    BY <1>7, <2>2 DEF TracksIn
  <2> QED
    BY <1>6, <2>1, <2>2
<1>9. v[1].track \in Tracks
  BY <1>7, <1>8
<1> QED
  BY <1>1, <1>3, <1>6, <1>9 DEF Fresh, FirstTrack

\* The table: a row for each driver on each track over each distance that was driven,
\* with a lap and a race that were driven, and nobody's was better.
Timed == [place : Tracks, laps : Distances, who : Who, lap : Nat, race : Nat]
OneRow(e, d) == IsFor(e, d.place, d.laps, d.who)
LapOf(e, S) == /\ e.lap = 0 \/ \E d \in S : OneRow(e, d) /\ d.lap = e.lap
               /\ \A d \in S : OneRow(e, d) /\ d.lap > 0 => e.lap > 0 /\ e.lap <= d.lap
RaceOf(e, S) == /\ e.race = 0 \/ \E d \in S : OneRow(e, d) /\ d.race = e.race
                /\ \A d \in S : OneRow(e, d) /\ d.race > 0 => e.race > 0 /\ e.race <= d.race
Once(r) == \A i, j \in DOMAIN r : OneRow(r[i], r[j]) => i = j
TableOf(r, S) ==
    /\ r \in Seq(Timed) /\ Once(r)
    /\ \A d \in S : \E i \in DOMAIN r : OneRow(r[i], d)
    /\ \A i \in DOMAIN r : /\ \E d \in S : OneRow(r[i], d)
                           /\ LapOf(r[i], S) /\ RaceOf(r[i], S)
Tabled(r, S) ==
    /\ S \subseteq Timed /\ IsFiniteSet(S)
    /\ Cardinality(Rows(S)) <= RowsMax => TableOf(r, S)

LEMMA RowsFinite ==
  ASSUME NEW S, IsFiniteSet(S)
  PROVE  IsFiniteSet(Rows(S)) /\ Cardinality(Rows(S)) \in Nat
<1> DEFINE T == Rows(S)
           f == [d \in S |-> <<d.place, d.laps, d.who>>]
<1>1. f \in [S -> T] /\ \A x \in T : \E d \in S : f[d] = x
  BY DEF Rows
<1> HIDE DEF T, f
<1>2. f \in Surjection(S, T)
  BY <1>1, Zenon DEF Surjection
<1>3. IsFiniteSet(T)
  BY <1>2, FS_Surjection
<1> QED
  BY <1>3, FS_CardinalityType DEF T

\* As many rows as there are who drove somewhere so far.
LEMMA RowsCounted ==
  ASSUME NEW r, NEW S, TableOf(r, S)
  PROVE  Cardinality(Rows(S)) = Len(r)
<1>1. r \in Seq(Timed)
  BY DEF TableOf
<1>2. PICK n \in Nat : n = Len(r) /\ DOMAIN r = 1 .. n
  BY <1>1
<1> DEFINE T == Rows(S)
           f == [i \in 1 .. n |-> <<r[i].place, r[i].laps, r[i].who>>]
<1>3. ASSUME NEW i \in 1 .. n PROVE f[i] \in T
  <2>1. PICK d \in S : OneRow(r[i], d)
    BY <1>2 DEF TableOf
  <2>2. f[i] = <<d.place, d.laps, d.who>>
    BY <2>1 DEF OneRow, IsFor
  <2> QED
    BY <2>2 DEF Rows
<1>4. ASSUME NEW x \in T PROVE \E i \in 1 .. n : f[i] = x
  <2>1. PICK d \in S : x = <<d.place, d.laps, d.who>>
    BY DEF Rows
  <2>2. PICK i \in 1 .. n : OneRow(r[i], d)
    BY <1>2 DEF TableOf
  <2> QED
    BY <2>1, <2>2 DEF OneRow, IsFor
<1>5. ASSUME NEW i \in 1 .. n, NEW j \in 1 .. n, f[i] = f[j] PROVE i = j
  <2>1. OneRow(r[i], r[j])
    BY <1>5 DEF OneRow, IsFor
  <2> QED
    BY <1>2, <2>1 DEF TableOf, Once
<1>6. f \in [1 .. n -> T]
  BY <1>3
<1> HIDE DEF T, f
<1>7. Cardinality(T) = n
  BY <1>4, <1>5, <1>6, CountedOnce
<1> QED
  BY <1>2, <1>7 DEF T

\* Of two sets of times, one of some of the other's that has one as good as each: the
\* best is the same.
LEMMA SameBest ==
  ASSUME NEW P, NEW Q, Q \subseteq Nat, P \subseteq Q, \A y \in Q : \E x \in P : x <= y
  PROVE  Best(P) = Best(Q)
<1>1. CASE Q = {}
  <2>1. P = {}
    BY <1>1
  <2> QED
    BY <1>1, <2>1
<1>2. CASE Q # {}
  <2>1. P # {}
    BY <1>2
  <2>2. PICK p \in P : \A y \in P : p <= y
    BY <2>1, LeastNat
  <2>3. PICK q \in Q : \A y \in Q : q <= y
    BY <1>2, LeastNat
  <2>4. p \in Nat /\ q \in Nat /\ p \in Q
    OBVIOUS
  <2>5. p = q
    <3>1. PICK x \in P : x <= q
      OBVIOUS
    <3>2. x \in Nat /\ p <= x /\ q <= p
      BY <2>2, <2>3, <2>4
    <3> QED
      BY <2>4, <3>1, <3>2
  <2>6. \A z \in P : (\A y \in P : z <= y) => z = p
    <3>1. ASSUME NEW z \in P, \A y \in P : z <= y PROVE z = p
      <4>1. z \in Nat /\ z <= p /\ p <= z
        BY <2>2, <3>1
      <4> QED
        BY <2>4, <4>1
    <3> QED
      BY <3>1
  <2>7. \A z \in Q : (\A y \in Q : z <= y) => z = q
    <3>1. ASSUME NEW z \in Q, \A y \in Q : z <= y PROVE z = q
      <4>1. z \in Nat /\ z <= q /\ q <= z
        BY <2>3, <3>1
      <4> QED
        BY <2>4, <4>1
    <3> QED
      BY <3>1
  <2>8. Best(P) = p
    BY <2>1, <2>2, <2>6 DEF Best
  <2>9. Best(Q) = q
    BY <1>2, <2>3, <2>7 DEF Best
  <2> QED
    BY <2>5, <2>8, <2>9
<1> QED
  BY <1>1, <1>2

\* gs_records_best_lap and gs_records_best_race of such a table.
TimesAre(r, S, d) ==
    LET at == {e \in S : e.place = d.place}
    IN  /\ BestLap(r, d.place) = Best({e.lap : e \in at} \ {0})
        /\ BestRace(r, d.place, d.laps)
             = Best({e.race : e \in {e \in at : e.laps = d.laps}} \ {0})

LEMMA TimesRight ==
  ASSUME NEW r, NEW S, S \subseteq Timed, TableOf(r, S), NEW d \in S
  PROVE  TimesAre(r, S, d)
<1>1. \A e \in S : e.lap \in Nat /\ e.race \in Nat
  BY DEF Timed
<1>2. \A i \in DOMAIN r : /\ r[i].lap \in Nat /\ r[i].race \in Nat
                          /\ LapOf(r[i], S) /\ RaceOf(r[i], S)
  <2>1. \A i \in DOMAIN r : r[i] \in Timed
    BY DEF TableOf
  <2> QED
    BY <2>1 DEF TableOf, Timed
<1>3. BestLap(r, d.place) = Best({e.lap : e \in {e \in S : e.place = d.place}} \ {0})
  <2> DEFINE P == {r[i].lap : i \in {i \in DOMAIN r : r[i].place = d.place}} \ {0}
             Q == {e.lap : e \in {e \in S : e.place = d.place}} \ {0}
  <2>1. Q \subseteq Nat
    BY <1>1
  <2>2. ASSUME NEW x \in P PROVE x \in Q
    <3>1. PICK i \in DOMAIN r : r[i].place = d.place /\ x = r[i].lap /\ x # 0
      OBVIOUS
    <3>2. PICK e \in S : OneRow(r[i], e) /\ e.lap = x
      BY <1>2, <3>1 DEF LapOf
    <3>3. e.place = d.place
      BY <3>1, <3>2 DEF OneRow, IsFor
    <3> QED
      BY <3>1, <3>2, <3>3
  <2>3. ASSUME NEW y \in Q PROVE \E x \in P : x <= y
    <3>1. PICK e \in S : e.place = d.place /\ y = e.lap /\ y # 0
      OBVIOUS
    <3>2. PICK i \in DOMAIN r : OneRow(r[i], e)
      BY DEF TableOf
    <3>3. y \in Nat /\ e.lap > 0
      BY <1>1, <3>1
    <3>4. r[i].lap > 0 /\ r[i].lap <= y /\ r[i].lap \in Nat
      BY <1>2, <3>1, <3>2, <3>3 DEF LapOf
    <3>5. r[i].place = d.place
      BY <3>1, <3>2 DEF OneRow, IsFor
    <3> QED
      BY <3>4, <3>5
  <2> HIDE DEF P, Q
  <2>4. Best(P) = Best(Q)
    BY <2>1, <2>2, <2>3, SameBest
  <2> QED
    BY <2>4 DEF P, Q, BestLap
<1>4. BestRace(r, d.place, d.laps)
        = Best({e.race : e \in {e \in {e \in S : e.place = d.place} : e.laps = d.laps}} \ {0})
  <2> DEFINE P == {r[i].race : i \in {i \in DOMAIN r : r[i].place = d.place /\ r[i].laps = d.laps}} \ {0}
             Q == {e.race : e \in {e \in {e \in S : e.place = d.place} : e.laps = d.laps}} \ {0}
  <2>1. Q \subseteq Nat
    BY <1>1
  <2>2. ASSUME NEW x \in P PROVE x \in Q
    <3>1. PICK i \in DOMAIN r : /\ r[i].place = d.place /\ r[i].laps = d.laps
                                /\ x = r[i].race /\ x # 0
      OBVIOUS
    <3>2. PICK e \in S : OneRow(r[i], e) /\ e.race = x
      BY <1>2, <3>1 DEF RaceOf
    <3>3. e.place = d.place /\ e.laps = d.laps
      BY <3>1, <3>2 DEF OneRow, IsFor
    <3> QED
      BY <3>1, <3>2, <3>3
  <2>3. ASSUME NEW y \in Q PROVE \E x \in P : x <= y
    <3>1. PICK e \in S : e.place = d.place /\ e.laps = d.laps /\ y = e.race /\ y # 0
      OBVIOUS
    <3>2. PICK i \in DOMAIN r : OneRow(r[i], e)
      BY DEF TableOf
    <3>3. y \in Nat /\ e.race > 0
      BY <1>1, <3>1
    <3>4. r[i].race > 0 /\ r[i].race <= y /\ r[i].race \in Nat
      BY <1>2, <3>1, <3>2, <3>3 DEF RaceOf
    <3>5. r[i].place = d.place /\ r[i].laps = d.laps
      BY <3>1, <3>2 DEF OneRow, IsFor
    <3> QED
      BY <3>4, <3>5
  <2> HIDE DEF P, Q
  <2>4. Best(P) = Best(Q)
    BY <2>1, <2>2, <2>3, SameBest
  <2> QED
    BY <2>4 DEF P, Q, BestRace
<1> QED
  BY <1>3, <1>4 DEF TimesAre

\* gs_find_or_add, when there is a row for it or room: a table with a row for what is to
\* be entered, which may have no time yet.
HasRowFor(u, S, d) ==
    /\ u \in Seq(Timed) /\ Once(u)
    /\ \A x \in S \cup {d} : \E i \in DOMAIN u : OneRow(u[i], x)
    /\ \A i \in DOMAIN u : /\ \E x \in S \cup {d} : OneRow(u[i], x)
                           /\ LapOf(u[i], S) /\ RaceOf(u[i], S)

LEMMA OneRowIs ==
  ASSUME NEW x, NEW y
  PROVE  /\ OneRow(x, y) <=> x.place = y.place /\ x.laps = y.laps /\ x.who = y.who
         /\ OneRow(x, y) <=> IsFor(x, y.place, y.laps, y.who)
BY DEF OneRow, IsFor

LEMMA RowIsThere ==
  ASSUME NEW r, NEW S, S \subseteq Timed, TableOf(r, S), NEW d \in Timed,
         (\E i \in DOMAIN r : OneRow(r[i], d)) \/ Len(r) < RowsMax
  PROVE  HasRowFor(FindOrAdd(r, d.place, d.laps, d.who), S, d)
<1>1. PICK u : u = FindOrAdd(r, d.place, d.laps, d.who)
  OBVIOUS
<1>2. r \in Seq(Timed) /\ DOMAIN r = 1 .. Len(r) /\ Len(r) \in Nat /\ Once(r)
  BY DEF TableOf
<1>3. CASE \E i \in DOMAIN r : OneRow(r[i], d)
  <2>1. u = r
    BY <1>1, <1>3 DEF FindOrAdd, OneRow
  <2> QED
    BY <1>1, <1>3, <2>1 DEF TableOf, HasRowFor
<1>4. CASE ~(\E i \in DOMAIN r : OneRow(r[i], d)) /\ Len(r) < RowsMax
  <2>1. PICK e : e = NewRow(d.place, d.laps, d.who)
    OBVIOUS
  <2>2. /\ e \in Timed /\ e.lap = 0 /\ e.race = 0
        /\ e.place = d.place /\ e.laps = d.laps /\ e.who = d.who
    BY <2>1 DEF NewRow, Timed
  <2>3. u = Append(r, e)
    BY <1>1, <1>4, <2>1 DEF FindOrAdd, OneRow
  <2>4. /\ u \in Seq(Timed) /\ Len(u) = Len(r) + 1 /\ DOMAIN u = 1 .. Len(r) + 1
        /\ u[Len(r) + 1] = e /\ \A i \in DOMAIN r : u[i] = r[i]
    BY <1>2, <2>2, <2>3
  <2>5. PICK n : n = Len(r) + 1
    OBVIOUS
  <2>6. /\ n \in DOMAIN u /\ u[n] = e /\ DOMAIN r \subseteq DOMAIN u /\ n \notin DOMAIN r
        /\ \A i \in DOMAIN u : i = n \/ i \in DOMAIN r
    BY <1>2, <2>4, <2>5
  <2>7. OneRow(u[n], d)
    BY <2>2, <2>6, OneRowIs
  <2>8. \A i \in DOMAIN r : ~OneRow(r[i], e) /\ ~OneRow(e, r[i])
    BY <1>4, <2>2 DEF OneRow, IsFor
  <2>9. Once(u)
    BY <1>2, <2>4, <2>6, <2>8 DEF Once
  <2>10. ASSUME NEW x \in S PROVE ~OneRow(e, x) /\ \E i \in DOMAIN u : OneRow(u[i], x)
    <3>1. PICK i \in DOMAIN r : OneRow(r[i], x)
      BY DEF TableOf
    <3>2. ~OneRow(e, x)
      BY <2>8, <3>1 DEF OneRow, IsFor
    <3> QED
      BY <2>4, <2>6, <3>1, <3>2
  <2>11. LapOf(e, S) /\ RaceOf(e, S)
    BY <2>2, <2>10 DEF LapOf, RaceOf
  <2>12. ASSUME NEW i \in DOMAIN u
         PROVE  /\ \E x \in S \cup {d} : OneRow(u[i], x)
                /\ LapOf(u[i], S) /\ RaceOf(u[i], S)
    <3>1. CASE i = n
      BY <2>6, <2>7, <2>11, <3>1
    <3>2. CASE i # n
      <4>1. i \in DOMAIN r /\ u[i] = r[i]
        BY <2>4, <2>6, <3>2
      <4> QED
        BY <4>1 DEF TableOf
    <3> QED
      BY <3>1, <3>2
  <2>13. \A x \in S \cup {d} : \E i \in DOMAIN u : OneRow(u[i], x)
    BY <2>6, <2>7, <2>10
  <2> QED
    BY <1>1, <2>4, <2>9, <2>12, <2>13 DEF HasRowFor
<1> QED
  BY <1>3, <1>4

\* A row that takes what is better than it has has the best of that too; another's row
\* has what it had.
LEMMA BetterLap ==
  ASSUME NEW S, NEW d, NEW e, NEW f, LapOf(e, S), e.lap \in Nat, d.lap \in Nat,
         \A x \in S : x.lap \in Nat, \A x : OneRow(f, x) <=> OneRow(e, x),
         f.lap = IF OneRow(e, d) /\ Faster(d.lap, e.lap) THEN d.lap ELSE e.lap
  PROVE  LapOf(f, S \cup {d})
<1>1. CASE OneRow(e, d) /\ Faster(d.lap, e.lap)
  <2>1. f.lap = d.lap /\ d.lap > 0 /\ (e.lap = 0 \/ d.lap < e.lap)
    BY <1>1 DEF Faster
  <2>2. ASSUME NEW x \in S \cup {d}, OneRow(f, x), x.lap > 0 PROVE f.lap > 0 /\ f.lap <= x.lap
    <3>1. CASE x \in S
      <4>1. e.lap > 0 /\ e.lap <= x.lap /\ x.lap \in Nat
        BY <2>2, <3>1 DEF LapOf
      <4> QED
        BY <2>1, <4>1
    <3>2. CASE x = d
      BY <2>1, <3>2
    <3> QED
      BY <3>1, <3>2
  <2> QED
    BY <1>1, <2>1, <2>2 DEF LapOf
<1>2. CASE ~(OneRow(e, d) /\ Faster(d.lap, e.lap))
  <2>1. f.lap = e.lap
    BY <1>2
  <2>2. ASSUME NEW x \in S \cup {d}, OneRow(f, x), x.lap > 0 PROVE f.lap > 0 /\ f.lap <= x.lap
    <3>1. CASE x \in S
      BY <2>1, <2>2, <3>1 DEF LapOf
    <3>2. CASE x = d
      <4>1. ~Faster(d.lap, e.lap) /\ d.lap > 0
        BY <1>2, <2>2, <3>2
      <4>2. e.lap # 0 /\ ~(d.lap < e.lap)
        BY <4>1 DEF Faster
      <4> QED
        BY <2>1, <3>2, <4>2
    <3> QED
      BY <3>1, <3>2
  <2>3. f.lap = 0 \/ \E x \in S \cup {d} : OneRow(f, x) /\ x.lap = f.lap
    BY <2>1 DEF LapOf
  <2> QED
    BY <2>2, <2>3 DEF LapOf
<1> QED
  BY <1>1, <1>2

LEMMA BetterRace ==
  ASSUME NEW S, NEW d, NEW e, NEW f, RaceOf(e, S), e.race \in Nat, d.race \in Nat,
         \A x \in S : x.race \in Nat, \A x : OneRow(f, x) <=> OneRow(e, x),
         f.race = IF OneRow(e, d) /\ Faster(d.race, e.race) THEN d.race ELSE e.race
  PROVE  RaceOf(f, S \cup {d})
<1>1. CASE OneRow(e, d) /\ Faster(d.race, e.race)
  <2>1. f.race = d.race /\ d.race > 0 /\ (e.race = 0 \/ d.race < e.race)
    BY <1>1 DEF Faster
  <2>2. ASSUME NEW x \in S \cup {d}, OneRow(f, x), x.race > 0
        PROVE  f.race > 0 /\ f.race <= x.race
    <3>1. CASE x \in S
      <4>1. e.race > 0 /\ e.race <= x.race /\ x.race \in Nat
        BY <2>2, <3>1 DEF RaceOf
      <4> QED
        BY <2>1, <4>1
    <3>2. CASE x = d
      BY <2>1, <3>2
    <3> QED
      BY <3>1, <3>2
  <2> QED
    BY <1>1, <2>1, <2>2 DEF RaceOf
<1>2. CASE ~(OneRow(e, d) /\ Faster(d.race, e.race))
  <2>1. f.race = e.race
    BY <1>2
  <2>2. ASSUME NEW x \in S \cup {d}, OneRow(f, x), x.race > 0
        PROVE  f.race > 0 /\ f.race <= x.race
    <3>1. CASE x \in S
      BY <2>1, <2>2, <3>1 DEF RaceOf
    <3>2. CASE x = d
      <4>1. ~Faster(d.race, e.race) /\ d.race > 0
        BY <1>2, <2>2, <3>2
      <4>2. e.race # 0 /\ ~(d.race < e.race)
        BY <4>1 DEF Faster
      <4> QED
        BY <2>1, <3>2, <4>2
    <3> QED
      BY <3>1, <3>2
  <2>3. f.race = 0 \/ \E x \in S \cup {d} : OneRow(f, x) /\ x.race = f.race
    BY <2>1 DEF RaceOf
  <2> QED
    BY <2>2, <2>3 DEF RaceOf
<1> QED
  BY <1>1, <1>2

\* gs_records_submit.
LEMMA SubmitIs ==
  ASSUME NEW r, NEW S, S \subseteq Timed, TableOf(r, S), NEW d \in Timed,
         (\E i \in DOMAIN r : OneRow(r[i], d)) \/ Len(r) < RowsMax
  PROVE  TableOf(Submit(r, d.place, d.laps, d.who, d.lap, d.race), S \cup {d})
<1>1. PICK u : u = FindOrAdd(r, d.place, d.laps, d.who)
  OBVIOUS
<1>2. PICK v : v = Submit(r, d.place, d.laps, d.who, d.lap, d.race)
  OBVIOUS
<1> DEFINE better(e) == [e EXCEPT !.lap = IF Faster(d.lap, @) THEN d.lap ELSE @,
                                  !.race = IF Faster(d.race, @) THEN d.race ELSE @]
<1>3. v = [i \in DOMAIN u |-> IF IsFor(u[i], d.place, d.laps, d.who) THEN better(u[i]) ELSE u[i]]
  BY <1>1, <1>2 DEF Submit
<1>4. HasRowFor(u, S, d)
  BY <1>1, RowIsThere
<1>5. u \in Seq(Timed) /\ DOMAIN u = 1 .. Len(u) /\ Len(u) \in Nat
  BY <1>4 DEF HasRowFor
<1>6. d.lap \in Nat /\ d.race \in Nat /\ \A x \in S : x.lap \in Nat /\ x.race \in Nat
  BY DEF Timed
<1>7. ASSUME NEW i \in DOMAIN u
      PROVE  /\ v[i] \in Timed
             /\ v[i].place = u[i].place /\ v[i].laps = u[i].laps /\ v[i].who = u[i].who
             /\ v[i].lap = IF OneRow(u[i], d) /\ Faster(d.lap, u[i].lap)
                           THEN d.lap ELSE u[i].lap
             /\ v[i].race = IF OneRow(u[i], d) /\ Faster(d.race, u[i].race)
                            THEN d.race ELSE u[i].race
             /\ u[i].lap \in Nat /\ u[i].race \in Nat
  <2>1. PICK e : e = u[i]
    OBVIOUS
  <2>2. e \in Timed /\ e.lap \in Nat /\ e.race \in Nat
    <3>1. e \in Timed
      BY <1>5, <2>1
    <3> QED
      BY <3>1 DEF Timed
  <2>3. CASE OneRow(e, d)
    <3>1. v[i] = better(e)
      BY <1>3, <2>1, <2>3, OneRowIs
    <3>2. PICK x, y : /\ x = IF Faster(d.lap, e.lap) THEN d.lap ELSE e.lap
                      /\ y = IF Faster(d.race, e.race) THEN d.race ELSE e.race
      OBVIOUS
    <3>3. x \in Nat /\ y \in Nat
      BY <1>6, <2>2, <3>2
    <3>4. v[i] = [e EXCEPT !.lap = x, !.race = y]
      BY <3>1, <3>2
    <3>5. /\ v[i] \in Timed /\ v[i].lap = x /\ v[i].race = y
          /\ v[i].place = e.place /\ v[i].laps = e.laps /\ v[i].who = e.who
      BY <2>2, <3>3, <3>4 DEF Timed
    <3> QED
      BY <2>1, <2>2, <2>3, <3>2, <3>5
  <2>4. CASE ~OneRow(e, d)
    <3>1. v[i] = e
      BY <1>3, <2>1, <2>4, OneRowIs
    <3> QED
      BY <2>1, <2>2, <2>4, <3>1
  <2> QED
    BY <2>3, <2>4
<1>8. DOMAIN v = DOMAIN u /\ v \in Seq(Timed)
  <2>1. DOMAIN v = 1 .. Len(u) /\ v \in [1 .. Len(u) -> Timed]
    BY <1>3, <1>5, <1>7
  <2> QED
    BY <1>5, <2>1
<1> HIDE DEF better
<1>9. \A i \in DOMAIN u : \A x : OneRow(v[i], x) <=> OneRow(u[i], x)
  BY <1>7, OneRowIs
<1>10. Once(v)
  <2>1. ASSUME NEW i \in DOMAIN u, NEW j \in DOMAIN u, OneRow(v[i], v[j]) PROVE i = j
    <3>1. OneRow(u[i], u[j])
      BY <1>7, <2>1, OneRowIs
    <3> QED
      BY <1>4, <3>1 DEF HasRowFor, Once
  <2> QED
    BY <1>8, <2>1 DEF Once
<1>11. ASSUME NEW i \in DOMAIN v
       PROVE  /\ \E x \in S \cup {d} : OneRow(v[i], x)
              /\ LapOf(v[i], S \cup {d}) /\ RaceOf(v[i], S \cup {d})
  <2>1. i \in DOMAIN u
    BY <1>8
  <2>2. (\E x \in S \cup {d} : OneRow(u[i], x)) /\ LapOf(u[i], S) /\ RaceOf(u[i], S)
    BY <1>4, <2>1 DEF HasRowFor
  <2>3. PICK e, f : e = u[i] /\ f = v[i]
    OBVIOUS
  <2>4. /\ \A x : OneRow(f, x) <=> OneRow(e, x)
        /\ f.lap = IF OneRow(e, d) /\ Faster(d.lap, e.lap) THEN d.lap ELSE e.lap
        /\ f.race = IF OneRow(e, d) /\ Faster(d.race, e.race) THEN d.race ELSE e.race
        /\ LapOf(e, S) /\ RaceOf(e, S) /\ e.lap \in Nat /\ e.race \in Nat
    BY <1>7, <1>9, <2>1, <2>2, <2>3
  <2>5. LapOf(f, S \cup {d})
    BY <1>6, <2>4, BetterLap
  <2>6. RaceOf(f, S \cup {d})
    BY <1>6, <2>4, BetterRace
  <2> QED
    BY <1>9, <2>1, <2>2, <2>3, <2>5, <2>6
<1>12. \A x \in S \cup {d} : \E i \in DOMAIN v : OneRow(v[i], x)
  BY <1>4, <1>8, <1>9 DEF HasRowFor
<1> QED
  BY <1>2, <1>8, <1>10, <1>11, <1>12 DEF TableOf

\* A result comes to what was driven: the table is right of that, if it was and has room.
LEMMA OneMore ==
  ASSUME NEW r, NEW S, Tabled(r, S), NEW d \in Timed
  PROVE  Tabled(Submit(r, d.place, d.laps, d.who, d.lap, d.race), S \cup {d})
<1>1. S \subseteq Timed /\ IsFiniteSet(S)
  BY DEF Tabled
<1>2. IsFiniteSet(S \cup {d}) /\ S \cup {d} \subseteq Timed
  BY <1>1, FS_AddElement
<1>3. PICK k : k = <<d.place, d.laps, d.who>>
  OBVIOUS
<1>4. Rows(S \cup {d}) = Rows(S) \cup {k}
  BY <1>3 DEF Rows
<1>5. IsFiniteSet(Rows(S)) /\ Cardinality(Rows(S)) \in Nat
  BY <1>1, RowsFinite
<1>6. k \notin Rows(S) => Cardinality(Rows(S) \cup {k}) = Cardinality(Rows(S)) + 1
  BY <1>5, FS_AddElement
<1>7. ASSUME Cardinality(Rows(S \cup {d})) <= RowsMax
      PROVE  TableOf(Submit(r, d.place, d.laps, d.who, d.lap, d.race), S \cup {d})
  <2>1. CASE k \in Rows(S)
    <3>1. Rows(S \cup {d}) = Rows(S)
      BY <1>4, <2>1
    <3>2. TableOf(r, S)
      BY <1>7, <3>1 DEF Tabled
    <3>3. PICK x \in S : k = <<x.place, x.laps, x.who>>
      BY <2>1 DEF Rows
    <3>4. PICK i \in DOMAIN r : OneRow(r[i], x)
      BY <3>2 DEF TableOf
    <3>5. OneRow(r[i], d)
      BY <1>3, <3>3, <3>4 DEF OneRow, IsFor
    <3> QED
      BY <1>1, <3>2, <3>5, SubmitIs
  <2>2. CASE k \notin Rows(S)
    <3>1. PICK m \in Nat : m = Cardinality(Rows(S))
      BY <1>5
    <3>2. m + 1 <= RowsMax
      BY <1>4, <1>6, <1>7, <2>2, <3>1
    <3>3. m <= RowsMax /\ m < RowsMax
      BY <3>2, ShelfAssumption
    <3>4. TableOf(r, S)
      BY <3>1, <3>3 DEF Tabled
    <3>5. Len(r) = m
      BY <3>1, <3>4, RowsCounted
    <3>6. Len(r) < RowsMax
      BY <3>3, <3>5
    <3> QED
      BY <1>1, <3>4, <3>6, SubmitIs
  <2> QED
    BY <2>1, <2>2
<1> QED
  BY <1>2, <1>7 DEF Tabled

\* What is on the machine, or in the file, and what there is to show for it.
Person == [name : Who, races : Nat]
Staff == Seq(Person)
KeptAs(ls, bs, ds, mine, results) ==
    /\ Shelved(ls) /\ mine \ Shippable \subseteq OwnIn(ls)
    /\ ds \in Staff /\ Tabled(bs, results)

ShelfInv ==
    /\ ships \in Versions /\ day \in Days
    /\ made = [here |-> made.here, saved |-> made.saved]
    /\ driven = [here |-> driven.here, saved |-> driven.saved]
    /\ on => loaded \in Tracks
    /\ KeptAs(lib, table, drivers, made.here, driven.here)
    /\ KeptAs(disk.lib, disk.table, disk.drivers, made.saved, driven.saved)
    /\ ~disk.there => made.saved = {} /\ driven.saved = {}

\* A machine on which nothing was done yet.
LEMMA NothingKept ==
  KeptAs(<<>>, <<>>, <<>>, {}, {})
<1>1. Shelved(<<>>)
  BY ShelfAssumption DEF Shelved, NoneTwice
<1>2. IsFiniteSet({})
  BY FS_EmptySet
<1>3. TableOf(<<>>, {})
  BY DEF TableOf, Once
<1>4. <<>> \in Staff
  BY DEF Staff
<1> QED
  BY <1>1, <1>2, <1>3, <1>4 DEF KeptAs, Tabled

LEMMA ShelfBegins == ShelfInit => ShelfInv
BY NothingKept, ShelfAssumption DEF ShelfInit, ShelfInv, NoFile

\* gs_store_save.
LEMMA WrittenDown ==
  ASSUME ShelfInv, NEW ls, NEW bs, NEW ds, NEW mine, NEW results, NEW changed,
         KeptAs(ls, bs, ds, mine, results), WriteStore(ls, bs, ds, mine, results, changed)
  PROVE  /\ made' = [here |-> mine, saved |-> made'.saved]
         /\ driven' = [here |-> results, saved |-> driven'.saved]
         /\ KeptAs(disk'.lib, disk'.table, disk'.drivers, made'.saved, driven'.saved)
         /\ ~disk'.there => made'.saved = {} /\ driven'.saved = {}
<1>1. CASE /\ disk' = [there |-> TRUE, drivers |-> ds, table |-> bs, lib |-> ls]
           /\ made' = [here |-> mine, saved |-> mine]
           /\ driven' = [here |-> results, saved |-> results]
  <2>1. /\ disk'.there = TRUE /\ disk'.drivers = ds /\ disk'.table = bs /\ disk'.lib = ls
        /\ made'.saved = mine /\ driven'.saved = results
    BY <1>1
  <2> QED
    BY <1>1, <2>1
<1>2. CASE /\ made' = [made EXCEPT !.here = mine] /\ driven' = [driven EXCEPT !.here = results]
           /\ UNCHANGED disk
  <2>1. /\ made = [here |-> made.here, saved |-> made.saved]
        /\ driven = [here |-> driven.here, saved |-> driven.saved]
    BY DEF ShelfInv
  <2>2. /\ made' = [here |-> mine, saved |-> made.saved]
        /\ driven' = [here |-> results, saved |-> driven.saved]
    BY <1>2, <2>1
  <2>3. made'.saved = made.saved /\ driven'.saved = driven.saved
    BY <2>2
  <2> QED
    BY <1>2, <2>2, <2>3 DEF ShelfInv
<1> QED
  BY <1>1, <1>2 DEF WriteStore

\* Starting: the file, or nothing, and what ships over that.
LEMMA StartKeeps ==
  ASSUME ShelfInv, Start
  PROVE  ShelfInv'
<1>1. ships \in Versions /\ day \in Days /\ ships' = ships /\ day' = day /\ disk' = disk
  BY DEF ShelfInv, Start
<1>2. ships \in Seq(Tracks) /\ Shelved(Fresh) /\ FirstTrack \in Tracks
  BY <1>1, FreshIs
<1>3. PICK l : l = ReadStore.lib
  OBVIOUS
<1>4. Shelved(l) /\ made.saved \ Shippable \subseteq OwnIn(l)
  <2>1. CASE disk.there
    <3>1. l = disk.lib
      BY <1>3, <2>1 DEF ReadStore
    <3> QED
      BY <3>1 DEF ShelfInv, KeptAs
  <2>2. CASE ~disk.there
    <3>1. l = Fresh /\ made.saved = {}
      BY <1>3, <2>2 DEF ReadStore, ShelfInv
    <3> QED
      BY <1>2, <3>1
  <2> QED
    BY <2>1, <2>2
<1>5. ReadStore.drivers \in Staff /\ Tabled(ReadStore.table, driven.saved)
  <2>1. CASE disk.there
    <3>1. ReadStore.drivers = disk.drivers /\ ReadStore.table = disk.table
      BY <2>1 DEF ReadStore
    <3> QED
      BY <3>1 DEF ShelfInv, KeptAs
  <2>2. CASE ~disk.there
    <3>1. ReadStore.drivers = <<>> /\ ReadStore.table = <<>> /\ driven.saved = {}
      BY <2>2 DEF ReadStore, ShelfInv
    <3> QED
      BY <3>1, NothingKept DEF KeptAs
  <2> QED
    BY <2>1, <2>2
<1>6. Shelved(Sync(l)) /\ OwnIn(l) \ ToSet(ships) \subseteq OwnIn(Sync(l))
  BY <1>2, <1>4, SyncIs
<1>7. ToSet(ships) \subseteq Shippable
  BY <1>1 DEF Shippable
<1>8. made.saved \ Shippable \subseteq OwnIn(Sync(l))
  BY <1>4, <1>6, <1>7
<1>9. /\ lib' = Sync(l) /\ table' = ReadStore.table /\ drivers' = ReadStore.drivers
      /\ loaded' = FirstTrack
      /\ made' = [made EXCEPT !.here = made.saved]
      /\ driven' = [driven EXCEPT !.here = driven.saved]
  BY <1>3 DEF Start
<1>10. /\ made' = [here |-> made.saved, saved |-> made.saved]
       /\ driven' = [here |-> driven.saved, saved |-> driven.saved]
  BY <1>9 DEF ShelfInv
<1>11. /\ made'.here = made.saved /\ made'.saved = made.saved
       /\ driven'.here = driven.saved /\ driven'.saved = driven.saved
  BY <1>10
<1>12. KeptAs(lib', table', drivers', made'.here, driven'.here)
  BY <1>5, <1>6, <1>8, <1>9, <1>11 DEF KeptAs
<1> QED
  BY <1>1, <1>2, <1>9, <1>10, <1>11, <1>12 DEF ShelfInv

\* What is done to the library alone.
LEMMA LibraryKeeps ==
  ASSUME ShelfInv, loaded' \in Tracks, Shelved(lib'),
         NEW mine, mine \ Shippable \subseteq OwnIn(lib'),
         made' = [made EXCEPT !.here = mine],
         UNCHANGED <<ships, day, on, table, drivers, disk, driven>>
  PROVE  ShelfInv'
<1>1. made' = [here |-> mine, saved |-> made.saved]
  BY DEF ShelfInv
<1>2. made'.here = mine /\ made'.saved = made.saved
  BY <1>1
<1>3. KeptAs(lib', table', drivers', made'.here, driven'.here)
  BY <1>2 DEF ShelfInv, KeptAs
<1> QED
  BY <1>1, <1>2, <1>3 DEF ShelfInv

LEMMA MadeSame ==
  ASSUME ShelfInv, UNCHANGED made
  PROVE  made' = [made EXCEPT !.here = made.here]
BY DEF ShelfInv

LEMMA TakeKeeps ==
  ASSUME ShelfInv, NEW i \in DOMAIN lib, Take(i)
  PROVE  ShelfInv'
<1>1. Shelved(lib)
  BY DEF ShelfInv, KeptAs
<1>2. lib[i].track \in Tracks
  BY <1>1, ShelvedIs
<1> QED
  BY <1>2 DEF Take, ShelfInv

LEMMA EditCopyKeeps ==
  ASSUME ShelfInv, NEW i \in DOMAIN lib, EditCopy(i)
  PROVE  ShelfInv'
<1>1. Shelved(lib) /\ made.here \ Shippable \subseteq OwnIn(lib)
  BY DEF ShelfInv, KeptAs
<1>2. lib[i].track \in Tracks /\ "copy" \in Called
  BY <1>1, ShelvedIs DEF Called
<1>3. /\ lib' = Put(lib, lib[i].track, "copy") /\ loaded' = lib[i].track
      /\ UNCHANGED <<ships, day, on, table, drivers, disk, driven>> /\ UNCHANGED made
  BY DEF EditCopy, Builds
<1>4. Shelved(lib') /\ OwnIn(lib) \subseteq OwnIn(lib')
  BY <1>1, <1>2, <1>3, PutHere
<1>5. made' = [made EXCEPT !.here = made.here]
  BY <1>3, MadeSame
<1> QED
  BY <1>1, <1>2, <1>3, <1>4, <1>5, LibraryKeeps

LEMMA EditKeeps ==
  ASSUME ShelfInv, NEW t \in Own, Edit(t)
  PROVE  ShelfInv'
<1>1. t \in Tracks
  BY DEF Tracks
<1> QED
  BY <1>1 DEF Edit, Builds, ShelfInv

LEMMA KeepThisOneKeeps ==
  ASSUME ShelfInv, KeepThisOne
  PROVE  ShelfInv'
<1>1. /\ Shelved(lib) /\ made.here \ Shippable \subseteq OwnIn(lib)
      /\ loaded \in Tracks /\ "untitled" \in Called
  BY DEF ShelfInv, KeptAs, KeepThisOne, Builds, Called
<1>2. PICK mine : mine = IF loaded \in OwnIn(lib') THEN made.here \cup {loaded} ELSE made.here
  OBVIOUS
<1>3. /\ lib' = Put(lib, loaded, "untitled") /\ loaded' = loaded
      /\ made' = [made EXCEPT !.here = mine]
      /\ UNCHANGED <<ships, day, on, table, drivers, disk, driven>>
  BY <1>2 DEF KeepThisOne, Builds
<1>4. Shelved(lib') /\ OwnIn(lib) \subseteq OwnIn(lib')
  BY <1>1, <1>3, PutHere
<1>5. mine \ Shippable \subseteq OwnIn(lib')
  BY <1>1, <1>2, <1>4
<1> QED
  BY <1>1, <1>3, <1>4, <1>5, LibraryKeeps

LEMMA RenameKeeps ==
  ASSUME ShelfInv, NEW i \in DOMAIN lib, Rename(i)
  PROVE  ShelfInv'
<1>1. Shelved(lib) /\ made.here \ Shippable \subseteq OwnIn(lib) /\ loaded \in Tracks
  BY DEF ShelfInv, KeptAs, Rename, Builds
<1>2. lib[i].track \in Tracks /\ "mine" \in Called
  BY <1>1, ShelvedIs DEF Called
<1>3. /\ lib' = Put(lib, lib[i].track, "mine") /\ loaded' = loaded
      /\ UNCHANGED <<ships, day, on, table, drivers, disk, driven>> /\ UNCHANGED made
  BY DEF Rename, Builds
<1>4. Shelved(lib') /\ OwnIn(lib) \subseteq OwnIn(lib')
  BY <1>1, <1>2, <1>3, PutHere
<1>5. made' = [made EXCEPT !.here = made.here]
  BY <1>3, MadeSame
<1> QED
  BY <1>1, <1>3, <1>4, <1>5, LibraryKeeps

LEMMA DeleteTrackKeeps ==
  ASSUME ShelfInv, NEW i \in DOMAIN lib, DeleteTrack(i)
  PROVE  ShelfInv'
<1>1. Shelved(lib) /\ made.here \ Shippable \subseteq OwnIn(lib) /\ loaded \in Tracks
  BY DEF ShelfInv, KeptAs, DeleteTrack, Builds
<1>2. PICK t, mine : t = lib[i].track /\ mine = made.here \ {t}
  OBVIOUS
<1>3. /\ lib' = Without(lib, t) /\ loaded' = loaded
      /\ made' = [made EXCEPT !.here = mine]
      /\ UNCHANGED <<ships, day, on, table, drivers, disk, driven>>
  BY <1>2 DEF DeleteTrack, Builds
<1>4. Shelved(lib') /\ OwnIn(lib) \ {t} \subseteq OwnIn(lib')
  BY <1>1, <1>3, WithoutIs
<1>5. mine \ Shippable \subseteq OwnIn(lib')
  BY <1>1, <1>2, <1>4
<1> QED
  BY <1>1, <1>3, <1>4, <1>5, LibraryKeeps

LEMMA AddDriverKeeps ==
  ASSUME ShelfInv, NEW w \in Who, AddDriver(w)
  PROVE  ShelfInv'
<1>1. drivers \in Staff /\ KeptAs(lib, table, drivers, made.here, driven.here)
  BY DEF ShelfInv, KeptAs
<1>2. drivers' \in Staff
  <2>1. PICK e : e = [name |-> w, races |-> 0]
    OBVIOUS
  <2>2. drivers' = Append(drivers, e) /\ e \in Person
    BY <2>1 DEF AddDriver, Person
  <2> QED
    BY <1>1, <2>2 DEF Staff
<1>3. UNCHANGED <<ships, day, on, lib, table, loaded, disk, made, driven>>
  BY DEF AddDriver
<1>4. KeptAs(lib', table', drivers', made'.here, driven'.here)
  BY <1>1, <1>2, <1>3 DEF KeptAs
<1> QED
  BY <1>3, <1>4 DEF ShelfInv

LEMMA RaceKeeps ==
  ASSUME ShelfInv, NEW i \in DOMAIN drivers, NEW laps \in Distances, NEW d \in Results,
         Race(i, laps, d[1], d[2])
  PROVE  ShelfInv'
<1>1. /\ drivers \in Staff /\ loaded \in Tracks
      /\ KeptAs(lib, table, drivers, made.here, driven.here)
  BY DEF ShelfInv, KeptAs, Race
<1>2. DOMAIN drivers = 1 .. Len(drivers) /\ Len(drivers) \in Nat
      /\ drivers[i] \in Person
  BY <1>1 DEF Staff
<1>3. d[1] \in Nat /\ d[2] \in Nat
  BY ShelfAssumption
<1>4. PICK who, rows, people, result :
         /\ who = drivers[i].name
         /\ rows = Submit(table, loaded, laps, who, d[1], d[2])
         /\ people = [drivers EXCEPT ![i].races = @ + 1]
         /\ result = [place |-> loaded, laps |-> laps, who |-> who,
                      lap |-> d[1], race |-> d[2]]
  OBVIOUS
<1>5. /\ result \in Timed /\ result.place = loaded /\ result.laps = laps
      /\ result.who = who /\ result.lap = d[1] /\ result.race = d[2]
  BY <1>1, <1>2, <1>3, <1>4 DEF Timed, Person
<1>6. Tabled(rows, driven.here \cup {result})
  <2>1. rows = Submit(table, result.place, result.laps, result.who, result.lap, result.race)
    BY <1>4, <1>5
  <2>2. Tabled(table, driven.here)
    BY <1>1 DEF KeptAs
  <2> QED
    BY <1>5, <2>1, <2>2, OneMore
<1>7. people \in Staff
  <2>1. PICK e : e = [drivers[i] EXCEPT !.races = @ + 1]
    OBVIOUS
  <2>2. e \in Person
    BY <1>2, <2>1 DEF Person
  <2>3. people = [drivers EXCEPT ![i] = e]
    BY <1>4, <2>1
  <2> QED
    BY <1>1, <2>2, <2>3 DEF Staff
<1>8. KeptAs(lib, rows, people, made.here, driven.here \cup {result})
  BY <1>1, <1>6, <1>7 DEF KeptAs
<1>9. /\ table' = rows /\ drivers' = people
      /\ WriteStore(lib, rows, people, made.here, driven.here \cup {result}, TRUE)
      /\ UNCHANGED <<ships, day, on, lib, loaded>>
  BY <1>4 DEF Race
<1>10. /\ made' = [here |-> made.here, saved |-> made'.saved]
       /\ driven' = [here |-> driven.here \cup {result}, saved |-> driven'.saved]
       /\ KeptAs(disk'.lib, disk'.table, disk'.drivers, made'.saved, driven'.saved)
       /\ ~disk'.there => made'.saved = {} /\ driven'.saved = {}
  BY <1>8, <1>9, WrittenDown
<1>11. made'.here = made.here /\ driven'.here = driven.here \cup {result}
  BY <1>10
<1> QED
  BY <1>8, <1>9, <1>10, <1>11 DEF ShelfInv

LEMMA ChangeScreenKeeps ==
  ASSUME ShelfInv, ChangeScreen
  PROVE  ShelfInv'
<1>1. KeptAs(lib, table, drivers, made.here, driven.here)
  BY DEF ShelfInv
<1>2. /\ WriteStore(lib, table, drivers, made.here, driven.here, dirty)
      /\ UNCHANGED <<ships, day, on, lib, table, drivers, loaded>>
  BY DEF ChangeScreen
<1>3. /\ made' = [here |-> made.here, saved |-> made'.saved]
      /\ driven' = [here |-> driven.here, saved |-> driven'.saved]
      /\ KeptAs(disk'.lib, disk'.table, disk'.drivers, made'.saved, driven'.saved)
      /\ ~disk'.there => made'.saved = {} /\ driven'.saved = {}
  BY <1>1, <1>2, WrittenDown
<1>4. made'.here = made.here /\ driven'.here = driven.here
  BY <1>3
<1> QED
  BY <1>1, <1>2, <1>3, <1>4 DEF ShelfInv

\* The game has gone, and what it had with it.
LEMMA GoneKeeps ==
  ASSUME ShelfInv, Gone, UNCHANGED <<ships, day>>, NEW mine, NEW results,
         made' = [here |-> {}, saved |-> mine], driven' = [here |-> {}, saved |-> results],
         KeptAs(disk'.lib, disk'.table, disk'.drivers, mine, results),
         ~disk'.there => mine = {} /\ results = {}
  PROVE  ShelfInv'
<1>1. /\ made'.here = {} /\ made'.saved = mine /\ driven'.here = {} /\ driven'.saved = results
  OBVIOUS
<1>2. KeptAs(lib', table', drivers', made'.here, driven'.here)
  BY <1>1, NothingKept DEF Gone
<1> QED
  BY <1>1, <1>2 DEF ShelfInv, Gone

LEMMA QuitKeeps ==
  ASSUME ShelfInv, Quit
  PROVE  ShelfInv'
<1>1. /\ KeptAs(lib, table, drivers, made.here, driven.here)
      /\ KeptAs(disk.lib, disk.table, disk.drivers, made.saved, driven.saved)
      /\ ~disk.there => made.saved = {} /\ driven.saved = {}
      /\ made = [here |-> made.here, saved |-> made.saved]
      /\ driven = [here |-> driven.here, saved |-> driven.saved]
  BY DEF ShelfInv
<1>2. Gone /\ UNCHANGED <<ships, day>>
  BY DEF Quit
<1>3. CASE /\ disk' = [there |-> TRUE, drivers |-> drivers, table |-> table, lib |-> lib]
           /\ made' = [here |-> {}, saved |-> made.here]
           /\ driven' = [here |-> {}, saved |-> driven.here]
  <2>1. /\ disk'.there = TRUE /\ disk'.drivers = drivers /\ disk'.table = table
        /\ disk'.lib = lib
    BY <1>3
  <2> QED
    BY <1>1, <1>2, <1>3, <2>1, GoneKeeps
<1>4. CASE /\ made' = [made EXCEPT !.here = {}] /\ driven' = [driven EXCEPT !.here = {}]
           /\ UNCHANGED disk
  <2>1. /\ made' = [here |-> {}, saved |-> made.saved]
        /\ driven' = [here |-> {}, saved |-> driven.saved]
    BY <1>1, <1>4
  <2> QED
    BY <1>1, <1>2, <1>4, <2>1, GoneKeeps
<1> QED
  BY <1>3, <1>4 DEF Quit

\* The power goes: some tracks of the file are lost, or the file is.
LEMMA TornKeeps ==
  ASSUME ShelfInv, Torn
  PROVE  ShelfInv'
<1>1. /\ KeptAs(lib, table, drivers, made.here, driven.here)
      /\ Gone /\ UNCHANGED <<ships, day>>
  BY DEF ShelfInv, Torn
<1>2. CASE \E k \in 0 .. Len(lib) - 1 :
             disk' = [there |-> TRUE, drivers |-> drivers, table |-> table,
                      lib |-> SubSeq(lib, 1, k)]
  <2>1. PICK k \in 0 .. Len(lib) - 1 :
             disk' = [there |-> TRUE, drivers |-> drivers, table |-> table,
                      lib |-> SubSeq(lib, 1, k)]
    BY <1>2
  <2>2. PICK l : l = SubSeq(lib, 1, k)
    OBVIOUS
  <2>3. Shelved(l)
    BY <1>1, <2>2, FirstShelved DEF KeptAs
  <2>4. /\ disk'.there = TRUE /\ disk'.drivers = drivers /\ disk'.table = table
        /\ disk'.lib = l
    BY <2>1, <2>2
  <2>5. KeptAs(l, table, drivers, {}, driven.here)
    BY <1>1, <2>3 DEF KeptAs
  <2>6. made' = [here |-> {}, saved |-> {}] /\ driven' = [here |-> {}, saved |-> driven.here]
    BY <2>4 DEF Torn
  <2> QED
    BY <1>1, <2>4, <2>5, <2>6, GoneKeeps
<1>3. CASE disk' = NoFile
  <2>1. /\ disk'.there = FALSE /\ disk'.drivers = <<>> /\ disk'.table = <<>>
        /\ disk'.lib = <<>>
    BY <1>3 DEF NoFile
  <2>2. made' = [here |-> {}, saved |-> {}] /\ driven' = [here |-> {}, saved |-> {}]
    BY <2>1 DEF Torn
  <2> QED
    BY <1>1, <2>1, <2>2, NothingKept, GoneKeeps
<1> QED
  BY <1>2, <1>3 DEF Torn

LEMMA TimeGoesByKeeps ==
  ASSUME ShelfInv, TimeGoesBy
  PROVE  ShelfInv'
BY DEF ShelfInv, TimeGoesBy, KeptAs

LEMMA ShelfSteps ==
  ASSUME ShelfInv, [ShelfNext]_shelfVars
  PROVE  ShelfInv'
<1>1. CASE Start
  BY <1>1, StartKeeps
<1>2. CASE \E i \in DOMAIN lib : Take(i) \/ EditCopy(i) \/ Rename(i) \/ DeleteTrack(i)
  BY <1>2, TakeKeeps, EditCopyKeeps, RenameKeeps, DeleteTrackKeeps
<1>3. CASE \E t \in Own : Edit(t)
  BY <1>3, EditKeeps
<1>4. CASE KeepThisOne
  BY <1>4, KeepThisOneKeeps
<1>5. CASE \E w \in Who : AddDriver(w)
  BY <1>5, AddDriverKeeps
<1>6. CASE \E i \in DOMAIN drivers, laps \in Distances, d \in Results :
             Race(i, laps, d[1], d[2])
  BY <1>6, RaceKeeps
<1>7. CASE ChangeScreen
  BY <1>7, ChangeScreenKeeps
<1>8. CASE Quit
  BY <1>8, QuitKeeps
<1>9. CASE Torn
  BY <1>9, TornKeeps
<1>10. CASE TimeGoesBy
  BY <1>10, TimeGoesByKeeps
<1>11. CASE UNCHANGED shelfVars
  BY <1>11 DEF shelfVars, ShelfInv, KeptAs
<1> QED
  BY <1>1, <1>2, <1>3, <1>4, <1>5, <1>6, <1>7, <1>8, <1>9, <1>10, <1>11 DEF ShelfNext

LEMMA ShelfInvStands == ShelfInv => ShelfStands
<1> SUFFICES ASSUME ShelfInv PROVE ShelfStands
  OBVIOUS
<1>1. /\ made.here \ Shippable \subseteq OwnIn(lib) /\ Tabled(table, driven.here)
  BY DEF ShelfInv, KeptAs
<1>2. OwnWorkStays
  BY <1>1 DEF OwnWorkStays
<1>3. TimesStand
  <2>1. ASSUME Cardinality(Rows(driven.here)) <= RowsMax, NEW d \in driven.here
        PROVE  TimesAre(table, driven.here, d)
    <3>1. driven.here \subseteq Timed /\ TableOf(table, driven.here)
      BY <1>1, <2>1 DEF Tabled
    <3> QED
      BY <3>1, TimesRight
  <2> QED
    BY <2>1 DEF TimesStand, TimesAre
<1> QED
  BY <1>2, <1>3 DEF ShelfStands

\* The player's tracks and times are there after every start, as far as they were saved:
\* after upgrades, failed writes, torn ones and any number of executions
\* (gs_store_save, gs_store_load, gs_sync_stock_tracks, gs_records_submit).
THEOREM ShelfStandsAlways == ShelfSpec => []ShelfStands
<1>1. ShelfInit => ShelfInv
  BY ShelfBegins
<1>2. ShelfInv /\ [ShelfNext]_shelfVars => ShelfInv'
  BY ShelfSteps
<1>3. ShelfInv => ShelfStands
  BY ShelfInvStands
<1> QED
  BY <1>1, <1>2, <1>3, PTL DEF ShelfSpec

\* What a start does to the library, from such a file.
LEMMA StartShips ==
  ASSUME ShelfInv, [ShelfNext]_shelfVars, ~on, on', ships # <<>>
  PROVE  /\ BuiltinIn(lib') \subseteq ToSet(ships)
         /\ ToSet(ships) \subseteq TracksIn(lib') \/ Len(lib') = EntriesMax
         /\ Cardinality(OwnIn(lib')) + Cardinality(ToSet(ships)) <= EntriesMax
               => ToSet(ships) \subseteq TracksIn(lib')
<1>1. Start
  BY DEF ShelfNext, shelfVars, Take, EditCopy, Rename, DeleteTrack, Edit, KeepThisOne, Builds,
         AddDriver, Race, ChangeScreen, Quit, Torn, TimeGoesBy, Gone
<1>2. PICK l : l = ReadStore.lib
  OBVIOUS
<1>3. ships \in Seq(Tracks) /\ Shelved(Fresh)
  BY FreshIs DEF ShelfInv
<1>4. Shelved(l)
  BY <1>2, <1>3 DEF ReadStore, ShelfInv, KeptAs
<1>5. lib' = Sync(l)
  BY <1>1, <1>2 DEF Start
<1>6. /\ Shelved(lib') /\ BuiltinIn(lib') \subseteq ToSet(ships)
      /\ ToSet(ships) \subseteq TracksIn(lib') \/ Len(lib') = EntriesMax
  BY <1>3, <1>4, <1>5, SyncIs
<1>7. ASSUME Cardinality(OwnIn(lib')) + Cardinality(ToSet(ships)) <= EntriesMax
      PROVE  ToSet(ships) \subseteq TracksIn(lib')
  <2>1. PICK u : u = lib'
    OBVIOUS
  <2>2. /\ Shelved(u) /\ BuiltinIn(u) \subseteq ToSet(ships)
        /\ ToSet(ships) \subseteq TracksIn(u) \/ Len(u) = EntriesMax
        /\ Cardinality(OwnIn(u)) + Cardinality(ToSet(ships)) <= EntriesMax
    BY <1>6, <1>7, <2>1
  <2>3. ToSet(ships) \subseteq TracksIn(u)
    BY <1>3, <2>2, RoomForAll
  <2> QED
    BY <2>1, <2>3
<1> QED
  BY <1>6, <1>7

\* After every start what ships is in the library, unless the player's own left no room,
\* and nothing else is the game's (gs_sync_stock_tracks, frontend/game/main.c).
THEOREM WhatShipsIsHereAlways == ShelfSpec => WhatShipsIsHere
<1>1. ShelfInit => ShelfInv
  BY ShelfBegins
<1>2. ShelfInv /\ [ShelfNext]_shelfVars => ShelfInv'
  BY ShelfSteps
<1>3. ShelfInv /\ [ShelfNext]_shelfVars
        => [~on /\ on' /\ ships # <<>> =>
              /\ BuiltinIn(lib') \subseteq ToSet(ships)
              /\ ToSet(ships) \subseteq TracksIn(lib') \/ Len(lib') = EntriesMax
              /\ Cardinality(OwnIn(lib')) + Cardinality(ToSet(ships)) <= EntriesMax
                    => ToSet(ships) \subseteq TracksIn(lib')]_shelfVars
  BY StartShips
<1> QED
  BY <1>1, <1>2, <1>3, PTL DEF ShelfSpec, WhatShipsIsHere

-----------------------------------------------------------------------------
(* A track from a number *)

\* A walk: over the grid from cell to next cell, and nowhere twice.
Trail(w) ==
    /\ w \in Seq(Grid) /\ w # <<>>
    /\ \A i, j \in 1 .. Len(w) : w[i] = w[j] => i = j
    /\ \A i \in 1 .. Len(w) - 1 : Neighbours(w[i], w[i + 1])

\* One that comes back to where it began.
Circle(w) == Trail(w) /\ Len(w) >= 4 /\ Neighbours(w[Len(w)], w[1])

\* Which way it goes from its cell i, and whether its last k steps go one way.
Leaving(w, i) == Heading(w[i], w[i + 1])
EndsIn(w, k) == \A j \in Len(w) - k .. Len(w) - 1 : Leaving(w, j) = Leaving(w, Len(w) - 1)

\* Nowhere does it go one way for more than so many steps.
Turning(w, most) ==
    \A i \in 1 .. Len(w) - 1 : \A k \in 1 .. Len(w) - i :
        (\A j \in i .. i + k - 1 : Leaving(w, j) = Leaving(w, i)) => k <= most

\* A path w that grows, u what was not tried from its cells, h and r the last heading and
\* how far it was kept: its seed goes one way, what was not tried lies on the grid, and it
\* goes no further one way than the dial says.
Grows(w, u, sd, h, r, most) ==
    /\ sd.len \in 1 .. Len(w) /\ sd.dir \in 0 .. 3 /\ sd.len <= most
    /\ most \in Nat /\ h \in 0 .. 3 /\ r \in 1 .. most
    /\ u \in Seq(SUBSET (0 .. 3)) /\ Len(u) - (Len(w) - sd.len) \in {0, 1}
    /\ \A m \in 1 .. Len(u) : \A dir \in u[m] : OnGrid(Toward(w[sd.len + m - 1], dir))
    /\ \A i \in 1 .. sd.len - 1 : Leaving(w, i) = sd.dir
    /\ h = IF Len(w) > 1 THEN Leaving(w, Len(w) - 1) ELSE sd.dir
    /\ \A k \in 1 .. Len(w) - 1 : EndsIn(w, k) => k <= r
    /\ Turning(w, most)
Growing == Grows(walk, untried, seed, heading, run, MaxRun)

WalkInv ==
    /\ stage \in {"growing", "grown"} =>
          /\ Trail(walk) /\ visited = ToSet(walk)
          /\ Loop => Circle(walk)
    /\ stage \notin {"growing", "grown"} => walk = <<>> /\ visited = {}
    /\ stage = "growing" /\ ~Loop => Growing
    /\ stage = "grown" /\ tries < Attempts => Len(walk) >= IF Loop THEN 8 ELSE asked

\* The ramps: the next is as far from the last as the longest gap and both their feet.
RampInv ==
    /\ ramp \in Seq([site : Nat, radius : 5 .. 11])
    /\ \A j \in 1 .. Len(ramp) : spec.jumps = "big" => ramp[j].radius \in 9 .. 11
    /\ \A i, j \in 1 .. Len(ramp) : i < j => ramp[i].site + 31 <= ramp[j].site
    /\ stage = "ramps" => \A i \in 1 .. Len(ramp) :
          ramp[i].site + 31 <= RunUp + next * every + every \div 2 - every \div 10

\* What is lifted so far ends before what is lifted next.
LiftInv ==
    /\ lift \in Seq(Nat \X Nat) /\ LiftsDontStack
    /\ stage = "ramps" => lift = <<>>
    /\ stage = "lifts" /\ spec.drama = "gaps" =>
          \A i \in 1 .. Len(lift) : \A j \in next + 1 .. Len(ramp) :
              lift[i][2] <= Lip(ramp[j]) * SamplesPerTile
    /\ stage = "lifts" /\ spec.drama = "crests" =>
          next >= 45 /\ \A i \in 1 .. Len(lift) : lift[i][2] <= (next - 45) * SamplesPerTile

LaidInv ==
    /\ stage \in {"drawn", "vetted", "growing", "grown"} => ramp = <<>> /\ lift = <<>>
    /\ stage \in {"ramps", "lifts"} =>
          /\ route \in Nat \ {0} /\ next \in Nat /\ every \in Nat /\ every >= 90
          /\ spec.drama = "crests" /\ stage = "lifts" => every >= 110
    /\ stage \in {"ramps", "lifts"} => RampInv /\ LiftInv
    /\ stage \in {"gated", "done"} => LiftsDontStack

\* A track with a gate on each of n posts, every fourth one a checkpoint.
Strided(gate, way, cut) ==
    [ground |-> 0, gate |-> gate, route |-> way, every |-> 4, cut |-> cut]
Posted(t, n) ==
    /\ n \in Nat /\ n >= 5
    /\ \E way \in {"circuit", "sprint"} : \E cut : t = Strided([i \in 1 .. n |-> <<i, FALSE>>], way, cut)
    /\ IF IsCircuit(t) THEN n % 4 = 0 ELSE (n - 1) % 4 = 0
    /\ \A a \in t.cut : a \in 0 .. n - 1 /\ IsCheckpoint(t, a) /\ NextCheckpoint(t, a) # a

RouteInv ==
    /\ spec \in Dials /\ tries \in Nat
    /\ stage \in {"drawn", "vetted", "growing", "grown", "ramps", "lifts", "gated", "done"}
    /\ stage # "drawn" => asked \in Nat \ {0}
    /\ SpecIsSound /\ WalkInv /\ LaidInv
    /\ stage \in {"gated", "done"} => Posted(built, Gates(built))

\* The greatest and the least of some numbers.
LEMMA MaxOf ==
  ASSUME NEW n \in Nat, NEW S \in SUBSET (0 .. n), S # {}
  PROVE  Max(S) \in S /\ \A x \in S : x <= Max(S)
<1> DEFINE down == {n - x : x \in S}
<1>1. down \subseteq Nat /\ down # {}
  <2>1. PICK x \in S : TRUE
    OBVIOUS
  <2>2. n - x \in down
    BY <2>1
  <2>3. \A z \in S : z \in Nat /\ z <= n
    OBVIOUS
  <2>4. \A z \in S : n - z \in Nat
    BY <2>3
  <2> QED
    BY <2>2, <2>4
<1>2. PICK y \in down : \A z \in down : y <= z
  <2> HIDE DEF down
  <2> QED
    BY <1>1, LeastNat
<1>3. PICK x \in S : y = n - x
  BY <1>2
<1>4. ASSUME NEW z \in S PROVE x >= z
  <2>1. n - z \in down
    OBVIOUS
  <2>2. y <= n - z
    BY <1>2, <2>1
  <2> QED
    BY <1>3, <2>2
<1> QED
  BY <1>4 DEF Max

LEMMA MaxPair ==
  ASSUME NEW a \in Int, NEW b \in Int
  PROVE  Max({a, b}) = IF a >= b THEN a ELSE b
<1>1. \E x \in {a, b} : \A y \in {a, b} : x >= y
  OBVIOUS
<1> QED
  BY <1>1 DEF Max

LEMMA MinPair ==
  ASSUME NEW a \in Int, NEW b \in Int
  PROVE  Min({a, b}) = IF a <= b THEN a ELSE b
<1>1. \E x \in {a, b} : \A y \in {a, b} : x <= y
  OBVIOUS
<1> QED
  BY <1>1 DEF Min

\* A step over the grid, and the way it went.
LEMMA TowardIs ==
  ASSUME NEW c, NEW dir \in 0 .. 3
  PROVE  Toward(c, dir) = IF dir = 0 THEN <<c[1] + 1, c[2] + 0>>
                          ELSE IF dir = 1 THEN <<c[1] + 0, c[2] + 1>>
                          ELSE IF dir = 2 THEN <<c[1] + (-1), c[2] + 0>>
                          ELSE <<c[1] + 0, c[2] + (-1)>>
BY DEF Toward, East, South

LEMMA GridIs ==
  /\ GridX \in Nat /\ GridY \in Nat
  /\ \A c \in Grid : c = <<c[1], c[2]>> /\ c[1] \in 0 .. GridX - 1 /\ c[2] \in 0 .. GridY - 1
  /\ \A x \in 0 .. GridX - 1, y \in 0 .. GridY - 1 : <<x, y>> \in Grid
BY RouteAssumption DEF Grid

LEMMA StepsInto ==
  ASSUME NEW c \in Grid, NEW dir \in 0 .. 3
  PROVE  /\ OnGrid(Toward(c, dir)) => Toward(c, dir) \in Grid
         /\ Heading(c, Toward(c, dir)) = dir
         /\ Neighbours(c, Toward(c, dir))
         /\ Neighbours(Toward(c, dir), c)
<1>1. PICK x, y : x \in Nat /\ y \in Nat /\ c = <<x, y>> /\ c[1] = x /\ c[2] = y
  BY GridIs
<1>2. \A d \in 0 .. 3 : Toward(c, d) = IF d = 0 THEN <<x + 1, y>> ELSE IF d = 1 THEN <<x, y + 1>>
                          ELSE IF d = 2 THEN <<x - 1, y>> ELSE <<x, y - 1>>
  <2>1. c[1] + 1 = x + 1 /\ c[1] + 0 = x /\ c[2] + 0 = y /\ c[2] + 1 = y + 1
        /\ c[1] + (-1) = x - 1 /\ c[2] + (-1) = y - 1
    BY <1>1
  <2>2. \A d \in 0 .. 3 : Toward(c, d) = IF d = 0 THEN <<c[1] + 1, c[2] + 0>>
                          ELSE IF d = 1 THEN <<c[1] + 0, c[2] + 1>>
                          ELSE IF d = 2 THEN <<c[1] + (-1), c[2] + 0>>
                          ELSE <<c[1] + 0, c[2] + (-1)>>
    BY TowardIs
  <2> QED
    BY <2>1, <2>2
<1>3. \A d \in 0 .. 3 : Toward(c, d) = Toward(c, dir) => d = dir
  BY <1>1, <1>2
<1>4. Heading(c, Toward(c, dir)) = dir
  BY <1>3 DEF Heading
<1>5. OnGrid(Toward(c, dir)) => Toward(c, dir) \in Grid
  BY <1>2, GridIs DEF OnGrid
<1>6. Neighbours(c, Toward(c, dir))
  BY DEF Neighbours
<1>7. Neighbours(Toward(c, dir), c)
  <2>1. PICK back \in 0 .. 3 : back = IF dir = 0 THEN 2 ELSE IF dir = 1 THEN 3 ELSE dir - 2
    OBVIOUS
  <2>2. PICK q : q = Toward(c, dir)
    OBVIOUS
  <2>3. Toward(q, back) = IF back = 0 THEN <<q[1] + 1, q[2] + 0>>
                          ELSE IF back = 1 THEN <<q[1] + 0, q[2] + 1>>
                          ELSE IF back = 2 THEN <<q[1] + (-1), q[2] + 0>>
                          ELSE <<q[1] + 0, q[2] + (-1)>>
    BY TowardIs
  <2>4. Toward(q, back) = c
    BY <1>1, <1>2, <2>1, <2>2, <2>3
  <2> QED
    BY <2>2, <2>4 DEF Neighbours
<1> QED
  BY <1>4, <1>5, <1>6, <1>7

\* What is next to a cell is where its heading leads.
LEMMA HeadingIs ==
  ASSUME NEW a, NEW b, Neighbours(a, b)
  PROVE  Heading(a, b) \in 0 .. 3 /\ Toward(a, Heading(a, b)) = b
BY DEF Neighbours, Heading

\* Two cells next to each other, pushed the same way, are next to each other still.
LEMMA PushedApart ==
  ASSUME NEW a \in Grid, NEW b \in Grid, a # b, NEW side \in 0 .. 3
  PROVE  /\ Toward(a, side) # Toward(b, side)
         /\ Neighbours(a, b) => Neighbours(Toward(a, side), Toward(b, side))
<1>1. PICK x, y : x \in Nat /\ y \in Nat /\ a = <<x, y>> /\ a[1] = x /\ a[2] = y
  BY GridIs
<1>2. PICK u, v : u \in Nat /\ v \in Nat /\ b = <<u, v>> /\ b[1] = u /\ b[2] = v
  BY GridIs
<1>3. PICK dx, dy : /\ dx \in {-1, 0, 1} /\ dy \in {-1, 0, 1}
                    /\ Toward(a, side) = <<x + dx, y + dy>> /\ Toward(b, side) = <<u + dx, v + dy>>
  <2>1. \A c : Toward(c, side) = <<c[1] + East[side + 1], c[2] + South[side + 1]>>
    BY DEF Toward
  <2>2. East[side + 1] \in {-1, 0, 1} /\ South[side + 1] \in {-1, 0, 1}
    BY DEF East, South
  <2> QED
    BY <1>1, <1>2, <2>1, <2>2
<1>4. Toward(a, side) # Toward(b, side)
  BY <1>1, <1>2, <1>3
<1>5. ASSUME Neighbours(a, b) PROVE Neighbours(Toward(a, side), Toward(b, side))
  <2>1. PICK d \in 0 .. 3 : Toward(a, d) = b
    BY <1>5 DEF Neighbours
  <2>2. PICK ex, ey : /\ ex \in {-1, 0, 1} /\ ey \in {-1, 0, 1}
                      /\ \A c : Toward(c, d) = <<c[1] + ex, c[2] + ey>>
    <3>1. \A c : Toward(c, d) = <<c[1] + East[d + 1], c[2] + South[d + 1]>>
      BY DEF Toward
    <3>2. East[d + 1] \in {-1, 0, 1} /\ South[d + 1] \in {-1, 0, 1}
      BY DEF East, South
    <3> QED
      BY <3>1, <3>2
  <2>3. u = x + ex /\ v = y + ey
    BY <1>1, <1>2, <2>1, <2>2
  <2>4. Toward(<<x + dx, y + dy>>, d) = <<u + dx, v + dy>>
    <3>1. Toward(<<x + dx, y + dy>>, d) = <<x + dx + ex, y + dy + ey>>
      BY <2>2
    <3> QED
      BY <2>2, <2>3, <3>1, <1>1, <1>2, <1>3
  <2> QED
    BY <1>3, <2>4 DEF Neighbours
<1> QED
  BY <1>4, <1>5

\* A trail's cells, as a set and how many.
LEMMA TrailIs ==
  ASSUME NEW w, Trail(w)
  PROVE  /\ Len(w) \in Nat \ {0} /\ DOMAIN w = 1 .. Len(w)
         /\ \A i \in 1 .. Len(w) : w[i] \in Grid /\ w[i] \in ToSet(w)
         /\ \A c \in ToSet(w) : \E i \in 1 .. Len(w) : w[i] = c
         /\ ToSet(w) \subseteq Grid /\ Cardinality(ToSet(w)) = Len(w)
         /\ \A i \in 1 .. Len(w) : OnGrid(w[i])
<1>1. Len(w) \in Nat \ {0} /\ DOMAIN w = 1 .. Len(w) /\ w \in [1 .. Len(w) -> Grid]
  BY DEF Trail
<1>2. /\ \A i \in 1 .. Len(w) : w[i] \in Grid /\ w[i] \in ToSet(w)
      /\ \A c \in ToSet(w) : \E i \in 1 .. Len(w) : w[i] = c
      /\ ToSet(w) \subseteq Grid
  BY <1>1 DEF ToSet
<1>3. w \in [1 .. Len(w) -> ToSet(w)]
  BY <1>1, <1>2
<1>4. \A i, j \in 1 .. Len(w) : w[i] = w[j] => i = j
  BY DEF Trail
<1>5. Cardinality(ToSet(w)) = Len(w)
  <2>1. PICK n, S : n = Len(w) /\ S = ToSet(w)
    OBVIOUS
  <2>2. /\ n \in Nat /\ w \in [1 .. n -> S] /\ \A c \in S : \E i \in 1 .. n : w[i] = c
        /\ \A i, j \in 1 .. n : w[i] = w[j] => i = j
    BY <1>1, <1>2, <1>3, <1>4, <2>1
  <2>3. Cardinality(S) = n
    BY <2>2, CountedOnce
  <2> QED
    BY <2>1, <2>3
<1>6. \A i \in 1 .. Len(w) : OnGrid(w[i])
  BY <1>2, GridIs DEF OnGrid
<1> QED
  BY <1>1, <1>2, <1>5, <1>6

\* A step on to a cell that is free, and a step back.
LEMMA TrailOn ==
  ASSUME NEW w, Trail(w), NEW c \in Grid, c \notin ToSet(w), Neighbours(w[Len(w)], c)
  PROVE  /\ Trail(Append(w, c)) /\ ToSet(Append(w, c)) = ToSet(w) \cup {c}
         /\ Len(Append(w, c)) = Len(w) + 1 /\ Append(w, c)[Len(w) + 1] = c
         /\ \A i \in 1 .. Len(w) : Append(w, c)[i] = w[i]
<1> DEFINE v == Append(w, c)
<1>1. w \in Seq(Grid) /\ Len(w) \in Nat \ {0}
  BY TrailIs DEF Trail
<1>2. /\ v \in Seq(Grid) /\ Len(v) = Len(w) + 1 /\ v[Len(w) + 1] = c
      /\ \A i \in 1 .. Len(w) : v[i] = w[i]
  BY <1>1
<1> HIDE DEF v
<1>3. DOMAIN v = 1 .. Len(w) + 1
  BY <1>1, <1>2
<1>4. ToSet(v) = ToSet(w) \cup {c}
  BY <1>1, <1>2, <1>3, TrailIs DEF ToSet
<1>5. \A i, j \in 1 .. Len(v) : v[i] = v[j] => i = j
  <2>1. \A i \in 1 .. Len(w) : w[i] \in ToSet(w)
    BY TrailIs
  <2>2. \A i, j \in 1 .. Len(w) : w[i] = w[j] => i = j
    BY DEF Trail
  <2> QED
    BY <1>1, <1>2, <2>1, <2>2
<1>6. \A i \in 1 .. Len(v) - 1 : Neighbours(v[i], v[i + 1])
  <2>1. ASSUME NEW i \in 1 .. Len(w) PROVE Neighbours(v[i], v[i + 1])
    <3>1. CASE i = Len(w)
      BY <1>1, <1>2, <3>1
    <3>2. CASE i < Len(w)
      <4>1. i \in 1 .. Len(w) - 1 /\ i + 1 \in 1 .. Len(w)
        BY <1>1, <3>2
      <4>2. v[i] = w[i] /\ v[i + 1] = w[i + 1] /\ Neighbours(w[i], w[i + 1])
        BY <1>2, <4>1 DEF Trail
      <4> QED
        BY <4>2
    <3> QED
      BY <1>1, <3>1, <3>2
  <2> QED
    BY <1>1, <1>2, <2>1
<1>7. v # <<>>
  BY <1>1, <1>2
<1>8. Trail(v)
  BY <1>2, <1>5, <1>6, <1>7 DEF Trail
<1> QED
  BY <1>2, <1>4, <1>8 DEF v

LEMMA TrailBack ==
  ASSUME NEW w, Trail(w), Len(w) > 1
  PROVE  /\ Trail(Front(w)) /\ ToSet(Front(w)) = ToSet(w) \ {Last(w)}
         /\ Len(Front(w)) = Len(w) - 1
         /\ \A i \in 1 .. Len(w) - 1 : Front(w)[i] = w[i]
<1> DEFINE v == Front(w)
<1>1. w \in Seq(Grid) /\ Len(w) \in Nat \ {0}
  BY TrailIs DEF Trail
<1>2. /\ v \in Seq(Grid) /\ Len(v) = Len(w) - 1
      /\ \A i \in 1 .. Len(w) - 1 : v[i] = w[i]
  BY <1>1 DEF Front
<1> HIDE DEF v
<1>3. DOMAIN v = 1 .. Len(w) - 1 /\ DOMAIN w = 1 .. Len(w)
  BY <1>1, <1>2
<1>4. \A i, j \in 1 .. Len(w) : w[i] = w[j] => i = j
  BY DEF Trail
<1>5. ToSet(v) = ToSet(w) \ {w[Len(w)]}
  <2>1. ASSUME NEW c \in ToSet(v) PROVE c \in ToSet(w) \ {w[Len(w)]}
    <3>1. PICK i \in 1 .. Len(w) - 1 : c = v[i]
      BY <1>3 DEF ToSet
    <3>2. i \in 1 .. Len(w) /\ i # Len(w) /\ Len(w) \in 1 .. Len(w) /\ c = w[i]
      BY <1>1, <1>2, <3>1
    <3> QED
      BY <1>3, <1>4, <3>2 DEF ToSet
  <2>2. ASSUME NEW c \in ToSet(w) \ {w[Len(w)]} PROVE c \in ToSet(v)
    <3>1. PICK i \in 1 .. Len(w) : c = w[i]
      BY <1>3 DEF ToSet
    <3>2. i \in 1 .. Len(w) - 1 /\ c = v[i]
      BY <1>1, <1>2, <2>2, <3>1
    <3> QED
      BY <1>3, <3>2 DEF ToSet
  <2> QED
    BY <2>1, <2>2
<1>6. \A i, j \in 1 .. Len(v) : v[i] = v[j] => i = j
  BY <1>1, <1>2, <1>4
<1>7. \A i \in 1 .. Len(v) - 1 : Neighbours(v[i], v[i + 1])
  <2>1. ASSUME NEW i \in 1 .. Len(v) - 1 PROVE Neighbours(v[i], v[i + 1])
    <3>1. i \in 1 .. Len(w) - 1 /\ i + 1 \in 1 .. Len(w) - 1
      BY <1>1, <1>2
    <3>2. v[i] = w[i] /\ v[i + 1] = w[i + 1] /\ Neighbours(w[i], w[i + 1])
      BY <1>2, <3>1 DEF Trail
    <3> QED
      BY <3>2
  <2> QED
    BY <2>1
<1>8. v # <<>>
  BY <1>1, <1>2
<1>9. Trail(v)
  BY <1>2, <1>6, <1>7, <1>8 DEF Trail
<1> QED
  BY <1>2, <1>5, <1>9 DEF v, Last

\* How far a trail has kept its last heading.
LEMMA RunIs ==
  ASSUME NEW w, Trail(w), Len(w) > 1
  PROVE  /\ RunOf(w) \in 1 .. Len(w) - 1 /\ EndsIn(w, RunOf(w))
         /\ \A k \in 1 .. Len(w) - 1 : EndsIn(w, k) => k <= RunOf(w)
<1> DEFINE n == Len(w)
           S == {k \in 1 .. n - 1 : \A j \in n - k .. n - 1 :
                     Heading(w[j], w[j + 1]) = Heading(w[n - 1], w[n])}
<1>1. n \in Nat /\ n > 1
  BY TrailIs
<1>2. RunOf(w) = Max(S)
  BY DEF RunOf
<1>3. w[n - 1 + 1] = w[n]
  BY <1>1
<1>4. S = {k \in 1 .. n - 1 : EndsIn(w, k)}
  BY <1>3 DEF EndsIn, Leaving
<1>5. 1 \in S
  <2>1. \A j \in n - 1 .. n - 1 : j = n - 1
    BY <1>1
  <2>2. EndsIn(w, 1)
    BY <2>1 DEF EndsIn
  <2> QED
    BY <1>1, <1>4, <2>2
<1>6. S \in SUBSET (0 .. n) /\ S # {}
  <2>1. S \subseteq 1 .. n - 1 /\ 1 .. n - 1 \subseteq 0 .. n
    BY <1>1
  <2> HIDE DEF S
  <2> QED
    BY <1>5, <2>1
<1> HIDE DEF S
<1>7. Max(S) \in S /\ \A x \in S : x <= Max(S)
  BY <1>1, <1>6, MaxOf
<1> QED
  BY <1>2, <1>4, <1>7

\* Where a trail turns often enough, so does one that has a cell more and its last steps in
\* order, and one that has fewer cells.
LEMMA TurningOn ==
  ASSUME NEW w, Len(w) \in Nat, NEW v, Len(v) = Len(w) + 1,
         \A i \in 1 .. Len(w) : v[i] = w[i],
         NEW most \in Nat, Turning(w, most), \A k \in 1 .. Len(v) - 1 : EndsIn(v, k) => k <= most
  PROVE  Turning(v, most)
<1>1. SUFFICES ASSUME NEW i \in 1 .. Len(v) - 1, NEW k \in 1 .. Len(v) - i,
                      \A j \in i .. i + k - 1 : Leaving(v, j) = Leaving(v, i)
               PROVE  k <= most
  BY DEF Turning
<1>2. \A j \in 1 .. Len(w) - 1 : Leaving(v, j) = Leaving(w, j)
  BY DEF Leaving
<1>3. CASE i + k <= Len(w)
  <2>1. i \in 1 .. Len(w) - 1 /\ k \in 1 .. Len(w) - i
    BY <1>3
  <2>2. \A j \in i .. i + k - 1 : j \in 1 .. Len(w) - 1
    BY <1>3
  <2>3. \A j \in i .. i + k - 1 : Leaving(w, j) = Leaving(w, i)
    BY <1>1, <1>2, <2>1, <2>2
  <2> QED
    BY <2>1, <2>3 DEF Turning
<1>4. CASE i + k > Len(w)
  <2>1. k \in 1 .. Len(v) - 1 /\ Len(v) - k = i /\ Len(v) - 1 = i + k - 1
    BY <1>4
  <2>2. Len(v) - 1 \in i .. i + k - 1
    BY <2>1
  <2>3. EndsIn(v, k)
    BY <1>1, <2>1, <2>2 DEF EndsIn
  <2> QED
    BY <2>1, <2>3
<1> QED
  BY <1>3, <1>4

LEMMA TurningBack ==
  ASSUME NEW w, Len(w) \in Nat, NEW v, Len(v) \in Nat, Len(v) <= Len(w),
         \A i \in 1 .. Len(v) : v[i] = w[i], NEW most, Turning(w, most)
  PROVE  /\ Turning(v, most)
         /\ \A k \in 1 .. Len(v) - 1 : EndsIn(v, k) => k <= most
<1>1. \A j \in 1 .. Len(v) - 1 : Leaving(v, j) = Leaving(w, j)
  BY DEF Leaving
<1>2. ASSUME NEW i \in 1 .. Len(v) - 1, NEW k \in 1 .. Len(v) - i,
             \A j \in i .. i + k - 1 : Leaving(v, j) = Leaving(v, i)
      PROVE  k <= most
  <2>1. i \in 1 .. Len(w) - 1 /\ k \in 1 .. Len(w) - i
    OBVIOUS
  <2>2. \A j \in i .. i + k - 1 : j \in 1 .. Len(v) - 1
    OBVIOUS
  <2>3. \A j \in i .. i + k - 1 : Leaving(w, j) = Leaving(w, i)
    BY <1>1, <1>2, <2>2
  <2> QED
    BY <2>1, <2>3 DEF Turning
<1>3. ASSUME NEW k \in 1 .. Len(v) - 1, EndsIn(v, k) PROVE k <= most
  <2>1. Len(v) - k \in 1 .. Len(v) - 1 /\ k \in 1 .. Len(v) - (Len(v) - k)
    OBVIOUS
  <2>2. \A j \in Len(v) - k .. Len(v) - k + k - 1 : j \in Len(v) - k .. Len(v) - 1
    OBVIOUS
  <2>3. Len(v) - k \in Len(v) - k .. Len(v) - 1
    OBVIOUS
  <2>4. \A j \in Len(v) - k .. Len(v) - k + k - 1 : Leaving(v, j) = Leaving(v, Len(v) - k)
    BY <1>3, <2>2, <2>3 DEF EndsIn
  <2> QED
    BY <1>2, <2>1, <2>4
<1> QED
  BY <1>2, <1>3 DEF Turning

\* A path that looks round from its last cell.
LEMMA GrowsLooked ==
  ASSUME NEW w, Trail(w), NEW u, NEW sd, NEW h, NEW r, NEW most, Grows(w, u, sd, h, r, most),
         Len(u) <= Len(w) - sd.len, NEW S \in SUBSET (0 .. 3),
         \A dir \in S : OnGrid(Toward(w[Len(w)], dir))
  PROVE  Grows(w, Append(u, S), sd, h, r, most)
<1> DEFINE v == Append(u, S)
<1>1. Len(w) \in Nat /\ sd.len \in 1 .. Len(w) /\ Len(u) \in Nat /\ Len(u) = Len(w) - sd.len
      /\ u \in Seq(SUBSET (0 .. 3))
  BY TrailIs DEF Grows
<1>2. v \in Seq(SUBSET (0 .. 3)) /\ Len(v) = Len(u) + 1 /\ v[Len(u) + 1] = S
      /\ \A m \in 1 .. Len(u) : v[m] = u[m]
  BY <1>1
<1> HIDE DEF v
<1>3. Len(v) - (Len(w) - sd.len) \in {0, 1}
  BY <1>1, <1>2
<1>4. ASSUME NEW m \in 1 .. Len(v), NEW dir \in v[m] PROVE OnGrid(Toward(w[sd.len + m - 1], dir))
  <2>1. CASE m = Len(u) + 1
    <3>1. sd.len + m - 1 = Len(w) /\ dir \in S
      BY <1>1, <1>2, <2>1
    <3> QED
      BY <3>1
  <2>2. CASE m # Len(u) + 1
    <3>0. PICK k \in Nat : k = Len(u)
      BY <1>1
    <3>1. m \in 1 .. k
      BY <1>2, <2>2, <3>0
    <3>2. dir \in u[m]
      BY <1>2, <3>0, <3>1
    <3> QED
      BY <3>0, <3>1, <3>2 DEF Grows
  <2> QED
    BY <2>1, <2>2
<1>5. Grows(w, v, sd, h, r, most)
  BY <1>2, <1>3, <1>4 DEF Grows
<1> QED
  BY <1>5 DEF v

\* One that has tried a way from there.
LEMMA GrowsTried ==
  ASSUME NEW w, Trail(w), NEW u, NEW sd, NEW h, NEW r, NEW most, Grows(w, u, sd, h, r, most),
         Len(u) >= 1, NEW dir
  PROVE  Grows(w, [u EXCEPT ![Len(u)] = @ \ {dir}], sd, h, r, most)
<1> DEFINE v == [u EXCEPT ![Len(u)] = @ \ {dir}]
<1>1. u \in Seq(SUBSET (0 .. 3)) /\ Len(u) \in Nat /\ DOMAIN u = 1 .. Len(u)
  BY DEF Grows
<1>2. v \in Seq(SUBSET (0 .. 3)) /\ Len(v) = Len(u)
      /\ \A m \in 1 .. Len(u) : v[m] \subseteq u[m]
  <2>1. u \in [1 .. Len(u) -> SUBSET (0 .. 3)] /\ Len(u) \in 1 .. Len(u)
    BY <1>1
  <2>2. v \in [1 .. Len(u) -> SUBSET (0 .. 3)]
    BY <2>1
  <2>3. \A m \in 1 .. Len(u) : v[m] = IF m = Len(u) THEN u[m] \ {dir} ELSE u[m]
    BY <2>1
  <2> HIDE DEF v
  <2>4. v \in Seq(SUBSET (0 .. 3)) /\ Len(v) = Len(u)
    BY <1>1, <2>2
  <2> QED
    BY <2>3, <2>4
<1> HIDE DEF v
<1>3. \A m \in 1 .. Len(v) : \A d \in v[m] : OnGrid(Toward(w[sd.len + m - 1], d))
  BY <1>2 DEF Grows
<1>4. Grows(w, v, sd, h, r, most)
  BY <1>2, <1>3 DEF Grows
<1> QED
  BY <1>4 DEF v

\* One that goes on, in a heading it has not kept too long.
LEMMA GrowsOn ==
  ASSUME NEW w, Trail(w), NEW u, NEW sd, NEW h, NEW r, NEW most, Grows(w, u, sd, h, r, most),
         Len(u) > Len(w) - sd.len, NEW dir \in 0 .. 3, ~(dir = h /\ r >= most),
         Toward(w[Len(w)], dir) \in Grid, Toward(w[Len(w)], dir) \notin ToSet(w)
  PROVE  Grows(Append(w, Toward(w[Len(w)], dir)), u, sd, dir,
               IF dir = h THEN r + 1 ELSE 1, most)
<1> DEFINE c == Toward(w[Len(w)], dir)
           v == Append(w, c)
           s == IF dir = h THEN r + 1 ELSE 1
           n == Len(w)
<1>1. n \in Nat \ {0} /\ w[n] \in Grid /\ n \in 1 .. n
  BY TrailIs
<1>2. c \in Grid /\ c \notin ToSet(w) /\ Neighbours(w[n], c) /\ Heading(w[n], c) = dir
  BY <1>1, StepsInto
<1>3. Trail(v) /\ Len(v) = n + 1 /\ v[n + 1] = c /\ \A i \in 1 .. n : v[i] = w[i]
  BY <1>2, TrailOn
<1> HIDE DEF v, c
<1>4. sd.len \in 1 .. n /\ most \in Nat /\ r \in 1 .. most /\ Len(u) \in Nat
      /\ Len(u) - (n - sd.len) \in {0, 1}
  BY DEF Grows
<1>5. /\ \A i \in 1 .. n - 1 : Leaving(v, i) = Leaving(w, i)
      /\ Leaving(v, n) = dir
  BY <1>1, <1>2, <1>3 DEF Leaving
<1>6. s \in 1 .. most
  BY <1>4
<1>7. ASSUME NEW k \in 1 .. n, EndsIn(v, k) PROVE k <= s
  <2>1. CASE k = 1
    BY <2>1, <1>6
  <2>2. CASE k > 1
    <3>1. n - 1 \in 1 .. n - 1 /\ n - 1 \in Len(v) - k .. Len(v) - 1 /\ n > 1 /\ Len(v) - 1 = n
      BY <1>1, <1>3, <2>2
    <3>2. Leaving(w, n - 1) = dir
      BY <1>5, <1>7, <3>1 DEF EndsIn
    <3>3. dir = h
      BY <3>1, <3>2 DEF Grows
    <3>4. k - 1 \in 1 .. n - 1 /\ \A j \in n - (k - 1) .. n - 1 :
                j \in 1 .. n - 1 /\ j \in Len(v) - k .. Len(v) - 1
      BY <1>1, <1>3, <2>2
    <3>5. EndsIn(w, k - 1)
      <4>1. \A j \in n - (k - 1) .. n - 1 : Leaving(w, j) = dir
        BY <1>5, <1>7, <3>1, <3>4 DEF EndsIn
      <4> QED
        BY <3>2, <4>1 DEF EndsIn
    <3>6. k - 1 <= r
      BY <3>4, <3>5 DEF Grows
    <3> QED
      BY <1>4, <3>3, <3>6
  <2> QED
    BY <2>1, <2>2
<1>8. Turning(v, most)
  <2>1. \A k \in 1 .. Len(v) - 1 : EndsIn(v, k) => k <= most
    BY <1>1, <1>3, <1>4, <1>6, <1>7
  <2>2. Turning(w, most)
    BY DEF Grows
  <2> QED
    BY <1>1, <1>3, <1>4, <2>1, <2>2, TurningOn
<1>9. \A m \in 1 .. Len(u) : \A d \in u[m] : OnGrid(Toward(v[sd.len + m - 1], d))
  <2>1. \A m \in 1 .. Len(u) : sd.len + m - 1 \in 1 .. n
    <3>1. PICK a \in Nat, b \in Nat : a = sd.len /\ b = Len(u)
      BY <1>1, <1>4
    <3>2. a >= 1 /\ a <= n /\ b <= n - a + 1
      BY <1>1, <1>4, <3>1
    <3>3. \A m \in 1 .. b : a + m - 1 \in 1 .. n
      BY <1>1, <3>2
    <3> QED
      BY <3>1, <3>3
  <2> QED
    BY <1>3, <2>1 DEF Grows
<1>10. sd.len \in 1 .. Len(v) /\ Len(u) - (Len(v) - sd.len) \in {0, 1}
  <2>1. PICK a \in Nat, b \in Nat, d \in Nat : a = sd.len /\ b = Len(u) /\ d = Len(v)
    BY <1>1, <1>3, <1>4
  <2>2. a >= 1 /\ a <= n /\ d = n + 1 /\ b > n - a /\ b - (n - a) \in {0, 1}
    BY <1>1, <1>3, <1>4, <2>1
  <2>3. a \in 1 .. d /\ b - (d - a) \in {0, 1}
    BY <1>1, <2>2
  <2> QED
    BY <2>1, <2>3
<1>11. \A i \in 1 .. sd.len - 1 : Leaving(v, i) = sd.dir
  <2>1. \A i \in 1 .. sd.len - 1 : Leaving(w, i) = sd.dir
    BY DEF Grows
  <2>2. PICK a \in Nat : a = sd.len
    BY <1>4
  <2>3. \A i \in 1 .. a - 1 : i \in 1 .. n - 1
    BY <1>1, <1>4, <2>2
  <2> QED
    BY <1>5, <2>1, <2>2, <2>3
<1>12. Len(v) > 1 /\ dir = Leaving(v, Len(v) - 1)
  BY <1>1, <1>3, <1>5
<1>13. \A k \in 1 .. Len(v) - 1 : EndsIn(v, k) => k <= s
  BY <1>1, <1>3, <1>7
<1> HIDE DEF s
<1>14. Grows(v, u, sd, dir, s, most)
  BY <1>6, <1>8, <1>9, <1>10, <1>11, <1>12, <1>13 DEF Grows
<1> QED
  BY <1>14 DEF v, c, s

\* One that backs out of its last cell, all having been tried from there.
LEMMA GrowsBack ==
  ASSUME NEW w, Trail(w), NEW u, NEW sd, NEW h, NEW r, NEW most, Grows(w, u, sd, h, r, most),
         Len(u) > Len(w) - sd.len, Len(u) # 1
  PROVE  /\ Len(w) > sd.len /\ Len(w) > 1
         /\ Grows(Front(w), Front(u), sd,
                  IF Len(Front(w)) > sd.len
                  THEN Heading(Front(w)[Len(Front(w)) - 1], Front(w)[Len(Front(w))]) ELSE sd.dir,
                  IF Len(Front(w)) > sd.len THEN RunOf(Front(w)) ELSE sd.len, most)
<1> DEFINE v == Front(w)
           x == Front(u)
<1>0. PICK n, s : n = Len(w) /\ s = Len(u)
  OBVIOUS
<1>1. n \in Nat \ {0} /\ sd.len \in 1 .. n /\ Len(u) \in Nat /\ u \in Seq(SUBSET (0 .. 3))
      /\ Len(u) - (n - sd.len) \in {0, 1} /\ most \in Nat /\ sd.dir \in 0 .. 3 /\ sd.len <= most
  BY <1>0, TrailIs DEF Grows
<1>2. Len(u) = n - sd.len + 1 /\ Len(u) >= 2 /\ n > sd.len /\ n > 1
  <2>1. s \in Nat /\ n \in Nat /\ sd.len \in Nat /\ sd.len >= 1 /\ sd.len <= n
        /\ s > n - sd.len /\ s # 1 /\ (s - (n - sd.len) = 0 \/ s - (n - sd.len) = 1)
    BY <1>0, <1>1
  <2>2. s = n - sd.len + 1 /\ s >= 2 /\ n > sd.len /\ n > 1
    BY <2>1
  <2> QED
    BY <1>0, <2>2
<1>3. Trail(v) /\ Len(v) = n - 1 /\ \A i \in 1 .. n - 1 : v[i] = w[i]
  BY <1>0, <1>2, TrailBack
<1>4. x \in Seq(SUBSET (0 .. 3)) /\ Len(x) = Len(u) - 1 /\ \A m \in 1 .. Len(u) - 1 : x[m] = u[m]
  <2>1. u \in Seq(SUBSET (0 .. 3)) /\ Len(u) \in Nat /\ Len(u) >= 2
    BY <1>1, <1>2
  <2> QED
    BY <2>1 DEF Front
<1> HIDE DEF v, x
<1>5. \A m \in 1 .. Len(x) : \A d \in x[m] : OnGrid(Toward(v[sd.len + m - 1], d))
  <2>0. n \in Nat /\ sd.len \in Nat /\ sd.len >= 1 /\ Len(u) = n - sd.len + 1
        /\ Len(x) = n - sd.len
    BY <1>1, <1>2, <1>4
  <2>1. \A m \in 1 .. Len(x) : sd.len + m - 1 \in 1 .. n - 1 /\ m \in 1 .. Len(u)
                                /\ m \in 1 .. Len(u) - 1
    <3>1. PICK a \in Nat, b \in Nat, d \in Nat : a = sd.len /\ b = Len(u) /\ d = Len(x)
      BY <2>0
    <3>2. a >= 1 /\ b = n - a + 1 /\ d = n - a
      BY <2>0, <3>1
    <3>3. \A m \in 1 .. d : a + m - 1 \in 1 .. n - 1 /\ m \in 1 .. b /\ m \in 1 .. b - 1
      BY <2>0, <3>2
    <3> QED
      BY <3>1, <3>3
  <2>2. \A m \in 1 .. Len(x) : x[m] = u[m] /\ v[sd.len + m - 1] = w[sd.len + m - 1]
    BY <1>3, <1>4, <2>1
  <2> QED
    BY <2>1, <2>2 DEF Grows
<1>6. \A i \in 1 .. n - 2 : Leaving(v, i) = Leaving(w, i)
  BY <1>1, <1>3 DEF Leaving
<1>7. \A i \in 1 .. sd.len - 1 : Leaving(v, i) = sd.dir
  <2>1. \A i \in 1 .. sd.len - 1 : i \in 1 .. n - 2
    BY <1>1, <1>2
  <2> QED
    BY <1>6, <2>1 DEF Grows
<1>8. /\ Turning(v, most)
      /\ \A k \in 1 .. Len(v) - 1 : EndsIn(v, k) => k <= most
  <2>1. Len(v) \in Nat /\ Len(v) <= n /\ \A i \in 1 .. Len(v) : v[i] = w[i]
    BY <1>1, <1>2, <1>3
  <2>2. Turning(w, most)
    BY DEF Grows
  <2>3. Len(w) \in Nat
    BY <1>0, <1>1
  <2> QED
    BY <1>0, <2>1, <2>2, <2>3, TurningBack
<1>9. sd.len \in 1 .. Len(v) /\ Len(x) - (Len(v) - sd.len) \in {0, 1} /\ Len(v) \in Nat
  <2>1. n \in Nat /\ sd.len \in Nat /\ sd.len >= 1 /\ sd.len < n /\ Len(u) = n - sd.len + 1
        /\ Len(x) = Len(u) - 1 /\ Len(v) = n - 1
    BY <1>1, <1>2, <1>3, <1>4
  <2> QED
    BY <2>1
<1>10. CASE Len(v) > sd.len
  <2>1. Len(v) > 1
    BY <1>1, <1>9, <1>10
  <2>2. /\ RunOf(v) \in 1 .. Len(v) - 1 /\ EndsIn(v, RunOf(v))
        /\ \A k \in 1 .. Len(v) - 1 : EndsIn(v, k) => k <= RunOf(v)
    BY <1>3, <2>1, RunIs
  <2>3. RunOf(v) \in 1 .. most
    BY <1>1, <1>8, <1>9, <2>2
  <2>4. Heading(v[Len(v) - 1], v[Len(v)]) = Leaving(v, Len(v) - 1)
    BY <1>9 DEF Leaving
  <2>5. Leaving(v, Len(v) - 1) \in 0 .. 3
    <3>1. Len(v) - 1 \in 1 .. Len(v) - 1
      BY <1>9, <2>1
    <3> QED
      BY <1>3, <3>1, HeadingIs DEF Trail, Leaving
  <2>6. Grows(v, x, sd, Leaving(v, Len(v) - 1), RunOf(v), most)
    BY <1>1, <1>4, <1>5, <1>7, <1>8, <1>9, <2>1, <2>2, <2>3, <2>5 DEF Grows
  <2> QED
    BY <1>0, <1>2, <1>10, <2>4, <2>6 DEF v, x
<1>11. CASE ~(Len(v) > sd.len)
  <2>1. Len(v) = sd.len
    BY <1>1, <1>9, <1>11
  <2>2. sd.dir = IF Len(v) > 1 THEN Leaving(v, Len(v) - 1) ELSE sd.dir
    BY <1>1, <1>7, <2>1
  <2>3. \A k \in 1 .. Len(v) - 1 : EndsIn(v, k) => k <= sd.len
    BY <1>1, <2>1
  <2>4. sd.len \in 1 .. most
    BY <1>1
  <2>5. Grows(v, x, sd, sd.dir, sd.len, most)
    BY <1>1, <1>4, <1>5, <1>7, <1>8, <1>9, <2>2, <2>3, <2>4 DEF Grows
  <2> QED
    BY <1>0, <1>2, <1>11, <2>5 DEF v, x
<1> QED
  BY <1>10, <1>11

\* The first cells of a path: a straight that is not too long.
LineFrom(c, dir, n) ==
    [i \in 1 .. n |-> <<c[1] + East[dir + 1] * (i - 1), c[2] + South[dir + 1] * (i - 1)>>]
LEMMA LineIs ==
  ASSUME NEW c \in Grid, NEW dir \in 0 .. 3, NEW n \in Nat \ {0}, NEW most \in Nat, n <= most,
         NEW w, w = LineFrom(c, dir, n), \A i \in 1 .. n : OnGrid(w[i]),
         NEW sd, sd = [dir |-> dir, len |-> n]
  PROVE  Trail(w) /\ Len(w) = n /\ Grows(w, <<>>, sd, dir, n, most)
<1>0. \A i \in 1 .. n : w[i] = <<c[1] + East[dir + 1] * (i - 1), c[2] + South[dir + 1] * (i - 1)>>
  BY DEF LineFrom
<1>1. PICK x, y : x \in Nat /\ y \in Nat /\ c = <<x, y>> /\ c[1] = x /\ c[2] = y
  BY GridIs
<1>2. PICK dx, dy : /\ dx \in {-1, 0, 1} /\ dy \in {-1, 0, 1} /\ (dx = 0 <=> dy # 0)
                    /\ East[dir + 1] = dx /\ South[dir + 1] = dy
  <2>1. /\ East[dir + 1] \in {-1, 0, 1} /\ South[dir + 1] \in {-1, 0, 1}
        /\ East[dir + 1] = 0 <=> South[dir + 1] # 0
    <3>1. CASE dir = 0
      BY <3>1 DEF East, South
    <3>2. CASE dir = 1
      BY <3>2 DEF East, South
    <3>3. CASE dir = 2
      BY <3>3 DEF East, South
    <3>4. CASE dir = 3
      BY <3>4 DEF East, South
    <3> QED
      BY <3>1, <3>2, <3>3, <3>4
  <2> QED
    BY <2>1
<1> DEFINE by(d, i) == IF d = 1 THEN i - 1 ELSE IF d = 0 THEN 0 ELSE 1 - i
<1>3. \A i \in 1 .. n : dx * (i - 1) = by(dx, i) /\ dy * (i - 1) = by(dy, i)
  BY <1>2
<1>4. \A i \in 1 .. n : w[i] = <<x + by(dx, i), y + by(dy, i)>>
  BY <1>0, <1>1, <1>2, <1>3
<1>5. \A i \in 1 .. n : w[i] \in Grid
  <2>1. ASSUME NEW i \in 1 .. n PROVE w[i] \in Grid
    <3>1. PICK a, b : a = x + by(dx, i) /\ b = y + by(dy, i)
      OBVIOUS
    <3>2. w[i] = <<a, b>> /\ OnGrid(<<a, b>>)
      BY <1>4, <3>1
    <3> HIDE DEF by
    <3> QED
      BY <3>2, GridIs DEF OnGrid
  <2> QED
    BY <2>1
<1>6. w \in Seq(Grid) /\ Len(w) = n
  <2>1. w \in [1 .. n -> Grid]
    BY <1>5 DEF LineFrom
  <2> QED
    BY <2>1
<1>7. \A i, j \in 1 .. n : w[i] = w[j] => i = j
  BY <1>1, <1>2, <1>4
<1>8. \A i \in 1 .. n - 1 : Toward(w[i], dir) = w[i + 1]
  <2>1. ASSUME NEW i \in 1 .. n - 1 PROVE Toward(w[i], dir) = w[i + 1]
    <3>0. i \in 1 .. n /\ i + 1 \in 1 .. n
      OBVIOUS
    <3>1. Toward(w[i], dir) = <<x + by(dx, i) + dx, y + by(dy, i) + dy>>
      <4> HIDE DEF by
      <4>1. w[i] = <<x + by(dx, i), y + by(dy, i)>>
        BY <1>4, <3>0
      <4>2. w[i][1] = x + by(dx, i) /\ w[i][2] = y + by(dy, i)
        BY <4>1
      <4> QED
        BY <1>2, <4>2 DEF Toward
    <3>2. x + by(dx, i) + dx = x + by(dx, i + 1) /\ y + by(dy, i) + dy = y + by(dy, i + 1)
      BY <1>1, <1>2
    <3> HIDE DEF by
    <3>3. w[i + 1] = <<x + by(dx, i + 1), y + by(dy, i + 1)>>
      BY <1>4, <3>0
    <3> QED
      BY <3>1, <3>2, <3>3
  <2> QED
    BY <2>1
<1> HIDE DEF by
<1>9. \A i \in 1 .. n - 1 : Neighbours(w[i], w[i + 1]) /\ Leaving(w, i) = dir
  <2>1. ASSUME NEW i \in 1 .. n - 1 PROVE Neighbours(w[i], w[i + 1]) /\ Leaving(w, i) = dir
    <3>1. i \in 1 .. n
      OBVIOUS
    <3>2. w[i] \in Grid /\ Toward(w[i], dir) = w[i + 1]
      BY <1>5, <1>8, <3>1
    <3> QED
      BY <3>2, StepsInto DEF Leaving
  <2> QED
    BY <2>1
<1>10. Trail(w)
  BY <1>6, <1>7, <1>9 DEF Trail
<1>11. Turning(w, most)
  BY <1>6 DEF Turning
<1>12. /\ sd.len \in 1 .. Len(w) /\ sd.dir \in 0 .. 3 /\ sd.len <= most
       /\ n \in 1 .. most /\ <<>> \in Seq(SUBSET (0 .. 3))
       /\ Len(<<>>) - (Len(w) - sd.len) \in {0, 1}
       /\ \A m \in 1 .. Len(<<>>) : FALSE
  BY <1>6
<1>13. /\ \A i \in 1 .. sd.len - 1 : Leaving(w, i) = sd.dir
       /\ dir = IF Len(w) > 1 THEN Leaving(w, Len(w) - 1) ELSE sd.dir
       /\ \A k \in 1 .. Len(w) - 1 : EndsIn(w, k) => k <= n
  <2>1. Len(w) > 1 => Len(w) - 1 \in 1 .. n - 1
    BY <1>6
  <2>2. sd.dir = dir /\ sd.len = n
    OBVIOUS
  <2>3. \A i \in 1 .. sd.len - 1 : Leaving(w, i) = sd.dir
    BY <1>9, <2>2
  <2>4. dir = IF Len(w) > 1 THEN Leaving(w, Len(w) - 1) ELSE sd.dir
    BY <1>9, <2>1, <2>2
  <2>5. \A k \in 1 .. Len(w) - 1 : k <= n
    BY <1>6
  <2> QED
    BY <2>3, <2>4, <2>5
<1>14. Grows(w, <<>>, sd, dir, n, most)
  BY <1>11, <1>12, <1>13 DEF Grows
<1> QED
  BY <1>6, <1>10, <1>14

\* A function from the numbers up to n is a sequence of n.
LEMMA NumberedIs ==
  ASSUME NEW n \in Nat, NEW S, NEW f \in [1 .. n -> S]
  PROVE  f \in Seq(S) /\ Len(f) = n
OBVIOUS

\* What is left of a number, and of one that is a little greater.
LEMMA Remainder ==
  ASSUME NEW n \in Nat \ {0}, NEW q \in Int, NEW r \in 0 .. n - 1, NEW x \in Nat, x = n * q + r
  PROVE  x % n = r
<1>1. x = n * (x \div n) + (x % n) /\ x % n \in 0 .. n - 1 /\ x \div n \in Int
  OBVIOUS
<1>2. PICK d \in Int : d = x \div n
  BY <1>1
<1>3. PICK e \in Int : e = q - d
  OBVIOUS
<1>4. n * e = n * q - n * d
  BY <1>3
<1>5. PICK s \in 0 .. n - 1 : s = x % n
  BY <1>1
<1>6. n * e = s - r
  <2> DEFINE a == n * q
             b == n * d
             c == n * e
  <2>1. a + r = b + s /\ c = a - b /\ a \in Int /\ b \in Int
    BY <1>1, <1>2, <1>4, <1>5
  <2> HIDE DEF a, b, c
  <2>2. c = s - r
    BY <2>1
  <2> QED
    BY <2>2 DEF c
<1>7. (e < 0 => n * e <= -n) /\ (e > 0 => n * e >= n)
  OBVIOUS
<1>8. e = 0
  BY <1>6, <1>7
<1>9. n * e = 0
  BY <1>8
<1> QED
  BY <1>5, <1>6, <1>9

LEMMA FurtherRound ==
  ASSUME NEW n \in Nat \ {0}, NEW k \in Nat, NEW j \in 0 .. n
  PROVE  (k + j) % n = IF (k % n) + j < n THEN (k % n) + j ELSE (k % n) + j - n
<1>1. k = n * (k \div n) + (k % n) /\ k % n \in 0 .. n - 1 /\ k \div n \in Int
  OBVIOUS
<1>2. PICK q \in Int, c \in 0 .. n - 1 : q = k \div n /\ c = k % n /\ k = n * q + c
  BY <1>1
<1>3. CASE c + j < n
  <2>1. k + j = n * q + (c + j) /\ c + j \in 0 .. n - 1 /\ k + j \in Nat
    <3> DEFINE a == n * q
    <3>1. a \in Int /\ k = a + c
      BY <1>2
    <3> HIDE DEF a
    <3>2. k + j = a + (c + j) /\ c + j \in 0 .. n - 1 /\ k + j \in Nat
      BY <1>2, <1>3, <3>1
    <3> QED
      BY <3>2 DEF a
  <2>2. (k + j) % n = c + j
    <3>1. PICK s \in 0 .. n - 1, x \in Nat : s = c + j /\ x = k + j
      BY <2>1
    <3>2. x = n * q + s
      BY <2>1, <3>1
    <3>3. x % n = s
      BY <3>2, Remainder
    <3> QED
      BY <3>1, <3>3
  <2> QED
    BY <1>2, <1>3, <2>2
<1>4. CASE c + j >= n
  <2>1. n * (q + 1) = n * q + n
    OBVIOUS
  <2>2. k + j = n * (q + 1) + (c + j - n) /\ c + j - n \in 0 .. n - 1 /\ k + j \in Nat /\ q + 1 \in Int
    <3> DEFINE a == n * q
               b == n * (q + 1)
    <3>1. a \in Int /\ k = a + c /\ b = a + n
      BY <1>2, <2>1
    <3> HIDE DEF a, b
    <3>2. k + j = b + (c + j - n) /\ c + j - n \in 0 .. n - 1 /\ k + j \in Nat /\ q + 1 \in Int
      BY <1>2, <1>4, <3>1
    <3> QED
      BY <3>2 DEF b
  <2>3. (k + j) % n = c + j - n
    <3>1. PICK p \in Int, s \in 0 .. n - 1, x \in Nat : p = q + 1 /\ s = c + j - n /\ x = k + j
      BY <2>2
    <3>2. x = n * p + s
      BY <2>2, <3>1
    <3>3. x % n = s
      BY <3>2, Remainder
    <3> QED
      BY <3>1, <3>3
  <2> QED
    BY <1>2, <1>4, <2>3
<1> QED
  BY <1>3, <1>4

\* A circle's cells in their order, and the one after each of them.
LEMMA CircleIs ==
  ASSUME NEW w, Circle(w)
  PROVE  /\ Trail(w) /\ Len(w) \in Nat /\ Len(w) >= 4
         /\ \A m \in 1 .. Len(w) : Neighbours(w[m], w[IF m = Len(w) THEN 1 ELSE m + 1])
         /\ \A i \in Nat : /\ i % Len(w) \in 0 .. Len(w) - 1
                           /\ At(w, i) = w[(i % Len(w)) + 1]
                           /\ At(w, i + 1) = w[IF (i % Len(w)) + 1 = Len(w) THEN 1
                                                ELSE (i % Len(w)) + 1 + 1]
                           /\ Neighbours(At(w, i), At(w, i + 1))
                           /\ At(w, i) # At(w, i + 1)
<1>1. Trail(w) /\ Len(w) \in Nat /\ Len(w) >= 4
  BY TrailIs DEF Circle
<1>2. \A m \in 1 .. Len(w) : Neighbours(w[m], w[IF m = Len(w) THEN 1 ELSE m + 1])
  <2>1. ASSUME NEW m \in 1 .. Len(w) PROVE Neighbours(w[m], w[IF m = Len(w) THEN 1 ELSE m + 1])
    <3>1. CASE m = Len(w)
      BY <3>1 DEF Circle
    <3>2. CASE m # Len(w)
      <4>1. m \in 1 .. Len(w) - 1
        BY <1>1, <3>2
      <4> QED
        BY <1>1, <3>2, <4>1 DEF Trail
    <3> QED
      BY <3>1, <3>2
  <2> QED
    BY <2>1
<1>3. ASSUME NEW i \in Nat
      PROVE  /\ i % Len(w) \in 0 .. Len(w) - 1
             /\ At(w, i) = w[(i % Len(w)) + 1]
             /\ At(w, i + 1) = w[IF (i % Len(w)) + 1 = Len(w) THEN 1 ELSE (i % Len(w)) + 1 + 1]
             /\ Neighbours(At(w, i), At(w, i + 1))
             /\ At(w, i) # At(w, i + 1)
  <2>1. PICK n \in Nat \ {0} : n = Len(w)
    BY <1>1
  <2>2. PICK c : c = i % n
    OBVIOUS
  <2>3. c \in 0 .. n - 1
    BY <2>2
  <2>4. (i + 1) % n = IF c + 1 < n THEN c + 1 ELSE c + 1 - n
    <3>1. 1 \in 0 .. n
      OBVIOUS
    <3> QED
      BY <2>2, <3>1, FurtherRound
  <2>5. At(w, i) = w[c + 1] /\ At(w, i + 1) = w[(IF c + 1 < n THEN c + 1 ELSE c + 1 - n) + 1]
    BY <2>1, <2>2, <2>4 DEF At
  <2>6. (IF c + 1 < n THEN c + 1 ELSE c + 1 - n) + 1 = IF c + 1 = n THEN 1 ELSE c + 1 + 1
    BY <2>3
  <2>7. c + 1 \in 1 .. n /\ (IF c + 1 = n THEN 1 ELSE c + 1 + 1) \in 1 .. n
        /\ c + 1 # IF c + 1 = n THEN 1 ELSE c + 1 + 1
    BY <1>1, <2>1, <2>3
  <2>8. At(w, i) # At(w, i + 1)
    BY <2>1, <2>5, <2>6, <2>7, <1>1 DEF Trail
  <2>9. Neighbours(At(w, i), At(w, i + 1))
    BY <1>2, <2>1, <2>5, <2>6, <2>7
  <2> QED
    BY <2>1, <2>2, <2>3, <2>5, <2>6, <2>8, <2>9
<1> QED
  BY <1>1, <1>2, <1>3

\* It is a circle from whichever cell it begins.
LEMMA CircleTurned ==
  ASSUME NEW w, Circle(w), NEW k \in Nat, NEW v, v = [i \in DOMAIN w |-> At(w, k + i - 1)]
  PROVE  Circle(v) /\ ToSet(v) = ToSet(w) /\ Len(v) = Len(w)
<1>1. PICK n : n = Len(w)
  OBVIOUS
<1>2. n \in Nat \ {0} /\ n >= 4 /\ Trail(w) /\ DOMAIN w = 1 .. n /\ w \in Seq(Grid)
  BY <1>1, CircleIs, TrailIs DEF Trail
<1>3. PICK c : c = k % n
  OBVIOUS
<1>4. c \in 0 .. n - 1
  BY <1>2, <1>3
<1> DEFINE at(i) == IF c + i <= n THEN c + i ELSE c + i - n
<1>5. \A i \in 1 .. n : v[i] = w[at(i)]
  <2>1. ASSUME NEW i \in 1 .. n PROVE v[i] = w[at(i)]
    <3>1. i - 1 \in 0 .. n /\ k + i - 1 = k + (i - 1)
      BY <1>2
    <3>2. (k + (i - 1)) % n = IF c + (i - 1) < n THEN c + (i - 1) ELSE c + (i - 1) - n
      BY <1>2, <1>3, <3>1, FurtherRound
    <3>3. v[i] = w[((k + (i - 1)) % n) + 1]
      BY <1>1, <1>2, <3>1 DEF At
    <3>4. (IF c + (i - 1) < n THEN c + (i - 1) ELSE c + (i - 1) - n) + 1 = at(i)
      BY <1>2, <1>4
    <3> QED
      BY <3>2, <3>3, <3>4
  <2> QED
    BY <2>1
<1>6. \A i \in 1 .. n : at(i) \in 1 .. n
  BY <1>2, <1>4
<1>7. \A i, j \in 1 .. n : at(i) = at(j) => i = j
  BY <1>2, <1>4
<1>8. \A m \in 1 .. n : \E i \in 1 .. n : at(i) = m
  <2>1. ASSUME NEW m \in 1 .. n PROVE \E i \in 1 .. n : at(i) = m
    <3>1. CASE m > c
      <4>1. m - c \in 1 .. n /\ at(m - c) = m
        BY <1>2, <1>4, <3>1
      <4> QED
        BY <4>1
    <3>2. CASE m <= c
      <4>1. m - c + n \in 1 .. n /\ at(m - c + n) = m
        BY <1>2, <1>4, <3>2
      <4> QED
        BY <4>1
    <3> QED
      BY <1>4, <3>1, <3>2
  <2> QED
    BY <2>1
<1>9. \A i \in 1 .. n - 1 : at(i + 1) = IF at(i) = n THEN 1 ELSE at(i) + 1
  BY <1>2, <1>4
<1>10. at(1) = IF at(n) = n THEN 1 ELSE at(n) + 1
  BY <1>2, <1>4
<1> HIDE DEF at
<1>11. v \in Seq(Grid) /\ Len(v) = n
  <2>1. \A i \in 1 .. n : v[i] \in Grid
    BY <1>1, <1>2, <1>5, <1>6, TrailIs
  <2>2. DOMAIN v = 1 .. n
    BY <1>2
  <2>3. v \in [1 .. n -> Grid]
    BY <2>1, <2>2
  <2>4. n \in Nat
    BY <1>2
  <2> QED
    BY <2>3, <2>4, NumberedIs
<1>12. \A i, j \in 1 .. n : v[i] = v[j] => i = j
  <2>1. \A a, b \in 1 .. n : w[a] = w[b] => a = b
    BY <1>1, <1>2 DEF Trail
  <2>2. ASSUME NEW i \in 1 .. n, NEW j \in 1 .. n, v[i] = v[j] PROVE i = j
    <3>1. PICK a \in 1 .. n, b \in 1 .. n : a = at(i) /\ b = at(j)
      BY <1>6
    <3>2. w[a] = w[b]
      BY <1>5, <2>2, <3>1
    <3>3. a = b
      BY <2>1, <3>2
    <3> QED
      BY <1>7, <3>1, <3>3
  <2> QED
    BY <2>2
<1>13. \A m \in 1 .. n : Neighbours(w[m], w[IF m = n THEN 1 ELSE m + 1])
  BY <1>1, CircleIs
<1>14. \A i \in 1 .. n - 1 : Neighbours(v[i], v[i + 1])
  <2>1. ASSUME NEW i \in 1 .. n - 1 PROVE Neighbours(v[i], v[i + 1])
    <3>1. i \in 1 .. n /\ i + 1 \in 1 .. n
      BY <1>2
    <3>2. v[i] = w[at(i)] /\ v[i + 1] = w[IF at(i) = n THEN 1 ELSE at(i) + 1]
      BY <1>5, <1>9, <3>1
    <3> QED
      BY <1>6, <1>13, <3>1, <3>2
  <2> QED
    BY <2>1
<1>15. Neighbours(v[n], v[1])
  <2>1. n \in 1 .. n /\ 1 \in 1 .. n
    BY <1>2
  <2>2. v[n] = w[at(n)] /\ v[1] = w[IF at(n) = n THEN 1 ELSE at(n) + 1]
    BY <1>5, <1>10, <2>1
  <2> QED
    BY <1>6, <1>13, <2>1, <2>2
<1>16. ToSet(v) = ToSet(w)
  <2>1. DOMAIN v = 1 .. n /\ DOMAIN w = 1 .. n
    BY <1>2, <1>11
  <2>2. \A i \in 1 .. n : v[i] \in ToSet(w)
    BY <1>5, <1>6, <2>1 DEF ToSet
  <2>3. \A m \in 1 .. n : w[m] \in ToSet(v)
    BY <1>5, <1>8, <2>1 DEF ToSet
  <2> QED
    BY <2>1, <2>2, <2>3 DEF ToSet
<1>17. v # <<>>
  BY <1>2, <1>11
<1> QED
  BY <1>1, <1>2, <1>11, <1>12, <1>14, <1>15, <1>16, <1>17 DEF Circle, Trail

\* gs_walk_rotate_to_straight begins at one of its cells.
LEMMA RotatedIs ==
  ASSUME NEW w, Circle(w)
  PROVE  Circle(Rotated(w)) /\ ToSet(Rotated(w)) = ToSet(w) /\ Len(Rotated(w)) = Len(w)
<1>1. PICK n : n = Len(w)
  OBVIOUS
<1>2. n \in Nat /\ n >= 4
  BY <1>1, CircleIs
<1>3. \A i \in 0 .. n - 1 : Straight(w, i) \in 1 .. n
  <2>1. ASSUME NEW i \in 0 .. n - 1 PROVE Straight(w, i) \in 1 .. n
    <3> DEFINE S == {m \in 1 .. Len(w) : \A j \in 0 .. m - 1 :
                       Heading(At(w, i + j), At(w, i + j + 1)) = Heading(At(w, i), At(w, i + 1))}
    <3>1. 1 \in S
      <4>1. \A j \in 0 .. 1 - 1 : i + j = i /\ i + j + 1 = i + 1
        OBVIOUS
      <4> QED
        BY <1>1, <1>2, <4>1
    <3>2. S \subseteq 1 .. n /\ 1 .. n \subseteq 0 .. n
      BY <1>1
    <3>3. Straight(w, i) = Max(S)
      BY DEF Straight
    <3> HIDE DEF S
    <3>4. S \in SUBSET (0 .. n) /\ S # {}
      BY <3>1, <3>2
    <3>5. Max(S) \in S
      BY <1>2, <3>4, MaxOf
    <3> QED
      BY <3>2, <3>3, <3>5
  <2> QED
    BY <2>1
<1> DEFINE L == {Straight(w, i) : i \in 0 .. Len(w) - 1}
           longest == Max(L)
           B == {i \in 0 .. Len(w) - 1 : Straight(w, i) = longest}
           best == Min(B)
<1>4. longest \in L /\ longest \in Nat
  <2>1. L \subseteq 1 .. n /\ 1 .. n \subseteq 0 .. n
    BY <1>1, <1>3
  <2>2. Straight(w, 0) \in L
    BY <1>1, <1>2
  <2> HIDE DEF L
  <2>3. Max(L) \in L
    BY <1>2, <2>1, <2>2, MaxOf
  <2>4. longest = Max(L)
    OBVIOUS
  <2> HIDE DEF longest
  <2>5. longest \in L
    BY <2>3, <2>4
  <2>6. longest \in 1 .. n
    BY <2>1, <2>5
  <2> QED
    BY <1>2, <2>5, <2>6
<1>5. best \in Nat
  <2>1. \E i \in 0 .. n - 1 : Straight(w, i) = longest
    <3> HIDE DEF longest
    <3> QED
      BY <1>1, <1>4
  <2>2. B \subseteq Nat /\ B # {}
    <3> HIDE DEF longest
    <3>1. 0 .. n - 1 \subseteq Nat
      BY <1>2
    <3> QED
      BY <1>1, <2>1, <3>1
  <2> HIDE DEF B
  <2>3. \E x \in B : \A y \in B : x <= y
    BY <2>2, LeastNat
  <2>4. Min(B) \in B
    BY <2>3 DEF Min
  <2> QED
    BY <2>2, <2>4
<1>6. longest \div 2 \in Nat
  BY <1>4
<1>7. Rotated(w) = [i \in DOMAIN w |-> At(w, best + longest \div 2 + i - 1)]
  BY DEF Rotated
<1> HIDE DEF best, longest
<1>8. PICK k \in Nat : k = best + longest \div 2
  BY <1>5, <1>6
<1>9. Rotated(w) = [i \in DOMAIN w |-> At(w, k + i - 1)]
  BY <1>7, <1>8
<1> QED
  BY <1>9, CircleTurned

\* Cells next to each other, by their numbers.
LEMMA SideBySide ==
  ASSUME NEW x \in Int, NEW y \in Int, NEW u \in Int, NEW v \in Int,
         \/ v = y /\ u - x \in {-1, 1}
         \/ u = x /\ v - y \in {-1, 1}
  PROVE  Neighbours(<<x, y>>, <<u, v>>)
<1>1. PICK c : c = <<x, y>>
  OBVIOUS
<1>2. c[1] = x /\ c[2] = y
  BY <1>1
<1>3. \A d \in 0 .. 3 : Toward(c, d) = IF d = 0 THEN <<c[1] + 1, c[2] + 0>>
                          ELSE IF d = 1 THEN <<c[1] + 0, c[2] + 1>>
                          ELSE IF d = 2 THEN <<c[1] + (-1), c[2] + 0>>
                          ELSE <<c[1] + 0, c[2] + (-1)>>
  BY TowardIs
<1>4. PICK d \in 0 .. 3 : d = IF v = y THEN (IF u - x = 1 THEN 0 ELSE 2)
                              ELSE IF v - y = 1 THEN 1 ELSE 3
  OBVIOUS
<1>5. Toward(c, d) = <<u, v>>
  BY <1>2, <1>3, <1>4
<1> QED
  BY <1>1, <1>5 DEF Neighbours

\* gs_walk_cycle begins with four cells in a square.
LEMMA SquareIs ==
  ASSUME NEW c \in (0 .. GridX - 2) \X (0 .. GridY - 2), NEW w,
         w = <<c, Toward(c, 0), Toward(Toward(c, 0), 1), Toward(c, 1)>>
  PROVE  Circle(w)
<1>1. PICK x \in 0 .. GridX - 2, y \in 0 .. GridY - 2 : c = <<x, y>>
  OBVIOUS
<1>2. Toward(c, 0) = <<x + 1, y>> /\ Toward(<<x + 1, y>>, 1) = <<x + 1, y + 1>>
      /\ Toward(c, 1) = <<x, y + 1>>
  <2>1. Toward(c, 0) = <<c[1] + 1, c[2] + 0>> /\ Toward(c, 1) = <<c[1] + 0, c[2] + 1>>
    BY TowardIs
  <2>2. ASSUME NEW d PROVE Toward(d, 1) = <<d[1] + 0, d[2] + 1>>
    <3>1. 1 \in 0 .. 3
      OBVIOUS
    <3> QED
      BY <3>1, TowardIs
  <2>3. c[1] + 1 = x + 1 /\ c[2] + 0 = y /\ c[1] + 0 = x /\ c[2] + 1 = y + 1
    BY <1>1, RouteAssumption
  <2>4. Toward(<<x + 1, y>>, 1) = <<x + 1 + 0, y + 1>>
    BY <2>2
  <2>5. x + 1 + 0 = x + 1
    BY RouteAssumption
  <2> QED
    BY <2>1, <2>3, <2>4, <2>5
<1>3. w = <<<<x, y>>, <<x + 1, y>>, <<x + 1, y + 1>>, <<x, y + 1>>>>
  BY <1>1, <1>2
<1>4. x \in 0 .. GridX - 1 /\ x + 1 \in 0 .. GridX - 1 /\ y \in 0 .. GridY - 1 /\ y + 1 \in 0 .. GridY - 1
      /\ x \in Int /\ y \in Int
  BY RouteAssumption
<1>5. Len(w) = 4 /\ w[1] = <<x, y>> /\ w[2] = <<x + 1, y>> /\ w[3] = <<x + 1, y + 1>>
      /\ w[4] = <<x, y + 1>>
  BY <1>3
<1>6. w[1] \in Grid /\ w[2] \in Grid /\ w[3] \in Grid /\ w[4] \in Grid
  BY <1>4, <1>5, GridIs
<1>7. w \in Seq(Grid)
  <2>1. w = <<w[1], w[2], w[3], w[4]>>
    BY <1>3, <1>5
  <2> QED
    BY <1>6, <2>1
<1>8. Neighbours(w[1], w[2]) /\ Neighbours(w[2], w[3]) /\ Neighbours(w[3], w[4]) /\ Neighbours(w[4], w[1])
  <2>1. Neighbours(<<x, y>>, <<x + 1, y>>)
    BY <1>4, SideBySide
  <2>2. Neighbours(<<x + 1, y>>, <<x + 1, y + 1>>)
    <3>1. x + 1 \in Int /\ y + 1 \in Int /\ (y + 1) - y \in {-1, 1}
      BY <1>4
    <3> QED
      BY <1>4, <3>1, SideBySide
  <2>3. Neighbours(<<x + 1, y + 1>>, <<x, y + 1>>)
    <3>1. x + 1 \in Int /\ y + 1 \in Int /\ x - (x + 1) \in {-1, 1}
      BY <1>4
    <3> QED
      BY <1>4, <3>1, SideBySide
  <2>4. Neighbours(<<x, y + 1>>, <<x, y>>)
    <3>1. y + 1 \in Int /\ y - (y + 1) \in {-1, 1}
      BY <1>4
    <3> QED
      BY <1>4, <3>1, SideBySide
  <2> QED
    BY <1>5, <2>1, <2>2, <2>3, <2>4
<1>9. \A i \in 1 .. Len(w) - 1 : Neighbours(w[i], w[i + 1])
  <2>1. \A i \in 1 .. Len(w) - 1 : i = 1 \/ i = 2 \/ i = 3
    BY <1>5
  <2> QED
    BY <1>8, <2>1
<1>10. \A i, j \in 1 .. Len(w) : w[i] = w[j] => i = j
  <2>1. \A i \in 1 .. Len(w) : i = 1 \/ i = 2 \/ i = 3 \/ i = 4
    BY <1>5
  <2>2. w[1] # w[2] /\ w[1] # w[3] /\ w[1] # w[4] /\ w[2] # w[3] /\ w[2] # w[4] /\ w[3] # w[4]
    BY <1>4, <1>5
  <2> QED
    BY <2>1, <2>2
<1>11. w # <<>>
  BY <1>5
<1> QED
  BY <1>5, <1>7, <1>8, <1>9, <1>10, <1>11 DEF Circle, Trail

\* Two sequences one after the other.
LEMMA OneAfterOther ==
  ASSUME NEW S, NEW one \in Seq(S), NEW other \in Seq(S)
  PROVE  /\ one \o other \in Seq(S) /\ Len(one \o other) = Len(one) + Len(other)
         /\ \A i \in 1 .. Len(one) : (one \o other)[i] = one[i]
         /\ \A i \in 1 .. Len(other) : (one \o other)[Len(one) + i] = other[i]
OBVIOUS

\* An edge of a circle pushed out into two cells that are free leaves a circle.
LEMMA PushedIs ==
  ASSUME NEW w, Circle(w), NEW e \in 0 .. Len(w) - 1, NEW side \in 0 .. 3,
         NEW b, b.edge = e, b.side = side,
         \A i \in {e, e + 1} : /\ OnGrid(Toward(At(w, i), side))
                               /\ Toward(At(w, i), side) \notin ToSet(w)
  PROVE  /\ Circle(Pushed(w, b)) /\ Len(Pushed(w, b)) = Len(w) + 2
         /\ ToSet(Pushed(w, b)) = ToSet(w) \cup {Toward(At(w, e), side), Toward(At(w, e + 1), side)}
<1>1. PICK n : n = Len(w)
  OBVIOUS
<1>2. n \in Nat /\ n >= 4 /\ Trail(w) /\ w \in Seq(Grid) /\ DOMAIN w = 1 .. n /\ e \in 0 .. n - 1
  BY <1>1, CircleIs, TrailIs DEF Trail
<1>3. PICK x, y : x = Toward(At(w, e), side) /\ y = Toward(At(w, e + 1), side)
  OBVIOUS
<1>4. PICK f \in 1 .. n : f = IF e + 1 = n THEN 1 ELSE e + 2
  BY <1>2
<1>5. At(w, e) = w[e + 1] /\ At(w, e + 1) = w[f]
  <2>1. e % n = e
    <3>1. e \in 0 .. n + n - 1 /\ n \in Nat \ {0}
      BY <1>2
    <3> QED
      BY <1>2, <3>1, RoundALoop
  <2>2. At(w, e) = w[(e % n) + 1] /\ At(w, e + 1) = w[IF (e % n) + 1 = n THEN 1 ELSE (e % n) + 1 + 1]
    <3>1. e \in Nat
      BY <1>2
    <3> QED
      BY <1>1, <3>1, CircleIs
  <2>3. e + 1 + 1 = e + 2
    BY <1>2
  <2> QED
    BY <1>4, <2>1, <2>2, <2>3
<1>6. /\ e + 1 \in 1 .. n /\ w[e + 1] \in Grid /\ w[f] \in Grid /\ w[e + 1] # w[f]
      /\ Neighbours(w[e + 1], w[f])
  <2>1. e + 1 \in 1 .. n /\ e \in Nat
    BY <1>2
  <2>2. Neighbours(At(w, e), At(w, e + 1)) /\ At(w, e) # At(w, e + 1)
    BY <2>1, CircleIs
  <2> QED
    BY <1>1, <1>2, <1>4, <1>5, <2>1, <2>2, TrailIs
<1>7. x = Toward(w[e + 1], side) /\ y = Toward(w[f], side) /\ OnGrid(x) /\ OnGrid(y)
      /\ x \notin ToSet(w) /\ y \notin ToSet(w)
  BY <1>3, <1>5
<1>8. x \in Grid /\ y \in Grid /\ x # y
  BY <1>6, <1>7, StepsInto, PushedApart
<1>9. Neighbours(w[e + 1], x) /\ Neighbours(x, y) /\ Neighbours(y, w[f])
  BY <1>6, <1>7, StepsInto, PushedApart
<1> DEFINE v == Pushed(w, b)
           head == SubSeq(w, 1, e + 1)
           tail == SubSeq(w, e + 2, n)
<1>10. v = head \o <<x, y>> \o tail
  BY <1>1, <1>3 DEF Pushed
<1>11. /\ head \in Seq(Grid) /\ Len(head) = e + 1
       /\ \A i \in 1 .. e + 1 : head[i] = w[i]
  BY <1>2
<1>12. /\ tail \in Seq(Grid) /\ Len(tail) = n - e - 1
       /\ \A i \in 1 .. n - e - 1 : tail[i] = w[e + 1 + i]
  BY <1>2
<1> HIDE DEF v, head, tail
<1>13. PICK m : m = head \o <<x, y>>
  OBVIOUS
<1>14. m \in Seq(Grid) /\ Len(m) = e + 3 /\ m[e + 2] = x /\ m[e + 3] = y
       /\ \A i \in 1 .. e + 1 : m[i] = w[i]
  <2>1. <<x, y>> \in Seq(Grid) /\ Len(<<x, y>>) = 2 /\ <<x, y>>[1] = x /\ <<x, y>>[2] = y
    BY <1>8
  <2>2. PICK p : p = <<x, y>>
    OBVIOUS
  <2>3. p \in Seq(Grid) /\ Len(p) = 2 /\ p[1] = x /\ p[2] = y /\ m = head \o p
    BY <1>13, <2>1, <2>2
  <2>4. e \in Nat /\ head \in Seq(Grid) /\ Len(head) = e + 1
    BY <1>2, <1>11
  <2>5. m \in Seq(Grid) /\ Len(m) = e + 3 /\ \A i \in 1 .. e + 1 : m[i] = head[i]
    <3>1. /\ head \o p \in Seq(Grid) /\ Len(head \o p) = Len(head) + Len(p)
          /\ \A i \in 1 .. Len(head) : (head \o p)[i] = head[i]
      <4>1. head \in Seq(Grid) /\ p \in Seq(Grid)
        BY <2>3, <2>4
      <4> QED
        BY <4>1, OneAfterOther
    <3>2. Len(head) + Len(p) = e + 3
      BY <2>3, <2>4
    <3> QED
      BY <2>3, <2>4, <3>1, <3>2
  <2>6. m[e + 2] = x /\ m[e + 3] = y
    <3>1. \A i \in 1 .. 2 : m[Len(head) + i] = p[i]
      <4>1. \A i \in 1 .. Len(p) : (head \o p)[Len(head) + i] = p[i]
        <5>1. head \in Seq(Grid) /\ p \in Seq(Grid)
          BY <2>3, <2>4
        <5> QED
          BY <5>1, OneAfterOther
      <4> QED
        BY <2>3, <4>1
    <3>2. Len(head) + 1 = e + 2 /\ Len(head) + 2 = e + 3
      BY <2>4
    <3>3. m[Len(head) + 1] = p[1] /\ m[Len(head) + 2] = p[2]
      BY <3>1
    <3> QED
      BY <2>3, <3>2, <3>3
  <2> QED
    BY <1>11, <2>5, <2>6
<1>15. v \in Seq(Grid) /\ Len(v) = n + 2
       /\ (\A i \in 1 .. e + 1 : v[i] = w[i]) /\ v[e + 2] = x /\ v[e + 3] = y
       /\ \A i \in e + 4 .. n + 2 : v[i] = w[i - 2]
  <2>1. v = m \o tail /\ e \in Nat /\ n \in Nat
    BY <1>2, <1>10, <1>13
  <2>2. v \in Seq(Grid) /\ Len(v) = n + 2
    BY <1>2, <1>12, <1>14, <2>1
  <2>3. \A i \in 1 .. e + 3 : v[i] = m[i]
    BY <1>12, <1>14, <2>1
  <2>4. \A i \in e + 4 .. n + 2 : v[i] = tail[i - (e + 3)]
    BY <1>2, <1>12, <1>14, <2>1
  <2>5. \A i \in e + 4 .. n + 2 : i - (e + 3) \in 1 .. n - e - 1 /\ e + 1 + (i - (e + 3)) = i - 2
    BY <1>2
  <2>6. \A i \in e + 4 .. n + 2 : v[i] = w[i - 2]
    BY <1>12, <2>4, <2>5
  <2>7. e + 2 \in 1 .. e + 3 /\ e + 3 \in 1 .. e + 3 /\ \A i \in 1 .. e + 1 : i \in 1 .. e + 3
    BY <2>1
  <2> QED
    BY <1>14, <2>2, <2>3, <2>6, <2>7
<1>16. DOMAIN v = 1 .. n + 2
  BY <1>2, <1>15
<1>17. ToSet(v) = ToSet(w) \cup {x, y}
  <2>1. ASSUME NEW i \in 1 .. n + 2 PROVE v[i] \in ToSet(w) \cup {x, y}
    <3>1. i \in 1 .. e + 1 \/ i = e + 2 \/ i = e + 3 \/ i \in e + 4 .. n + 2
      BY <1>2
    <3>2. i \in 1 .. e + 1 => i \in 1 .. n
      BY <1>2
    <3>3. i \in e + 4 .. n + 2 => i - 2 \in 1 .. n
      BY <1>2
    <3> QED
      BY <1>2, <1>15, <3>1, <3>2, <3>3 DEF ToSet
  <2>2. ASSUME NEW i \in 1 .. n PROVE w[i] \in ToSet(v)
    <3>1. CASE i <= e + 1
      <4>1. i \in 1 .. e + 1 /\ i \in 1 .. n + 2
        BY <1>2, <3>1
      <4> QED
        BY <1>15, <1>16, <4>1 DEF ToSet
    <3>2. CASE i > e + 1
      <4>1. i + 2 \in e + 4 .. n + 2 /\ i + 2 \in 1 .. n + 2 /\ i + 2 - 2 = i
        BY <1>2, <3>2
      <4>2. v[i + 2] = w[i]
        BY <1>15, <4>1
      <4> QED
        BY <1>16, <4>1, <4>2 DEF ToSet
    <3> QED
      BY <1>2, <3>1, <3>2
  <2>3. x \in ToSet(v) /\ y \in ToSet(v)
    <3>1. e + 2 \in 1 .. n + 2 /\ e + 3 \in 1 .. n + 2
      BY <1>2
    <3> QED
      BY <1>15, <1>16, <3>1 DEF ToSet
  <2>4. \A c \in ToSet(v) : \E i \in 1 .. n + 2 : c = v[i]
    BY <1>16 DEF ToSet
  <2>5. \A c \in ToSet(w) : \E i \in 1 .. n : c = w[i]
    BY <1>2 DEF ToSet
  <2> QED
    BY <2>1, <2>2, <2>3, <2>4, <2>5
<1>18. \A i, j \in 1 .. n + 2 : v[i] = v[j] => i = j
  <2>1. \A i, j \in 1 .. n : w[i] = w[j] => i = j
    BY <1>1, <1>2 DEF Trail
  <2>2. \A i \in 1 .. n : w[i] # x /\ w[i] # y
    BY <1>1, <1>2, <1>7, TrailIs
  <2>3. \A i \in 1 .. n + 2 : i \in 1 .. e + 1 \/ i = e + 2 \/ i = e + 3 \/ i \in e + 4 .. n + 2
    BY <1>2
  <2>4. \A i \in 1 .. e + 1 : i \in 1 .. n /\ v[i] = w[i]
    BY <1>2, <1>15
  <2>5. \A i \in e + 4 .. n + 2 : i - 2 \in 1 .. n /\ i - 2 > e + 1 /\ v[i] = w[i - 2]
    BY <1>2, <1>15
  <2>7. ASSUME NEW i \in 1 .. n + 2
        PROVE  (v[i] = x => i = e + 2) /\ (v[i] = y => i = e + 3)
    <3>1. CASE i \in 1 .. e + 1
      BY <2>2, <2>4, <3>1
    <3>2. CASE i \in e + 4 .. n + 2
      BY <2>2, <2>5, <3>2
    <3>3. CASE i = e + 2
      BY <1>8, <1>15, <3>3
    <3>4. CASE i = e + 3
      BY <1>8, <1>15, <3>4
    <3> QED
      BY <2>3, <3>1, <3>2, <3>3, <3>4
  <2>6. ASSUME NEW i \in 1 .. n + 2, NEW j \in 1 .. n + 2, v[i] = v[j] PROVE i = j
    <3>1. CASE i = e + 2 \/ j = e + 2
      <4>1. v[e + 2] = x
        BY <1>15
      <4>2. v[i] = x /\ v[j] = x
        BY <2>6, <3>1, <4>1
      <4> QED
        BY <2>7, <4>2
    <3>2. CASE i = e + 3 \/ j = e + 3
      <4>1. v[e + 3] = y
        BY <1>15
      <4>2. v[i] = y /\ v[j] = y
        BY <2>6, <3>2, <4>1
      <4> QED
        BY <2>7, <4>2
    <3>3. CASE i \in 1 .. e + 1 /\ j \in 1 .. e + 1
      BY <2>1, <2>4, <2>6, <3>3
    <3>4. CASE i \in e + 4 .. n + 2 /\ j \in e + 4 .. n + 2
      <4>1. i - 2 = j - 2
        BY <2>1, <2>5, <2>6, <3>4
      <4> QED
        BY <1>2, <4>1
    <3>5. CASE i \in 1 .. e + 1 /\ j \in e + 4 .. n + 2
      <4>1. i = j - 2
        BY <2>1, <2>4, <2>5, <2>6, <3>5
      <4> QED
        BY <1>2, <2>5, <4>1, <3>5
    <3>6. CASE j \in 1 .. e + 1 /\ i \in e + 4 .. n + 2
      <4>1. j = i - 2
        BY <2>1, <2>4, <2>5, <2>6, <3>6
      <4> QED
        BY <1>2, <2>5, <4>1, <3>6
    <3> QED
      BY <2>3, <3>1, <3>2, <3>3, <3>4, <3>5, <3>6
  <2> QED
    BY <2>6
<1>19. \A i \in 1 .. n - 1 : Neighbours(w[i], w[i + 1])
  BY <1>1, <1>2 DEF Trail
<1>20. \A i \in 1 .. n + 1 : Neighbours(v[i], v[i + 1])
  <2>1. ASSUME NEW i \in 1 .. n + 1 PROVE Neighbours(v[i], v[i + 1])
    <3>1. CASE i <= e
      <4>1. i \in 1 .. e + 1 /\ i + 1 \in 1 .. e + 1 /\ i \in 1 .. n - 1
        BY <1>2, <3>1
      <4> QED
        BY <1>15, <1>19, <4>1
    <3>2. CASE i = e + 1
      <4>1. e + 1 \in 1 .. e + 1 /\ i + 1 = e + 2
        BY <1>2, <3>2
      <4> QED
        BY <1>9, <1>15, <3>2, <4>1
    <3>3. CASE i = e + 2
      <4>1. i + 1 = e + 3
        BY <1>2, <3>3
      <4> QED
        BY <1>9, <1>15, <3>3, <4>1
    <3>4. CASE i = e + 3
      <4>1. e + 1 # n /\ f = e + 2 /\ i + 1 \in e + 4 .. n + 2 /\ i + 1 - 2 = f
        BY <1>2, <1>4, <3>4
      <4>2. v[i] = y /\ v[i + 1] = w[f]
        BY <1>15, <3>4, <4>1
      <4> QED
        BY <1>9, <4>2
    <3>5. CASE i > e + 3
      <4>1. i \in e + 4 .. n + 2 /\ i + 1 \in e + 4 .. n + 2 /\ i - 2 \in 1 .. n - 1
            /\ i + 1 - 2 = i - 2 + 1
        BY <1>2, <3>5
      <4>2. v[i] = w[i - 2] /\ v[i + 1] = w[i - 2 + 1]
        BY <1>15, <4>1
      <4> QED
        BY <1>19, <4>1, <4>2
    <3> QED
      BY <1>2, <3>1, <3>2, <3>3, <3>4, <3>5
  <2> QED
    BY <2>1
<1>21. Neighbours(v[n + 2], v[1])
  <2>1. 1 \in 1 .. e + 1 /\ v[1] = w[1]
    BY <1>2, <1>15
  <2>2. CASE e + 1 = n
    <3>1. v[n + 2] = y /\ f = 1
      BY <1>2, <1>4, <1>15, <2>2
    <3> QED
      BY <1>9, <2>1, <3>1
  <2>3. CASE e + 1 # n
    <3>1. n + 2 \in e + 4 .. n + 2 /\ n + 2 - 2 = n
      BY <1>2, <2>3
    <3>2. v[n + 2] = w[n] /\ Neighbours(w[n], w[1])
      BY <1>1, <1>15, <3>1 DEF Circle
    <3> QED
      BY <2>1, <3>2
  <2> QED
    BY <2>2, <2>3
<1>22. v # <<>> /\ Len(v) >= 4 /\ Len(v) - 1 = n + 1
  BY <1>2, <1>15
<1>23. Circle(v)
  BY <1>15, <1>18, <1>20, <1>21, <1>22 DEF Circle, Trail
<1> QED
  BY <1>1, <1>3, <1>15, <1>17, <1>23 DEF v

\* The last resort: two sides of the grid are a trail, and all four are a circle.
LEMMA EdgeIs == (Loop => Circle(EdgeOfGrid)) /\ (~Loop => Trail(EdgeOfGrid))
<1>1. PICK a \in Nat, b \in Nat : a = GridX /\ b = GridY /\ a >= 2 /\ b >= 2
  BY RouteAssumption
<1> DEFINE north == [i \in 1 .. GridX |-> <<i - 1, 0>>]
           east == [i \in 1 .. GridY - 1 |-> <<GridX - 1, i>>]
           south == [i \in 1 .. GridX - 1 |-> <<GridX - 1 - i, GridY - 1>>]
           west == [i \in 1 .. GridY - 2 |-> <<0, GridY - 1 - i>>]
           two == north \o east
           three == two \o south
           four == three \o west
<1>2. \A x \in 0 .. a - 1, y \in 0 .. b - 1 : <<x, y>> \in Grid
  BY <1>1, GridIs
<1>3. north \in Seq(Grid) /\ Len(north) = a /\ \A i \in 1 .. a : north[i] = <<i - 1, 0>>
  <2>1. \A i \in 1 .. a : i - 1 \in 0 .. a - 1 /\ 0 \in 0 .. b - 1
    BY <1>1
  <2>2. north \in [1 .. a -> Grid]
    BY <1>1, <1>2, <2>1
  <2> QED
    BY <1>1, <2>2, NumberedIs
<1>4. east \in Seq(Grid) /\ Len(east) = b - 1 /\ \A i \in 1 .. b - 1 : east[i] = <<a - 1, i>>
  <2>1. \A i \in 1 .. b - 1 : i \in 0 .. b - 1 /\ a - 1 \in 0 .. a - 1
    BY <1>1
  <2>2. east \in [1 .. b - 1 -> Grid] /\ b - 1 \in Nat
    BY <1>1, <1>2, <2>1
  <2> QED
    BY <1>1, <2>2, NumberedIs
<1>5. /\ south \in Seq(Grid) /\ Len(south) = a - 1
      /\ \A i \in 1 .. a - 1 : south[i] = <<a - 1 - i, b - 1>>
  <2>1. \A i \in 1 .. a - 1 : a - 1 - i \in 0 .. a - 1 /\ b - 1 \in 0 .. b - 1
    BY <1>1
  <2>2. south \in [1 .. a - 1 -> Grid] /\ a - 1 \in Nat
    BY <1>1, <1>2, <2>1
  <2> QED
    BY <1>1, <2>2, NumberedIs
<1>6. west \in Seq(Grid) /\ Len(west) = b - 2 /\ \A i \in 1 .. b - 2 : west[i] = <<0, b - 1 - i>>
  <2>1. \A i \in 1 .. b - 2 : b - 1 - i \in 0 .. b - 1 /\ 0 \in 0 .. a - 1
    BY <1>1
  <2>2. west \in [1 .. b - 2 -> Grid] /\ b - 2 \in Nat
    BY <1>1, <1>2, <2>1
  <2> QED
    BY <1>1, <2>2, NumberedIs
<1>7. EdgeOfGrid = IF Loop THEN Rotated(four) ELSE two
  BY DEF EdgeOfGrid
<1> HIDE DEF north, east, south, west
<1>8. /\ two \in Seq(Grid) /\ Len(two) = a + b - 1
      /\ \A i \in 1 .. a : two[i] = <<i - 1, 0>>
      /\ \A i \in a + 1 .. a + b - 1 : two[i] = <<a - 1, i - a>>
  <2>1. /\ two \in Seq(Grid) /\ Len(two) = Len(north) + Len(east)
        /\ \A i \in 1 .. Len(north) : two[i] = north[i]
        /\ \A i \in 1 .. Len(east) : two[Len(north) + i] = east[i]
    <3>1. north \in Seq(Grid) /\ east \in Seq(Grid)
      BY <1>3, <1>4
    <3> QED
      BY <3>1, OneAfterOther
  <2>2. \A i \in a + 1 .. a + b - 1 : i - a \in 1 .. b - 1 /\ a + (i - a) = i
    BY <1>1
  <2> HIDE DEF two
  <2>3. \A i \in a + 1 .. a + b - 1 : two[i] = east[i - a]
    BY <1>3, <1>4, <2>1, <2>2
  <2>4. Len(two) = a + b - 1
    BY <1>1, <1>3, <1>4, <2>1
  <2> QED
    BY <1>3, <1>4, <2>1, <2>2, <2>3, <2>4
<1> HIDE DEF two
<1>9. /\ three \in Seq(Grid) /\ Len(three) = 2 * a + b - 2
      /\ \A i \in 1 .. a + b - 1 : three[i] = two[i]
      /\ \A i \in a + b .. 2 * a + b - 2 : three[i] = <<2 * a + b - 2 - i, b - 1>>
  <2>1. /\ three \in Seq(Grid) /\ Len(three) = Len(two) + Len(south)
        /\ \A i \in 1 .. Len(two) : three[i] = two[i]
        /\ \A i \in 1 .. Len(south) : three[Len(two) + i] = south[i]
    <3>1. two \in Seq(Grid) /\ south \in Seq(Grid)
      BY <1>5, <1>8
    <3> QED
      BY <3>1, OneAfterOther
  <2>2. \A i \in a + b .. 2 * a + b - 2 :
           /\ i - (a + b - 1) \in 1 .. a - 1 /\ a + b - 1 + (i - (a + b - 1)) = i
           /\ a - 1 - (i - (a + b - 1)) = 2 * a + b - 2 - i
    BY <1>1
  <2> HIDE DEF three
  <2>3. \A i \in a + b .. 2 * a + b - 2 : three[i] = south[i - (a + b - 1)]
    BY <1>5, <1>8, <2>1, <2>2
  <2>4. Len(three) = 2 * a + b - 2
    BY <1>1, <1>5, <1>8, <2>1
  <2>5. \A i \in a + b .. 2 * a + b - 2 : three[i] = <<2 * a + b - 2 - i, b - 1>>
    BY <1>5, <2>2, <2>3
  <2> QED
    BY <1>8, <2>1, <2>4, <2>5
<1> HIDE DEF three
<1>10. /\ four \in Seq(Grid) /\ Len(four) = 2 * a + 2 * b - 4
       /\ \A i \in 1 .. 2 * a + b - 2 : four[i] = three[i]
       /\ \A i \in 2 * a + b - 1 .. 2 * a + 2 * b - 4 : four[i] = <<0, 2 * a + 2 * b - 3 - i>>
  <2>1. /\ four \in Seq(Grid) /\ Len(four) = Len(three) + Len(west)
        /\ \A i \in 1 .. Len(three) : four[i] = three[i]
        /\ \A i \in 1 .. Len(west) : four[Len(three) + i] = west[i]
    <3>1. three \in Seq(Grid) /\ west \in Seq(Grid)
      BY <1>6, <1>9
    <3> QED
      BY <3>1, OneAfterOther
  <2>2. \A i \in 2 * a + b - 1 .. 2 * a + 2 * b - 4 :
           /\ i - (2 * a + b - 2) \in 1 .. b - 2 /\ 2 * a + b - 2 + (i - (2 * a + b - 2)) = i
           /\ b - 1 - (i - (2 * a + b - 2)) = 2 * a + 2 * b - 3 - i
    BY <1>1
  <2> HIDE DEF four
  <2>3. \A i \in 2 * a + b - 1 .. 2 * a + 2 * b - 4 : four[i] = west[i - (2 * a + b - 2)]
    <3>1. Len(west) = b - 2 /\ Len(three) = 2 * a + b - 2
      BY <1>6, <1>9
    <3>2. \A j \in 1 .. b - 2 : four[2 * a + b - 2 + j] = west[j]
      BY <2>1, <3>1
    <3> QED
      BY <2>2, <3>2
  <2>4. Len(four) = 2 * a + 2 * b - 4
    BY <1>1, <1>6, <1>9, <2>1
  <2>5. \A i \in 2 * a + b - 1 .. 2 * a + 2 * b - 4 : four[i] = <<0, 2 * a + 2 * b - 3 - i>>
    BY <1>6, <2>2, <2>3
  <2> QED
    BY <1>9, <2>1, <2>4, <2>5
<1> HIDE DEF four
<1> DEFINE n == 2 * a + 2 * b - 4
           X(i) == IF i <= a THEN i - 1 ELSE IF i <= a + b - 1 THEN a - 1
                   ELSE IF i <= 2 * a + b - 2 THEN 2 * a + b - 2 - i ELSE 0
           Y(i) == IF i <= a THEN 0 ELSE IF i <= a + b - 1 THEN i - a
                   ELSE IF i <= 2 * a + b - 2 THEN b - 1 ELSE 2 * a + 2 * b - 3 - i
<1>11. \A i \in 1 .. n : four[i] = <<X(i), Y(i)>>
  <2>1. ASSUME NEW i \in 1 .. n PROVE four[i] = <<X(i), Y(i)>>
    <3>1. CASE i <= a
      <4>1. i \in 1 .. a /\ i \in 1 .. a + b - 1 /\ i \in 1 .. 2 * a + b - 2
        BY <1>1, <3>1
      <4> QED
        BY <1>8, <1>9, <1>10, <3>1, <4>1
    <3>2. CASE i > a /\ i <= a + b - 1
      <4>1. i \in a + 1 .. a + b - 1 /\ i \in 1 .. a + b - 1 /\ i \in 1 .. 2 * a + b - 2 /\ ~(i <= a)
        BY <1>1, <3>2
      <4> QED
        BY <1>8, <1>9, <1>10, <3>2, <4>1
    <3>3. CASE i > a + b - 1 /\ i <= 2 * a + b - 2
      <4>1. i \in a + b .. 2 * a + b - 2 /\ i \in 1 .. 2 * a + b - 2 /\ ~(i <= a) /\ ~(i <= a + b - 1)
        BY <1>1, <3>3
      <4> QED
        BY <1>9, <1>10, <3>3, <4>1
    <3>4. CASE i > 2 * a + b - 2
      <4>1. i \in 2 * a + b - 1 .. 2 * a + 2 * b - 4 /\ ~(i <= a) /\ ~(i <= a + b - 1)
            /\ ~(i <= 2 * a + b - 2)
        BY <1>1, <3>4
      <4> QED
        BY <1>10, <4>1
    <3> QED
      BY <1>1, <3>1, <3>2, <3>3, <3>4
  <2> QED
    BY <2>1
<1>12. \A i \in 1 .. a + b - 1 : two[i] = <<X(i), Y(i)>>
  <2>1. ASSUME NEW i \in 1 .. a + b - 1 PROVE two[i] = <<X(i), Y(i)>>
    <3>1. CASE i <= a
      <4>1. i \in 1 .. a
        BY <1>1, <3>1
      <4> QED
        BY <1>8, <3>1, <4>1
    <3>2. CASE i > a
      <4>1. i \in a + 1 .. a + b - 1 /\ ~(i <= a) /\ i <= a + b - 1
        BY <1>1, <3>2
      <4> QED
        BY <1>8, <4>1
    <3> QED
      BY <1>1, <3>1, <3>2
  <2> QED
    BY <2>1
<1>13. \A i, j \in 1 .. n : X(i) = X(j) /\ Y(i) = Y(j) => i = j
  BY <1>1
<1>14. \A i \in 1 .. n : X(i) \in Int /\ Y(i) \in Int
  BY <1>1
<1>15. \A i \in 1 .. n - 1 : \/ Y(i + 1) = Y(i) /\ X(i + 1) - X(i) \in {-1, 1}
                             \/ X(i + 1) = X(i) /\ Y(i + 1) - Y(i) \in {-1, 1}
  BY <1>1
<1>16. X(n) = 0 /\ Y(n) = 1 /\ X(1) = 0 /\ Y(1) = 0 /\ n \in Nat /\ n >= 4 /\ a + b - 1 \in 1 .. n
  BY <1>1
<1> HIDE DEF X, Y, n
<1>17. \A i \in 1 .. n - 1 : Neighbours(<<X(i), Y(i)>>, <<X(i + 1), Y(i + 1)>>)
  <2>1. ASSUME NEW i \in 1 .. n - 1
        PROVE  Neighbours(<<X(i), Y(i)>>, <<X(i + 1), Y(i + 1)>>)
    <3>1. i \in 1 .. n /\ i + 1 \in 1 .. n
      BY <1>16
    <3>2. X(i) \in Int /\ Y(i) \in Int /\ X(i + 1) \in Int /\ Y(i + 1) \in Int
      BY <1>14, <3>1
    <3>3. \/ Y(i + 1) = Y(i) /\ X(i + 1) - X(i) \in {-1, 1}
          \/ X(i + 1) = X(i) /\ Y(i + 1) - Y(i) \in {-1, 1}
      BY <1>15
    <3> QED
      BY <3>2, <3>3, SideBySide
  <2> QED
    BY <2>1
<1>18. ASSUME NEW w \in Seq(Grid), Len(w) \in 1 .. n,
              \A i \in 1 .. Len(w) : w[i] = <<X(i), Y(i)>>
       PROVE  Trail(w)
  <2>1. \A i \in 1 .. Len(w) : i \in 1 .. n
    BY <1>16, <1>18
  <2>2. \A i, j \in 1 .. Len(w) : w[i] = w[j] => i = j
    BY <1>13, <1>18, <2>1
  <2>3. \A i \in 1 .. Len(w) - 1 : i \in 1 .. n - 1 /\ i \in 1 .. Len(w) /\ i + 1 \in 1 .. Len(w)
    BY <1>16, <1>18
  <2>4. \A i \in 1 .. Len(w) - 1 : Neighbours(w[i], w[i + 1])
    BY <1>17, <1>18, <2>3
  <2>5. w # <<>>
    BY <1>18
  <2> QED
    BY <1>18, <2>2, <2>4, <2>5 DEF Trail
<1>19. Trail(two)
  BY <1>8, <1>12, <1>16, <1>18
<1>20. Circle(four)
  <2>1. Len(four) = n
    BY <1>10 DEF n
  <2>2. Trail(four)
    BY <1>10, <1>11, <1>16, <1>18, <2>1
  <2>3. Neighbours(<<X(n), Y(n)>>, <<X(1), Y(1)>>)
    <3>1. Neighbours(<<0, 1>>, <<0, 0>>)
      BY SideBySide
    <3> QED
      BY <1>16, <3>1
  <2>4. n \in 1 .. n /\ 1 \in 1 .. n
    BY <1>16
  <2> QED
    BY <1>11, <1>16, <2>1, <2>2, <2>3, <2>4 DEF Circle
<1> QED
  BY <1>7, <1>19, <1>20, RotatedIs

\* The dial for straights, as a number, and how long a path is when it begins.
LEMMA MostIs == MaxRun \in Nat /\ MaxRun >= 2
<1> DEFINE soft == {k \in SoftenAt : tries >= k}
           dial == CASE spec.straight = "broken" -> 2 [] spec.straight = "balanced" -> 4
                     [] OTHER -> 7
<1>1. IsFiniteSet(soft)
  BY RouteAssumption, FS_Subset
<1>2. Cardinality(soft) \in Nat
  BY <1>1, FS_CardinalityType
<1>3. dial \in {2, 4, 7}
  OBVIOUS
<1>4. MaxRun = dial + Cardinality(soft)
  BY DEF MaxRun
<1> HIDE DEF dial, soft
<1> QED
  BY <1>2, <1>3, <1>4

LEMMA SeedRunIs ==
  ASSUME asked \in Nat \ {0}
  PROVE  SeedRun \in Nat \ {0} /\ SeedRun <= MaxRun
<1> DEFINE some == {IF spec.straight = "power" THEN 7 ELSE 3, GridX - 1, MaxRun, asked}
<1>1. some \subseteq Nat \ {0} /\ some \subseteq Nat /\ some # {} /\ MaxRun \in some
  BY MostIs, RouteAssumption
<1>2. SeedRun = Min(some)
  BY DEF SeedRun
<1> HIDE DEF some
<1>3. \E x \in some : \A y \in some : x <= y
  BY <1>1, LeastNat
<1>4. Min(some) \in some /\ \A y \in some : Min(some) <= y
  BY <1>3 DEF Min
<1> QED
  BY <1>1, <1>2, <1>4

\* The dials stay, so does what is asked of the walk.
LEMMA SameDials ==
  ASSUME spec' = spec
  PROVE  Loop' = Loop /\ (tries' = tries => MaxRun' = MaxRun)
BY DEF Loop, MaxRun

\* gs_walk_path, gs_walk_cycle: a walk begins.
LEMMA BeginKeepsWalk ==
  ASSUME RouteInv, BeginWalk
  PROVE  WalkInv'
<1>1. /\ stage = "vetted" /\ stage' = "growing" /\ spec' = spec /\ tries' = tries /\ asked' = asked
      /\ untried' = <<>> /\ asked \in Nat \ {0}
  BY DEF BeginWalk, RouteInv
<1>2. Loop' = Loop /\ MaxRun' = MaxRun
  BY <1>1, SameDials
<1>3. CASE Loop
  <2>1. PICK c \in (0 .. GridX - 2) \X (0 .. GridY - 2) :
           walk' = <<c, Toward(c, 0), Toward(Toward(c, 0), 1), Toward(c, 1)>>
    BY <1>3 DEF BeginWalk, BeginCycle
  <2>2. visited' = ToSet(walk')
    BY <1>3 DEF BeginWalk, BeginCycle
  <2>3. Circle(walk')
    BY <2>1, SquareIs
  <2>4. Trail(walk')
    BY <2>3 DEF Circle
  <2> QED
    BY <1>1, <1>2, <1>3, <2>2, <2>3, <2>4 DEF WalkInv
<1>4. CASE ~Loop
  <2>1. PICK d \in 0 .. 3, c \in Grid :
          LET fits == SeedRun <= IF East[d + 1] # 0 THEN GridX ELSE GridY
              dir == IF fits THEN d ELSE (d + 1) % 4
              line == [i \in 1 .. SeedRun |-> <<c[1] + East[dir + 1] * (i - 1),
                                                c[2] + South[dir + 1] * (i - 1)>>]
          IN  /\ \A i \in DOMAIN line : OnGrid(line[i])
              /\ walk' = line /\ visited' = ToSet(line)
              /\ seed' = [dir |-> dir, len |-> SeedRun] /\ heading' = dir /\ run' = SeedRun
    BY <1>4 DEF BeginWalk, BeginPath
  <2> DEFINE dir == IF SeedRun <= IF East[d + 1] # 0 THEN GridX ELSE GridY
                    THEN d ELSE (d + 1) % 4
  <2>2. dir \in 0 .. 3
    OBVIOUS
  <2>3. /\ walk' = [i \in 1 .. SeedRun |-> <<c[1] + East[dir + 1] * (i - 1),
                                             c[2] + South[dir + 1] * (i - 1)>>]
        /\ \A i \in 1 .. SeedRun : OnGrid(walk'[i])
        /\ visited' = ToSet(walk')
        /\ seed' = [dir |-> dir, len |-> SeedRun] /\ heading' = dir /\ run' = SeedRun
    BY <2>1
  <2>4. SeedRun \in Nat \ {0} /\ SeedRun <= MaxRun /\ MaxRun \in Nat
    BY <1>1, SeedRunIs, MostIs
  <2> HIDE DEF dir
  <2>5. Trail(walk') /\ Grows(walk', <<>>, [dir |-> dir, len |-> SeedRun], dir, SeedRun, MaxRun)
    <3>1. PICK w, n, most, sd : w = walk' /\ n = SeedRun /\ most = MaxRun /\ sd = [dir |-> dir, len |-> n]
      OBVIOUS
    <3>2. n \in Nat \ {0} /\ most \in Nat /\ n <= most
      BY <2>4, <3>1
    <3>3. w = LineFrom(c, dir, n)
      BY <2>3, <3>1 DEF LineFrom
    <3>4. \A i \in 1 .. n : OnGrid(w[i])
      BY <2>3, <3>1
    <3>5. Trail(w) /\ Grows(w, <<>>, sd, dir, n, most)
      BY <2>2, <3>1, <3>2, <3>3, <3>4, LineIs
    <3> QED
      BY <3>1, <3>5
  <2>6. Grows(walk', untried', seed', heading', run', MaxRun')
    BY <1>1, <1>2, <2>3, <2>5
  <2>7. Growing'
    BY <2>6 DEF Growing
  <2> QED
    BY <1>1, <1>2, <1>4, <2>3, <2>5, <2>7 DEF WalkInv
<1> QED
  BY <1>3, <1>4

\* gs_walk_path: it looks round from its last cell, and goes on from there.
LEMMA LookKeepsWalk ==
  ASSUME RouteInv, LookAround
  PROVE  WalkInv'
<1>1. /\ stage = "growing" /\ stage' = "growing" /\ ~Loop /\ spec' = spec /\ tries' = tries
      /\ asked' = asked /\ walk' = walk /\ visited' = visited /\ seed' = seed
      /\ heading' = heading /\ run' = run /\ Len(untried) <= Len(walk) - seed.len
  BY DEF LookAround
<1>2. Trail(walk) /\ visited = ToSet(walk) /\ Growing
  BY <1>1 DEF RouteInv, WalkInv
<1>3. Loop' = Loop /\ MaxRun' = MaxRun
  BY <1>1, SameDials
<1> DEFINE S == {dir \in 0 .. 3 : /\ dir # (heading + 2) % 4 /\ OnGrid(Toward(Last(walk), dir))
                                  /\ Toward(Last(walk), dir) \notin visited
                                  /\ ~(dir = heading /\ run >= MaxRun)}
<1>4. untried' = Append(untried, S)
  BY DEF LookAround
<1>5. S \in SUBSET (0 .. 3) /\ \A dir \in S : OnGrid(Toward(walk[Len(walk)], dir))
  BY DEF Last
<1> HIDE DEF S
<1>6. Grows(walk, Append(untried, S), seed, heading, run, MaxRun)
  BY <1>1, <1>2, <1>5, GrowsLooked DEF Growing
<1>7. Growing'
  BY <1>1, <1>3, <1>4, <1>6 DEF Growing
<1> QED
  BY <1>1, <1>2, <1>3, <1>7 DEF WalkInv

LEMMA StepKeepsWalk ==
  ASSUME RouteInv, StepOn
  PROVE  WalkInv'
<1>1. /\ stage = "growing" /\ stage' = "growing" /\ ~Loop /\ spec' = spec /\ tries' = tries
      /\ asked' = asked /\ seed' = seed /\ Len(untried) > Len(walk) - seed.len
  BY DEF StepOn, Looked
<1>2. Trail(walk) /\ visited = ToSet(walk) /\ Growing
  BY <1>1 DEF RouteInv, WalkInv
<1>3. Loop' = Loop /\ MaxRun' = MaxRun
  BY <1>1, SameDials
<1>4. PICK dir \in Last(untried) :
        LET c == Toward(Last(walk), dir)
            free == c \notin visited /\ ~(dir = heading /\ run >= MaxRun)
        IN  /\ untried' = [untried EXCEPT ![Len(untried)] = @ \ {dir}]
            /\ walk' = IF free THEN Append(walk, c) ELSE walk
            /\ visited' = IF free THEN visited \cup {c} ELSE visited
            /\ run' = IF ~free THEN run ELSE IF dir = heading THEN run + 1 ELSE 1
            /\ heading' = IF free THEN dir ELSE heading
  BY DEF StepOn
<1>5. /\ Len(untried) \in Nat /\ Len(walk) \in Nat /\ seed.len \in 1 .. Len(walk)
      /\ Len(untried) - (Len(walk) - seed.len) \in {0, 1}
      /\ untried \in Seq(SUBSET (0 .. 3))
  BY <1>2, TrailIs DEF Growing, Grows
<1>6. /\ Len(untried) >= 1 /\ Len(untried) \in 1 .. Len(untried)
      /\ seed.len + Len(untried) - 1 = Len(walk)
  BY <1>1, <1>5
<1>7. dir \in untried[Len(untried)] /\ dir \in 0 .. 3
  BY <1>5, <1>6 DEF Last
<1> DEFINE c == Toward(walk[Len(walk)], dir)
           u == [untried EXCEPT ![Len(untried)] = @ \ {dir}]
           free == c \notin visited /\ ~(dir = heading /\ run >= MaxRun)
<1>8. /\ untried' = u
      /\ walk' = IF free THEN Append(walk, c) ELSE walk
      /\ visited' = IF free THEN visited \cup {c} ELSE visited
      /\ run' = IF ~free THEN run ELSE IF dir = heading THEN run + 1 ELSE 1
      /\ heading' = IF free THEN dir ELSE heading
  BY <1>4 DEF Last
<1>9. Grows(walk, u, seed, heading, run, MaxRun)
  BY <1>2, <1>6, GrowsTried DEF Growing
<1>10. Len(u) = Len(untried)
  BY <1>5, <1>6
<1>11. OnGrid(c)
  BY <1>2, <1>6, <1>7 DEF Growing, Grows
<1>12. walk[Len(walk)] \in Grid
  BY <1>2, TrailIs
<1>13. c \in Grid /\ Neighbours(walk[Len(walk)], c)
  BY <1>7, <1>11, <1>12, StepsInto
<1> HIDE DEF u
<1>14. CASE free
  <2>1. /\ walk' = Append(walk, c) /\ visited' = ToSet(walk) \cup {c} /\ heading' = dir
        /\ run' = IF dir = heading THEN run + 1 ELSE 1
    BY <1>2, <1>8, <1>14
  <2>2. ~(dir = heading /\ run >= MaxRun) /\ c \notin ToSet(walk)
    BY <1>2, <1>14
  <2>3. Grows(Append(walk, c), u, seed, dir, IF dir = heading THEN run + 1 ELSE 1, MaxRun)
    BY <1>1, <1>2, <1>7, <1>9, <1>10, <1>13, <2>2, GrowsOn
  <2>4. Trail(Append(walk, c)) /\ ToSet(Append(walk, c)) = ToSet(walk) \cup {c}
    BY <1>2, <1>13, <2>2, TrailOn
  <2> HIDE DEF c, free
  <2>5. Growing'
    BY <1>1, <1>3, <1>8, <2>1, <2>3 DEF Growing
  <2> QED
    BY <1>1, <1>3, <2>1, <2>4, <2>5 DEF WalkInv
<1>15. CASE ~free
  <2>1. walk' = walk /\ visited' = visited /\ heading' = heading /\ run' = run
    BY <1>8, <1>15
  <2>2. Growing'
    BY <1>1, <1>3, <1>8, <1>9, <2>1 DEF Growing
  <2> QED
    BY <1>1, <1>2, <1>3, <2>1, <2>2 DEF WalkInv
<1> QED
  BY <1>14, <1>15

\* It gives up, or goes back a cell.
LEMMA GivenUpKeepsWalk ==
  ASSUME GiveUp
  PROVE  WalkInv'
<1>1. stage' = "vetted" /\ walk' = <<>> /\ visited' = {}
  BY DEF GiveUp, NoWalk
<1> QED
  BY <1>1 DEF WalkInv

LEMMA BackKeepsWalk ==
  ASSUME RouteInv, BackOut
  PROVE  WalkInv'
<1>1. CASE Len(untried) = 1
  BY <1>1, GivenUpKeepsWalk DEF BackOut
<1>2. CASE Len(untried) # 1
  <2>1. /\ stage = "growing" /\ stage' = "growing" /\ ~Loop /\ spec' = spec /\ tries' = tries
        /\ asked' = asked /\ seed' = seed /\ Len(untried) > Len(walk) - seed.len
        /\ untried' = Front(untried) /\ walk' = Front(walk)
        /\ visited' = visited \ {Last(walk)}
    BY <1>2 DEF BackOut, Looked
  <2>2. heading' = Restored(walk').dir /\ run' = Restored(walk').run
    BY <1>2 DEF BackOut
  <2>3. Trail(walk) /\ visited = ToSet(walk) /\ Growing
    BY <2>1 DEF RouteInv, WalkInv
  <2>4. Loop' = Loop /\ MaxRun' = MaxRun
    BY <2>1, SameDials
  <2> DEFINE v == Front(walk)
             h == IF Len(v) > seed.len THEN Heading(v[Len(v) - 1], v[Len(v)]) ELSE seed.dir
             r == IF Len(v) > seed.len THEN RunOf(v) ELSE seed.len
  <2>5. Len(walk) > 1 /\ Grows(v, Front(untried), seed, h, r, MaxRun)
    BY <1>2, <2>1, <2>3, GrowsBack DEF Growing
  <2>6. Restored(v).dir = h /\ Restored(v).run = r
    BY DEF Restored
  <2>7. Trail(v) /\ ToSet(v) = ToSet(walk) \ {Last(walk)}
    BY <2>3, <2>5, TrailBack
  <2> HIDE DEF v, h, r
  <2>8. walk' = v
    BY <2>1 DEF v
  <2>9. heading' = h /\ run' = r
    BY <2>2, <2>6, <2>8
  <2>10. Growing'
    BY <2>1, <2>4, <2>5, <2>8, <2>9 DEF Growing
  <2> QED
    BY <2>1, <2>3, <2>4, <2>7, <2>8, <2>10 DEF WalkInv
<1> QED
  BY <1>1, <1>2

\* gs_walk_cycle: an edge of the cycle is pushed out.
LEMMA BumpKeepsWalk ==
  ASSUME RouteInv, Bump
  PROVE  WalkInv'
<1>1. /\ stage = "growing" /\ stage' = "growing" /\ Loop /\ spec' = spec /\ tries' = tries
  BY DEF Bump
<1>2. Trail(walk) /\ visited = ToSet(walk) /\ Circle(walk)
  BY <1>1 DEF RouteInv, WalkInv
<1>3. Loop' = Loop
  BY <1>1, SameDials
<1>4. PICK b \in Wanted(FreeBumps) :
        /\ walk' = Pushed(walk, b)
        /\ visited' = visited \cup {Toward(At(walk, b.edge), b.side),
                                    Toward(At(walk, b.edge + 1), b.side)}
  BY DEF Bump
<1>5. b \in FreeBumps
  <2> DEFINE liked == CASE spec.straight = "power"  -> {x \in FreeBumps : ~x.onrun}
                        [] spec.straight = "broken" -> {x \in FreeBumps : x.onrun}
                        [] OTHER -> FreeBumps
  <2>1. liked \subseteq FreeBumps
    OBVIOUS
  <2>2. Wanted(FreeBumps) = IF liked = {} THEN FreeBumps ELSE liked
    BY DEF Wanted
  <2> HIDE DEF liked
  <2> QED
    BY <1>4, <2>1, <2>2
<1>6. b \in Bumps /\ \A i \in {b.edge, b.edge + 1} :
          OnGrid(Toward(At(walk, i), b.side)) /\ Toward(At(walk, i), b.side) \notin visited
  BY <1>5 DEF FreeBumps
<1>7. PICK e \in 0 .. Len(walk) - 1, turn \in {1, 3} :
        /\ b.edge = e
        /\ b.side = (Heading(At(walk, e), At(walk, e + 1)) + turn) % 4
  BY <1>6 DEF Bumps
<1>8. b.side \in 0 .. 3
  <2>1. e \in Nat
    BY <1>7, <1>2, CircleIs
  <2>2. Neighbours(At(walk, e), At(walk, e + 1))
    BY <1>2, <2>1, CircleIs
  <2>3. PICK h \in 0 .. 3 : h = Heading(At(walk, e), At(walk, e + 1))
    BY <2>2, HeadingIs
  <2>4. (h + turn) % 4 \in 0 .. 3
    BY <2>3, <1>7
  <2> QED
    BY <1>7, <2>3, <2>4
<1>9. PICK side \in 0 .. 3 : b.side = side
  BY <1>8
<1>10. \A i \in {e, e + 1} : /\ OnGrid(Toward(At(walk, i), side))
                             /\ Toward(At(walk, i), side) \notin ToSet(walk)
  BY <1>2, <1>6, <1>7, <1>9
<1>11. /\ Circle(Pushed(walk, b))
       /\ ToSet(Pushed(walk, b))
             = ToSet(walk) \cup {Toward(At(walk, e), side), Toward(At(walk, e + 1), side)}
  BY <1>2, <1>7, <1>9, <1>10, PushedIs
<1>12. Circle(walk') /\ visited' = ToSet(walk')
  BY <1>2, <1>4, <1>7, <1>9, <1>11
<1>13. Trail(walk')
  BY <1>12 DEF Circle
<1> QED
  BY <1>1, <1>3, <1>12, <1>13 DEF WalkInv

\* It has grown as far as it goes.
LEMMA GrownKeepsWalk ==
  ASSUME RouteInv, Grow
  PROVE  WalkInv'
<1>1. CASE Loop /\ Len(walk) < 8
  BY <1>1, GivenUpKeepsWalk DEF Grow
<1>2. CASE ~(Loop /\ Len(walk) < 8)
  <2>1. /\ stage = "growing" /\ stage' = "grown" /\ spec' = spec /\ tries' = tries
        /\ asked' = asked /\ visited' = visited /\ walk' = IF Loop THEN Rotated(walk) ELSE walk
        /\ ~Loop => Len(walk) >= asked
    BY <1>2 DEF Grow
  <2>2. Trail(walk) /\ visited = ToSet(walk) /\ (Loop => Circle(walk)) /\ Len(walk) \in Nat
    BY <2>1, TrailIs DEF RouteInv, WalkInv
  <2>3. Loop' = Loop
    BY <2>1, SameDials
  <2>4. CASE Loop
    <3>1. walk' = Rotated(walk) /\ Len(walk) >= 8
      BY <1>2, <2>1, <2>2, <2>4
    <3>2. Circle(walk') /\ ToSet(walk') = ToSet(walk) /\ Len(walk') = Len(walk)
      BY <2>2, <2>4, <3>1, RotatedIs
    <3>3. Trail(walk')
      BY <3>2 DEF Circle
    <3> QED
      BY <2>1, <2>2, <2>3, <2>4, <3>1, <3>2, <3>3 DEF WalkInv
  <2>5. CASE ~Loop
    BY <2>1, <2>2, <2>3, <2>5 DEF WalkInv
  <2> QED
    BY <2>4, <2>5
<1> QED
  BY <1>1, <1>2

\* gs_walk_fallback: the edge of the grid.
LEMMA ResortKeepsWalk ==
  ASSUME RouteInv, LastResort
  PROVE  WalkInv'
<1>1. /\ stage' = "grown" /\ tries = Attempts /\ spec' = spec /\ tries' = tries
      /\ walk' = EdgeOfGrid /\ visited' = ToSet(walk')
  BY DEF LastResort
<1>2. Loop' = Loop
  BY <1>1, SameDials
<1>3. Trail(walk') /\ (Loop => Circle(walk'))
  BY <1>1, EdgeIs DEF Circle
<1>4. ~(tries' < Attempts)
  BY <1>1, RouteAssumption
<1> QED
  BY <1>1, <1>2, <1>3, <1>4 DEF WalkInv

\* Where nothing walks, there is no walk.
LEMMA AfterKeepsWalk ==
  ASSUME RouteInv,
         DrawSpec \/ Plan \/ LayRamp \/ BeginLift \/ LayGap \/ LayCrest \/ LayGates \/ LayShortcut
  PROVE  WalkInv'
<1>1. CASE Plan
  BY <1>1 DEF Plan, NoWalk, WalkInv
<1>2. CASE DrawSpec \/ LayRamp \/ BeginLift \/ LayGap \/ LayCrest \/ LayGates \/ LayShortcut
  <2>1. stage \notin {"growing", "grown"} /\ stage' \notin {"growing", "grown"}
    BY <1>2 DEF DrawSpec, LayRamp, BeginLift, LayGap, LayCrest, LayGates, LayShortcut
  <2>2. walk' = walk /\ visited' = visited
    BY <1>2 DEF DrawSpec, LayRamp, BeginLift, LayGap, LayCrest, LayGates, LayShortcut, walkVars
  <2> QED
    BY <2>1, <2>2 DEF WalkInv, RouteInv
<1> QED
  BY <1>1, <1>2

LEMMA InSequence ==
  ASSUME NEW S, NEW s \in Seq(S)
  PROVE  \A i \in 1 .. Len(s) : s[i] \in S
OBVIOUS

\* What is laid stays as it is while the route grows.
LEMMA GrowingKeepsLaid ==
  ASSUME RouteInv, DrawSpec \/ BeginWalk \/ LookAround \/ StepOn \/ BackOut \/ Budget \/ Bump
                   \/ Grow \/ LastResort
  PROVE  LaidInv'
<1>1. stage \in {"drawn", "vetted", "growing", "grown"}
  BY DEF DrawSpec, BeginWalk, LookAround, StepOn, BackOut, Budget, Bump, Grow, LastResort, Looked
<1>2. stage' \in {"drawn", "vetted", "growing", "grown"}
  BY <1>1 DEF DrawSpec, BeginWalk, LookAround, StepOn, BackOut, Budget, Bump, Grow, LastResort,
              GiveUp
<1>3. ramp' = ramp /\ lift' = lift
  BY DEF DrawSpec, BeginWalk, LookAround, StepOn, BackOut, Budget, Bump, Grow, LastResort,
         GiveUp, laidVars
<1> QED
  BY <1>1, <1>2, <1>3 DEF LaidInv, RouteInv

\* A line is made of the walk.
LEMMA PlanKeepsLaid ==
  ASSUME RouteInv, Plan
  PROVE  LaidInv'
<1>1. /\ stage = "grown" /\ stage' = "ramps" /\ ramp' = ramp /\ lift' = lift /\ next' = 0
      /\ route' \in RouteTiles /\ every' \in RampEvery[spec.jumps]
  BY DEF Plan
<1>2. ramp = <<>> /\ lift = <<>>
  BY <1>1 DEF RouteInv, LaidInv
<1>3. spec.jumps \in {"none", "small", "big"}
  BY DEF RouteInv, Dials
<1>4. route' \in Nat \ {0} /\ every' \in Nat /\ every' >= 90
  BY <1>1, <1>3, RouteAssumption
<1>5. RampInv'
  BY <1>1, <1>2 DEF RampInv
<1>6. LiftInv'
  BY <1>1, <1>2 DEF LiftInv, LiftsDontStack
<1> QED
  BY <1>1, <1>4, <1>5, <1>6 DEF LaidInv

\* gs_lay_jumps: however the ramps are jittered, they keep their distance.
LEMMA RampKeepsLaid ==
  ASSUME RouteInv, LayRamp
  PROVE  LaidInv'
<1>1. /\ stage = "ramps" /\ stage' = "ramps" /\ spec' = spec /\ route' = route /\ every' = every
      /\ lift' = lift /\ next' = next + 1
  BY DEF LayRamp
<1>2. /\ RampInv /\ LiftInv /\ route \in Nat \ {0} /\ next \in Nat /\ every \in Nat /\ every >= 90
  BY <1>1 DEF RouteInv, LaidInv
<1>3. PICK e \in Nat, k \in Nat : e = every /\ k = next
  BY <1>2
<1>4. PICK p \in Nat : p = k * e
  BY <1>3
<1>5. PICK h \in Nat, t \in Nat, f \in Nat :
        h = e \div 2 /\ t = e \div 10 /\ f = e \div 5
  BY <1>3
<1>6. /\ 2 * h <= e /\ e <= 2 * h + 1 /\ 10 * t <= e /\ e <= 10 * t + 9 /\ 5 * f <= e /\ e >= 90
  BY <1>2, <1>3, <1>5
<1>7. PICK jitter \in {-(every \div 10), every \div 5 - every \div 10}, radius \in Radii :
        LET site == RunUp + next * every + every \div 2 + jitter
        IN  ramp' = IF site < RunUp \/ site > route - RunOut THEN ramp
                    ELSE Append(ramp, [site |-> site, radius |-> radius])
  BY DEF LayRamp
<1>8. PICK j \in Int : j = jitter /\ j \in {-t, f - t}
  BY <1>3, <1>5, <1>7
<1>9. PICK site \in Int : site = 45 + p + h + j
  OBVIOUS
<1>10. site = RunUp + next * every + every \div 2 + jitter
  BY <1>3, <1>4, <1>5, <1>8, <1>9 DEF RunUp
<1>11. ramp' = ramp \/ (site >= 45 /\ ramp' = Append(ramp, [site |-> site, radius |-> radius]))
  BY <1>7, <1>9, <1>10 DEF RunUp
<1>12. radius \in 5 .. 11 /\ (spec.jumps = "big" => radius \in 9 .. 11)
  BY DEF Radii
<1>13. k + 1 \in Nat /\ (k + 1) * e = p + e
  <2>1. (k + 1) * e = k * e + e
    BY <1>3
  <2> QED
    BY <1>4, <2>1
<1>14. /\ RunUp + next * every + every \div 2 - every \div 10 = 45 + p + h - t
       /\ RunUp + next' * every' + every' \div 2 - every' \div 10 = 45 + p + e + h - t
  BY <1>1, <1>3, <1>4, <1>5, <1>13 DEF RunUp
<1>15. site >= 45 + p + h - t /\ site + 31 <= 45 + p + e + h - t
  BY <1>6, <1>8, <1>9
<1>16. /\ ramp \in Seq([site : Nat, radius : 5 .. 11])
       /\ \A i \in 1 .. Len(ramp) : spec.jumps = "big" => ramp[i].radius \in 9 .. 11
       /\ \A i, m \in 1 .. Len(ramp) : i < m => ramp[i].site + 31 <= ramp[m].site
       /\ \A i \in 1 .. Len(ramp) : ramp[i].site + 31 <= 45 + p + h - t
  BY <1>1, <1>2, <1>14 DEF RampInv
<1>17. \A i \in 1 .. Len(ramp) : ramp[i].site \in Nat
  <2>1. ramp \in Seq([site : Nat, radius : 5 .. 11])
    BY <1>16
  <2>2. \A i \in 1 .. Len(ramp) : ramp[i] \in [site : Nat, radius : 5 .. 11]
    BY <2>1, InSequence
  <2> QED
    BY <2>2
<1>18. /\ ramp' \in Seq([site : Nat, radius : 5 .. 11])
       /\ \A i \in 1 .. Len(ramp') : spec.jumps = "big" => ramp'[i].radius \in 9 .. 11
       /\ \A i, m \in 1 .. Len(ramp') : i < m => ramp'[i].site + 31 <= ramp'[m].site
       /\ \A i \in 1 .. Len(ramp') : ramp'[i].site + 31 <= 45 + p + e + h - t
  <2>1. \A i \in 1 .. Len(ramp) : ramp[i].site + 31 <= 45 + p + e + h - t
    <3>1. ASSUME NEW i \in 1 .. Len(ramp) PROVE ramp[i].site + 31 <= 45 + p + e + h - t
      <4>1. PICK x \in Nat : x = ramp[i].site
        BY <1>17
      <4>2. x + 31 <= 45 + p + h - t
        BY <1>16, <4>1
      <4>3. x + 31 <= 45 + p + e + h - t
        BY <1>3, <1>5, <1>4, <4>2
      <4> QED
        BY <4>1, <4>3
    <3> QED
      BY <3>1
  <2>2. CASE ramp' = ramp
    BY <1>16, <2>1, <2>2
  <2>3. CASE site >= 45 /\ ramp' = Append(ramp, [site |-> site, radius |-> radius])
    <3>1. PICK one \in [site : Nat, radius : 5 .. 11] : one.site = site /\ one.radius = radius
                                                       /\ ramp' = Append(ramp, one)
      BY <1>12, <2>3
    <3>2. PICK n \in Nat : n = Len(ramp)
      BY <1>16
    <3>3. /\ ramp' \in Seq([site : Nat, radius : 5 .. 11]) /\ Len(ramp') = n + 1
          /\ ramp'[n + 1] = one /\ \A i \in 1 .. n : ramp'[i] = ramp[i]
      BY <1>16, <3>1, <3>2
    <3>4. \A i \in 1 .. n + 1 : i \in 1 .. n \/ i = n + 1
      BY <3>2
    <3>5. \A i \in 1 .. n : ramp[i].site + 31 <= site
      BY <1>15, <1>16, <1>17, <1>3, <1>4, <1>5, <3>2
    <3>6. \A i, m \in 1 .. n + 1 : i < m => i \in 1 .. n
      BY <3>2
    <3>7. \A i, m \in 1 .. n + 1 : i < m => ramp'[i].site + 31 <= ramp'[m].site
      BY <1>16, <3>1, <3>2, <3>3, <3>4, <3>5, <3>6
    <3>8. \A i \in 1 .. n + 1 : ramp'[i].site + 31 <= 45 + p + e + h - t
      BY <1>15, <2>1, <3>1, <3>2, <3>3, <3>4
    <3>9. \A i \in 1 .. n + 1 : spec.jumps = "big" => ramp'[i].radius \in 9 .. 11
      BY <1>12, <1>16, <3>1, <3>2, <3>3, <3>4
    <3> QED
      BY <3>3, <3>7, <3>8, <3>9
  <2> QED
    BY <1>11, <2>2, <2>3
<1>19. RampInv'
  BY <1>1, <1>14, <1>18 DEF RampInv
<1>20. LiftInv'
  BY <1>1, <1>2 DEF LiftInv, LiftsDontStack
<1> QED
  BY <1>1, <1>2, <1>19, <1>20 DEF LaidInv

LEMMA TimesMore ==
  ASSUME NEW x \in Nat, NEW y \in Nat, x <= y, NEW s \in Nat
  PROVE  x * s <= y * s /\ x * s \in Nat
<1>1. PICK d \in Nat : y = x + d
  <2>1. y - x \in Nat /\ y = x + (y - x)
    OBVIOUS
  <2> QED
    BY <2>1
<1>2. (x + d) * s = x * s + d * s
  OBVIOUS
<1>3. PICK a \in Nat, b \in Nat : a = x * s /\ b = d * s
  OBVIOUS
<1> QED
  BY <1>1, <1>2, <1>3

\* Whatever the route's length in tiles, it has a sample for each or more.
LEMMA SamplesIs ==
  ASSUME route \in Nat \ {0}
  PROVE  SamplesPerTile \in Nat \ {0}
<1>1. PICK r \in Nat \ {0} : r = route
  OBVIOUS
<1>2. PICK q \in Int : q = 2048 \div r
  OBVIOUS
<1>3. SamplesPerTile = Max({1, q})
  BY <1>1, <1>2 DEF SamplesPerTile, Samples
<1> QED
  BY <1>2, <1>3, MaxPair

\* gs_lift_run: a feature that begins where the last one may end, or after, is not in it.
LEMMA LiftedOn ==
  ASSUME route \in Nat \ {0}, NEW l \in Seq(Nat \X Nat),
         \A i, j \in DOMAIN l : i < j => l[i][2] <= l[j][1],
         NEW from \in Nat, NEW to \in Nat, from <= to,
         \A i \in 1 .. Len(l) : l[i][2] <= from * SamplesPerTile,
         NEW v, v = l \/ v = Append(l, Lifted(from, to))
  PROVE  /\ v \in Seq(Nat \X Nat)
         /\ \A i, j \in DOMAIN v : i < j => v[i][2] <= v[j][1]
         /\ \A i \in 1 .. Len(v) : v[i][2] <= to * SamplesPerTile
<1>1. PICK s \in Nat : s = SamplesPerTile
  BY SamplesIs
<1>2. PICK a \in Nat, b \in Nat : a = from * s /\ b = to * s /\ a <= b
  BY TimesMore
<1>3. PICK m \in Nat : m <= b /\ m = Min({to * s, Samples})
  <2>1. Min({b, 2048}) = IF b <= 2048 THEN b ELSE 2048
    BY MinPair
  <2> QED
    BY <1>2, <2>1 DEF Samples
<1>4. Lifted(from, to) = <<a, m>>
  BY <1>1, <1>2, <1>3 DEF Lifted
<1>5. PICK n \in Nat : n = Len(l) /\ DOMAIN l = 1 .. n
  OBVIOUS
<1>6. \A i \in 1 .. n : l[i] \in Nat \X Nat
  BY <1>5, InSequence
<1>7. \A i \in 1 .. n : l[i][2] \in Nat /\ l[i][2] <= a
  BY <1>1, <1>2, <1>5, <1>6
<1>8. \A i \in 1 .. n : l[i][2] <= b
  <2>1. \A x \in Nat : x <= a => x <= b
    BY <1>2
  <2> QED
    BY <1>7, <2>1
<1>9. CASE v = l
  BY <1>1, <1>2, <1>5, <1>8, <1>9
<1>10. CASE v = Append(l, Lifted(from, to))
  <2>1. PICK x \in Nat \X Nat : x = Lifted(from, to) /\ x[1] = a /\ x[2] = m
    BY <1>4
  <2>2. /\ v \in Seq(Nat \X Nat) /\ Len(v) = n + 1 /\ DOMAIN v = 1 .. n + 1 /\ v[n + 1] = x
        /\ \A i \in 1 .. n : v[i] = l[i]
    BY <1>5, <1>10, <2>1
  <2>3. \A i \in 1 .. n + 1 : i \in 1 .. n \/ i = n + 1
    BY <1>5
  <2>4. \A i, j \in 1 .. n + 1 : i < j => i \in 1 .. n
    BY <1>5
  <2>5. \A i, j \in 1 .. n + 1 : i < j => v[i][2] <= v[j][1]
    BY <1>5, <1>7, <2>1, <2>2, <2>3, <2>4
  <2>6. \A i \in 1 .. n + 1 : v[i][2] <= b
    BY <1>3, <1>8, <2>1, <2>2, <2>3
  <2> QED
    BY <1>1, <1>2, <2>2, <2>5, <2>6
<1> QED
  BY <1>9, <1>10

\* gs_lay_lift begins: no feature is laid yet.
LEMMA LiftBegun ==
  ASSUME RouteInv, BeginLift
  PROVE  LaidInv'
<1>1. /\ stage = "ramps" /\ stage' = "lifts" /\ spec' = spec /\ route' = route /\ ramp' = ramp
      /\ lift' = lift
  BY DEF BeginLift
<1>2. RampInv /\ LiftInv /\ route \in Nat \ {0}
  BY <1>1 DEF RouteInv, LaidInv
<1>3. PICK d \in CrestEvery :
        every' = d /\ next' = IF spec.drama = "crests" THEN RunUp + d \div 2 ELSE 0
  BY DEF BeginLift
<1>4. d \in Nat /\ d >= 110
  BY RouteAssumption
<1>5. d \div 2 \in Nat
  BY <1>4
<1>6. next' \in Nat /\ (spec.drama = "crests" => next' >= 45)
  BY <1>3, <1>5 DEF RunUp
<1>7. every' \in Nat /\ every' >= 90 /\ every' >= 110
  BY <1>3, <1>4
<1>8. RampInv'
  BY <1>1, <1>2 DEF RampInv
<1>9. lift = <<>>
  BY <1>1, <1>2 DEF LiftInv
<1>10. LiftInv'
  BY <1>1, <1>6, <1>9 DEF LiftInv, LiftsDontStack
<1> QED
  BY <1>1, <1>2, <1>6, <1>7, <1>8, <1>10 DEF LaidInv

\* A gap after a ramp ends before the next ramp's foot.
LEMMA GapKeepsLaid ==
  ASSUME RouteInv, LayGap
  PROVE  LaidInv'
<1>1. /\ stage = "lifts" /\ stage' = "lifts" /\ spec.drama = "gaps" /\ spec' = spec
      /\ route' = route /\ every' = every /\ ramp' = ramp /\ next' = next + 1
      /\ next < Len(ramp)
  BY DEF LayGap, LiftsLeft
<1>2. /\ RampInv /\ LiftInv /\ route \in Nat \ {0} /\ next \in Nat /\ every \in Nat /\ every >= 90
  BY <1>1 DEF RouteInv, LaidInv
<1>3. spec.jumps = "big"
  BY <1>1 DEF RouteInv, SpecIsSound
<1>4. PICK k \in Nat, n \in Nat : k = next /\ n = Len(ramp) /\ k < n
  <2>1. ramp \in Seq([site : Nat, radius : 5 .. 11])
    BY <1>2 DEF RampInv
  <2>2. Len(ramp) \in Nat
    BY <2>1
  <2> QED
    BY <1>1, <1>2, <2>2
<1>5. /\ \A j \in 1 .. n : ramp[j].radius \in 9 .. 11 /\ ramp[j].site \in Nat
      /\ \A i, m \in 1 .. n : i < m => ramp[i].site + 31 <= ramp[m].site
  <2>1. \A j \in 1 .. n : ramp[j] \in [site : Nat, radius : 5 .. 11]
    BY <1>2, <1>4, InSequence DEF RampInv
  <2> QED
    BY <1>2, <1>3, <1>4, <2>1 DEF RampInv
<1>6. k + 1 \in 1 .. n
  BY <1>4
<1>7. PICK span \in {6, 9} :
        LET lip == Lip(ramp[next + 1])
            end == lip + GapWall + span + GapWall
        IN  lift' = IF end > route - RunOut THEN lift ELSE Append(lift, Lifted(lip, end))
  BY DEF LayGap
<1>8. PICK lip \in Nat : lip = Lip(ramp[k + 1]) /\ lip <= ramp[k + 1].site + 12
  <2>1. ramp[k + 1].site \in Nat /\ ramp[k + 1].radius \in 9 .. 11
    BY <1>5, <1>6
  <2>2. Lip(ramp[k + 1]) = ramp[k + 1].site + ramp[k + 1].radius + 1
    BY DEF Lip
  <2>3. Lip(ramp[k + 1]) \in Nat /\ Lip(ramp[k + 1]) <= ramp[k + 1].site + 12
    BY <2>1, <2>2
  <2> QED
    BY <2>3
<1>9. PICK to \in Nat : to = lip + GapWall + span + GapWall /\ to <= lip + 29 /\ lip <= to
  BY DEF GapWall
<1>10. lift' = lift \/ lift' = Append(lift, Lifted(lip, to))
  BY <1>4, <1>7, <1>8, <1>9
<1>11. /\ lift \in Seq(Nat \X Nat)
       /\ \A i, j \in DOMAIN lift : i < j => lift[i][2] <= lift[j][1]
       /\ \A i \in 1 .. Len(lift) : lift[i][2] <= lip * SamplesPerTile
  <2>1. k + 1 \in next + 1 .. Len(ramp)
    BY <1>4
  <2> QED
    BY <1>1, <1>2, <1>8, <2>1 DEF LiftInv, LiftsDontStack
<1>12. /\ lift' \in Seq(Nat \X Nat)
       /\ \A i, j \in DOMAIN lift' : i < j => lift'[i][2] <= lift'[j][1]
       /\ \A i \in 1 .. Len(lift') : lift'[i][2] <= to * SamplesPerTile
  <2>1. PICK v : v = lift'
    OBVIOUS
  <2>2. v = lift \/ v = Append(lift, Lifted(lip, to))
    BY <1>10, <2>1
  <2>3. /\ v \in Seq(Nat \X Nat)
        /\ \A i, j \in DOMAIN v : i < j => v[i][2] <= v[j][1]
        /\ \A i \in 1 .. Len(v) : v[i][2] <= to * SamplesPerTile
    <3>1. route \in Nat \ {0} /\ lip <= to
      BY <1>2, <1>9
    <3> QED
      BY <1>11, <2>2, <3>1, LiftedOn
  <2> QED
    BY <2>1, <2>3
<1>13. SamplesPerTile \in Nat /\ SamplesPerTile' = SamplesPerTile
  BY <1>1, <1>2, SamplesIs DEF SamplesPerTile
<1>14. ASSUME NEW i \in 1 .. Len(lift'), NEW j \in k + 2 .. n
       PROVE  lift'[i][2] <= Lip(ramp[j]) * SamplesPerTile
  <2>1. j \in 1 .. n /\ k + 1 < j
    BY <1>4
  <2>2. /\ ramp[j].site \in Nat /\ ramp[j].radius \in 9 .. 11
        /\ ramp[k + 1].site \in Nat /\ ramp[k + 1].site + 31 <= ramp[j].site
    BY <1>5, <1>6, <2>1
  <2>3. Lip(ramp[j]) = ramp[j].site + ramp[j].radius + 1
    BY DEF Lip
  <2>4. Lip(ramp[j]) \in Nat /\ to <= Lip(ramp[j])
    <3>1. PICK x \in Nat, y \in 9 .. 11, z \in Nat :
             x = ramp[j].site /\ y = ramp[j].radius /\ z = ramp[k + 1].site
      BY <2>2
    <3>2. z + 31 <= x /\ to <= lip + 29 /\ lip <= z + 12
      BY <1>8, <1>9, <2>2, <3>1
    <3>3. x + y + 1 \in Nat /\ to <= x + y + 1
      BY <3>2
    <3> QED
      BY <2>3, <3>1, <3>3
  <2>5. to * SamplesPerTile <= Lip(ramp[j]) * SamplesPerTile
    BY <1>13, <2>4, TimesMore
  <2>6. lift'[i][2] \in Nat
    <3>1. lift'[i] \in Nat \X Nat
      BY <1>12, InSequence
    <3> QED
      BY <3>1
  <2>7. PICK a \in Nat, b \in Int : a = to * SamplesPerTile /\ b = Lip(ramp[j]) * SamplesPerTile
    <3>1. PICK x \in Nat, y \in Nat, z \in Nat :
             x = to /\ y = SamplesPerTile /\ z = Lip(ramp[j])
      BY <1>13, <2>4
    <3>2. x * y \in Nat /\ z * y \in Int
      OBVIOUS
    <3> QED
      BY <3>1, <3>2
  <2>8. lift'[i][2] <= a
    BY <1>12, <2>7
  <2> QED
    BY <2>5, <2>6, <2>7, <2>8
<1>15. \A j \in next' + 1 .. Len(ramp') : j \in k + 2 .. n
  BY <1>1, <1>4
<1>16. RampInv'
  BY <1>1, <1>2 DEF RampInv
<1>17. LiftInv'
  <2>1. LiftsDontStack'
    BY <1>12 DEF LiftsDontStack
  <2>2. \A i \in 1 .. Len(lift') : \A j \in next' + 1 .. Len(ramp') :
            lift'[i][2] <= Lip(ramp'[j]) * SamplesPerTile'
    BY <1>1, <1>13, <1>14, <1>15
  <2>3. stage' = "lifts" /\ spec'.drama = "gaps"
    BY <1>1
  <2> QED
    BY <1>12, <2>1, <2>2, <2>3 DEF LiftInv, Lip
<1>18. next' \in Nat
  BY <1>1, <1>2
<1> QED
  BY <1>1, <1>2, <1>16, <1>17, <1>18 DEF LaidInv

\* A crest ends before the next one begins, though each may be shifted toward the other.
LEMMA CrestKeepsLaid ==
  ASSUME RouteInv, LayCrest
  PROVE  LaidInv'
<1>1. /\ stage = "lifts" /\ stage' = "lifts" /\ spec.drama = "crests" /\ spec' = spec
      /\ route' = route /\ every' = every /\ ramp' = ramp /\ next' = next + every
  BY DEF LayCrest
<1>2. /\ RampInv /\ LiftInv /\ route \in Nat \ {0} /\ next \in Nat /\ every \in Nat /\ every >= 110
  BY <1>1 DEF RouteInv, LaidInv
<1>3. /\ next >= 45 /\ lift \in Seq(Nat \X Nat)
      /\ \A i, j \in DOMAIN lift : i < j => lift[i][2] <= lift[j][1]
      /\ \A i \in 1 .. Len(lift) : lift[i][2] <= (next - 45) * SamplesPerTile
  BY <1>1, <1>2 DEF LiftInv, LiftsDontStack
<1>4. PICK jitter \in {-5, 5} :
        LET fits == {k \in DOMAIN CrestShifts : MayCrest(next + jitter + CrestShifts[k])}
            tile == next + jitter + CrestShifts[Min(fits)]
        IN  lift' = IF fits = {} THEN lift ELSE Append(lift, Lifted(tile - 10, tile + 16))
  BY DEF LayCrest
<1> DEFINE fits == {k \in DOMAIN CrestShifts : MayCrest(next + jitter + CrestShifts[k])}
           tile == next + jitter + CrestShifts[Min(fits)]
<1>5. lift' = IF fits = {} THEN lift ELSE Append(lift, Lifted(tile - 10, tile + 16))
  BY <1>4, Zenon
<1>6. fits \subseteq 1 .. 3 /\ tile = next + jitter + CrestShifts[Min(fits)]
  BY DEF CrestShifts
<1> HIDE DEF fits, tile
<1>7. fits # {} => CrestShifts[Min(fits)] \in {0, 30, -30}
  <2>1. ASSUME fits # {} PROVE Min(fits) \in fits
    <3>1. fits \subseteq Nat
      BY <1>6
    <3>2. \E x \in fits : \A y \in fits : x <= y
      BY <2>1, <3>1, LeastNat
    <3> QED
      BY <3>2 DEF Min
  <2>2. \A k \in 1 .. 3 : CrestShifts[k] \in {0, 30, -30}
    BY DEF CrestShifts
  <2> QED
    BY <1>6, <2>1, <2>2
<1>8. PICK x \in Nat, e \in Nat : x = next /\ e = every /\ x >= 45 /\ e >= 110
  BY <1>2, <1>3
<1>9. PICK s \in {0, 30, -30} : fits # {} => s = CrestShifts[Min(fits)]
  BY <1>7
<1>10. PICK from \in Nat, to \in Nat :
          from = x + jitter + s - 10 /\ to = x + jitter + s + 16
  BY <1>8
<1>11. x - 45 \in Nat /\ x - 45 <= from /\ from <= to /\ x + e - 45 \in Nat /\ to <= x + e - 45
  BY <1>8, <1>10
<1>12. lift' = lift \/ lift' = Append(lift, Lifted(from, to))
  <2>1. CASE fits = {}
    BY <1>5, <2>1
  <2>2. CASE fits # {}
    <3>1. tile = x + jitter + s
      BY <1>6, <1>8, <1>9, <2>2
    <3>2. from = tile - 10 /\ to = tile + 16
      BY <1>8, <1>10, <3>1
    <3> QED
      BY <1>5, <2>2, <3>2
  <2> QED
    BY <2>1, <2>2
<1>13. SamplesPerTile \in Nat /\ SamplesPerTile' = SamplesPerTile
  BY <1>1, <1>2, SamplesIs DEF SamplesPerTile
<1>14. PICK a \in Nat, b \in Nat, c \in Nat, d \in Nat :
          /\ a = (x - 45) * SamplesPerTile /\ b = from * SamplesPerTile
          /\ c = to * SamplesPerTile /\ d = (x + e - 45) * SamplesPerTile
          /\ a <= b /\ c <= d
  BY <1>11, <1>13, TimesMore
<1>15. \A i \in 1 .. Len(lift) : lift[i][2] \in Nat /\ lift[i][2] <= a
  <2>1. \A i \in 1 .. Len(lift) : lift[i] \in Nat \X Nat
    BY <1>3, InSequence
  <2> QED
    BY <1>3, <1>8, <1>14, <2>1
<1>16. \A i \in 1 .. Len(lift) : lift[i][2] <= from * SamplesPerTile
  <2>1. \A y \in Nat : y <= a => y <= b
    BY <1>14
  <2> QED
    BY <1>14, <1>15, <2>1
<1>17. PICK v : v = lift'
  OBVIOUS
<1>18. v = lift \/ v = Append(lift, Lifted(from, to))
  BY <1>12, <1>17
<1>19. /\ v \in Seq(Nat \X Nat)
       /\ \A i, j \in DOMAIN v : i < j => v[i][2] <= v[j][1]
       /\ \A i \in 1 .. Len(v) : v[i][2] <= to * SamplesPerTile
  <2>1. route \in Nat \ {0} /\ from <= to /\ lift \in Seq(Nat \X Nat)
        /\ \A i, j \in DOMAIN lift : i < j => lift[i][2] <= lift[j][1]
    BY <1>2, <1>3, <1>11
  <2> QED
    BY <1>16, <1>18, <2>1, LiftedOn
<1>20. \A i \in 1 .. Len(v) : v[i][2] <= d
  <2>1. \A i \in 1 .. Len(v) : v[i] \in Nat \X Nat
    BY <1>19, InSequence
  <2>2. \A y \in Nat : y <= c => y <= d
    BY <1>14
  <2> QED
    BY <1>14, <1>19, <2>1, <2>2
<1>21. next' = x + e /\ next' \in Nat /\ next' >= 45
  BY <1>1, <1>8
<1>22. LiftInv'
  <2>1. LiftsDontStack'
    BY <1>17, <1>19 DEF LiftsDontStack
  <2>2. \A i \in 1 .. Len(lift') : lift'[i][2] <= (next' - 45) * SamplesPerTile'
    BY <1>13, <1>14, <1>17, <1>20, <1>21
  <2>3. lift' \in Seq(Nat \X Nat)
    BY <1>17, <1>19
  <2>4. stage' = "lifts" /\ spec'.drama = "crests"
    BY <1>1
  <2> QED
    BY <1>21, <2>1, <2>2, <2>3, <2>4 DEF LiftInv
<1>23. RampInv'
  BY <1>1, <1>2 DEF RampInv
<1>24. every' \in Nat /\ every' >= 90 /\ every' >= 110
  BY <1>1, <1>8
<1> QED
  BY <1>1, <1>2, <1>21, <1>22, <1>23, <1>24 DEF LaidInv

\* Once the gates are up nothing more is lifted.
LEMMA GatesKeepLaid ==
  ASSUME RouteInv, LayGates \/ LayShortcut
  PROVE  LaidInv'
<1>1. /\ stage \in {"lifts", "gated"} /\ stage' \in {"gated", "done"} /\ lift' = lift
  BY DEF LayGates, LayShortcut
<1>2. LiftsDontStack
  BY <1>1 DEF RouteInv, LaidInv, LiftInv
<1>3. LiftsDontStack'
  BY <1>1, <1>2 DEF LiftsDontStack
<1> QED
  BY <1>1, <1>3 DEF LaidInv

LEMMA StridedIs ==
  ASSUME NEW f, NEW way, NEW x, NEW t, t = Strided(f, way, x)
  PROVE  /\ t.ground = 0 /\ t.gate = f /\ t.route = way /\ t.every = 4 /\ t.cut = x
         /\ t = Strided(t.gate, t.route, t.cut)
BY DEF Strided

LEMMA StridedExcept ==
  ASSUME NEW t, t = Strided(t.gate, t.route, t.cut), NEW g, NEW y,
         NEW u, u = [t EXCEPT !.gate = g, !.cut = y]
  PROVE  u = Strided(g, t.route, y)
<1>1. PICK f, way, x : f = t.gate /\ way = t.route /\ x = t.cut
  OBVIOUS
<1>2. t = Strided(f, way, x)
  BY <1>1
<1>3. u = Strided(g, way, y)
  BY <1>2 DEF Strided
<1> QED
  BY <1>1, <1>3

\* The gates of a track that is posted, and where its stride goes.
LEMMA PostedIs ==
  ASSUME NEW t, NEW n, Posted(t, n)
  PROVE  /\ n \in Nat /\ n >= 5 /\ Gates(t) = n /\ Even(t) /\ t.every = 4 /\ t.ground = 0
         /\ t = Strided(t.gate, t.route, t.cut)
         /\ t.gate = [i \in 1 .. n |-> <<i, FALSE>>]
         /\ \A i \in 0 .. n - 1 : IsCheckpoint(t, i) <=> i % 4 = 0
         /\ \A a \in t.cut : a \in 0 .. n - 1 /\ IsCheckpoint(t, a) /\ NextCheckpoint(t, a) # a
<1>1. n \in Nat /\ n >= 5
  BY DEF Posted
<1>2. /\ t.gate = [i \in 1 .. n |-> <<i, FALSE>>] /\ t.every = 4 /\ t.ground = 0
      /\ t = Strided(t.gate, t.route, t.cut)
  <2>1. PICK way, cut :
           t = Strided([i \in 1 .. n |-> <<i, FALSE>>], way, cut)
    BY DEF Posted
  <2> QED
    <3>1. PICK f : f = [i \in 1 .. n |-> <<i, FALSE>>]
      OBVIOUS
    <3>2. t = Strided(f, way, cut)
      BY <2>1, <3>1
    <3>3. t.gate = f /\ t.every = 4 /\ t.ground = 0 /\ t = Strided(t.gate, t.route, t.cut)
      BY <3>2, StridedIs
    <3> QED
      BY <3>1, <3>3
<1>3. Gates(t) = n
  BY <1>1, <1>2 DEF Gates
<1>4. IF IsCircuit(t) THEN n % 4 = 0 ELSE (n - 1) % 4 = 0
  BY DEF Posted
<1>5. Even(t)
  BY <1>1, <1>2, <1>3, <1>4 DEF Even
<1>6. \A i \in 0 .. n - 1 : IsCheckpoint(t, i) <=> i % 4 = 0
  BY <1>2, <1>3, <1>5, CheckpointIs
<1>7. \A a \in t.cut : a \in 0 .. n - 1 /\ IsCheckpoint(t, a) /\ NextCheckpoint(t, a) # a
  BY DEF Posted
<1> QED
  BY <1>1, <1>2, <1>3, <1>5, <1>6, <1>7

\* Turned round, a checkpoint is where one was.
LEMMA PostFrom ==
  ASSUME NEW t, NEW n, Posted(t, n), NEW i \in 0 .. n - 1, i % 4 = 0
  PROVE  From(t, i) \in 0 .. n - 1 /\ From(t, i) % 4 = 0
<1>1. /\ n \in Nat /\ n >= 5 /\ Gates(t) = n /\ Even(t)
      /\ IF IsCircuit(t) THEN n % 4 = 0 ELSE (n - 1) % 4 = 0
  BY PostedIs DEF Posted
<1>2. From(t, i) \in 0 .. n - 1
  BY <1>1, FromBack
<1>3. From(t, i) = IF ~IsCircuit(t) THEN n - 1 - i ELSE IF i = 0 THEN 0 ELSE n - i
  BY <1>1, FromIs
<1>4. ASSUME NEW m \in Nat, i <= m, m % 4 = 0 PROVE (m - i) % 4 = 0
  <2>1. PICK d \in Nat : d = m - i /\ i + d = m /\ i \in Nat
    BY <1>4
  <2>2. d % 4 = 0 <=> (i + d) % 4 = 0
    BY <2>1, StrideSum
  <2> QED
    BY <1>4, <2>1, <2>2
<1>5. n - 1 \in Nat /\ i <= n - 1 /\ i <= n
  BY <1>1
<1>6. CASE ~IsCircuit(t)
  BY <1>1, <1>2, <1>3, <1>4, <1>5, <1>6
<1>7. CASE IsCircuit(t) /\ i = 0
  BY <1>2, <1>3, <1>7
<1>8. CASE IsCircuit(t) /\ i # 0
  BY <1>1, <1>2, <1>3, <1>4, <1>5, <1>8
<1> QED
  BY <1>6, <1>7, <1>8

LEMMA TurnedTwice == \A x : Turned(<<x, FALSE>>) = <<x, TRUE>> /\ Turned(<<x, TRUE>>) = <<x, FALSE>>
<1>1. ASSUME NEW x, NEW y PROVE Turned(<<x, y>>) = <<x, ~y>>
  BY DEF Turned
<1>2. (~FALSE) = TRUE /\ (~TRUE) = FALSE
  OBVIOUS
<1> QED
  BY <1>1, <1>2

\* gs_track_reversed of what is built.
Round(t, n, r) ==
    /\ r = Strided(r.gate, t.route, r.cut) /\ DOMAIN r.gate = 1 .. n
    /\ \A j \in 0 .. n - 1 : GateAt(r, j) = <<From(t, j) + 1, TRUE>>
    /\ \A a \in t.cut : From(t, NextCheckpoint(t, a)) \in r.cut
    /\ \A b \in r.cut : \E a \in t.cut : b = From(t, NextCheckpoint(t, a))
    /\ Gates(r) = n /\ Even(r) /\ (IsCircuit(r) <=> IsCircuit(t)) /\ r.every = 4
    /\ \A j \in 0 .. n - 1 : From(r, j) = From(t, j)

LEMMA PostedTurned ==
  ASSUME NEW t, NEW n, Posted(t, n), NEW r, r = TurnRound(t)
  PROVE  Round(t, n, r)
<1>1. /\ n \in Nat /\ n >= 5 /\ Gates(t) = n /\ Even(t)
      /\ t.gate = [i \in 1 .. n |-> <<i, FALSE>>]
      /\ \A a \in t.cut : a \in 0 .. n - 1
  BY PostedIs
<1>2. t = Strided(t.gate, t.route, t.cut)
  BY PostedIs
<1>3. r = [t EXCEPT !.gate = [j \in DOMAIN @ |-> Turned(@[From(t, j - 1) + 1])],
                    !.cut = {From(t, NextCheckpoint(t, a)) :
                                a \in {c \in 0 .. Gates(t) - 1 : c \in t.cut}}]
  BY <1>1 DEF TurnRound
<1>4. {c \in 0 .. Gates(t) - 1 : c \in t.cut} = t.cut
  BY <1>1
<1> DEFINE g == [j \in DOMAIN t.gate |-> Turned(t.gate[From(t, j - 1) + 1])]
           c == {From(t, NextCheckpoint(t, a)) : a \in t.cut}
<1>5. g = [j \in 1 .. n |-> <<From(t, j - 1) + 1, TRUE>>]
  <2>1. DOMAIN t.gate = 1 .. n
    BY <1>1
  <2>2. ASSUME NEW j \in 1 .. n PROVE Turned(t.gate[From(t, j - 1) + 1]) = <<From(t, j - 1) + 1, TRUE>>
    <3>1. j - 1 \in 0 .. n - 1
      BY <1>1
    <3>2. From(t, j - 1) \in 0 .. n - 1
      BY <1>1, <3>1, FromBack
    <3>3. From(t, j - 1) + 1 \in 1 .. n
      BY <1>1, <3>2
    <3>4. t.gate[From(t, j - 1) + 1] = <<From(t, j - 1) + 1, FALSE>>
      BY <1>1, <3>3
    <3> QED
      BY <3>4, TurnedTwice
  <2> QED
    BY <2>1, <2>2
<1>6. r = Strided(g, t.route, c)
  <2>1. r = [t EXCEPT !.gate = g, !.cut = c]
    BY <1>3, <1>4
  <2> HIDE DEF g, c
  <2> QED
    BY <1>2, <2>1, StridedExcept
<1>7. r.gate = g /\ r.cut = c /\ r.route = t.route /\ r.every = 4
  BY <1>6, StridedIs
<1> HIDE DEF g, c
<1>8. Gates(r) = n
  BY <1>1, <1>5, <1>7 DEF Gates
<1>9. IsCircuit(r) <=> IsCircuit(t)
  BY <1>7 DEF IsCircuit
<1>10. Even(r)
  <2>1. t.every = 4
    BY PostedIs
  <2> QED
    BY <1>1, <1>7, <1>8, <1>9, <2>1 DEF Even
<1>11. \A j \in 0 .. n - 1 : From(r, j) = From(t, j)
  BY <1>1, <1>8, <1>9 DEF From
<1>12. \A j \in 0 .. n - 1 : GateAt(r, j) = <<From(t, j) + 1, TRUE>>
  <2>1. ASSUME NEW j \in 0 .. n - 1 PROVE GateAt(r, j) = <<From(t, j) + 1, TRUE>>
    <3>1. PICK k \in 1 .. n : k = j + 1 /\ k - 1 = j
      BY <1>1
    <3>2. r.gate[k] = <<From(t, k - 1) + 1, TRUE>>
      BY <1>5, <1>7
    <3> QED
      BY <3>1, <3>2 DEF GateAt
  <2> QED
    BY <2>1
<1>13. /\ \A a \in t.cut : From(t, NextCheckpoint(t, a)) \in r.cut
       /\ \A b \in r.cut : \E a \in t.cut : b = From(t, NextCheckpoint(t, a))
  BY <1>7 DEF c
<1>14. r = Strided(r.gate, t.route, r.cut) /\ DOMAIN r.gate = 1 .. n
  BY <1>5, <1>6, <1>7
<1> QED
  BY <1>8, <1>9, <1>7, <1>10, <1>11, <1>12, <1>13, <1>14 DEF Round

PostsOf(t) == {GateAt(t, i)[1] : i \in {k \in 0 .. Gates(t) - 1 : IsCheckpoint(t, k)}}

LEMMA PostsAgain ==
  ASSUME NEW t, NEW n, Posted(t, n)
  PROVE  PostsOf(TurnRound(t)) = PostsOf(t)
<1>1. PICK r : r = TurnRound(t)
  OBVIOUS
<1>2. /\ n \in Nat /\ n >= 5 /\ Gates(t) = n /\ Even(t)
      /\ t.gate = [i \in 1 .. n |-> <<i, FALSE>>]
      /\ \A i \in 0 .. n - 1 : IsCheckpoint(t, i) <=> i % 4 = 0
  BY PostedIs
<1>3. /\ \A j \in 0 .. n - 1 : GateAt(r, j) = <<From(t, j) + 1, TRUE>>
      /\ Gates(r) = n /\ Even(r) /\ r.every = 4
  <2>1. Round(t, n, r)
    BY <1>1, PostedTurned
  <2> QED
    BY <2>1 DEF Round
<1>4. \A i \in 0 .. n - 1 : IsCheckpoint(r, i) <=> i % 4 = 0
  BY <1>3, CheckpointIs
<1>5. \A i \in 0 .. n - 1 : i + 1 \in 1 .. n /\ i + 1 - 1 = i
  BY <1>2
<1>6. \A i \in 0 .. n - 1 : GateAt(t, i)[1] = i + 1 /\ GateAt(r, i)[1] = From(t, i) + 1
  <2>1. \A i \in 0 .. n - 1 : GateAt(t, i) = <<i + 1, FALSE>>
    BY <1>2, <1>5 DEF GateAt
  <2>2. ASSUME NEW i \in 0 .. n - 1 PROVE GateAt(t, i)[1] = i + 1 /\ GateAt(r, i)[1] = From(t, i) + 1
    <3>1. PICK f : f = From(t, i) + 1
      OBVIOUS
    <3>2. GateAt(t, i) = <<i + 1, FALSE>> /\ GateAt(r, i) = <<f, TRUE>>
      BY <1>3, <2>1, <3>1
    <3> QED
      BY <3>1, <3>2
  <2> QED
    BY <2>2
<1> DEFINE K == {k \in 0 .. n - 1 : k % 4 = 0}
<1>7. PostsOf(t) = {k + 1 : k \in K}
  <2>1. PostsOf(t) = {GateAt(t, k)[1] : k \in K}
    BY <1>2 DEF PostsOf
  <2> QED
    BY <1>6, <2>1
<1>8. PostsOf(r) = {From(t, k) + 1 : k \in K}
  <2>1. PostsOf(r) = {GateAt(r, k)[1] : k \in K}
    BY <1>3, <1>4 DEF PostsOf
  <2> QED
    BY <1>6, <2>1
<1>9. \A k \in K : From(t, k) \in K /\ From(t, From(t, k)) = k
  BY <1>2, PostFrom, FromBack
<1>10. {From(t, k) + 1 : k \in K} = {k + 1 : k \in K}
  <2> HIDE DEF K
  <2> QED
    BY <1>9
<1> QED
  BY <1>1, <1>7, <1>8, <1>10

LEMMA PostedBack ==
  ASSUME NEW t, NEW n, Posted(t, n)
  PROVE  /\ TurnRound(TurnRound(t)) = t
         /\ \A a \in t.cut : IsCheckpoint(t, a)
         /\ \A a \in TurnRound(t).cut : IsCheckpoint(TurnRound(t), a)
<1>1. PICK r : r = TurnRound(t)
  OBVIOUS
<1>2. /\ n \in Nat /\ n >= 5 /\ Gates(t) = n /\ Even(t) /\ t.every = 4
      /\ t.gate = [i \in 1 .. n |-> <<i, FALSE>>]
      /\ \A a \in t.cut : a \in 0 .. n - 1 /\ IsCheckpoint(t, a) /\ NextCheckpoint(t, a) # a
  BY PostedIs
<1>3. /\ r = Strided(r.gate, t.route, r.cut) /\ DOMAIN r.gate = 1 .. n
      /\ \A j \in 0 .. n - 1 : GateAt(r, j) = <<From(t, j) + 1, TRUE>>
      /\ \A a \in t.cut : From(t, NextCheckpoint(t, a)) \in r.cut
      /\ \A b \in r.cut : \E a \in t.cut : b = From(t, NextCheckpoint(t, a))
      /\ Gates(r) = n /\ Even(r) /\ (IsCircuit(r) <=> IsCircuit(t)) /\ r.every = 4
      /\ \A j \in 0 .. n - 1 : From(r, j) = From(t, j)
  <2>1. Round(t, n, r)
    BY <1>1, PostedTurned
  <2> QED
    BY <2>1 DEF Round
<1>4. \A i \in 0 .. n - 1 : From(t, i) \in 0 .. n - 1 /\ From(t, From(t, i)) = i
  BY <1>2, FromBack
<1>5. ASSUME NEW a \in t.cut
      PROVE  /\ NextCheckpoint(t, a) \in 0 .. n - 1
             /\ IsCheckpoint(r, From(t, NextCheckpoint(t, a)))
             /\ NextCheckpoint(r, From(t, NextCheckpoint(t, a))) = From(t, a)
  <2>1. a \in 0 .. Gates(t) - 1 /\ IsCheckpoint(t, a) /\ NextCheckpoint(t, a) # a
    BY <1>2
  <2>2. Gates(r) = Gates(t) /\ r.every = t.every
    BY <1>2, <1>3
  <2>3. /\ NextCheckpoint(t, a) \in 0 .. Gates(t) - 1
        /\ IsCheckpoint(r, From(t, NextCheckpoint(t, a)))
        /\ NextCheckpoint(r, From(t, NextCheckpoint(t, a))) = From(t, a)
    BY <1>2, <1>3, <2>1, <2>2, NextTurned
  <2> QED
    BY <1>2, <2>3
<1>6. \A a \in r.cut : a \in 0 .. n - 1 /\ IsCheckpoint(r, a)
  BY <1>3, <1>4, <1>5
<1> DEFINE g == [j \in DOMAIN r.gate |-> Turned(r.gate[From(r, j - 1) + 1])]
           c == {From(r, NextCheckpoint(r, a)) : a \in {x \in 0 .. Gates(r) - 1 : x \in r.cut}}
<1>7. TurnRound(r) = [r EXCEPT !.gate = g, !.cut = c]
  BY <1>2, <1>3 DEF TurnRound
<1>8. g = t.gate
  <2>1. DOMAIN r.gate = 1 .. n
    BY <1>3
  <2>2. ASSUME NEW j \in 1 .. n PROVE Turned(r.gate[From(r, j - 1) + 1]) = <<j, FALSE>>
    <3>1. PICK i \in 0 .. n - 1 : i = j - 1 /\ i + 1 = j
      BY <1>2
    <3>2. PICK f \in 0 .. n - 1 : f = From(t, i) /\ From(r, i) = f /\ From(t, f) = i
      BY <1>3, <1>4
    <3>3. f + 1 \in 1 .. n /\ f + 1 - 1 = f
      BY <1>2
    <3>4. r.gate[f + 1] = <<From(t, f) + 1, TRUE>>
      BY <1>3 DEF GateAt
    <3>5. r.gate[From(r, j - 1) + 1] = <<j, TRUE>>
      BY <3>1, <3>2, <3>4
    <3> QED
      BY <3>5, TurnedTwice
  <2> QED
    BY <1>2, <2>1, <2>2
<1>9. c = t.cut
  <2>1. c = {From(r, NextCheckpoint(r, a)) : a \in r.cut}
    BY <1>3, <1>6
  <2>2. ASSUME NEW a \in t.cut
        PROVE  From(r, NextCheckpoint(r, From(t, NextCheckpoint(t, a)))) = a
    <3>1. NextCheckpoint(r, From(t, NextCheckpoint(t, a))) = From(t, a)
      BY <1>5
    <3>2. a \in 0 .. n - 1 /\ From(t, a) \in 0 .. n - 1 /\ From(t, From(t, a)) = a
      BY <1>2, <1>4
    <3> QED
      BY <1>3, <3>1, <3>2
  <2> HIDE DEF c
  <2> QED
    BY <1>3, <2>1, <2>2
<1> HIDE DEF g, c
<1>10. TurnRound(r) = Strided(g, t.route, c)
  <2>1. PICK u : u = TurnRound(r)
    OBVIOUS
  <2>2. u = Strided(g, r.route, c)
    <3>1. r = Strided(r.gate, r.route, r.cut)
      BY <1>3, StridedIs
    <3> QED
      BY <1>7, <2>1, <3>1, StridedExcept
  <2>3. r.route = t.route
    BY <1>3, StridedIs
  <2> QED
    BY <2>1, <2>2, <2>3
<1>11. t = Strided(t.gate, t.route, t.cut)
  BY PostedIs
<1> QED
  BY <1>1, <1>2, <1>6, <1>8, <1>9, <1>10, <1>11

\* What is cut across changes no checkpoint.
LEMMA SameCheckpoints ==
  ASSUME NEW t, NEW u, u.gate = t.gate, u.every = t.every, u.route = t.route
  PROVE  /\ Gates(u) = Gates(t) /\ (IsCircuit(u) <=> IsCircuit(t))
         /\ \A i : IsCheckpoint(u, i) <=> IsCheckpoint(t, i)
         /\ \A i : NextCheckpoint(u, i) = NextCheckpoint(t, i)
<1>1. Gates(u) = Gates(t) /\ (IsCircuit(u) <=> IsCircuit(t))
  BY DEF Gates, IsCircuit
<1>2. FinishGate(u) = FinishGate(t)
  BY <1>1 DEF FinishGate
<1>3. \A i : IsCheckpoint(u, i) <=> IsCheckpoint(t, i)
  BY <1>1, <1>2 DEF IsCheckpoint
<1>4. ASSUME NEW i PROVE NextCheckpoint(u, i) = NextCheckpoint(t, i)
  <2> DEFINE n == Gates(t)
             su == {s \in 1 .. n : IsCheckpoint(u, (i + s) % n) /\ (IsCircuit(u) \/ i + s < n)}
             st == {s \in 1 .. n : IsCheckpoint(t, (i + s) % n) /\ (IsCircuit(t) \/ i + s < n)}
  <2>1. su = st
    BY <1>1, <1>3
  <2>2. NextCheckpoint(u, i) = IF su = {} THEN i ELSE (i + (CHOOSE s \in su : \A r \in su : s <= r)) % n
    BY <1>1 DEF NextCheckpoint
  <2>3. NextCheckpoint(t, i) = IF st = {} THEN i ELSE (i + (CHOOSE s \in st : \A r \in st : s <= r)) % n
    BY DEF NextCheckpoint
  <2> HIDE DEF su, st, n
  <2> QED
    BY <2>1, <2>2, <2>3
<1> QED
  BY <1>1, <1>3, <1>4

\* gs_lay_gates: however many are wanted, the stride comes out even.
LEMMA GateCountIs ==
  ASSUME NEW want \in Int, want >= 8
  PROVE  /\ GateCount(want) \in Nat /\ GateCount(want) >= 5
         /\ IF Loop THEN GateCount(want) % 4 = 0 ELSE (GateCount(want) - 1) % 4 = 0
<1>1. PICK x \in Nat : x = IF Loop THEN want ELSE want - 1
  OBVIOUS
<1>2. PICK r \in 0 .. 3, q \in Int : r = x % 4 /\ q = x \div 4 /\ x = 4 * q + r
  OBVIOUS
<1>3. q \in Nat /\ x - r \in Nat /\ x - r = 4 * q
  BY <1>2
<1>4. (x - r) % 4 = 0
  BY <1>3, Strides
<1>5. GateCount(want) = want - r
  BY <1>1, <1>2 DEF GateCount
<1>6. CASE Loop
  <2>1. x = want
    BY <1>1, <1>6
  <2> QED
    BY <1>4, <1>5, <1>6, <2>1
<1>7. CASE ~Loop
  <2>1. x = want - 1
    BY <1>1, <1>7
  <2>2. GateCount(want) - 1 = x - r /\ GateCount(want) \in Nat /\ GateCount(want) >= 5
    BY <1>5, <2>1
  <2> QED
    BY <1>4, <1>7, <2>2
<1> QED
  BY <1>6, <1>7

LEMMA GatesArePosted ==
  ASSUME RouteInv, LayGates
  PROVE  Posted(built, Gates(built))'
<1>1. route \in Nat \ {0} /\ MaxGates \in Nat
  BY RouteAssumption DEF LayGates, RouteInv, LaidInv
<1>2. PICK extra \in 0 .. 2 :
        LET gates == GateCount(Max({8, Min({route \div 12 + extra, MaxGates - 4})}))
        IN  built' = [NewTrack(0) EXCEPT !.gate = [i \in 1 .. gates |-> <<i, FALSE>>],
                                         !.route = IF Loop THEN "circuit" ELSE "sprint",
                                         !.every = 4]
  BY DEF LayGates
<1>3. PICK want \in Int : want >= 8 /\ want = Max({8, Min({route \div 12 + extra, MaxGates - 4})})
  <2>1. PICK a \in Int, b \in Int : a = route \div 12 + extra /\ b = MaxGates - 4
    BY <1>1
  <2>2. PICK c \in Int : c = Min({a, b})
    BY MinPair
  <2>3. Max({8, c}) = IF 8 >= c THEN 8 ELSE c
    BY MaxPair
  <2> QED
    BY <2>1, <2>2, <2>3
<1>4. PICK n : n = GateCount(want)
  OBVIOUS
<1>5. n \in Nat /\ n >= 5 /\ IF Loop THEN n % 4 = 0 ELSE (n - 1) % 4 = 0
  BY <1>3, <1>4, GateCountIs
<1>6. PICK u, f, way : u = built' /\ f = [i \in 1 .. n |-> <<i, FALSE>>]
                       /\ way = IF Loop THEN "circuit" ELSE "sprint"
  OBVIOUS
<1>7. u = [NewTrack(0) EXCEPT !.gate = f, !.route = way, !.every = 4]
  BY <1>2, <1>3, <1>4, <1>6
<1>8. u = Strided(f, way, {})
  BY <1>7 DEF NewTrack, Strided
<1>9. u.gate = f /\ u.route = way /\ u.cut = {}
  BY <1>8, StridedIs
<1>10. IsCircuit(u) <=> Loop
  BY <1>6, <1>9 DEF IsCircuit
<1>11. way \in {"circuit", "sprint"} /\ u = Strided([i \in 1 .. n |-> <<i, FALSE>>], way, {})
  BY <1>6, <1>8
<1>12. Gates(u) = n
  BY <1>5, <1>6, <1>9 DEF Gates
<1>13. Posted(u, n)
  BY <1>5, <1>9, <1>10, <1>11 DEF Posted
<1> QED
  BY <1>6, <1>12, <1>13

\* gs_lay_shortcut: it leaves from a checkpoint, and there is one after it.
LEMMA ShortcutIsPosted ==
  ASSUME RouteInv, LayShortcut
  PROVE  Posted(built, Gates(built))'
<1>1. PICK t, n : t = built /\ n = Gates(t) /\ Posted(t, n)
  BY DEF LayShortcut, RouteInv
<1>2. CASE UNCHANGED built
  BY <1>1, <1>2
<1>3. CASE \E a \in 1 .. Gates(built) - 1 :
              /\ IsCheckpoint(built, a) /\ NextCheckpoint(built, a) # a
              /\ built' = SetShortcut(built, a, TRUE)
  <2>1. PICK a \in 1 .. n - 1 :
          IsCheckpoint(t, a) /\ NextCheckpoint(t, a) # a /\ built' = SetShortcut(t, a, TRUE)
    BY <1>1, <1>3
  <2>2. PICK u : u = built'
    OBVIOUS
  <2>3. CASE u = t
    BY <1>1, <2>2, <2>3
  <2>4. CASE u # t
    <3>1. u = [t EXCEPT !.cut = t.cut \cup {a}]
      BY <2>1, <2>2, <2>4 DEF SetShortcut
    <3>2. /\ n \in Nat /\ n >= 5 /\ t = Strided(t.gate, t.route, t.cut)
          /\ t.gate = [i \in 1 .. n |-> <<i, FALSE>>]
          /\ \A b \in t.cut : b \in 0 .. n - 1 /\ IsCheckpoint(t, b) /\ NextCheckpoint(t, b) # b
      BY <1>1, PostedIs
    <3>3. PICK f, way, x, y : f = t.gate /\ way = t.route /\ x = t.cut /\ y = t.cut \cup {a}
      OBVIOUS
    <3>4. t = Strided(f, way, x) /\ u = [t EXCEPT !.cut = y]
      BY <3>1, <3>2, <3>3
    <3>5. u = Strided(f, way, y)
      BY <3>4 DEF Strided
    <3>6. u.gate = t.gate /\ u.every = t.every /\ u.route = t.route /\ u.cut = y
      BY <3>3, <3>4, <3>5, StridedIs
    <3>7. way \in {"circuit", "sprint"}
      <4>1. PICK w \in {"circuit", "sprint"} :
               \E cut : t = Strided([i \in 1 .. n |-> <<i, FALSE>>], w, cut)
        BY <1>1 DEF Posted
      <4> QED
        BY <3>3, <4>1, StridedIs
    <3>8. a \in 0 .. n - 1
      BY <3>2
    <3>9. \A b \in y : b \in 0 .. n - 1 /\ IsCheckpoint(t, b) /\ NextCheckpoint(t, b) # b
      BY <2>1, <3>2, <3>3, <3>8
    <3>10. \A b \in u.cut : b \in 0 .. n - 1 /\ IsCheckpoint(u, b) /\ NextCheckpoint(u, b) # b
      BY <3>6, <3>9, SameCheckpoints
    <3>11. Gates(u) = n /\ (IsCircuit(u) <=> IsCircuit(t))
      BY <1>1, <3>6, SameCheckpoints
    <3>12. IF IsCircuit(t) THEN n % 4 = 0 ELSE (n - 1) % 4 = 0
      BY <1>1 DEF Posted
    <3>13. u = Strided([i \in 1 .. n |-> <<i, FALSE>>], way, y)
      BY <3>2, <3>3, <3>5
    <3>14. Posted(u, n)
      BY <3>2, <3>7, <3>10, <3>11, <3>12, <3>13 DEF Posted
    <3> QED
      BY <2>2, <3>11, <3>14
  <2> QED
    BY <2>3, <2>4
<1> QED
  BY <1>2, <1>3 DEF LayShortcut

\* gs_generate_spec_for: what is contradictory gives way, each veto after the last.
LEMMA VetoedIs ==
  ASSUME NEW s \in Dials
  PROVE  /\ Vetoed(s) \in Dials
         /\ ~(Vetoed(s).relief = "flat" /\ (Vetoed(s).range # "subtle" \/ Vetoed(s).jumps = "none"))
         /\ ~(/\ Vetoed(s).width = "narrow" /\ Vetoed(s).curve = "technical"
              /\ Vetoed(s).base \in {"ice", "slush"})
         /\ Vetoed(s).drama = "gaps" => Vetoed(s).jumps = "big" /\ Vetoed(s).width # "narrow"
         /\ ~(Vetoed(s).routes = "shortcut" /\ Vetoed(s).range = "severe")
<1>1. PICK a : a = GroundGives(s)
  OBVIOUS
<1>2. /\ a \in Dials
      /\ ~(a.relief = "flat" /\ (a.range # "subtle" \/ a.jumps = "none"))
  <2>1. a = [s EXCEPT !.relief = a.relief]
    BY <1>1 DEF GroundGives, Dials
  <2>2. a.relief = IF s.relief = "flat" /\ s.range # "subtle"
                   THEN IF s.range = "severe" THEN "ridged" ELSE "rolling"
                   ELSE IF s.relief = "flat" /\ s.jumps = "none" THEN "rolling" ELSE s.relief
    BY <1>1 DEF GroundGives, Dials
  <2>3. a.range = s.range /\ a.jumps = s.jumps
    BY <2>1 DEF Dials
  <2>4. a.relief \in {"flat", "rolling", "ridged", "basin"}
    BY <2>2 DEF Dials
  <2>5. a \in Dials
    BY <2>1, <2>4 DEF Dials
  <2> QED
    BY <2>2, <2>3, <2>5
<1>3. PICK b : b = RoadGives(a)
  OBVIOUS
<1>4. /\ b \in Dials /\ b.relief = a.relief /\ b.range = a.range /\ b.jumps = a.jumps
      /\ ~(b.width = "narrow" /\ b.curve = "technical" /\ b.base \in {"ice", "slush"})
  <2>1. b = [a EXCEPT !.width = b.width]
    BY <1>2, <1>3 DEF RoadGives, Dials
  <2>2. b.width = IF a.width = "narrow" /\ a.curve = "technical" /\ a.base \in {"ice", "slush"}
                  THEN "standard" ELSE a.width
    BY <1>2, <1>3 DEF RoadGives, Dials
  <2>3. b.relief = a.relief /\ b.range = a.range /\ b.jumps = a.jumps /\ b.curve = a.curve
        /\ b.base = a.base
    BY <1>2, <2>1 DEF Dials
  <2>4. b.width \in {"narrow", "standard", "wide"}
    BY <1>2, <2>2 DEF Dials
  <2>5. b \in Dials
    BY <1>2, <2>1, <2>4 DEF Dials
  <2> QED
    BY <2>2, <2>3, <2>5
<1>5. PICK c : c = GapsWant(b)
  OBVIOUS
<1>6. /\ c \in Dials /\ c.relief = b.relief /\ c.range = b.range
      /\ c.jumps = b.jumps \/ c.jumps = "big"
      /\ c.width = b.width \/ c.width = "standard"
      /\ c.curve = b.curve /\ c.base = b.base
      /\ c.drama = "gaps" => c.jumps = "big" /\ c.width # "narrow"
  <2>1. CASE b.drama # "gaps"
    BY <1>4, <1>5, <2>1 DEF GapsWant
  <2>2. CASE b.drama = "gaps"
    <3>1. PICK w : w = IF b.width = "narrow" THEN "standard" ELSE b.width
      OBVIOUS
    <3>2. w \in {"narrow", "standard", "wide"} /\ w # "narrow" /\ (w = b.width \/ w = "standard")
      BY <1>4, <3>1 DEF Dials
    <3>3. c = [b EXCEPT !.jumps = "big", !.width = w]
      BY <1>4, <1>5, <2>2, <3>1 DEF GapsWant, Dials
    <3>4. /\ c \in Dials /\ c.relief = b.relief /\ c.range = b.range /\ c.jumps = "big"
          /\ c.width = w /\ c.curve = b.curve /\ c.base = b.base
      <4>1. PICK e : e = [b EXCEPT !.jumps = "big"]
        OBVIOUS
      <4>2. e \in Dials /\ e.relief = b.relief /\ e.range = b.range /\ e.jumps = "big"
            /\ e.curve = b.curve /\ e.base = b.base
        BY <1>4, <4>1 DEF Dials
      <4>3. c = [e EXCEPT !.width = w]
        BY <3>3, <4>1
      <4> QED
        BY <3>2, <4>2, <4>3 DEF Dials
    <3> QED
      BY <3>2, <3>4
  <2> QED
    BY <2>1, <2>2
<1>7. PICK d : d = ShortcutWants(c)
  OBVIOUS
<1>8. PICK m : m = IF c.range = "severe" /\ c.routes = "shortcut" THEN "moderate" ELSE c.range
  OBVIOUS
<1>9. m \in {"subtle", "moderate", "severe"} /\ (m = "subtle" <=> c.range = "subtle")
  BY <1>6, <1>8 DEF Dials
<1>10. d = [c EXCEPT !.range = m]
  BY <1>6, <1>7, <1>8 DEF ShortcutWants, Dials
<1>11. /\ d \in Dials /\ d.range = m /\ d.relief = c.relief /\ d.jumps = c.jumps
       /\ d.width = c.width /\ d.curve = c.curve /\ d.base = c.base /\ d.drama = c.drama
       /\ d.routes = c.routes
  BY <1>6, <1>9, <1>10 DEF Dials
<1>12. ~(d.relief = "flat" /\ (d.range # "subtle" \/ d.jumps = "none"))
  BY <1>2, <1>4, <1>6, <1>9, <1>11
<1>13. ~(d.width = "narrow" /\ d.curve = "technical" /\ d.base \in {"ice", "slush"})
  BY <1>4, <1>6, <1>11
<1>14. d.drama = "gaps" => d.jumps = "big" /\ d.width # "narrow"
  BY <1>6, <1>11
<1>15. ~(d.routes = "shortcut" /\ d.range = "severe")
  BY <1>8, <1>11
<1>16. d = Vetoed(s)
  BY <1>1, <1>3, <1>5, <1>7 DEF Vetoed
<1> QED
  BY <1>11, <1>12, <1>13, <1>14, <1>15, <1>16

\* Every action keeps the invariant: the dials, and how much is asked.
LEMMA DialsKept ==
  ASSUME RouteInv, RouteNext
  PROVE  /\ spec' \in Dials /\ tries' \in Nat /\ SpecIsSound'
         /\ stage' \in {"vetted", "growing", "grown", "ramps", "lifts", "gated", "done"}
         /\ asked' \in Nat \ {0}
<1>1. CASE DrawSpec
  <2>1. /\ spec' = Vetoed(spec) /\ spec \in Dials /\ stage' = "vetted" /\ tries' = tries
        /\ \E n \in Cells[spec'.kind] : asked' = n
    BY <1>1 DEF DrawSpec, RouteInv
  <2>2. spec' \in Dials
    BY <2>1, VetoedIs
  <2>3. spec'.kind \in {"circuit", "path"}
    BY <2>2 DEF Dials
  <2>4. asked' \in Nat \ {0}
    BY <2>1, <2>3, RouteAssumption
  <2>5. SpecIsSound'
    BY <2>1, VetoedIs DEF SpecIsSound
  <2>6. tries' \in Nat
    BY <2>1 DEF RouteInv
  <2> QED
    BY <2>1, <2>2, <2>4, <2>5, <2>6
<1>2. CASE GiveUp /\ stage = "growing"
  <2>1. /\ spec' = spec /\ stage' = "vetted" /\ tries' = tries + 1
        /\ asked' = IF tries \in LessAt /\ asked > LeastCells THEN asked - 2 ELSE asked
    BY <1>2 DEF GiveUp
  <2>2. asked \in Nat \ {0} /\ tries \in Nat /\ spec \in Dials
    BY <1>2 DEF RouteInv
  <2>3. asked' \in Nat \ {0}
    BY <2>1, <2>2, RouteAssumption
  <2>4. SpecIsSound'
    BY <1>2, <2>1 DEF SpecIsSound, RouteInv
  <2> QED
    BY <2>1, <2>2, <2>3, <2>4
<1>3. CASE /\ stage # "drawn" /\ spec' = spec /\ tries' = tries /\ asked' = asked
           /\ stage' \in {"vetted", "growing", "grown", "ramps", "lifts", "gated", "done"}
  <2>1. SpecIsSound'
    BY <1>3 DEF SpecIsSound, RouteInv
  <2> QED
    BY <1>3, <2>1 DEF RouteInv
<1>4. CASE BackOut \/ Budget \/ Grow
  <2>1. stage = "growing"
    BY <1>4 DEF BackOut, Budget, Grow, Looked
  <2>2. GiveUp \/ (spec' = spec /\ tries' = tries /\ asked' = asked /\ stage' \in {"growing", "grown"})
    BY <1>4, <2>1 DEF BackOut, Budget, Grow
  <2> QED
    BY <1>2, <1>3, <2>1, <2>2
<1>5. CASE BeginWalk \/ LookAround \/ StepOn \/ Bump \/ LastResort
  <2>1. /\ stage # "drawn" /\ spec' = spec /\ tries' = tries /\ asked' = asked
        /\ stage' \in {"growing", "grown"}
    BY <1>5 DEF BeginWalk, LookAround, StepOn, Bump, LastResort, Looked
  <2> QED
    BY <1>3, <2>1
<1>6. CASE Plan \/ LayRamp \/ BeginLift \/ LayGap \/ LayCrest \/ LayGates \/ LayShortcut
  <2>1. /\ stage # "drawn" /\ spec' = spec /\ tries' = tries /\ asked' = asked
        /\ stage' \in {"ramps", "lifts", "gated", "done"}
    BY <1>6 DEF Plan, LayRamp, BeginLift, LayGap, LayCrest, LayGates, LayShortcut, walkVars
  <2> QED
    BY <1>3, <2>1
<1> QED
  BY <1>1, <1>4, <1>5, <1>6 DEF RouteNext

LEMMA RouteKept ==
  ASSUME RouteInv, RouteNext
  PROVE  RouteInv'
<1>1. WalkInv'
  <2>1. CASE BeginWalk
    BY <2>1, BeginKeepsWalk
  <2>2. CASE LookAround
    BY <2>2, LookKeepsWalk
  <2>3. CASE StepOn
    BY <2>3, StepKeepsWalk
  <2>4. CASE BackOut
    BY <2>4, BackKeepsWalk
  <2>5. CASE Budget
    BY <2>5, GivenUpKeepsWalk DEF Budget
  <2>6. CASE Bump
    BY <2>6, BumpKeepsWalk
  <2>7. CASE Grow
    BY <2>7, GrownKeepsWalk
  <2>8. CASE LastResort
    BY <2>8, ResortKeepsWalk
  <2>9. CASE DrawSpec \/ Plan \/ LayRamp \/ BeginLift \/ LayGap \/ LayCrest \/ LayGates \/ LayShortcut
    BY <2>9, AfterKeepsWalk
  <2> QED
    BY <2>1, <2>2, <2>3, <2>4, <2>5, <2>6, <2>7, <2>8, <2>9 DEF RouteNext
<1>2. LaidInv'
  <2>1. CASE DrawSpec \/ BeginWalk \/ LookAround \/ StepOn \/ BackOut \/ Budget \/ Bump \/ Grow \/ LastResort
    BY <2>1, GrowingKeepsLaid
  <2>2. CASE Plan
    BY <2>2, PlanKeepsLaid
  <2>3. CASE LayRamp
    BY <2>3, RampKeepsLaid
  <2>4. CASE BeginLift
    BY <2>4, LiftBegun
  <2>5. CASE LayGap
    BY <2>5, GapKeepsLaid
  <2>6. CASE LayCrest
    BY <2>6, CrestKeepsLaid
  <2>7. CASE LayGates \/ LayShortcut
    BY <2>7, GatesKeepLaid
  <2> QED
    BY <2>1, <2>2, <2>3, <2>4, <2>5, <2>6, <2>7 DEF RouteNext
<1>3. stage' \in {"gated", "done"} => Posted(built, Gates(built))'
  <2>1. CASE LayGates
    BY <2>1, GatesArePosted
  <2>2. CASE LayShortcut
    BY <2>2, ShortcutIsPosted
  <2>3. CASE ~LayGates /\ ~LayShortcut
    <3>1. stage' \notin {"gated", "done"}
      BY <2>3 DEF RouteNext, DrawSpec, BeginWalk, LookAround, StepOn, BackOut, Budget, Bump, Grow,
                  GiveUp, LastResort, Plan, LayRamp, BeginLift, LayGap, LayCrest, Looked
    <3> QED
      BY <3>1
  <2> QED
    BY <2>1, <2>2, <2>3
<1> QED
  BY <1>1, <1>2, <1>3, DialsKept DEF RouteInv

LEMMA RouteStays ==
  ASSUME RouteInv, UNCHANGED routeVars
  PROVE  RouteInv'
<1>1. /\ spec' = spec /\ stage' = stage /\ tries' = tries /\ asked' = asked /\ walk' = walk
      /\ visited' = visited /\ untried' = untried /\ seed' = seed /\ heading' = heading
      /\ run' = run /\ route' = route /\ every' = every /\ next' = next /\ ramp' = ramp
      /\ lift' = lift /\ built' = built
  BY DEF routeVars, walkVars, laidVars
<1>2. Loop' = Loop /\ MaxRun' = MaxRun
  BY <1>1, SameDials
<1>3. WalkInv'
  BY <1>1, <1>2 DEF RouteInv, WalkInv, Growing
<1>4. SamplesPerTile' = SamplesPerTile
  BY <1>1 DEF SamplesPerTile
<1>5. LaidInv'
  BY <1>1, <1>4 DEF RouteInv, LaidInv, RampInv, LiftInv, LiftsDontStack
<1>6. SpecIsSound'
  BY <1>1 DEF RouteInv, SpecIsSound
<1>7. stage' \in {"gated", "done"} => Posted(built, Gates(built))'
  BY <1>1 DEF RouteInv
<1> QED
  BY <1>1, <1>3, <1>5, <1>6, <1>7 DEF RouteInv

LEMMA RouteBegins ==
  ASSUME RouteInit
  PROVE  RouteInv
<1>1. stage = "drawn" /\ spec \in Dials /\ tries \in Nat
  BY RouteAssumption DEF RouteInit
<1>2. WalkInv /\ LaidInv
  BY DEF RouteInit, WalkInv, LaidInv
<1> QED
  BY <1>1, <1>2 DEF RouteInv, SpecIsSound

\* What the invariant says of the track.
LEMMA RouteInvMeans ==
  ASSUME RouteInv
  PROVE  TrackIsSound
<1>1. RouteIsDrivable
  <2> SUFFICES ASSUME walk # <<>> PROVE RouteIsDrivable
    BY DEF RouteIsDrivable
  <2>1. stage \in {"growing", "grown"}
    BY DEF RouteInv, WalkInv
  <2>2. /\ Trail(walk) /\ visited = ToSet(walk) /\ (Loop => Circle(walk))
        /\ stage = "growing" /\ ~Loop => Growing
        /\ stage = "grown" /\ tries < Attempts => Len(walk) >= IF Loop THEN 8 ELSE asked
    BY <2>1 DEF RouteInv, WalkInv
  <2>3. /\ Cardinality(visited) = Len(walk) /\ \A i \in DOMAIN walk : OnGrid(walk[i])
        /\ Len(walk) \in Nat
    BY <2>2, TrailIs
  <2>4. \A i \in 1 .. Len(walk) - 1 : Neighbours(walk[i], walk[i + 1])
    BY <2>2 DEF Trail
  <2>5. Loop => Neighbours(Last(walk), walk[1])
    BY <2>2 DEF Circle, Last
  <2>6. ASSUME ~Loop, stage = "growing", Len(walk) > 1
        PROVE  RunOf(walk) <= MaxRun /\ heading = Heading(walk[Len(walk) - 1], walk[Len(walk)])
    <3>1. Growing
      BY <2>2, <2>6
    <3>2. RunOf(walk) \in 1 .. Len(walk) - 1 /\ EndsIn(walk, RunOf(walk))
      BY <2>2, <2>6, RunIs
    <3>3. RunOf(walk) <= run /\ run \in 1 .. MaxRun /\ MaxRun \in Nat
      BY <3>1, <3>2 DEF Growing, Grows
    <3>4. RunOf(walk) <= MaxRun
      BY <2>3, <3>2, <3>3
    <3>5. heading = Leaving(walk, Len(walk) - 1)
      BY <2>6, <3>1 DEF Growing, Grows
    <3>6. Len(walk) - 1 + 1 = Len(walk)
      BY <2>3
    <3> QED
      BY <3>4, <3>5, <3>6 DEF Leaving
  <2> QED
    BY <2>2, <2>3, <2>4, <2>5, <2>6 DEF RouteIsDrivable
<1>2. LiftsDontStack
  <2>1. CASE stage \in {"drawn", "vetted", "growing", "grown"}
    BY <2>1 DEF RouteInv, LaidInv, LiftsDontStack
  <2>2. CASE stage \in {"ramps", "lifts", "gated", "done"}
    BY <2>2 DEF RouteInv, LaidInv, LiftInv
  <2> QED
    BY <2>1, <2>2 DEF RouteInv
<1>3. PostsBothWays
  <2> SUFFICES ASSUME stage = "done" PROVE PostsBothWays
    BY DEF PostsBothWays
  <2>1. PICK t, n : t = built /\ n = Gates(built) /\ Posted(t, n)
    BY DEF RouteInv
  <2>2. PostsOf(TurnRound(t)) = PostsOf(t)
    BY <2>1, PostsAgain
  <2>3. /\ TurnRound(TurnRound(t)) = t
        /\ \A a \in t.cut : IsCheckpoint(t, a)
        /\ \A a \in TurnRound(t).cut : IsCheckpoint(TurnRound(t), a)
    BY <2>1, PostedBack
  <2>4. \A u \in {t, TurnRound(t)} : \A a \in u.cut : IsCheckpoint(u, a)
    BY <2>3
  <2> QED
    BY <2>1, <2>2, <2>3, <2>4 DEF PostsBothWays, PostsOf
<1> QED
  BY <1>1, <1>2, <1>3 DEF TrackIsSound, RouteInv

\* What gs_generate makes, at every step of it: the dials contradict each other no more; the
\* walk is over the grid from cell to next cell, once each, and closes if it is a circuit's,
\* however often it has backed out, given up or been pushed out; no gap or crest is in
\* another; and turned round, what is built has its posts on the same gates.
THEOREM TrackIsSoundAlways == RouteSpec => []TrackIsSound
<1>1. RouteInit => RouteInv
  BY RouteBegins
<1>2. RouteInv /\ [RouteNext]_routeVars => RouteInv'
  BY RouteKept, RouteStays
<1>3. RouteInv => TrackIsSound
  BY RouteInvMeans
<1> QED
  BY <1>1, <1>2, <1>3, PTL DEF RouteSpec
=============================================================================
