------------------------------ MODULE GsProto ------------------------------
(***************************************************************************)
(* Messages between a client and a server (net/gs_proto.c): what is written*)
(* of each, what is refused of it, and what is read of the rest.           *)
(*                                                                         *)
(* A message is its kind and the fields after its head, each with a width  *)
(* in bytes; whoever writes one fills every field, and whoever reads it may*)
(* have been sent anything.  A string is its length and bytes that are only*)
(* carried are how many there are; other fields are the numbers they hold. *)
(***************************************************************************)
EXTENDS Integers, SequencesExt

Places == 4
ChunkBytes == 1024
SecretBytes == 32

\* GS_HEAD: u32 magic, u8 version, u8 kind.
HeadBytes == 6

Wide == [u8 |-> 1, u16 |-> 2, u32 |-> 4, u64 |-> 8, flag |-> 1, bit |-> 1, slot |-> 1,
         count |-> 1, players |-> 1, chunk |-> 2, chunks |-> 2, size |-> 2, length |-> 1,
         name |-> 16, addr |-> 64, password |-> 64, why |-> 64, title |-> 48,
         key |-> 32, secret |-> 32]

Strings == {"name", "addr", "password", "why", "title"}

-----------------------------------------------------------------------------
(* The messages, field by field *)

JoinMsg == <<"name", "flag">>
ByeMsg == <<>>
StampMsg == <<"u32">>
FullMsg == <<"why">>
PlayerFields == <<"name", "addr", "u16", "slot", "flag", "flag", "key", "flag">>
RosterFields == <<"count", "count">> \o PlayerFields \o PlayerFields
                                     \o PlayerFields \o PlayerFields
WelcomeMsg == <<"slot">> \o RosterFields
LobbyMsg == RosterFields
StartMsg == <<"u64", "players", "u16", "u8", "bit">>
WantTrackMsg == <<"u64">>
TrackMsg == <<"u64", "chunk", "chunks", "size">>
ProofMsg == <<"u64", "chunk", "chunks", "size">>
WrapMsg == <<>>
SessionMsg == <<"u64">>
ResultMsg == <<"u64", "u64", "u16", "u8", "u8", "u32", "u32", "u64">>
WantBestMsg == <<"u64", "u64", "u16">>
BestMsg == <<"u64", "u64", "u16", "u32", "name", "u32", "name">>
PublishMsg == <<"u64", "title">>
WithdrawMsg == <<"u64">>
LoginMsg == <<"name", "password", "u32">>
ClaimMsg == <<"name", "password", "length", "secret">>
ShareMsg == <<"u64", "key", "flag">>
WantListMsg == <<>>
ListingMsg == <<"u16", "u16", "u64", "title", "name">>
RelayMsg == <<"size">>
ForwardMsg == <<"u8", "size">>

\* gs_msg
Layout == [
    handshake |-> WrapMsg, sealed |-> WrapMsg,
    join |-> JoinMsg, bye |-> ByeMsg, ping |-> StampMsg, want_track |-> WantTrackMsg,
    relay |-> RelayMsg, result |-> ResultMsg, session |-> SessionMsg,
    want_best |-> WantBestMsg, proof |-> ProofMsg, publish |-> PublishMsg,
    withdraw |-> WithdrawMsg, want_list |-> WantListMsg, share |-> ShareMsg,
    login |-> LoginMsg, claim |-> ClaimMsg,
    welcome |-> WelcomeMsg, full |-> FullMsg, lobby |-> LobbyMsg, track |-> TrackMsg,
    start |-> StartMsg, pong |-> StampMsg, forward |-> ForwardMsg, best |-> BestMsg,
    listing |-> ListingMsg]

Kind == DOMAIN Layout

\* Those with bytes of their own after the fields: how many, if the message says.
Wrapped == {"handshake", "sealed"}
Chunked == {"track", "proof"}
Relayed == {"relay", "forward"}

FieldBytes(kind) == FoldSeq(LAMBDA type, sum : sum + Wide[type], 0, Layout[kind])
Need(kind) == HeadBytes + FieldBytes(kind) + (IF kind \in Wrapped THEN 1 ELSE 0)
Told(kind, field) == field[CHOOSE i \in DOMAIN field : Layout[kind][i] = "size"]

-----------------------------------------------------------------------------
(* Writing *)

\* gs_put_str: one byte is kept for the end of it.
PutStr(type, v) == IF v < Wide[type] - 1 THEN v ELSE Wide[type] - 1

PutField(type, v) == IF type \in Strings THEN PutStr(type, v)
                ELSE IF type = "flag" /\ v # 0 THEN 1 ELSE v

MayWrite(kind, field, data, cap) ==
    /\ cap >= HeadBytes + FieldBytes(kind) + data
    /\ kind \in Wrapped => data > 0
    /\ kind \in Chunked => data <= ChunkBytes
    /\ \A i \in DOMAIN field : Layout[kind][i] = "length" => field[i] <= SecretBytes

\* The datagram, and that it is one of ours (magic and version).
Packed(kind, field, data) ==
    [ours |-> TRUE, kind |-> kind, len |-> HeadBytes + FieldBytes(kind) + data,
     field |-> [i \in DOMAIN field |-> PutField(Layout[kind][i], field[i])]]

-----------------------------------------------------------------------------
(* Reading *)

\* gs_proto_kind
KindOf(d) == IF d.len >= HeadBytes /\ d.ours THEN d.kind ELSE "NONE"

\* gs_expect
Expect(d, kind) == KindOf(d) = kind /\ d.len >= Need(kind)

\* gs_get_str, into as many bytes as the field has.
GetStr(type, v) == IF v < Wide[type] - 1 THEN v ELSE Wide[type] - 1

Got(type, v) == IF type \in Strings THEN GetStr(type, v)
                ELSE IF type = "flag" /\ v # 0 THEN 1
                ELSE IF type = "bit" THEN v % 2 ELSE v

\* Slip: a full race has too many players.
FineUnderFull(type, v) ==
    CASE type = "slot"    -> v < Places
      [] type = "count"   -> v <= Places
      [] type = "players" -> v \in 1 .. Places - 1
      [] type = "length"  -> v <= SecretBytes
      [] OTHER            -> TRUE

\* What a number may be.
Fine(type, v) ==
    CASE type = "slot"    -> v < Places
      [] type = "count"   -> v <= Places
      [] type = "players" -> v \in 1 .. Places
      [] type = "length"  -> v <= SecretBytes
      [] OTHER            -> TRUE

\* A chunk's number and size.
FineChunk(d) ==
    /\ Told(d.kind, d.field) <= ChunkBytes
    /\ Need(d.kind) + Told(d.kind, d.field) <= d.len
    /\ d.field[2] < d.field[3]

\* gs_proto_payload
FinePayload(d) == Need(d.kind) + Told(d.kind, d.field) <= d.len

Accepts(d) ==
    /\ Expect(d, d.kind)
    /\ \A i \in DOMAIN d.field : Fine(Layout[d.kind][i], d.field[i])
    /\ d.kind \in Chunked => FineChunk(d)
    /\ d.kind \in Relayed => FinePayload(d)

\* How many bytes are taken after the fields.
Taken(d) == IF d.kind \in Wrapped THEN d.len - HeadBytes
            ELSE IF d.kind \in Chunked \cup Relayed THEN Told(d.kind, d.field) ELSE 0

Unpacked(d) ==
    IF ~Accepts(d) THEN [kind |-> "NONE"]
    ELSE [kind |-> d.kind, data |-> Taken(d),
          field |-> [i \in DOMAIN d.field |-> Got(Layout[d.kind][i], d.field[i])]]

-----------------------------------------------------------------------------
(* One message, written and read *)

VARIABLES
    said,       \* what is to be said: [kind, field, data]
    wire,       \* the datagram, or Nothing
    meddled,    \* whether somebody else had a hand in it
    learnt      \* what was read

protoVars == <<said, wire, meddled, learnt>>

Nothing == [ours |-> FALSE, kind |-> "NONE", len |-> 0, field |-> <<>>]

\* What a program has to say of a field, and what may come in one.
Sayable(type) ==
    CASE type \in Strings    -> {0, Wide[type] - 1, Wide[type]}
      [] type = "slot"       -> {0, 3}
      [] type = "players"    -> {1, 4}
      [] type = "chunk"      -> {0, 1}
      [] type = "chunks"     -> {2}
      [] type = "length"     -> {0, SecretBytes, SecretBytes + 1}
      [] type \in {"flag", "bit"} -> {0, 1}
      [] OTHER               -> {0, 4}

Comes(type) ==
    CASE type \in Strings      -> {0, Wide[type] - 1, Wide[type]}
      [] type \in {"chunk", "chunks"} -> {0, 1, 2}
      [] type = "size"         -> {0, 1, 2, ChunkBytes, ChunkBytes + 1}
      [] type = "length"       -> {0, SecretBytes, SecretBytes + 1}
      [] OTHER                 -> {0, 1, 2, 4, 5}

Plain(kind, data) ==
    [i \in DOMAIN Layout[kind] |->
        CASE Layout[kind][i] = "size"   -> data
          [] Layout[kind][i] = "chunks" -> 2
          [] Layout[kind][i] = "players" -> 1
          [] OTHER -> 0]

Sizes(kind) == IF kind \in Wrapped \cup Chunked \cup Relayed
               THEN {0, 1, ChunkBytes, ChunkBytes + 1} ELSE {0}

\* One field at a time is something out of the ordinary.
Said(kind) ==
    {[kind |-> kind, field |-> Plain(kind, data), data |-> data] : data \in Sizes(kind)} \cup
    UNION {{[kind |-> kind, field |-> [Plain(kind, 0) EXCEPT ![i] = v], data |-> 0] :
                v \in Sayable(Layout[kind][i])} :
           i \in {j \in DOMAIN Layout[kind] : Layout[kind][j] # "size"}}

ProtoInit ==
    /\ said \in UNION {Said(kind) : kind \in Kind}
    /\ wire = Nothing /\ meddled = FALSE /\ learnt = [kind |-> "NONE"]

\* Into a buffer that just holds it, or just does not.
WriteMessage ==
    /\ wire = Nothing
    /\ \E cap \in {Packed(said.kind, said.field, said.data).len - 1,
                   Packed(said.kind, said.field, said.data).len} :
            /\ MayWrite(said.kind, said.field, said.data, cap)
            /\ wire' = Packed(said.kind, said.field, said.data)
    /\ UNCHANGED <<said, meddled, learnt>>

\* A field of somebody's own making, a piece of it, or another program's datagram.
Meddle ==
    /\ wire # Nothing /\ ~meddled /\ learnt.kind = "NONE"
    /\ \/ \E i \in DOMAIN wire.field : \E v \in Comes(Layout[wire.kind][i]) :
            wire' = [wire EXCEPT !.field[i] = v]
       \/ \E len \in {0, HeadBytes - 1, HeadBytes, wire.len - 1, wire.len + 1} :
            wire' = [wire EXCEPT !.len = len]
       \/ wire' = [wire EXCEPT !.ours = FALSE]
    /\ meddled' = TRUE
    /\ UNCHANGED <<said, learnt>>

ReadMessage ==
    /\ wire # Nothing /\ learnt.kind = "NONE" /\ learnt' = Unpacked(wire)
    /\ UNCHANGED <<said, wire, meddled>>

ProtoNext == WriteMessage \/ Meddle \/ ReadMessage

ProtoSpec == ProtoInit /\ [][ProtoNext]_protoVars

-----------------------------------------------------------------------------
(* Properties *)

\* What nobody has meddled with is never misread: all of it comes out as it was said,
\* names as much of them as their field has room for with an end to it.
ReadAsSaid ==
    wire # Nothing /\ ~meddled =>
        Unpacked(wire) =
            [kind |-> said.kind, data |-> said.data,
             field |-> [i \in DOMAIN said.field |->
                IF Layout[said.kind][i] \in Strings
                THEN IF said.field[i] >= Wide[Layout[said.kind][i]]
                     THEN Wide[Layout[said.kind][i]] - 1 ELSE said.field[i]
                ELSE said.field[i]]]

\* gs_proto.c: "The length it claims has to be the length that is there".  Whatever comes,
\* no more is taken of a message than came, and what it says of seats, players, chunks
\* and secrets can be used as it is to look in a table of as many.
TakenIsThere ==
    learnt.kind # "NONE" =>
        /\ HeadBytes + FieldBytes(learnt.kind) + learnt.data <= wire.len
        /\ \A i \in DOMAIN learnt.field :
              LET type == Layout[learnt.kind][i]
                  v == learnt.field[i]
              IN  /\ type \in {"count", "players"} => v <= Places
                  /\ type = "slot" => v < Places
                  /\ type = "length" => v <= SecretBytes
                  /\ type \in Strings => v < Wide[type]
                  /\ type = "chunk" => v < learnt.field[i + 1]

\* Said or made up, a message comes to no more than what it says.
HeardRight == ReadAsSaid /\ TakenIsThere
=============================================================================
