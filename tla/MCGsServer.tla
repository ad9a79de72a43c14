----------------------------- MODULE MCGsServer -----------------------------
(***************************************************************************)
(* The server, one part at a time: the tracks it keeps (GsCatalogue), names*)
(* (GsNames), times (GsClaims) and the lobby (GsLobby).  They meet in the  *)
(* operators of the store and of the door that they share.                 *)
(***************************************************************************)
EXTENDS GsCatalogue, GsNames, GsClaims, GsLobby

CONSTANTS m1, m2,         \* machines; only the first drives
          stock, sent,    \* tracks: one that came with the game, one that is sent
          k1, k2, k3,     \* the keys of three people
          a, b, c, d      \* connections

\* One server of one seat, with a client and three that only knock; one of two, for
\* two clients.
OneOrTwo == <<{a}, {a, b}>>
Knocking == <<{b, c, d}, {}>>
Answers  == <<2, 1>>

SlotOfEach == [m \in {m1, m2} |-> IF m = m1 THEN 1 ELSE 2]
TypedOn == [m \in {m1, m2} |-> IF m = m1 THEN {"ann"} ELSE {}]

\* What the server makes of a name somebody has proved; a spare may be typed, too.
SpareFor(n, s) ==
    IF n = "ann" THEN IF s = 1 THEN "ann-1" ELSE "ann-2"
    ELSE IF s = 1 THEN "ann-1-1" ELSE "ann-1-2"
Names == {"ann", "ann-1", "ann-2", "ann-1-1", "ann-1-2"}

\* First a race of two chunks on a track the server has, or one on a track it has
\* not; then a slower one of one chunk, which may be judged first.
Races == <<{<<1, 1, 3>>, <<2, 1, 1>>}, {<<1, 2, 1>>}>>

VARIABLE part     \* what is being run; the others stay as they start

ServerInit ==
    /\ part \in {"catalogue", "names", "claims", "lobby"}
    /\ CatalogueInit /\ NamesInit /\ ClaimsInit /\ LobbyInit
    /\ part # "lobby" => capacity = 1 /\ served

ServerNext ==
    \/ part = "catalogue" /\ CatalogueNext
       /\ UNCHANGED <<part, namesVars, claimsVars, lobbyVars>>
    \/ part = "names" /\ NamesNext
       /\ UNCHANGED <<part, catalogueVars, claimsVars, lobbyVars>>
    \/ part = "claims" /\ ClaimsNext
       /\ UNCHANGED <<part, catalogueVars, namesVars, lobbyVars>>
    \/ part = "lobby" /\ LobbyNext
       /\ UNCHANGED <<part, catalogueVars, namesVars, claimsVars>>

ServerSpec ==
    ServerInit
    /\ [][ServerNext]_<<part, catalogueVars, namesVars, claimsVars, lobbyVars>>
=============================================================================
