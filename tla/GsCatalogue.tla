---------------------------- MODULE GsCatalogue -----------------------------
(***************************************************************************)
(* Tracks on the server: whose they are, who may see them, and which one   *)
(* the lobby races (frontend/server/main.c over net/gs_store.c).           *)
(*                                                                         *)
(* A key is what a client proved it holds; a track is its hash.  A client's*)
(* messages may reach the server in any order, again, or not at all, so    *)
(* any of them may be the next.  The server may stop and start at any time;*)
(* the database stays and what it was serving is chosen anew.              *)
(*                                                                         *)
(* `said` and `asked` are no part of the program: they keep what the owner *)
(* last said of a track and whom it was shared with, to compare with.      *)
(***************************************************************************)
EXTENDS GsStore

CONSTANTS Hash,       \* the tracks there are
          Stock,      \* those that came with the game
          Key         \* the keys of the people there are

ASSUME CatalogueAssumption ==
    /\ Stock \subseteq Hash
    /\ NoOne \notin Key

VARIABLES
    track,     \* the table of tracks
    share,     \* the table of shares: {<<hash, key>>}
    racing,    \* the track this lobby races, or NoOne
    said,      \* said[h]: the visibility its owner last asked for
    asked,     \* {<<hash, key>>}: shared with them, and not unshared since
    putUp      \* tracks the server has published itself

catalogueVars == <<track, share, racing, said, asked, putUp>>

\* make_store.c: stock tracks are put in, published and marked before any server
\* starts.
CatalogueInit ==
    /\ track = [h \in Hash |->
                 IF h \in Stock
                 THEN [NoTrack EXCEPT !.there = TRUE, !.shipped = TRUE,
                                      !.visible = "public", !.published = TRUE,
                                      !.author = "gearstick"]
                 ELSE NoTrack]
    /\ share = {}
    /\ racing = NoOne
    /\ said = [h \in Hash |-> "private"]
    /\ asked = {}
    /\ putUp = Stock

-----------------------------------------------------------------------------
(* What a client asks *)

\* GS_MSG_TRACK, once every piece is here and it hashes to its name: kept, and
\* claimed for whoever sent it.
Upload(h, who) ==
    /\ track' = ClaimTrack(PutTrack(track, h, "driver"), h, who)
    /\ UNCHANGED <<share, racing, said, asked, putUp>>

\* GS_MSG_PUBLISH: only a track the server has, and only after the claim.
PublishTrack(h, who) ==
    /\ HasTrack(track, h)
    /\ MayClaim(track, h, who)
    /\ track' = SetVisible(ClaimTrack(track, h, who), h, who, "public")
    /\ said' = [said EXCEPT ![h] = "public"]
    /\ UNCHANGED <<share, racing, asked, putUp>>

\* GS_MSG_WITHDRAW
WithdrawTrack(h, who) ==
    /\ track' = SetVisible(track, h, who, "private")
    /\ IF Owns(track, h, who)
       THEN said' = [said EXCEPT ![h] = "private"] /\ putUp' = putUp \ {h}
       ELSE UNCHANGED <<said, putUp>>
    /\ UNCHANGED <<share, racing, asked>>

\* GS_MSG_SHARE: shared with one person is shared rather than private.
Share(h, who, with) ==
    /\ track' = SetVisible(track, h, who, "shared")
    /\ share' = ShareTrack(share, track, h, who, with)
    /\ IF Owns(track, h, who)
       THEN /\ said' = [said EXCEPT ![h] = "shared"]
            /\ asked' = asked \cup {<<h, with>>}
            /\ putUp' = putUp \ {h}
       ELSE UNCHANGED <<said, asked, putUp>>
    /\ UNCHANGED racing

Unshare(h, who, with) ==
    /\ share' = UnshareTrack(share, track, h, who, with)
    /\ asked' = IF Owns(track, h, who) THEN asked \ {<<h, with>>} ELSE asked
    /\ UNCHANGED <<track, racing, said, putUp>>

\* The store's own; no message reaches it yet.
Delete(h, who) ==
    /\ Owns(track, h, who)
    /\ track' = DeleteTrack(track, h, who)
    /\ share' = DeleteShares(share, track, h, who)
    /\ said' = [said EXCEPT ![h] = "private"]
    /\ asked' = {a \in asked : a[1] # h}
    /\ putUp' = putUp \ {h}
    /\ UNCHANGED racing

-----------------------------------------------------------------------------
(* What the server does of itself *)

\* A time on a track nobody has sent: today's or yesterday's is built from the
\* date, kept and published.
KeepDaily(h) ==
    /\ h \notin Stock
    /\ ~HasTrack(track, h)
    /\ track' = Publish(PutTrack(track, h, "the calendar"), h, "the calendar")
    /\ putUp' = putUp \cup {h}
    /\ UNCHANGED <<share, racing, said, asked>>

\* gs_take_down: racing no longer, and withdrawn where the store allows.
TakeDown ==
    /\ racing # NoOne
    /\ track' = Withdraw(track, racing, NoOne)
    /\ putUp' = IF MayWithdraw(track, racing, NoOne) THEN putUp \ {racing} ELSE putUp
    /\ said' = IF MayWithdraw(track, racing, NoOne)
               THEN [said EXCEPT ![racing] = "private"] ELSE said
    /\ racing' = NoOne
    /\ UNCHANGED <<share, asked>>

\* What a server started with this --track, or none, serves: the one named, else
\* the first that is published (the newest; any of them here).
Serves(tracks, named) ==
    IF named # NoOne THEN {named}
    ELSE IF ListPublished(tracks) = {} THEN {NoOne} ELSE ListPublished(tracks)

\* A track named on the command line is put in, and published.
Imported(tracks, named) ==
    IF named = NoOne THEN tracks
    ELSE Publish(PutTrack(tracks, named, NoOne), named, NoOne)

\* gs_store_open and the start of main.
Restart(named) ==
    /\ track' = Imported(Migrate(track), named)
    /\ putUp' = putUp \cup ({named} \ {NoOne})
    /\ racing' \in Serves(track', named)
    /\ UNCHANGED <<share, said, asked>>

CatalogueNext ==
    \/ \E h \in Hash, who \in Key :
        \/ Upload(h, who) \/ PublishTrack(h, who) \/ WithdrawTrack(h, who)
        \/ Delete(h, who)
        \/ \E with \in Key : Share(h, who, with) \/ Unshare(h, who, with)
    \/ \E h \in Hash : KeepDaily(h)
    \/ TakeDown
    \/ \E named \in Hash \cup {NoOne} : Restart(named)

CatalogueSpec == CatalogueInit /\ [][CatalogueNext]_catalogueVars

-----------------------------------------------------------------------------
CatalogueTypeOK ==
    /\ track \in [Hash -> [there : BOOLEAN, owner : Key \cup {NoOne},
                           shipped : BOOLEAN, visible : VisibleTo,
                           published : BOOLEAN,
                           author : {NoOne, "driver", "gearstick", "the calendar"}]]
    /\ share \subseteq Hash \X Key
    /\ racing \in Hash \cup {NoOne}
    /\ said \in [Hash -> VisibleTo]
    /\ asked \subseteq Hash \X Key
    /\ putUp \subseteq Hash

\* Who sees a track: everybody if it came with the game; its owner; everybody if
\* the owner last said public, and those the owner shared it with if the owner last
\* said shared.  Nobody else does, and none of these is left out, whatever has been
\* withdrawn, unshared, deleted, sent again or restarted between.  Of a track the
\* server put up itself the owner's word is the least of it.
SeenByThoseItIsFor ==
    \A h \in Hash, k \in Key :
        LET told == \/ h \in Stock
                    \/ track[h].owner = k
                    \/ said[h] = "public"
                    \/ said[h] = "shared" /\ <<h, k>> \in asked
        IN  /\ told => CanSee(track, share, h, k)
            /\ CanSee(track, share, h, k) => told \/ h \in putUp

\* The first claim stands: a track's owner is never another's, and what came with
\* the game is never anybody's, never down, and never gone.
FirstClaimStands ==
    [][\A h \in Hash :
        /\ track[h].owner # NoOne => track'[h].owner \in {track[h].owner, NoOne}
        /\ (track[h].owner # NoOne /\ track'[h].owner = NoOne) => ~track'[h].there
        /\ h \in Stock => /\ track'[h].shipped
                          /\ track'[h].owner = NoOne
                          /\ \A k \in Key : CanSee(track', share', h, k)]_catalogueVars
=============================================================================
