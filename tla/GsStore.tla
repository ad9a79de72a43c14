------------------------------ MODULE GsStore -------------------------------
(***************************************************************************)
(* The server's database (net/gs_store.c): one operator per statement.     *)
(* A table is a function from its key to a row; a row that is not there is *)
(* the Empty one of its table.  Every statement runs on its own: whatever  *)
(* it checks and whatever it writes happen together.                       *)
(*                                                                         *)
(* A change gives the table after it; what the C function returns is the   *)
(* operator of the same name with "May" before it.  Left out: colours,     *)
(* vehicles, counts, the error text, and SQLite itself failing.            *)
(***************************************************************************)
EXTENDS Integers, FiniteSets

CONSTANTS NoOne        \* no owner, no password, no secret, no author

VisibleTo == {"private", "shared", "public"}

-----------------------------------------------------------------------------
(* session: nonce -> driver, expires, spent *)

NoSession == [driver |-> NoOne, expires |-> 0, spent |-> FALSE]

MayIssue(session, nonce) == session[nonce] = NoSession

IssueSession(session, nonce, who, now, lifetime) ==
    [session EXCEPT ![nonce] =
        [driver |-> who, expires |-> now + lifetime, spent |-> FALSE]]

\* Slip: whether it was spent is not part of the statement.
MaySpendTwice(session, nonce, who, now) ==
    /\ nonce \in DOMAIN session
    /\ session[nonce].driver = who
    /\ session[nonce].expires > now

\* Issued, to this person, unspent, in date: all four in the one statement.
MaySpend(session, nonce, who, now) ==
    /\ nonce \in DOMAIN session
    /\ session[nonce].driver = who
    /\ ~session[nonce].spent
    /\ session[nonce].expires > now

SpendSession(session, nonce) == [session EXCEPT ![nonce].spent = TRUE]

ForgetSessions(session, before) ==
    [n \in DOMAIN session |->
        IF session[n].expires <= before THEN NoSession ELSE session[n]]

-----------------------------------------------------------------------------
(* driver: name -> password, totp secret, the last code step accepted *)

NoDriver == [there |-> FALSE, password |-> NoOne, totp |-> NoOne, at |-> 0]

\* put_driver and gs_driver_row: the row is there afterwards, and whatever was
\* in it still is.
PutDriver(driver, who) == [driver EXCEPT ![who].there = TRUE]

HasPassword(driver, who) == driver[who].password # NoOne

SetPassword(driver, who, password) ==
    [PutDriver(driver, who) EXCEPT ![who].password = password]

SetTotp(driver, who, secret) ==
    [PutDriver(driver, who) EXCEPT ![who].totp = secret, ![who].at = 0]

\* Slip: a step is good until a later one has been used.
MayUseTotpAgain(driver, who, step) == driver[who].at <= step

MayUseTotp(driver, who, step) == driver[who].at < step

UseTotp(driver, who, step) == [driver EXCEPT ![who].at = step]

-----------------------------------------------------------------------------
(* record: key -> the best lap and the best race; 0 says there is none *)

NoRecord == [lap |-> 0, race |-> 0]

Better(old, new) == IF new > 0 /\ (old = 0 \/ new < old) THEN new ELSE old

PutRecord(record, key, lap, race) ==
    [record EXCEPT ![key] = [lap |-> Better(@.lap, lap),
                             race |-> Better(@.race, race)]]

\* The least of the times that are times; 0 where there is none.
Least(times) ==
    IF times \ {0} = {} THEN 0
    ELSE CHOOSE t \in times \ {0} : \A u \in times \ {0} : t <= u

\* Across every distance for a lap, and over this one for a race.
BestLap(record, keys)  == Least({record[k].lap : k \in keys})
BestRace(record, keys) == Least({record[k].race : k \in keys})

-----------------------------------------------------------------------------
(* track: hash -> owner, shipped, visible, published, author *)

NoTrack == [there |-> FALSE, owner |-> NoOne, shipped |-> FALSE,
            visible |-> "private", published |-> FALSE, author |-> NoOne]

HasTrack(track, hash) == track[hash].there

PutTrack(track, hash, author) ==
    IF HasTrack(track, hash) THEN track
    ELSE [track EXCEPT ![hash] = [NoTrack EXCEPT !.there = TRUE, !.author = author]]

\* Slip: the last to ask has it.
MayClaimLast(track, hash, who) == HasTrack(track, hash) /\ ~track[hash].shipped

MayClaim(track, hash, who) ==
    /\ HasTrack(track, hash)
    /\ ~track[hash].shipped
    /\ track[hash].owner \in {NoOne, who}

ClaimTrack(track, hash, who) ==
    IF MayClaim(track, hash, who) THEN [track EXCEPT ![hash].owner = who] ELSE track

\* GS_OWNED_BY: what every change of a client's is guarded by.
Owns(track, hash, who) ==
    /\ HasTrack(track, hash)
    /\ ~track[hash].shipped
    /\ who # NoOne
    /\ track[hash].owner = who

SetVisible(track, hash, who, how) ==
    IF Owns(track, hash, who)
    THEN [track EXCEPT ![hash].visible = how, ![hash].published = (how = "public")]
    ELSE track

MarkShipped(track, hash) ==
    IF ~HasTrack(track, hash) THEN track
    ELSE [track EXCEPT ![hash].shipped = TRUE, ![hash].owner = NoOne,
                       ![hash].visible = "public", ![hash].published = TRUE]

ShareTrack(share, track, hash, who, with) ==
    IF Owns(track, hash, who) THEN share \cup {<<hash, with>>} ELSE share

UnshareTrack(share, track, hash, who, with) ==
    IF Owns(track, hash, who) THEN share \ {<<hash, with>>} ELSE share

DeleteTrack(track, hash, who) ==
    IF Owns(track, hash, who) THEN [track EXCEPT ![hash] = NoTrack] ELSE track

DeleteShares(share, track, hash, who) ==
    IF Owns(track, hash, who) THEN {s \in share : s[1] # hash} ELSE share

\* Slip: to be shared with somebody is to be seen, whatever the track is now.
CanSeeShared(track, share, hash, who) ==
    /\ HasTrack(track, hash)
    /\ \/ track[hash].shipped
       \/ track[hash].visible = "public"
       \/ who # NoOne /\ track[hash].owner = who
       \/ <<hash, who>> \in share

\* GS_VISIBLE_TO: nobody in particular never equals an owner or a viewer.
CanSee(track, share, hash, who) ==
    /\ HasTrack(track, hash)
    /\ \/ track[hash].shipped
       \/ track[hash].visible = "public"
       \/ who # NoOne /\ track[hash].owner = who
       \/ track[hash].visible = "shared" /\ <<hash, who>> \in share

\* gs_store_list_visible without the 64 rows its caller has room for.  Only what is listed
\* is asked about here: a lobby's WANT_TRACK gives a track to any client that names its hash.
ListVisible(track, share, who) == {h \in DOMAIN track : CanSee(track, share, h, who)}

\* gs_store_publish: for tools and the server itself, with no owner to ask.  It
\* writes the old flag and not the visibility.
Publish(track, hash, author) ==
    IF ~HasTrack(track, hash) THEN track
    ELSE [track EXCEPT ![hash].published = TRUE, ![hash].author = author]

MayWithdraw(track, hash, author) ==
    /\ HasTrack(track, hash)
    /\ track[hash].author = author
    /\ track[hash].published
    /\ ~track[hash].shipped

Withdraw(track, hash, author) ==
    IF ~MayWithdraw(track, hash, author) THEN track
    ELSE [track EXCEPT ![hash].published = FALSE, ![hash].visible = "private"]

ListPublished(track) == {h \in DOMAIN track : track[h].published}

\* Every open runs it: what the old flag put up and the new rule does not show
\* becomes public.
Migrate(track) ==
    [h \in DOMAIN track |->
        IF track[h].published /\ track[h].visible = "private"
        THEN [track[h] EXCEPT !.visible = "public"] ELSE track[h]]
=============================================================================
