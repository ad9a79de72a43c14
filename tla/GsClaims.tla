------------------------------ MODULE GsClaims ------------------------------
(***************************************************************************)
(* A time, from the machine that drove it to the table it stands in        *)
(* (gs_wire_send_result; GS_MSG_RESULT and GS_MSG_PROOF on the server; the *)
(* one-shot tokens).                                                       *)
(*                                                                         *)
(* A machine drives, and sends the claim and then its recording in chunks, *)
(* none of it acknowledged or sent again.  The tunnel lets each datagram   *)
(* through once (GsTunnel), in any order, or never; when the server forgets*)
(* the client or itself, the tunnel and what was in it are gone.  Names    *)
(* are those of GsNames without the second factor.                         *)
(*                                                                         *)
(* `kept` is no part of the program: every claim that was accepted.        *)
(***************************************************************************)
EXTENDS GsAuth, FiniteSets, Sequences, TLC

CONSTANTS Typed,          \* Typed[m]: the names typed on machine m
          Kept,           \* tracks the server has, or can build for itself
          Driven,         \* Driven[n]: what race n may be: <<track, ticks, bytes>>
          MaxChunks,      \* GS_CARRIER_MAX_CHUNKS
          ChunkLen,       \* GS_CHUNK_BYTES
          Lifetime,       \* GS_SESSION_SECONDS
          MaxUp,          \* bound: datagrams on their way to the server at once
          MaxTokens,      \* bound: tokens issued
          MaxNow          \* bound: the wall clock

ASSUME ClaimsAssumption ==
    /\ ChunkLen \in Nat \ {0}
    /\ Driven \in Seq(SUBSET (Nat \X Nat \X Nat))
    /\ NoOne \notin Name
    /\ Typed \in [Remote -> SUBSET Name]
    /\ \A m \in Remote : \A n \in Typed[m] : Spare(n, SlotOf[m]) \in Name

VARIABLES
    driver,      \* the store: names with their passwords
    session,     \* the store: tokens
    record,      \* the store: the best race of each name on each track
    client,      \* client[m]: what the server holds of machine m
    wire,        \* wire[m]: [session, called], what m holds of the server
    up,          \* datagrams on their way to the server, each <<m, datagram>>
    down,        \* tokens on their way to a machine, each <<m, token>>
    raced,       \* how many races there have been
    now,
    kept

claimsVars == <<driver, session, record, client, wire, up, down, raced, now, kept>>

-----------------------------------------------------------------------------
(* Something too big for one datagram, collected in pieces                 *)
(* (net/gs_carrier.c): the recording behind a time.  A chunk is [hash, chunk,*)
(* chunks, len, data]: whose it is, which one, of how many, how long, and  *)
(* what is in it.  Bytes are left out: `data` says where a piece came from.*)
(* `have` and `got` are the domain of `pieces`.                            *)

EmptyCarrier == [hash |-> 0, chunks |-> 0, pieces |-> <<>>]

Complete(c) == c.chunks > 0 /\ Cardinality(DOMAIN c.pieces) = c.chunks

\* gs_carrier_expect: the same thing is already being collected, or a new one is.
Expect(c, hash) ==
    IF c.hash = hash /\ ~Complete(c) THEN c
    ELSE [EmptyCarrier EXCEPT !.hash = hash]

\* gs_carrier_chunks, and gs_carrier_chunk for each: len bytes cut up.
ChunksOf(len) == (len + ChunkLen - 1) \div ChunkLen

Cut(hash, len, data) ==
    {[hash |-> hash, chunk |-> i, chunks |-> ChunksOf(len), data |-> data,
      len |-> IF i + 1 < ChunksOf(len) THEN ChunkLen ELSE len - i * ChunkLen] :
        i \in 0 .. ChunksOf(len) - 1}

\* Everything that is checked before anything is kept.
Takes(c, d) ==
    /\ d.hash = c.hash
    /\ d.chunks <= MaxChunks
    /\ d.chunk < MaxChunks
    /\ d.chunk < d.chunks
    /\ c.chunks \in {0, d.chunks}
    /\ d.chunk * ChunkLen + d.len <= MaxChunks * ChunkLen
    /\ d.chunk + 1 < d.chunks => d.len = ChunkLen

Collected(c, d) ==
    IF ~Takes(c, d) THEN c
    ELSE [c EXCEPT !.chunks = d.chunks,
                   !.pieces = [i \in {d.chunk} \cup DOMAIN @ |->
                                 IF i = d.chunk THEN d.data ELSE @[i]]]

\* Everything in it came from one thing.
Whole(c) == \A i, j \in DOMAIN c.pieces : c.pieces[i] = c.pieces[j]

-----------------------------------------------------------------------------
(* Judging a claimed time by re-racing the recording (net/gs_verify.c).  A *)
(* recording (core/gs_replay.h) is what it says of itself: the track, the  *)
(* laps, who drove each car, the ending everybody agreed on, and `run`:    *)
(* what playing it back comes to, a world with a finish and a best lap per *)
(* car.  Zero stands for "does not say" throughout, and so does "".        *)

\* gs_replay_playback: what comes out depends on nothing but the recording, and
\* on a track it was not made on nothing does.
Playable(r, track) == r.track = track /\ r.run # <<>>

\* A time claimed against the one driven: not equality, a slower claim is taken.
TimeVerdict(claimed, driven, toogood) ==
    IF claimed = 0 THEN "ok"
    ELSE IF driven = 0 THEN "unfinished"
    ELSE IF claimed < driven THEN toogood ELSE "ok"

\* gs_verify: the first thing wrong is the verdict.
Verify(r, track, c) ==
    IF r.track # track                          THEN "wrong track"
    ELSE IF c.car \notin DOMAIN r.driver        THEN "no such car"
    ELSE IF r.laps # c.laps                     THEN "wrong rules"
    ELSE IF c.who # "" /\ r.driver[c.car] # c.who THEN "wrong driver"
    ELSE IF ~Playable(r, track)                 THEN "not a replay"
    ELSE IF r.run.conditions # c.conditions     THEN "wrong rules"
    ELSE IF r.agreed # 0 /\ r.run.ending # r.agreed THEN "not that race"
    ELSE LET race == TimeVerdict(c.race, r.run.finish[c.car], "race too good")
             lap  == TimeVerdict(c.lap, r.run.best[c.car], "lap too good")
         IN  IF race # "ok" THEN race ELSE lap

-----------------------------------------------------------------------------
(* The machines and the server *)

NoClaim == [track |-> 0]

\* gs_client: `session` is the token it was last issued, `nonce` the one that came
\* with the claim, NoClaim where `claimed` is false.
Gone == [used |-> FALSE, name |-> NoOne, proved |-> FALSE, session |-> 0,
         nonce |-> 0, claim |-> NoClaim, proof |-> EmptyCarrier]

Unheard == [session |-> 0, called |-> NoOne]

ClaimsInit ==
    /\ driver = [n \in Name |-> NoDriver]
    /\ session = [n \in 1 .. MaxTokens |-> NoSession]
    /\ record = [n \in Name |-> [t \in Kept |-> NoRecord]]
    /\ client = [m \in Remote |-> Gone]
    /\ wire = [m \in Remote |-> Unheard]
    /\ up = {} /\ down = {} /\ raced = 0 /\ now = 0 /\ kept = {}

-----------------------------------------------------------------------------
(* Tokens *)

\* A token nobody has had; random in the program.
FreshToken(s) == {n \in DOMAIN s : MayIssue(s, n)}
SomeFresh(s)  == FreshToken(s) # {}
Fresh(s)      == CHOOSE n \in FreshToken(s) : TRUE

\* gs_issue_session: written down for the name the client has, remembered, sent.
\* `s` and `c` are the tokens and the client as they have become.
Issue(m, s, c) ==
    /\ SomeFresh(s)
    /\ session' = IssueSession(s, Fresh(s), c.name, now, Lifetime)
    /\ client' = [client EXCEPT ![m] = [c EXCEPT !.session = Fresh(s)]]
    /\ down' = down \cup {<<m, Fresh(s)>>}

\* GS_MSG_SESSION: the last to arrive is the one that will be spent.
HearToken(m, n) ==
    /\ <<m, n>> \in down
    /\ wire' = [wire EXCEPT ![m].session = n]
    /\ down' = down \ {<<m, n>>}
    /\ UNCHANGED <<driver, session, record, client, up, raced, now, kept>>

\* The roster says what the server calls this machine, and it is said again and
\* again.
HearRoster(m) ==
    /\ client[m].used
    /\ wire' = [wire EXCEPT ![m].called = client[m].name]
    /\ UNCHANGED <<driver, session, record, client, up, down, raced, now, kept>>

-----------------------------------------------------------------------------
(* Names: GsNames, with the token that comes with a JOIN *)

JoinUnder(m, wanted) ==
    LET name == NameAtDoor(driver, client[m], wanted, SlotOf[m])
    IN  /\ Issue(m, session, [client[m] EXCEPT !.used = TRUE, !.name = name])
        /\ driver' = IF client[m].used THEN driver ELSE PutDriver(driver, name)
        /\ UNCHANGED <<record, wire, up, raced, now, kept>>

\* GS_MSG_LOGIN and GS_MSG_CLAIM: the name changes and no token is issued.
BecomeProved(m, who) ==
    /\ client[m].used
    /\ driver' = SetPassword(driver, who, "password")
    /\ client' = [client EXCEPT ![m].name = who, ![m].proved = TRUE]
    /\ UNCHANGED <<session, record, wire, up, down, raced, now, kept>>

LogIn(m, who) == HasPassword(driver, who) /\ BecomeProved(m, who)
TakeName(m, who) == MayClaimName(driver, client[m], who) /\ BecomeProved(m, who)

-----------------------------------------------------------------------------
(* Driving, and sending it *)

\* The recording of a race machine m drove in car 0: what gs_start_race wrote at
\* its head and what playing it back comes to.
Recorded(m, track, time) ==
    [track |-> track, laps |-> 3, driver |-> [car \in {0} |-> wire[m].called],
     agreed |-> raced + 1,
     run |-> [conditions |-> 1, ending |-> raced + 1,
              finish |-> [car \in {0} |-> time], best |-> [car \in {0} |-> time]]]

\* What GS_MSG_RESULT carries.  Who it is for is the server's to say.
Claim(track, time) == [who |-> "", track |-> track, conditions |-> 1, laps |-> 3,
                       car |-> 0, lap |-> time, race |-> time]

\* gs_wire_send_result: the claim, then every chunk of what backs it, all under
\* the track's hash.  What does not get through is never sent again.
SendResult(m, track, time, len) ==
    /\ client[m].used /\ wire[m].called # NoOne
    /\ raced' = raced + 1
    /\ \E through \in SUBSET
            ({<<m, [kind |-> "result", claim |-> Claim(track, time),
                    nonce |-> wire[m].session]>>}
             \cup {<<m, [kind |-> "proof", chunk |-> d]>> :
                    d \in Cut(track, len, Recorded(m, track, time))}) :
        /\ Cardinality(up \cup through) <= MaxUp
        /\ up' = up \cup through
    /\ UNCHANGED <<driver, session, record, client, wire, down, now, kept>>

-----------------------------------------------------------------------------
(* Judging it *)

\* GS_MSG_RESULT: held for whoever the client is now, and its proof expected.
ClientClaiming(m, d) ==
    [client[m] EXCEPT !.claim = [d.claim EXCEPT !.who = client[m].name],
                      !.nonce = d.nonce,
                      !.proof = Expect(@, d.claim.track)]

TakeResult(m, d) ==
    /\ <<m, d>> \in up /\ d.kind = "result"
    /\ up' = up \ {<<m, d>>}
    /\ client' = IF client[m].used
                 THEN [client EXCEPT ![m] = ClientClaiming(m, d)] ELSE client
    /\ UNCHANGED <<driver, session, record, wire, down, raced, now, kept>>

\* Is this chunk one for the claim that waits?
ForThisClaim(m, d) ==
    /\ client[m].used
    /\ client[m].claim # NoClaim
    /\ d.chunk.hash = client[m].proof.hash

\* What the server makes of the pieces once the last is there.  Pieces of two
\* recordings are no recording that anybody agreed on.
Verdict(c) ==
    IF Whole(c.proof) THEN Verify(c.proof.pieces[0], c.claim.track, c.claim)
    ELSE "not that race"

\* GS_MSG_PROOF, one action for each way it can go.  `c` is the client with the
\* chunk taken in.
TakeProof(m, d, c) ==
    /\ <<m, d>> \in up /\ d.kind = "proof"
    /\ up' = up \ {<<m, d>>}
    /\ c = [client[m] EXCEPT !.proof = Collected(@, d.chunk)]
    /\ UNCHANGED <<driver, wire, raced, now>>

Finishes(m, d, c) ==
    /\ ForThisClaim(m, d)
    /\ Takes(client[m].proof, d.chunk)
    /\ Complete(c.proof)

Unfinished(m, d, c) ==
    /\ TakeProof(m, d, c)
    /\ ~Finishes(m, d, c)
    /\ client' = IF ForThisClaim(m, d) THEN [client EXCEPT ![m] = c] ELSE client
    /\ UNCHANGED <<session, record, down, kept>>

Judged(c) == [c EXCEPT !.claim = NoClaim]

TrackMissing(m, d, c) ==
    /\ TakeProof(m, d, c)
    /\ Finishes(m, d, c) /\ c.claim.track \notin Kept
    /\ client' = [client EXCEPT ![m] = Judged(c)]
    /\ UNCHANGED <<session, record, down, kept>>

Rejected(m, d, c) ==
    /\ TakeProof(m, d, c)
    /\ Finishes(m, d, c) /\ c.claim.track \in Kept
    /\ Verdict(c) # "ok"
    /\ Issue(m, session, Judged(c))
    /\ UNCHANGED <<record, kept>>

\* The token that came with the claim, under the name the client has now.
MayPay(c) == MaySpend(session, c.nonce, c.name, now)

\* The token, spent once, after the driving is found to be real.
TokenRefused(m, d, c) ==
    /\ TakeProof(m, d, c)
    /\ Finishes(m, d, c) /\ c.claim.track \in Kept
    /\ Verdict(c) = "ok"
    /\ ~MayPay(c)
    /\ Issue(m, session, Judged(c))
    /\ UNCHANGED <<record, kept>>

Accepted(m, d, c) ==
    /\ TakeProof(m, d, c)
    /\ Finishes(m, d, c) /\ c.claim.track \in Kept
    /\ Verdict(c) = "ok"
    /\ MayPay(c)
    /\ Issue(m, SpendSession(session, c.nonce), Judged(c))
    /\ record' = [record EXCEPT ![c.name] =
                     PutRecord(@, c.claim.track, c.claim.lap, c.claim.race)]
    /\ kept' = kept \cup {[token |-> c.nonce, name |-> c.name, claim |-> c.claim,
                           run |-> c.proof.pieces[0].run]}

-----------------------------------------------------------------------------
(* Leaving, and forgetting *)

\* The slot is zeroed; and once a new tunnel is made nothing in the old one opens.
Leave(m) ==
    /\ client[m].used
    /\ client' = [client EXCEPT ![m] = Gone]
    /\ up' = {u \in up : u[1] # m}
    /\ down' = {t \in down : t[1] # m}
    /\ wire' = [wire EXCEPT ![m] = Unheard]
    /\ UNCHANGED <<driver, session, record, raced, now, kept>>

\* The server stops and starts: what is not in the database is gone.
RestartClaims ==
    /\ \E m \in Remote : client[m].used
    /\ client' = [m \in Remote |-> Gone]
    /\ up' = {} /\ down' = {}
    /\ wire' = [m \in Remote |-> Unheard]
    /\ UNCHANGED <<driver, session, record, raced, now, kept>>

TimePasses ==
    /\ now < MaxNow
    /\ now' = now + 1
    /\ UNCHANGED <<driver, session, record, client, wire, up, down, raced, kept>>

ClaimsNext ==
    \/ \E m \in Remote :
        \/ \E n \in 1 .. MaxTokens : HearToken(m, n)
        \/ HearRoster(m)
        \/ \E n \in Typed[m] : JoinUnder(m, n) \/ LogIn(m, n) \/ TakeName(m, n)
        \/ raced < Len(Driven) /\ \E race \in Driven[raced + 1] : SendResult(m, race[1], race[2], race[3])
        \/ Leave(m)
    \/ \E u \in up :
        \/ TakeResult(u[1], u[2])
        \/ u[2].kind = "proof" /\
           LET held == [client[u[1]] EXCEPT !.proof = Collected(@, u[2].chunk)]
           IN  \/ Unfinished(u[1], u[2], held)
               \/ TrackMissing(u[1], u[2], held)
               \/ Rejected(u[1], u[2], held)
               \/ TokenRefused(u[1], u[2], held)
               \/ Accepted(u[1], u[2], held)
    \/ RestartClaims
    \/ TimePasses

ClaimsSpec == ClaimsInit /\ [][ClaimsNext]_claimsVars

-----------------------------------------------------------------------------
\* Every time in the table was paid for with a token of its own, issued to the name
\* it stands under, and driven: the recording handed in finishes no later.
EachTimeIsPaidFor ==
    /\ \A k \in kept :
        /\ session[k.token].spent
        /\ session[k.token].driver = k.name
        /\ k.claim.race > 0 => k.run.finish[0] \in 1 .. k.claim.race
    /\ \A j, k \in kept : j.token = k.token => j = k

\* The table holds the best time of each name and nothing else: none that was
\* accepted is lost to a slower one, and none appears that was not.
TableIsTheBest ==
    \A n \in Name, t \in Kept :
        record[n][t].race =
            Least({k.claim.race : k \in {j \in kept : j.name = n /\ j.claim.track = t}})

\* The token a client was last issued is in the database and has not been spent: it
\* can always claim once more, whatever was said of the claims before, unless it has
\* changed its name.
NeverLeftWithout ==
    \A m \in Remote :
        client[m].session # 0 => /\ session[client[m].session].driver # NoOne
                                 /\ ~session[client[m].session].spent

\* What the server keeps of races is earned: every time paid for, the best of each kept,
\* and the next one never out of a player's reach.
TimesAreEarned == EachTimeIsPaidFor /\ TableIsTheBest /\ NeverLeftWithout
=============================================================================
