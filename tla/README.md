# gearstick, in TLA+

gearstick is a deterministic racing game: a race is a function of the track,
the conditions and what every driver pressed on every tick. Everything that is
hard about the program follows from that sentence. Machines race each other by
exchanging inputs and guessing the ones they have not heard; a recording is a
list of inputs; a server believes a lap time only after racing the recording
again. This directory models the program from the datagram to the keys: the
networked race and the sealed channel under it, how machines meet by themselves
and at a server, what the server keeps, and what one machine does by itself,
its screens, editor, library, race, sound, controls and generated tracks. It
checks them on small instances with TLC and proves, for every size, what most
of it rests on.

Paths below are relative to the repository's root. Line numbers are those of
the sources at the modelled commit.

## 1. The system

| component | state it keeps | operations | talks to | what makes it correct |
|---|---|---|---|---|
| **Rollback session** `src/core/gs_net.c` | the agreed world and its tick, the world on screen and its tick, a ring of `GS_NET_WINDOW` slots (stamp, inputs known, promises kept, inputs used), a ring of hashes, the flush counter, `desynced`, `cheated` | local input, step, packet, receive, finish, read back a confirmed input | race loop (calls), other sessions (datagrams) | the agreed race is the same everywhere and only grows; what is on screen is it plus guesses; a slot never serves two ticks; an input counts only after its promise; honest machines are not accused |
| **Race loop** `src/frontend/game/main.c` | the screen, the recording, whether a race was handed in, the settling and stall timers | start, race frame, stall and give up, finish, settle, record, hand in | session, wire, simulation, records | the recording is the race; all hand in the same ending; the settling is long enough |
| **Simulation** `src/core/gs_sim.c`, `gs_fixed.c`, `gs_vehicle.c`, `gs_stunts.c` | cars, gates passed, laps, weapons, hazards, `over` | step one tick | everybody | a step depends on the world and the inputs alone; a lap goes round; a result stands; what is left behind lasts as long as it says |
| **Lobby server** `src/frontend/server/main.c` | clients by slot and address, tunnels by address, the served track, pending claims | join, leave, drop after silence, relay, track chunks, claims, logins, publishing | wire clients, store, verifier | one slot per client; a present client keeps its tunnel; all that are ready race one ground; only a proved time is recorded |
| **Wire client** `src/platform/gs_wire.c` | tunnel to the server, peers and their tunnels, roster, transfer, retry timers | host, join, greet, poll, send, receive | server, peers, session | every handshake ends in tunnels both sides hold; `ready` only when the whole grid is reachable |
| **Tunnel** `src/net/gs_noise.c` | handshake state; send counter, receive counter and 64-bit replay map | write/read handshake message, split, seal, open | wire, server | no datagram opens twice; the map moves only for genuine ones |
| **Store** `src/net/gs_store.c` | drivers, passwords, codes used, session tokens, records, tracks, owners, shares | guarded SQL updates | server | a code and a token are spent once; first claim owns a track; records only improve; a track is seen by those it is for |
| **Verifier and recording** `src/net/gs_verify.c`, `src/core/gs_replay.c` | none; the recorded inputs and hash | judge a claim; record, play back | server, race loop | every accepted claim re-races to the time it states |
| **Codes** `src/net/gs_auth.c` | none | the acceptance window of a one-time code | server | neighbours of the current step only |
| **Messages** `src/net/gs_proto.c` | none | pack, unpack, refuse | server, wire | what is said is what is read; what is refused is not half taken |
| **Track transfer** `src/net/gs_carrier.c` | chunks held, count, length | expect, take, done | wire, server | complete only with every chunk of one thing |
| **Editor** `src/core/gs_edit.c`, `src/core/gs_parts.c`, `src/ui/gs_editor.c` | the track, a bounded log of changes, a position, the open group | strokes, parts, gates, undo, redo, save, load | front end, tracks | what a person does is one step of a history |
| **Records, library, profiles** `src/core/gs_records.c`, `gs_library.c`, `gs_profile.c` | bounded tables, kept in one file | submit, put, retire, save, load | menus, race loop | the player's own is never lost; the table is the best of what was driven |
| **Front end and menus** `src/frontend/game/main.c`, `src/ui/gs_menu.c` | the screen, the race behind it, flags between the two, the dials, who is signed in | buttons, keys, Escape | everything above | no race is worked out twice; GO is a new race; a time is of who drove it |
| **Tracks** `src/core/gs_track.c`, `gs_generate.c`, `gs_share.c`, ... | none | format, reverse, generate, hash, share codes, grid, gates, ground | all | a reversed track is the same road; a generated one can be built and driven |
| **Computer driver** `src/core/gs_ai.c` | none | choose an input | race loop | aims at what counts, on the field; decides at thresholds for good |
| **Sound** `src/audio/gs_audio.c`, `gs_music.c` | voices, shared by two threads | update; render | race loop, the device | what is rendered is of one frame |
| **Controls** `src/platform/gs_input.c`, `gs_bind.c` | keys held, the focus, bindings | key and focus events, poll, capture | race loop, editor | no key drives that nobody holds |
| **Rendering, tool, clock** `src/gfx`, `src/frontend/cli`, `src/core/gs_clock.c` | devices | — | — | — |

Interaction in a networked race, once a frame on every machine: drain the wire
into the session (`gs_net_receive`); run each simulated tick as *poll the pad →
record the local input → pack and send a datagram → step*; write down newly
agreed ticks; look at whether the world on screen is over. No two of these run
at once on one machine: concurrency is between machines, and everything a
machine knows of another came in a datagram that may be lost, late, repeated or
overtaken. Nothing is acknowledged and nothing is asked for again: a promise
rides `GS_NET_COMMITS` datagrams, and its proof `GS_NET_REDUNDANCY`. The one
exception on a single machine is the sound, rendered on a thread of its own.

What is hard here: speculation and its repair; a ring addressed by
`tick % GS_NET_WINDOW` with two writers; commit-then-reveal
(`GS_NET_REVEAL_DELAY` ticks between promise and proof, so that nobody can
answer an input they have seen); the end of a race each machine sees at its own
time, early or late; handshakes repeated before they are answered; messages of a
client the server has meanwhile forgotten; a token that must be spent once and
never be missing; state that waits behind a screen. The full list, each at its
line, is the `hazards` of `PROJECT.json`.

## 2. Modules

| module | what it is |
|---|---|
| **The networked race** | |
| `GsNet` | `gs_net.c` as pure operators on a session record with the fields of `struct gs_net`: one operator per function, and the loops inside them as sets of ticks |
| `GsPeer` | one session, driven by the race loop, against peers that may say anything |
| `GsAgreedRace` | what a networked race promises, with no network in it |
| `GsRace` | one session per machine, the game loop, the recording, the settling, the network |
| `GsFairRace` | `GsRace` with the frames scheduled, for liveness |
| **Meeting** | |
| `GsNoise`, `GsTunnel` | a sealed channel's session (`gs_noise.c`): seal, open, the replay window; and one direction of one channel over a network that loses, repeats, reorders and damages |
| `GsDatagrams` | what a channel promises whoever uses it |
| `GsWire`, `GsFairWire` | a host, its joiners, the roster, and a handshake between every two (`gs_wire.c`); with knocking that never stops, for liveness |
| `GsLobby` | the way by a server: handshake, seats, tunnels, the roster, the track served, the start, on both sides (`frontend/server/main.c`, `gs_wire.c`) |
| **What the server keeps** | |
| `GsStore` | the database's statements, each a guard and an update (`gs_store.c`) |
| `GsAuth`, `GsNames` | whose name a client has, one-time codes, logging in, claiming a name (`gs_auth.c`) |
| `GsCatalogue` | tracks: claimed, published, shared, withdrawn, taken down, raced |
| `GsClaims` | a time from the machine that drove it to the table: tokens, the recording in chunks (`gs_carrier.c`), the verdicts (`gs_verify.c`) |
| `GsProto` | every message as fields written, refused and read (`gs_proto.c`) |
| **One machine** | |
| `GsFront` | which screen is up and what that does to the race behind it (`frontend/game/main.c`) |
| `GsDoor`, `GsGrid` | who is at the keyboard; the race that is set up and whose its times are (`gs_menu.c`) |
| `GsTrack` | what a track is: checkpoints, reversal, its file, its code (`gs_track.c`, `gs_share.c`) |
| `GsEditor`, `GsHistory` | the editor and its log; what undo promises (`gs_editor.c`, `gs_edit.c`) |
| `GsContest`, `GsArms` | a tick of the race: gates, laps, finishing, wrecks, winners; what cars carry and do to each other (`gs_sim.c`) |
| `GsShelf` | library, records and profiles over starts, versions, days and a save cut short (`gs_library.c`, `gs_records.c`, `gs_profile.c`) |
| `GsSound` | two threads and a lock (`gs_audio.c`, `gs_music.c`) |
| `GsKeys` | keys, pads, focus, bindings (`gs_input.c`, `gs_bind.c`) |
| `GsRoute`, `GsGround`, `GsDriver` | a track from a seed (`gs_generate.c`); where things are on one (`gs_track.c`); the computer's driver (`gs_ai.c`) |
| **Proofs** | `GsNetProofs` (every operator of `GsNet`), `GsRaceProofs` (`GsPeer`, `GsRace`), `GsWireProofs` (with `GsTunnel`), `GsServerProofs` (`GsLobby`, `GsCatalogue`, `GsClaims`, `GsNames`), `GsEditorProofs` (`GsTrack`, `GsEditor`, `GsHistory`), `GsFoldProofs` (`GsProto`, `GsArms`, `GsShelf`, `GsRoute`), `GsDeskProofs` (`GsFront`, `GsSound`, `GsContest`), `GsKitProofs` (`GsKeys`, `GsDoor`, `GsGrid`, `GsGround`) |
| `MC...` | small instances |

`GsPeer` and `GsRace` extend `GsNet`; `GsRace` instantiates `GsAgreedRace` with a
refinement mapping. `GsTunnel` and `GsWire` extend `GsNoise`; `GsTunnel`
instantiates `GsDatagrams`, and that is all `GsRace` assumes of its network: loss,
delay, repetition, overtaking. `GsEditor` instantiates `GsHistory`. `GsDriver`
instantiates `GsGround` at four units to a tile; `GsEditor`, `GsContest`, `GsRoute`
and `GsGround` extend `GsTrack`, so that all speak of the same checkpoints and the
same reversal. `GsCatalogue`, `GsNames` and `GsClaims` extend `GsStore`.

`MCGsClient`, `MCGsServer`, `MCGsDesk` and `MCGsKit` each put several independent
modules side by side: a variable `part` says which one moves, the others stay as
they start, so the run is the sum of its parts and not their product.

### Correspondence: the race

Session record: `confirmed`/`confirmedTick`, `current`/`localTick`, `stamp`,
`known` (bit mask → set), `in`, `used`, `committed` (bit mask → set), `promise`,
`hash`, `flushing`, `flushWait`, `desynced`, `cheated` are the fields of
`struct gs_net` of those names (`src/core/gs_net.h`). Left out are the
statistics (`stalls`, `rollbacks`, the tick and car an accusation names): nothing
reads them back.

| operator | code |
|---|---|
| `Claim` | `gs_claim` for every tick of one call |
| `Predict`, `InputsFor` | `gs_predict`, `gs_inputs_for` |
| `LocalInput`, `Step`, `Finish` | `gs_net_local_input`, `gs_net_step`, `gs_net_finish` |
| `Frontier`, `AdvanceConfirmed` | `gs_advance_confirmed` |
| `Datagram`, `AfterDatagram` | `gs_net_packet` |
| `HearPromises`, `HearReveals`, `WrongGuess`, `Rewind`, `CompareHash`, `Receive` | the parts of `gs_net_receive`, in its order, with its early returns |

`GsRace` actions: `RaceTick` is one frame of a race with one tick in it;
`FinishRace` the frame after the world on screen is over; `SettleTick` an
iteration of the loop of `gs_net_settle` and `SettleAnswer` what follows the
loop, with `frame[m]` the iterations this frame has made; `Leave` a player who
walks away, or the twenty-second give-up of a stalled machine (only a machine
with a full window stalls); `EndSettle` the end of the nine hundred frames of
settling; `Deliver` a datagram that was late. A machine hears datagrams at the
start of its own tick and nothing else happens on it in between, so a datagram
that arrives in time is heard in the step that sends it, which is the same
thing with fewer states.

### Correspondence: meeting

Session of a channel: `n` is `send.n`, `started`, `newest` and `seen` (bit map →
set of bits) the window. `MaySeal`, `Sealed` are `gs_noise_seal`; `WindowAllows`,
`WindowRecord`, `Opens`, `Open` are `gs_window_allows`, `gs_window_record` and
`gs_noise_open`.

`GsWire` keeps `struct gs_wire`'s `local`, `players`, `ready` and, for every seat,
`gs_peer`: `who` (the address, `known`), `key`, `hs` and `made` (the handshake in
hand, by the number of its ephemeral key), `tunnel` and its session. `Hello` and
`GreetAll` are the two retries of `gs_wire_poll`; `Knock` is `gs_take_knock` with the
rosters it sends; `AnswerPeer` and `FinishGreeting` the halves of
`gs_take_peer_handshake`; `TakeRoster` a sealed roster opened by `gs_wire_recv`;
`Decide` is `gs_settle_ready` at the end of the poll that took the datagram, or what
the handler itself made of `ready` when it was the race loop that took it.

`GsLobby` keeps the server's `gs_srv.tunnel` (in order of silence) and `gs_srv.client`
(`seat`), and each client's `gs_wire` (`far`). `TakeHello` is the handshake with
`gs_tunnel_slot`, which reuses the tunnel longest idle of nobody present (`RoomFor`);
`TakeJoin` is `gs_join` with the roster everybody is sent; `WentQuiet` is `gs_drop`
after a silence; `Hear` is `gs_take_server`. A handshake travels in the clear and may
be replayed; what is sealed is opened once, which is `GsTunnel`'s theorem.

### Correspondence: the server's keep, and one machine

One operator of `GsStore` is one SQL statement; `MayX` is what the C function `X`
returns, `X` the table after it. `GsCatalogue`, `GsNames` and `GsClaims` have an action
per message handler of `frontend/server/main.c` (`TakeResult`, and five outcomes of a
proof's last chunk) and one for the server stopping and starting, after which only the
database is left. `GsFront` is one frame of `SDL_AppIterate` in parts: the window's
events; a race that is over is worked out (`Finish`); a shared one is settled and heard,
one's own stepped; the screen's buttons. With a session open the order is events, settle,
net, menu; without one events, steps, menu. The modes in which the program drives itself
(`skip_menu`, the screenshot and session scripts) are left out.

For every definition that stands for code, `PROJECT.json`'s `map` names the lines.

### Abstractions

- A **world** of the networked race is the list of input vectors that made it. The
  simulation is deterministic, so equal lists are equal worlds; and `gs_world_hash` is
  taken to be injective on the worlds of one race. A model world is finer than a real
  one: two that differ by one guess, or by order, are different.
- A **commitment** is the input it commits to (BLAKE2s over salt, tick and input; the
  receiver never reads an input out of one). A **datagram** is a record with its two runs
  of ticks as functions.
- `Over` of `GsNet` says every car has been driven for `Distance` ticks: what the network
  code needs of the finish is that it depends on the agreed inputs, that a guess can see
  it too early or too late, and that it stays. Gates and laps are `GsContest`'s.
- **Cryptography** is taken at its word: a datagram opens only under the keys it was
  sealed with and only unchanged; the second message of a handshake can be read only by
  the handshake whose first it answers; a first message proves its sender's key; a
  password is right or nothing happens. A tunnel is named by its two ephemeral keys.
- A **poll** that takes several datagrams is several steps of `GsWire`, each followed by
  the decision; once a machine is ready the rest are the race loop's, as in the code.
- **Where cars are** is left to choice in `GsContest` and `GsArms`: in a tick a car may
  cross any gates, and be towed, wrecked or knocked. `GsGround` has the geometry, in
  whole units and vectors for angles; `GsDriver` rounds square roots.
- A **recording** is what it says of itself and what playing it back comes to. A **track**
  in `GsShelf` and `GsCatalogue` is its hash; the player's own tracks are taken to differ
  from those that ship, and one driver is signed in.
- `said` and `asked` (`GsCatalogue`), `openings` (`GsNames`), `kept` (`GsClaims`), `made`
  and `driven` (`GsShelf`), `crossed` (`GsContest`), `tally` (`GsGround`), `filed`
  (`GsFront`) are no part of the program: they remember what happened, to compare with.
- The recording's capacity (`GS_REPLAY_MAX_TICKS`) is not modelled, and one race is:
  leaving for the lobby and starting another on the same socket is in no module. A frame
  of `GsRace` steps one tick where the program's steps as many as the clock asks for.
- **Who sees a track** is what is listed: without the 64 rows the server has room for in
  one answer, and without `WANT_TRACK`, which gives a track to any client that names its
  hash (`frontend/server/main.c:1237`).
- A **save** that fails leaves the file as it was, where `SDL_SaveFile` may have cut it
  short; a cut is modelled where the game ends by it. What a **pasted** code brings besides
  ground and gates (size, surfaces, gravity) is left out. **Triggers and sticks** of a pad
  do not serve as buttons. Cars that **touch** are in one place at whatever height.
- The car of `GsDriver` is in the race and does not move: each of its answers is that of
  one world.


### Bounds, and why they are enough

The ring is the point of the networked race, so windows are small enough that ticks wrap
round it inside the bound: W = 2, 3 or 4 against 3 to 6 ticks. `LastTick` bounds a race: a
machine that reaches it waits there as one with a full window does, and keeps talking and
hearing, so nothing after it is cut off but new ticks. `Queue` bounds the datagrams in
transit (one is enough to be overtaken by the next and to come after it a second time,
since it may also be heard at once), `Blackout` the longest run of losses where a run may
not be unbounded. `Distance` beyond `LastTick` switches the finish off. `Leavers` are the
machines that may leave; none does in `settles`, where the end of the settling after nine
hundred frames is therefore not met. One of two players drives flat out where agreement is
asked for, as whose inputs vary makes no difference to an invariant of both.

The tunnel runs with a map of three bits and six datagrams: jumps shorter than the window,
as long, and longer. Width and map are one constant, as 64 is both in the code.
`MaxGreets` bounds the handshakes begun with one peer: with two there is a stale one, a
live one, and answers to both. The network of `GsWire` is the set of all datagrams ever
sent, so nothing bounds losses or repetitions. In the liveness run the bound is no end:
past it a fresh handshake bears the last number over again.

`GsLobby`: four addresses, of which one or two want a seat and the rest only knock, two
seats and three tunnels, so that a tunnel is reused while its owner has a seat, and while
it has none. `GsCatalogue`: two tracks and three people of whom one owns, one is shared
with and one neither. `GsNames`: a name, and the spare one for a second who wants it; codes
of three steps. `GsClaims`: two machines, three tokens, one start of the server in between,
recordings of up to three chunks. `GsFront`: a track and a draft, and three races, after
which GO does nothing. `GsEditor`: a log of two corners or gates and groups of two, so that
the oldest step is dropped and a group straddles the end. `GsContest`: two cars on circuits
of two to four gates, one lap or two, four ticks. `GsShelf`: room for three tracks and two
rows, versions of the game that ship different ones, one of which the player may build first,
two days. `GsSound`: two frames, which is one to be torn from the other. `MCGsKit` gives each
part two of whatever it tells apart.

## 3. What is checked

| run | instance | question |
|---|---|---|
| `peer` | W 3, one session, every datagram that promises a tick, or proves it in the same breath, or promises the next and proves it, either input | Does anything a peer can say disturb the ring, the window, the guesses, the agreed race? |
| `race` | 2 machines, W 2, any loss, one datagram in transit, three ticks | Do two machines agree one race, the one driven, unaccused and in step? |
| `settle` | a finish at 2 ticks a car, W 3, one leaver | Is what was recorded and handed in the race, and the same ending? |
| `settles` | scheduled frames, at most one loss in a row, W 4, promises twice | Is every tick agreed and every race handed in, in the end? |
| `server` | `GsLobby`, `GsCatalogue`, `GsNames`, `GsClaims` side by side | Who is seated, who sees what, whose is what, what is a time worth? |
| `client` | `GsWire` with a host and three joiners, `GsTunnel`, `GsFront` | Does a machine get to a race, does the channel hold, and do the screens leave the race alone? |
| `desk` | `GsEditor`, `GsContest`, `GsSound`, `GsShelf` | Is what one machine makes and drives kept, and kept right? |
| `kit` | `GsKeys`, `GsArms`, `GsProto`, `GsDoor`, `GsGrid`, `GsRoute`, `GsGround`, `GsDriver` | Do the parts it is put together from do what the rest takes them to do? |
| `accused`, `meets`, `resumed`, `frozen` | see §5 | four statements of the repository the code does not keep |

Every property is an obligation of several steps of the code, often of two machines.

*The race.* `WindowHeld`: no datagram takes the slot of a tick still to be replayed.
`VisibleIsReplay`, `NoStaleGuess`: no correction is lost, replayed twice or half.
`PromisedFirst`, `FirstWordStands`: the order of promise and proof, over copies in any
order. `ImplementsAgreedRace`: with `drive` mapped to what the players were really held to
and `agreed` to each machine's agreed world, every step of `GsRace` is a step of
`GsAgreedRace` or a stutter. `NoFalseAccusation`, `NoDesync`: neither flag is ever raised on
machines that run the program. `RecordingIsTheRace`, `EndingsMatch`: across the finish.
`RaceEnds`: every tick is agreed and every race handed in, in the end.

*Meeting.* `WhoIsWho`: seats and keys agree over rosters lost, late and sent before the
seats were filled, and the two ends never finish different handshakes. `ReadyIsWhole`: also
when the last piece is a roster taken by the race loop. `WhatWorksStands`: nothing repeated
or late tears down a tunnel in use. `RefusedForCause`, `ImplementsDatagrams`: the map is the
history as far back as it reaches; whatever arrives is handed on at most once.
`OneSeatEach`, `PresentKeepsTunnel`, `SameGround`: over joins repeated, silence, and tracks
changed while a lobby fills.

*The server's keep.* `SeenByThoseItIsFor`, `FirstClaimStands`: over withdrawals, deletions
and restarts. `CodesOpenOnce`. `TimesAreEarned`: every time in the table was driven, and paid
for with a token of its own; the table is the best of them; nobody is left without a token.

*One machine.* `OneResultEach`, `NewRaceIsNew`: whatever way through the screens.
`EditIsHistory`: undo and redo, whatever is done between, are a history's.
`TrackComesThrough`: turned round twice, or saved and read, a track is itself.
`PlacesAreRight`, `RaceStands`: results of cars that finish, retire and are wrecked in one
tick; a lap goes round. `ShelfStands`, `WhatShipsIsHere`: over versions, days, and a save
cut short. `OneFrameAtATime`: of two threads. `KeysAnswer`, `ArmsStand`, `HeardRight`,
`DoorHolds`, `TimesAreTold`, `TrackIsSound`, `GroundIsSound`, `DrivesTheRace`: one for each of
the kit, the conjunction of what is named and explained at the end of its module.

For every property there is a definition of the code written with a plausible mistake (the
operators marked *Slip*), with which TLC finds the property violated in the same instance.

**Fairness.** `GsFairRace` assumes that the frame loop comes round again on every machine
that has not left, and that what is in transit arrives. The first is what a frame loop is:
`Frame(m)` is enabled whenever `m` is talking, so `[]<>(turn = m \/ ~Talking(m))` is its weak
fairness, said without ENABLED of an action this size. Nothing is assumed of a datagram being
received except through `Blackout`: losses come in runs shorter than the copies of a promise.
`src/core/gs_net.h` states the same limit of the real constants (a run of eleven losses
survives, one of twelve does not). Leaving is not fair: nobody has to.

`GsFairWire` assumes more of the network than any network gives: every datagram that was sent
and would change anything is received in the end, and retries never stop (`gs_wire_poll` runs
every frame while no race has begun). It serves a refutation, for which kindness is no
weakness.

Deadlock is not checked: the bounds on ticks, messages, tokens, races and chunks, machines
that leave, and a mesh that is up really stop things.

## 4. What is proved

Each theorem holds for **every** value of the constants that its module's assumption allows:
any number of players, machines, clients, tracks, names, tokens and datagrams, any window.

| module | theorems | assumed |
|---|---|---|
| `GsRaceProofs`, one session | `WindowAlwaysHeld`, `VisibleAlwaysReplay`, `NeverStaleGuess`, `PromiseComesFirst`, `FirstWordAlwaysStands`; `TypeCorrect`, `RingAlwaysSound`, `NothingTakenUnpromised`, `AgreedRaceOnlyGrows`, `HashRingAlwaysSound` | `NetAssumption`, `PeerAssumption` |
| `GsRaceProofs`, any number of machines | `RecordingIsAlwaysTheRace`, `NobodyGoesBack`, `ClaimsAreAgreed`; `SessionsAlwaysGood` | `NetAssumption`, `RaceAssumption` |
| `GsRaceProofs`, two machines | `NobodyIsFalselyAccused`, `NobodyDesyncs`, `TwoAgreeOneRace`, `EndingsAlwaysMatch`; `TwoAreHonest` | the same, and `TwoMachines` as a hypothesis |
| `GsWireProofs` | `EverybodyKnowsWho`, `BothEndsOfATunnel`, `WhoIsWhoAlways`, `NobodyIsReadyAlone`, `NothingIsUndone`; `TunnelTyped`, `TunnelRefusesForCause`, `TunnelImplementsDatagrams` | `WireAssumption`, `NoiseAssumption` |
| `GsServerProofs`, meeting and tracks | `OneSeat`, `TunnelsOfClientsStay`, `ReadyShareGround`; `ClaimsStand`, `OnlyThoseItIsFor` | `LobbyAssumption`, `CatalogueAssumption` |
| `GsServerProofs`, times and names | `TimesArePaidFor`, `BestStands`, `AlwaysOneToSpend`, `EarnedAlways`; `NoCodeTwice` | `ClaimsAssumption`, `NamesAssumption` |
| `GsEditorProofs` | `EditsAreHistory`, `TracksComeThrough`; `EditorIsRight`, `EditorHasTypes`, `OpenIsAStrokeHolds` | `EditAssumption` |
| `GsFoldProofs`, messages | `MessagesAreHeardRight`; `ReadBack`, `ReadIsThere` | |
| `GsFoldProofs`, arms | `ArmsStandAlways` | `ArmsAssumption` |
| `GsFoldProofs`, shelf | `ShelfStandsAlways`, `WhatShipsIsHereAlways` | `ShelfAssumption` |
| `GsFoldProofs`, a track from a number | `TrackIsSoundAlways` | `RouteAssumption` |
| `GsDeskProofs` | `ResultsAreOnce`, `GoIsANewRace`; `SoundIsOfOneFrame`; `ResultsAndLapsStand`, `PlacesAreRightAlways` | `SoundAssumption`, `ContestAssumption` |
| `GsKitProofs` | `KeysAlwaysAnswer`, `DoorHoldsAlways`, `TimesAreToldAlways` | `KeysAssumption`, `DoorAssumption`, `GridAssumption` |
| `GsKitProofs`, the ground | `GroundIsSoundAlways` | `GroundAssumption` |

*Assumptions.* `NetAssumption`: the idle input is an input, the window is at least two,
delay and redundancy are natural numbers that fit into it together. `PeerAssumption`: this
machine drives one of the cars, and a datagram's runs are functions from ticks to inputs; the
peers may say anything of that shape. `RaceAssumption`: finitely many players, each with some
of the inputs, a finish at least a tick away, and natural bounds. `TwoMachines`: no three players
differ. `NoiseAssumption`: a window of at least one.
`WireAssumption`, `LobbyAssumption`, `CatalogueAssumption`, `NamesAssumption`,
`ClaimsAssumption`, `SoundAssumption`: bounds are natural numbers, what stands for nobody is
nobody, and what is driven, typed or chunked is of the shape the module's comment gives.
`EditAssumption`: bounds are natural numbers, there are finitely many squares, a road is a
sequence of squares and what to store there, gates are put down unflagged, and a track from
elsewhere is a track.
`ArmsAssumption`: bounds are natural numbers, the ring has a place, every kind is carried and
lasts some number of ticks, and cars go somewhere and are hit some number of times.
`RouteAssumption`: the grid has two cells each way, a route asks for some cells and
not for fewer than two after giving up, and what is put along it is as far apart as the source's
least distances (90 tiles for ramps, 110 for crests), whatever they are.
`GroundAssumption`: two units to a tile, at least, and a tile each way; heights, places and
directions are integers; slots of the grid are behind the line, and no gate is without width; and
an arc has room for an even number of points (96).
`ShelfAssumption`: the library has an entry, a version ships a list of tracks, there is a first
day, and times are natural numbers.
`ContestAssumption`: cars and gates are numbered in a byte, and a path has not one gate, which
`gs_track_check` calls a line. `KeysAssumption`: the defaults give each control one key and one
button. `GridAssumption`: two take part at least. `DoorAssumption`: a file of profiles is one the
game wrote: names differ, and a phone stands only beside a password. The proof asked for the
last: a driver with a phone and no password could be given one at the door again and again.

*One session.* The inductive invariant is `Good(n)`: types, `Held`, `Sound` and `Proven`. None
is inductive alone. A datagram about tick *t* claims slot *t mod W*; that this evicts no tick
still to be replayed holds because both lie less than *W* above the agreed tick (`SlotApart`),
which is `Held`; that a tick found in a slot is the one asked for is `Sound`; that a proof
which is accepted equals the promise kept *for that tick* needs both. Every operator of
`GsNet` has a lemma that says what it keeps: the invariant, what is held for ticks in the
window (`Keeps`), the agreed race (`Grows`), and that nothing is learned unpromised
(`Earned`). The action properties are these relations. On top of it `Replays(n)` is inductive:
no wrong guess stands (`Fresh`), the race on screen is the agreed race and what was used since
(`Shows`), the ring of hashes is right within a window of the frontier (`Hashed`). `Fresh` and
`Shows` need each other: agreeing a tick moves it from `used` to the agreed race, and the
screen does not change only because every guess of that tick was right. The case that carries
the weight is `ReceiveReplays`: either a proof contradicts a guess, and the replay restores
both whatever stood before (`RewindFresh`), or none does, and nothing had to be restored.

*A race.* The lemmas of `GsNetProofs` are about one call of one session, so `GsRaceProofs` uses
them for every machine: `EveryStep` says each action is a tick, an answer or a listening of one
machine, and what the others hear of it. For any number of machines that gives `Sessions`:
`Good` and `Replays` of each, that what the ring still holds of agreed ticks is the agreed race
(`Kept`), and that what is written down is the beginning of it (`Written`). `Kept` is why
`gs_record_confirmed` may read the ring, and its early stop (`RunOf`) is why there is no gap.

For two machines `HonestRace` says more: a machine has decided every tick it simulated and no
other; what anybody knows or was promised is what was driven (`Truthful`); no slot holds a tick
nobody has driven (`NotAhead`); of its own ticks a slot that holds another holds a later one
(`OwnHeld`); the agreed race is the driven one; and a datagram says what was driven **of every
tick its receiver has not agreed** (`Faithful`). The qualification is the heart of it. A machine
reads its own inputs for a datagram by slot number, and a promise of the peer's for tick *t + W*
may have taken the slot of *t*, so a datagram can be wrong (`ReadsOwn`). It is wrong only where
the other's car is at least *W* ticks further than *t*, and that is further than anybody can be
who has not agreed *t*: of two machines that one is the receiver (`DatagramFaithful`). A third
could be the receiver and behind; that is the run `accused`. `HearsHonest`, `StepHonest` and
`ReceiveHonest` then go through the calls, `ExtendsFaithful` through the time a datagram spends
on its way. The refinement takes each step to the decision of at most one tick and an agreed
race of everybody that is a longer beginning of the driven one.

*The hand-in.* `ClaimsAreAgreed` is the ring of hashes at the frontier (`Hashed`) and that the
agreed race only grows. `EndingsAlwaysMatch` needs that a race that is over stays over
(`OverStays`, cardinalities of the ticks a car was driven) and so has one first end, whatever
tick it is cut off at (`OneEnding`).

*Meeting.* What a machine knows it read from a datagram, which may be as old as the race. The
invariant (`Met`) says of every datagram ever sent what must be true of it **now**: a roster's
seats are those of the host's table, a handshake's numbers were made by its sender, an answer
names a tunnel one end of which is up (`AllSent`). That can be said because rows of a table only
fill (`Standing`), and is also why nothing is undone. `ReadyIsWhole` is one of its conjuncts:
`Decide` looks at the whole table, and the table only fills after it. For the tunnel `Tracks`
says the map is the history, bit by bit; its hard case is a jump forwards (`RecordTracks`): a
bit of the new map stands for a counter above the old newest, which nobody can have opened, or
for one the old map had, or for one beyond both.

*The server.* `Told`: whatever is on its way or known to a client about the track says what is
served, as long as it is served, and nobody is ready who has not settled. `Seated`: a seat's
tunnel is in the table; the table is a sequence without repetitions, said through its `Range`,
so that taking one out and putting one in is a change by that one. `Claimed`: the stock is
shipped, up and ownerless, and a row the table lacks has no owner. `Spoken`: what the owner
last said and what the rule shows differ only where the server put a track up itself.
`Held`, `Paid`: what is being collected comes from a recording somebody cut up, and a spent
token is never issued again. `Best`: what the table has is a lower bound of the times and one
of them, which avoids choosing a least. `Own`: no machine ever holds another's token.
`Opened`: the step kept with a name is that of its last opening.

*One machine.* `InHand`: the world behind the screens is that of the newest recording, every
race worked out is an older one or this one once, and no flag waits behind a race. `Locked`:
who holds the mutex is in the critical section and what is half written is written by them.
`ContestStands`: in a race with laps, who is not home has laps to do, the winner is home before
everybody else who is, and whoever goes round has crossed the checkpoints behind them. A tick is taken apart into what
each car does and what the race makes of it (`StepParts`); that a race that is over stays as it
is rests on everybody being wrecked or home by then. Places are counts of those ahead: who is
ahead is a total order of the cars (`AheadIsAnOrder`), so no two counts are the same, and as many
numbers as there are cars are all of them (`PlacesOfAll`). `KeysStand`: what SDL holds down is under a finger,
what counts against a control being set is still down, and nothing does once the capture is armed. `DoorStands`:
names are apart, somebody is signed in exactly behind the door, and a password is being chosen
only for who has none, whose name nobody can type over meanwhile. `GridStands`: the results go
by the dials the race was built with as long as nobody has touched them.

*The editor.* Undo, redo, a part laid square by square and a track turned round are folds
(`FoldLeft`, `FoldRight`, `MapThenFoldSet` of the community modules), each a CHOOSE among
recursive functions. Induction over sequences is out of the prover's reach as a rule with an
operator in it; over a *set* of values it is not: `StepByStep` says that a set holding 0 and
with every number the next holds them all. `LeftThere` and `RightThere` build the function the
CHOOSE is about, `LeftChain` and `RightChain` say that a fold is the last of a chain of
values, one per element. With that `EditorInv` can be said: there is a chain of tracks `h`, one
more than the log has entries, in which each entry leads from one to the next *and back*
(`Goes`, `Links`), and the board is `h` at the cursor (`Chained`). That an entry can be taken
back is a lemma for each kind of entry (`AddAfter` ... `ShortcutAfter`), and is where the
recorded *before* is needed. Undo and redo then only move along `h` (`ChainUndid`,
`ChainRedid`), by whole groups because groups in the log only go up; a full log refuses, and `h` stays.
The history's past and future are `h`
at the places where groups begin (`Listed`), which a new entry, an undo and a redo lengthen or
shorten by one track (`StepGrown`, `StepUndid`, `StepRedid`): the refinement. One demand of
`GsHistory` fell to the proof: that a step always leaves another track than before. A road
laid over itself enters changes, and the track stays as it was (`gs_parts.c:228` and on).

*A track from a number.* `RouteInv` says what the walk is while it grows: a `Trail`, and of a
path's also what its frames have not tried yet and how far it has kept its heading (`Grows`).
`RouteIsDrivable` alone is not inductive: that a cell backed out of leaves the run right
(`BackOut` reads it off the walk) needs that the walk as a whole nowhere goes straight for longer
than the dial (`Turning`), because only then is the run before the dead end short enough too.
A circuit is a `Circle` instead: pushing an edge out by two cells keeps it one (`PushedIs`), and
so does beginning it elsewhere (`RotatedIs`), which is arithmetic round a loop. The last resort
needs no luck: round the edge of the grid is a circle of any grid of two by two or more
(`EdgeIs`). `LiftsDontStack` needs how far the ramps are apart, jitter included (`RampInv`), that
what is lifted so far ends before the *next* ramp's lip, and that a crest shifted thirty tiles
back still begins behind the last one (`LiftInv`). Turned round, what is built has gates on the same
posts: its count of gates makes the stride come out even, so that the checkpoints are what the stride
divides in both directions (`Posted`, `PostedBack`), and so a leg is the same leg
(`NextTurned`). The editor's proofs use the same lemmas of any track.

*Messages.* How many bytes a message takes is a fold over its fields that stays a number. Each
kind's layout is taken apart field by field: what may be written may be read, a string is as
long as its field afterwards, and what is read of any bytes at all is only what they hold
(`ReadBack`, `ReadIsThere`). `ReadIsThere` is said of every number in every field, where the
run tries those next to the limits.

*Arms.* A tick of the race is four folds: every car's own tick, the mines, the flames, every two
cars. `LeftLeads` takes a fold through a sequence of sets, one per element, so that the
invariant may say how far the tick has come: `Sound(w, k, t)`, of a world in tick *t* in which the
cars before *k* have driven. Its conjunct `Spaced` carries the cooldown: what a car left is at
least so old as its cooldown has run down, counted from the last tick *that car* drove in; from
it follows that a car's hazards are a cooldown apart, in whatever place of the ring they are.
`Burning` says what a hazard's life is while it burns, as `BurnsItsTime` says it only of
those that are spent. Mines, flames and knocks leave everything of this alone (`Kept`), and
ageing what lies about begins the next tick (`AgedSound`).

*What is kept.* `ShelfInv` says the same of the machine and of the file (`KeptAs`), so that a
start, a save, a save that failed and one cut short only move between the two. The library is a
list in which no track is twice (`Shelved`); taking out is a fold (`KeepingIs`), and so is
putting in what ships, of which the invariant on the way is that so many are here or there is
no room (`Came`). What made `WhatShipsIsHere` hold is the order of the two: taking out first
leaves of the game's only what ships, so whatever fills the list beside it is the player's own,
and counting gives the rest (`RoomForAll`). The table is said row by row (`TableOf`): a lap and a
race of it were driven, by its driver, and none that was driven is better. It is said only while
no more rows were driven than fit; a result that comes makes a row more or none
(`OneMore`), and the rows are as many as that (`RowsCounted`), so there is room for it and nobody
makes way. The proof asked what becomes of a track the player kept once a version ships it, and
found the exception in `OwnWorkStays` (section 5).

*The ground.* `GroundInv` says that the track is a track and, while a car runs, that each gate has
counted what the run since the last turn did (`Running`); a turn begins a run at the car. A tick
keeps it because a run is said by how far along one direction it has come (`On`): how far a point
is past the gate's line is linear in that (`AheadAlong`), so the line is crossed in one tick at
most, and whether it is crossed between the posts is the same of the whole run as of the tick that
crosses it (`WithinAlong`), both sides of the comparison growing by the square of the same factor.
A track turned round is gone through definition by definition (`FaultyBack`, `LegsBack`,
`RoadBack`). A sampled arc is told from the last multiple of its spacing (`Reaching`), which
thinning doubles; here the evenness of its room is needed, or the point that doubles the spacing
would be no multiple of it. The rest is about one place at a time: the slope side by side with
two heights (`SlopeHolds`), a slot of the grid by the four ways a start may face (`GridHolds`).

*Only model-checked.* Liveness (`RaceEnds`, `EveryoneMeets`, `LobbyIsLive`) is out of the
prover's reach. `DrivesTheRace` is arithmetic on one course and one car at a time, with
searches over what lies ahead, and is left to TLC.

## 5. Where the code and its documents disagree

1. **An honest machine can be accused** (run `accused`, `NoFalseAccusation`). With three
   machines a fast one's promise for tick *t + W* may take over the slot of *t* at a machine
   that still owes its proof of *t* to a slow one. `gs_net_packet` reads its inputs by slot
   number without looking at the stamp, and sends the idle input of the emptied slot as the
   proof. `gs_net.h:177-179` says of a broken promise: "Unlike a desync this is not a bug: it
   is somebody's client having been modified". With two machines the case
   cannot arise: run `race` checks it and `NobodyIsFalselyAccused` proves it for every window.
2. **A retried knock can shut a joiner out for good** (run `meets`, `EveryoneMeets`). Every
   retry starts a fresh handshake and forgets the one before; the far end answers one greeting
   and from then on none. If the second knock leaves before the first is answered, or the
   answer is lost, no answer will ever fit: the host believes the joiner in and may be `ready`,
   the joiner knocks for ever. The branch written for this case (`gs_wire.c:1052-1061`) is not
   reached. `gs_wire.c:20-22`: "Sent again and again rather than acknowledged";
   `docs/TRANSPORT.md:202-203`: "retransmission is the only recovery". The run loses no datagram
   at all.
3. **A reversed race that is paused is driven on forwards** (run `resumed`, `RacedOneWay`).
   Every frame off the race's screen turns the track forward again, and nothing turns it back.
   `main.c:2582`: "The world is untouched while a menu is up ... so there is nothing to
   restore."
4. **The lobby can freeze** (run `frozen`, `LobbyIsLive`). `net_started` is cleared on the way to
   the lobby only by the button, and only when nothing is settling. `main.c:2596` describes the
   state as mended.

One more of that weight is not a run of its own, but fails when put as the only property into
`MCGsKit`'s configuration: **a driver with a phone cannot sign in** (`PhoneIsAsked`, `GsDoor`).
The door passes its own boxes to `gs_menu_sign_in_named` (`gs_menu.c:647`); `gs_menu_sign_in`
empties them before it refuses (`:423`, `:362-366`), and the question that follows, whether the
password at least was right, is asked of an empty box (`:1798-1800`). So the code is never asked
for and its box never drawn. `gs_menu.h:184` says of the flag "the password was right and a code is
due". The tests sign in by name with strings of their own, which nobody empties, and without a
phone. `GsDoor` models what the code does, so no driver with a phone comes in at its door.

Others were met in the same way: `SubmittedIsComplete` (`MCGsSettle`: a recording that fell
behind is handed in, `main.c:805`, where `main.c:738` logs "nothing will be submitted");
`TodaysTrackIsHere` and `ShippedAsItCame` (`MCGsDesk`: the track of the day is retired before
anybody sees it, `main.c:1555`; "Edit a copy" renames the shipped one, `main.c:2516`);
`OwnWorkIsUntouched` (`MCGsDesk`: a track the player kept that a later version ships becomes the
game's, `gs_library.c:53-57`, and goes with the version after that, where `gs_library.h:80` has
"the player's own work is never touched");
`StartedPlays` (`MCGsDesk`: the music's start is undone by the other thread, `gs_music.c:287`);
`LastOneIsPlacedFirst` (`MCGsDesk`: results never look at the race's winner, `gs_menu.c:2530`,
where `gs_sim.h:182` has "last one driving"); `GapsFollowRamps` (`MCGsKit`: a gap's samples
disagree with its ramp's, `gs_generate.c:1121` and `:1187`); `BrakesForEveryEdge` (`MCGsKit`: only
the nearer of two edges is braked for, `gs_ai.c:632`).

Noticed while reading, and not of a protocol's kind:

- *Race.* After `flush_wait` every datagram proves the tick it promises, so a machine that
  guessed the finish early can then make no tick the others may agree (`gs_net.c:252`). Machines
  that agree may hand in different hashes (`main.c:806`). A circuit of two gates is drawn as a
  path and turned round as a loop (`gs_track.c:679`, `:121`). Grid slots are all staggered where a
  comment says alternate (`gs_track.h:343`). Beyond the shoulder `gs_track_slope` and
  `gs_track_height` disagree. `gs_progress` falls on a circuit's last leg (`gs_sim.c:1226`). A full
  ring of hazards overwrites slot `tick % 32`, not the oldest (`gs_sim.c:331`).
- *Keeping.* A refused store leaves what was read so far in memory, and the next save
  overwrites the file (`main.c:699`). A full table evicts the slowest lap, and rows without a lap
  never make way (`gs_records.c:131`); drivers without a lap are listed first
  (`gs_records.c:95`). Renaming a profile leaves its records under the old name.
- *Meeting.* A roster with fewer players in mid-race clears `ready` (`gs_wire.c:1247`). A greeting
  answered twice leaves the first tunnel. A restart of the server leaves clients with tunnels
  nobody holds.
- *Front end.* Escape from the results into the lobby does not hold it, and the next race may
  begin unasked (`main.c:2603`). R restarts the race from any screen. Setup changed while paused
  decides whose time is filed. The name box empty, the same driver signs in after signing out
  (`gs_menu.c:805`). A key stays down after a second loss of focus (`gs_input.c:43`).

## 6. Not modelled, and the plan

1. **A second race over one socket**: lobby and race composed; the one hazard without a
   property (`main.c:1774`).

Not planned: rendering, meshes, the vendored windowing library, the synthesis of sound, the
physics of a car on the ground, and the command line tool, which drives the same functions.
They are numeric functions or drawing with no protocol in them; a model would be a
transliteration. The clock of `gs_clock.c` and the ghost's playback are read but not in a module.
