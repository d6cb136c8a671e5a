# Verification of oxpulse-chat

TLA+ models of the parts of oxpulse-chat that carry protocol state, TLC runs
that check them on small instances, and TLAPS proofs of the results that hold
for every size. oxpulse-chat is a two-party video call service: a Rust server
(axum, tokio) that pairs two browsers in a room and relays their signaling, a
Svelte client, a pool of TURN servers that the server probes, and edge nodes
that partners install with shell scripts and register at the server.

* Inventory: what the system is made of, and what makes each part correct
* Modules: what models what
* Runs: what each one asks, its bounds, and what it shows
* Fairness
* Proofs
* Where the code and its comments part
* Known behaviours that no property pins down
* Not modelled
* Plan

## Inventory

### Room registry (`crates/signaling/src/rooms.rs`, `room_cleanup.rs`)

*State.* A `DashMap` from room id to `Arc<Room>`; a Room has a participant count
(`u8`), a counter of peer ids, `empty_since`, `connected_at`, `ended`, and a
broadcast channel. A gauge of open rooms is fed by callbacks.
*Operations.* `join`, `leave`, `mark_connected`, `connected_at`,
`try_mark_ended`; a task that scans every 60 s and removes rooms that have been
empty for longer than the grace period.
*Interaction.* Handlers keep the `Arc` (and its channel) of their join, but
leave and the recording of a call look the room up again *by id*.
*Hard.* No lock spans an operation: every map access and every atomic access is
a step of its own, and any number of handlers and the cleanup task interleave
between them.
*Correct when* the count is the number of handlers inside, never more than two
have a place, at most one of them is impolite, peer ids sharing a channel
differ, the gauge is ahead of the map by at most the closing about to be reported,
the end of a connected call is recorded, and an abandoned room goes away.

### Connection handler and relay (`crates/signaling/src/handler.rs`)

*State.* Per connection: the main task, a task that relays the room's broadcast
into a bounded queue, and a task that writes the queue to the socket. The
broadcast channel is a ring that overwrites what a slow receiver has not read.
The counters of connections and joins.
*Operations.* handshake, join, acknowledgement, subscription, announcement,
signals, queries with answers, and the way out: leave, farewell, abort of the
relay, wait for the writer, end of the call.
*Interaction.* Through the registry and the broadcast ring with its peer.
*Hard.* Three tasks and two bounded queues that can wait for each other; a
socket that breaks in any of them; a receiver that lags; a subscription that
comes some awaits after the place has been taken.
*Correct when* a place never outlives its handler, what a client hears of its
peer is gap-free and ends with the farewell, whoever is announced listens, the
counters agree with the places, and the handler of a dead connection ends.

### TURN pool (`crates/server/src/turn_pool.rs`, `turn_probe_loop.rs`)

*State.* An `ArcSwap` list of server objects, each with `healthy` and
`consecutive_failures`; a gauge.
*Operations.* a probe of every server at every tick, a reload on SIGHUP that
builds a new list and copies the state of servers that stay.
*Interaction.* The probe task works on the list it loaded when its tick began,
the reload replaces it, the HTTP router reads it.
*Hard.* Two writers of two atomics with no lock, and a list that is replaced
in the middle of a tick.
*Correct when* health is the probe history, the gauge is the pool, a dead server
is dropped in the end and a live one offered.

### Call page (`web/src/lib/useCall.svelte.ts`, `signaling.ts`)

*State.* The closure of `useCall` (status, call, signaling, pending signals, a
pending announcement, ringing, the timer, flags), the sockets with their retry
timers, the peer connections that were made.
*Operations.* mount and init, the answer of the camera, hangup, destroy, and the
callbacks of sockets, credentials and peer connections.
*Hard.* JavaScript runs one callback at a time, but everything after an `await`
or in a timer sees variables that other callbacks have changed, also those of
the next room the page visits.
*Correct when* the page is in one room at a time, leaves it for good at hangup,
loses nothing received before the call exists, counts and times a call once,
rings only while it waits, and gives up when nothing answers.

### Partner registry and partner CLI (`crates/server/src/partner_registry`, `crates/partner-cli`)

*State.* The tables `partner_tokens` and `partner_nodes`, and the transactions
under way on them.
*Operations.* `register` (lock the token's row, check it, upsert the node under
a unique index, mark the token used, commit), issue, revoke, deactivate.
*Hard.* Requests and the operator's commands run side by side; a transaction can
be rolled back at each statement, and the client cannot know whether a request
that timed out was committed.
*Correct when* a token registers once and never after its revocation, the tables
agree, and a deactivated node does not come back.

### Partner edge (`deploy/partner-edge`)

*State.* Rendered files, `install.env`, the `.prev` copies, the sentinel of
hydration, the token in `hydrate.env`, enabled units, running containers.
*Operations.* `install.sh`, its `--bake`, `hydrate.sh`, its `--reseed`,
`upgrade.sh`, its `--rollback`, the units of systemd.
*Interaction.* They register at the server over HTTP; upgrade goes on as hydrate.
*Hard.* Each script is a sequence of writes to different files and can be killed
between any two; some steps cannot be repeated, because the token works once.
*Correct when* the sentinel is never ahead of the registry, the credentials on
disk are those of the registered node, and what upgrade reports is so.

### Server process (`crates/server/src/main.rs`, `migrate.rs`)

*State.* The database, `schema_migrations`, and whatever the process holds in
memory, which ends with it.
*Operations.* connect, make and seed the tracker table, split and apply what is
not recorded, serve; SIGHUP.
*Interaction.* Everything below lives in the process; analytics writes into the
schema that the migrations left.
*Hard.* Each statement is a query of its own without a transaction; the process
can be killed between two, and another one may start on the same database.
*Correct when* a recorded migration has been applied, a serving process finds
the whole schema, and a good release never restarts for ever.

### Limiters (`signaling/src/rate_limit.rs`, `partner_registry/rate_limit.rs`, `server/src/rate_limit.rs`)

*State.* Two maps from address to recent hits with a janitor each, one without a
lock around it; the cell rate limiter of the HTTP routes.
*Operations.* check, the janitor on the way, the answer 429 with `Retry-After`.
*Hard.* Calls take the time before they lock an entry; the janitor runs shard by
shard between them; the maps must not grow with the number of addresses.
*Correct when* a call is admitted exactly if its window has room, the maps stay
small, and waiting as long as one was told to helps.

### Visitors and analytics (`visitor.rs`, `analytics.rs`)

*State.* The browser's cookie, the rows of `call_events`, a counter by outcome.
*Operations.* the middleware that hands out `ox_vid`, the endpoint for batches.
*Hard.* Pages of one browser overlap, other scripts set cookies, an INSERT can
fail - for the shape of the table, for data nobody has checked, in an outage - and is
answered 204 all the same; the handler is dropped when its client hangs up.
*Correct when* a browser keeps one id, no event is lost for the shape of the table, and
none for what becomes of its neighbours in the batch.

### TURN credentials (`router.rs`, `crates/turn`, `config.rs`)

*State.* The pool and the static lists of the environment.
*Operations.* `POST /api/turn-credentials`: filter, order, fall back, decide the policy.
*Hard.* The flags are read one by one while probes and reloads change them.
*Correct when* what is offered was healthy, the caller's region comes first, and
nobody is told to use a relay that was not offered.

### Negotiation (`web/src/lib/webrtc.ts`)

*State.* The flags and the candidate queue of `createCall`, the browser's
RTCPeerConnection.
*Operations.* `makeOffer`, `handleSignal`, `flushPendingCandidates`, ICE restarts.
*Interaction.* With the other page over the relay, from the roles the registry drew.
*Hard.* Several of these functions are under way at once and share flags; offers cross.
*Correct when* at rest two pages agree who offered, and no candidate is lost.

### The other parts

| Part | State and operations | Correct when |
|---|---|---|
| Tracker, connectivity, service worker (`web`) | event queue, mirror fallback, cache | no event sent twice or lost while the page lives |
| TURN node scripts (`deploy/turn-node`) | install, health check, upgrade with rollback | as for the edge |
| Branding, mirror domains, presentation | read-only tables and straight-line code | nothing that interleaves |

## Modules

| Module | Models |
|---|---|
| `RoomSlots` | the abstract promise of a room: a bounded set of members, the first one impolite |
| `Rooms` | the registry and the cleanup task, one action per atomic access, with the order in which a handler calls them |
| `CallHandler` | handlers with their tasks and queues over the abstract room of `RoomSlots` |
| `Negotiation` | two pages of `webrtc.ts` over the relay |
| `CallClient` | the call page, one action per callback |
| `HealthPool` | the abstract promise of the TURN pool: whole lists, flags that flip one by one |
| `TurnPool` | the probe task, reload and the weather |
| `IceOffer` | a request for credentials over `HealthPool` |
| `Texts`, `Config` | scanning of texts; the parsers of the environment |
| `SqlSplit`, `Migrations` | `split_statements`; start-up over a database |
| `Limiters` | the two windows, their janitors, and the quotas of the routes |
| `Visitors` | a browser's cookie and its batches of events |
| `Server` | the process that has `Migrations`, `Limiters`, `Visitors` and `IceOffer` in it |
| `PartnerRegistry` | the registration transaction and the operator's tool |
| `PartnerEdge` | the edge's scripts, composed with `PartnerRegistry` |
| `RoomsProofs`, `CallHandlerProofs`, `CallClientProofs`, `TurnPoolProofs`, `PartnerRegistryProofs`, `PartnerEdgeProofs`, `ServerProofs`, `NegotiationProofs` | theorems |
| `MC*` | instances for TLC: model values, small sets, symmetry |

Where two parts meet, one stands behind an abstraction that it is shown to
implement, or both are in one specification:

* `Rooms` implements `RoomSlots` (`ImplementsSlots`), and `CallHandler` is checked over
  `RoomSlots`.
* `TurnPool` implements `HealthPool` (`ImplementsPool`), and `IceOffer` reads `HealthPool`.
* `Negotiation` takes for granted what `CallHandler` promises: signals arrive in order and
  without gaps (`GapFree`), none before one is subscribed, and whoever is announced listens
  (`AnnouncedListens`). The roles are those of `RoomSlots`.
* `PartnerEdge` extends `PartnerRegistry` and takes its actions as they are: a script's POST
  is a request of the registry, next to the ones of strangers.
* `Server` extends what lives in the process: a kill ends limiters, batch and pool together
  and leaves database and cookies; an event is stored only if the schema the start-up left
  has what its INSERT names.

How state and actions correspond to the code; `PROJECT.json` maps every
definition to its lines:

* **Rooms.** `inner` is the map, `created` the allocator of Room objects; `count`,
  `nextPeerId`, `emptySince`, `connectedAt`, `ended` are the fields of each
  object; `arc[c]` is the handler's clone. `join` is `Entry` (map entry),
  `Admit` (`fetch_add` and the limit), `Refuse` (`fetch_sub`), `Clear` (`empty_since`),
  `ReportOpened` (`on_room_opened`), `DrawPeerId`; `leave` is `LeaveDec`, `LeaveMark`. The write guard of the map is `ReadLocked`:
  a handler that stores `empty_since` keeps the shard's read lock. The cleanup
  task is `Scan`, `CheckKey`, `RemoveKey` and `ReportClosed` (`on_room_closed`). `evicted` is a history variable: the
  task removed an object that a handler was using.
* **CallHandler.** `pc` is the main task, `relay` the task on the broadcast
  channel, `Write`/`WriteFail`/`WriterDone` the task on the socket. The ring of the
  channel is kept per receiver: `inbox[c]` is what `c` can still receive and
  `lost[c]` says that a slot it had not read was taken again, so that its next
  receive is `RecvError::Lagged` (`RelayLag`). `Handshake` to `Announce` are the
  awaits before the message loop; `Leave`, `Farewell`, `RelayAborted`, `Finish`
  the ones after it. `counts` are the counters of `Metrics` for connections.
* **Negotiation.** `OnIceDisconnected` is `restartIce` with the offer made at once; the
  `negotiationneeded` that `restartIce` raises when an answer comes between is one more restart.
  `makingOffer`, `isSettingRemoteAnswerPending` and
  `pendingCandidates` are the variables of `createCall`; an action is a function up to
  its next await. `chain`, `state`, `remote` and `needed` are the RTCPeerConnection:
  its operations run one after the other, and `negotiationneeded` fires in the stable
  state. `page` says how far the page is: joined, subscribed, with a call.
* **CallClient.** `sig[i]` is the `CallSignaling` of the i-th init with its socket and
  timer, `pc[k]` the peer connection of the k-th `joined`. `call`, `signaling`,
  `pendingSignals`, `pendingPeerJoined`, `timer`, `hasConnectedOnce` are the variables
  of the closure, which outlive a room. `raced` and `reused` are history: hangup or
  destroy while the camera was asked for; a second init, or a second `joined`.
* **TurnPool.** `lists` has one generation of objects per reload, `cur` is the one
  in the `ArcSwap`, `snap` the one the tick holds. Every load and store of an atomic
  by the probe (`Fails`, `FlipDown`, `Answers`, `FlipUp`, `Gauge`) and by reload
  (`CopyHealthy`, `CopyFails`, `AddNew`, `Store`) is a step. `streak` is history: the
  failures in a row that probes observed.
* **IceOffer.** `Ask` loads the list, `ReadFlag` reads one flag, `Answer200` orders,
  falls back and decides the policy; `steady` and `seen` are history: the servers that
  were healthy all along, or some time, while the request was read. `Config` turns
  the entries of `TURN_SERVERS` and of the lists into the constants of this module.
* **Migrations.** `boot[s]` is where a process is in `migrate::run`, `at` and `todo` its
  migration and the statements left. A statement needs and makes objects (tables,
  columns, indexes); the text of a migration is split by `Split`, comment by comment and
  quote by quote, into the statements that `Effects` knows. What is not among them the
  database refuses. `Killed` is a failed query or a killed process, at any of these places.
* **Limiters.** A caller's `pc` follows `JoinRateLimiter::check`: time, counter, janitor
  (`Janitor`, `ClearOne`, `RetainOne`, one shard at a time), decision under the entry's
  lock. The limiter of registrations holds a mutex and is one step after its time. `tat`
  is governor's state of an address (external). History: `log`, the admissions of the
  last window; `late`, that a limiter worked with an earlier time than another before it;
  `since`, the first refusal after the last admission.
* **Visitors.** `load[l]` is a request between browser and server; `RequestHasVid` and
  `ExtractVisitorCookie` are the two readings of one Cookie header, which differ at a part
  without `=`. `batch` is the batch whose events are being stored, one INSERT a step;
  `events` is history: how many events the last batch had, and how many were stored, refused
  for their own data (`unfit`: a NUL character, an index row too large) or lost. An INSERT that
  the table's shape refuses is in none of these.
* **Server.** `traffic` is drawn at the start: a behaviour has requests of one kind, with
  addresses and bounds of its own. Kinds share only the process and the database, so
  that the states of the kinds add up instead of multiplying. Start-up is in all of them.
  `Store` is an INSERT that is answered, `Outage` one whose connection breaks or for which the
  pool has no connection in time, `HangUp` a handler that is dropped with its client.
* **PartnerRegistry.** A request's `pc` says how far its transaction has come; the
  row lock is that a request is `locked` or `upserted`, the lock of the unique index
  that it is `upserted`. Writes appear at `Commit` (READ COMMITTED). The random part
  of a new node's id is the token that paid for it. `gone` is history: ids of
  deactivated nodes.
* **PartnerEdge.** `job` is the script under way and its place in it; `compose`,
  `conf`, `state`, `prev`, `seal`, `env` are the files, reduced to the tag or the
  node they carry; each of the four rendered ones is a step. `Crash` leaves them as they are
  and, on a baked node without a sentinel, starts hydrate at the next boot. `Health` announces
  "upgraded" before it goes on as a reseed, which renders `docker-compose.yml` with hydrate's
  own default tag. Of the containers it is kept that they run, of the units that a baked node
  hydrates at boot. `last` is history: what the last upgrade announced, until another script
  starts.

Modules also have operators marked `mutant`: deliberately broken variants of
the definition below them. No specification uses them. `PROJECT.json` pairs each
property with one: with it in place, TLC finds the property violated.

## Runs

| Run | Instance | Distinct states |
|---|---|---|
| `rooms_safe` | 3 handlers, 1 room id, 1 object, no eviction | 223,646 |
| `rooms_evict` | 2 handlers, 1 room id, 2 objects, grace 1, fair | 50,184 |
| `handler_relay` | 2 connections, queues of 1, 2 signals, 1 query, 1 break | 376,010 |
| `handler_live` | the same without signals, fair | 51,186 |
| `negotiation` | 2 pages, 3 ICE restarts | 428,250 |
| `client_page` | 2 inits, 2 joins, 2 signals, 1 retry, fair | 619,424 |
| `turn_pool` | 2 servers, threshold 2, 1 reload, fair | 358,204 |
| `server_life` | 2 processes, 4 migrations, 4 releases, 3 databases, requests of each kind | 1,181,414 |
| `registry_tx` | 3 requests, 2 tokens, 3 keys of 2 partners, 2 operator's acts | 207,746 |
| `edge_scripts` | 2 tokens, 2 requests, 3 tags, 3 scripts by hand | 2,068,902 |

(States up to symmetry where the run has it. The last takes about two minutes.)
Two more runs end in a violation: `rooms_NeverEvicted` and `migrate_Fresh`, see
"Where the code and its comments part".

**rooms_safe.** `CountExact`: no join or leave, refused, failed or interrupted
anywhere, loses or doubles a count. `AtMostOneImpolite`: two colliding offers always
find a side that yields. `ImplementsSlots`: the registry refines the abstract room, and
so never has more than two places, although `fetch_add` admits first and corrects
afterwards. Three handlers are enough for two that are in and one
that is refused, at every point of the others' way in and out. The guarantees are
stated as long as `~evicted`; that this matters is shown by `NeverEvicted` below.

**rooms_evict.** Two objects under one id, so that a room is collected, even in use,
and made again. `PeerIdsDistinct`, `GaugeNeverAhead` and
`CallEndRecorded` hold with evictions. The gauge may exceed the rooms in the map between
`inner.remove` and `on_room_closed`, two calls of the cleanup task; `GaugeNeverAhead` says that
it never does by more than this one room, openings still to be reported included. `AbandonedReclaimed` (a room that is marked empty and
unused does not stay) is stated until one happens: afterwards the handlers of the removed
object leave its successor. A grace of 1 tick makes the scan see both young and old marks.

**handler_relay.** `GapFree`: whatever a client receives of its peer is a run without
gaps, however far its relay lags (the task stops at Lagged instead of skipping).
`FarewellIsLast`: nothing of a peer comes after its `peer_left`. `AnnouncedListens`: a
peer that one is told of is subscribed. `PlacesCounted`: the places of the room and the
counters of connects, disconnects and joins tell one story, whichever of its ways out a
handler takes. Queues of one slot are the smallest that block and overwrite; with them one
signal fills a queue and the second one meets it full.

**handler_live.** `HandlerEnds` (no circle of waiting among three tasks and two full
queues) and `FarewellHeard`.

**negotiation.** `RolesAgree`: whatever offers cross, two pages of which one is polite end
with one session in which one has offered and the other answered. It is stated for
everything but an ICE restart that meets an offer which replaced another: `makeOffer`
does not wait for the stable state, so a page may replace its own open offer, or see it rolled
back by one it accepts although it is impolite. Pages may be late: one that has its place but
has not subscribed misses `peer_joined`, and the run shows that its own offer then carries the
call. `CandidatesKnown`: no candidate is lost in the empty room, ahead of its description or
between two awaits. Two restarts are what makes one meet the other; with the third, the offer
of one restart is rolled back while two others are still under way, which two do not reach.
One candidate a side stands for all, as only its order relative to descriptions matters.

**client_page.** `OneSocket`, `NothingLostBeforeCall`, `GivesUp`, and `PageFits`: ringing, timer
and tracking fit what is shown, for any number of peer connections, replaced ones that go on
reporting included. In the first room a shown call is timed, however often it reconnects. In a
later one it is timed, or `timer` is `dead`: it still holds the interval that `destroy` cleared
without nulling it (`useCall.svelte.ts:419`), so that line 151, `if (!timer)`, starts no other
and the call goes untimed. That is what the code does, and the property allows no third case.
Two inits are the two rooms a page visits; two joins a reconnection or a second room; one retry
reaches the limit. The history variables `raced` (of `OneSocket`) and `reused` (of
`NothingLostBeforeCall`) name the situations in which the code does not keep those two
properties (see below).

**turn_pool.** `HealthIsHistory`: as long as no reload overlapped a tick, the counter is
exactly the failures in a row and the flag is the threshold on it, across reloads.
`GaugeIsPool`. `ImplementsPool`: half a reload, or a probe on an old list, is not to be
seen. `DeadIsDropped` and `LiveIsOffered` hold *whatever* reloads did to
counters and flags. Threshold 2 is the smallest with a failure that does not flip;
counters saturate at 3 in the model, past the threshold, where the code only
compares. The second server, added or dropped by the reload, is what changes the list.

**server_life.** The embedded migrations are the repository's four, comments and missing
last semicolons included; three releases add statements with everything the splitter
knows (quotes, nested comments, dollar tags, a lone dollar), a fourth one has a
statement no database takes. Databases: one of a release before the tracker, one whose
third migration ended half way, one that is up to date.
* Start-up, with two processes on one database and one failure at any query:
  `RecordedIsApplied`, `ServesMigrated`, `NoCrashLoop` (what a killed start left is taken
  up from the first statement and never refused). A second failure only repeats the
  first: a start keeps nothing but the database.
* Joins and registrations by two callers at once, with a limit of 2, a window of 1 tick
  over up to 3 ticks, and a cap of 2 addresses: `WindowKept`, `MapBounded`. Either two
  addresses over time, or all four at once, which is what it takes to pass the caps. The
  janitor's turn comes at every call, so that the bound is below the number of addresses;
  `MapsAreBounded` proves it for any period.
* Quotas of 3 and 4 requests per minute of 12 ticks, one minute long, two addresses:
  `RetryHelps`. The intervals of 4 and 3 ticks and bursts of 2 let a refusal fall at every
  phase of an interval.
* Two page loads side by side, two ids, two batches of up to two events, an expired cookie, a
  part without `=`, data that the database refuses, an outage, a kill or a client that hangs
  up: `OneIdPerBrowser`, `EventsLand`. A second event in a batch is what shows that a failure
  of the first leaves it alone.
* A request for relays over three servers, of equal and different priority and region,
  with one reload: `OfferSound`. The lists are what `Config` makes of strings with blanks,
  missing fields and capitals; `EnvironmentAssumption` checks that.

**registry_tx.** `CommitsOnlyValid`: a commit is on a token unused and unrevoked at that
moment. `UsedNamesNode`: the tables agree, also when a domain is registered again.
`GoneForGood`: a deactivated id does not return. Two requests on one token and a third
on another, on three keys of which two share a partner, show every conflict: same
token, same key, both, a token of the wrong partner.

**edge_scripts.** Every kill, lost answer, rotation, reseed, upgrade and rollback against
the real transaction. `SealedIsRegistered`; `ConfIsRegistered`, for each rendered file by itself,
as a kill may fall between two. `ReportIsTrue`: what `upgrade.sh` announced is so on the disk
until another script starts; if it goes on to reseed, the compose file has the target up to the
moment hydrate renders it, and from then on the target or hydrate's default, while
`install.env` keeps the target. Two pinned tags, of which one to the other is an upgrade that
reseeds, and the default, `latest`, are the fewest that tell these apart. A node is installed
and hydrated by hand with the first or the default (`FirstTags`): with the second pinned tag
too there are twice the states and no other pair to upgrade between that reseeds. Three
scripts reach what two cannot: an install or hydration, an upgrade that is killed, and a
rollback or another upgrade over what it left. Strangers, revocation, expiry and
deactivation are off in this run (`MaxPosts` and `MaxLapses` 0); they are the subject of
the other.

All runs check deadlock except those that say `CHECK_DEADLOCK FALSE`, where bounded
counters or clients that are done let the system stop.

## Fairness

* `Rooms`: a handler between two awaits goes on, the clock runs, the cleanup task
  loops for ever (`room_cleanup.rs` spawns it at start-up). Hangup is not fair: a
  client may stay for ever.
* `CallHandler`: tokio polls every task that can go on. The end of the message loop is
  fair only once the socket is down; a client need not speak or leave. Writes to a live
  socket end because the client reads or the kernel gives up.
* `TurnPool`: the probe loop and a started reload go on (weak fairness of their steps).
  The weather is not fair.
* `CallClient`: a retry timer fires, and a browser reports in the end whether a socket
  opened or not. No fairness of users, cameras or peers.
* `PartnerRegistry`, `PartnerEdge`, `Server` and `Negotiation` claim safety only. The
  properties of `Negotiation` are about rest: every function has ended and no message is
  under way.

## Proofs

All proofs are for arbitrary constants under the named assumptions of the modules,
which TLC evaluates on every run.

**`RoomsProofs`** (assumes `ConnsAssumption`, finite connections; `NoneAssumption`;
`LimitsAssumption`; `CounterAssumption`, fewer connections than a `u8` counts).

* `TypeCorrect`: `Spec => []TypeOK`. The type invariant is inductive by itself.
* `CountIsExact`, `CapacityIsRespected`, `ImpoliteIsUnique`: from
  `IInv == TypeOK /\ Allocated /\ (~evicted => Core)`. The three properties are not
  inductive: `leave` finds the room by id, so it decrements the right counter only if the
  handler's own object is still the mapped one. `Linked` says that, and it survives
  because `CheckKey` sees a count of zero and the removal of an object in use sets
  `evicted`. `Allocated` (ids are bound to allocated objects only) makes a fresh object
  nobody's. From `Linked`, `Counts` (count = number of holders) is kept, hence the test of
  `fetch_add` bounds the members, and a role of impolite is given only to a handler that
  counted zero others. (`CapacityIsRespected` is no property of a run: `ImplementsSlots`
  has it.)
* `PeerIdsAreDistinct`, `GaugeIsNeverAhead`, `CallEndIsRecorded`: these need no `~evicted`, so
  they rest on an invariant that speaks of objects, not of what is mapped:
  `RoomInv == TypeOK /\ Allocated /\ Clean /\ PeerIdsDistinct /\ EndWitnessed /\ GaugeInv`.
  `Clean` says that a drawn peer id is below its own object's counter, which only grows.
  `EndWitnessed` names the handler that will record the end of a connected call: one that is
  in the call of that room or has seen it on its way out, by room id, so that it is a witness
  for the successor of a removed object too. The proof showed that `CallEndRecorded`, once
  stated until an eviction, holds whatever is evicted.
* `RoomsImplementSlots`: `SpecNoEvict => ImplementsSlots`. `Admit` below the limit maps to
  the abstract join, `LeaveDec` to the abstract leave, everything else stutters.

**`CallHandlerProofs`** (assumes `ConnsAssumption`, finite connections; `CapacityAssumption`, rings
and queues of at least one slot). All from
`HandlerInv == TaskInv /\ PlaceTypes /\ InOrder /\ Farewells /\ SendersListen /\ Places`.

* `HandlerTypes`: `TaskInv` has the types and says where the three tasks of a connection are.
* `SignalsAreGapFree`: for a client `c` and a peer `p`, `InOrder` splits the numbers of `p`'s
  signals at what was written, what is queued, what the relay holds and what the ring still
  has (`Continues`): each part is a run that begins where the one before it ends, and the last
  one ends at what `p` has said. A receiver that lags breaks the last part only, and then its
  relay forwards nothing more.
* `FarewellsAreLast`: `Farewells` says the same of `peer_left`: behind it there is silence, in the
  queue, in the relay's hand and in the ring, since its sender had ended its loop.
* `AnnouncedPeersListen`: `SendersListen`: whoever has a message anywhere has subscribed.
* `PlacesAreCounted`: `Places` counts the handlers at each place of the code against each counter;
  the property only compares them at the end.

**`CallClientProofs`** (assumes `ClientBounds`, which bound the model, by any numbers).

* `PageHasOneSocket`: from `SocketInv`. Until hangup or destroy has come while the camera was asked
  for, an object that has a socket or a timer still to fire is the one that the closure refers
  to, and there is none while an init waits, of which there is one.
* `PageFitsAlways`: from `ViewInv`, for any number of rooms and of peer connections, also those that
  were replaced and still report. A timer that was cleared but is not null belongs to a room the
  page has left, so there is none in the first room; that is the one case in which a shown call
  is not timed.
* `NothingIsLost`: from `SignalInv`. As long as there was one `joined`, what the call was given and
  what waits are together what was received; nothing was given before the call is made, nothing
  waits after it.

**`TurnPoolProofs`** (assumes `ConfigAssumption`; `CounterAssumption`, a threshold of at
least one; `UrlsAssumption`, finitely many URLs).

* `HealthIsHistoryAlways`, `GaugeIsPoolAlways`: from
  `PoolInv == TypeOK /\ Phases /\ InTurn /\ Remembered /\ GaugeIsPool`. `Phases` says where
  the two tasks are. `InTurn`: until a reload has overlapped a tick they run one after the
  other, so the list being probed is the installed one and every object copied so far equals
  its original; that carries the history through `Store`. `Remembered` adds to
  `HealthIsHistory` the server that is being probed, whose history is ahead of one of its
  fields between the two stores. `GaugeIsPool` is kept because the objects of an installed
  list are written by the prober only.
* `PoolImplementsHealthPool`: `Spec => ImplementsPool`. A store to a flag is a `Flip` or
  changes nothing, `Store` is `Install`, and everything else stutters: no hypothesis about
  overlaps is needed.

**`PartnerRegistryProofs`** (assumes `NameAssumption`, the empty values are no tokens or
keys; `PartnerAssumption`; `BoundAssumption`).

* `RegistryTypes`, `UsedNamesNodeAlways`, `GoneForGoodAlways`, `CommitsOnlyValidAlways`: from
  `RegistryInv`. Its core is that locks exclude (`LocksExclusive`), so that what the checks
  found stays true up to the commit (`LockedIsValid`) and what the upsert returned is still
  the row's id (`UpsertedNode`); `NodesAreUsed` makes the id of a fresh token new.

**`PartnerEdgeProofs`** (assumes those and `EdgeAssumption`: the edge's key is a key, `latest`
a tag, `FirstTags` are tags, the upgrades that reseed are between pinned tags).

* `RegistryHoldsUnderEdge`: the scripts' requests are requests of the registry, so each step of
  `PartnerEdge` is one of `PartnerRegistry` or leaves it alone, and `RegistryInv` holds under it.
* `SealIsNeverAhead`, `ConfIsOfThisEdge`, `ReportsAreTrue`: from
  `EdgeInv == RegistryInv /\ CreatedIsKept /\ JobWaits /\ DiskInv`. `CreatedIsKept`: an answer
  `created` is still true when the script reads it, however late, because a used token keeps its
  node and a node that goes is remembered. `JobWaits`: the answer is to the script's own request.
  `DiskInv` says at each step of each script what the files already are, so that a kill leaves
  nothing worse: a hydration past its registration has spent its token, and an upgrade keeps in
  the `.prev` files what it will put back. `ReportIsTrue` is not inductive: `ReportStands` adds
  that the only script which runs with an announcement standing is the reseed it announced, with
  hydrate's default tag, and that the compose file has the target until that script renders it.

**`ServerProofs`** (assumes `ReleaseAssumption`, `DatabaseAssumption`, `QuotaAssumption`,
`WindowAssumption`, `CallerAssumption`, `ListsAssumption`, `TrafficAssumption`,
`FrontAssumption`).

* `RecordedMeansApplied`, `ServesMigratedOnly`: for any number of processes and any
  migrations, under two hypotheses about the input. `SplitsRight`: the statements that a
  text is split into make what the migration is for. `Provided`: what the database has
  recorded, and what the seeding records, has been applied. `MCServer` has
  TLC evaluate both (`HypothesesAssumption`): they hold for its releases and databases but
  the empty one of `migrate_Fresh`, which breaks `Provided`, and the property with it.
  The invariant `BootInv` says of a process in the middle of a migration that what its
  remaining statements make, together with the schema, is all of the migration's purpose
  (`RestMakes`), and that what it has passed is recorded (`PassedRecorded`). It survives kills
  because a new start takes the migration up from its first statement, and other processes
  because a schema only grows.
* `GoodReleasesStart`: `NoCrashLoop` under a third hypothesis, which TLC evaluates for the
  repository's own texts; for the longer ones of the run it is what `NoCrashLoop` checks.
  `StatementsInOrder`: a statement of a release without faults needs what earlier migrations are
  for and what the statements before it in its own text make. `OrderInv`: what is left of a
  migration is the end of its text, and the schema has what its beginning makes, whoever made it.
* `EventsLandAlways`: with the further hypothesis that the objects of the INSERT are made
  by the migrations (`EventsMigrated`), from `ServesMigratedOnly`: the one way to lose an event
  that `EventsLand` does not count is an INSERT that the shape of the table refuses.
* `StableId`: no hypothesis. `VisitInv`: until pages overlapped, at most one request without a
  cookie is under way, and none once the browser has an id (`OneBare`); whatever was sent with a
  cookie since the last one expired, and every row of it, has the browser's id (`SameLife`).
* `RetryAfterHelps`: no hypothesis. `QuotaInv` bounds `tat` at the first refusal by the
  tolerance and one interval; later refusals charge nothing.
* `MapsAreBounded`: no hypothesis. Since the map of joins was last seen below its cap, or cleared,
  the janitor's turn has come a number of times, and each turn is held by a caller of its own
  that has not looked yet (`Turns`); between two turns a period of calls goes past. So the map is
  bounded by the cap and one period for each caller, not by the cap and one period, as one might
  read `rate_limit.rs:60`: a caller that is held up between the count and the look lets further
  periods go past. The two bounds are the same for the period of the run.
* `OffersAreSound`: `OfferSound` for any servers, priorities, regions, headers and reloads. An
  invariant of the reading suffices (`HasRead`): a server of the list that was healthy all along
  has been found so or has yet to be looked at, and what was found healthy was so at some time; a
  reload writes behind the list that is read. That the sort of a set lists each of its servers
  once is counted: ranks are distinct numbers from 1 to the size of the set (`Ranks`), so each
  is taken (`SortLists`), and the caller's region stays in front (`OrderLists`).

**`NegotiationProofs`** (assumes `PeersAssumption`, there are two pages; `PoliteAssumption`, the
one that was alone is the impolite one; `NobodyAssumption`). For any number of ICE restarts. Both
properties are about rest, so their invariants name, for every order of signals, what is still
under way that will settle it.

* `TypeCorrect`: `Spec => []TypeOK`.
* The module speaks of a queue by which kinds of elements it has and in which order (`Has`, `Once`,
  `Behind`, `Open`, ...). Lemmas say what `Append` and `Tail` make of these (`WirePush`, `WirePop`,
  `ChainPush`, `ChainPop`), and `StepsWritten` writes each action in these terms, one
  operator for each way through a function; the invariants are proved from that without looking
  at an index again.
* `PageInv` says of each page by itself that its flags go with the operations under way:
  `makingOffer` with a local description not yet set, candidates kept with a flush that is under
  way or a description still missing.
* `CandidatesKept`: `CandidatesKnown`, from `KnownInv` and `WaitInv`. `Known`: a candidate is on the
  way, kept or being added, or it found nobody subscribed and every description the other page
  will see lists it. `WaitInv`: a page without a description is still to get one; so the second
  way ends well too.
* `RolesAgreed`: `RolesAgree`, which holds for two reasons, by two invariants. As long as no offer
  that was out has been replaced (`RolesInv`), an open offer is, or the answer to it is, in exactly
  one place (`FirstOffers`, `SecondOffers`); one that the polite page has rolled back has the
  answer behind it, and the impolite page is not ready for it before (`Stale`). That the flag
  `isSettingRemoteAnswerPending` is still set there, although `makeOffer` ignores the state, is what
  the argument rests on. Without a restart (`CallInv`), a page that subscribes late may have its
  first offer replaced by the one that `peer_joined` asks for. `Replaced` says how that ends: the
  second page answers both, and the second answer is refused; or one answer serves for both, and
  the `setLocalDescription` that is left makes an offer, which is answered like any other. With
  a replaced offer and a restart neither invariant holds; there the code does not keep the
  property.

Only model-checked:

* all liveness properties (`AbandonedReclaimed`, `HandlerEnds`, `FarewellHeard`, `GivesUp`,
  `DeadIsDropped`, `LiveIsOffered`), which are out of the prover's reach;
* `WindowKept`, whose log and window are filtered sequences: what a recursive selection computes
  needs induction over data;
* that the splitter yields the statements of a text (`SplitsRight`, `StatementsInOrder`) and that
  the parsers yield the lists of the environment: TLC evaluates them on the repository's texts.

## Where the code and its comments part

Each has a run in which TLC finds the behaviour.

* `rooms_NeverEvicted`: `room_cleanup.rs:48` says "Double-check: only remove if still
  empty (no one rejoined)". The check drops its guard (line 51) before the removal (line 52),
  and a handler that joins between them is served by a room that is no longer in the map.
* `migrate_Fresh`: `migrate.rs:208` seeds "existing migrations so they are never re-applied
  after this change is first deployed onto a DB that already ran them". The INSERT
  (`migrate.rs:212`) runs on every database. On an empty one two migrations are recorded
  that nobody has applied; they are skipped, and the first one that needs their tables
  panics at every start.

## Known behaviours that no property pins down

Met while reading or modelling; no run is about them.

*Rooms and relay.*
* Two polite peers: the role is drawn at the join, so when the impolite peer reconnects
  while the other stays, both are polite. `Negotiation` with both polite violates
  `RolesAgree`.
* A room whose last members leave while a refused joiner is still counted is never marked
  empty and so never collected. A second look of the cleanup task at `count` only gives a
  room that was rejoined and left meanwhile no grace.
* A room reused within its grace keeps `connected_at` and `ended` of the first call, so the
  end of the second is not recorded.
* The handler that inserted a room may be overtaken and refused: no opening is reported
  and the gauge lags.
* The place is free before `peer_left` is broadcast; a newcomer can hear it.
* `handler.rs:154` subscribes before it announces "so nothing is missed"; that orders the
  announcing side only. A peer that has its place but has not subscribed misses the
  announcement; `RolesAgree` shows that its call comes about all the same.
* The early returns of `handler.rs:101` to 116 report no join error.

*Call page.*
* `useCall.svelte.ts:157` calls 'ended' a terminal state. After a reconnection the first
  call is not closed, and its connection state still sets `status`.
* A socket that opens resets the retry counter, also when the server refuses the room next,
  so backoff starts again each time; the timer, the pending announcement and the pending
  signals of the last room survive into the next one, and `destroy` (`useCall.svelte.ts:419`)
  clears the call timer without nulling the variable that line 151 tests, so that a call of the
  next room may go untimed (`PageFits` allows for this case and no other).
* `makeOffer` also runs outside the stable state, and `isSettingRemoteAnswerPending` stays
  set after an answer that the browser refuses.
* The client asks for `iceTransportPolicy: 'relay'` (`webrtc.ts:143`) whatever policy the
  server has decided on.

*Server.*
* `turn_pool.rs:102` says that a reload does not lose probe history. A probe in flight
  writes its result into the object that was replaced. A copy of `healthy` and of the
  failure counter may be of different moments.
* SIGHUP reads the environment of the running process again, which an operator's edit of a
  file does not change.
* An empty `x-client-region` hides `cf-ipcountry`.
* `signaling/rate_limit.rs:60` relies on hits in "monotonic order"; the time is read before
  the entry is locked, so two calls may push in the other order.
* The janitor of registrations removes empty entries, of which there are none; the map is
  bounded by its cap alone.
* `server/rate_limit.rs` speaks of rounding up and truncates; for the quotas in use, 30 and
  60, it is exact.
* `visitor.rs:4` speaks of renewing Max-Age; the cookie is set once. Two first pages
  side by side set two ids. A part of the Cookie header without `=`, or an id too long,
  hides `ox_vid` from analytics, not from the middleware.
* The runbook `analytics-db-down.md:88` says that the endpoint always answers 204; a batch
  that is malformed or longer than 20 events is answered 400, also one of the tracker.

*Partner edge.*
* `hydrate.sh` spends the token before it checks DNS: "update your DNS and retry" is refused
  as used. A lost 201 does the same. `--reseed` killed between the teardown and the removal
  of the sentinel makes a plain re-run say "already hydrated". It defaults to the tag
  `latest` after an upgrade to a pinned one. It waits for a certificate in a host
  directory, while the compose file keeps Caddy's data in a named volume. `BACKEND_URL` is
  derived before `hydrate.env` is read. Nodes hydrated from a baked image have no
  `install.env` and cannot be upgraded.
* `upgrade.sh`: a failed pull ends it with both files on the target, and the next try says the
  node is already on that version.

## Not modelled

* Branding and mirror domains: read-only tables built at start-up.
* Scalar settings, CORS, graceful shutdown, static files, the `/metrics` handler with its
  token, histograms: straight-line code or a library's configuration.
* The shards of the maps: `DashMap::len` of the janitor of joins is one read in the model.
* HMAC and expiry of credentials, token hashing, Reality keys (`creds.rs`): pure data, nothing
  to interleave, and no property tells their values apart.
* Media controls (mute, camera flip, screen share, wake lock), codecs and statistics, i18n,
  sounds, routes: presentation.
* Tracker, connectivity, service worker: the tracker's batches are taken as they come
  (`Ingest`); its queue and the fallback to mirrors are not modelled.
* TURN node scripts: the pattern of `PartnerEdge` over other files.
* Probe wire format, templates' text, the certificate watcher's signal, `--dry-run`.

## Plan

Done, in this order: `RoomSlots`, `Rooms` and its proofs, `CallHandler` over `RoomSlots`,
`TurnPool` and its proofs, `CallClient`, `PartnerRegistry` and its proofs, `PartnerEdge` over it;
`HealthPool`, `SqlSplit` and `Migrations`, `Limiters`, `Visitors`, `Config`, `IceOffer`,
`Server` over them and its proofs, `Negotiation`; the proofs of `CallHandler`, `CallClient`,
`PartnerEdge` and `Negotiation`.

Left, the most useful first:

1. A theorem about the admissions of `WindowKept` for the limiter of registrations.
2. Runs about the edge's traps: after a DNS fix a retry succeeds, and a failed pull does not
   leave the node between versions. Both are behaviours of the code today.
3. `TurnNode` on the pattern of `PartnerEdge`, and the tracker's queue in front of `Ingest`.
