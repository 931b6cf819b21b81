# Formal models of NEO ADMIN

NEO ADMIN is a Counter-Strike 2 server plugin (`server/src`, C++, grown out of
CS2Fixes) with two administration clients (`windows/NEO.Admin` and
`android/NEO.Admin.Android`, C#). The clients log in over UDP, receive live
voice, chat, the roster and player positions, and send commands: moderation,
accounts, maps, announcements. This directory holds TLA+ models of the parts of
the plugin in which order, failure and staleness decide correctness, the TLC
configurations that check them on small instances, and proofs checked by TLAPS
of the properties that matter most. Paths below are relative to the
repository (`src/` in `PROJECT.json`).

## The system

Two threads matter. The **game thread** runs one frame after another
(`VoiceBridge_OnServerFrame` in `gamesystem.cpp`): it scans SourceTV for voice,
announces players, polls the UDP socket, drains a few queued commands, fires due
schedules and sends positions. The **outbound worker** signs packets and calls
`sendto`. They meet only in the bounded queue of `neo_admin_transport.cpp`;
`docs/ENGINEERING.md` makes this the threading rule. Everything else is
sequential, but spread over frames: a command is received in one frame and
executed in a later one, when the account, the session or the player it was
about may be gone.

| Component | State | Operations | Interacts with |
|---|---|---|---|
| Outbound transport (`neo_admin_transport.cpp`) | deque of at most 512 packets, stop flag, descriptor, four counters, the worker | `Start`, `Enqueue`, `Stop`, `Run` | every sender; the socket that `NeoPtt_Start`/`NeoPtt_Shutdown` open and close |
| Accounts (`neo_admin_accounts.cpp`) | accounts by ID: role, capabilities, enabled, expiration, access key | `Load`, `BootstrapOwner`, `Upsert`, `Remove`, `Save` | sessions (validity, permissions), persistence, in-game administrators (legacy links) |
| Sessions and commands (`neo_ptt.cpp`) | up to 16 sessions by endpoint, the setup code and the claimed owner, queues of actions, chats and voice frames, one teleport slot | `NeoPtt_Start`, `NeoPtt_Shutdown`, `NeoPtt_Poll` with a branch per packet type, `NeoPtt_Send*`, `NeoPtt_Take*` | accounts, transport, the frame |
| Frame dispatcher (`gamesystem.cpp`) | per-slot voice cache, statistics | the frame: voice, poll, drains, schedules, positions | everything |
| Persistence (`neo_admin_persistence.cpp`) | one SQLite file, one JSON document per store | read (with import of a legacy file), transactional write | all stores |
| Bans, discipline, audit (`neo_admin_bans.cpp`, `neo_admin_discipline.cpp`, `neo_admin_audit.cpp`) | bans by Steam ID, restrictions, two bounded logs | `Load`, `Upsert`, `Remove`, `Record`, `Append` | the frame, player connections |
| Operations (`neo_admin_operations.cpp`) | map rotation with an index, scheduled maps, announcements | `Load`, `Save*`, `Delete*`, `RunNextMap`, `TakeDue*` | the frame |
| In-game administrators (`neo_admin_game_admins.cpp`) | administrators by Steam ID | `Load` with the migration of legacy links, `Upsert`, `Remove` | accounts (second document), in-game menu |
| Voice bridge (`voicebridge.cpp`) | presence cache by slot, last position sent per slot, current map | presence broadcast every two seconds, map changes, positions, joins and disconnects | engine callbacks, transport, clients |
| Wire protocol (`voicebridge_protocol.cpp`, `BridgeCommandPacket.cs`) | none | encode, decode, HMAC | sessions, clients |
| In-game menu, commands, plugin start (`neo_admin_menu.cpp`, `commands.cpp`, `cs2fixes.cpp`) | menu state of each player | engine callbacks | stores |
| Inherited managers (votes, players, preferences, idle, HTTP, game modes) | as in CS2Fixes | engine callbacks, timers | the engine |
| Clients (`windows/`, `android/`) | player list, map markers, receive buffers, mixers, forms | UDP receive, pruning of silent players, map transitions, reassembly, commands | the plugin |

### What is hard, and what makes a component correct

* **Transport.** Interleaving of two threads with notifications outside the
  lock; a full queue that erases from the middle; refreshed positions while a
  copy is in flight; shutdown closing a descriptor in use. Correct: controls are
  sent in order, since `ENGINEERING.md` and the clients rely on it; only
  positions are superseded; no wake-up is lost; `Stop` ends; the socket outlives
  the worker's use of it.
* **Accounts.** Sequences of legal edits, demotions, expirations, failed saves
  and crashes that could leave nobody to administrate, or a document that the
  next `Load` refuses. Correct: a permanent manager always remains, what is on
  disk always loads, memory and disk agree between requests, the first-owner
  setup never reopens.
* **Sessions and commands.** Commands outlive the state they were checked in.
  Datagrams are lost, repeated, reordered. Correct: a session ID names one
  login, replies reach the session that asked and only while its account is in
  force, the account catalog goes only to managers, one administrator's
  misfortune never costs another one's session.
* **Bans, discipline, audit.** Two stores written one after the other, each of
  which can fail. Correct: memory is what is on disk, limits hold, IDs are
  never reused, the history tells what happened to the bans, and what is stored
  reaches the players.
* **Operations.** Due work taken from a store whose save may fail, then a
  crash. Correct: nothing fires twice, nothing is lost, repeating announcements
  move past the present.
* **Persistence, in-game administrators.** A migration over two documents
  without a common transaction, in a start that can fail or be cut at every step
  and is then repeated; an import of older files beside the database; a plugin
  that stays loaded after a failed start and writes files again. Correct: no link
  is lost, no deleted administrator comes back, what is in the database stands.
* **Voice bridge, clients.** Joins, leaves and positions are told once, without
  acknowledgement, over a network that loses, repeats and reorders, behind a queue
  in which a refreshed position overtakes. Correct: a client's list and map agree
  with each other at any moment, and with the game once things come to rest.

`PROJECT.json` lists the hazards at their lines.

## The modules

| Module | What it is |
|---|---|
| `OutboundContract` | what the transport promises its callers: a pool that packets leave by being sent or superseded |
| `Transport` | both threads, mutex sections, condition variable, queue, socket |
| `TransportRefinement` | the refinement mapping from `Transport` to `OutboundContract` |
| `MCTransport` | instance for TLC |
| `TransportProofs` | proofs about `Transport` |
| `Accounts` | the account store and its document |
| `AccountBook` | what the account store promises to those who manage administrators: a book that changes one account at a time, on stated terms |
| `AccountsRefinement` | the refinement mapping from `Accounts` to `AccountBook` |
| `MCAccounts`, `AccountsProofs` | instance, proofs |
| `Sessions` | polling and draining, composed with `Accounts` |
| `MCSessions`, `SessionsProofs` | instance, proofs |
| `Operations` | rotation, scheduled maps, announcements, and the part of the frame that carries them out |
| `MCOperations`, `OperationsProofs` | instances, proofs |
| `Moderation` | bans, restrictions and their history, in memory and on disk |
| `Enforcement` | `Moderation` composed with infractions, players, commands, menu and chat |
| `MCModeration`, `MCEnforcement`, `ModerationProofs` | instances, proofs about both |
| `Storage` | database rows, older JSON files, the start of the plugin with the migration of the Steam links |
| `AdminList` | what the in-game administrators are to those who manage them: one list, changed by a running plugin one name at a time |
| `StorageRefinement` | the refinement mapping from `Storage` to `AdminList` |
| `MCStorage`, `StorageProofs` | instance, proofs |
| `Presence` | what the server tells about its players: engine callbacks, presence cache, positions, queue, network |
| `Roster` | the player list and the map of the Windows client, composed with `Presence` |
| `MCRoster`, `RosterProofs` | instance, proofs |
| `Ascending` | a finite set of numbers in ascending order, and the places of a list that are kept |
| `SequenceLemmas` | lemmas on erasing, restoring, appending and keeping places of a list, cited by the proofs about `Transport`, `Operations`, `Enforcement` and `Roster` |

### Transport

An action is a critical section of `g_mutex` or a step outside it. `Enqueue`
has four outcomes, tried in the code's order: `Coalesce` overwrites the pending
position of the same endpoint and slot in its place, `Push` appends,
`Displace` erases the first position of a full queue and appends, `Refuse` turns
the packet away; a full queue without positions refuses controls too. The
notification follows as a step of its own (`Notify`), since the code issues it
after the unlock. `Stop` is three steps: `BeginStop` sets the flag, `NotifyAll`
wakes, `FinishStop` joins, which waits for the worker to `Exit`; the worker exits
only when it is asked to stop *and* the queue is empty. `CloseSocket` is the
`close` of `NeoPtt_Shutdown`. The worker may sleep, wake spuriously, take the
front packet with a copy of the descriptor, and send it with success or failure.
Abstracted: payload and signature (a packet is a type, an endpoint, a slot and a
serial number), and signing failure, which counts as dropped exactly as a failing
`sendto` does. Not abstracted: descriptors are numbers that the kernel reuses.

### Accounts

One SQLite transaction separates a change in memory from its commit, so every
request is two steps: the change (`Create`, `Edit`, `Remove`, `BootstrapOwner`)
saves the old store in `previous` and enters phase `saving`; then `Commit`, or
`SaveFails` which restores it, or `Crash`, which leaves the old or the new
document. `LoadDocument` is `Load` of a stored document: named roles regain the
capabilities that every load grants them (`RegrantedStore`), and a store is refused
that has no permanent manager, or that has an account of the server secret while
none is configured (`Loadable`). `LoadNothing` is `Load` where there is no document:
with a server secret it makes its owner, without one the store stays empty until the
first owner claims it. Time is a clock
that advances up to `MaxTime`; expiration is a comparison against it. `Permissions`
are the capabilities of the code: nine that some role regains at load
(`GrantedOnLoad`) and twelve that none does.

### Sessions

`Sessions` extends `Accounts` and drives it: an account command in the queue is
the only way to a request. A frame polls (`drains = 0`), then drains. `Login`,
`LoginRefused`, `Claim`, `ClaimAgain`, `Disconnect`, `Receive`,
`RequestCapabilities` and `ReceiveOther` are the branches of
`NeoPtt_Poll`, of which `Receive` and `RequestCapabilities` share `AcceptAction`: the
replay check, its new stamp and the activity. `Deny`, `Moderate`, `SendAccountCatalog`, `Refuse`,
`ChangeAccounts` and `FinishChange` are the drained command, from the check of
the permission stored at arrival to the reply. `Broadcast` is a live event, which
removes sessions that are no longer valid. The table is keyed by endpoint;
`recency` is the order of the activity counter, a relation between endpoints, which
is all the code uses it for. Every client may send any datagram at any time, so loss, duplication and
reordering need no channel of their own; a *stamp* is what the replay check
compares, and it compares with the last one only. `moderate` stands for the
commands that do not touch accounts. Two history variables record what the last step
sent and carried out. What is sent is either a *reply*, the answer of a later frame to
a command that waited, or a *notice*, by which `NeoPtt_Poll` answers a datagram at once:
a login accepted or refused, the capabilities of the server, and, to an endpoint whose
session is removed, that its account is disabled, expired or has another key (an account
that is gone is not told).

### Operations

The store is one document. A command (`Add`, `Delete`, `SaveRotation`,
`RunNextMap`) changes it in memory and saves; the save either commits or the
change is taken back *by hand*, operation by operation (`UndoAdd`, `UndoDelete`,
`UndoAdvance`), as the code does it: there is no copy of the old store, so whether
the undoing is exact is a property and not an assumption. The frame goes through
its parts in order: commands, up to `PerFrame` announcements (`budget`), one map.
`TakeDue` takes the earliest due entry out (or moves a repeating one past the
present) and ignores the outcome of its save; `lagging` remembers that the disk is
behind. `CarryOut` is the broadcast or the map change that follows. `Halt` and
`Start` are crash and restart, possible between any two steps, those two included;
SQLite runs with `synchronous=FULL` (`neo_admin_persistence.cpp:237`), so a crash
during a write is a write that succeeded or failed, and a crash. History variables:
the turns carried out, the turns whose removal could not be written, and what each
ID was given to. Abstracted: texts and actors, and `rotation_enabled_`, which
is stored and shown but which nothing reads. Left out: that the frame may find the
map of `RunNextMap` missing, its profile reserved or not to be prepared, and stay on
the running one; the index has advanced and is saved by then, and no state of the store
depends on it.

### Moderation and enforcement

`Moderation` has the two documents. `SaveBan` and `DeleteBan` are the first half of
`NeoPtt_SaveBan` and `NeoPtt_DeleteBan`, which writes the bans; `note` is the line of
history that is then due, and `RecordNote` is the second half, which may be refused
(a long name), fail, or never come because of `Halt`. `UpsertRestriction` and
`RemoveRestriction` write a restriction together with its line. Every action has a
parameter `written`, the outcome of the transaction; what the code takes back by
hand, and the pruning of expired restrictions that it does not take back, is in
`SaveBans` and `SaveDiscipline`. Bans keep their expired entries until the next
`Upsert`; restrictions drop them at load. `disputed` is a history variable: the
subjects whose last line was lost, or was written by the menu although the
removal could not be.

`Enforcement` extends it by the places where a mute is kept again: the infraction
with its file, and the flag of the connected player. A command stores first
(`RestrictCommand`, `LiftCommand`, `BanCommand`, `MenuLift`) and leaves an `order`;
`Silence`, `Release` and `Kick` are what the same case of the dispatcher does
next. They are steps of their own because the server may crash in between and time
may pass (the infraction counts its expiry from a later reading of the clock than
the restriction); nothing else of the game thread comes in between (`Idle`).
Players connect with or without Steam's answer, are authenticated later, leave and
hand their slot on. `FlagsAfter` is what the loop of `ApplyInfractions`, from the
last infraction to the first, leaves of the player's flags; `Expiring` and
`TurnedAway` are what it leaves of the list. `SaveInfractions` writes a plain file:
it may fail, or leave it empty. `Fault` is the null pointer that
`FindAndRemoveInfraction` reads for a player whom Steam has not authenticated.
Left out: chat commands for several players at once (one after the other, with
the same effect), "ebans" (they are not written to the file), kicks and slays, which
only add a line.

### Storage

A document is a row of the database or, in an installation of an older version, a
JSON file; `Row` and `File` say what reads as absent. `NeoPtt_Start` is a sequence
of transactions, and `phase` is where it stands: `Configure`, the accounts, the
in-game administrators, `ClearLinks`, the other stores in the order of `Rest`, the
socket. `Import` is the transaction inside `ReadJsonDocument` that copies a file
into a row; the file is renamed afterwards, which may fail without notice, so it
may stay. `LoadGameAdmins` joins the Steam links of the accounts to the stored
administrators and saves; `ClearLinks` then saves the accounts without them. Each
step has its failure (`ConfigureFails`, `LoadFails`, `SaveGameAdminsFails`,
`ClearLinksFails`, `OpenSocketFails`): the database is closed, but the stores keep
what they hold, and the plugin stays loaded. In that state `MenuChange` is the
in-game menu, whose save goes to the JSON file. `Halt` is shutdown or a crash,
possible between any two transactions. Abstracted: a document is the set of Steam
IDs it is about. Four history variables record the links of the old installation,
who was deleted, and what was accepted and where it went.

### Presence and roster

`Presence` is the server's side. `Join`, `Leave`, `ChangeMap` are the engine's
callbacks. A fake client under the name of `tv_name` gets no `ZEPlayer`
(`cs2fixes.cpp:956`), and `Hook_ClientPutInServer` returns before it announces
anybody (`cs2fixes.cpp:975`): `JoinAsTv`. SourceTV is in the presence cache only where it was
announced after all, because the plugin was loaded after it came or `tv_name` has been
changed, and the initial states have both cases. `Vanish` is a bot that CS2 replaces during a level load without one,
which the comment at `voicebridge.cpp:848` describes. `SendPosition` is the filter of
`SendPlayerPosition`: `Move` for a player who moved, `Heartbeat` for one who is new
or whose last position is a second old (`due`). `Broadcast` is `TickPresence`.
`Enqueued` is the transport as its callers see it, with the overwriting of a pending
position in its place; that the transport does so is what the runs and proofs of
`Transport` show. A packet at the front of the queue is `Delivered` at once, or
`Withheld` in the network (`air`), or both; a withheld one may arrive at any later
time or never, so that loss, duplication and reordering are one mechanism.
A tick is the two seconds of `TickPresence`.

`Roster` is `MainForm.cs`: a row of the list per player, found by Steam ID or by
slot (`PlayerKey`), and the markers on the map. `Upsert`, `RemovePlayer`, `MapChanged`
are what the packets do, `Prune` is the timer that drops players of whom
nothing was heard, `BeginTransition` the hold of the list during a map change, which
the administrator's own request starts as well (`RequestMap`). Times are counted in
ticks, capped one above the timeout.

Abstracted: a player without a pawn (dead or spectating) is not
sent a position and not shown; the model has players with pawns. A position that a
full queue refuses is a packet lost. Left out: voice packets, which touch the rows as
positions do; health. Only the Windows client: the Android client keeps two rows of
one slot until the older one has been silent for its timeout, and its mark of
SourceTV never comes off a row (`MainActivity.cs:1126`), so that `ViewConsistent` is
not a property of it.

One thing that the model shows and no document denies: a refreshed position of the
next player in a slot, written in the place of the last one's, may be sent before
the disconnect of the player before. If that disconnect does not find its own row, it
falls back to the slot (`MainForm.cs:3280`) and removes the row of the new player,
who is back with his next position; `RosterConverges` holds with it.

## The runs

| Run | Shows | Bounds |
|---|---|---|
| `Transport` | counters, order, freshness, socket life, no accepted control lost; every accepted packet leaves, `Stop` ends, `Transport` implements `OutboundContract` | 2 endpoints x 2 slots, 1 descriptor, queue of 3, 4 calls |
| `Accounts` | manager remains, document reloads, memory mirrors disk, `Accounts` implements `AccountBook` | owner and 2 accounts, limit 2, 1 tick |
| `AccountsCustomization` | *violated:* capabilities taken away return at load | same |
| `Sessions` | identity, privacy of replies and catalog, setup, use of the accounts, limits, and who loses a session | 3 endpoints for 2 sessions, 2 accounts, 2 keys, 2 pending, 2 per frame, 3 logins, expiration, a new key |
| `SessionsRevoked` | *violated:* a queued command outlives its account | 2 endpoints, 2 accounts, four kinds of account change |
| `Operations` | identity, memory and disk, nothing forgotten, nothing twice, no due entry starves, the index stays in the rotation | 2 maps, rotations of up to 2, 1 message, 2 entries a list, 2 IDs, 1 tick, 1 announcement a frame |
| `Moderation` | memory mirrors disk, limits, the history agrees with the stores | 2 players (one with a long name), 2 kinds, limits of 1, 2 lines, 1 tick |
| `Enforcement` | a mute reaches its player, one infraction of a kind | 1 player, 2 slots, 1 ban, 1 restriction, no history, 1 tick |
| `EnforcementLifted` | *violated:* an unmuted player stays muted | same, 1 slot |
| `Storage` | the migration is invisible: `Storage` implements `AdminList`; the deleted stay deleted, the database stands | 2 Steam IDs, 4 documents, limit of 1 administrator |
| `StorageFallback` | *violated:* a change saved after a failed start is gone | same |
| `Roster` | list and map agree; they end up showing the players in the game and the level that runs | 2 slots, 1 player with a Steam ID, bots, SourceTV, 2 maps, timeouts of 1 tick, 3 events, 2 from a held list |

**Why the bounds suffice.** Transport: a queue of 3 with 4 calls fills, coalesces at
the front, in the middle and at the end, displaces and refuses, with the worker
holding one packet more; the one descriptor is given out again after every
close, which is the case in which a stale copy would do harm. Accounts: two
managers are the smallest number that can demote each other, a third ID exceeds
the limit of two; one tick separates "expires in the future" from "expired".
Sessions: three clients for two places evict, two logins at one endpoint or at two
make a session ID stale, two waiting commands let the first revoke the second;
the requests of the run appoint a manager for a time, demote him and give him
another access key. Bounds of `MCSessions` say when: the third login is to a server whose
owner was claimed (`LastLoginIsDue`), since the requests of the run treat the owner
of a server secret no differently, and after it a command arrives at an empty
queue or pushes the oldest out of a full one (`AfterLastLogin`); the owner is removed, or a key
replaced, by the first command of the queue (`QueueIsDue`); a key is replaced while
a command of the account waits, which is the case that matters (`RekeyIsDue`), and
after it nobody logs in and no command arrives (`AfterRekeying`); time
passes only before that, while no command is pending and every session is taken
(`TimeIsDue`), so an account expires while it is connected; and what is only
answered is sent when no command waits (`MerelyAnswered`). The run notices when the
reply to a waiting command goes out on the key of the login after that key was replaced
(`Deliverable_AnyKey`). `SessionsProofs` has the same properties without these bounds.
Operations: two
entries of a list are the fewest that have an order and can starve each other, a
rotation of two the shortest whose index moves, an ID given back by a failed
addition or a deletion is the second, and one tick makes an entry due and a
repeating one due again. On so short a clock `EveryTurnComes` does not tell apart the
orders in which due entries may be taken: that the earliest goes first is the theorem
`TurnsComeInOrder`, for any clock. `MaxSerial`, `MaxTime`, `MaxLogins`, `MaxId` and
`MaxEvents` bound counters that the program does not bound; the proofs need no
particular value of them. Moderation: two players and a limit of
one make the limit bite for one of them while the other is updated; two lines of
history are the fewest of which one can be cut off while the other counts.
Enforcement: two slots let a player leave the one that the command names and
come back in another; to the command a slot that somebody else has taken is the
same as an empty one, and infractions of different players do not touch each
other, so one player is enough. The lines of history play no part there.
Storage: four documents are the two of the migration, one that the menu writes
and one that it does not; two people let one be linked and deleted while the other
is not. Nothing is bounded besides. Roster: an event is a step of a player, of a level,
of the administrator, or a packet that is not just passed on. The run starts with a
free slot beside SourceTV and three events to come, or with a full server and two;
so a player can join, leave and be replaced in his slot while one packet of
it is late, a bot can vanish in a level load, and a request can cross a map change.
A third start (`MCHeld`), again with two events, is a list that is held while the map
changes, after the bot of slot 0 has left: when the player of slot 1 comes back in slot 0,
`UpsertPlayer` finds his row by the Steam ID *and* another one by the slot, and must drop
that one (`MainForm.cs:3197`). From the other starts three events do not lead there.
Symmetry is used only over values that are compared for equality and only in
runs without liveness.

**Deadlock** is checked in every run: the plugin can always be loaded again.

**Fairness.** `FairSpec` of `Transport` assumes weak fairness of the worker's
steps and of the game thread's steps *inside* a call that it has begun. The code
justifies both: the worker is an ordinary thread whose `sendto` does not block
(`MSG_DONTWAIT`), and a game thread that is inside `Enqueue` or `Stop` returns.
Neither a new `Enqueue` nor a `Stop` is assumed ever to happen, and spurious
wake-ups are not assumed either. `FairSpec` of `Operations` assumes weak fairness
of `Frame`, the parts of a frame: the engine runs a frame each tick and a frame
comes to its end. No command, save or restart is assumed to happen or to succeed.
`FairEnforcement` assumes weak fairness of `Finish`, the second half of a command,
which runs on in the same call, and strong fairness of `CheckInfractions`: the timer
of `cs2fixes.cpp:391` runs every 30 seconds between two frames, when no command is
being handled; as commands switch it off for the length of a step again and again,
weak fairness would not say so. A server that is down need not come up again.
`RosterFairness` assumes weak fairness of the frame (`Broadcast`, and `Heartbeat` of each
slot), of a level load coming to its end (`Resume`), of the worker and the network
passing on what is at the front of the queue (`Deliver`), of the timer of the
form (`Prune`) and of time (`Tick`). A withheld packet may stay withheld for ever,
and nothing is assumed of players, maps and administrators; that all of them come
to rest is not assumed either, but follows from `MaxEvents`: `RosterConverges` and
`MapConverges` say what is shown when they do.
`Sessions`, `Accounts`, `Moderation` and `Storage` have no liveness
property: a client's next command is never due, the queue may drop, and a start may
fail for ever.

**Mutants.** Each property of a passing run is listed with a faulty variant of one
definition (a dropped guard, an off-by-one, a missing rollback) under which TLC
finds the property violated; the variants stand in the modules before the
definitions they replace and no specification uses them.

### Findings

* `CustomizationKept` (run `AccountsCustomization`). The comment at
  `neo_admin_accounts.cpp:181` promises that named roles receive *newly
  introduced* capabilities without replacing deliberate customizations; the code
  cannot tell new from removed and grants them again at every load. The Windows
  editor cannot ask for such an account: it shows and sends a set of capabilities that
  is not the role's as "Custom" (`AdminAccountManagerForm.cs:529`, `:665`), which no
  load touches. The request of the run must come from another client of the protocol;
  the server takes it from any.
* `RevokedAccountsStop` (run `SessionsRevoked`). The comment at
  `neo_ptt.cpp:1152` says that disabled, expired, deleted or re-keyed accounts
  stop immediately; a command that is already queued still runs, on the permission
  stored at arrival. The accounts themselves stay sound, since `Upsert` and
  `Remove` check again (`ImplementsAccounts`).
* `LiftedMeansHeard` (run `EnforcementLifted`). Command 115 answers "Player
  unmuted." (`neo_admin_discipline.cpp:310`) when the restriction is gone, but unless
  it names the player's slot, which the Windows client never does
  (`AdminDisciplineForm.cs:150`), it erases the infraction without undoing it
  (`gamesystem.cpp:2593`, `adminsystem.cpp:1614`). The flag of the connected player
  stays, and since `ApplyInfractions` undoes only what is still listed, it stays until
  he reconnects.
* `AcceptedChangesStand` (run `StorageFallback`). `docs/SQLITE_STORAGE.md:3` says
  that the plugin stores its data in the database. After a start that failed the
  database is closed but the plugin stays loaded (`cs2fixes.cpp:431`); what the
  in-game menu saves then goes to the JSON file (`neo_admin_persistence.cpp:335`), is
  reported as saved, and is not read by the next start, which finds the row.
  Changes that went into the database stand (`DatabaseChangesStand`).

## The proofs

All theorems hold for every value of the constants that meets the `ASSUME`s of
the modules (which TLC evaluates in every run): finite or infinite sets of
endpoints, accounts and keys, any limits.

* `TransportProofs`. Type correctness is inductive with the joint invariant of
  the two program counters (a worker exists exactly when the descriptor is set,
  and so on). `SendsOnOpenSocket` needs that the worker's copy equals the
  descriptor while it runs. `Accounting` adds the packet in hand to the sum.
  `ControlInOrder` and `FreshestPosition` are proved from a stronger statement,
  that serials of pending controls increase along the queue *and* exceed the one in
  hand, since erasure in the middle and overwriting in place must preserve it.
  `Implementation` is the refinement: each step is mapped to a step of the pool or
  a stutter. What the two liveness properties rest on, fairness aside, is proved as well.
  `NoWakeupLost` says that somebody can always go on: it needs that the flag is up exactly
  while `Stop` is at work (`Awake`). `StopIsFinite` and `PacketsComeForward` say that going on
  leads somewhere: the first by a measure of the packets and of both program counters;
  the second by showing for each critical section where each packet was before
  (`ShiftKeeps`), which needs that serials tell all waiting packets apart (`Unique`).
* `AccountsProofs`. None of `ManagerRemains`, `StoreReloads` and `MirrorsDisk`
  is inductive: a failed save brings `previous` back and a crash the document. The
  invariant therefore says of all three stores, memory, backup and disk, that
  they have a permanent manager and relates them to each other phase by phase.
  `SetupClosesForGood` is an action property from the same invariant.
  `AccountsImplementBook` is the refinement: the book is the document as the next start
  would read it, and the step that changes it is the commit (or the commit that a
  crash follows). It needs to know that what is being written rewrites *one* account of
  the store that the document has, on the terms of the book (`Pending`); that one
  account is rewritten in the book, too, because granting capabilities by role
  (`RegrantedStore`) works on each account by itself. Room in the book is checked
  against the book, though memory and document differ while the save runs.
* `SessionsProofs`. First that every step of the composed system is a step of
  `Accounts` or leaves it alone (`SessionsImplementAccounts`); it needs that a
  request is only made while some account exists, because its sender was
  authenticated (`Peopled`). `PluginKeepsAManager` then follows from the theorem about
  `Accounts`, without looking at a single account operation again, and so does
  `PluginKeepsTheBook`. `SessionIdentity`
  is strengthened by a bound on every ID in sight by `nextId`; replies and
  catalog follow from it for every step. `SetupCodeIsolated` is proved with
  `Isolation`: until the first login there is no session, hence no command, so what is
  being saved can only be the claim. For `NoCollateralDisconnect` every step is shown
  to do one of three things to the table (`TableStep`); that a full table has exactly
  one session to push out needs that `recency` stays a strict order of finitely many
  endpoints, a least element of which exists because inclusion of finite sets is
  well-founded (`SomeoneIsOldest`). `CommandsTakeTurns` bounds what the finding
  `RevokedAccountsStop` is about: every command in the queue came from an account that was
  in force with the permission the command carries, it moves forward by one place for each
  command taken (or, from a full queue, forgotten), and nothing else is carried out.
  `DrainsEnd` says that such a frame is finite: by a measure of the commands it may take
  and the save under way, which no other step raises, because a write that belongs to a
  frame excludes polling (`Busy`).
* `OperationsProofs`. The invariant adds to the types that memory and disk are the
  same document unless a turn is lagging, and in that case that every entry in
  memory is on disk at the same time or an earlier one (`Later`), that IDs are
  unique within and across the lists and below `nextId`, and that what was carried
  out is recorded and is in no store any more unless excused (`Spent`).
  Undoing by hand is exact by the lemmas of `SequenceLemmas`; that
  `TakeDue` finds an earliest entry comes from the well-foundedness of the
  naturals. What `EveryTurnComes` rests on, fairness aside, is proved as well: turns are
  taken in the order of their times (`TurnsComeInOrder`), an entry stays until its turn
  (`NothingIsDropped`), and a frame is at most `2 * PerFrame + 4` steps (`FramesEnd`), by
  a measure of the budget and of the turn in hand.
* `ModerationProofs`. `HistoryAgrees` speaks of a running server and says nothing
  of what a restart will find, so it is not inductive. The invariant states the
  agreement of the two *documents* (`Agree`), always, and that a line that is due tells
  what became of the ban (`NoteRight`); it carries over to memory since by
  `StoresMirrorDisk` memory lacks only what has expired, and what has expired
  stays so. `LengthenedAgrees` is the step that all requests share: a new line
  settles its subject and, whatever it pushes out at the other end, the last
  line about every other subject stays where it was. `EnforcementKeepsModeration` is the
  refinement: commands, menu, chat, timer, fault and crash change the stores only
  by steps of `Moderation`, so its theorems hold of the composition, too.
  `OneInfractionOfAKind` proves `EnforcementTypeOK`. `With` appends to a list from which the
  last infraction of the kind was erased; that this makes the list free of the kind
  needs that there was only one (`WithoutSound`). The loops that leave out what has expired
  keep some places of a list in their order: the n-th place exists and differs from the
  others (`NthFacts`, `PlacesKept`), so such a list gets no second infraction of a kind.
  `OnePassEnforces` is what `RestrictionsTakeHold` rests on: a single pass of the
  timer, or a reload, reaches every player who is there. `OnlyAbsenceEscapes` names the one step
  after which a restriction in force has newly missed its player, a command by a slot in
  which he does not sit. `NoCollateralLift` says of the documents that nothing in force
  ends or begins except by a request that names it; it needs `StoresMirrorDisk`, since every
  write replaces the whole document, and carries over to `Enforcement`
  (`NoCollateralLiftByCommands`) by the refinement.
* `StorageProofs`. `LinksKept`, the heart of the migration, is not inductive: that clearing the links is safe
  rests on the order of the start. The invariant says for each phase what has been
  written by then (`Progress`): before the links are cleared they are in the row of
  the administrators, whoever starts; and that somebody was deleted only after they
  were cleared for good (`RemovedGone`), because a deletion takes a running plugin,
  so no later start can join an old link again. `Mirror` and `Standing` carry
  `DatabaseChangesStand` over the failed starts. `Implementation` is the refinement: the
  list of `AdminList` is what the next start would find of both documents together,
  rows or files, and each of the transactions that the migration is cut into is a
  stutter (or the `Load` of a part of the list); `LinksKept` says a part of this, as
  an invariant.
* `RosterProofs`. `ViewConsistent` for any number of slots, players and maps, and
  whatever packet arrives: the proof of `Receive` uses nothing of the sender. That
  renaming the one other row of the slot restores the uniqueness needs that
  there was only one; besides, the invariant says that a row has exactly its
  five fields, so that a change of one leaves slot and player alone.
  `RosterTypeCorrect` proves `RosterTypeOK`, with the queue a sequence of packets: an
  overwritten position keeps its place, and what `TickPresence` queues is the players by
  slot (`AnnouncedTypes`, from `NthFacts`). What the two liveness properties rest on is
  proved, too. `MapIsRetold`: the last announcement on its way names the map there is, or
  none is on its way and the client shows it; a broadcast makes this so, and only the loss
  of an announcement or a late old one undoes it. `RestComes`: when nobody moves and
  nothing is lost, every player is announced and listed again, and the rows of those who
  left only age until they are pruned; it and the next one are the only
  theorems with a hypothesis of their own, `StaleTimeout >= 1`, that a row outlives a `Tick` in which nothing was heard
  (`PlayerStaleTimeout` is 5 seconds, a `Tick` stands for the 2 seconds between two
  announcements). `WhatIsRightStaysRight`: the settled state is the goal of
  `RosterConverges`, and no undisturbed step leaves it. All three need that no player sits
  in two slots (`Seated`), hence that `Bot` and `SourceTv` are no humans
  (`OccupantsAssumption`).

Every invariant and every action property of a passing run is proved. Only
model-checked are the liveness properties (`EveryPacketLeaves`, `StopTerminates`,
`EveryTurnComes`, `RestrictionsTakeHold`, `RosterConverges`, `MapConverges`), since fairness and
`ENABLED` are outside the prover. Of each of them the part that is not about fairness is
a theorem, for every value of the constants: that work in hand only shrinks, that what was
accepted is not lost on the way, that a step once taken has its effect and that nothing but
the faults it names undoes it. What stays with TLC is that the steps are in fact taken, and the
induction on the measures. What is *violated* is shown by TLC's
counterexamples.

## The plan

1. *(done)* Transport with its contract, refinement and proofs.
2. *(done)* Accounts with failed writes, crashes and restarts, and proofs.
3. *(done)* Sessions and the command drain over the accounts, and proofs.
4. *(done)* Operations: scheduled maps and announcements fired from a store whose
   save is ignored, crash and restart, the rotation index, and proofs.
5. *(done, but for the audit log)* `Moderation`: bans and discipline as stores
   written one after the other, with expiry, limits and rollback, and proofs;
   `Enforcement`: what reaches the players.
6. *(done)* `Storage`: import, the migration of Steam links over two documents,
   failed starts, and proofs.
7. *(done, but for voice)* `Presence` and `Roster`: what a client shows under lost,
   repeated and reordered packets, and a proof.
8. Extension of `Sessions` by the chat queue, the teleport slot and the
   push-to-talk queue.
9. The voice relay's slot cache and the receivers of the clients: reassembly,
   sequence windows, map-overview chunks.
10. The inherited vote managers, admin flags and preferences.

## Not modelled

The rest of the plan above. Most lines of the repository are not the program's
own logic: `server/sdk` and `server/vendor`, the engine's SDK and vendored libraries, have 2.7
million of its 2.8 million lines, and of the 67,000 in `server/src` 24,000 are generated
map overviews and most others the inherited game modes and engine glue of CS2Fixes.
A share of the whole says little; the table of components says what of NEO ADMIN's own
code is covered.

Left out for good: byte layouts, HMAC and parsing (pure
conversions, compared on both sides by `tests/protocol_selftest.py`; a datagram
that does not authenticate is one of the inputs), the engine's entities, menus,
detours and game modes, forms and audio of the clients, generated map overviews
and vendored code. `PROJECT.json` lists them with their reasons.
