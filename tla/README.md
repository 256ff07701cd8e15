# A verification project for jh-server

TLA+ modules, TLC configurations and TLAPS proofs for jh-server, a game server
in C++: an HTTP gateway with an encrypted API, MySQL, Redis, files under
`data/`, and a TCP push hub. Paths below are relative to the repository
(`src/push_hub.cpp` and so on); line numbers are those of the commit the
modules were written from.

## 1. Inventory

`main` starts everything in a fixed order (database, storage, save keys, mail
with its scheduler thread, update, lunjian, auth, push hub), runs
`gateway::serve` and, when that returns, `push_hub::stop`. There are no signal
handlers: an ordinary restart of the service is a crash for every component.

| Component (source) | State | Operations | Talks to | Hard parts |
|---|---|---|---|---|
| Push hub: connections (`push_hub.cpp`) | `by_acc`, `active`, one `Conn` per TCP connection (socket, account, `closed`, map, nick), descriptors | accept, auth, ping, presence, wave, wave_ack, push, broadcast, stop | sessions (auth frame), admin API (push) | one thread per connection; any thread closes any connection; descriptor numbers are reused |
| Push hub: waves | `pending_waves`: id to sender and target | `handle_wave`, `handle_wave_ack` | connections of two players | ids chosen by clients; ack races route; sweep of old routes |
| Push hub: maps | `Conn::map`, coordinates | `handle_presence`, `notify_map` | every connection on a map | lists built under the lock, sent outside it |
| Sessions and accounts (`session.cpp`, `auth.cpp`, `db.cpp`, `cache.hpp`) | tables `accounts`, `sessions`; `g_session_cache` (200000 entries, TTL) | login (which registers), change password, reset, delete account, validate | handlers, admin API, hub | check and use in separate statements; cache against table; failures half way |
| Database access (`db.cpp`) | pool of two connections, `t_dbc` per thread | guards, queries, schema, import, admin | everybody | nested guards, reconnects |
| Mail (`mail.cpp`, `redis.cpp`) | Redis: one mail per player and area, one global mail per channel, indexes, timed tasks; client pool of two | send, list, detail, remove, schedule, cancel; scheduler thread | handlers (`getInitData`), admin API | two commands per operation; retries without knowing; crash between commands |
| Cloud saves (`storage.cpp`) | files blob + meta per account and area; account cache; BL-force file | save, load, meta, mark download, delete | handlers, admin | blob and meta are separate; check, load, mark are separate |
| Game handlers (`handlers.cpp`) | 30 s caches of init data | `dispatch` and its handlers | all of the above | caches of different ages put together |
| Lunjian (`lunjian.cpp`, `lunjian_pool.cpp`) | tables of fighters, weekly pool, versions | top, pool, set, upload, find, end | db | week rollover, rebuilds, repeated results (one lock) |
| Update (`update.cpp`) | `manifest.json`, files, document cache, nonces | admin saves, uploads, client queries | handlers, gateway | read-modify-write across the lock |
| Gateway (`gateway.cpp`, `httplib.h`) | connections held per peer, light and slow pool | admit, release, hand off, route | all HTTP | release must undo admit; full queues |
| Admin API (`admin.cpp`) | none of its own | some thirty routes | all | sequences of calls that are not atomic |
| `save_blob`, `save_crypto`, `crypto`, `config`, `static_nss` | a key override file | conversions, start-up | saves, handlers | none concurrent |

What makes each of them correct:

* **Hub.** A descriptor is closed once and by one thread; `by_acc` holds one
  live connection per account and no dead one; `active` counts threads exactly
  and bounds them (the comment at `push_hub.cpp:176`: exceeding `TasksMax` ends
  the whole process); a superseded connection ends; a push returns and goes to
  the account it names; all unless a peer that does not read holds up a send.
* **Waves.** `wave_ok` means that the named player's client acknowledged this
  wave, is sent once, and is never sent besides a `wave_fail`.
* **Sessions.** A cached token has a row; a row was granted on the account's
  present password; validation names the right account and refuses no valid
  token; the exceptions are known and small.
* **Mail.** A timed task becomes mail once, or is cancelled, and a confirmed
  cancellation holds; it is lost only in known ways.
* **Saves.** A download brings the save last written, whole; the meta
  describes the blob beside it; only deleted accounts leave saves behind (their
  deletion removes none, see `save_deleted`); the mark of the weekly download
  is not lost; a
  forced account's saves are marked as the list in the file says; the cached
  account is the one in the table.
* **Lunjian.** The week's pool is a fair draw and every answer is from the
  asked week's; teams and fight data are in order and agree, over pools that
  change; attempts, points and the ladder of opponents add up through errors
  half way; a client that is told its list is current has the present one.
* **Update.** Memory and disk have one manifest and saved changes stay in it;
  clients download what it announces; a version number names one document;
  a client with the present version has the activities of the manifest, and
  clients come to have the newest.
* **Gateway.** A peer has no more connections than the limit and gets every
  place back; who was admitted is served.

## 2. Plan

The modules in the order in which they were written, the most important
behaviour first. All of them exist; what is left is in the last column.

| Module | Models | Proved in | Left |
|---|---|---|---|
| `PushHub` | connections, threads, descriptors, stop | `PushHub_proofs` | an abstract `Online` (per account: offline, or one live connection) |
| `PushWave` | waves and acks | `PushWave_proofs` | |
| `Session` | accounts, passwords, sessions, cache | `Players_proofs` | |
| `MailSchedule`, `TaskLife` | timed tasks, global mail, retries; what is promised of a task | `Mail_proofs` | |
| `RedisClient`, `RedisCall` | the pool and the two attempts; what a caller is promised | `Mail_proofs` | |
| `PushMap` | presence and the lists clients see | `PushMap_proofs`, `Players_proofs` | |
| `MailIndex` | personal mail and `MAIL_SET` | `Mail_proofs` | |
| `CloudSave` | blob, meta, cooldown, deletion | `Storage_proofs` | an abstract save as one atomic value |
| `BlForce` | the list of forced accounts and its file | `Storage_proofs` | |
| `AccountCache` | the account cache over its table | `Storage_proofs` | |
| `InitData` | caches of versions and contents | `Serving_proofs` | |
| `Manifest` | administrators, manifest, documents | `Serving_proofs` | |
| `Gateway` | admission, release, the two pools | `Serving_proofs` | |
| `LunjianPool`, `LunjianTeam`, `LunjianBoard` | weekly draw, teams, ranking | `Arena_proofs` | |

Components that share no state stand side by side in a module that has their
constants, their variables and the properties the runs check: `Players`
(`PushWave`, two instances of `PushMap`, `Session`), `Mail` (`MailSchedule`,
`MailIndex`, `RedisClient`), `Storage` (`CloudSave`, `BlForce`, `AccountCache`),
`Serving` (`Manifest`, `InitData`, `Gateway`) and `Arena` (`LunjianBoard`,
`LunjianPool`, `LunjianTeam`). The variable `part` says which of them moves in a
behaviour. `MCPlayers`, `MCMail`, `MCSaves`, `MCUpdate` and `MCArena` add what
only TLC needs: values, symmetry and views. The theorems are about the composing
modules, with their constants left open.

Compositions that would be worth having: `PushHub` with `Session` at the auth
frame, `CloudSave` with `AccountCache` at the deletion of an account,
`Manifest` with `InitData` (which has a small manifest of its own now).

## 3. The modules

### `PushHub` (`src/push_hub.cpp`)

One action per step that other threads can see. `acceptPc`/`incoming` is
`accept_loop`; `pc[c]` is the handler thread of connection `c`, from `loop`
(the `while`) over `read`, `auth`, `register`, `evict`, `reply` to `leave`
(`unregister_conn`), `shut` (`close`), `dec` (`active.fetch_sub`) and `done`;
`stopPc` is `stop()`. The regions under `g_hub.mu` (`Register`, `Unregister`,
`StopSnapshot`, the look-ups) are single steps. `Conn::close()` is three
steps of whichever thread runs it (`closeStep`, `victim`): `CloseExchange`,
`CloseFd`, `CloseClear`. `send_frame` is two: `EvalSock` evaluates the
argument `conn->sock`, the write follows, to whatever the number names by
then. `file` is the process's table of descriptors: `CloseFd` frees a number,
`AcceptConn` takes any free one. A `Conn` and its TCP connection share a name,
so `file[sock[c]] = c` says that the number is still this connection's.

`send()` has no timeout (`push_hub.cpp:127`; only reads have one, 214) and is
called under the target's `write_mu`. `Stalled` are the connections whose peer
stops reading at some time; `Held(t)` says that `t` is at a send to one of them
that is still open, or waits for the `write_mu` that such a send keeps. Nothing
is owed to a thread while it is held, so the liveness properties name it: a
thread's duty is done, or it stays held from some time on. A send to a
connection that somebody shuts down returns.

Abstracted: the contents of frames (a frame is the reply it causes), the time
of idle reads (`ReadEnds` may happen at any time), partial reads and writes (a
send succeeds or fails as a whole). A thread that fails to start is one step,
because nobody else knows its connection. An uncaught exception in a handler
(`HandlerThrows`) ends the process, as `std::terminate` does; so does the
return of `main` after `stop()` (`Exit`).

### `PushWave` (`src/push_hub.cpp` 399-490)

`handle_wave` in its steps (look-up, route, send, on failure close, erase,
answer) and `handle_wave_ack` in two (take the route, answer the sender), on
connections that register, are superseded and leave. `wave` records the waves
in the order in which the hub reads them and `pending` the number of the wave
an id routes. Clients choose ids freely from `Id`, so ids collide; `NoId` is
the old protocol. A minute's age is a set, `aged`, and the sweep at the head
of the next route removes its members. Acks come from clients that were
delivered the wave, at any later time and possibly again. Descriptor reuse is
`PushHub`'s business and left out here.

### `Session` (`src/session.cpp`, `auth.cpp`, `db.cpp`, `cache.hpp`, parts of `handlers.cpp`, `admin.cpp`, `storage.cpp`)

Each SQL statement and each cache operation is one step of one of several
workers; a request is a path through them. `login`, `register`, `regist` and
`mail` share one path, as in `dispatch`. A password stands for its salted
hash, a token for its MD5. Expiry is a set: row and cache entry of a token
expire together (`session_issue` computes both from one clock), except that
an entry put late expires later (`LateEntryExpires`). `TtlCache::put` evicts
an arbitrary entry when full. `DbError` ends a request at any statement,
`LostAnswer` after a statement that was executed, `Restart` ends all of them.
`NoResult` is a query whose result the client library cannot store
(`db.cpp:503-506`, 175-180): the callers take it for no row, so a valid token
is refused; `unread` names the validations this happened to.
History variables name the exceptions: `excused` tokens are those that a
failed or half-finished revocation, a deletion, or a login overtaken by a
revocation (`stale`) leaves behind. They are computed from the events, never
from the property, and every other token must satisfy the invariants.

### `MailSchedule` (`src/mail.cpp`, `redis.cpp`, `admin.cpp` 561-616, 641-696)

`scheduler_loop` and the administrator's requests for one channel, every
Redis command one step through `Command`, which is `command_unlocked`: the
command is answered, or it is not, in which case it may or may not have been
executed, is tried once more, and after that reported as an error that callers
cannot tell from a false result. `ReadDue` is the ZRANGEBYSCORE that starts a
round. `redis` holds the tasks and the channel's mail. `Throwing` tasks are those whose stored activity list makes
`send_global` throw, which ends in the `catch` that removes the task.
`doubtful` collects tasks with a command whose outcome nobody knows: one that
was not answered and is repeated, or given up.

`MailSchedule` implements `TaskLife` (`KeepsTaskLife`): each task is mapped to
a stage, by where it is stored, in whose hands it is and what became of it.

### `RedisClient` (`src/redis.cpp`)

A thread's call takes a slot (`try`, `other`, `wait` are the three attempts of
`hold`), connects if there is no socket, sets the connection up, sends, reads.
`inbox` and `outbox` are what is under way on each connection: the server may
run a command late, the reply may be late or never come, and a connection may
break at any moment. Whatever fails closes the connection and uses up one of
two attempts. AUTH and SELECT are one exchange. `RedisCall` is the promise:
a command is run at most twice, is answered only after it was run, and a failed
one may or may not have been run; `KeepsPromise` is that refinement. The
modules above the client take a command to be run at its attempt, and not
after the call has returned; `stage` and `ran` show that it may be.

### `MailIndex` (`src/mail.cpp`, `admin.cpp`)

One player's mail (a key with a time to live) and its entry in `MAIL_SET`.
`send` and `remove` are the commands they issue, one step each, with lost
replies, repeats and restarts; time is a small counter; the cleaning of the
index is part of sending, as in the code. `GiveUp` is what the callers make of
a command that failed twice: `send` goes on after the cleaning (291), `remove`
goes on to the index entry after an unanswered GET, which it takes for an
expired mail (442), and after an unanswered DEL (446); the rest ends the
request. So a live mail may lose its entry, as it may when it is sent while an
older one is being removed (447): `alone` says that nothing of either kind has
happened to the mail since it was sent. Index values that cannot be parsed are never written by
this code and left out.

### `PushMap` (`src/push_hub.cpp` 492-569, 331-398)

`handle_presence` and the farewell of a leaving connection call `notify_map`,
which takes the list and its receivers under the lock and writes it to one
after the other: `list[c]` is the snapshot a thread holds. A list may not be
sent at all (`Unsent`): `send_frame` refuses a body above 64 KiB
(`push_hub.cpp:118`), as a crowded map's can be, or the send fails, and
`notify_map` goes on either way (362-366). `before` says of two lists which was
taken first, and `behind` is the set of clients that a newer list went past: an
older one was written after it, or it was not sent. A position is the number of frames read so far. Nick names are
left out (one that is cut within a UTF-8 character, `push_hub.cpp:378`, makes
the dump throw, which is `HandlerThrows` of `PushHub`).

### `CloudSave` (`src/storage.cpp`, `handlers.cpp`, `admin.cpp`)

Blob and meta file of each account (one area), the stripe locks, the account
rows. An upload is the account's row, the lock, truncation, writing, the new
meta, its renaming; a download is load, mark (written in place). The deletion of
an account removes its row and no file: `delete_account` means to remove the
saves by name, but compares the path of a save with the bare names of files
(`storage.cpp:510-516`), which never agree. The next account of the name finds
the saves (`save_deleted`); `gone` names the deleted accounts. `delete_save`,
the administrator's other request, removes both files. A failed write or a
crash may come between any two steps. `torn`, `unmarked`, `over` name the
windows the code leaves. The check of the cooldown and its mark are separate calls
(`handlers.cpp:707`): two downloads at once pass one check, which
`CooldownKept` excuses as `over`. Not in the model: an error of the database in
`ensure_account` (nothing has been changed yet).

### `BlForce` (`src/storage.cpp` 79-240, `admin.cpp`, `handlers.cpp` 640-700)

The file, the copy in memory with the time it was read at, the operator who
replaces the file by hand, the route that changes it and then rewrites the
account's saves, and uploads and downloads that mark by the list. A write that
failed stays in memory (`storage.cpp:101`); an upload that had looked at the
list before the route leaves an unmarked save (`handlers.cpp:660`): both are
named. The file is taken to exist, and replacing it to be atomic (a half
written one would be read as empty, line 79).

### `AccountCache` (`src/storage.cpp` 150-226, 495-520, `db.cpp`)

`ensure_account`, `set_bl_exempt` and `delete_account` in their statements and
cache operations. The cached id matters for `mtt` of `getInitData`
(`handlers.cpp:559`); the exemption is written but read by nobody at run time.

### `LunjianPool` (`src/lunjian_pool.cpp`, `lunjian.cpp`)

The draw as a set of possible outcomes, computed from the catalogue as the
code does; weeks as arithmetic on a clock that counts sixths of a day, with the
shift to four o'clock; the fixed week of the pin file and the pool in memory,
which is redrawn when the week's number changes. `drawn` remembers that one
catalogue and week give one pool (the seed is the week's number). The end of a
fixed week is not moved on (`lunjian.cpp:481`), which the property excepts.

### `LunjianTeam` (`src/lunjian.cpp`)

One player's loadout and fight data over pools that change at restarts:
`handle_set`, the upload, `ensure_loadout_kungfu`, `repair_fighter_loadout`,
`fight_blob_for_rebuild` and what opponents are sent. The numbers of the fight
data are left out. `sent` is the fight data the last step sent to a client, if it
sent any. Fight data of which nothing is in the pool any more is sent as it is
(`lunjian.cpp:1265`). A row of an older version may name members the
pool has lost: a visit drops them, but saves the row only if an art or the fight
data changes with it (1311), so that the fight data can be that of a shorter team
than the stored one (`BlobFollowsLoadout`). Such rows name nobody twice: no
handler writes one that does, and the one repair of them (1296) is in `Cleaned`.

### `LunjianBoard` (`src/lunjian.cpp`)

The rows of players and NPCs per week, attempts per day, scores, and the
version by which clients keep a list. Requests are serial under the one lock;
each is a sequence of statements that may fail, executed or not, and a restart
may come between. `client` holds what each client was last sent for the current
version. Strength and teams are not covered by `TopCurrent`, for `handle_set`
does not raise the version; a repeated result counts again (1701), so
`ScoresKept` is about points, not matches; a match over four o'clock may give
one attempt more; an interrupted rebuild of the NPCs may leave two on one step
(`broken`), and a failure of it at the start leaves the arena off until the
next restart (1779). `repair_human_identities` and the choice of an opponent by
score are abstracted.

### `Manifest` (`src/update.cpp`)

Administrators' handlers take a copy of the manifest, change a field, save it;
only single calls are under the lock. A save is `RenameManifest` and, under the
same lock, `SyncFiles` (the download file, the memory). Every file can fail:

* the first `get_manifest` after a start (`LoadManifest`), a document upload or
  the start itself takes a manifest that cannot be read for an empty one (386),
  caches it, and the next edit saves it: `unread`, `over` and `slip` follow how
  far that went;
* a rename that fails removes its target before it is tried again
  (`RemoveManifest`, 498; `RemoveDoc`, 164), so that there may be no file:
  `there`, `lost`;
* the download file and an uploaded json file are written without a look at the
  result (467, 508): `CutOff`;
* the served APK is replaced before the manifest is copied and saved
  (`ReceiveApk`, 651), and its request may be refused (`RefuseApk`) or its save
  fail unseen (1025); the old one may go and the new one not come (`LoseApk`).

`apart` names the fields whose file may not be the manifest's, `reused` says
that documents' numbers may have gone back. `apk` stands for `apk_file` and
`program_version` together: the number is what the administrator's page sends or
one more than the manifest's (1014), so two APKs may share one, and no property
says they do not. `Edit` of `apk` is a change of either by hand (955).

Not in the model: json files and APKs under a second name, which a later edit
could switch to; the temporary file that two uploads share (616); what only a
start of an older installation does (moving a reference APK, making a missing
`1.json`).

### `InitData` (`src/handlers.cpp` 440-570)

One request of `getInitData` reads repairs, mail, version and activities one
after the other, all but the mail through caches of thirty seconds whose entries
are loaded and put in separate steps, so that an old value may be put after a
new one. The version is the largest of one, the manifest's second and every
`repairVer` of the repairs as cached (504-514); of the repairs the model keeps
the largest `repairVer`, which the administrator writes and which need not be
near the time. With one above the second, a change of the activities alone does
not move the version; `twice` says that the present version is a number there
was before, and `LoadedIsCurrent` excepts it. Clients compare the version as
the client page does. `loaded` says that a client's activities were loaded for
its request: with activities from an older entry of the cache, or from mail, it
keeps them under the new version, which `LoadedIsCurrent` does not claim away.
A restart may find the manifest unreadable and serve an empty one. A client may
also be given the newest version with older repairs; the property is about
activities.

### `Gateway` (`src/gateway.cpp`, the accept loop of `httplib.h`)

`at` is where a connection is: in the light queue, on a light thread, handed to
the slow queue, served, closed. `held` is the table of counts under the name
that `getpeername` gives, which a reset changes to `"?"`. Banned peers and
overload are turned away as in the code. The keep-alive loop inside a worker
and the routing are abstracted to "served".

## 4. Runs

The runs of components that share no state are grouped: their composing module
lets one of them move in a behaviour (`part`), so the state space is the sum of
theirs, not the product. A property named in a run is
often the conjunction of several that the component states, explains and
comments one by one; the table gives the parts.

| Run | Instance | Properties (their parts) |
|---|---|---|
| `hub_safety` | 3 connections, 2 accounts, 2 descriptor numbers, 1 pusher, at most 2 threads, symmetry | `Descriptors` (`OpenConnOwnsFd`, `NoFdLeak`), `Registry` (`RegistryEntry`, `OneConnPerAccount`), `ThreadCount` (`CounterExact`, `ThreadsBounded`), `OpenTargetGetsFrame` |
| `hub_liveness` | 2 connections, 1 account, 2 numbers, 1 pusher, one peer that stops reading, fairness | `ConnectionsEnd` (`SupersededEnds`, `ClosedGoesOffline`), `PushReturns` |
| `hub_fd_reuse` | 2 connections, 2 accounts | violation: a push written to another account |
| `players_safety` | waves: 3 connections (2 of one account), 2 ids and no id, 2 waves, 1 repeated ack; maps: the same with 2 moves, or one connection of each account with 3 moves, 2 maps; sessions: 1 account, 2 tokens, 3 passwords (1 too short), 2 workers, cache of 1, 1 fault | `OkIsTrue` (`OkWasAcked`, `OkOnce`), `AnswersAgree`, `RouteReady`; `MapViews` (`QuietViews`, `ListsNameReceiver`); `CacheFollowsRows`, `RowsFollowPassword`, `ValidateAnswers` |
| `mail_safety` | 2 tasks (1 throwing), 1 administrator, 2 lost replies, 1 crash; index: 2 threads, 3 requests, 3 moments, mail valid for one, 2 lost replies, 1 crash; client: 3 threads, 2 sockets, 3 calls | `TasksKept` (`SentOnce`, `TaskConserved`), `CancelHolds`, `KeepsTaskLife`; `IndexHolds` (`ValidIsListed`, `RemovedIsGone`); `Replies` (`ReplyIsOwn`, `AfterSetup`), `HolderWorks`, `KeepsPromise` |
| `mail_restart` | 1 task, 1 crash | violation: a restart loses a task |
| `save_safety` | 2 accounts, 2 threads; saves: 3 requests, 2 moments a week apart, 1 failed write, 1 crash; list: 1 edit by hand, 1 failed write, 1 crash; ids: 3 ids, 1 fault, 1 crash | `SaveIsTheLast`, `SavesInOrder` (`MetaDescribesSave`, `NoOrphans`), `CooldownKept`; `ListHolds` (`ChangesStay`, `ForcedIsMarked`, `MarkFollowsFile`); `CacheFollowsRow` |
| `save_deleted` | the same | violation: a deleted account's saves stay, and the next account of the name is given them |
| `arena_safety` | pool: two catalogues, of 5 persons and 6 items and of 2 and 4, with grades that run out, ends of three weeks, 2 starts; teams: 3 characters, 3 pools, 5 old rows (one with an art for one member only), 2 restarts; board: 1 player over 3 days and a change of week, or 2 players on one day, 2 NPCs, 2 results, 1 failed statement, 1 restart | `PoolOfWeek` (`DrawIsFair`, `AnswerOfTheWeek`); `TeamsInOrder` (`OwnTeamInOrder`, `BlobFollowsLoadout`), `SentHasSkills`; `TopCurrent`, `Ladder` (`MatchesBounded`, `ScoresKept`, `NpcLadder`) |
| `update_safety` | 2 administrators, 3 requests, 2 faults, 1 crash; 1 client, 2 changes, 2 moments, `repairVer` up to 3, 1 lost answer or restart; 4 connections of 2 peers, limit 2, 1 light and 1 slow thread | `ManifestKept` (`CacheIsDisk`, `ChangesKept`), `Announced` (`DownloadFollows`, `DocAsAnnounced`, `ApkAsAnnounced`), `VersionNamesOne`; `LoadedIsCurrent`; `PlacesCounted` (`PeerBounded`, `NoResetNoLeak`) |
| `gateway_leak` | the same | violation: a reset leaves a peer's count raised |
| `liveness` | waves: 2 connections, 1 id and no id, 2 waves; maps: 2 connections, 1 map, 2 moves; mail: 2 tasks, no faults; init data: 1 client, 1 change, 2 moments, `repairVer` up to 2, no answer lost; gateway: 3 connections, one of a banned peer | `WaveConfirmed`, `GhostsLeave`, `DueIsSent`, `VersionArrives`, `AdmittedIsServed` |

Each part includes its module's `TypeOK`. Every property was seen to fail with
one definition of the model replaced by a faulty one: the operators under
"Faulty variants", or marked "Faulty:", in the modules.

Why the bounds are enough. The hub's races are between a closing thread, a
thread that holds an old descriptor number and an accept that reuses it: three
connections, of which two share an account, and fewer numbers than
connections make every one of them happen; the proofs remove the bound. Two
waves are needed for a collision of ids, two connections of one account for
an answer on another connection than the one written to. A list is overtaken by
another when two threads notify one map: two moves and a third connection as
the receiver, or three moves of two. Two workers and one account make every
pair of requests meet; the cache of one entry forces evictions. Two lost
replies make one command fail for good, or repeat two. Three
threads for two connections to Redis make one wait. Two requests that write and
one that reads are what every race on a save, the list or the manifest takes.
The second fault of `Manifest` lets both tries of a rename fail, or a save after
an unread manifest. Grades run
out in a catalogue with fewer items than a draw takes. One failed statement and
one restart reach every window, because none of the named ones takes two.
Counters that would grow are bounded in the guards by constants named `Max...`
(and `LastDay`, the last day of a board; `TokensLeft`, fresh tokens run out).

`players_safety` has a `VIEW` that leaves out what no later step and no property
reads: the arguments of a request that has returned. States that differ in
nothing else behave alike. That of `arena_safety` leaves out what the board stores of weeks gone by:
every request is about the week of the pool, which never goes back, so these
rows are neither read nor written again, and the properties that speak of every
week were checked of them before the week changed. That of `mail_safety` leaves out
what a thread between two tasks last worked on, which mail the channel has (no
step asks but whether there is one), and how often a task with a `doubtful`
command was sent. That of `save_safety` leaves out the clock and the download
marks once no download can be served any more, and the last save of an account
whose save is half done: the next one to complete, or a deletion, decides it
anew.

`CHECK_DEADLOCK FALSE` is set where the system may stop, or the bounds let it:
the process of the hub ends; waves, moves, requests and time of the others are
finite. `mail_restart` checks it.

Fairness. `PushHub`: weak fairness of each thread's own steps, the scheduler's
promise, while it is not `Held`; `ReadEnds` is owed only to closed connections,
because `read_exact` looks at `closed` every second and clients may talk for
ever; `HandlerThrows` and the end of the process are owed to nobody. That a
send returns is owed only where the peer reads: the properties of the hub, of
waves and of maps except a thread that stays `Held`. Each run has a peer that
stops reading, or (waves, maps) lets any peer stop.
`PushWave`: weak fairness of handler steps, and strong fairness of an ack, as
the receiving client answers each wave it gets while connected (strong, since
the handler is repeatedly busy with other frames). `PushMap`: weak fairness of
each handler's own steps, and of leaving once a connection is closed.
`MailSchedule`: weak fairness of the scheduler thread. `InitData`: the client
asks again and its request runs; a cache entry expires after thirty seconds,
whatever was put into it. `Gateway`: the accept loop and both pools of threads
run, and a transfer ends. `MCLive` states each of them for the part that moves.

### What disagrees with the repository's own words

* `hub_fd_reuse`: `push_hub.hpp:31` promises that `push_to_acc` pushes to the
  named account and returns true on success. `push_hub.cpp:733` reads
  `conn->sock` and sends without protection against `close()` in another
  thread; in the run's behaviour the number is closed and accepted again for
  another account in between, and that account gets the frame.
* `mail_restart`: `README.md:104` says that a restart does not lose timed
  tasks. `mail.cpp:229` removes the task before line 232 writes its mail.
* `save_deleted`: `README.md:76` says that an account is deleted with its saves.
  `storage.cpp:510-512` takes the prefix of the files to remove from the path of
  a save, `<data>/saves/<acc>_`, and 516 looks for it at the head of a bare file
  name: nothing is removed, and the next account of that name is given the saves.
* `gateway_leak`: `gateway.cpp:212` speaks of the connections a peer holds at
  the same time. `release` (262) asks the socket for the peer's name again;
  after a reset it gets none, lowers another count and leaves the peer's raised,
  for good.

## 5. Proofs

Each theorem is proved with TLAPS for every value of the constants that the
named assumption of its module allows. TLC checked each inductive invariant on
an instance before it was proved, and evaluates the assumptions on every run.

| Module | Theorems | Assumptions |
|---|---|---|
| `PushHub_proofs` | `HubInvariant`, type, each invariant of `hub_safety` | `HubAssumption` |
| `PushWave_proofs` | `WaveInvariant`, `OkIsTrue`, `AnswersAgree`, `RouteReady` | `WaveAssumption` |
| `PushMap_proofs` | `MapInvariant`, `MapViews` | `MapAssumption` |
| `Players_proofs` | `LoginsInvariant`, `CacheFollowsRows`, `RowsFollowPassword`, `ValidateAnswers`; `MapViews` of both instances | `SessionAssumption`, `MapAssumption` |
| `Mail_proofs` | `MailInvariant`, `TasksKept`, `CancelHolds`; the refinement `KeepsTaskLife`; `MailsInvariant`, `IndexHolds`, `Replies`, `HolderWorks`; the refinement `KeepsPromise` | `MailAssumption`, `IndexAssumption`, `RedisAssumption` |
| `Storage_proofs` | `StorageInvariant`, `SaveIsTheLast`, `SavesInOrder`, `ListHolds`, `CacheFollowsRow`; the action property `CooldownKept` | `SaveAssumption`, `BlForceAssumption`, `AccountAssumption` |
| `Serving_proofs` | `ServingInvariant`, `ManifestKept`, `Announced`, `VersionNamesOne`, `LoadedIsCurrent`, `PlacesCounted` | `ManifestAssumption`, `InitDataAssumption`, `GatewayAssumption` |
| `Arena_proofs` | `BoardInvariant`, `TopCurrent`, `Ladder`; `PoolInvariant`, `PoolOfWeek`; `TeamInvariant`, `TeamsInOrder`, `SentHasSkills` | `BoardAssumption`, `PoolAssumption`, `TeamAssumption` |

The assumptions say of what kind the constants are, that `None` and the other
names that stand for nothing are none of the things named, that bounds are
natural numbers, and where a time-out, a limit or a week is positive, as in the
code. `PeersAssumption` (peers that stop reading are peers) is only for the
fairness of `PushHub`; no proof uses it. Those of the arena say more. `PoolAssumption`: a catalogue is finite, no
category of it is empty (`lunjian_pool.cpp:245` refuses one), and the clock is
past the first week of 1970. `TeamAssumption`: a pool has each art once (the draw
takes no item twice, which `DrawIsFair` shows) and a skill for each of the
`kMaxTeam` members (5: the draw takes up to 14 of the lowest grade, and the
shipped `data/doc.json` has 8 of it; a catalogue with fewer than 5 would not do);
old rows have at most `kMaxTeam` members, none twice.

`PushHub_proofs` proves with TLAPS, for every finite set of connections and
any sets of accounts, descriptor numbers and pushing threads, that `IInv` and
`FdsHeld` are invariants of `PushHub`, and from them each safety invariant
that `hub_safety` checks, one by one and in the conjunctions the run names
(`HubDescriptors`, `HubRegistryKept`, `HubThreadCount`, `HubTargetGetsFrame`). The one assumption is `HubAssumption`: the limit is
a positive number, `Conn` is finite (its cardinality is counted), threads of
different kinds are different, `None` is none of the rest.

No invariant of the list is inductive alone. `OpenConnOwnsFd` is broken by a
thread about to free a descriptor, unless that thread's victim is already
marked closed and no other thread is in the same place: `ClosersApart` says
both, and holds because `exchange` lets one caller through. `IncomingPrivate`
says that nobody but the accept thread knows a connection before its handler
runs, which is why the accept thread may close it without the exchange.
`Busy` says that a handler which closes does not register or leave meanwhile,
so that `RegistryEntry` and `OneConnPerAccount` survive `Unregister`.
`CounterExact` and `active <= MaxConns` give `ThreadsBounded`. `FdsHeld` is
the converse of `OpenConnOwnsFd` (each descriptor in use belongs to its
connection) and gives `NoFdLeak`.

The module has one lemma for each conjunct (`TypeStep`, `IncomingStep`,
`ClosersStep`, `BusyStep`, `FdStep`, `TargetStep`, `RegistryStep`,
`OneConnStep`, `CountStep`, `HeldStep`), each with one step per action of
`Next`; `InitInv` and `NextInv` put them together and `HubInvariant` closes
the induction.

`PushWave_proofs` does the same for the waves, for any sets of connections,
accounts and ids, any number of waves and of repeated acks, assuming only that
every connection has an account, that the empty id is an id, and that `None` is
neither a connection nor an account (`WaveAssumption`). `OkOnce` needs
`OneConfirms`: a route in `pending_waves` belongs to a wave that nobody has
confirmed or is about to, and a wave that is still being looked up has none.
`OkWasAcked` needs `AckedWasDelivered`, and `AnswersAgree` needs it together
with `FailsUndelivered`: a sender that goes on to `wave_fail` has not
delivered the wave. `RouteReady` is the weaker half of `RouteKept`, which
starts at the moment the route is entered. `InHand` (a thread at work has a
wave in hand, a sender its own, and two senders never the same) carries all of
them over the steps of other threads. There is a lemma per conjunct again
(`TypeStep` to `OnceStep`), and `WaveInvariant` closes the induction;
`WaveOkIsTrue`, `WaveAnswersAgree` and `WaveRouteReady` are what the run checks.

`PushMap_proofs`: `MapViews` speaks of quiet states only, so the invariant must
say what makes it true in the end. `Current`: a list is due (a thread still has
the map to notify, or a player has left it and not said so), or the newest list
under way to a player, after the last one the list it has, is right. For that
the lists under way are in an order (`InOrder`), and a thread that was overtaken
at a receiver was so with all older ones. `SnapshotCurrent` and `WriteNews` are
the two steps that use it; every other step either changes no list or makes it
due.

`Players_proofs`: the exceptions of `CacheFollowsRows` and `RowsFollowPassword`
are computed from events, so the invariant has to connect them with what is in
hand: a token about to be put in the cache has not ended, or is excused, or a
revocation has yet to clear (`InHandFollows`); a session about to be issued is
on the present password, or its login was overtaken, or a revocation has yet to
delete the rows (`GrantFollows`). `Tokens` and `Requests` say which rows, cache
entries and arguments there can be at each step.

`Mail_proofs`, the schedule: a task that is stored, or in the scheduler's hands, waits
(`StoredWaits`, `TakenWaits`): it was accepted, is not cancelled and not sent,
unless the outcome of one of its commands is unknown. From this `SentOnce`,
`CancelHolds` and `TaskConserved` follow, and with `StepMovesOne` (no step moves
two tasks) and `OneMoveIsLife` that every step is a step of `TaskLife`.

The index: a mail's number is new when it is sent (`MailSentOnce`), and who
sends or removes alone keeps the entry at least as long as the mail
(`MailAlone`). For the client: who holds a connection holds it alone, what is
under way on it is at most one command and that of the holder, and a closed
connection carries no reply (`OneUnderWay`, `OfHolder`); a command was run, or
can still be run, at most as often as it was tried (`Twice`), which gives the
steps of `RedisCall`.

`Storage_proofs`: `Goods` says that blob and meta hold the save last written
where no thread is between two of its writes and nothing was left half done;
`Hands` and `Marking` what a thread in between has in hand, which will make it
so again, `UnderLock` what it has done to the files so far, and `Owners` that it
holds the lock meanwhile. `SavesInOrder` says of saves without an account that
the account was deleted: nothing else leaves any. `Marks` and
`MarksInHand` follow the mark of the last download through the files and the
threads that rewrite it, and `Intervals` gives `CooldownKept`. For the list:
times agree only where the accounts do (`TimesTell`), what is about to be
written changes one account (`OneChange`), and a save that is not marked has
somebody who will mark it, with no upload to undo that (`Marked`, `NoPlain`).
For the cache: a request about to put a row has the present one, or was passed
(`ReadersFollow`).

`Serving_proofs`, the manifest: a handler's copy differs from the manifest the
administrators know in its own field only, or the handler is `over` or the rest
is in `slip` (`FreshCopies`), which is why saving it loses nothing; what was
renamed is on the disk (`RenamedCopies`), and the document was written before
(`DocumentCopies`). "The manifest the administrators know" is the disk's, or
memory's while a failed rename has left no file (`Current`, `StaysSomewhere`).
`MemoryFollows` says when memory has the disk's, `FilesFollow` when the files
are its, `VersionsGrow` that no version clients were told is above the
manifest's, unless `reused`; the lock covers what is between the rename and the
memory (`Holders`). What a client of `getInitData` reads after the version is at
least as new (`ReadIsCurrent`), for every number a version can be is remembered
(`VersionIsOne`). For the gateway, finitely many connections are present and `held` is never below their number; a reset moves a
connection's release to the unknown name and changes no count (`Names`).

`Arena_proofs`, the board: whoever has this week's version has this week's list,
and then nothing is being rebuilt (`ListsCurrent`); `Opponents` and `ToSave` say
that the opponents' steps, had and about to be had, are the whole ladder, unless
a rebuild was interrupted; `Attempts` ties a row's attempts to the day that is
written in it. The pool: a draw is fair by the cardinalities of what may be
taken at each grade; `Kept` says that the pool in memory is a draw of the loaded
catalogue for its week, but for the end of a pinned one, and `AnswerWeek` of
which moment the last answer is. The team: a pool of `kMaxTeam` different skills
has one for everybody by the pigeonhole principle (`Enough`), the second pass of
`ensure_loadout_kungfu` gives each member without an art an unused one and leaves
nobody out while there are any (`FilledShared`), and fight data made of such a
loadout needs no rebuilding (`TidyFight`, `InOrderStays`), which is why another
player's match writes back what was there. "The first unused", "the second
unused" are the elements of a set of places by rank (`NthOf`, `PickOf`), so that
no recursion is needed.

The proof of `TeamOrder` corrected the project twice: `BlobFollowsLoadout` used to
say that the fight data is always that of the loadout, which the row described
under `LunjianTeam` refutes (it is now in the instance TLC checks), and
`fight_blob_for_rebuild` was modelled as keeping a member that old fight data
lists twice, where the code keeps the first (`lunjian.cpp:1208`).

Only model-checked:

* All liveness: the provers here have no rule for fairness and `ENABLED`.
* The four violated properties are false, and are shown by TLC.

No module declares a recursive operator. That a call to Redis returns follows
from `HolderWorks`, the time-outs of the sockets and the two attempts, and is
argued here only, not checked.

## 6. Not modelled, and why

* Cryptography, save blobs and keys, configuration, the NSS shim: conversions
  and start-up without state that steps could disturb. `BlForce` keeps of the
  save conversions the mark they set.
* Vendored libraries, scripts, the client page: not this program's own, or not
  part of the running server.
* The pool of connections to MySQL (`db.cpp`): it has the shape of
  `RedisClient`'s, without repeats; the statements on accounts and sessions
  are in `Session` and `AccountCache`.
* The bytes of a frame: a frame is written whole, which `write_mu` sees to, or
  not at all.
* Listings, statistics, file downloads, routing, keep-alive: they read.
* The memory model below mutexes and atomics (`Conn::sock` is a plain field
  read and written by several threads; the model lets a reader see the old or
  the new value).
