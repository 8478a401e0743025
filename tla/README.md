# TLA+ verification of rsbtd

rsbtd is a BitTorrent daemon: a GraphQL API over a libtorrent session, with
every torrent persisted as a `<uuid>.resume` file and the session's settings in
`session.state`.  This directory holds TLA+ modules translated from its source,
TLC configurations that check them on small instances, and TLAPS proofs about
them.  Paths below are relative to `src/`.

Contents: 1 inventory, 2 modules, 3 runs, 4 proofs, 5 where the code and its own
words differ, 6 what is not modelled, 7 the plan.

## 1. Inventory

### The parts and their state

| part | source | state | operations | module |
|---|---|---|---|---|
| Torrent lifecycle | `rsbtd/src/engine/mod.rs`, `registry.rs` | registry (uuid, token, handle), session id map | `add_torrent`, `unwind_failed_add`, `remove_torrent`, `save_resume_data` | `Engine` |
| In-flight accounting, dirty set | `mod.rs` (`Inflight`, `DirtyResume`) | a counter, a set of uuids | `inc`, `dec`, `wait_zero`; `insert`, `remove`, `snapshot` | `Engine` |
| Alert pump | `pump.rs` | the batch, the operations it collected | `run` (three-armed select), `handle_alert`, `request_save` | `Engine`, `Correlate`, `Streams` |
| Persister | `persist.rs` | bounded queue, the state directory | `run_persister`, `write_atomic` | `Engine`, `SessionState` |
| Sweep | `mod.rs` (`run_sweep`) | none | saves what changed, periodically | `Engine` |
| Shutdown | `mod.rs` (`shutdown_with`, `checkpoint`) | quiesce flag, cancellation token, task handles | quiesce, flush, stop the pump, drain the persister | `Engine`, `SessionState` |
| Session state | `mod.rs` (`apply_settings`, `set_ip_filter`, `checkpoint`) | `session.state`, `session_state_lock` | apply, persist, roll back | `SessionState` |
| Restore | `mod.rs` (`restore`), `client_data.rs` | files of the state directory | load, migrate, quarantine, add | `Restore` |
| Removal with files | `mod.rs`, `pump.rs` | `pending_deletes` | attribute deletion alerts | `Correlate` |
| Correlated requests | `correlate.rs`, `mod.rs` | receivers on the event bus, per-torrent locks | `request`, `request_serialized`, `drain` and the calls built on them | `Correlate` |
| Settings | `rsbtd/src/api/settings/`, `rbtorrent/src/settings/` | the session's settings | `write`, `read`, typed and grouped setters | `SettingsTable`, `Settings` |
| Subscriptions | `rsbtd/src/api/subscription.rs`, `engine/events.rs` | broadcast and watch receivers, `state_interest` | torrent events, changed torrents, job progress | `Streams`, `Jobs` |
| Creation jobs | `jobs.rs` | job map, cancel flags, snapshots, worker threads | `start`, `get`, `list`, `cancel`, `cancel_all`, `join_workers` | `Jobs` |
| HTTP and WebSocket server | `rsbtd/src/api/mod.rs`, `listener.rs` | endpoint, connections, permits, tracker of sockets | accept, upgrade, init, close | `Daemon` |
| Daemon | `rsbtd/src/lib.rs`, `main.rs` | kill tokens, stop channel | start, run, `stop_with` | `Daemon` |
| Pending requests | `rbtorrent/src/alerts/requests.rs` | add futures, handle map, FIFO of statistics requests | `process` on every popped batch | in part `Engine` |
| Windows tray, supervisor | `rsbtd/src/windows/` | restart loop | start, stop, checkpoint | the checkpoint in `SessionState` |
| Clients | `rsbtctl/`, `webui/` | reconnecting WebSocket (web interface) | requests | none |
| libtorrent and its wrappers | `rbtorrent/`, `libctorrent/` | the session | external actions of each module | external |

### How they interact

An API call posts a request to libtorrent and waits for an event.  libtorrent
answers with alerts in one unlimited queue.  The pump pops *all* queued alerts
at once; popping resolves add futures and updates the handle map for the whole
batch before the first alert is handled.  The pump then handles the alerts one
by one, publishes events on a bounded broadcast bus, collects operations for the
persister, and sends these to a bounded queue, which may block it.  The persister
performs them in order and publishes the outcome.  A save crosses all of this:
call, sweep, retry or flush -> libtorrent -> alert -> batch -> operation -> queue ->
disk.  `Inflight` counts the saves that are anywhere on that way; the final flush of
a shutdown waits for it to reach zero.  `DirtyResume` names the torrents whose last
write failed.

Calls with an answer (a move, a rename, a scrape, a piece) listen on the same bus
as the clients' subscriptions; events carry no identity of the request, so calls whose
answers could be confused take a lock per torrent and class.  The session's settings
share the persist queue with the resume data, and a lock of their own from the
snapshot to the answer of the write.  The daemon starts the engine after it bound
its endpoint and stops in the order: requests, WebSockets, engine.

### What is hard here

* The tasks share the registry, the dirty set and the counter and take turns at
  every await point: an add continues while the pump already handles events of
  the same torrent, including its removal.
* A save, a move or a deletion is answered long after it was requested: the torrent
  may be gone, the shutdown may have begun, its caller may have given up, the next
  call may be the one that reads the answer.
* Writes fail, deletes fail, serialization fails, clients disconnect in the
  middle of a call, grace periods expire, the process dies between two renames.
* The persist queue and the bus are bounded: senders wait for each other, readers
  lose events.
* `Inflight::dec` is strict: one release too many aborts the daemon, one too few
  makes each later shutdown wait for its whole grace period.
* Job workers are threads that do not take the lock of the job manager.
* About 300 settings are declared in three tables of the source that must agree, and
  several public fields stand for groups of them.
* WebSocket peers may never initialise, never read, never close.

`PROJECT.json` lists every such hazard at its line, with the properties about it.

### What makes each part correct

* *Lifecycle*: an acknowledged add survives a crash (`AckedAddIsDurable`), a
  removed torrent stays removed (`RemovedStaysRemoved`); in the terms of the files alone,
  `ImplementsStore`.
* *Accounting*: the counter is exact (`InflightExact`), zero means that nothing
  is under way (`ZeroMeansQuiet`), every token comes back (`TokensReturn`).
* *Pump and persister*: no change is forgotten (`NoChangeForgotten`), a removal
  reaches the disk (`RemovalReachesDisk`).
* *Shutdown*: a clean flush is complete (`CleanFlushIsComplete`), a shutdown
  completes without its deadline (`ShutdownCompletes`).
* *Session state*: a failed change left nothing (`FailedChangedNothing`), the final
  snapshot is not overwritten by an older one (`FinalStateKept`), what is
  acknowledged is durable (`ImplementsDurable`).
* *Restore*: no step loses a record (`RecordKept`), the uuid clients know is kept
  (`SameUuid`), nothing is left that would resurrect a removed torrent (`NoStaleFile`,
  `RemovedStaysRemoved`).
* *Correlated requests*: moves and renames of a torrent do not overlap
  (`OneInFlight`), an answer belongs to its call (`OwnAnswer`), it is not missed
  (`AnswerNotMissed`), a removal reported as complete is complete
  (`DeletedMeansGone`), every call returns (`EveryCallReturns`).
* *Settings*: input is read back as sent (`RoundTrip`), what was read is a value a client
  may send and changes nothing when it is sent back, or is refused or taken over as a
  whole where another program wrote it (`WriteBack`), credentials do not outlive their
  protocol (`NoStaleCredentials`).
* *Subscriptions*: no ghosts and none missing (`NoGhosts`), no change lost between
  deltas (`NothingStale`), every change seen in the end (`CaughtUp`).
* *Jobs*: the first terminal state wins, finished jobs have their output and the
  others none, stopping reaches every worker, pruning never drops the handle of a
  worker that still runs (`RunningWorkerIsJoinable`), and a progress stream is never cut
  off before a terminal snapshot.
* *Daemon*: the engine is stopped when nobody uses it any more (`EngineLeftAlone`),
  what a dead process left does not keep the next one from starting
  (`LeftoversNeverBlock`), every stop ends (`StopEnds`), permits return
  (`PermitReturned`).

## 2. The modules

| module | what it is |
|---|---|
| `Engine` | lifecycle, pump, persister, sweep and shutdown, composed in one specification because they share their state |
| `EngineProperties` | the properties of `Engine`, and the inductive invariant `Accounting` |
| `ResumeStore` | abstract: the resume files alone; an acknowledged torrent keeps a file that only gets newer, a removed one does not come back |
| `EngineProofs` | the theorems about `Engine`: types and the in-flight counter, then adds, removals, changes and the final flush, up to the files on disk; `Engine` implements `ResumeStore` |
| `Jobs`, `JobsProperties`, `JobsProofs` | creation jobs and the progress subscription; their properties and inductive invariants `Stoppable` and `Outputs`; their theorems |
| `Correlate` | calls that wait for an answer on the bus, and the removal with files |
| `CorrelateProofs` | the theorems about `Correlate` |
| `DurableState` | abstract: stored state only moves forward, acknowledged state is stored |
| `SessionState` | settings, IP filter and DHT state with `session.state`; implements `DurableState` |
| `SessionStateProofs` | the theorems about `SessionState`, among them the refinement |
| `Restore` | the state directory over several starts |
| `RestoreProofs` | the theorems about `Restore` |
| `SettingsTable` | the three tables of settings: stored settings, setters with domains, public fields |
| `Settings` | writing and reading the public fields, their types, and the merge of a change |
| `SettingsProofs` | the theorems about `Settings` |
| `Streams` | `torrentEvents` and `torrentChanged` on the bus, with the state ticker |
| `StreamsProofs` | the theorems about `Streams` |
| `Daemon` | endpoint, connections, WebSockets, start and staged stop |
| `DaemonProofs` | the theorems about `Daemon` |
| `MC...` | one per component: instances for TLC |

### Engine: correspondence to the code

A torrent `t` of the model stands for one add.  The uuid, the client-data token
and the session id of an add are all fresh, so one identity represents all
three; adding the same torrent twice is two elements of `Torrents`.  Content is
abstracted to a version: the number of changes since the add.  A resume record
is the version it was generated from, so that "is the file up to date" is a
comparison of numbers.

| variables | code |
|---|---|
| `life`, `ver`, `need`, `posted`, `rmPosted` | the torrent in libtorrent, its `need_save_resume_data` flag, the requests posted to it (external) |
| `alerts`, `batch` | libtorrent's alert queue; the batch `next_batch` returned |
| `handles` | the handle map of `rbtorrent` that `find_torrent_by_token` asks |
| `registry`, `dirty`, `inflight`, `queue`, `disk` | `Registry`, `DirtyResume`, `Inflight.count`, the persist channel, the resume files |
| `process` | `fatal` aborts the process; the model records it and goes on |
| `pc`, `ops`, `todo`, `budget` | the pump: where it is in `run`, its `ops` vector, the retry loop |
| `current` | the operation the persister performs |
| `apc`, `addId`, `rpc`, `spc` | the program counters of the add, remove and save calls |
| `sweepTodo`, `sd`, `ckTodo`, `flushed` | the sweep; the phase of the shutdown, its loop and its outcome |
| `token`, `flushVer`, `flushFailed`, `undeleted` | history: where each in-flight token is, what the flush saw, excused failures.  No guard of an action that models code depends on them, except that a save needs a free token, which is the bound on concurrent saves |

One action is the code between two await points or two accesses to state that
others change.  Some choices need a reason:

* *Taking a token and posting* (`PostSave`) is one step.  The increment comes
  first in the code and nobody acts on a counter that is too high by one for a
  moment, except `wait_zero`, which only waits longer.  A refused post
  increments and decrements at once and changes nothing.
* *`PersistWrite`* is one step from the write to the acknowledgement.  Between
  them only the persister itself changes `dirty` entries to dirty, and
  `write_atomic` returns an error only before its rename: the file is replaced
  or untouched.
* *`wait_zero`* creates its `notified` future before it loads the counter, so no
  wake-up is lost; the model enables `FlushEnd` whenever the counter is zero.
* *`request_save`* is two steps: the quiesce flag is read, then the save is
  posted; the shutdown can start in between.
* *`AddDrop`* drops the future of an add at each await point, as the HTTP server
  does when a client disconnects.
* *`LtRemove`, `LtExpire`*: libtorrent announces a removal while handles still
  resolve to the torrent; a moment later they are expired.

The constant `Env` is the set of behaviours of the surroundings that a run
explores (calls, races, drops, timeouts, failing I/O).  The proofs make no
assumption about it where section 4 names none.

`ResumeStore` is the engine as the state directory shows it: for each torrent the version
in its file and a phase.  The mapping is in `EngineProperties`: `stored` is `disk`; a torrent
is *kept* while its add has succeeded (or restored it) and nobody asked for its removal,
*released* from the request of a removal or the failure of its add, and *gone* when
libtorrent has dropped it, its file is deleted and nothing is under way for it
(`Vanished`).  A file left by a failed delete, or by the race of
`MCEngine_failed_add`, is never gone but stays released: the store does not promise
that every delete succeeds.  Its steps are a `Write`, a `Delete`, and `Advance` of
phases; saves, retries, queues, alerts and the flush are stutters.

### Jobs: correspondence to the code

`entries`, `handle`, `seen` are the entries of `JobManager.jobs`; `seen` is
`terminal_seen` with the age abstracted to never, within `JOB_TTL`, longer.
`snap` is the watch channel's snapshot, `cancel` the atomic flags.  Operations of
the manager hold the map lock: those that touch only the map are one step,
`cancel` and `cancel_all` are several steps with `lock` held, because the workers
go on meanwhile: flag, commit, next job.  A worker is `build` (list, hash with
the progress callback) followed by the end of `run_job`: check of the flag,
output, commit, and the discarding of the output when a cancel won.  `sub`,
`last` and `unseen` are a progress stream and its watch receiver.

### Correlate: correspondence to the code

One element of `Calls` is one call of the API; `pc[c]` says at which await it is:
`locking` and `locked` before and after the operation lock, `resolving` while the torrent's
trackers are read for a scrape, `waiting` in the loop over the receiver, `draining`
in the task that keeps the lock after a timeout.  `rx[c]` is the receiver of the bus
with `BusCap` places, `lagged` that it lost something.  `op_locks` is the map of
locks, with the entry dropped when nobody holds a reference.  `pending_deletes` is the
list the pump searches when a deletion alert arrives.  A scrape of a given tracker looks its
torrent up under the lock only, a scrape of the working one (-1) before as well: `Resolve`
allows either.  `PumpRemoved` takes the handle and the registry entry away in one step; the
code takes the handles of a whole batch away when the batch is popped and the entry when
the alert is handled.  In between a call finds its entry and no handle, and returns the error
it returns afterwards.

libtorrent (`session`, `alive`, `pending`, `removing`, `deleting`) answers a request
when it likes, or never, if the torrent is removed meanwhile.  Files of removed
torrents are deleted by one thread in order, and the alert carries hashes, not a uuid,
which is why content added again under a new uuid (`LtAdd`) matters.  The `of` of an
alert is history: the call whose request it answers.

### SessionState and DurableState: correspondence to the code

A value is the stamp of the change that made it: the clock ticks with each change, and
"older" is a comparison.  `wpc` is the await a writer is at: `lock`, `saved` (it holds the
lock, changed the session, took the snapshot), `sending`, `acking`, `acked` or `nacked`,
`failed` (before the rollback).  `held` is what the holder of the lock keeps in locals.
Calls that end in the middle (`Drop`) release the lock wherever they are, their operation
may stay queued: that is the interesting case, and it is why stamps in the queue have
to be ordered with those of the next holder.  `sd` is the shutdown, `closed` when the
queue has no sender any more.  `Crash` loses session and queue, and keeps the file.

`DurableState` knows two functions: the stored and the acknowledged stamp of every part.
The refinement mapping reads `stored` from the file and `acked` from a history variable
that `Return` sets when a call is answered Ok.

### Restore: correspondence to the code

`dir` maps names (uuids and the names older releases used) to records.  `pc` is where
`restore` is between two awaits: `scan` at a directory entry, `splice` (the minted uuid
is written into the record), `rename` (to the canonical name), `add` (posted), `drain` (the adds
are awaited), `up`.  `todo` is what `read_dir` still yields; a renamed file may or may
not be listed again, as POSIX leaves open.  The first start finds at most two files named by
uuids and any of the legacy names; directories with more come about by adds and migrations
in the starts that follow.  Every operation may fail (`Fault`) and the
process may crash between any two (`Crash`), then it starts again with what `dir` holds.
`marred` names the torrents whose file had an operation fail: two records of these can
be left, which the code logs and accepts.

### Settings: correspondence to the code

`SettingsTable` has three tables as the source has: libtorrent's settings
(`table.rs`), the typed setters and what they accept (`net.rs`, `storage.rs`,
`tracker.rs`, ...), and the fields of the public interface (`catalog.rs`,
`structured.rs`, with the blacklist of `mod.rs`).  A scalar field is one setting; a
structured field is written by `write_<field>` to the set of settings `backing` names, and
read by `read_<field>`.  `ApplySettings` validates the whole input, then merges the
staged delta into the session, as `apply_settings` does.  `Schema` is the type a field has in the
GraphQL schema: the values a client can send at all, before any setter sees them.

Strings are abstracted to what a check looks at: a length in bytes, a host to its
brackets and the kind of its text.  `Foreign` are states that a file written by another
program may have loaded; what this API did not write, it need not be able to read
(`Unreadable`).  Such a file holds any value of a setting's type (`Storable`,
`ForeignAssumption`), whatever the setters of this API would say of it.  libtorrent's defaults
are in the table where a check looks at them, the tunnel quantities and lengths of i2p
among them (`I2pDefaults`).

### Streams: correspondence to the code

`updated` is libtorrent's set of torrents changed since its last update, `PostUpdates`
the ticker with its guard on `interest`.  A subscription goes through `checked` (the filter
was looked up), `subscribed` (it has a receiver and its initial interest) and `open` (the client has its
snapshot).  `known` and `seen` are what a client believes that applies everything it is
sent: the properties relate this belief to the registry.  A lagged `torrentEvents`
stream ends, so the client starts again; a lagged `torrentChanged` one asks for all
torrents again.

### Daemon: correspondence to the code

`phase` is where `run` and `stop_with` are; `reqKill` and `wsKill` the cancellation tokens,
`stop` the watch channel, `server` the task that runs `serve`, `closed` the closed tracker
of sockets, `file` what is at the path of the unix socket.  A client slot is a state
machine of one connection, listed at the head of the module.  Deadlines may fire at any
time.  Processes follow one another, after a stop, a failed start or a crash.  `BindFails` is
the operating system refusing to remove the stale socket, to bind it or to set its
permissions; in the last case the socket file stays.  A probe of the socket that neither
connects nor is refused (`listener.rs:90-100`: no permission, a timeout) makes the start fail
as it does for a socket another process serves, and counts as one here.

## 3. The runs

| run | question | instance | about |
|---|---|---|---|
| `life` | does an add or a removal go wrong, or the counter, when calls, pump and persister interleave, calls are dropped, I/O fails and the daemon stops? | 1 torrent, 2 tokens, all failures | `Engine` |
| `flush` | is the final flush complete, no change forgotten, no file replaced by an older one? | 1 torrent, 2 tokens, 2 changes, saves, failing writes | `Engine` |
| `live` | do tokens return, shutdowns end, removals reach the disk? | 1 torrent, 2 tokens, fair scheduling, no timeouts | `Engine` |
| `jobs` | do cancel, completion, pruning, subscription and shutdown of jobs interleave correctly, and does pruning keep what the shutdown must join? | 2 jobs (one with a path, one in memory), 1 subscriber | `Jobs` |
| `jobs_live` | does every job end and every subscriber learn of it? | 1 job, 2 pieces, fair scheduling | `Jobs` |
| `calls` | do two calls read each other's answers, lose their own, or overlap? | 2 calls of every kind that can meet, 2 torrents of one content, bus of 2 places, 1 unsolicited alert; timeouts, drops, shutdown, re-adding | `Correlate` |
| `calls_live` | does every call return and every lock come back? | 2 calls, 1 torrent, fair scheduling; timeouts, drops | `Correlate` |
| `settings` | is what clients write readable, and what they read writable again, also where another program wrote it? | every structured group at the edges of its domain, every scalar at its limits and one beyond, two changes in a row, twenty foreign states | `Settings` |
| `state` | do calls, checkpoints, crashes and restarts lose or reorder snapshots? | 2 calls, both checkpoints, 2 starts, queue of 2, failing writes | `SessionState` |
| `restore` | does a directory survive migration, failures and crashes? | 2 torrents, 4 uuids, 2 legacy names, 3 faults or crashes | `Restore` |
| `streams` | does what clients believe agree with the registry? | 2 subscriptions, 1 torrent, 1 change, bus of 1 place, fair scheduling | `Streams` |
| `daemon` | does a stop end and find the engine unused, are permits returned, can the next process start? | 3 connections, 2 permits, 3 processes, fair scheduling | `Daemon` |

Why these bounds are enough for what the runs ask:

* *Engine.*  The queue has one place, so that every sender meets a full queue; with two
  tokens two saves of one torrent overlap, so that answers, writes and retries overtake
  one another; a third would repeat what the second does.  Two versions distinguish
  "older than what the flush saw" from "older than now".  A second torrent matters only
  for the state torrents share (batch, queue, tokens, loops): `MCEngine_pair.cfg` has it,
  and takes longer than the others.  Each call is made once per torrent; a second call of
  the same kind on the same torrent would be a second waiter of the same event.
  What the safety properties say does not rest on bounds: all of them are proved.
* *Correlate.*  Confusion needs two calls.  A third behind the same lock does add
  something: a dropped caller or a lagged drainer shifts the answers of every later call
  of that lock, not only of the next one, which is why `OneInFlight` and `OwnAnswer`
  except the whole lock (`Disturbed`); any number of calls is what the proof is for.
  Three removals parked at once, two of them of one content, are in `MCCorrelate_swapped.cfg`.  Two torrents share one of
  two hashes, so that attribution by overlap can pick the wrong one.  Two places and one
  unsolicited alert overflow a receiver that is not read, and one that is read in time
  is not.
* *SessionState.*  Two calls and two checkpoints are four writers of one file.  One
  name stands for all settings: the parts are independent in the code.  The proofs cover
  any number of calls, names, places and starts.
* *Restore.*  Two torrents with up to four names have two records of one torrent
  in every order of the directory.  Three faults are enough to fail a splice, crash, and
  fail the removal of the duplicate.
* *Settings.*  The fields stage disjoint settings, so one field at a time and two changes of one group show what
  a combination can.  Numeric domains are checked at both ends and one beyond; the proof is
  for every value and any number of changes.
* *Streams.*  A bus of one place loses something whenever a reader is one event late.
  Two subscriptions are needed for the interest count: one leaves while the other stays.
* *Daemon.*  Two permits and three clients exhaust the semaphore and leave one outside.

The runs do not check for deadlock: a system whose clients do nothing, or that has shut
down, rightly stops.  That nobody waits for ever while there is work is what the
liveness properties say.

### Fairness

* `Engine`: weak fairness of what tokio's scheduler or libtorrent's thread will run: a
  task whose next step stays possible takes it.  Strong fairness where a step competes:
  `PumpPop` shares its select with the retry tick, which is ready at most once per second;
  the senders of a full queue (`PumpSend`, `AddSend`, `AddDelete`, `StateSend`) are served by
  tokio's channel in the order of their waiting; `AddEnqueue` competes for a token only in
  the model.  None of clients, timeouts, dropped calls or torrents that change.
* `Jobs`: workers and streams run; a payload has finitely many pieces.
* `Correlate`: tasks run, timers fire, libtorrent answers.  `AcquireLock` is strongly fair
  because tokio's mutex serves its waiters in order.
* `Streams`: the ticker ticks, the pump and the streams are polled, and a client that
  reads a stream gets the snapshot it asked for.  Nothing makes it stay.
* `Daemon`: `run` proceeds and deadlines pass (`Main`), and so do the runtime's tasks on
  each connection (`Task(c)`).  Nothing is assumed of clients: they may never send,
  never read and never close.  One step is more than the scheduler gives: hyper hands an
  upgraded socket to its callback (`OnUpgrade`) after it has written the 101 response.  A
  peer that does not read could delay that once its receive window is full, which so short a
  response on a new connection does not fill; `PermitReturned` rests on it.

## 4. What is proved

Every safety invariant and action property the runs check is a theorem, for every value of
the constants; what is left to TLC alone is liveness.  Three of `Engine` hold in fewer circumstances than `Env` can
name, two of `Jobs` where no path is used twice, and `DeletedMeansGone` while no more than two
removals are parked at once, as said below.

### `EngineProofs`

For every set of torrents, every finite set of tokens, every queue capacity and every
`Env`:

* `AccountingInvariant`: `Spec => []Accounting`;
* `TypeCorrect`, `CounterNeverUnderflows`, `CounterIsExact`, `QuietAtZero`:
  `TypeOK`, `NeverFatal`, `InflightExact` and `ZeroMeansQuiet` always hold;
* `StoreImplemented`: `Spec => Store!StoreSpec`, the refinement of `ResumeStore`.

The assumptions are those named in `Engine`: `Tokens` is finite and does not contain
`NoToken`, `QueueCap` is positive.

*The argument.*  `NeverFatal` is not inductive: nothing in it says that the
counter is positive when an answer is handled.  `InflightExact` alone is not
either: it says how many tokens are in use, and not that the one being released
is.  The strengthening is `TokensCarried`: each entry that carries a token (a
posted request, a save alert in the queue or in the batch, a collected or queued
or running write, an add that waits to send) carries one that is *at that stage*,
and no two entries of a stage carry the same.  As stages differ, a token has at
most one holder overall.  So a step that handles the first entry of a sequence
moves or frees a token that is in use, and after it no other entry refers to it;
the counter is positive before a decrement, and exact after it.  Types are proved
together with this, because "a queued write carries a token" is a fact about who
carries tokens.  `Accounting` was checked by TLC on the instances of `life`,
`flush` and `pair` before it was proved.

The proof is laid out along that argument: lemmas about `Carry` under `Tail`,
`Append` and a change of one token (`CarryTail`, `CarryAppend`, `CarryOther`,
`CarryMoved`), about cardinalities (`Take`, `Release`, `PassOn`), then for each task
of the engine one lemma for the types and one for `Carried`, and the theorems.

*The second part of the module*, from `AskedFirst` on, follows the records from libtorrent's need-save flag to the
files.  For every set of torrents, tokens and versions, every queue capacity, and every
combination of failures and drops, except where a hypothesis is stated:

| theorem | property | hypothesis |
|---|---|---|
| `AckedAddsAreDurable` | `AckedAddIsDurable` | none |
| `RemovedTorrentsStayRemoved` | `RemovedStaysRemoved` | no removal before the add registered the torrent (`"earlyRace" \notin Env`) |
| `NoChangeIsForgotten` | `NoChangeForgotten` | `Undisturbed` |
| `CleanFlushesAreComplete` | `CleanFlushIsComplete` | `Undisturbed` |
| `StoreImplemented` | `ImplementsStore` | none |

The hypotheses are about `Env`, the set of circumstances the model allows, and leave out what
the code does not get right: without the first, `MCEngine_early_remove` is a
counterexample.  `Undisturbed` says that nobody acts on a torrent before its add has returned
(else `MCEngine_initial_record` and `MCEngine_early_remove`), that storage does not move while
the daemon stops (else `MCEngine_moved_at_shutdown`), and that resume data can be serialized: a
record that cannot is dropped with libtorrent's flag already cleared (`pump.rs:213`).  Failing
and retried writes, full queues, grace periods that end, aborted tasks and dropped calls are
all in; a crash may come in any state, and leaves `disk`.

*The argument*, in five steps:

1. `AskedFirst`: what deletes a record (`Leaving`: a posted removal, its alert, a delete
   anywhere on its way) exists only after somebody asked for the removal, and versions under
   way are versions the torrent had.  So the record that acknowledged the add stays, or is
   replaced by a newer one or by an older write of the same torrent, never by nothing.
2. `RemovalInv`: the registry has what is in the session as far as the pump knows
   (`SessionInv`), which needs that libtorrent's alerts of one torrent come in order
   (`NewsInv`).  After the removal was handled each write on its way has a delete behind it
   (`Settles` for one queue, `Covered` over all of them), because the pump drops saves
   of a torrent that is not registered.
3. `ChangesInv`: a version is flagged in libtorrent, announced by an alert that triggers a
   save, or *covered*.  `Reaches` says it of five queues in a row: the last record under way
   decides, so a later stage counts only if the earlier ones are empty of this torrent.  A
   failed write marks the file dirty, which counts as well; every retry asks
   for the record in any case (`AlwaysPosted`).
4. `FlushInv`: what the flush saw is covered from then on without counting dirty marks
   (`SeenInv`); when the counter reaches zero `ZeroMeansQuiet` empties all stages, so that
   what is left of `Reaches` is the file itself, and no older version comes up after that
   (`DrainedInv`), because nothing older was kept anywhere.  An add that returned too late
   for the flush has only its own record, which is on disk (`YoungInv`, `MissedInv`).
5. `StoreInv`: that a write never replaces a newer file cannot be seen from the write and
   the file.  `OrderedInv` follows the versions of the saves on their way: in each of the
   five places they rise from front to back, and what is further down the pipeline is not
   newer than anything behind it, up to the version of the torrent itself.  It is kept
   because each place is a queue, and a batch is handled before the next is popped.
   The record of an add is the exception: its version is 0 whenever it is written, and a
   save that an early alert triggered may be ahead of it (`MCEngine_initial_record`).
   `RecordInv` says that it exists once and only while its add waits for it, so before the
   torrent is kept.  `HeldInv` and `IdleInv` say that nothing new begins for a gone torrent: its
   handle resolves to nothing and its uuid is not used again.  `StoreStep` then maps each
   step of the engine: `DiskStep` names the two that touch a file, and every other one
   advances phases or stutters.

The invariants of all five were checked by TLC on instances of `MCEngine` before they were proved.  The proofs go by action: a few
lemmas say what a step does to one queue (`AlertFlow`, `OpsFlow`, `PendingStep`), so that a
part of the invariant is disturbed by few actions.

### `JobsProofs`

For every set of jobs and paths and every number of pieces:

* `StoppableInvariant`, and from it `StopIsComplete` (`StopReachesAll`),
  `PruneKeepsRunning` (`RunningWorkerIsJoinable`) and the action property
  `TerminalIsFinal` (`FirstTerminalWins`);
* `OutputsInvariant`, and from it `FinishedIsThere` (`FinishedHasOutput`) and
  `NothingLeftOver` (`NoOutputUnlessFinished`), under the condition `OwnPaths`: no two
  jobs write to one path.  Without it both fail, as `MCJobs_shared_path` shows;
* `StreamsAreNotCut` (`StreamNeverCut`).

*The argument.*  `StopReachesAll` speaks of the moment after `cancel_all`; while it
runs, a worker without a flag must still be ahead of it (`j \in pend`), which holds
because a running worker has an entry when `cancel_all` takes the lock, which holds
because pruning keeps entries with a running handle and the handles are taken only
after the stop.  That is `Stoppable`.  It also says that a job that was not started
has no state, no entry and no cancel under way, without which `start` could reset
a terminal snapshot.  `Outputs` says whose output may be at a path at which point of
the worker: it is written before `commit`, so a lost commit always finds its own
file to discard, and a won one leaves it.

`StreamNeverCut` rests on `Watching`: a subscription exists only of a job that was started, an
entry is only dropped when its job is terminal, and a stream that waits without a change to
yield has not been told of an end; so the entry, and with it the sender, is still there.

### `SessionStateProofs`

For every set of calls and settings, every queue capacity
and any number of starts:

* `SnapshotsOrdered`: `Spec => []CoreInv`, and `TypeCorrect` with it;
* `Implementation`: `Spec => Durable!DurableSpec`, the refinement;
* `AcknowledgedIsStored`: the acknowledged stamps are never newer than the file;
* `FinalIsKept` (`FinalStateKept`), `FailureLeavesNothing` (`FailedChangedNothing`),
  `MaskIsPinned` (`AlertsPinned`).

*The argument.*  That the file never moves back is not inductive: it depends on what is
queued.  `CoreInv` orders all snapshots there are: for every part, file <= first queued <=
... <= last queued <= the snapshot of the lock's holder <= session.  The order is kept because
only the holder of the lock appends to the queue, because it took its snapshot after it got
the lock, and because the session only moves back in a rollback.  A rollback is the
delicate step: it puts the previous values back while nothing of the failed change is
queued, since the answer of the persister has come.  A dropped caller leaves its
operation queued and its change in the session, which keeps the order; the
lock it releases lets the next writer append behind it.  `FailedChangedNothing` needs in
addition that stamps are unique.

### `RestoreProofs`

For any torrents, file names and uuids, with every failure and crash
the model has and any number of starts:

* `FilesAccounted`: `Spec => []RestoreInv`, and `TypeCorrect` with it;
* `NoRecordLost` (`RecordKept`), `UuidKept` (`SameUuid`), `OneFile` (`NoStaleFile`),
  `RemovedNeverReturns` (`RemovedStaysRemoved`), `RegisteredAreStored`
  (`RegisteredIsStored`).

Assumed is what `Restore` assumes of its constants (`NamesAssumption`).

*The argument* follows the files.  That a torrent comes back under its uuid says nothing
of the states in between, when its file is renamed, its record spliced or its add posted.
`FoundInv` says where a file can be in the course of a start: still to be visited, in hand,
posted as an add, registered, or queued for deletion, unless an operation on it failed
(`marred`).  `NameInv` and `UsedInv` make renames and deletes safe: a record under a uuid
has that uuid, no two files claim one uuid, and minting finds a uuid that no file knows, so
neither a rename nor a delete hits the record of another torrent.  `AddsInv` covers
duplicates: an add without its file belongs to a torrent whose other file has won.
`ShownInv` and `RemovedInv` carry this across starts: a torrent clients have seen has only
the file of its uuid, a removed one only files about to be deleted.

### `DaemonProofs`

For any finite set of clients (`ConnsAssumption`) and any number of
permits:

* `DaemonInvariant`: `Spec => []DaemonInv`, and `TypeCorrect` with it;
* `EngineIsLeftAlone` (`EngineLeftAlone`), `LeftoversDoNotBlock` (`LeftoversNeverBlock`) and
  `PermitsExact`: free permits and sockets that hold one always add up to `MAX_PENDING_WS`.

*The argument.*  The engine is left alone because of what each stage of `stop_with` waited
for: `StageInv` gives the order of the stages, `ServerInv` what the end of the server, or
its abort, leaves of the connections, and `QuietInv` that the tracker, once found empty,
stays without sockets that run subscriptions.  `FileInv` says the socket file is live
exactly while this process accepts on it, whence a start is refused only by a foreign file.
`PermitInv` counts holders; its lemmas say how the count changes when one connection
changes its state.

### `CorrelateProofs`

For any calls, torrents, keys and sizes of the bus, and for every `Env`:

* `CorrelateInvariant`: `Spec => []CorrelateInv`, and `TypeCorrect` with it;
* `OneAtATime` (`OneInFlight`), `AnswersAreOwn` (`OwnAnswer`), `AnswersAreNotMissed`
  (`AnswerNotMissed`);
* `SomeFilesAreDeleted` (`SameContentDeleted`), and `OwnFilesAreDeleted` (`DeletedMeansGone`)
  for behaviours in which at most two removals are parked at once (`TwoParked`) and no torrent
  is removed with its files twice (`OneRemoval`).

Assumed is what `Correlate` assumes of its constants: `NoCall` and `NoTorrent` are neither
calls nor torrents, every torrent has a hash, trackers are keys.

*The argument.*  `OneInFlight` says nothing of the lock.  `OnceInv` counts: what a call posted
is posted, answered or shown to receivers, in one of these places and once.  `HeldInv`
ties it to the lock: as long as an operation is unfinished its call waits or drains,
hence holds the lock (`LockInv`: the lock it has is the one the table has, and one call
holds it).  `StaleInv` gives `OwnAnswer`: nothing that a waiting call could take for its
answer belongs to another call.  All three except a lock that one call gave up early
(`Disturbed`), and the exception has to be of the lock and not of the call: the next holder may
take the late answer and give the lock up in turn.  TLC showed it, as a
counterexample to the narrower exception with three calls.  `AwaitedInv` is subscription before
the request.  `ContentInv` is all that survives of the attribution of deletions by overlap of
hashes with any number of removals: each entry and each alert keeps to its content.

`OwnFilesAreDeleted` is about the attribution itself, with any overlap of hashes and content
added again as often as one likes.  An alert matches the entry of every removal of its
content, so what makes the first match the right one is an order: `OrderInv` says that of two
entries of one content the first is the one whose torrent left the session first, and is
reported first.  That follows from what the other parts say of a torrent that was asked to
go: it has one entry from the request to the report (`ParkedInv`), it is in one place, in the
session, in libtorrent's queue of deletions or in an alert (`PlaceInv`), and two torrents of one
content are never in the session together (`AskedInv`), so that the second can be asked to go
only when the first has left.  `ShownInv` carries the attribution to the receivers.  All of it
holds until somebody gives up (`OwnInv`).  `TwoParked` is where `swap_remove` enters: with
three entries it changes the order of the two that stay, and `MCCorrelate_swapped` shows
what comes of it.  `OneRemoval` leaves out a second entry that no alert will answer.

### `StreamsProofs`

For any torrents and versions, any finite set of subscriptions, every size of the bus:

* `StreamsInvariant`: `Spec => []StreamsInv`, and `TypeCorrect` with it;
* `InterestIsExact`: `state_interest` is the number of open streams that want updates;
* `NoGhostTorrents` (`NoGhosts`), `NothingIsStale` (`NothingStale`).

Assumed are `CapAssumption`, `SubsAssumption` and `NoTorrentAssumption` of `Streams`.

*The argument.*  A client's belief agrees with the registry only up to what is on its way:
the alert queue, the hand of the pump, the receiver of the stream.  `Ordered` says that
nowhere is a torrent announced after its end, since uuids do not come back; `BusInv` and
`KnownInv` say that a difference between belief and registry is explained by an event on
the way.  For changes, `StaleInv` says that a version a client has not seen is still marked
in libtorrent, or in an update on its way, or the stream has lagged and will ask again.  The
delicate step is a registration: a stream skips updates of a torrent that is not
registered yet, so `FreshInv` keeps its first update behind its announcement.  A lagged `torrentEvents`
stream needs no case: it ends.

### `SettingsProofs`

For every set of typed inputs, every foreign state file and any number of changes:

* `SettingsInvariant`: `Spec => []SettingsInv`;
* `RoundTripInvariant` (`RoundTrip`), `WriteBackInvariant` (`WriteBack`),
  `NoStaleCredentialsInvariant` (`NoStaleCredentials`);
* `ReadWritten`: whatever `write_<field>` accepts, `read_<field>` turns back into its canonical
  form, for each field and every value of its type.

Assumed is what the modules assume: the field tables partition the settings (`Partition`), each
exposed setting has a setter of its kind (`Agreement`), inputs have fields of the interface
with values of their types (`InputsAssumption`), foreign files have settings with values of
theirs (`ForeignAssumption`), and `Null`, `Default` and `Unreadable` are no values
(`MarkersAssumption`).  The third is what the GraphQL schema guarantees before the code runs,
the fourth what libtorrent guarantees when it loads a file; TLC evaluates all five in the run
`settings`.

*The argument.*  None of the three properties is inductive: what a session holds when a change
arrives is what any earlier change left.  `SettingsInv` says of each field that its settings are
as *one* accepted value staged them (`Written`), or that those not of foreign origin are still
the defaults (`Settled`); that hidden settings were never touched (`Unexposed`); and that
settings of foreign origin still have their types (`ForeignHolds`).  The step
needs that fields stage exactly what `backing` names, and disjointly, so that one change
cannot leave half of another: that is where a stale password would come from.  Since the
defaults are themselves what some accepted value would stage (`DefaultsWritten`), a field without
foreign settings is always `Written`, and each property becomes a statement about one value and
its setter: `ReadWritten` for `RoundTrip`, that the canonical form is accepted and stages
the same for `WriteBack`, and that a protocol without credentials stages empty ones for
`NoStaleCredentials`.  For a field with foreign settings `WriteBack` needs that whatever the
reader makes of values of the right types is a value of the field's type (`SessionReadTyped`);
then `ReadWritten` applies to what is written back.  These go by field, with the enumerations and
lists of one kind taken together.

### What is only model-checked

Liveness (`TokensReturn`, `ShutdownCompletes`, `RemovalReachesDisk`, `JobEnds`, `StreamEnds`,
`EveryCallReturns`, `CaughtUp`, `StopEnds`, `PermitReturned`): fairness is outside the
prover's reach.

## 5. Where the code and its own words differ

Some behaviours of the code violate what a comment says of it.  They are kept as
properties with a configuration that shows them (run by hand:
`tlc -config <cfg> MCEngine.tla` and so on; each ends with a counterexample), and the
runs above leave the triggering circumstance out, as `PROJECT.json` notes at the hazard:

| configuration | property | what happens |
|---|---|---|
| `MCEngine_early_remove` | `RemovedStaysRemoved` | a removal is handled by the pump before the continuation of the add registers the torrent; the compensating delete (`mod.rs:675`) looks at the registry, which the add itself has just filled again |
| `MCEngine_failed_add` | `FailedAddIsForgotten` | a retry of the failed initial write is under way when the add is unwound; the file it writes stays |
| `MCEngine_dropped_add` | `NoTokenLeak` | an add dropped while it waits for queue space keeps its token |
| `MCEngine_moved_at_shutdown` | `CleanFlushIsComplete` | a move without metadata announced while quiescing is saved by nobody |
| `MCEngine_initial_record` | `NoChangeForgotten` | the initial record replaces a newer one that an early `TorrentFinished` or `MetadataReceived` produced |
| `MCJobs_shared_path` | `DiscardsOwnOutput` | a cancelled job discards the output of a finished one with the same path |
| `MCCorrelate_gone` | `GoneMeansUnlocked` | a drainer whose torrent was removed by another call waits for an event that has passed; calls queued for its lock wait with it |
| `MCCorrelate_swapped` | `DeletedMeansGone` | three removals at once, two of them of one content: the list of pending deletions is changed by `swap_remove` (`pump.rs:444`, `mod.rs:753`), so the last entry takes the place of the first, and the next alert is attributed to the wrong removal |

Stated as properties and not checked by a run: `NeverFatal`,
`AlertsPinned` and `RegisteredIsStored` are proved; `NoGhostsEver` of `Streams` fails as soon as an add is
unwound, which `NoGhosts` excepts.

Observations without a property:

* A save call accepts the event of an earlier write of the same torrent (`mod.rs:759`,
  `785`): the events carry no request identity.
* A save triggered by the pump can be posted after the flush began (`pump.rs:408`); it
  repeats what the flush saw in libtorrent's flag, except after a move without metadata.
* A worker abandoned at the deadline of `join_workers` (`jobs.rs:202`) may leave its output.
* Content added again before its earlier files are deleted: the alert of the earlier
  deletion satisfies the later removal if the earlier call gave up (`pump.rs:441`), or if a
  third removal, of any content, changed the order of the entries (`MCCorrelate_swapped`).  What remains true is
  `SameContentDeleted`: some torrent of this content has had its files deleted.  A dropped
  removal leaves its entry in `pending_deletes`.
* The lock of a serialized operation is released early when its caller is dropped
  (`correlate.rs:85`).  The call that gets it next may take the late answer for its own and
  release the lock while its own operation runs, and so on: until the operations of the torrent
  pause, each call returns the answer to the one before.  `OneInFlight` and `OwnAnswer`
  except the calls of such a lock.  A reply lost to lag makes the drainer give up in the same way.
* A filtered `torrentEvents` subscription looks up its torrent before it subscribes to
  the bus: a removal in between leaves a stream that is silent.
* `subscription.rs:9-10` says that all streams end because the event bus closes when the
  engine shuts down.  Streams hold the engine; they end because the daemon closes
  their sockets first.
* Callbacks of upgraded sockets that have not run when the tracker is awaited
  (`lib.rs`, around 179) are not tracked; `EngineLeftAlone` holds because such a socket
  reads nothing after the stop.
* Two daemons that start at once over one stale unix socket can both replace it
  (`listener.rs:80-88`); a server that ends then removes a path another one has bound.
  `Daemon` has one process at a time.  The endpoint is free before the engine's final
  flush is over.  An aborted server leaves its socket file, which the next start replaces.
* `catalog.rs:701-705` describes what a negative `tick_interval` does, as for tests and
  fuzzing; the setter (`net.rs:297-303`) accepts 1 to 1000 only and says why, so no client can
  set one.  `catalog.rs:232-236` describes values of `peer_fingerprint` that its setter
  (`connections.rs:120-135`) rejects.  `host_token` accepts a host with one bracket.
* `restore` mints a uuid for a record that has client data without one, and does not
  splice it.  Two records of one torrent that outlive a failed removal can win in turn.

## 6. What is not modelled

* GraphQL types and conversions (`api/types.rs`, `query.rs`, `scalars.rs`): stateless
  translation.  Configuration (`config.rs`): read once.
* `rsbtctl`, `webui`, the tray: presentation; one request at a time.
* The restart loop of the Windows supervisor: it starts and stops the daemon in the order
  `Daemon` has; its checkpoint at the end of a Windows session is in `SessionState`.
* The wrapper's foreign-function calls and the C shim: no state of their own.
* The FIFO of statistics requests of the wrapper: it goes wrong only when libtorrent
  drops an alert, and the engine sets no limit to the alert queue.
* Closing the libtorrent session at the end of the shutdown; `sessionStats`, a timer that
  sends counters; static files and CORS; the texts of errors.
* Getters of single torrents, and the calls that set one property of a handle.

## 7. The plan

1. The properties that fail in some circumstance as theorems about the others, where a
   run excludes it only for the model's size: `FailedAddIsForgotten` without retries,
   `GoneMeansUnlocked` without removals.
2. `PendingRequests`: the wrapper's add futures and FIFOs with a limited alert queue.
