# A TLA+ model of the file sync engine and its hubs

This directory holds TLA+ specifications of the repository's core: the client
sync engine (`crates/client-core`), the desktop client around it
(`crates/client-desktop`), the push, file and change routes of the hub
(`crates/hub-api/src/routes`), its conflict resolver and its change watcher. TLC
checks them on small instances; TLAPS proves all the invariants and the refinement
for every instance. `PROJECT.json` lists components, runs, mutants, the source lines of
every definition, findings, hazards and theorems.

## The system

Devices keep a directory of files in sync through one or more *hubs*. A hub is
an HTTP service in front of a CouchDB database; hubs replicate to each other.

| component | state | operations | talks to |
|---|---|---|---|
| sync engine (`client-core/src/engine.rs`) | files, per-file metadata (`FileMeta.rev`), pending queue, a checkpoint per hub | `record_upsert`, `record_delete`, `push`, `pull`, `sync` | stores; hubs in order, failing over |
| stores (`store.rs`, `fs_store.rs`, `opfs.rs`) | durable keys and files | get, put, delete | the engine |
| hub client (`hub.rs`) | none | `changes`, `get_file`, `push`, `longpoll` | hub routes |
| push route (`routes/push.rs`) | none of its own | `POST /changes`: conditioned write, else branch and resolve | CouchDB, resolver |
| read routes (`routes/file.rs`, `changes.rs`) | none | `GET /file`, `GET /changes`, `GET /changes/longpoll` | CouchDB |
| CouchDB (external; `couch.rs` is its client) | a revision tree per path, an update sequence | conditioned put and delete, `_bulk_docs`, attachments, `_changes` | |
| resolver (`resolver.rs`, `diff3.rs`) | none | `resolve`: read leaves, plan, copy, write, delete losers | CouchDB |
| change watcher (`watcher.rs`) | its `since` position | polls `_changes`, resolves, wakes devices | CouchDB, resolver, FCM |
| desktop client (`client-desktop`) | long-poll position, channel, watch; the directory is the engine's file store | scan the directory, record, sync; inotify and long-poll wakeups; start, shutdown | engine, user, hub |
| web client (`client-web`) | none | the engine's calls, without a lock | engine |

What is hard here: a push that is stale is *branched* into the revision tree and
resolved inside the request; the resolver works with several separate CouchDB
requests while other pushes, other resolvers and the watcher do the same; a body
and its attachment are two writes; a reply can be lost after the hub acted, so
every push may be a retry; a sync can end between any two store writes; hubs are
changed under a device that fails over; the desktop client and its user write the
same directory, and the client learns of a change only from an mtime in whole
seconds. The properties that make it correct:

* engine: a checkpoint covers only handled changes; a device without queued
  changes holds what the hub holds; a recorded edit is never dropped; a queued
  upload has its file; the queue drains and the device converges;
* push route and resolver: an acknowledged edit is in a live revision, a
  conflict copy, or something a user deleted; the winner can be read; a retry is
  recognised; conflicts end;
* hub process: a crash, or a failed CouchDB request, between two writes loses nothing
  that was acknowledged;
* desktop client: a save is kept until the hub has it, only a user's delete
  spreads, a loop at rest is in sync, and the engine's own writes do not keep it
  running.

The hazards in `PROJECT.json` give the line where each of these can go wrong.

## Modules

**`HubContract`** - what one hub promises about one path, as the engine sees it:
the document (winning revision, content, sequence, known revisions, branched
changes) and the case distinction of `POST /changes`: conditioned write
(`CasHolds`), branch (`Stale`, `Parented`), refusal (`Refused`), and what a
resolution may leave (`MergeOutcomes`).

**`SyncEngine`** - one device, its stores and `NHubs` hubs. Every request and
every store write is a step. `RecordUpsert`/`RecordDelete` followed by
`RecordFile`, `RecordMeta`, `RecordQueue` are the two record calls;
`LoadPending`, `BuildChanges`, the `Hub*` steps (one per change of the batch),
`Reply`, `AdoptRev`, `ClearPending` are `push`; `ListChanges`, `SkipEntry`,
`TakeEntry`, `FetchFile`/`FetchMissing`, `WriteFile`, `WriteMeta`,
`SaveCheckpoint` are `pull`. `PushFault`, `PullFault`, `AbortSync`,
`AbortRecord` are failed requests, lost replies, store failures and crashes. The
other devices (`Remote*`) and CouchDB's replication (`Replicate`) are the
environment. `Overlap` says whether records may run during a sync (the web
client) or not (the desktop's single loop).

**`HubResolver`** - one hub and one path at the granularity of one CouchDB
request per step: the devices' `GET /file` and `POST /changes`, the push handler
(`PutDoc`, `PutAttachment`, `DeleteDoc`, `PutRevision`, `AnswerWinner`), the
resolver (`ReadLeaves`, `ReadAllLeaves`, `CopyName`, `CopyDoc`,
`CopyAttachment`, `WriteDoc`, `WriteAttachment`, `DropLoser`), run by any number
of pushes and by the watcher (`Poll`). `CouchFails` is a CouchDB request of a push or
of the watcher that fails with a 5xx or a timeout: the handler gives up where it is,
what it has stored stays. `Crash` is the end of the hub process, which ends all
handlers and resets the watcher. `MaxFaults` bounds the two together. The tree
is a sequence of revisions with parent, generation, a rank that stands for the
hash, a tombstone flag, content (`Missing` for a body without attachment), the
change a branch was made from and the revisions it descends from (`_revisions`,
with which `common_ancestor` finds the base of a merge; a base that cannot be read
counts as an empty one, `Ancestors`). The resolver reads the content of every live
leaf before it decides, so one bare body ends its attempt; and a delete of a loser is
a 404 when no live leaf is left, which ends the resolution.

**`CheckpointedFeed`** - the abstract specification of what a pull promises: hubs
publish numbered changes, a consumer handles them in any order and advances its
checkpoint over changes it has handled (`Publish`, `Handle`, `Advance`), and
`NothingSkipped`. `SyncEngine` instantiates it (`Feed`) with the hubs' sequences,
the latest change of each path, the handled ones and the stored checkpoints.

**`DesktopClient`** - the desktop client's process, its directory and its user.
`Launch`, `Spawn`, `Recv`, `Debounce`, `Quiet`, `Terminate`, `FinalTimeout` and
`Crash` are `main.rs`; `WatchReady`, `WatchFails` and `PollChanges` the inotify
thread and the long-poll task; `Scan`, `ScanSkips`, `SkipFile`, `ReadFile`,
`FindDeleted`, `StartSync` are `reconcile_and_sync`, and `PutFile`, `PutMeta`,
`Enqueue` the three writes of each record call. `PushNothing`, `PushQueue`,
`PushReplyLost`, `PushRefused`, `List`, `PullFile`, `PullDelete`, `PullMissing`,
`PullMeta` and `SaveCheckpoint` are `sync` as the directory sees it. `Save`,
`Remove`, `Tick`, `RemoteEdit` and `RemoteDelete` are the environment, and may
happen between any two of these steps. `Fail` is any error that ends a
reconciliation.

**`SyncEngineProofs`**, **`SyncEngineSafetyProofs`**, **`SyncEngineRefinement`**,
**`CheckpointedFeedProofs`**, **`DesktopClientProofs`**,
**`DesktopClientRestProofs`**, **`HubResolverProofs`**,
**`HubResolverSafetyProofs`** - the theorems.

**`MCSyncEngine`**, **`MCHubResolver`** - symmetry sets and constants for TLC.

### Abstractions

* A file's content is the set of edits it reflects. An edit adds its identifier,
  a clean merge is the union of both sides' changes, and an edit that no content
  holds any more is lost. Which edits cannot be merged is nondeterministic in
  `HubContract` and the constant `Clash` in `HubResolver`. Line-level merging is
  a third-party crate.
* `mtime` is kept where it decides something (`KeptNewer`, the newest leaf in
  `resolve_delete_winner`): edits are numbered in time. Content types are left out.
* In `SyncEngine`, revisions are numbered in order of creation and a branch
  revision is identified with the change it is made of, because its hash is
  computed from the change alone. `HubResolver` keeps generations and lets the
  hash order of new revisions fall either way.
* A branch's hash also covers the change's `mtime`; the tag leaves it out. Two
  pushes with the same base, operation and content would be one branch in the
  model; devices' edits always differ, and a competing tombstone carries nothing.
* A store write is atomic and durable. `upsert_pending` (read, change, write) is
  one step, and one record runs at a time.
* A reply with fewer results than changes does not come from this hub (it answers
  for all or fails) and is not modelled.
* Reading the leaves of a conflict is one step: `get_doc` lists them and each is
  then read by its own immutable revision.
* In `SyncEngine`, `GET /file` is one step; its two requests are separate in
  `HubResolver`, where `TornReads` says whether writes may fall between them.
* `DesktopClient` takes a coarser sync than `SyncEngine`: one hub, the whole queue
  pushed in one step, no revisions. What depends on them is a choice: a change
  that meets one this device has not pulled may win or lose (`Upload`), a batch
  with a delete may be refused, with any of its other changes applied before it
  (`PushRefused`), and a merged content counts as one of its sides. A version is a
  number, so a content tells who wrote it. A change that is pushed again gets a new
  number each time, while the hub recognises a repeated branch and stops at the third;
  safety does not depend on it, and in the run, with one file, a refused batch has
  no other changes.
* The channel of the desktop client is one flag, because the loop drains it before
  it acts. A delete's time is left out: nothing in the client reads it. A file is
  written in one step, the rename; the temporary file is skipped by the scan. A
  directory shows only as the set of files that a scan misses (`ScanSkips`).
* The long-poll's backoff and its empty answers change nothing and are left out.
* Four history variables say for what the desktop client is answerable. `owed`:
  versions saved outside of a reconciliation and not in the second of the recorded
  mtime. `blind`: files with a change for which there was no event, or that has the
  recorded mtime, or that was cut off between metadata and queue, until a change is
  queued that is the file as it is, or the hub's version is pulled. `removed`: files that a user deleted, or that a scan could not
  see. `emptied`: files that went away inside a reconciliation. Each exemption is a
  behaviour of the code that breaks the plain property, found while modelling, and
  is listed as a hazard: an overwritten save during a sync, a change within one
  second, an edit cut off between metadata and queue, an unreadable directory taken
  for deletes, an unwatched gap, an empty upload.
* At this commit some names the engine uses (`HubClient::id`, `HubError`) are not
  defined in the sources; their meaning is clear from use.

Definitions whose comment begins with *Faulty variant* are not part of the
specification. Each is a plausible mistake in the definition that follows it
and makes the property it is listed with in `PROJECT.json` fail.

## Runs

| run | instance | checks | result |
|---|---|---|---|
| `engine_safety` | 1 hub, 2 files, 3 edits, 1 delete by either side, 2 faults | `TypeOK`, `CheckpointSound`, `LocalEditSafe`, `QueuedFileExists` | hold |
| `engine_overlap` | 2 hubs, 1 file, 2 edits, 1 remote delete, 1 fault, overlapping records that may crash | `BatchDurable`, `FeedSpec` (refinement) | hold |
| `engine_liveness` | 1 hub, 1 file, 3 edits, 2 faults, fairness | `QueueDrains`, `Converges` | hold |
| `engine_lost_overlap` | as the web client runs it: records during a sync | `LocalEditSafe` | violated |
| `engine_lost_merge` | 1 fault | `NoEditLost` | violated |
| `engine_stuck_push` | 1 remote delete, 1 fault, fairness | `QueueDrains` | violated |
| `desktop` | 1 file, 2 seconds, 2 versions, 1 delete, 1 failure, signal or crash, fairness | `TypeOK`, `SavesKept`, `RestIsSynced`, `DeletesAreUsers`, `UploadsHaveFiles`, `Settles` | hold |
| `hub_safety` | 3 devices, 3 pushes of which 2 may be deletes, no fault | `TypeOK`, `NothingLost`, `WinnerReadable` | hold |
| `hub_watch` | 2 devices, 2 pushes, 1 delete, the watcher, torn reads, no fault, fairness | `ConflictsEnd` | holds |
| `hub_crash` | 2 devices, 2 pushes, 1 repeated push, 1 failed CouchDB request or crash | `Recoverable` | holds |
| `hub_retry_heals` | as `hub_crash` | `RetryHeals` | violated |
| `hub_torn_read` | 3 devices, 3 pushes, torn reads, no fault | `NothingLost` | violated |

Bounds. Three edits are the least with which a device's edit, another device's
edit and an edit on top of the outcome meet; two files are needed for a batch
that is applied in part; two faults for a lost reply followed by an aborted
retry. On the hub, three devices give three live leaves (`PlanMany`) and two
resolvers besides a pusher; `MaxRetries = 2` (five in the code) lets a resolver
lose a race, win the second time, or give up. In `hub_safety` and `hub_crash` the
watcher does not poll: it runs the same resolver code as the pushes, and a third
resolver there only multiplies the states; `hub_watch` has it. `CHECK_DEADLOCK
FALSE` is set for the hub because its pushes are bounded and then nothing is left
to do. In the engine's runs a sync is always possible, and deadlock is checked.
In `desktop` two versions are a save that meets another save, or a change of
another device; two seconds, besides the mtimes 0 and 2 of the other device, give
mtimes that are equal, older and newer; one failure is enough for a crash at any
step, followed by a second start. One file, because reconciliations treat files one
by one; the theorems are for any number. `CHECK_DEADLOCK FALSE`: a client whose
process has ended by the bounds, or that waits for a change, may stop.
Not reached within these bounds: the 409 of `PutAttachment`, and the plan of
`ReadAllLeaves`, which needs a winning tombstone that is gone by the second read
(four pushes).

What the bounds leave to other runs. In `engine_safety` no record is cut off
(`RecordCrash = FALSE`), so `QueuedFileExists` there is about the order of record
calls, pushes and pulls; a `record_delete` that dies between its writes does leave an
empty upload (the hazard at `engine.rs:429`). `engine_overlap` and `engine_liveness`
have one file, so a batch is taken or given up as a whole; batches that are applied or
pulled in part are those of `engine_safety` and of the theorem
`CheckpointsAreDurable`.

Faults of CouchDB. `hub_safety`, `hub_watch` and `hub_torn_read` have `MaxFaults = 0`:
`NothingLost`, `WinnerReadable` and `ConflictsEnd` hold while CouchDB answers every
request with success, 404 or 409 and the hub does not crash. With a single fault
all three are false. A `put_attachment` that fails (`push.rs:120-123`) leaves a bare
body without any crash, which is then the winner and hides acknowledged content:
`hub_retry_heals` is that case, and `Recoverable` says what is left of the promise
(`hub_crash`, `AcknowledgedIsRecoverable`). A resolution of the watcher that fails on
a CouchDB error is logged (`watcher.rs:72-74`) and the position moves on
(`watcher.rs:87`), so the conflict stays until the file changes again; the same
holds for a bare body, which ends every later resolution. `ConflictsEnd` therefore
covers the failures that other requests cause (a body without its attachment yet, lost
races), each of which is followed by another change. In `hub_crash` the watcher does
not poll, its faults there are covered by the theorem.

Fairness. `FairSpec` of `SyncEngine` is weak fairness of the engine's own steps:
`sync` is called again after it returned and an awaited step completes. The web
client's caller and the desktop's wakeups have to provide the first; whether the
desktop client does after a failed sync is a hazard of its own. Faults are
bounded, so from some point on requests get through. `FairSpec` of `HubResolver`
is weak fairness of each request handler, each resolution and the watcher's
polling loop, which is what the async runtime and `change_watcher`'s `loop` give.
Nothing is assumed of the devices.
`FairSpec` of `DesktopClient` is weak fairness of the loop and its reconciliation,
and of the watcher and the long-poll together: the runtime schedules both and
requests come back. That the process is started again is not assumed.

### What the violations show

* `engine_lost_overlap`: `apply_remote` checks the queue, awaits, and then
  overwrites a file that was recorded meanwhile.
* `engine_lost_merge`: after a merged push `bump_rev` stores the merged revision
  before its content is pulled; if the sync ends there, the next edit
  fast-forwards over the other device's edit.
* `engine_stuck_push`: a branched push whose reply was lost is refused for good
  once the file is deleted at the hub.
* `hub_retry_heals`: a `put_attachment` that fails, or a crash before it, is not healed
  by a retry, because the resolver cannot read the bare body. `RetryHeals` asks
  that whenever a device's push ends with nothing else under way or unanswered, and
  without a fault in that step, the winner has its content.
* `hub_torn_read`: `GET /file` can pair one leaf's revision with the other's
  content, and an edit made from it removes a content its author never saw.

## Proofs

All theorems hold for every value of the constants that satisfies the named
assumptions (`AbsentAssumption`, `ConstantsAssumption`, `DesktopAssumption`,
`HubAssumption`). Every invariant of a passing run and the refinement are stated by
a theorem. Where the plain property fails in some setting, the theorem names the
setting as a hypothesis, and the hypothesis is needed: for each there is a violation
run or a hazard.

`SyncEngineProofs`:

* **`TypeCorrect`**: `Spec => []TypeOK`, one step per action.
* **`CheckpointsAreDurable`**: `Spec => []BatchDurable`. `BatchDurable` alone is
  not inductive: when `SaveCheckpoint` stores the listing's sequence, one has to
  know that every change up to it was handled. The strengthening is
  `SeqOrder` (no document and no checkpoint is ahead of its hub's sequence) and
  `PullCovers` (while a listing is being applied, its sequence lies between the
  stored checkpoint and the hub's, and each change it covers is still to do or
  has been handled). New changes are
  above the listing, so concurrent writes and replication keep it. It needs no
  restriction on overlap, crashes or the number of hubs. `StepKinds` sorts the
  actions by what they do to these variables, and `DurableInductive` is the
  invariant itself, which the refinement uses again.
* **`QueuedUploadsHaveFiles`**: with `~Overlap` and `~RecordCrash`,
  `Spec => []QueuedFileExists`. The strengthening says that between the writes of
  a record the file already holds what is being recorded, and no sync runs
  (`Recorded`), that the queue is empty throughout a pull, so a pulled deletion
  hits no queued upload (`PullAfterPush`), and that a queued upload misses its
  file only inside the record of a delete of that path, whose last write replaces
  the entry (`MissingOnlyInDelete`).

`SyncEngineSafetyProofs`, for a device with one hub that does not record while it
syncs (`NHubs = 1`, `~Overlap`: the desktop client; `engine_lost_overlap` is the
other case):

* **`SyncedFilesAreTheHubs`**: with `~RecordCrash` too, `Spec => []CheckpointSound`.
  `CheckpointSound` speaks of the time between two syncs. The strengthening follows a
  path through one: while the checkpoint covers a document, the only revision of it
  that the device can know, queue or be told is the winner (`Bases`), and the queued
  content was never branched into it (`BodiesAreNew`), so a retry that finds its
  branch in the tree belongs to a document that is ahead of the checkpoint
  (`AgainIsAhead`); hence what the hub has answered for is in step when the queue is
  cleared (`TakenInStep`), and what the pull has dealt with is in step with the
  listing that becomes the checkpoint (`PullInStep`). A record that dies between file
  and queue leaves a file that differs with nothing queued, which is why it is
  excluded (a hazard).
* **`LocalEditsAreSafe`**: `Spec => []LocalEditSafe`, records that die included.
  What the hub holds of the recorded edits is in the file that is pushed or laid aside
  (`HubHolds`), so the push may replace it; a pull has not fetched less than that
  (`PullKeeps`), so it may overwrite the file; when the queue is cleared the hub has
  every queued content (`TakenKept`), also if it took it in an earlier attempt whose
  reply was lost (`BranchesKept`). `Apart` (an edit belongs to one path) and `Unsent`
  (the edit of a record that is cut off has been seen by nobody else) close the
  induction.

`SyncEngineRefinement`: **`EngineImplementsFeed`**, `Spec => FeedSpec`. A step of
the engine is a `Publish`, a `Handle`, an `Advance` or a stutter of
`CheckpointedFeed`. `Advance` needs `DurableInductive`, and `Handle` that a handled
number is one the hub has published and never goes back (`HandledInOrder`).
`CheckpointedFeedProofs`: **`FeedPromise`**, `Spec => []NothingSkipped` for the
abstract feed, whose invariant is simple because the feed has no listing in flight.

`DesktopClientProofs`:

* **`DesktopTypeCorrect`**: `Spec => []TypeOK`. It needs `TodoFound` (what is
  still to be recorded was found by the scan), without which `record_upsert` might
  queue a change without an mtime.
* **`DeletesAreUsersAlways`**: `Spec => []DeletesAreUsers`. The danger is that a
  file is there and the client does not see it, or has metadata for a file that it
  failed to write. The strengthening: a file with metadata that is missing was
  removed (`MissingRemoved`), also if it is only missing from the scan
  (`UnfoundRemoved`), and between a file's write and its metadata's the file is
  there (`WrittenThere`).
* **`SavesKeptAlways`**: `Spec => []SavesKept`. An owed version is followed through
  a reconciliation: the scan has its mtime (`OwedScanned`), the recorder writes back
  the same content (`OwedRead`) with an mtime other than the metadata's
  (`BufChanged`), a file whose mtime is the metadata's is queued or about to be
  (`OwedQueued`), so all owed versions are queued when the push begins and none is
  left when the pull begins (`OwedPushed`), which is why a pull overwrites none.
  `NumbersInv` and `DatedInv` supply that versions are new and that no file is
  dated at second 0.
* **`UploadsHaveFilesAlways`**: `Spec => []UploadsHaveFiles`. A queued upload has
  metadata (`QueueKnown`), so the scan that follows the loss of its file records
  the delete before the push (`MissingFound`); the one step in which the metadata
  is gone and the entry still an upload is inside the record of that delete.

`DesktopClientRestProofs`: **`RestIsSyncedAlways`**, `Spec => []RestIsSynced`. Two
things may be late when the loop waits, a change in the directory and one on the hub.
`FeedInv` is about the hub: no position is beyond its last change, what is to be pulled
is ahead of the checkpoint, and without a signal in the channel the long-poll is not
ahead of the checkpoint (`PollBehind`; this is where `Spawn` starting it there and
nowhere else counts). `RestInv` is about the directory: a path that looks synced (its
mtime is the metadata's, or both are missing) is queued, or ahead on the hub, or the
same on both sides (`Tracked`), and a path to which nothing happened since the last
signal is followed from the scan, which is right about it, to the push, where it looks
synced, through the pull to the end, where it is (`Settled`). At rest nothing is ahead,
because the long-poll has seen the hub's last change. The proof attempt showed that the
history variable `blind` was cleared too early, when a record wrote the file: with two
failures, one between the metadata and the queue, the change was lost from both. It is
cleared now when the change is queued (`Answered`); the statement is otherwise as it
was, and the instance with two failures and two deletes was checked with TLC.

`HubResolverProofs`:

* **`HubTypeCorrect`**: `Spec => []TypeOK`. The tree is a sequence that only grows, each
  parent comes before its child, the winner is a leaf, and what a task or a plan names
  is in the tree.
* **`RestIsReadable`**: with `MaxFaults = 0` (CouchDB answers every
  request and the hub does not crash), `Spec => []WinnerReadable`. Every live
  body without an attachment belongs to a task that is about to write it (`Owned`); a
  fault breaks exactly this (`hub_retry_heals`).

`HubResolverSafetyProofs`, with `~TornReads` (`hub_torn_read` is the other case):

* **`AcknowledgedIsKept`** and **`AcknowledgedIsRecoverable`**:
  `Spec /\ [][~PicksOne]_vars => []NothingLost` with `MaxFaults = 0`, and
  `=> []Recoverable` with any number of failed CouchDB requests and crashes. A
  revision holds what its ancestors hold, or the rest is in
  a copy or was deleted by somebody (`Inherit`); this makes the three-way merge with
  the common ancestor safe. What any revision holds, a live leaf that is not older
  holds too, or the revision below it if it is still without its attachment
  (`Covered`). The order of ages rules out two resolvers that each delete the leaf the
  other relies on: a resolver writes first and then drops leaves older than what it
  wrote (`PlanInv`). `Slots` says that no two resolvers write the same copy. The proviso
  `~PicksOne` is that `resolve_delete_winner` does not find several live leaves: it
  keeps the newest and drops the others with no copy. This takes four pushes, so
  `hub_safety` does not reach it; it is a hazard (`resolver.rs:196`), and the theorem
  says that there is no other way to lose an edit here.
* **`EditsAreKept`** and **`EditsAreRecoverable`**: the same with no proviso when nobody
  deletes the file (`MaxDeletes = 0`). Then every revision that is not a tombstone has
  a live leaf that is not older, so the winner is live and `resolve_delete_winner` does
  not run (`LiveInv`).

The inductive invariants were checked with TLC before they were proved, on the
instances of the runs and on some with more files or failures.

Only model-checked: liveness (`QueueDrains`, `Converges`, `Settles`, `ConflictsEnd`),
because fairness is out of the prover's reach.

## Not modelled

* The OPFS backend (`opfs.rs`): its guarantees are the browser's (when a closed
  stream becomes visible, what a failing handle means), not this code's.
* Notifications (FCM, Discord, desktop): outgoing, nothing reads them back. The
  notifier's suppression of repeated messages is a comparison with the last one.
* The replication health check: reads CouchDB's scheduler, changes nothing.
* `GET /metadata`: no client calls it.
* Start-up wiring, configuration, authentication, HTTP and JSON encoding, the
  multipart parser: no state that changes.
* The line merge of `diff3`: a third-party crate, modelled by what it yields.

## Plan

Done, in this order: the engine with its hub contract, because everything else
rests on it; the resolver's races; the desktop client; the abstract feed and the
engine's refinement of it. Next:

1. Two hubs in `HubResolver`: replication of revision trees, both resolvers and
   both watchers at work on one conflict; convergence of the two trees.
2. `HubResolver` as an implementation of `HubContract`'s promises: a refinement
   from the tree to the document of one path, at rest.
3. Concurrent records (`upsert_pending` in two steps), two-hub instances of
   `LocalEditSafe` with a lagging replica, four-push instances of the resolver.
4. Proofs: the refinement of item 2; which part of `LocalEditSafe` survives a failover
   to a second hub; a closer description of `PicksOne`, the
   sequences of pushes and deletes that lead to it.
