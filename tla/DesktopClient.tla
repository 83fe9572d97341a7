--------------------------- MODULE DesktopClient ---------------------------
(***************************************************************************)
(* The desktop client (client-desktop): the user's directory, the          *)
(* reconciliation that scans it by mtime, records what changed and syncs,  *)
(* the main loop with its debounced channel, the inotify watcher and the   *)
(* long-poll that feed it, and start, shutdown and crash of the process.   *)
(*                                                                         *)
(* The directory is the engine's FileStore, so the user may change a file  *)
(* between any two steps of a reconciliation.  The sync itself is coarser  *)
(* than in module SyncEngine: one hub, a push of the whole queue in one    *)
(* step, revisions left out.                                               *)
(***************************************************************************)
EXTENDS Integers

CONSTANTS
  Path,         \* the files
  NoPath,       \* none of them
  MaxClock,     \* bound: seconds
  MaxVersions,  \* bound: contents written, by the user and by other devices
  MaxDeletes,   \* bound: deletes, by the user and by other devices
  MaxTroubles   \* bound: failures of any kind, signals and crashes

ASSUME DesktopAssumption ==
  /\ NoPath \notin Path
  /\ MaxClock \in Nat \ {0}
  /\ MaxVersions \in Nat /\ MaxDeletes \in Nat
  /\ MaxTroubles \in Nat

VARIABLES
  disk,        \* the sync directory: content and mtime of each file
  \* durable, in the state directory
  meta,        \* FileMeta.mtime of each path, NoTime where nothing is stored
  queue,       \* the queued change of each path
  checkpoint,  \* the pull checkpoint
  \* the main loop and the reconciliation it runs
  pc, phase, local, todo, cur, buf, listed,
  last,        \* how the last reconciliation ended
  \* what wakes it
  wake,        \* a signal is in the channel
  watch,       \* the inotify thread
  since,       \* the long-poll's position
  \* the hub
  hub, hubSeq,
  \* the world
  clock, versions, deletes, troubles,
  \* history
  owed,        \* versions the user saved for which the client has to answer
  blind,       \* paths with a change the client has had no sign of
  removed,     \* paths somebody deleted, or whose directory could not be read
  emptied      \* paths whose file went away inside a reconciliation

durable == <<meta, queue, checkpoint>>
locals == <<local, todo, cur, buf, listed>>
wakes == <<watch, since>>
remote == <<hub, hubSeq>>
bounds == <<clock, versions, deletes, troubles>>
history == <<owed, blind, removed, emptied>>
vars == <<disk, durable, pc, phase, locals, last, wake, wakes, remote, bounds, history>>

NoTime == -1
NoPoll == -1
Time == 0..MaxClock   \* mtimes, in whole seconds

Absent == 0
Empty == -1           \* the bytes of a missing file, as build_push_changes reads them
Version == 1..MaxVersions
Content == {Absent, Empty} \cup Version

File == [content : Content, mtime : Time \cup {NoTime}]
NoFile == [content |-> Absent, mtime |-> NoTime]

Change == [op : {"none", "upsert", "delete"}, mtime : Time \cup {NoTime}]
NoList == [seq |-> 0, deleted |-> {}]   \* no change feed answered
NoChange == [op |-> "none", mtime |-> NoTime]

Doc == [content : Content, mtime : Time \cup {NoTime}, seq : Nat]
NoDoc == [content |-> Absent, mtime |-> NoTime, seq |-> 0]

Exists(p) == disk[p].content # Absent
Queued(p) == queue[p].op # "none"

Reconciling == pc \notin {"down", "idle", "debounce", "spawn"}

\* A file is written or deleted; inotify reports it if the directory is watched.
Write(p, file) ==
  /\ disk' = [disk EXCEPT ![p] = file]
  /\ wake' = (wake \/ (watch = "on" /\ (Exists(p) \/ file # NoFile)))

----------------------------------------------------------------------------
(* The user, and time. *)

\* The client gets a sign of a change unless the watch is down.
SeenUnless(p, hidden) ==
  blind' = IF hidden \/ watch # "on" THEN blind \cup {p} ELSE blind

\* A save stamps the file with the second it is made in.
Save(p) ==
  LET v == versions + 1
      hidden == \/ meta[p] = clock
                \/ cur = p /\ pc \in {"meta", "pullmeta"} /\ buf.mtime = clock
  IN
  /\ versions < MaxVersions
  /\ versions' = v
  /\ Write(p, [content |-> v, mtime |-> clock])
  /\ owed' = (owed \ {disk[p].content}) \cup
               (IF Reconciling \/ hidden THEN {} ELSE {v})
  /\ SeenUnless(p, hidden)
  /\ UNCHANGED <<durable, pc, phase, locals, last, wakes, remote, clock, deletes,
                 troubles, removed, emptied>>

Remove(p) ==
  /\ deletes < MaxDeletes
  /\ Exists(p)
  /\ deletes' = deletes + 1
  /\ Write(p, NoFile)
  /\ owed' = owed \ {disk[p].content}
  /\ SeenUnless(p, FALSE)
  /\ removed' = removed \cup {p}
  /\ emptied' = IF Reconciling THEN emptied \cup {p} ELSE emptied
  /\ UNCHANGED <<durable, pc, phase, locals, last, wakes, remote, clock, versions,
                 troubles>>

Tick ==
  /\ clock < MaxClock
  /\ clock' = clock + 1
  /\ UNCHANGED <<disk, durable, pc, phase, locals, last, wake, wakes, remote,
                 versions, deletes, troubles, history>>

\* Another device's change arrives at the hub.  Its mtime is that device's.
RemoteChange(p, doc) ==
  /\ hub' = [hub EXCEPT ![p] = doc]
  /\ hubSeq' = hubSeq + 1
  /\ UNCHANGED <<disk, durable, pc, phase, locals, last, wake, wakes, clock, troubles, history>>

RemoteEdit(p) ==
  /\ versions < MaxVersions
  /\ versions' = versions + 1
  /\ \E m \in {0, MaxClock} :
       RemoteChange(p, [content |-> versions + 1, mtime |-> m, seq |-> hubSeq + 1])
  /\ UNCHANGED deletes

RemoteDelete(p) ==
  /\ deletes < MaxDeletes
  /\ hub[p].content # Absent
  /\ deletes' = deletes + 1
  /\ RemoteChange(p, [NoDoc EXCEPT !.seq = hubSeq + 1])
  /\ UNCHANGED versions

----------------------------------------------------------------------------
(* main.rs *)

\* reconcile_and_sync begins.
Reconcile(ph) == pc' = "scan" /\ phase' = ph

NoLocals ==
  /\ local' = [p \in Path |-> NoTime] /\ todo' = {} /\ cur' = NoPath
  /\ buf' = NoFile /\ listed' = NoList

\* The process is gone, and what it had in memory.
Exit ==
  /\ pc' = "down" /\ phase' = "start" /\ last' = "none"
  /\ NoLocals
  /\ wake' = FALSE /\ watch' = "off" /\ since' = NoPoll

\* reconcile_and_sync returns.  An error ends the process at start-up, the loop
\* only logs it.
Reconciled(outcome) ==
  \/ /\ phase = "start" /\ outcome = "ok"
     /\ pc' = "spawn" /\ last' = outcome
     /\ NoLocals
     /\ UNCHANGED <<phase, wake, wakes>>
  \/ /\ phase = "loop"
     /\ pc' = "idle" /\ last' = outcome
     /\ NoLocals
     /\ UNCHANGED <<phase, wake, wakes>>
  \/ /\ phase = "final" \/ (phase = "start" /\ outcome = "failed")
     /\ Exit

Launch ==
  /\ pc = "down"
  /\ Reconcile("start")
  /\ UNCHANGED <<disk, durable, locals, last, wake, wakes, remote, bounds, history>>

\* Faulty variant of Spawn: the long-poll begins at the present instead of at the
\* checkpoint.
SpawnFromNow ==
  /\ pc = "spawn"
  /\ pc' = "idle"
  /\ watch' = "starting"
  /\ since' = hubSeq
  /\ UNCHANGED <<disk, durable, phase, locals, last, wake, remote, bounds, history>>

\* Only now the watcher and the long-poll are started.
Spawn ==
  /\ pc = "spawn"
  /\ pc' = "idle"
  /\ watch' = "starting"
  /\ since' = checkpoint
  /\ UNCHANGED <<disk, durable, phase, locals, last, wake, remote, bounds, history>>

Recv ==
  /\ pc = "idle" /\ wake
  /\ wake' = FALSE
  /\ pc' = "debounce"
  /\ UNCHANGED <<disk, durable, phase, locals, last, wakes, remote, bounds, history>>

\* Every further signal starts the quiet period anew.
Debounce ==
  /\ pc = "debounce" /\ wake
  /\ wake' = FALSE
  /\ UNCHANGED <<disk, durable, pc, phase, locals, last, wakes, remote, bounds, history>>

Quiet ==
  /\ pc = "debounce" /\ ~wake
  /\ Reconcile("loop")
  /\ UNCHANGED <<disk, durable, locals, last, wake, wakes, remote, bounds, history>>

\* SIGTERM or SIGINT, seen between syncs: one last, bounded sync.
Terminate ==
  /\ pc = "idle" /\ troubles < MaxTroubles
  /\ troubles' = troubles + 1
  /\ Reconcile("final")
  /\ UNCHANGED <<disk, durable, locals, last, wake, wakes, remote, clock, versions,
                 deletes, history>>

\* The reconciliation is cut off.  Between the metadata and the queue that leaves a
\* change that looks synced and is not queued.
CutOff ==
  IF pc = "queue"
    THEN /\ owed' = owed \ {disk[cur].content}
         /\ blind' = blind \cup {cur}
         /\ emptied' = IF buf = NoFile THEN emptied \cup {cur} ELSE emptied
    ELSE UNCHANGED <<owed, blind, emptied>>

Crash ==
  /\ pc # "down" /\ troubles < MaxTroubles
  /\ troubles' = troubles + 1
  /\ Exit /\ CutOff
  /\ UNCHANGED <<disk, durable, remote, clock, versions, deletes, removed>>

\* The last sync is cut off after 30 seconds.
FinalTimeout ==
  /\ phase = "final" /\ Reconciling
  /\ Exit /\ CutOff
  /\ UNCHANGED <<disk, durable, remote, bounds, removed>>

----------------------------------------------------------------------------
(* watcher.rs and poll.rs *)

WatchReady ==
  /\ watch = "starting"
  /\ watch' = "on"
  /\ UNCHANGED <<disk, durable, pc, phase, locals, last, wake, since, remote,
                 bounds, history>>

\* The watch breaks and is set up again after RETRY_INTERVAL.
WatchFails ==
  /\ watch = "on" /\ troubles < MaxTroubles
  /\ troubles' = troubles + 1
  /\ watch' = "starting"
  /\ UNCHANGED <<disk, durable, pc, phase, locals, last, wake, since, remote,
                 clock, versions, deletes, history>>

\* GET /changes/longpoll answers with changes.
Arrived(position) == position # NoPoll /\ hubSeq > position

\* The position passes them and the loop wakes.
PollChanges ==
  /\ Arrived(since)
  /\ since' = hubSeq
  /\ wake' = TRUE
  /\ UNCHANGED <<disk, durable, pc, phase, locals, last, watch, remote,
                 bounds, history>>

----------------------------------------------------------------------------
(* reconcile.rs: scan, and record what differs from the metadata. *)

Scanned(skipped) ==
  /\ local' = [p \in Path |-> IF p \in skipped THEN NoTime ELSE disk[p].mtime]
  /\ todo' = {p \in Path : local'[p] # NoTime}
  /\ blind' = blind \cup skipped
  /\ pc' = "record"

Scan ==
  /\ pc = "scan"
  /\ Scanned({})
  /\ UNCHANGED <<disk, durable, phase, cur, buf, listed, last, wake, wakes, remote,
                 bounds, owed, removed, emptied>>

\* A directory cannot be read: its files are missing from the result.
ScanSkips(skipped) ==
  /\ pc = "scan" /\ troubles < MaxTroubles
  /\ troubles' = troubles + 1
  /\ Scanned(skipped)
  /\ owed' = owed \ {disk[p].content : p \in skipped}
  /\ removed' = removed \cup skipped
  /\ UNCHANGED <<disk, durable, phase, cur, buf, listed, last, wake, wakes, remote,
                 clock, versions, deletes, emptied>>

\* Faulty variant of Changed: only a later mtime counts.
ChangedLater(p) == local[p] > meta[p]

\* The mtime tells a changed file.
Changed(p) == meta[p] # local[p]

\* An unchanged file needs nothing, one that vanished is left to the next pass.
SkipFile(p) ==
  /\ pc = "record" /\ p \in todo
  /\ ~Changed(p) \/ ~Exists(p)
  /\ todo' = todo \ {p}
  /\ UNCHANGED <<disk, durable, pc, phase, local, cur, buf, listed, last, wake, wakes,
                 remote, bounds, history>>

\* Read a changed file; record_upsert begins.
ReadFile(p) ==
  /\ pc = "record" /\ p \in todo
  /\ Changed(p) /\ Exists(p)
  /\ cur' = p
  /\ buf' = [content |-> disk[p].content, mtime |-> local[p]]
  /\ pc' = "put"
  /\ UNCHANGED <<disk, durable, phase, local, todo, listed, last, wake, wakes, remote,
                 bounds, history>>

\* list_file_paths: the paths with metadata.
Known(p) == meta[p] # NoTime

\* Faulty variant of FindDeleted: takes every known path for deleted that was not
\* just recorded.
FindDeletedUnrecorded(p) ==
  /\ pc = "record" /\ todo = {}
  /\ Known(p) /\ ~Queued(p)
  /\ cur' = p
  /\ buf' = NoFile
  /\ pc' = "put"
  /\ UNCHANGED <<disk, durable, phase, local, todo, listed, last, wake, wakes, remote,
                 bounds, history>>

\* A known path that the scan did not find; record_delete begins.
FindDeleted(p) ==
  /\ pc = "record" /\ todo = {}
  /\ Known(p) /\ local[p] = NoTime
  /\ cur' = p
  /\ buf' = NoFile
  /\ pc' = "put"
  /\ UNCHANGED <<disk, durable, phase, local, todo, listed, last, wake, wakes, remote,
                 bounds, history>>

\* Faulty variant of Stored: a file without a sync mtime gets none at all.
StoredUndated(file) ==
  IF file.content = Absent THEN NoFile
  ELSE [file EXCEPT !.mtime = IF @ > 0 THEN @ ELSE NoTime]

\* FsFileStore::put and delete.  What shows is the rename of a temporary file that
\* already has its mtime, if there is one to set.
Stored(file) ==
  IF file.content = Absent THEN NoFile
  ELSE [file EXCEPT !.mtime = IF @ > 0 THEN @ ELSE clock]

PutFile ==
  /\ pc = "put"
  /\ Write(cur, Stored(buf))
  /\ pc' = "meta"
  /\ UNCHANGED <<durable, phase, locals, last, wakes, remote, bounds, history>>

PutMeta ==
  /\ pc = "meta"
  /\ meta' = [meta EXCEPT ![cur] = buf.mtime]
  /\ pc' = "queue"
  /\ UNCHANGED <<disk, queue, checkpoint, phase, locals, last, wake, wakes, remote,
                 bounds, history>>

\* The change is known from now on, if the file is still as it was recorded.
Answered == blind' = IF disk[cur] = buf THEN blind \ {cur} ELSE blind

\* Faulty variant of Enqueue: a path that is queued already keeps its old entry.
EnqueueFirst ==
  /\ pc = "queue"
  /\ queue' = IF Queued(cur) THEN queue ELSE [queue EXCEPT ![cur] =
       [op |-> IF buf.content = Absent THEN "delete" ELSE "upsert", mtime |-> buf.mtime]]
  /\ todo' = todo \ {cur}
  /\ cur' = NoPath /\ buf' = NoFile
  /\ Answered
  /\ pc' = "record"
  /\ UNCHANGED <<disk, meta, checkpoint, phase, local, listed, last, wake, wakes,
                 remote, bounds, owed, removed, emptied>>

\* upsert_pending: one entry for each path, the last one recorded.
Enqueue ==
  /\ pc = "queue"
  /\ queue' = [queue EXCEPT ![cur] =
       [op |-> IF buf.content = Absent THEN "delete" ELSE "upsert", mtime |-> buf.mtime]]
  /\ todo' = todo \ {cur}
  /\ cur' = NoPath /\ buf' = NoFile
  /\ Answered
  /\ pc' = "record"
  /\ UNCHANGED <<disk, meta, checkpoint, phase, local, listed, last, wake, wakes,
                 remote, bounds, owed, removed, emptied>>

StartSync ==
  /\ pc = "record" /\ todo = {}
  /\ \A p \in Path : Known(p) => local[p] # NoTime
  /\ pc' = "push"
  /\ UNCHANGED <<disk, durable, phase, locals, last, wake, wakes, remote, bounds,
                 history>>

\* Any error of a file, a store or the hub ends the reconciliation.
Fail ==
  /\ Reconciling /\ pc # "scan" /\ troubles < MaxTroubles
  /\ troubles' = troubles + 1
  /\ Reconciled("failed") /\ CutOff
  /\ UNCHANGED <<disk, durable, remote, clock, versions, deletes, removed>>

----------------------------------------------------------------------------
(* SyncEngine::sync, seen from the directory. *)

\* The body of an upload is what the directory holds by now.
Body(p) == IF Exists(p) THEN disk[p].content ELSE Empty

\* A file the hub holds, changed there since this device last pulled.
Unpulled(p) == hub[p].seq > checkpoint /\ hub[p].content # Absent

\* The document after a pushed change that wins.
Pushed(p) ==
  CASE queue[p].op = "upsert" ->
         [content |-> Body(p), mtime |-> queue[p].mtime, seq |-> hubSeq + 1]
    [] queue[p].op = "delete" /\ hub[p].content # Absent -> [NoDoc EXCEPT !.seq = hubSeq + 1]
    [] OTHER -> hub[p]

\* The hub takes the queued changes of the paths in taken.  One that meets an unpulled
\* change may lose to it; the losing content is kept, merged or in a copy.
Upload(taken) ==
  /\ \E lost \in SUBSET {p \in taken : Queued(p) /\ Unpulled(p)} :
       hub' = [p \in Path |-> IF p \in lost THEN [hub[p] EXCEPT !.seq = hubSeq + 1]
                              ELSE IF p \in taken THEN Pushed(p) ELSE hub[p]]
  /\ hubSeq' = hubSeq + 1
  /\ owed' = owed \ {Body(p) : p \in {q \in taken : queue[q].op = "upsert"}}

PushNothing ==
  /\ pc = "push" /\ \A p \in Path : ~Queued(p)
  /\ pc' = "list"
  /\ UNCHANGED <<disk, durable, phase, locals, last, wake, wakes, remote, bounds,
                 history>>

PushQueue ==
  /\ pc = "push" /\ \E p \in Path : Queued(p)
  /\ Upload(Path)
  /\ queue' = [p \in Path |-> NoChange]
  /\ pc' = "list"
  /\ UNCHANGED <<disk, meta, checkpoint, phase, locals, last, wake, wakes, bounds,
                 blind, removed, emptied>>

\* The hub takes the push, but the reply is lost: everything stays queued.
PushReplyLost ==
  /\ pc = "push" /\ \E p \in Path : Queued(p)
  /\ troubles < MaxTroubles
  /\ troubles' = troubles + 1
  /\ Upload(Path)
  /\ Reconciled("failed")
  /\ UNCHANGED <<disk, durable, clock, versions, deletes, blind, removed, emptied>>

\* A delete without a base of a file the hub has, or with one of a file that it
\* does not have, fails the batch; the base is left out here.  The changes before it
\* stay applied, and everything stays queued.
PushRefused ==
  /\ pc = "push"
  /\ \E p \in Path, taken \in SUBSET {q \in Path : Queued(q)} :
       /\ queue[p].op = "delete" /\ p \notin taken
       /\ \/ taken # {} /\ Upload(taken)
          \/ taken = {} /\ UNCHANGED <<remote, owed>>
  /\ Reconciled("failed")
  /\ UNCHANGED <<disk, durable, bounds, blind, removed, emptied>>

\* Faulty variant of List: the feed repeats the change at the checkpoint.
ListInclusive ==
  /\ pc = "list"
  /\ todo' = {p \in Path : hub[p].seq >= checkpoint /\ hub[p].seq > 0}
  /\ listed' = [seq |-> hubSeq, deleted |-> {p \in todo' : hub[p].content = Absent}]
  /\ pc' = "pull"
  /\ UNCHANGED <<disk, durable, phase, local, cur, buf, last, wake, wakes, remote,
                 bounds, history>>

\* The change feed after the checkpoint.
List ==
  /\ pc = "list"
  /\ todo' = {p \in Path : hub[p].seq > checkpoint}
  /\ listed' = [seq |-> hubSeq, deleted |-> {p \in todo' : hub[p].content = Absent}]
  /\ pc' = "pull"
  /\ UNCHANGED <<disk, durable, phase, local, cur, buf, last, wake, wakes, remote,
                 bounds, history>>

\* apply_remote writes the file, with the hub's mtime, or deletes it ...  The queue is
\* empty here, so it skips no path.
Apply(p, file) ==
  /\ pc = "pull" /\ p \in todo /\ ~Queued(p)
  /\ cur' = p
  /\ buf' = file
  /\ Write(p, Stored(file))
  /\ blind' = blind \ {p}
  /\ pc' = "pullmeta"
  /\ UNCHANGED <<durable, phase, local, todo, listed, last, wakes, remote, bounds,
                 owed, emptied>>

PullFile(p) ==
  /\ p \notin listed.deleted /\ hub[p].content # Absent
  /\ Apply(p, [content |-> hub[p].content, mtime |-> hub[p].mtime])
  /\ UNCHANGED removed

PullDelete(p) ==
  /\ p \in listed.deleted
  /\ Apply(p, NoFile)
  /\ removed' = removed \cup {p}

\* A listed file that is gone when it is fetched fails the pull.
PullMissing(p) ==
  /\ pc = "pull" /\ p \in todo \ listed.deleted
  /\ hub[p].content = Absent
  /\ Reconciled("failed")
  /\ UNCHANGED <<disk, durable, remote, bounds, history>>

\* ... then its metadata.
PullMeta ==
  /\ pc = "pullmeta"
  /\ meta' = [meta EXCEPT ![cur] = buf.mtime]
  /\ todo' = todo \ {cur}
  /\ cur' = NoPath /\ buf' = NoFile
  /\ pc' = "pull"
  /\ UNCHANGED <<disk, queue, checkpoint, phase, local, listed, last, wake, wakes,
                 remote, bounds, history>>

SaveCheckpoint ==
  /\ pc = "pull" /\ todo = {}
  /\ checkpoint' = listed.seq
  /\ Reconciled("ok")
  /\ UNCHANGED <<disk, meta, queue, remote, bounds, history>>

----------------------------------------------------------------------------
Init ==
  /\ disk = [p \in Path |-> NoFile]
  /\ meta = [p \in Path |-> NoTime]
  /\ queue = [p \in Path |-> NoChange]
  /\ checkpoint = 0
  /\ pc = "down" /\ phase = "start"
  /\ local = [p \in Path |-> NoTime] /\ todo = {} /\ cur = NoPath
  /\ buf = NoFile /\ listed = NoList
  /\ last = "none"
  /\ wake = FALSE /\ watch = "off" /\ since = NoPoll
  /\ hub = [p \in Path |-> NoDoc] /\ hubSeq = 0
  /\ clock = 1 /\ versions = 0 /\ deletes = 0 /\ troubles = 0
  /\ owed = {} /\ blind = {} /\ removed = {} /\ emptied = {}

World == \/ \E p \in Path : Save(p) \/ Remove(p) \/ RemoteEdit(p) \/ RemoteDelete(p)
         \/ Tick

Record == \/ Scan \/ StartSync \/ PutFile \/ PutMeta \/ Enqueue
          \/ \E p \in Path : SkipFile(p) \/ ReadFile(p) \/ FindDeleted(p)

Sync == \/ PushNothing \/ PushQueue \/ PushRefused \/ List \/ PullMeta \/ SaveCheckpoint
        \/ \E p \in Path : PullFile(p) \/ PullDelete(p) \/ PullMissing(p)

Loop == Spawn \/ Recv \/ Debounce \/ Quiet

Wakers == WatchReady \/ PollChanges

Fault == \/ WatchFails \/ PushReplyLost \/ Fail
         \/ \E skipped \in (SUBSET Path) \ {{}} : ScanSkips(skipped)

Stop == Terminate \/ Crash \/ FinalTimeout

Next == World \/ Launch \/ Record \/ Sync \/ Loop \/ Wakers \/ Fault \/ Stop

Spec == Init /\ [][Next]_vars

\* The process runs on: its tasks are scheduled and its requests come back.
FairSpec == Spec /\ WF_vars(Record \/ Sync \/ Loop) /\ WF_vars(Wakers)

----------------------------------------------------------------------------
TypeDisk ==
  /\ disk \in [Path -> File]
  /\ \A p \in Path : disk[p].content = Absent <=> disk[p].mtime = NoTime

TypeDurable ==
  /\ meta \in [Path -> Time \cup {NoTime}]
  /\ queue \in [Path -> Change]
  /\ \A p \in Path : queue[p].op = "upsert" => queue[p].mtime # NoTime
  /\ checkpoint \in Nat

TypeLoop ==
  /\ pc \in {"down", "spawn", "idle", "debounce", "scan", "record", "put", "meta",
             "queue", "push", "list", "pull", "pullmeta"}
  /\ phase \in {"start", "loop", "final"}
  /\ last \in {"none", "ok", "failed"}
  /\ local \in [Path -> Time \cup {NoTime}]
  /\ todo \subseteq Path
  /\ cur \in Path \cup {NoPath}
  /\ pc \in {"put", "meta", "queue", "pullmeta"} <=> cur # NoPath
  /\ buf \in File /\ (buf.content = Absent <=> buf.mtime = NoTime)
  /\ listed \in [seq : Nat, deleted : SUBSET Path]

TypeWakes ==
  /\ wake \in BOOLEAN
  /\ watch \in {"off", "starting", "on"}
  /\ since \in Nat \cup {NoPoll}

TypeHub ==
  /\ hub \in [Path -> Doc]
  /\ hubSeq \in Nat
  /\ \A p \in Path : hub[p].content = Absent <=> hub[p].mtime = NoTime

TypeBounds ==
  /\ clock \in Time /\ versions \in 0..MaxVersions
  /\ deletes \in 0..MaxDeletes /\ troubles \in 0..MaxTroubles

TypeHistory ==
  /\ owed \subseteq Version
  /\ blind \subseteq Path /\ removed \subseteq Path /\ emptied \subseteq Path

\* Type invariant: every variable holds a value of its type, a path has a file exactly
\* if it has an mtime, in the directory and on the hub, a queued upload carries an
\* mtime, and a step that works on a file has one to work on.
TypeOK ==
  /\ TypeDisk
  /\ TypeDurable
  /\ TypeLoop
  /\ TypeWakes
  /\ TypeHub
  /\ TypeBounds
  /\ TypeHistory

\* What the user saved stays in the directory until the user replaces or deletes it or
\* the hub has taken it: neither a reconciliation that writes the file back, nor a
\* pull, a failure, a crash or a second start loses it (reconcile_and_sync,
\* record_upsert, apply_remote).  The client does not answer for a save made while a
\* reconciliation runs or in the second of the recorded mtime, for one that a crash or
\* an error between the metadata and the queue leaves unqueued, nor for a file in a
\* directory that it cannot read.
SavesKept ==
  \A v \in owed : \E p \in Path : disk[p].content = v

\* The loop waits, no signal is in the channel and the long-poll is up to date.
AtRest == pc = "idle" /\ ~wake /\ since = hubSeq

\* When the loop has nothing to do after a reconciliation that succeeded, nothing is
\* queued and the directory equals the hub, except for files with a change that the
\* watcher could not report: no order of saves, scans, pulls and long-polls leaves a
\* change waiting with nothing to wake the loop (main, poll::spawn).
RestIsSynced ==
  AtRest /\ last = "ok" =>
    \A p \in Path \ blind : ~Queued(p) /\ disk[p].content = hub[p].content

\* The client queues a delete only of a file that a user deleted, here or on another
\* device, or whose directory could not be read: a scan that runs while files are
\* written and pulled takes no other file for deleted (reconcile_and_sync).
DeletesAreUsers == \A p \in Path : queue[p].op = "delete" => p \in removed

\* The hub gets the bytes of an empty file, which build_push_changes sends for a file
\* that is missing, only for a file that went away inside a reconciliation, or whose
\* delete a crash or an error kept from the queue: otherwise a delete replaces the
\* queued upsert before the push reads the file.
UploadsHaveFiles == \A p \in Path \ emptied : hub[p].content # Empty

\* Once the user and the other devices stop, so does the loop: the client's own writes
\* raise inotify events and its own pushes end the long-poll, but the reconciliations
\* these start find nothing new in the end (reconcile.rs, "its own writes don't
\* re-trigger as edits").
Settles == <>[](pc # "debounce" /\ (phase = "loop" => pc = "idle"))
============================================================================
