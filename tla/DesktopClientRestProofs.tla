---------------------- MODULE DesktopClientRestProofs ----------------------
(***************************************************************************)
(* A desktop client at rest is synced: RestIsSynced of DesktopClient, for  *)
(* every set of paths and every bound on time, edits, deletes, failures    *)
(* and crashes.                                                            *)
(*                                                                         *)
(* Two things may be late when the loop waits: a change in the directory   *)
(* and one on the hub.  A change in the directory is seen by the watcher,  *)
(* whose signal stays in the channel until the next reconciliation, or the *)
(* client is blind to it.  One on the hub is ahead of the checkpoint, and  *)
(* the long-poll, which begins at the checkpoint, never passes it without  *)
(* a signal either.  So without a signal everything is where it belongs.   *)
(***************************************************************************)
EXTENDS DesktopClientProofs

----------------------------------------------------------------------------
(* Positions in the hub's change feed. *)

Pulling == pc \in {"pull", "pullmeta"}

\* No position is beyond the hub's last change ...
Positions ==
  /\ \A p \in Path : hub[p].seq <= hubSeq
  /\ checkpoint <= hubSeq
  /\ since <= hubSeq
  /\ Pulling => checkpoint <= listed.seq /\ listed.seq <= hubSeq

\* ... what is to be pulled is ahead of the checkpoint, and listed as it is, unless it
\* changed after the feed was read ...
ListedAhead ==
  Pulling =>
    /\ \A p \in todo : hub[p].seq > checkpoint
    /\ \A p \in todo \cap listed.deleted :
         hub[p].content = Absent \/ hub[p].seq > listed.seq

\* ... and without a signal in the channel the long-poll is not ahead of the pull.
PollBehind ==
  ~wake => /\ Pulling => since <= listed.seq
           /\ pc \in {"idle", "spawn"} /\ last = "ok" => since <= checkpoint

FeedInv == Positions /\ ListedAhead /\ PollBehind

\* The numbers the feed is about.
LEMMA FeedTypes ==
  ASSUME TypeInv
  PROVE  /\ hubSeq \in Nat /\ checkpoint \in Nat /\ listed.seq \in Nat
         /\ since \in Nat \cup {-1} /\ wake \in BOOLEAN
         /\ \A p \in Path : hub[p].seq \in Nat
  BY DEF TypeInv, TypeOK, TypeHub, TypeDurable, TypeLoop, TypeWakes, Doc, NoPoll

\* A step that leaves the hub and the positions alone, and clears no signal while they
\* matter.
LEMMA FeedFrame ==
  ASSUME TypeInv, FeedInv, UNCHANGED <<hub, hubSeq, checkpoint>>,
         Pulling' => Pulling /\ UNCHANGED listed /\ todo' \subseteq todo,
         since' \in {since, NoPoll},
         pc' \in {"idle", "spawn"} /\ last' = "ok" => pc \in {"idle", "spawn"} /\ last = "ok",
         Pulling' \/ pc' \in {"idle", "spawn"} => (~wake' => ~wake)
  PROVE  FeedInv'
<1>1. Positions'
  BY FeedTypes DEF FeedInv, Positions, NoPoll
<1>2. ListedAhead'
  BY DEF FeedInv, ListedAhead
<1>3. PollBehind'
  BY FeedTypes DEF FeedInv, PollBehind, NoPoll, Positions
<1> QED BY <1>1, <1>2, <1>3 DEF FeedInv

\* A change on the hub gets the next number.
LEMMA FeedChange ==
  ASSUME TypeInv, FeedInv, UNCHANGED <<pc, last, checkpoint, todo, listed, wake, since>>,
         hubSeq' = hubSeq + 1,
         \A p \in Path : hub'[p] = hub[p] \/ hub'[p].seq = hubSeq + 1
  PROVE  FeedInv'
<1>1. Positions'
  BY FeedTypes DEF FeedInv, Positions, Pulling
<1>2. ListedAhead'
  BY FeedTypes DEF FeedInv, Positions, ListedAhead, Pulling, TypeInv, TypeOK, TypeLoop
<1>3. PollBehind'
  BY DEF FeedInv, PollBehind, Pulling
<1> QED BY <1>1, <1>2, <1>3 DEF FeedInv

\* A push numbers every document it changes, and it changes none but those taken of the
\* queued ones, and no document that a queued delete finds absent.
LEMMA UploadNumbers ==
  ASSUME TypeInv, NEW taken \in SUBSET Path, Upload(taken)
  PROVE  /\ hubSeq' = hubSeq + 1
         /\ \A p \in Path :
              \/ hub'[p].seq = hubSeq + 1
              \/ hub'[p] = hub[p] /\ ~Queued(p)
              \/ hub'[p] = hub[p] /\ queue[p].op = "delete" /\ hub[p].content = Absent
              \/ hub'[p] = hub[p] /\ p \notin taken
<1>1. PICK lost \in SUBSET {p \in taken : Queued(p) /\ Unpulled(p)} :
        hub' = [p \in Path |-> IF p \in lost THEN [hub[p] EXCEPT !.seq = hubSeq + 1]
                               ELSE IF p \in taken THEN Pushed(p) ELSE hub[p]]
  BY DEF Upload
<1>2. ASSUME NEW p \in Path
      PROVE  \/ Pushed(p).seq = hubSeq + 1
             \/ Pushed(p) = hub[p] /\ ~Queued(p)
             \/ Pushed(p) = hub[p] /\ queue[p].op = "delete" /\ hub[p].content = Absent
  <2>1. queue[p].op \in {"none", "upsert", "delete"}
    BY DEF TypeInv, TypeOK, TypeDurable, Change
  <2>2. CASE queue[p].op = "upsert"
    BY <2>2 DEF Pushed
  <2>3. CASE queue[p].op = "delete" /\ hub[p].content # Absent
    BY <2>3 DEF Pushed, NoDoc
  <2>4. CASE queue[p].op # "upsert" /\ ~(queue[p].op = "delete" /\ hub[p].content # Absent)
    BY <2>1, <2>4 DEF Pushed, Queued
  <2> QED BY <2>2, <2>3, <2>4
<1>3. ASSUME NEW p \in Path PROVE [hub[p] EXCEPT !.seq = hubSeq + 1].seq = hubSeq + 1
  BY DEF TypeInv, TypeOK, TypeHub, Doc
<1>4. \A p \in Path : hub'[p] = IF p \in lost THEN [hub[p] EXCEPT !.seq = hubSeq + 1]
                                ELSE IF p \in taken THEN Pushed(p) ELSE hub[p]
  BY <1>1
<1>5. \A p \in Path : p \in lost => hub'[p].seq = hubSeq + 1
  BY <1>3, <1>4
<1>6. \A p \in Path : p \notin lost => hub'[p] = IF p \in taken THEN Pushed(p) ELSE hub[p]
  BY <1>4
<1> QED BY <1>2, <1>5, <1>6 DEF Upload

\* What reconcile_and_sync leaves of the loop when it returns.
LEMMA ReturnedLoop ==
  ASSUME NEW o \in {"ok", "failed"}, Reconciled(o)
  PROVE  /\ pc' \in {"spawn", "idle", "down"}
         /\ pc' # "down" => last' = o /\ UNCHANGED <<wake, since>>
         /\ since' \in {since, NoPoll}
  BY DEF Reconciled, Exit, wakes

LEMMA FeedStep == ASSUME TypeInv, FeedInv, [Next]_vars PROVE FeedInv'
<1> USE DEF durable, locals, wakes, remote, bounds, history
<1>1. CASE World
  <2>1. ASSUME NEW p \in Path, Save(p) \/ Remove(p) PROVE FeedInv'
    <3>1. ~wake' => ~wake
      BY <2>1 DEF Save, Remove, Write
    <3>2. UNCHANGED <<hub, hubSeq, checkpoint, pc, last, todo, listed, since>>
      BY <2>1 DEF Save, Remove
    <3> QED BY <3>1, <3>2, FeedFrame DEF Pulling
  <2>2. ASSUME NEW p \in Path, RemoteEdit(p) \/ RemoteDelete(p) PROVE FeedInv'
    <3>1. PICK doc : RemoteChange(p, doc) /\ doc.seq = hubSeq + 1
      <4>1. CASE RemoteEdit(p)
        BY <4>1 DEF RemoteEdit
      <4>2. CASE RemoteDelete(p)
        BY <4>2 DEF RemoteDelete, NoDoc
      <4> QED BY <2>2, <4>1, <4>2
    <3>2. \A q \in Path : hub'[q] = hub[q] \/ hub'[q].seq = hubSeq + 1
      BY <3>1 DEF RemoteChange, TypeInv, TypeOK, TypeHub
    <3> QED BY <3>1, <3>2, FeedChange DEF RemoteChange
  <2>3. CASE Tick
    BY <2>3, FeedFrame DEF Tick, Pulling
  <2> QED BY <1>1, <2>1, <2>2, <2>3 DEF World
<1>2. CASE Record
  <2>1. pc' \notin {"pull", "pullmeta", "idle", "spawn"}
    BY <1>2 DEF Record, Scan, Scanned, StartSync, PutFile, PutMeta, Enqueue, SkipFile,
                ReadFile, FindDeleted
  <2>2. UNCHANGED <<hub, hubSeq, checkpoint, since>>
    BY <1>2 DEF Record, Scan, StartSync, PutFile, PutMeta, Enqueue, SkipFile, ReadFile,
                FindDeleted
  <2> QED BY <2>1, <2>2, FeedFrame DEF Pulling
<1>3. CASE Launch \/ Recv \/ Debounce \/ Quiet \/ Terminate
  BY <1>3, FeedFrame DEF Launch, Recv, Debounce, Quiet, Terminate, Reconcile, Pulling
<1>4. CASE Spawn
  BY <1>4, FeedTypes DEF Spawn, FeedInv, Positions, ListedAhead, PollBehind, Pulling
<1>5. CASE WatchReady \/ WatchFails
  BY <1>5, FeedFrame DEF WatchReady, WatchFails, Pulling
<1>6. CASE PollChanges
  BY <1>6, FeedTypes DEF PollChanges, FeedInv, Positions, ListedAhead, PollBehind, Pulling
<1>7. CASE Crash \/ FinalTimeout \/ Fail \/ \E p \in Path : PullMissing(p)
  <2>1. /\ pc' \in {"spawn", "idle", "down"}
        /\ pc' # "down" => last' = "failed"
        /\ since' \in {since, NoPoll}
    BY <1>7, ReturnedLoop DEF Crash, FinalTimeout, Exit, Fail, PullMissing
  <2>2. UNCHANGED <<hub, hubSeq, checkpoint>>
    BY <1>7 DEF Crash, FinalTimeout, Fail, PullMissing
  <2>3. Positions'
    BY <2>1, <2>2, FeedTypes DEF FeedInv, Positions, Pulling, NoPoll
  <2> QED BY <2>1, <2>3 DEF FeedInv, ListedAhead, PollBehind, Pulling
<1>8. CASE PushReplyLost \/ PushRefused
  <2>1. /\ pc' \in {"spawn", "idle", "down"}
        /\ pc' # "down" => last' = "failed"
        /\ since' \in {since, NoPoll} /\ checkpoint' = checkpoint
    BY <1>8, ReturnedLoop DEF PushReplyLost, PushRefused
  <2>2. /\ hubSeq' \in {hubSeq, hubSeq + 1}
        /\ \A p \in Path : hub'[p] = hub[p] \/ hub'[p].seq = hubSeq'
    <3>1. ASSUME NEW taken \in SUBSET Path, Upload(taken)
          PROVE  /\ hubSeq' = hubSeq + 1
                 /\ \A p \in Path : hub'[p] = hub[p] \/ hub'[p].seq = hubSeq + 1
      BY <3>1, UploadNumbers
    <3>2. CASE PushReplyLost
      BY <3>1, <3>2 DEF PushReplyLost
    <3>3. CASE PushRefused
      BY <3>1, <3>3, PushRefusedIs
    <3> QED BY <1>8, <3>2, <3>3
  <2>3. Positions'
    BY <2>1, <2>2, FeedTypes DEF FeedInv, Positions, Pulling, NoPoll
  <2> QED BY <2>1, <2>3 DEF FeedInv, ListedAhead, PollBehind, Pulling
<1>9. ASSUME NEW skipped \in SUBSET Path, ScanSkips(skipped) PROVE FeedInv'
  BY <1>9, FeedFrame DEF ScanSkips, Scanned, Pulling
<1>10. CASE PushNothing
  BY <1>10, FeedFrame DEF PushNothing, Pulling
<1>11. CASE PushQueue
  <2>1. hubSeq' = hubSeq + 1 /\ \A p \in Path : hub'[p] = hub[p] \/ hub'[p].seq = hubSeq + 1
    BY <1>11, UploadNumbers DEF PushQueue
  <2>2. pc' = "list" /\ UNCHANGED <<checkpoint, since>>
    BY <1>11 DEF PushQueue
  <2>3. Positions'
    BY <2>1, <2>2, FeedTypes DEF FeedInv, Positions, Pulling
  <2> QED BY <2>2, <2>3 DEF FeedInv, ListedAhead, PollBehind, Pulling
<1>12. CASE List
  <2>1. /\ pc' = "pull" /\ UNCHANGED <<hub, hubSeq, checkpoint, since, wake>>
        /\ listed'.seq = hubSeq
        /\ \A p \in todo' : p \in Path /\ hub[p].seq > checkpoint
        /\ \A p \in listed'.deleted : hub[p].content = Absent
    BY <1>12 DEF List
  <2>2. Positions'
    BY <2>1, FeedTypes DEF FeedInv, Positions
  <2>3. ListedAhead'
    BY <2>1 DEF ListedAhead
  <2>4. PollBehind'
    BY <2>1 DEF FeedInv, Positions, PollBehind
  <2> QED BY <2>2, <2>3, <2>4 DEF FeedInv
<1>13. ASSUME NEW p \in Path, PullFile(p) \/ PullDelete(p) PROVE FeedInv'
  <2>1. PICK file : Apply(p, file)
    BY <1>13 DEF PullFile, PullDelete
  <2>2. ~wake' => ~wake
    BY <2>1 DEF Apply, Write
  <2>3. Pulling /\ pc' = "pullmeta" /\ UNCHANGED <<hub, hubSeq, checkpoint, listed, todo, since>>
    BY <2>1 DEF Apply, Pulling
  <2> QED BY <2>2, <2>3, FeedFrame
<1>14. CASE PullMeta
  BY <1>14, FeedFrame DEF PullMeta, Pulling
<1>15. CASE SaveCheckpoint
  <2>1. /\ pc' \in {"spawn", "idle", "down"} /\ pc = "pull"
        /\ pc' # "down" => UNCHANGED <<wake, since>>
        /\ since' \in {since, NoPoll} /\ checkpoint' = listed.seq
        /\ UNCHANGED <<hub, hubSeq>>
    BY <1>15, ReturnedLoop DEF SaveCheckpoint
  <2>2. Positions'
    BY <2>1, FeedTypes DEF FeedInv, Positions, Pulling, NoPoll
  <2>3. PollBehind'
    BY <2>1, FeedTypes DEF FeedInv, PollBehind, Pulling
  <2> QED BY <2>1, <2>2, <2>3 DEF FeedInv, ListedAhead, Pulling
<1>16. CASE UNCHANGED vars
  BY <1>16, FeedFrame DEF vars, Pulling
<1> QED
  BY <1>1, <1>2, <1>3, <1>4, <1>5, <1>6, <1>7, <1>8, <1>9, <1>10, <1>11, <1>12, <1>13,
     <1>14, <1>15, <1>16 DEF Next, Sync, Loop, Wakers, Fault, Stop

----------------------------------------------------------------------------
(* What a path looks like to the client, and where its content is. *)

\* The hub has a change of this path that the client will still pull.
Ahead(p) == IF Pulling THEN p \in todo \/ hub[p].seq > listed.seq
            ELSE hub[p].seq > checkpoint

Same(p) == disk[p].content = hub[p].content

\* The client knows of every change of this path, and the metadata and the queue are
\* in step.
Sure(p) == p \notin blind /\ ~(pc = "queue" /\ cur = p)

\* A file that looks synced is queued, or about to be pulled, or it is synced.
LooksSynced(p) == Sure(p) /\ meta[p] = disk[p].mtime => Queued(p) \/ Ahead(p) \/ Same(p)

\* The same for a path without metadata, which looks synced once its file is gone.
LooksGone(p) == Sure(p) /\ meta[p] = NoTime => Queued(p) \/ Ahead(p) \/ hub[p].content = Absent

\* A queued delete left no metadata behind.
DeleteUnknown(p) == Sure(p) /\ queue[p].op = "delete" => meta[p] = NoTime

Tracked(p) == LooksSynced(p) /\ LooksGone(p) /\ DeleteUnknown(p)

\* Nothing has happened to this path since the last signal was received.
Calm(p) == p \notin blind /\ ~wake

\* The scan is still right about a calm path, and once it is done with it, so is the
\* metadata ...
ScanRight(p) ==
  Listing /\ Calm(p) =>
    /\ disk[p].mtime = local[p]
    /\ p \notin todo /\ local[p] # NoTime => meta[p] = local[p]

\* ... so it looks synced at the push ...
PushReady(p) == pc = "push" /\ Calm(p) => meta[p] = disk[p].mtime

\* ... and is synced, but for what is still to be pulled, after it ...
Pulled(p) == pc \in {"list", "pull", "pullmeta"} /\ Calm(p) => Ahead(p) \/ Same(p)

\* ... and when the reconciliation has returned.
Done(p) ==
  pc \in {"idle", "spawn"} /\ last = "ok" => ~Queued(p) /\ (Calm(p) => Ahead(p) \/ Same(p))

Settled(p) == ScanRight(p) /\ PushReady(p) /\ Pulled(p) /\ Done(p)

\* The file that is being recorded carries the mtime the scan found, which the metadata
\* does not have yet.
BufNew ==
  /\ Recording => buf.mtime = local[cur]
  /\ pc \in {"put", "meta"} => meta[cur] # buf.mtime

\* The file that is being pulled is the hub's, and it is in the directory unless the
\* user replaced it, which its mtime or a signal shows.
BufPulled ==
  pc = "pullmeta" =>
    /\ cur \in todo
    /\ hub[cur].content = buf.content \/ hub[cur].seq > listed.seq
    /\ cur \notin blind =>
         /\ disk[cur].mtime = buf.mtime => disk[cur].content = buf.content
         /\ ~wake => disk[cur].content = buf.content

RestInv ==
  /\ \A p \in Path : Tracked(p) /\ Settled(p)
  /\ BufNew
  /\ BufPulled

\* A path that a step of the loop leaves alone.
LEMMA RestFrame ==
  ASSUME NEW p \in Path, Tracked(p), Settled(p),
         UNCHANGED <<pc, last, local, todo, cur, listed, checkpoint>>,
         disk'[p] = disk[p], meta'[p] = meta[p], queue'[p] = queue[p], hub'[p] = hub[p],
         p \in blind => p \in blind', wake => wake'
  PROVE  Tracked(p)' /\ Settled(p)'
<1>1. Ahead(p)' = Ahead(p) /\ Same(p)' = Same(p) /\ Queued(p)' = Queued(p)
  BY DEF Ahead, Pulling, Same, Queued
<1>2. (Sure(p)' => Sure(p)) /\ (Calm(p)' => Calm(p))
  BY DEF Sure, Calm
<1>3. Tracked(p)'
  BY <1>1, <1>2 DEF Tracked, LooksSynced, LooksGone, DeleteUnknown
<1>4. Settled(p)'
  BY <1>1, <1>2 DEF Settled, ScanRight, PushReady, Pulled, Done, Listing
<1> QED BY <1>3, <1>4

\* What is ahead of a pull is ahead of the checkpoint, when the pull is given up.
LEMMA AheadKept ==
  ASSUME TypeInv, FeedInv, NEW p \in Path, Ahead(p), hub'[p] = hub[p],
         UNCHANGED checkpoint, ~Pulling'
  PROVE  Ahead(p)'
  BY FeedTypes DEF Ahead, FeedInv, Positions, ListedAhead

\* The loop is out of a reconciliation that did not succeed, or at its start.
LEMMA RestAway ==
  ASSUME TypeInv, FeedInv, RestInv, UNCHANGED <<disk, durable, hub>>,
         pc' \in {"down", "scan", "debounce", "idle", "spawn"},
         pc' \in {"idle", "spawn"} => last' = "failed",
         blind \subseteq blind', pc = "queue" => cur \in blind'
  PROVE  RestInv'
<1>1. ASSUME NEW p \in Path PROVE Tracked(p)' /\ Settled(p)'
  <2>1. Tracked(p) /\ Settled(p)
    BY DEF RestInv
  <2>2. Sure(p)' => Sure(p)
    BY DEF Sure
  <2>3. Ahead(p) => Ahead(p)'
    BY AheadKept DEF Pulling, durable
  <2>4. Tracked(p)'
    BY <2>1, <2>2, <2>3 DEF Tracked, LooksSynced, LooksGone, DeleteUnknown, Same, Queued, durable
  <2>5. Settled(p)'
    BY DEF Settled, ScanRight, PushReady, Pulled, Done, Listing
  <2> QED BY <2>4, <2>5
<1>2. BufNew' /\ BufPulled'
  BY DEF BufNew, BufPulled, Recording
<1> QED BY <1>1, <1>2 DEF RestInv

\* The user's changes are seen, by the watcher or by the next scan, or the client is
\* blind to them.
LEMMA RestUser ==
  ASSUME TypeInv, RestInv, NEW p \in Path, Save(p) \/ Remove(p)
  PROVE  RestInv'
<1>1. UNCHANGED <<pc, last, durable, locals, hub>>
  BY DEF Save, Remove, remote
<1>2. \A q \in Path \ {p} : disk'[q] = disk[q]
  BY DEF Save, Remove, Write, TypeInv, TypeOK, TypeDisk
<1>3. (wake => wake') /\ blind \subseteq blind'
  BY DEF Save, Remove, Write, SeenUnless
<1>4. ASSUME NEW q \in Path \ {p} PROVE Tracked(q)' /\ Settled(q)'
  BY <1>1, <1>2, <1>3, RestFrame DEF durable, locals, RestInv
<1>5. p \notin blind' => p \notin blind /\ wake'
  <2>1. p \notin blind' => p \notin blind /\ watch = "on"
    BY DEF Save, Remove, SeenUnless
  <2>2. Exists(p) \/ [content |-> versions + 1, mtime |-> clock] # NoFile
    BY DEF TypeInv, TypeOK, TypeBounds, NoFile, Absent
  <2>3. CASE Save(p)
    BY <2>1, <2>2, <2>3 DEF Save, Write
  <2>4. CASE Remove(p)
    BY <2>1, <2>4 DEF Remove, Write
  <2> QED BY <2>3, <2>4
<1>6. Ahead(p)' = Ahead(p) /\ Queued(p)' = Queued(p) /\ (Sure(p)' => Sure(p))
  BY <1>1, <1>3 DEF Ahead, Pulling, Queued, Sure, durable, locals
<1>7. LooksGone(p)' /\ DeleteUnknown(p)'
  BY <1>1, <1>6 DEF RestInv, Tracked, LooksGone, DeleteUnknown, durable
<1>8. LooksSynced(p)' /\ (pc = "pullmeta" /\ cur = p /\ p \notin blind' =>
        (disk'[p].mtime = buf.mtime => disk'[p].content = buf.content))
  <2>1. CASE Save(p)
    <3>1. disk'[p].mtime = clock
      BY <2>1 DEF Save, Write, TypeInv, TypeOK, TypeDisk
    <3>2. p \notin blind' =>
            meta[p] # clock /\ ~(cur = p /\ pc \in {"meta", "pullmeta"} /\ buf.mtime = clock)
      BY <2>1 DEF Save, SeenUnless
    <3> QED BY <1>1, <3>1, <3>2 DEF LooksSynced, Sure, durable
  <2>2. CASE Remove(p)
    <3>1. disk'[p].mtime = NoTime /\ disk'[p].content = Absent
      BY <2>2 DEF Remove, Write, NoFile, TypeInv, TypeOK, TypeDisk
    <3>2. LooksGone(p)
      BY DEF RestInv, Tracked
    <3>3. buf.mtime = NoTime => buf.content = Absent
      BY DEF TypeInv, TypeOK, TypeLoop
    <3> QED BY <1>1, <1>6, <3>1, <3>2, <3>3 DEF LooksSynced, LooksGone, Same, durable
  <2> QED BY <2>1, <2>2
<1>9. Settled(p)'
  <2>1. ~Calm(p)'
    BY <1>5 DEF Calm
  <2> QED BY <1>1, <1>6, <2>1 DEF RestInv, Settled, ScanRight, PushReady, Pulled, Done
<1>10. BufNew'
  BY <1>1 DEF RestInv, BufNew, Recording, durable, locals
<1>11. BufPulled'
  <2>1. CASE pc = "pullmeta" /\ cur = p
    BY <1>1, <1>5, <1>8, <2>1 DEF RestInv, BufPulled, locals
  <2>2. CASE pc = "pullmeta" /\ cur # p
    <3>1. cur \in Path
      BY <2>2 DEF TypeInv, TypeOK, TypeLoop
    <3> QED BY <1>1, <1>2, <1>3, <2>2, <3>1 DEF RestInv, BufPulled, locals
  <2>3. CASE pc # "pullmeta"
    BY <1>1, <2>3 DEF BufPulled
  <2> QED BY <2>1, <2>2, <2>3
<1> QED BY <1>4, <1>7, <1>8, <1>9, <1>10, <1>11 DEF RestInv, Tracked

\* Another device's change is ahead of every position.
LEMMA RestRemote ==
  ASSUME TypeInv, FeedInv, RestInv, NEW p \in Path, RemoteEdit(p) \/ RemoteDelete(p)
  PROVE  RestInv'
<1>1. /\ \A q \in Path \ {p} : hub'[q] = hub[q]
      /\ hub'[p].seq = hubSeq + 1
  <2>1. CASE RemoteEdit(p)
    BY <2>1 DEF RemoteEdit, RemoteChange, TypeInv, TypeOK, TypeHub
  <2>2. CASE RemoteDelete(p)
    BY <2>2 DEF RemoteDelete, RemoteChange, NoDoc, TypeInv, TypeOK, TypeHub
  <2> QED BY <2>1, <2>2
<1>2. UNCHANGED <<disk, durable, pc, locals, last, wake, blind>>
  BY DEF RemoteEdit, RemoteDelete, RemoteChange, history
<1>3. ASSUME NEW q \in Path \ {p} PROVE Tracked(q)' /\ Settled(q)'
  BY <1>1, <1>2, RestFrame DEF durable, locals, RestInv
<1>4. hub'[p].seq > checkpoint /\ (Pulling => hub'[p].seq > listed.seq)
  BY <1>1, FeedTypes DEF FeedInv, Positions
<1>5. Ahead(p)'
  BY <1>2, <1>4 DEF Ahead, Pulling, durable, locals
<1>6. Tracked(p)'
  BY <1>2, <1>5 DEF RestInv, Tracked, LooksSynced, LooksGone, DeleteUnknown, Sure, durable,
     locals
<1>7. Settled(p)'
  BY <1>2, <1>5 DEF RestInv, Settled, ScanRight, PushReady, Pulled, Done, Calm, Listing,
     Queued, durable, locals
<1>8. BufNew'
  BY <1>2 DEF RestInv, BufNew, Recording, durable, locals
<1>9. BufPulled'
  BY <1>1, <1>2, <1>4 DEF RestInv, BufPulled, Pulling, locals, TypeInv, TypeOK, TypeLoop
<1> QED BY <1>3, <1>6, <1>7, <1>8, <1>9 DEF RestInv

\* The scan sees every file, or the client is blind to it.
LEMMA RestScan ==
  ASSUME TypeInv, RestInv, NEW skipped \in SUBSET Path, pc = "scan", Scanned(skipped),
         UNCHANGED <<disk, durable, hub, wake, cur, buf, listed>>
  PROVE  RestInv'
<1>1. ASSUME NEW p \in Path PROVE Tracked(p)' /\ Settled(p)'
  <2>1. Tracked(p)
    BY DEF RestInv
  <2>2. /\ p \notin blind' => p \notin blind /\ local'[p] = disk[p].mtime
        /\ p \notin todo' => local'[p] = NoTime
        /\ pc' = "record"
    BY DEF Scanned
  <2>3. Tracked(p)'
    BY <2>1, <2>2 DEF Tracked, LooksSynced, LooksGone, DeleteUnknown, Sure, Ahead, Pulling,
       Same, Queued, durable
  <2>4. Settled(p)'
    BY <2>2 DEF Settled, ScanRight, PushReady, Pulled, Done, Calm
  <2> QED BY <2>3, <2>4
<1>2. BufNew' /\ BufPulled'
  BY DEF Scanned, BufNew, BufPulled, Recording
<1> QED BY <1>1, <1>2 DEF RestInv

\* Moving on among the files leaves what is known of them alone.
LEMMA RestWalk ==
  ASSUME TypeInv, RestInv, UNCHANGED <<disk, durable, hub, wake, blind, local, listed>>,
         pc = "record", pc' \in {"record", "put"}, todo' \subseteq todo,
         \A p \in todo \ todo' : meta[p] = local[p] \/ ~Exists(p)
  PROVE  \A p \in Path : Tracked(p)' /\ Settled(p)'
<1> SUFFICES ASSUME NEW p \in Path PROVE Tracked(p)' /\ Settled(p)'
  OBVIOUS
<1>1. Tracked(p) /\ Settled(p)
  BY DEF RestInv
<1>2. Tracked(p)'
  BY <1>1 DEF Tracked, LooksSynced, LooksGone, DeleteUnknown, Sure, Ahead, Pulling, Same,
     Queued, durable
<1>3. ~Exists(p) => disk[p].mtime = NoTime
  BY DEF Exists, TypeInv, TypeOK, TypeDisk
<1>4. ScanRight(p)'
  BY <1>1, <1>3 DEF Settled, ScanRight, Calm, Listing, durable
<1>5. Settled(p)'
  BY <1>4 DEF Settled, PushReady, Pulled, Done
<1> QED BY <1>2, <1>5

\* Recording a file.
LEMMA RestRecord ==
  ASSUME TypeInv, DatedInv, EmptyInv, RestInv, Record
  PROVE  RestInv'
<1>1. CASE Scan
  BY <1>1, RestScan DEF Scan, remote
<1>2. CASE StartSync
  <2>1. /\ pc = "record" /\ pc' = "push" /\ todo = {}
        /\ UNCHANGED <<disk, durable, hub, wake, blind, locals>>
    BY <1>2 DEF StartSync, remote, history
  <2>2. ASSUME NEW p \in Path PROVE Tracked(p)' /\ Settled(p)'
    <3>1. Tracked(p) /\ Settled(p)
      BY DEF RestInv
    <3>2. meta[p] # NoTime => local[p] # NoTime
      BY <1>2 DEF StartSync, Known
    <3>3. Tracked(p)'
      BY <2>1, <3>1 DEF Tracked, LooksSynced, LooksGone, DeleteUnknown, Sure, Ahead, Pulling,
         Same, Queued, durable
    <3>4. Calm(p) => meta[p] = disk[p].mtime
      BY <2>1, <3>1, <3>2 DEF Settled, ScanRight, Listing
    <3>5. Settled(p)'
      BY <2>1, <3>4 DEF Settled, ScanRight, PushReady, Pulled, Done, Calm, Listing, durable
    <3> QED BY <3>3, <3>5
  <2>3. BufNew' /\ BufPulled'
    BY <2>1 DEF BufNew, BufPulled, Recording
  <2> QED BY <2>2, <2>3 DEF RestInv
<1>3. CASE PutFile
  <2>1. /\ cur \in Path /\ buf \in File /\ local[cur] # 0 /\ buf.mtime = local[cur]
        /\ meta[cur] # buf.mtime
        /\ (buf.content = Absent <=> buf.mtime = NoTime)
    BY <1>3 DEF PutFile, TypeInv, TypeOK, TypeLoop, DatedInv, Listing, RestInv, BufNew,
                Recording
  <2>2. /\ UNCHANGED <<durable, locals, hub, blind>> /\ pc = "put" /\ pc' = "meta"
        /\ wake => wake'
    BY <1>3 DEF PutFile, Write, remote, history
  <2>3. \A q \in Path \ {cur} : disk'[q] = disk[q]
    BY <1>3 DEF PutFile, Write, TypeInv, TypeOK, TypeDisk
  <2>4. disk'[cur].mtime = buf.mtime
    <3>1. disk'[cur] = Stored(buf)
      BY <1>3, <2>1 DEF PutFile, Write, TypeInv, TypeOK, TypeDisk
    <3>2. Stored(buf).mtime = buf.mtime
      BY <2>1 DEF Stored, NoFile, File, Time, NoTime
    <3> QED BY <3>1, <3>2
  <2>5. ASSUME NEW p \in Path PROVE Tracked(p)' /\ Settled(p)'
    <3>1. Tracked(p) /\ Settled(p)
      BY DEF RestInv
    <3>2. CASE p = cur
      <4>1. Tracked(p)'
        BY <2>1, <2>2, <2>4, <3>1, <3>2 DEF Tracked, LooksSynced, LooksGone, DeleteUnknown,
           Sure, Ahead, Pulling, Queued, durable, locals
      <4>2. ScanRight(p)'
        BY <2>1, <2>2, <2>4, <3>1, <3>2 DEF Settled, ScanRight, Calm, Listing, durable, locals
      <4> QED BY <2>2, <4>1, <4>2 DEF Settled, PushReady, Pulled, Done
    <3>3. CASE p # cur
      <4>1. disk'[p] = disk[p]
        BY <2>3, <3>3
      <4>2. Tracked(p)'
        BY <2>2, <3>1, <4>1 DEF Tracked, LooksSynced, LooksGone, DeleteUnknown, Sure, Ahead,
           Pulling, Same, Queued, durable, locals
      <4>3. ScanRight(p)'
        BY <2>2, <3>1, <4>1 DEF Settled, ScanRight, Calm, Listing, durable, locals
      <4> QED BY <2>2, <4>2, <4>3 DEF Settled, PushReady, Pulled, Done
    <3> QED BY <3>2, <3>3
  <2>6. BufNew' /\ BufPulled'
    BY <2>1, <2>2 DEF BufNew, BufPulled, Recording, durable, locals
  <2> QED BY <2>5, <2>6 DEF RestInv
<1>4. CASE PutMeta
  <2>1. /\ cur \in Path /\ buf.mtime = local[cur]
        /\ UNCHANGED <<disk, queue, checkpoint, locals, wake, hub, blind>>
        /\ pc = "meta" /\ pc' = "queue"
    BY <1>4 DEF PutMeta, TypeInv, TypeOK, TypeLoop, RestInv, BufNew, Recording, remote, history
  <2>2. \A q \in Path : meta'[q] = IF q = cur THEN buf.mtime ELSE meta[q]
    BY <1>4, <2>1 DEF PutMeta, TypeInv, TypeOK, TypeDurable
  <2>3. ASSUME NEW p \in Path PROVE Tracked(p)' /\ Settled(p)'
    <3>1. Tracked(p) /\ Settled(p)
      BY DEF RestInv
    <3>2. Tracked(p)'
      BY <2>1, <2>2, <3>1 DEF Tracked, LooksSynced, LooksGone, DeleteUnknown, Sure, Ahead,
         Pulling, Same, Queued, locals
    <3>3. ScanRight(p)'
      BY <2>1, <2>2, <3>1 DEF Settled, ScanRight, Calm, Listing, locals
    <3> QED BY <2>1, <3>2, <3>3 DEF Settled, PushReady, Pulled, Done
  <2>4. BufNew' /\ BufPulled'
    BY <2>1 DEF BufNew, BufPulled, Recording, locals
  <2> QED BY <2>3, <2>4 DEF RestInv
<1>5. CASE Enqueue
  <2>1. /\ cur \in Path /\ buf.mtime = local[cur] /\ meta[cur] = buf.mtime
        /\ buf.content = Absent => buf.mtime = NoTime
    BY <1>5 DEF Enqueue, TypeInv, TypeOK, TypeLoop, RestInv, BufNew, Recording, EmptyInv,
                MetaWritten
  <2>2. /\ UNCHANGED <<disk, meta, checkpoint, local, listed, wake, hub>>
        /\ pc = "queue" /\ pc' = "record" /\ todo' = todo \ {cur} /\ cur' = NoPath
        /\ \A q \in Path \ {cur} : queue'[q] = queue[q]
        /\ queue'[cur].op \in {"upsert", "delete"}
        /\ queue'[cur].op = "delete" => buf.content = Absent
    BY <1>5, <2>1 DEF Enqueue, remote, TypeInv, TypeOK, TypeDurable
  <2>3. /\ \A q \in Path \ {cur} : q \notin blind' => q \notin blind
        /\ cur \notin blind' => cur \notin blind \/ disk[cur] = buf
    BY <1>5 DEF Enqueue, Answered
  <2>4. ASSUME NEW p \in Path \ {cur} PROVE Tracked(p)' /\ Settled(p)'
    <3>1. Tracked(p) /\ Settled(p) /\ (p \notin blind' => p \notin blind) /\ queue'[p] = queue[p]
      BY <2>2, <2>3 DEF RestInv
    <3>2. Tracked(p)'
      BY <2>2, <3>1 DEF Tracked, LooksSynced, LooksGone, DeleteUnknown, Sure, Ahead,
         Pulling, Same, Queued
    <3>3. ScanRight(p)'
      BY <2>2, <3>1 DEF Settled, ScanRight, Calm, Listing
    <3> QED BY <2>2, <3>2, <3>3 DEF Settled, PushReady, Pulled, Done
  <2>5. PICK p \in Path : p = cur
    BY <2>1
  <2>6. Tracked(p)'
    BY <2>1, <2>2, <2>5 DEF Tracked, LooksSynced, LooksGone, DeleteUnknown, Queued
  <2>7. ScanRight(p)'
    <3>1. Calm(p)' => disk[p].mtime = local[p]
      BY <2>1, <2>2, <2>3, <2>5 DEF RestInv, Settled, ScanRight, Calm, Listing
    <3> QED BY <2>1, <2>2, <2>5, <3>1 DEF ScanRight
  <2>8. Settled(p)'
    BY <2>2, <2>7 DEF Settled, PushReady, Pulled, Done
  <2>9. BufNew' /\ BufPulled'
    BY <2>2 DEF BufNew, BufPulled, Recording
  <2> QED BY <2>4, <2>5, <2>6, <2>8, <2>9 DEF RestInv
<1>6. ASSUME NEW p \in Path, SkipFile(p) PROVE RestInv'
  <2>1. \A q \in Path : Tracked(q)' /\ Settled(q)'
    BY <1>6, RestWalk DEF SkipFile, Changed, remote, history
  <2>2. BufNew' /\ BufPulled'
    BY <1>6 DEF SkipFile, BufNew, BufPulled, Recording
  <2> QED BY <2>1, <2>2 DEF RestInv
<1>7. ASSUME NEW p \in Path, ReadFile(p) \/ FindDeleted(p) PROVE RestInv'
  <2>1. \A q \in Path : Tracked(q)' /\ Settled(q)'
    BY <1>7, RestWalk DEF ReadFile, FindDeleted, remote, history
  <2>2. BufNew' /\ BufPulled'
    BY <1>7 DEF ReadFile, FindDeleted, Changed, Known, NoFile, BufNew, BufPulled, Recording,
       durable
  <2> QED BY <2>1, <2>2 DEF RestInv
<1> QED BY <1>1, <1>2, <1>3, <1>4, <1>5, <1>6, <1>7 DEF Record

\* A push leaves a path ahead, or as it was and without a queued change.
LEMMA UploadTracked ==
  ASSUME TypeInv, FeedInv, RestInv, pc = "push", NEW taken \in SUBSET Path, Upload(taken),
         NEW p \in Path, ~Pulling', UNCHANGED <<disk, meta, checkpoint>>
  PROVE  \/ Ahead(p)'
         \/ hub'[p] = hub[p] /\ (Ahead(p)' <=> Ahead(p)) /\ ~Queued(p)
         \/ /\ hub'[p] = hub[p] /\ Queued(p) /\ hub[p].content = Absent
            /\ p \notin blind => meta[p] = NoTime
         \/ hub'[p] = hub[p] /\ (Ahead(p)' <=> Ahead(p)) /\ p \notin taken
<1>1. \/ hub'[p].seq = hubSeq + 1
      \/ hub'[p] = hub[p] /\ ~Queued(p)
      \/ hub'[p] = hub[p] /\ queue[p].op = "delete" /\ hub[p].content = Absent
      \/ hub'[p] = hub[p] /\ p \notin taken
  BY UploadNumbers
<1>2. CASE hub'[p].seq = hubSeq + 1
  BY <1>2, FeedTypes DEF Ahead, FeedInv, Positions
<1>3. CASE hub'[p] = hub[p] /\ ~Queued(p)
  BY <1>3 DEF Ahead, Pulling
<1>4. CASE hub'[p] = hub[p] /\ queue[p].op = "delete" /\ hub[p].content = Absent
  BY <1>4 DEF Queued, RestInv, Tracked, DeleteUnknown, Sure
<1>5. CASE hub'[p] = hub[p] /\ p \notin taken
  BY <1>5 DEF Ahead, Pulling
<1> QED BY <1>1, <1>2, <1>3, <1>4, <1>5

\* A push whose reply is lost, or which the hub refused after some of its changes.
LEMMA RestPushFailed ==
  ASSUME TypeInv, FeedInv, RestInv, pc = "push", NEW taken \in SUBSET Path, Upload(taken),
         pc' \in {"spawn", "idle", "down"}, pc' # "down" => last' = "failed",
         UNCHANGED <<disk, durable, blind>>
  PROVE  RestInv'
<1>1. ASSUME NEW p \in Path PROVE Tracked(p)' /\ Settled(p)'
  <2>1. Tracked(p)
    BY DEF RestInv
  <2>2. \/ Ahead(p)'
        \/ hub'[p] = hub[p] /\ (Ahead(p)' <=> Ahead(p))
        \/ hub'[p] = hub[p] /\ Queued(p)
    BY UploadTracked DEF Pulling, durable
  <2>3. Tracked(p)'
    BY <2>1, <2>2 DEF Tracked, LooksSynced, LooksGone, DeleteUnknown, Sure, Same,
       Queued, durable
  <2> QED BY <2>3 DEF Settled, ScanRight, PushReady, Pulled, Done, Listing
<1>2. BufNew' /\ BufPulled'
  BY DEF BufNew, BufPulled, Recording
<1> QED BY <1>1, <1>2 DEF RestInv

\* Pushing and pulling.
LEMMA RestSync ==
  ASSUME TypeInv, FeedInv, EmptyInv, RestInv, Sync
  PROVE  RestInv'
<1>1. CASE PushNothing
  <2>1. /\ pc = "push" /\ pc' = "list"
        /\ UNCHANGED <<disk, durable, locals, wake, hub, blind>>
    BY <1>1 DEF PushNothing, remote, history
  <2>2. ASSUME NEW p \in Path PROVE Tracked(p)' /\ Settled(p)'
    <3>1. Tracked(p) /\ Settled(p) /\ ~Queued(p)
      BY <1>1 DEF RestInv, PushNothing
    <3>2. Tracked(p)'
      BY <2>1, <3>1 DEF Tracked, LooksSynced, LooksGone, DeleteUnknown, Sure, Ahead, Pulling,
         Same, Queued, durable
    <3>3. Calm(p) => Ahead(p) \/ Same(p)
      BY <2>1, <3>1 DEF Settled, PushReady, Tracked, LooksSynced, Sure, Calm
    <3>4. Pulled(p)'
      BY <2>1, <3>3 DEF Pulled, Calm, Ahead, Pulling, Same, durable
    <3> QED BY <2>1, <3>2, <3>4 DEF Settled, ScanRight, PushReady, Done, Listing
  <2>3. BufNew' /\ BufPulled'
    BY <2>1 DEF BufNew, BufPulled, Recording
  <2> QED BY <2>2, <2>3 DEF RestInv
<1>2. CASE PushQueue
  <2>1. /\ pc = "push" /\ pc' = "list" /\ Upload(Path)
        /\ UNCHANGED <<disk, meta, checkpoint, locals, wake, blind>>
        /\ \A p \in Path : queue'[p] = NoChange
    BY <1>2 DEF PushQueue
  <2>2. ASSUME NEW p \in Path PROVE Tracked(p)' /\ Settled(p)'
    <3>1. Tracked(p) /\ Settled(p)
      BY DEF RestInv
    <3>2. \/ Ahead(p)'
          \/ hub'[p] = hub[p] /\ (Ahead(p)' <=> Ahead(p)) /\ ~Queued(p)
          \/ /\ hub'[p] = hub[p] /\ Queued(p) /\ hub[p].content = Absent
             /\ p \notin blind => meta[p] = NoTime
      BY <2>1, UploadTracked DEF Pulling
    <3>3. disk[p].mtime = NoTime => disk[p].content = Absent
      BY DEF TypeInv, TypeOK, TypeDisk
    <3>4. LooksSynced(p)'
      BY <2>1, <3>1, <3>2, <3>3 DEF Tracked, LooksSynced, Sure, Same
    <3>5. LooksGone(p)'
      BY <2>1, <3>1, <3>2 DEF Tracked, LooksGone, Sure
    <3>6. DeleteUnknown(p)'
      BY <2>1 DEF DeleteUnknown, NoChange
    <3>7. Pulled(p)'
      <4>1. Calm(p) => Sure(p)' /\ meta'[p] = disk'[p].mtime
        BY <2>1, <3>1 DEF Settled, PushReady, Calm, Sure
      <4>2. ~Queued(p)'
        BY <2>1 DEF Queued, NoChange
      <4> QED BY <2>1, <3>4, <4>1, <4>2 DEF LooksSynced, Pulled, Calm
    <3> QED BY <2>1, <3>4, <3>5, <3>6, <3>7 DEF Tracked, Settled, ScanRight, PushReady, Done,
            Listing
  <2>3. BufNew' /\ BufPulled'
    BY <2>1 DEF BufNew, BufPulled, Recording
  <2> QED BY <2>2, <2>3 DEF RestInv
<1>3. CASE PushRefused
  <2>1. /\ pc = "push" /\ pc' \in {"spawn", "idle", "down"}
        /\ pc' # "down" => last' = "failed"
        /\ UNCHANGED <<disk, durable, blind>>
    BY <1>3, PushRefusedIs, ReturnedLoop
  <2>2. ASSUME UNCHANGED <<remote, owed>> PROVE RestInv'
    BY <2>1, <2>2, RestAway DEF remote
  <2> QED BY <1>3, <2>1, <2>2, PushRefusedIs, RestPushFailed
<1>10. CASE \E p \in Path : PullMissing(p)
  <2>1. /\ pc' \in {"spawn", "idle", "down"}
        /\ pc' # "down" => last' = "failed"
        /\ pc # "queue"
        /\ UNCHANGED <<disk, durable, hub, blind>>
    BY <1>10, ReturnedLoop DEF PullMissing, remote, history
  <2> QED BY <2>1, RestAway
<1>4. CASE List
  <2>1. /\ pc = "list" /\ pc' = "pull"
        /\ UNCHANGED <<disk, durable, wake, hub, blind>>
        /\ \A p \in Path : p \in todo' <=> hub[p].seq > checkpoint
        /\ listed'.seq = hubSeq
    BY <1>4 DEF List, remote, history
  <2>2. ASSUME NEW p \in Path PROVE Tracked(p)' /\ Settled(p)'
    <3>1. Tracked(p) /\ Settled(p)
      BY DEF RestInv
    <3>2. Ahead(p) => Ahead(p)'
      BY <2>1 DEF Ahead, Pulling
    <3>3. Tracked(p)'
      BY <2>1, <3>1, <3>2 DEF Tracked, LooksSynced, LooksGone, DeleteUnknown, Sure, Same,
         Queued, durable
    <3>4. Pulled(p)'
      BY <2>1, <3>1, <3>2 DEF Settled, Pulled, Calm, Same
    <3> QED BY <2>1, <3>3, <3>4 DEF Settled, ScanRight, PushReady, Done, Listing
  <2>3. BufNew' /\ BufPulled'
    BY <2>1 DEF BufNew, BufPulled, Recording
  <2> QED BY <2>2, <2>3 DEF RestInv
<1>5. ASSUME NEW p \in Path, NEW file \in File, Apply(p, file),
             hub[p].content = file.content \/ hub[p].seq > listed.seq
      PROVE  RestInv'
  <2>1. /\ pc = "pull" /\ pc' = "pullmeta" /\ p \in todo
        /\ cur' = p /\ buf' = file
        /\ UNCHANGED <<durable, todo, listed, hub>>
        /\ wake => wake'
        /\ \A q \in Path \ {p} : q \notin blind' => q \notin blind
    BY <1>5 DEF Apply, Write, remote
  <2>2. \A q \in Path \ {p} : disk'[q] = disk[q]
    BY <1>5 DEF Apply, Write, TypeInv, TypeOK, TypeDisk
  <2>3. disk'[p].content = file.content
    BY <1>5, StoredThere DEF Apply, Write, TypeInv, TypeOK, TypeDisk
  <2>4. ASSUME NEW q \in Path PROVE Tracked(q)' /\ Settled(q)'
    <3>1. Tracked(q) /\ Settled(q) /\ ~Queued(q)
      BY <2>1 DEF RestInv, EmptyInv, PullsUnqueued
    <3>2. (Ahead(q)' <=> Ahead(q)) /\ ~Queued(q)'
      BY <2>1, <3>1 DEF Ahead, Pulling, Queued, durable
    <3>3. queue'[q].op # "delete"
      BY <3>2 DEF Queued
    <3>4. CASE q = p
      <4>1. Ahead(q)'
        BY <2>1, <3>2, <3>4 DEF Ahead, Pulling
      <4>2. Tracked(q)'
        BY <3>3, <4>1 DEF Tracked, LooksSynced, LooksGone, DeleteUnknown
      <4> QED BY <2>1, <4>1, <4>2 DEF Settled, ScanRight, PushReady, Pulled, Done, Listing
    <3>5. CASE q # p
      <4>1. disk'[q] = disk[q] /\ (q \notin blind' => q \notin blind)
        BY <2>1, <2>2, <3>5
      <4>2. Tracked(q)'
        BY <2>1, <3>1, <3>2, <3>3, <4>1 DEF Tracked, LooksSynced, LooksGone, DeleteUnknown,
           Sure, Same, durable
      <4>3. Pulled(q)'
        BY <2>1, <3>1, <3>2, <4>1 DEF Settled, Pulled, Calm, Same
      <4> QED BY <2>1, <4>2, <4>3 DEF Settled, ScanRight, PushReady, Done, Listing
    <3> QED BY <3>4, <3>5
  <2>5. BufNew'
    BY <2>1 DEF BufNew, Recording
  <2>6. BufPulled'
    BY <1>5, <2>1, <2>3 DEF BufPulled
  <2> QED BY <2>4, <2>5, <2>6 DEF RestInv
<1>6. ASSUME NEW p \in Path, PullFile(p) PROVE RestInv'
  <2>1. [content |-> hub[p].content, mtime |-> hub[p].mtime] \in File
    BY DEF TypeInv, TypeOK, TypeHub, Doc, File
  <2> QED BY <1>5, <1>6, <2>1 DEF PullFile
<1>7. ASSUME NEW p \in Path, PullDelete(p) PROVE RestInv'
  <2>1. p \in todo /\ pc = "pull" /\ p \in listed.deleted
    BY <1>7 DEF PullDelete, Apply
  <2>2. hub[p].content = NoFile.content \/ hub[p].seq > listed.seq
    BY <2>1 DEF FeedInv, ListedAhead, Pulling, NoFile
  <2> QED BY <1>5, <1>7, <2>2, NoneType DEF PullDelete
<1>8. CASE PullMeta
  <2>1. /\ cur \in Path /\ cur \in todo
        /\ pc = "pullmeta" /\ pc' = "pull" /\ todo' = todo \ {cur}
        /\ UNCHANGED <<disk, queue, checkpoint, listed, wake, hub, blind>>
        /\ buf.mtime = NoTime => buf.content = Absent
    BY <1>8 DEF PullMeta, TypeInv, TypeOK, TypeLoop, RestInv, BufPulled, remote, history
  <2>2. \A q \in Path : meta'[q] = IF q = cur THEN buf.mtime ELSE meta[q]
    BY <1>8, <2>1 DEF PullMeta, TypeInv, TypeOK, TypeDurable
  <2>3. ASSUME NEW q \in Path PROVE Tracked(q)' /\ Settled(q)'
    <3>1. Tracked(q) /\ Settled(q) /\ ~Queued(q)
      BY <2>1 DEF RestInv, EmptyInv, PullsUnqueued
    <3>2. queue'[q].op # "delete"
      BY <2>1, <3>1 DEF Queued
    <3>3. CASE q = cur
      <4>1. /\ Ahead(q)' <=> hub[q].seq > listed.seq
            /\ hub[q].content = buf.content \/ Ahead(q)'
            /\ q \notin blind /\ disk[q].mtime = buf.mtime => disk[q].content = buf.content
            /\ q \notin blind /\ ~wake => disk[q].content = buf.content
        BY <2>1, <3>3 DEF Ahead, Pulling, RestInv, BufPulled
      <4>2. LooksSynced(q)'
        BY <2>1, <2>2, <3>3, <4>1 DEF LooksSynced, Sure, Same
      <4>3. LooksGone(q)'
        BY <2>1, <2>2, <3>3, <4>1 DEF LooksGone, Sure
      <4>4. Pulled(q)'
        BY <2>1, <4>1 DEF Pulled, Calm, Same
      <4> QED BY <2>1, <3>2, <4>2, <4>3, <4>4 DEF Tracked, DeleteUnknown, Settled, ScanRight,
              PushReady, Done, Listing
    <3>4. CASE q # cur
      <4>1. (Ahead(q)' <=> Ahead(q)) /\ meta'[q] = meta[q]
        BY <2>1, <2>2, <3>4 DEF Ahead, Pulling
      <4>2. Tracked(q)'
        BY <2>1, <3>1, <3>2, <4>1 DEF Tracked, LooksSynced, LooksGone, DeleteUnknown, Sure,
           Same, Queued
      <4>3. Pulled(q)'
        BY <2>1, <3>1, <4>1 DEF Settled, Pulled, Calm, Same
      <4> QED BY <2>1, <4>2, <4>3 DEF Settled, ScanRight, PushReady, Done, Listing
    <3> QED BY <3>3, <3>4
  <2>4. BufNew' /\ BufPulled'
    BY <2>1 DEF BufNew, BufPulled, Recording
  <2> QED BY <2>3, <2>4 DEF RestInv
<1>9. CASE SaveCheckpoint
  <2>1. /\ pc' \in {"spawn", "idle", "down"} /\ pc = "pull" /\ todo = {}
        /\ pc' # "down" => UNCHANGED wake
        /\ checkpoint' = listed.seq
        /\ UNCHANGED <<disk, meta, queue, hub, blind>>
    BY <1>9, ReturnedLoop DEF SaveCheckpoint, remote, history
  <2>2. ASSUME NEW p \in Path PROVE Tracked(p)' /\ Settled(p)'
    <3>1. Tracked(p) /\ Settled(p) /\ ~Queued(p)
      BY <2>1 DEF RestInv, EmptyInv, PullsUnqueued
    <3>2. Ahead(p)' <=> Ahead(p)
      BY <2>1 DEF Ahead, Pulling
    <3>3. Tracked(p)'
      BY <2>1, <3>1, <3>2 DEF Tracked, LooksSynced, LooksGone, DeleteUnknown, Sure, Same,
         Queued
    <3>4. Done(p)'
      BY <2>1, <3>1, <3>2 DEF Settled, Pulled, Done, Calm, Same, Queued
    <3> QED BY <2>1, <3>3, <3>4 DEF Settled, ScanRight, PushReady, Pulled, Listing
  <2>3. BufNew' /\ BufPulled'
    BY <2>1 DEF BufNew, BufPulled, Recording
  <2> QED BY <2>2, <2>3 DEF RestInv
<1> QED BY <1>1, <1>2, <1>3, <1>4, <1>6, <1>7, <1>8, <1>9, <1>10 DEF Sync

LEMMA RestStep ==
  ASSUME TypeInv, DatedInv, EmptyInv, FeedInv, RestInv, [Next]_vars
  PROVE  RestInv'
<1>1. ASSUME UNCHANGED <<disk, durable, pc, locals, last, hub, blind>>, wake => wake'
      PROVE  RestInv'
  <2>1. \A p \in Path : Tracked(p)' /\ Settled(p)'
    BY <1>1, RestFrame DEF RestInv, durable, locals
  <2> QED
    BY <1>1, <2>1 DEF RestInv, BufNew, BufPulled, Recording, durable, locals
<1>2. CASE World
  <2>1. CASE Tick
    BY <1>1, <2>1 DEF Tick, remote, history
  <2> QED BY <1>2, <2>1, RestUser, RestRemote DEF World
<1>3. CASE Launch \/ Recv \/ Debounce \/ Quiet \/ Terminate
  BY <1>3, RestAway DEF Launch, Recv, Debounce, Quiet, Terminate, Reconcile, remote, history
<1>4. CASE Spawn
  <2>1. /\ pc = "spawn" /\ pc' = "idle"
        /\ UNCHANGED <<disk, durable, last, wake, hub, blind>>
    BY <1>4 DEF Spawn, remote, history
  <2>2. ASSUME NEW p \in Path PROVE Tracked(p)' /\ Settled(p)'
    <3>1. Tracked(p) /\ Settled(p)
      BY DEF RestInv
    <3>2. Ahead(p)' <=> Ahead(p)
      BY <2>1 DEF Ahead, Pulling, durable
    <3>3. Tracked(p)'
      BY <2>1, <3>1, <3>2 DEF Tracked, LooksSynced, LooksGone, DeleteUnknown, Sure, Same,
         Queued, durable
    <3>4. Done(p)'
      BY <2>1, <3>1, <3>2 DEF Settled, Done, Calm, Same, Queued, durable
    <3> QED BY <2>1, <3>3, <3>4 DEF Settled, ScanRight, PushReady, Pulled, Listing
  <2>3. BufNew' /\ BufPulled'
    BY <2>1 DEF BufNew, BufPulled, Recording
  <2> QED BY <2>2, <2>3 DEF RestInv
<1>5. CASE Wakers \/ WatchFails
  BY <1>1, <1>5 DEF Wakers, WatchReady, PollChanges, WatchFails, remote, history
<1>6. CASE Crash \/ FinalTimeout \/ Fail
  <2>1. /\ pc' \in {"spawn", "idle", "down"}
        /\ pc' # "down" => last' = "failed"
        /\ UNCHANGED <<disk, durable, hub>>
    BY <1>6, ReturnedLoop DEF Crash, FinalTimeout, Exit, Fail, remote
  <2>2. blind \subseteq blind' /\ (pc = "queue" => cur \in blind')
    BY <1>6 DEF Crash, FinalTimeout, Fail, CutOff
  <2> QED BY <2>1, <2>2, RestAway
<1>7. CASE PushReplyLost
  <2>1. /\ pc = "push" /\ pc' \in {"spawn", "idle", "down"} /\ Upload(Path)
        /\ pc' # "down" => last' = "failed"
        /\ UNCHANGED <<disk, durable, blind>>
    BY <1>7, ReturnedLoop DEF PushReplyLost
  <2> QED BY <2>1, RestPushFailed
<1>8. ASSUME NEW skipped \in SUBSET Path, ScanSkips(skipped) PROVE RestInv'
  BY <1>8, RestScan DEF ScanSkips, remote
<1>9. CASE UNCHANGED vars
  BY <1>1, <1>9 DEF vars, remote, history
<1> QED BY <1>2, <1>3, <1>4, <1>5, <1>6, <1>7, <1>8, <1>9, RestRecord, RestSync
        DEF Next, Loop, Fault, Stop

\* At rest nothing is ahead: the long-poll has seen the hub's last change, and is not
\* beyond the checkpoint.
LEMMA RestSynced ==
  ASSUME TypeInv, FeedInv, RestInv
  PROVE  RestIsSynced
<1> SUFFICES ASSUME AtRest, last = "ok", NEW p \in Path \ blind
             PROVE  ~Queued(p) /\ disk[p].content = hub[p].content
  BY DEF RestIsSynced
<1>1. ~Queued(p) /\ (Ahead(p) \/ Same(p))
  BY DEF RestInv, Settled, Done, Calm, AtRest
<1>2. since <= checkpoint /\ since = hubSeq /\ hub[p].seq <= hubSeq
  BY DEF FeedInv, PollBehind, Positions, AtRest
<1>3. ~Ahead(p)
  BY <1>2, FeedTypes DEF Ahead, Pulling, AtRest
<1> QED BY <1>1, <1>3 DEF Same

\* When the loop waits after a reconciliation that succeeded, with no signal in the
\* channel and the long-poll up to date, nothing is queued and the directory equals the
\* hub, but for the paths with a change the client has had no sign of: whatever the
\* order of saves, deletes, scans, pushes, pulls, long-polls, failures and crashes.
THEOREM RestIsSyncedAlways == Spec => []RestIsSynced
<1>1. Init => DatedInv /\ EmptyInv /\ FeedInv /\ RestInv
  <2> SUFFICES ASSUME Init PROVE DatedInv /\ EmptyInv /\ FeedInv /\ RestInv
    OBVIOUS
  <2>1. DatedInv
    BY DEF Init, DatedInv, NoFile, NoTime, Listing
  <2>2. EmptyInv
    BY DEF Init, NoFile, NoDoc, NoChange, Absent, Empty, EmptyInv, EmptyMarked, QueueKnown,
       MissingFound, WrittenExists, MetaWritten, DeletedUnfound, PullsUnqueued,
       UploadsHaveFiles, Listing, Recording
  <2>3. FeedInv
    BY DEF Init, FeedInv, Positions, ListedAhead, PollBehind, Pulling, NoDoc, NoPoll
  <2>4. RestInv
    <3>1. \A p \in Path : Tracked(p)
      BY DEF Init, Tracked, LooksSynced, LooksGone, DeleteUnknown, Same, NoFile, NoDoc,
         NoChange
    <3>2. \A p \in Path : Settled(p)
      BY DEF Init, Settled, ScanRight, PushReady, Pulled, Done, Listing
    <3> QED BY <3>1, <3>2 DEF Init, RestInv, BufNew, BufPulled, Recording
  <2> QED BY <2>1, <2>2, <2>3, <2>4
<1>2. TypeInv /\ DatedInv /\ EmptyInv /\ FeedInv /\ RestInv /\ [Next]_vars
      => DatedInv' /\ EmptyInv' /\ FeedInv' /\ RestInv'
  BY DatedStep, EmptyStep, FeedStep, RestStep
<1>3. TypeInv /\ FeedInv /\ RestInv => RestIsSynced
  BY RestSynced
<1> QED BY <1>1, <1>2, <1>3, TypeInvInductive, PTL DEF Spec
=============================================================================
