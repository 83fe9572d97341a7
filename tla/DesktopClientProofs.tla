------------------------ MODULE DesktopClientProofs ------------------------
(***************************************************************************)
(* Theorems about DesktopClient, for every set of paths and every bound on *)
(* time, edits, deletes, failures and crashes.                             *)
(***************************************************************************)
EXTENDS DesktopClient, TLAPS

USE DesktopAssumption

\* A file is there exactly if it has an mtime.
Dated(file) == file.content = Absent <=> file.mtime = NoTime

\* The empty values are values of their types.
LEMMA NoneType ==
  /\ NoFile \in File /\ Dated(NoFile)
  /\ NoChange \in Change
  /\ NoDoc \in Doc /\ Dated(NoDoc)
  /\ NoList \in [seq : Nat, deleted : SUBSET Path]
  BY DEF NoFile, File, NoChange, Change, NoDoc, Doc, NoList, Dated, Content, Absent, NoTime

\* A part of the type invariant holds on as long as its variables stay put.
LEMMA FrameType ==
  ASSUME TypeOK
  PROVE  /\ UNCHANGED disk => TypeDisk'
         /\ UNCHANGED durable => TypeDurable'
         /\ UNCHANGED <<pc, phase, last, locals>> => TypeLoop'
         /\ UNCHANGED <<wake, wakes>> => TypeWakes'
         /\ UNCHANGED remote => TypeHub'
         /\ UNCHANGED bounds => TypeBounds'
         /\ UNCHANGED history => TypeHistory'
  BY DEF TypeOK, TypeDisk, TypeDurable, TypeLoop, TypeWakes, TypeHub, TypeBounds,
         TypeHistory, durable, locals, wakes, remote, bounds, history

\* What FsFileStore leaves for a file is a file ...
LEMMA StoredType ==
  ASSUME TypeOK, NEW file \in File, Dated(file)
  PROVE  Stored(file) \in File /\ Dated(Stored(file))
  BY NoneType DEF TypeOK, TypeBounds, Stored, File, Dated, Time, NoTime, NoFile

\* ... and writing one keeps the directory and the channel well typed.
LEMMA WriteType ==
  ASSUME TypeOK, NEW p \in Path, NEW file \in File, Dated(file), Write(p, file),
         UNCHANGED wakes
  PROVE  TypeDisk' /\ TypeWakes'
<1>1. TypeDisk'
  BY DEF TypeOK, TypeDisk, Write, Dated
<1>2. wake' \in BOOLEAN
  BY DEF Write, TypeOK, TypeWakes
<1> QED
  BY <1>1, <1>2 DEF TypeOK, TypeWakes, wakes

\* A process that is gone leaves well-typed locals ...
LEMMA ExitType == ASSUME Exit PROVE TypeLoop' /\ TypeWakes'
  BY NoneType DEF Exit, NoLocals, TypeLoop, TypeWakes, Dated, Time, NoTime, NoPoll

\* ... and so does a reconciliation that returns.
LEMMA ReconciledType ==
  ASSUME TypeOK, NEW o \in {"ok", "failed"}, Reconciled(o)
  PROVE  TypeLoop' /\ TypeWakes'
<1>1. CASE Exit
  BY <1>1, ExitType
<1>2. CASE ~Exit
  <2>1. NoLocals /\ pc' \in {"spawn", "idle"} /\ last' = o /\ UNCHANGED <<phase, wake, wakes>>
    BY <1>2 DEF Reconciled
  <2>2. TypeLoop'
    BY <2>1, NoneType DEF NoLocals, TypeOK, TypeLoop, Dated, Time, NoTime
  <2> QED BY <2>1, <2>2, FrameType
<1> QED BY <1>1, <1>2

\* A refused push leaves the hub with some of the changes, or with none.
LEMMA PushRefusedIs ==
  ASSUME PushRefused
  PROVE  /\ pc = "push" /\ Reconciled("failed")
         /\ UNCHANGED <<disk, durable, bounds, blind, removed, emptied>>
         /\ (\E taken \in SUBSET Path : Upload(taken)) \/ UNCHANGED <<remote, owed>>
<1>1. PICK taken \in SUBSET {q \in Path : Queued(q)} :
        (taken # {} /\ Upload(taken)) \/ (taken = {} /\ UNCHANGED <<remote, owed>>)
  BY DEF PushRefused
<1>2. taken \in SUBSET Path
  OBVIOUS
<1>3. (\E s \in SUBSET Path : Upload(s)) \/ UNCHANGED <<remote, owed>>
  BY <1>1, <1>2
<1> QED BY <1>3 DEF PushRefused

\* The hub's documents after a push, or after a part of it.
LEMMA UploadType ==
  ASSUME TypeOK, NEW taken \in SUBSET Path, Upload(taken)
  PROVE  TypeHub' /\ owed' \subseteq owed
<1>1. ASSUME NEW p \in Path PROVE Pushed(p) \in Doc /\ Dated(Pushed(p))
  <2>1. hub[p] \in Doc /\ Dated(hub[p]) /\ queue[p] \in Change /\ hubSeq + 1 \in Nat
        /\ (queue[p].op = "upsert" => queue[p].mtime # NoTime)
    BY DEF TypeOK, TypeHub, TypeDurable, Dated
  <2>2. Body(p) \in Content /\ Body(p) # Absent
    BY DEF Body, Exists, TypeOK, TypeDisk, File, Content, Empty, Absent
  <2>3. CASE queue[p].op = "upsert"
    BY <2>1, <2>2, <2>3 DEF Pushed, Doc, Change, Dated
  <2>4. CASE queue[p].op # "upsert"
    BY <2>1, <2>4, NoneType DEF Pushed, NoDoc, Doc, Dated
  <2> QED BY <2>3, <2>4
<1>2. ASSUME NEW p \in Path
      PROVE  [hub[p] EXCEPT !.seq = hubSeq + 1] \in Doc /\ Dated([hub[p] EXCEPT !.seq = hubSeq + 1])
  BY DEF TypeOK, TypeHub, Doc, Dated
<1>3. PICK lost \in SUBSET {p \in taken : Queued(p) /\ Unpulled(p)} :
        hub' = [p \in Path |-> IF p \in lost THEN [hub[p] EXCEPT !.seq = hubSeq + 1]
                               ELSE IF p \in taken THEN Pushed(p) ELSE hub[p]]
  BY DEF Upload
<1>4. ASSUME NEW p \in Path PROVE hub'[p] \in Doc /\ Dated(hub'[p])
  <2>1. hub'[p] = IF p \in lost THEN [hub[p] EXCEPT !.seq = hubSeq + 1]
                  ELSE IF p \in taken THEN Pushed(p) ELSE hub[p]
    BY <1>3
  <2>2. CASE p \in lost
    BY <2>1, <2>2, <1>2
  <2>3. CASE p \notin lost /\ p \in taken
    BY <2>1, <2>3, <1>1
  <2>4. CASE p \notin lost /\ p \notin taken
    BY <2>1, <2>4 DEF TypeOK, TypeHub, Dated
  <2> QED BY <2>2, <2>3, <2>4
<1>5. TypeHub'
  <2>1. DOMAIN hub' = Path /\ hub' = [p \in Path |-> hub'[p]]
    BY <1>3
  <2>2. hub' \in [Path -> Doc]
    BY <2>1, <1>4
  <2>3. hubSeq' \in Nat
    BY DEF Upload, TypeOK, TypeHub
  <2> QED BY <2>2, <2>3, <1>4 DEF TypeHub, Dated
<1> QED BY <1>5 DEF Upload

\* A cut-off reconciliation only takes from what is owed.
LEMMA CutOffType ==
  ASSUME TypeOK, CutOff, UNCHANGED removed
  PROVE  TypeHistory'
  BY DEF CutOff, TypeOK, TypeHistory, TypeLoop

----------------------------------------------------------------------------
(* Type correctness. *)

\* The pc's of the recording half of a reconciliation.
Listing == pc \in {"record", "put", "meta", "queue"}

\* What is still to be recorded was found by the scan, and so has an mtime: without
\* this the file that ReadFile hands to record_upsert may have none.
TodoFound == Listing => \A p \in todo : local[p] # NoTime

TypeInv == TypeOK /\ TodoFound

LEMMA FrameFound ==
  ASSUME TodoFound
  PROVE  /\ UNCHANGED <<pc, locals>> => TodoFound'
         /\ pc' \notin {"record", "put", "meta", "queue"} => TodoFound'
         /\ Listing /\ UNCHANGED local /\ todo' \subseteq todo => TodoFound'
  BY DEF TodoFound, Listing, locals

LEMMA ReconciledFound ==
  ASSUME NEW o \in {"ok", "failed"}, Reconciled(o)
  PROVE  pc' \in {"spawn", "idle", "down"}
  BY DEF Reconciled, Exit

\* The user, time and the other devices.
LEMMA WorldType == ASSUME TypeInv, World PROVE TypeInv'
<1> USE DEF TypeInv
<1>1. ASSUME NEW p \in Path, Save(p) PROVE TypeInv'
  <2>1. [content |-> versions + 1, mtime |-> clock] \in File
        /\ Dated([content |-> versions + 1, mtime |-> clock])
        /\ versions + 1 \in Version
    BY <1>1 DEF Save, TypeOK, TypeBounds, File, Content, Version, Time, Dated, Absent, NoTime
  <2>2. TypeDisk' /\ TypeWakes'
    BY <1>1, <2>1, WriteType DEF Save
  <2>3. TypeBounds'
    BY <1>1, <2>1 DEF Save, TypeOK, TypeBounds, Version
  <2>4. TypeHistory'
    BY <1>1, <2>1 DEF Save, SeenUnless, TypeOK, TypeHistory
  <2>5. UNCHANGED <<durable, remote, pc, phase, last, locals>>
    BY <1>1 DEF Save
  <2> QED BY <2>2, <2>3, <2>4, <2>5, FrameType, FrameFound DEF TypeOK
<1>2. ASSUME NEW p \in Path, Remove(p) PROVE TypeInv'
  <2>1. TypeDisk' /\ TypeWakes'
    BY <1>2, NoneType, WriteType DEF Remove
  <2>2. TypeBounds'
    BY <1>2 DEF Remove, TypeOK, TypeBounds
  <2>3. TypeHistory'
    BY <1>2 DEF Remove, SeenUnless, TypeOK, TypeHistory
  <2>4. UNCHANGED <<durable, remote, pc, phase, last, locals>>
    BY <1>2 DEF Remove
  <2> QED BY <2>1, <2>2, <2>3, <2>4, FrameType, FrameFound DEF TypeOK
<1>3. ASSUME NEW p \in Path, RemoteEdit(p) PROVE TypeInv'
  <2>1. PICK m \in {0, MaxClock} :
          RemoteChange(p, [content |-> versions + 1, mtime |-> m, seq |-> hubSeq + 1])
    BY <1>3 DEF RemoteEdit
  <2>2. TypeHub'
    BY <1>3, <2>1 DEF RemoteEdit, RemoteChange, TypeOK, TypeHub, TypeBounds, Doc, Content,
                      Version, Time, Absent, NoTime
  <2>3. TypeBounds'
    BY <1>3, <2>1 DEF RemoteEdit, RemoteChange, TypeOK, TypeBounds
  <2>4. UNCHANGED <<disk, durable, pc, phase, last, locals, wake, wakes, history>>
    BY <2>1 DEF RemoteChange
  <2> QED BY <2>2, <2>3, <2>4, FrameType, FrameFound DEF TypeOK
<1>4. ASSUME NEW p \in Path, RemoteDelete(p) PROVE TypeInv'
  <2>1. TypeHub'
    BY <1>4 DEF RemoteDelete, RemoteChange, TypeOK, TypeHub, NoDoc, Doc, Content, Time,
                Absent, NoTime
  <2>2. TypeBounds'
    BY <1>4 DEF RemoteDelete, RemoteChange, TypeOK, TypeBounds
  <2>3. UNCHANGED <<disk, durable, pc, phase, last, locals, wake, wakes, history>>
    BY <1>4 DEF RemoteDelete, RemoteChange
  <2> QED BY <2>1, <2>2, <2>3, FrameType, FrameFound DEF TypeOK
<1>5. ASSUME Tick PROVE TypeInv'
  <2>1. TypeBounds'
    BY <1>5 DEF Tick, TypeOK, TypeBounds, Time
  <2>2. UNCHANGED <<disk, durable, pc, phase, last, locals, wake, wakes, remote, history>>
    BY <1>5 DEF Tick
  <2> QED BY <2>1, <2>2, FrameType, FrameFound DEF TypeOK
<1> QED BY <1>1, <1>2, <1>3, <1>4, <1>5 DEF World

\* Scanning and recording.
LEMMA RecordType == ASSUME TypeInv, Record PROVE TypeInv'
<1> USE DEF TypeInv
<1>1. ASSUME NEW skipped \in SUBSET Path, Scanned(skipped), pc = "scan",
             UNCHANGED <<phase, cur, buf, listed, last>>
      PROVE  TypeLoop' /\ TodoFound'
  <2>1. TypeLoop'
    BY <1>1 DEF Scanned, TypeOK, TypeLoop, TypeDisk, File
  <2> QED BY <1>1, <2>1 DEF Scanned, TodoFound
<1>2. CASE Scan
  <2>1. TypeHistory' /\ UNCHANGED <<disk, durable, wake, wakes, remote, bounds>>
    BY <1>2 DEF Scan, Scanned, TypeOK, TypeHistory
  <2>2. TypeLoop' /\ TodoFound'
    BY <1>1, <1>2 DEF Scan
  <2> QED BY <2>1, <2>2, FrameType DEF TypeOK
<1>3. CASE StartSync
  <2>1. TypeLoop' /\ pc' = "push"
    BY <1>3 DEF StartSync, locals, TypeOK, TypeLoop
  <2>2. UNCHANGED <<disk, durable, wake, wakes, remote, bounds, history>>
    BY <1>3 DEF StartSync
  <2> QED BY <2>1, <2>2, FrameType, FrameFound DEF TypeOK
<1>4. CASE PutFile
  <2>1. cur \in Path /\ buf \in File /\ Dated(buf)
    BY <1>4 DEF PutFile, TypeOK, TypeLoop, Dated
  <2>2. TypeDisk' /\ TypeWakes'
    BY <1>4, <2>1, StoredType, WriteType DEF PutFile
  <2>3. TypeLoop' /\ TodoFound'
    BY <1>4 DEF PutFile, locals, TypeOK, TypeLoop, TodoFound, Listing
  <2>4. TypeHistory' /\ UNCHANGED <<durable, remote, bounds>>
    BY <1>4, FrameType DEF PutFile
  <2> QED BY <2>2, <2>3, <2>4, FrameType DEF TypeOK
<1>5. CASE PutMeta
  <2>1. cur \in Path /\ buf.mtime \in Time \cup {NoTime}
    BY <1>5 DEF PutMeta, TypeOK, TypeLoop, File
  <2>2. TypeDurable'
    BY <1>5, <2>1 DEF PutMeta, TypeOK, TypeDurable
  <2>3. TypeLoop' /\ TodoFound'
    BY <1>5 DEF PutMeta, locals, TypeOK, TypeLoop, TodoFound, Listing
  <2>4. UNCHANGED <<disk, wake, wakes, remote, bounds, history>>
    BY <1>5 DEF PutMeta
  <2> QED BY <2>2, <2>3, <2>4, FrameType DEF TypeOK
<1>6. CASE Enqueue
  <2>1. cur \in Path /\ buf.mtime \in Time \cup {NoTime}
        /\ (buf.content # Absent => buf.mtime # NoTime)
    BY <1>6 DEF Enqueue, TypeOK, TypeLoop, File
  <2>2. TypeDurable'
    BY <1>6, <2>1 DEF Enqueue, TypeOK, TypeDurable, Change
  <2>3. TypeLoop' /\ TodoFound'
    BY <1>6, NoneType DEF Enqueue, TypeOK, TypeLoop, TodoFound, Listing, Dated
  <2>4. TypeHistory' /\ UNCHANGED <<disk, wake, wakes, remote, bounds>>
    BY <1>6 DEF Enqueue, Answered, TypeOK, TypeHistory
  <2> QED BY <2>2, <2>3, <2>4, FrameType DEF TypeOK
<1>7. ASSUME NEW p \in Path, SkipFile(p) PROVE TypeInv'
  <2>1. TypeLoop' /\ TodoFound'
    BY <1>7 DEF SkipFile, TypeOK, TypeLoop, TodoFound, Listing
  <2>2. UNCHANGED <<disk, durable, wake, wakes, remote, bounds, history>>
    BY <1>7 DEF SkipFile
  <2> QED BY <2>1, <2>2, FrameType DEF TypeOK
<1>8. ASSUME NEW p \in Path, ReadFile(p) PROVE TypeInv'
  <2>1. buf' \in File /\ Dated(buf')
    BY <1>8 DEF ReadFile, Exists, TypeOK, TypeDisk, TypeLoop, File, Dated, TodoFound, Listing
  <2>2. TypeLoop' /\ TodoFound'
    BY <1>8, <2>1 DEF ReadFile, TypeOK, TypeLoop, TodoFound, Listing, Dated
  <2>3. UNCHANGED <<disk, durable, wake, wakes, remote, bounds, history>>
    BY <1>8 DEF ReadFile
  <2> QED BY <2>2, <2>3, FrameType DEF TypeOK
<1>9. ASSUME NEW p \in Path, FindDeleted(p) PROVE TypeInv'
  <2>1. TypeLoop' /\ TodoFound'
    BY <1>9, NoneType DEF FindDeleted, TypeOK, TypeLoop, TodoFound, Listing, Dated
  <2>2. UNCHANGED <<disk, durable, wake, wakes, remote, bounds, history>>
    BY <1>9 DEF FindDeleted
  <2> QED BY <2>1, <2>2, FrameType DEF TypeOK
<1> QED BY <1>2, <1>3, <1>4, <1>5, <1>6, <1>7, <1>8, <1>9 DEF Record

\* Push and pull.
LEMMA SyncType == ASSUME TypeInv, Sync PROVE TypeInv'
<1> USE DEF TypeInv
<1>1. CASE PushNothing
  <2>1. TypeLoop' /\ pc' = "list"
    BY <1>1 DEF PushNothing, locals, TypeOK, TypeLoop
  <2>2. UNCHANGED <<disk, durable, wake, wakes, remote, bounds, history>>
    BY <1>1 DEF PushNothing
  <2> QED BY <2>1, <2>2, FrameType, FrameFound DEF TypeOK
<1>2. CASE PushQueue
  <2>1. TypeLoop' /\ pc' = "list"
    BY <1>2 DEF PushQueue, locals, TypeOK, TypeLoop
  <2>2. TypeHub' /\ TypeHistory'
    BY <1>2, UploadType DEF PushQueue, TypeOK, TypeHistory
  <2>3. TypeDurable'
    BY <1>2, NoneType DEF PushQueue, TypeOK, TypeDurable, NoChange
  <2>4. UNCHANGED <<disk, wake, wakes, bounds>>
    BY <1>2 DEF PushQueue
  <2> QED BY <2>1, <2>2, <2>3, <2>4, FrameType, FrameFound DEF TypeOK
<1>3. ASSUME \E p \in Path : PullMissing(p)
      PROVE  TypeInv'
  <2>1. Reconciled("failed") /\ UNCHANGED <<disk, durable, remote, bounds, history>>
    BY <1>3 DEF PullMissing
  <2> QED BY <2>1, ReconciledType, ReconciledFound, FrameType, FrameFound DEF TypeOK
<1>10. CASE PushRefused
  <2>1. TypeHub' /\ owed' \subseteq owed
    BY <1>10, PushRefusedIs, UploadType DEF remote, TypeOK, TypeHub, Dated
  <2>2. TypeHistory'
    BY <1>10, <2>1, PushRefusedIs DEF TypeOK, TypeHistory
  <2>3. Reconciled("failed") /\ UNCHANGED <<disk, durable, bounds>>
    BY <1>10, PushRefusedIs
  <2> QED BY <2>1, <2>2, <2>3, ReconciledType, ReconciledFound, FrameType, FrameFound
          DEF TypeOK
<1>4. CASE List
  <2>1. TypeLoop' /\ pc' = "pull"
    BY <1>4 DEF List, TypeOK, TypeLoop, TypeHub
  <2>2. UNCHANGED <<disk, durable, wake, wakes, remote, bounds, history>>
    BY <1>4 DEF List
  <2> QED BY <2>1, <2>2, FrameType, FrameFound DEF TypeOK
<1>5. CASE PullMeta
  <2>1. cur \in Path /\ buf.mtime \in Time \cup {NoTime}
    BY <1>5 DEF PullMeta, TypeOK, TypeLoop, File
  <2>2. TypeDurable'
    BY <1>5, <2>1 DEF PullMeta, TypeOK, TypeDurable
  <2>3. TypeLoop' /\ pc' = "pull"
    BY <1>5, NoneType DEF PullMeta, TypeOK, TypeLoop, Dated
  <2>4. UNCHANGED <<disk, wake, wakes, remote, bounds, history>>
    BY <1>5 DEF PullMeta
  <2> QED BY <2>2, <2>3, <2>4, FrameType, FrameFound DEF TypeOK
<1>6. CASE SaveCheckpoint
  <2>1. TypeDurable'
    BY <1>6 DEF SaveCheckpoint, TypeOK, TypeDurable, TypeLoop
  <2>2. Reconciled("ok") /\ UNCHANGED <<disk, remote, bounds, history>>
    BY <1>6 DEF SaveCheckpoint
  <2> QED BY <2>1, <2>2, ReconciledType, ReconciledFound, FrameType, FrameFound DEF TypeOK
<1>7. ASSUME NEW p \in Path, NEW file \in File, Dated(file), Apply(p, file),
             UNCHANGED removed \/ removed' = removed \cup {p}
      PROVE  TypeInv'
  <2>1. TypeDisk' /\ TypeWakes'
    BY <1>7, StoredType, WriteType DEF Apply
  <2>2. TypeLoop' /\ pc' = "pullmeta"
    BY <1>7 DEF Apply, TypeOK, TypeLoop, Dated
  <2>3. TypeHistory' /\ UNCHANGED <<durable, remote, bounds>>
    BY <1>7 DEF Apply, TypeOK, TypeHistory
  <2> QED BY <2>1, <2>2, <2>3, FrameType, FrameFound DEF TypeOK
<1>8. ASSUME NEW p \in Path, PullFile(p) PROVE TypeInv'
  <2>1. [content |-> hub[p].content, mtime |-> hub[p].mtime] \in File
        /\ Dated([content |-> hub[p].content, mtime |-> hub[p].mtime])
    BY DEF TypeOK, TypeHub, Doc, File, Dated
  <2> QED BY <1>7, <1>8, <2>1 DEF PullFile
<1>9. ASSUME NEW p \in Path, PullDelete(p) PROVE TypeInv'
  BY <1>7, <1>9, NoneType DEF PullDelete
<1> QED BY <1>1, <1>2, <1>3, <1>4, <1>5, <1>6, <1>8, <1>9, <1>10 DEF Sync

\* The main loop, what wakes it, and its faults.
LEMMA LoopType == ASSUME TypeInv, Launch \/ Loop \/ Wakers \/ Fault \/ Stop PROVE TypeInv'
<1> USE DEF TypeInv
<1>1. CASE Launch \/ Quiet
  <2>1. TypeLoop' /\ pc' = "scan"
    BY <1>1 DEF Launch, Quiet, Reconcile, locals, TypeOK, TypeLoop
  <2>2. UNCHANGED <<disk, durable, wake, wakes, remote, bounds, history>>
    BY <1>1 DEF Launch, Quiet
  <2> QED BY <2>1, <2>2, FrameType, FrameFound DEF TypeOK
<1>2. CASE Spawn
  <2>1. TypeLoop' /\ TypeWakes' /\ pc' = "idle"
    BY <1>2 DEF Spawn, locals, TypeOK, TypeLoop, TypeWakes, TypeDurable
  <2>2. UNCHANGED <<disk, durable, remote, bounds, history>>
    BY <1>2 DEF Spawn
  <2> QED BY <2>1, <2>2, FrameType, FrameFound DEF TypeOK
<1>3. CASE Recv \/ Debounce
  <2>1. TypeLoop' /\ TypeWakes' /\ pc' = "debounce"
    BY <1>3 DEF Recv, Debounce, locals, wakes, TypeOK, TypeLoop, TypeWakes
  <2>2. UNCHANGED <<disk, durable, remote, bounds, history>>
    BY <1>3 DEF Recv, Debounce
  <2> QED BY <2>1, <2>2, FrameType, FrameFound DEF TypeOK
<1>4. CASE Wakers \/ WatchFails
  <2>1. TypeWakes'
    BY <1>4 DEF Wakers, WatchReady, PollChanges, WatchFails, TypeOK, TypeWakes, TypeHub,
                remote
  <2>2. TypeBounds'
    BY <1>4, FrameType DEF Wakers, WatchReady, PollChanges, WatchFails, TypeOK, TypeBounds
  <2>3. UNCHANGED <<disk, durable, pc, phase, last, locals, remote, history>>
    BY <1>4 DEF Wakers, WatchReady, PollChanges, WatchFails
  <2> QED BY <2>1, <2>2, <2>3, FrameType, FrameFound DEF TypeOK
<1>5. CASE PushReplyLost
  <2>1. TypeHub' /\ TypeHistory'
    BY <1>5, UploadType DEF PushReplyLost, TypeOK, TypeHistory
  <2>2. TypeBounds'
    BY <1>5 DEF PushReplyLost, TypeOK, TypeBounds
  <2>3. Reconciled("failed") /\ UNCHANGED <<disk, durable>>
    BY <1>5 DEF PushReplyLost
  <2> QED BY <2>1, <2>2, <2>3, ReconciledType, ReconciledFound, FrameType, FrameFound
          DEF TypeOK
<1>6. CASE Fail
  <2>1. TypeHistory'
    BY <1>6, CutOffType DEF Fail
  <2>2. TypeBounds'
    BY <1>6 DEF Fail, TypeOK, TypeBounds
  <2>3. Reconciled("failed") /\ UNCHANGED <<disk, durable, remote>>
    BY <1>6 DEF Fail
  <2> QED BY <2>1, <2>2, <2>3, ReconciledType, ReconciledFound, FrameType, FrameFound
          DEF TypeOK
<1>7. ASSUME NEW skipped \in SUBSET Path, ScanSkips(skipped) PROVE TypeInv'
  <2>1. TypeLoop' /\ TodoFound'
    <3>1. TypeLoop'
      BY <1>7 DEF ScanSkips, Scanned, TypeOK, TypeLoop, TypeDisk, File
    <3> QED BY <1>7, <3>1 DEF ScanSkips, Scanned, TodoFound
  <2>2. TypeHistory'
    BY <1>7 DEF ScanSkips, Scanned, TypeOK, TypeHistory
  <2>3. TypeBounds'
    BY <1>7 DEF ScanSkips, TypeOK, TypeBounds
  <2>4. UNCHANGED <<disk, durable, wake, wakes, remote>>
    BY <1>7 DEF ScanSkips
  <2> QED BY <2>1, <2>2, <2>3, <2>4, FrameType DEF TypeOK
<1>8. CASE Terminate
  <2>1. TypeLoop' /\ pc' = "scan"
    BY <1>8 DEF Terminate, Reconcile, locals, TypeOK, TypeLoop
  <2>2. TypeBounds'
    BY <1>8 DEF Terminate, TypeOK, TypeBounds
  <2>3. UNCHANGED <<disk, durable, wake, wakes, remote, history>>
    BY <1>8 DEF Terminate
  <2> QED BY <2>1, <2>2, <2>3, FrameType, FrameFound DEF TypeOK
<1>9. CASE Crash \/ FinalTimeout
  <2>1. Exit /\ CutOff /\ UNCHANGED <<disk, durable, remote, removed>>
    BY <1>9 DEF Crash, FinalTimeout
  <2>2. TypeBounds'
    BY <1>9, FrameType DEF Crash, FinalTimeout, TypeOK, TypeBounds
  <2>3. pc' = "down"
    BY <2>1 DEF Exit
  <2> QED BY <2>1, <2>2, <2>3, CutOffType, ExitType, FrameType, FrameFound DEF TypeOK
<1> QED BY <1>1, <1>2, <1>3, <1>4, <1>5, <1>6, <1>7, <1>8, <1>9
        DEF Loop, Fault, Stop

LEMMA TypeInvInductive == Spec => []TypeInv
<1>1. Init => TypeInv
  <2> SUFFICES ASSUME Init PROVE TypeInv
    OBVIOUS
  <2>1. TypeDisk /\ TypeDurable
    BY NoneType DEF Init, TypeDisk, TypeDurable, NoFile, NoChange, Absent, NoTime
  <2>2. TypeLoop /\ TodoFound
    BY NoneType DEF Init, TypeLoop, TodoFound, Listing, Dated
  <2>3. TypeWakes /\ TypeHistory
    BY DEF Init, TypeWakes, TypeHistory
  <2>4. TypeBounds
    BY DesktopAssumption DEF Init, TypeBounds, Time
  <2>5. TypeHub
    BY NoneType DEF Init, TypeHub, Dated
  <2> QED BY <2>1, <2>2, <2>3, <2>4, <2>5 DEF TypeInv, TypeOK
<1>2. TypeInv /\ [Next]_vars => TypeInv'
  <2> SUFFICES ASSUME TypeInv, [Next]_vars PROVE TypeInv'
    OBVIOUS
  <2>1. CASE UNCHANGED vars
    BY <2>1, FrameType, FrameFound DEF vars, TypeInv, TypeOK
  <2> QED BY <2>1, WorldType, RecordType, SyncType, LoopType DEF Next
<1> QED BY <1>1, <1>2, PTL DEF Spec

\* The type invariant, for every set of paths and all bounds.
THEOREM DesktopTypeCorrect == Spec => []TypeOK
<1>1. TypeInv => TypeOK
  BY DEF TypeInv
<1> QED BY <1>1, TypeInvInductive, PTL

----------------------------------------------------------------------------
(* No file is taken for deleted. *)

\* A recorder is inside record_upsert or record_delete.
Recording == pc \in {"put", "meta", "queue"}

\* A file with metadata is missing only if somebody removed it ...
MissingRemoved == \A p \in Path : Known(p) /\ ~Exists(p) => p \in removed

\* ... and so is one that the scan did not find.
UnfoundRemoved ==
  Listing => \A p \in Path : Known(p) /\ local[p] = NoTime => p \in removed

\* record_delete works on such a file, record_upsert on one that the scan found ...
RecordedRemoved == Recording /\ buf.content = Absent => cur \in removed
RecordedFound == Recording /\ buf.content # Absent => cur \in todo

\* ... and what was just written is there when its metadata is written.
WrittenThere ==
  pc \in {"meta", "pullmeta"} /\ buf.content # Absent => Exists(cur) \/ cur \in removed

DeleteInv ==
  /\ MissingRemoved /\ UnfoundRemoved
  /\ RecordedRemoved /\ RecordedFound
  /\ WrittenThere
  /\ DeletesAreUsers

\* The variables these speak about.
deleteVars == <<disk, meta, queue, local, todo, cur, buf>>

LEMMA DeleteFrame ==
  ASSUME DeleteInv, removed \subseteq removed', UNCHANGED <<disk, meta, queue>>
  PROVE  /\ UNCHANGED <<pc, deleteVars>> => DeleteInv'
         /\ ~Listing' /\ pc' # "pullmeta" => DeleteInv'
  BY DEF DeleteInv, MissingRemoved, UnfoundRemoved, RecordedRemoved, RecordedFound,
         WrittenThere, DeletesAreUsers, Listing, Recording, Known, Exists, deleteVars

\* What FsFileStore leaves is there exactly if it was given a file.
LEMMA StoredThere ==
  ASSUME NEW file \in File
  PROVE  Stored(file).content = file.content
  BY DEF Stored, NoFile, File

LEMMA DeleteStep == ASSUME TypeInv, DeleteInv, [Next]_vars PROVE DeleteInv'
<1> DEFINE Away == ~Listing' /\ pc' # "pullmeta"
<1>1. CASE World
  <2>1. ASSUME NEW p \in Path, Save(p) \/ Remove(p) PROVE DeleteInv'
    <3>1. /\ removed \subseteq removed'
          /\ UNCHANGED <<pc, meta, queue, local, todo, cur, buf>>
      BY <2>1 DEF Save, Remove, durable, locals
    <3>2. \A q \in Path \ {p} : disk'[q] = disk[q]
      BY <2>1 DEF Save, Remove, Write, TypeInv, TypeOK, TypeDisk
    <3>3. disk'[p].content # Absent \/ p \in removed'
      <4>1. CASE Save(p)
        BY <4>1 DEF Save, Write, TypeInv, TypeOK, TypeDisk, TypeBounds, Absent
      <4>2. CASE Remove(p)
        BY <4>2 DEF Remove
      <4> QED BY <2>1, <4>1, <4>2
    <3>4. pc \in {"meta", "pullmeta"} => cur \in Path
      BY DEF TypeInv, TypeOK, TypeLoop
    <3> QED
      BY <3>1, <3>2, <3>3, <3>4 DEF DeleteInv, MissingRemoved, UnfoundRemoved,
           RecordedRemoved, RecordedFound, WrittenThere, DeletesAreUsers, Listing,
           Recording, Known, Exists
  <2>2. ASSUME UNCHANGED <<disk, durable, pc, locals, history>> PROVE DeleteInv'
    BY <2>2, DeleteFrame DEF durable, locals, history, deleteVars
  <2>3. ASSUME NEW p \in Path, RemoteEdit(p) \/ RemoteDelete(p) PROVE DeleteInv'
    BY <2>2, <2>3 DEF RemoteEdit, RemoteDelete, RemoteChange
  <2>4. CASE Tick
    BY <2>2, <2>4 DEF Tick
  <2> QED BY <1>1, <2>1, <2>3, <2>4 DEF World
<1>2. CASE Record
  <2>1. CASE Scan
    BY <2>1 DEF Scan, Scanned, durable, TypeInv, TypeOK, TypeDisk,
         DeleteInv, MissingRemoved, UnfoundRemoved, RecordedRemoved, RecordedFound,
         WrittenThere, DeletesAreUsers, Listing, Recording, Known, Exists
  <2>2. CASE StartSync
    BY <2>2, DeleteFrame DEF StartSync, durable, history, Listing
  <2>3. CASE PutFile
    <3>1. cur \in Path /\ buf \in File
      BY <2>3 DEF PutFile, TypeInv, TypeOK, TypeLoop
    <3>2. /\ \A q \in Path \ {cur} : disk'[q] = disk[q]
          /\ disk'[cur].content = buf.content
      BY <2>3, <3>1, StoredThere DEF PutFile, Write, TypeInv, TypeOK, TypeDisk
    <3> QED
      BY <2>3, <3>1, <3>2 DEF PutFile, durable, locals, history, DeleteInv, MissingRemoved,
           UnfoundRemoved, RecordedRemoved, RecordedFound, WrittenThere, DeletesAreUsers,
           Listing, Recording, Known, Exists
  <2>4. CASE PutMeta
    <3>1. cur \in Path /\ (buf.content = Absent <=> buf.mtime = NoTime)
      BY <2>4 DEF PutMeta, TypeInv, TypeOK, TypeLoop
    <3>2. \A q \in Path : meta'[q] = IF q = cur THEN buf.mtime ELSE meta[q]
      BY <2>4, <3>1 DEF PutMeta, TypeInv, TypeOK, TypeDurable
    <3> QED
      BY <2>4, <3>1, <3>2 DEF PutMeta, locals, history, TypeInv, TodoFound, DeleteInv,
           MissingRemoved, UnfoundRemoved, RecordedRemoved, RecordedFound, WrittenThere,
           DeletesAreUsers, Listing, Recording, Known, Exists
  <2>5. CASE Enqueue
    <3>1. cur \in Path
      BY <2>5 DEF Enqueue, TypeInv, TypeOK, TypeLoop
    <3>2. \A q \in Path : queue'[q] = IF q = cur
            THEN [op |-> IF buf.content = Absent THEN "delete" ELSE "upsert",
                  mtime |-> buf.mtime]
            ELSE queue[q]
      BY <2>5, <3>1 DEF Enqueue, TypeInv, TypeOK, TypeDurable
    <3> QED
      BY <2>5, <3>1, <3>2 DEF Enqueue, history, DeleteInv,
           MissingRemoved, UnfoundRemoved, RecordedRemoved, RecordedFound, WrittenThere,
           DeletesAreUsers, Listing, Recording, Known, Exists
  <2>6. ASSUME NEW p \in Path, SkipFile(p) \/ ReadFile(p) \/ FindDeleted(p)
        PROVE  DeleteInv'
    BY <2>6 DEF SkipFile, ReadFile, FindDeleted, durable, history, NoFile, DeleteInv,
         MissingRemoved, UnfoundRemoved, RecordedRemoved, RecordedFound, WrittenThere,
         DeletesAreUsers, Listing, Recording, Known, Exists
  <2> QED BY <1>2, <2>1, <2>2, <2>3, <2>4, <2>5, <2>6 DEF Record
<1>3. CASE Sync
  <2>1. CASE PushNothing \/ List
    BY <2>1, DeleteFrame DEF PushNothing, List, durable, history, Listing
  <2>2. CASE PushQueue
    <3>1. \A p \in Path : queue'[p].op # "delete"
      BY <2>2 DEF PushQueue, NoChange
    <3> QED
      BY <2>2, <3>1 DEF PushQueue, DeleteInv, MissingRemoved, UnfoundRemoved, RecordedRemoved,
           RecordedFound, WrittenThere, DeletesAreUsers, Listing, Recording, Known, Exists
  <2>3. ASSUME PushRefused \/ SaveCheckpoint \/ \E p \in Path : PullMissing(p)
        PROVE  DeleteInv'
    <3>1. pc' \in {"spawn", "idle", "down"}
      BY <2>3, ReconciledFound DEF PushRefused, SaveCheckpoint, PullMissing
    <3>2. UNCHANGED <<disk, meta, queue, removed>>
      BY <2>3 DEF PushRefused, SaveCheckpoint, PullMissing, durable, history
    <3> QED BY <3>1, <3>2, DeleteFrame DEF Listing
  <2>4. CASE PullMeta
    <3>1. cur \in Path /\ (buf.content = Absent <=> buf.mtime = NoTime)
      BY <2>4 DEF PullMeta, TypeInv, TypeOK, TypeLoop
    <3>2. \A q \in Path : meta'[q] = IF q = cur THEN buf.mtime ELSE meta[q]
      BY <2>4, <3>1 DEF PullMeta, TypeInv, TypeOK, TypeDurable
    <3> QED
      BY <2>4, <3>1, <3>2 DEF PullMeta, history, DeleteInv,
           MissingRemoved, UnfoundRemoved, RecordedRemoved, RecordedFound, WrittenThere,
           DeletesAreUsers, Listing, Recording, Known, Exists
  <2>5. ASSUME NEW p \in Path, NEW file \in File, Apply(p, file),
               removed \subseteq removed', file.content # Absent \/ p \in removed'
        PROVE  DeleteInv'
    <3>1. /\ \A q \in Path \ {p} : disk'[q] = disk[q]
          /\ disk'[p].content = file.content
      BY <2>5, StoredThere DEF Apply, Write, TypeInv, TypeOK, TypeDisk
    <3> QED
      BY <2>5, <3>1 DEF Apply, durable, DeleteInv, MissingRemoved,
           UnfoundRemoved, RecordedRemoved, RecordedFound, WrittenThere, DeletesAreUsers,
           Listing, Recording, Known, Exists
  <2>6. ASSUME NEW p \in Path, PullFile(p) PROVE DeleteInv'
    <3>1. [content |-> hub[p].content, mtime |-> hub[p].mtime] \in File
      BY DEF TypeInv, TypeOK, TypeHub, Doc, File
    <3> QED BY <2>5, <2>6, <3>1 DEF PullFile
  <2>7. ASSUME NEW p \in Path, PullDelete(p) PROVE DeleteInv'
    BY <2>5, <2>7, NoneType DEF PullDelete
  <2> QED BY <1>3, <2>1, <2>2, <2>3, <2>4, <2>6, <2>7 DEF Sync
<1>4. CASE Launch \/ Loop \/ Wakers \/ Stop \/ WatchFails
  <2>1. UNCHANGED <<disk, durable, removed>>
    BY <1>4 DEF Launch, Loop, Spawn, Recv, Debounce, Quiet, Wakers, WatchReady, PollChanges,
                WatchFails, Stop, Terminate, Crash, FinalTimeout, history
  <2>2. Away \/ UNCHANGED <<pc, locals>>
    BY <1>4 DEF Launch, Loop, Spawn, Recv, Debounce, Quiet, Wakers, WatchReady, PollChanges,
                WatchFails, Stop, Terminate, Crash, FinalTimeout, Exit, Reconcile, Listing
  <2> QED BY <2>1, <2>2, DeleteFrame DEF durable, locals, deleteVars
<1>5. CASE PushReplyLost \/ Fail
  <2>1. pc' \in {"spawn", "idle", "down"} /\ UNCHANGED <<disk, durable, removed>>
    BY <1>5, ReconciledFound DEF PushReplyLost, Fail
  <2> QED BY <2>1, DeleteFrame DEF durable, Listing
<1>6. ASSUME NEW skipped \in SUBSET Path, ScanSkips(skipped) PROVE DeleteInv'
  BY <1>6 DEF ScanSkips, Scanned, durable, TypeInv, TypeOK, TypeDisk,
       DeleteInv, MissingRemoved, UnfoundRemoved, RecordedRemoved, RecordedFound,
       WrittenThere, DeletesAreUsers, Listing, Recording, Known, Exists
<1>7. CASE UNCHANGED vars
  BY <1>7, DeleteFrame DEF vars, durable, locals, history, deleteVars
<1> QED BY <1>1, <1>2, <1>3, <1>4, <1>5, <1>6, <1>7 DEF Next, Fault

\* The client queues a delete only of a file that somebody deleted or whose directory
\* it could not read, whatever is saved, removed, pulled or cut off meanwhile.
THEOREM DeletesAreUsersAlways == Spec => []DeletesAreUsers
<1>1. Init => DeleteInv
  BY DEF Init, NoChange, DeleteInv, MissingRemoved, UnfoundRemoved, RecordedRemoved,
         RecordedFound, WrittenThere, DeletesAreUsers, Listing, Recording, Known
<1>2. TypeInv /\ DeleteInv /\ [Next]_vars => DeleteInv'
  BY DeleteStep
<1>3. DeleteInv => DeletesAreUsers
  BY DEF DeleteInv
<1> QED BY <1>1, <1>2, <1>3, TypeInvInductive, PTL DEF Spec

----------------------------------------------------------------------------
(* What the user saved is kept. *)

\* The number of a version tells the versions that exist from those still to come, and
\* what the hub has taken is not owed any more.
NumbersInv ==
  /\ \A p \in Path : hub[p].content <= versions /\ disk[p].content <= versions
  /\ buf.content <= versions
  /\ \A v \in owed : v <= versions
  /\ \A p \in Path : hub[p].content \notin owed

\* No file is dated at second 0, the mtime that FsFileStore::put does not keep.
DatedInv ==
  /\ clock # 0
  /\ \A p \in Path : disk[p].mtime # 0
  /\ Listing => \A p \in Path : local[p] # 0

\* A file with a version that is owed.
Owed(p) == disk[p].content \in owed

\* The scan knows its present mtime ...
OwedScanned == Listing => \A p \in Path : Owed(p) => local[p] = disk[p].mtime

\* ... a recorder writes back what it read, and record_delete does not touch it ...
OwedRead == pc = "put" /\ Owed(cur) => buf.content = disk[cur].content
OwedNotDeleted == Recording /\ buf.content = Absent => ~Owed(cur)

\* ... with the mtime of the scan, which is not the one of the metadata ...
BufScanned == Recording /\ buf.content # Absent => buf.mtime = local[cur]
BufChanged == pc \in {"put", "meta"} /\ buf.content # Absent => meta[cur] # buf.mtime

\* ... it looks synced only if it is queued or about to be ...
OwedQueued ==
  \A p \in Path : Owed(p) /\ meta[p] = disk[p].mtime =>
    queue[p].op = "upsert" \/ (pc = "queue" /\ cur = p /\ buf.content # Absent)

\* ... what the recorder is done with is queued, so is everything when the push
\* begins, and when the pull begins nothing is owed.
OwedDone == Listing => \A p \in Path \ todo : Owed(p) => queue[p].op = "upsert"
OwedPushed ==
  /\ pc = "push" => \A p \in Path : Owed(p) => queue[p].op = "upsert"
  /\ pc \in {"list", "pull", "pullmeta"} => \A p \in Path : ~Owed(p)

KeptInv ==
  /\ OwedScanned /\ OwedRead /\ OwedNotDeleted
  /\ BufScanned /\ BufChanged
  /\ OwedQueued /\ OwedDone /\ OwedPushed
  /\ SavesKept

\* A reconciliation that returns and a process that ends leave no buffer.
LEMMA ReturnedBuf ==
  ASSUME Exit \/ Reconciled("ok") \/ Reconciled("failed")
  PROVE  buf' = NoFile /\ pc' \in {"spawn", "idle", "down"}
  BY DEF Exit, Reconciled, NoLocals

LEMMA NumbersStep == ASSUME TypeInv, NumbersInv, [Next]_vars PROVE NumbersInv'
<1>1. /\ versions \in Nat /\ owed \subseteq Version
      /\ \A p \in Path : hub[p].content \in Int /\ disk[p].content \in Int
      /\ buf.content \in Int
  BY DEF TypeInv, TypeOK, TypeBounds, TypeHistory, TypeDisk, TypeHub, TypeLoop, File, Doc,
         Content, Absent, Empty, Version
<1>2. ASSUME UNCHANGED <<hub, versions>>, owed' \subseteq owed,
             \A p \in Path : disk'[p].content <= versions,
             buf'.content <= versions
      PROVE  NumbersInv'
  BY <1>2 DEF NumbersInv
<1>3. NoFile.content <= versions
  BY <1>1 DEF NoFile, Absent
<1>4. CASE World
  <2>1. ASSUME NEW p \in Path, Save(p) PROVE NumbersInv'
    <3>1. \A q \in Path : disk'[q].content = IF q = p THEN versions + 1 ELSE disk[q].content
      BY <2>1 DEF Save, Write, TypeInv, TypeOK, TypeDisk
    <3>2. UNCHANGED <<hub, buf>> /\ versions' = versions + 1
          /\ owed' \subseteq owed \cup {versions + 1}
      BY <2>1 DEF Save, remote, locals
    <3> QED BY <1>1, <3>1, <3>2 DEF NumbersInv, Version
  <2>2. ASSUME NEW p \in Path, Remove(p) PROVE NumbersInv'
    <3>1. \A q \in Path : disk'[q].content = IF q = p THEN Absent ELSE disk[q].content
      BY <2>2 DEF Remove, Write, NoFile, TypeInv, TypeOK, TypeDisk
    <3>2. UNCHANGED <<hub, buf, versions>> /\ owed' \subseteq owed
      BY <2>2 DEF Remove, remote, locals
    <3> QED BY <1>1, <3>1, <3>2 DEF NumbersInv, Absent
  <2>3. ASSUME NEW p \in Path, RemoteEdit(p) PROVE NumbersInv'
    <3>1. \A q \in Path : hub'[q].content = IF q = p THEN versions + 1 ELSE hub[q].content
      BY <2>3 DEF RemoteEdit, RemoteChange, TypeInv, TypeOK, TypeHub
    <3>2. UNCHANGED <<disk, buf, owed>> /\ versions' = versions + 1
      BY <2>3 DEF RemoteEdit, RemoteChange, locals, history
    <3> QED BY <1>1, <3>1, <3>2 DEF NumbersInv, Version
  <2>4. ASSUME NEW p \in Path, RemoteDelete(p) PROVE NumbersInv'
    <3>1. \A q \in Path : hub'[q].content = IF q = p THEN Absent ELSE hub[q].content
      BY <2>4 DEF RemoteDelete, RemoteChange, NoDoc, TypeInv, TypeOK, TypeHub
    <3>2. UNCHANGED <<disk, buf, owed, versions>>
      BY <2>4 DEF RemoteDelete, RemoteChange, locals, history
    <3> QED BY <1>1, <3>1, <3>2 DEF NumbersInv, Absent, Version
  <2>5. CASE Tick
    BY <1>2, <2>5 DEF Tick, NumbersInv, remote, locals, history
  <2> QED BY <1>4, <2>1, <2>2, <2>3, <2>4, <2>5 DEF World
<1>5. CASE Record
  <2>1. UNCHANGED <<hub, versions, owed>>
    BY <1>5 DEF Record, Scan, StartSync, PutFile, PutMeta, Enqueue, SkipFile, ReadFile,
                FindDeleted, remote, bounds, history
  <2>2. CASE PutFile
    <3>1. cur \in Path /\ buf \in File
      BY <2>2 DEF PutFile, TypeInv, TypeOK, TypeLoop
    <3>2. \A q \in Path : disk'[q].content = IF q = cur THEN buf.content ELSE disk[q].content
      BY <2>2, <3>1, StoredThere DEF PutFile, Write, TypeInv, TypeOK, TypeDisk
    <3> QED BY <1>2, <2>1, <2>2, <3>2 DEF PutFile, locals, NumbersInv
  <2>3. CASE ~PutFile
    <3>1. UNCHANGED disk
      BY <1>5, <2>3 DEF Record, Scan, StartSync, PutMeta, Enqueue, SkipFile, ReadFile,
                        FindDeleted
    <3>2. buf' = buf \/ buf' = NoFile \/ \E p \in Path : buf'.content = disk[p].content
      BY <1>5, <2>3 DEF Record, Scan, StartSync, PutMeta, Enqueue, SkipFile, ReadFile,
                        FindDeleted, locals
    <3> QED BY <1>2, <1>3, <2>1, <3>1, <3>2 DEF NumbersInv
  <2> QED BY <2>2, <2>3
<1>6. ASSUME NEW taken \in SUBSET Path, Upload(taken), UNCHANGED <<disk, versions>>,
             buf' = buf \/ buf' = NoFile
      PROVE  NumbersInv'
  <2>1. \A p \in Path : hub'[p].content \in {hub[p].content, Absent}
                          \/ /\ p \in taken /\ queue[p].op = "upsert"
                             /\ hub'[p].content = Body(p)
    <3>1. PICK lost \in SUBSET {p \in taken : Queued(p) /\ Unpulled(p)} :
            hub' = [p \in Path |-> IF p \in lost THEN [hub[p] EXCEPT !.seq = hubSeq + 1]
                                   ELSE IF p \in taken THEN Pushed(p) ELSE hub[p]]
      BY <1>6 DEF Upload
    <3>2. ASSUME NEW p \in Path
          PROVE  Pushed(p).content \in {hub[p].content, Absent}
                   \/ (queue[p].op = "upsert" /\ Pushed(p).content = Body(p))
      <4>1. CASE queue[p].op = "upsert"
        BY <4>1 DEF Pushed
      <4>2. CASE queue[p].op = "delete" /\ hub[p].content # Absent
        BY <4>2 DEF Pushed, NoDoc
      <4>3. CASE queue[p].op # "upsert" /\ ~(queue[p].op = "delete" /\ hub[p].content # Absent)
        BY <4>3 DEF Pushed
      <4> QED BY <4>1, <4>2, <4>3
    <3>3. ASSUME NEW p \in Path
          PROVE  [hub[p] EXCEPT !.seq = hubSeq + 1].content = hub[p].content
      BY DEF TypeInv, TypeOK, TypeHub, Doc
    <3> QED BY <3>1, <3>2, <3>3
  <2>2. \A p \in Path : Body(p) \in {disk[p].content, Empty}
    BY DEF Body
  <2>3. owed' = owed \ {Body(p) : p \in {q \in taken : queue[q].op = "upsert"}}
    BY <1>6 DEF Upload
  <2>4. \A p \in Path : hub'[p].content <= versions'
    BY <1>1, <1>6, <2>1, <2>2 DEF NumbersInv, Absent, Empty
  <2>5. \A p \in Path : disk'[p].content <= versions'
    BY <1>6 DEF NumbersInv
  <2>6. buf'.content <= versions'
    BY <1>3, <1>6 DEF NumbersInv
  <2>7. \A p \in Path : hub'[p].content \notin owed'
    BY <1>1, <2>1, <2>3 DEF NumbersInv, Absent, Version
  <2>8. \A v \in owed' : v <= versions'
    BY <1>6, <2>3 DEF NumbersInv
  <2> QED BY <2>4, <2>5, <2>6, <2>7, <2>8 DEF NumbersInv
<1>7. CASE Sync
  <2>1. CASE PushQueue
    BY <1>6, <2>1 DEF PushQueue, locals, bounds
  <2>2. CASE PushNothing \/ List
    BY <1>2, <2>2 DEF PushNothing, List, NumbersInv, locals, remote, bounds, history
  <2>3. CASE PullMeta
    BY <1>2, <1>3, <2>3 DEF PullMeta, NumbersInv, remote, bounds, history
  <2>4. ASSUME SaveCheckpoint \/ \E p \in Path : PullMissing(p)
        PROVE  NumbersInv'
    <3>1. buf' = NoFile
      BY <2>4, ReturnedBuf DEF SaveCheckpoint, PullMissing
    <3> QED
      BY <1>2, <1>3, <2>4, <3>1 DEF SaveCheckpoint, PullMissing, NumbersInv,
                                    remote, bounds, history
  <2>8. CASE PushRefused
    <3>1. buf' = NoFile /\ UNCHANGED <<disk, versions>>
      BY <2>8, ReturnedBuf, PushRefusedIs DEF bounds
    <3>2. ASSUME UNCHANGED <<remote, owed>> PROVE NumbersInv'
      BY <1>2, <1>3, <3>1, <3>2 DEF NumbersInv, remote
    <3> QED BY <1>6, <2>8, <3>1, <3>2, PushRefusedIs
  <2>5. ASSUME NEW p \in Path, NEW file \in File, Apply(p, file), file.content <= versions
        PROVE  NumbersInv'
    <3>1. \A q \in Path : disk'[q].content = IF q = p THEN file.content ELSE disk[q].content
      BY <2>5, StoredThere DEF Apply, Write, TypeInv, TypeOK, TypeDisk
    <3> QED BY <1>2, <2>5, <3>1 DEF Apply, NumbersInv, remote, bounds
  <2>6. ASSUME NEW p \in Path, PullFile(p) PROVE NumbersInv'
    <3>1. [content |-> hub[p].content, mtime |-> hub[p].mtime] \in File
      BY DEF TypeInv, TypeOK, TypeHub, Doc, File
    <3> QED BY <2>5, <2>6, <3>1 DEF PullFile, NumbersInv
  <2>7. ASSUME NEW p \in Path, PullDelete(p) PROVE NumbersInv'
    BY <1>3, <2>5, <2>7, NoneType DEF PullDelete
  <2> QED BY <1>7, <2>1, <2>2, <2>3, <2>4, <2>6, <2>7, <2>8 DEF Sync
<1>8. CASE Launch \/ Loop \/ Wakers \/ WatchFails \/ Terminate
  BY <1>2, <1>8 DEF Launch, Loop, Spawn, Recv, Debounce, Quiet, Wakers, WatchReady,
       PollChanges, WatchFails, Terminate, NumbersInv, locals, remote, bounds, history
<1>9. CASE Crash \/ FinalTimeout \/ Fail
  <2>1. buf' = NoFile
    BY <1>9, ReturnedBuf DEF Crash, FinalTimeout, Fail
  <2>2. UNCHANGED <<disk, hub, versions>> /\ owed' \subseteq owed
    BY <1>9 DEF Crash, FinalTimeout, Fail, CutOff, remote, bounds
  <2> QED BY <1>2, <1>3, <2>1, <2>2 DEF NumbersInv
<1>10. CASE PushReplyLost
  BY <1>6, <1>10, ReturnedBuf DEF PushReplyLost
<1>11. ASSUME NEW skipped \in SUBSET Path, ScanSkips(skipped) PROVE NumbersInv'
  BY <1>2, <1>11 DEF ScanSkips, NumbersInv, remote
<1>12. CASE UNCHANGED vars
  BY <1>2, <1>12 DEF vars, NumbersInv, locals, remote, bounds, history
<1> QED BY <1>4, <1>5, <1>7, <1>8, <1>9, <1>10, <1>11, <1>12 DEF Next, Fault, Stop

LEMMA DatedStep == ASSUME TypeInv, DatedInv, [Next]_vars PROVE DatedInv'
<1>1. ASSUME UNCHANGED <<disk, clock>>,
             ~Listing' \/ (Listing /\ UNCHANGED local) \/ UNCHANGED <<pc, local>>
      PROVE  DatedInv'
  BY <1>1 DEF DatedInv, Listing
<1>2. ASSUME NEW file \in File PROVE Stored(file).mtime # 0
  BY DEF Stored, NoFile, NoTime, DatedInv, File, Time, TypeInv, TypeOK, TypeBounds
<1>3. ASSUME NEW p \in Path, NEW file, Write(p, file), file.mtime # 0, UNCHANGED <<clock, local>>,
             ~Listing' \/ Listing
      PROVE  DatedInv'
  BY <1>3 DEF DatedInv, Write, TypeInv, TypeOK, TypeDisk
<1>4. CASE World
  <2>1. ASSUME NEW p \in Path, Save(p) PROVE DatedInv'
    <3>1. clock # 0
      BY DEF DatedInv
    <3> QED BY <1>3, <2>1, <3>1 DEF Save, locals, Listing
  <2>2. ASSUME NEW p \in Path, Remove(p) PROVE DatedInv'
    BY <1>3, <2>2 DEF Remove, locals, Listing, NoFile, NoTime
  <2>3. ASSUME NEW p \in Path, RemoteEdit(p) \/ RemoteDelete(p) PROVE DatedInv'
    BY <1>1, <2>3 DEF RemoteEdit, RemoteDelete, RemoteChange, locals
  <2>4. CASE Tick
    BY <2>4 DEF Tick, DatedInv, Listing, locals, TypeInv, TypeOK, TypeBounds, Time
  <2> QED BY <1>4, <2>1, <2>2, <2>3, <2>4 DEF World
<1>5. ASSUME NEW skipped \in SUBSET Path, Scanned(skipped), UNCHANGED <<disk, clock>>
      PROVE  DatedInv'
  BY <1>5 DEF Scanned, DatedInv, NoTime
<1>6. CASE Record
  <2>1. CASE Scan
    BY <1>5, <2>1 DEF Scan, bounds
  <2>2. CASE PutFile
    <3>1. cur \in Path /\ buf \in File
      BY <2>2 DEF PutFile, TypeInv, TypeOK, TypeLoop
    <3> QED BY <1>2, <1>3, <2>2, <3>1 DEF PutFile, locals, bounds, Listing
  <2>3. ASSUME StartSync \/ PutMeta \/ Enqueue
               \/ \E p \in Path : SkipFile(p) \/ ReadFile(p) \/ FindDeleted(p)
        PROVE  DatedInv'
    BY <1>1, <2>3 DEF StartSync, PutMeta, Enqueue, SkipFile, ReadFile, FindDeleted, locals,
                      bounds, Listing
  <2> QED BY <1>6, <2>1, <2>2, <2>3 DEF Record
<1>7. ASSUME NEW p \in Path, NEW file \in File, Apply(p, file) PROVE DatedInv'
  BY <1>2, <1>3, <1>7 DEF Apply, bounds, Listing
<1>8. CASE Sync
  <2>1. ASSUME NEW p \in Path, PullFile(p) PROVE DatedInv'
    <3>1. [content |-> hub[p].content, mtime |-> hub[p].mtime] \in File
      BY DEF TypeInv, TypeOK, TypeHub, Doc, File
    <3> QED BY <1>7, <2>1, <3>1 DEF PullFile
  <2>2. ASSUME NEW p \in Path, PullDelete(p) PROVE DatedInv'
    BY <1>7, <2>2, NoneType DEF PullDelete
  <2>3. ASSUME PushRefused \/ SaveCheckpoint \/ \E p \in Path : PullMissing(p)
        PROVE  DatedInv'
    <3>1. ~Listing'
      BY <2>3, ReconciledFound DEF PushRefused, SaveCheckpoint, PullMissing, Listing
    <3> QED BY <1>1, <2>3, <3>1 DEF PushRefused, SaveCheckpoint, PullMissing, bounds
  <2>4. CASE PushNothing \/ PushQueue \/ List \/ PullMeta
    BY <1>1, <2>4 DEF PushNothing, PushQueue, List, PullMeta, bounds, Listing
  <2> QED BY <1>8, <2>1, <2>2, <2>3, <2>4 DEF Sync
<1>9. CASE Launch \/ Loop \/ Wakers \/ WatchFails \/ Stop
  BY <1>1, <1>9 DEF Launch, Loop, Spawn, Recv, Debounce, Quiet, Wakers, WatchReady,
       PollChanges, WatchFails, Stop, Terminate, Crash, FinalTimeout, Exit, Reconcile,
       locals, bounds, Listing
<1>10. CASE PushReplyLost \/ Fail
  <2>1. ~Listing'
    BY <1>10, ReconciledFound DEF PushReplyLost, Fail, Listing
  <2> QED BY <1>1, <1>10, <2>1 DEF PushReplyLost, Fail
<1>11. ASSUME NEW skipped \in SUBSET Path, ScanSkips(skipped) PROVE DatedInv'
  BY <1>5, <1>11 DEF ScanSkips
<1>12. CASE UNCHANGED vars
  BY <1>1, <1>12 DEF vars, locals, bounds
<1> QED BY <1>4, <1>6, <1>8, <1>9, <1>10, <1>11, <1>12 DEF Next, Fault

\* An owed version is one that a file can have.
LEMMA OwedExists ==
  ASSUME TypeInv, NEW p \in Path, Owed(p)
  PROVE  Exists(p) /\ disk[p].mtime # NoTime /\ Body(p) = disk[p].content
  BY DEF TypeInv, TypeOK, TypeDisk, TypeHistory, Owed, Exists, Version, Absent, Body

\* A write to a file that leaves owed contents as they are.
LEMMA KeptWrite ==
  ASSUME SavesKept, owed' \subseteq owed, NEW p \in Path,
         \A q \in Path \ {p} : disk'[q] = disk[q],
         disk[p].content \in owed' => disk'[p].content = disk[p].content
  PROVE  SavesKept'
<1> SUFFICES ASSUME NEW v \in owed' PROVE \E q \in Path : disk'[q].content = v
  BY DEF SavesKept
<1>1. PICK q \in Path : disk[q].content = v
  BY DEF SavesKept
<1>2. CASE q = p
  BY <1>1, <1>2
<1>3. CASE q # p
  BY <1>1, <1>3
<1> QED BY <1>2, <1>3

\* Outside of a reconciliation only the metadata and the queue count.
LEMMA KeptAway ==
  ASSUME KeptInv, UNCHANGED <<disk, meta, queue>>, owed' \subseteq owed,
         pc' \in {"down", "spawn", "idle", "debounce", "scan"},
         pc = "queue" => disk[cur].content \notin owed'
  PROVE  KeptInv'
  BY DEF KeptInv, OwedScanned, OwedRead, OwedNotDeleted, BufScanned, BufChanged, OwedQueued,
         OwedDone, OwedPushed, SavesKept, Owed, Listing, Recording

LEMMA KeptFrame ==
  ASSUME KeptInv, UNCHANGED <<pc, deleteVars>>, owed' \subseteq owed
  PROVE  KeptInv'
  BY DEF KeptInv, OwedScanned, OwedRead, OwedNotDeleted, BufScanned, BufChanged, OwedQueued,
         OwedDone, OwedPushed, SavesKept, Owed, Listing, Recording, deleteVars

\* The user: a save during a reconciliation is not owed, one outside of it has another
\* mtime than the metadata.
LEMMA KeptUser ==
  ASSUME TypeInv, NumbersInv, KeptInv, NEW p \in Path, Save(p) \/ Remove(p)
  PROVE  KeptInv'
<1>1. UNCHANGED <<pc, meta, queue, local, todo, cur, buf>>
  BY DEF Save, Remove, durable, locals
<1>2. \A q \in Path \ {p} : disk'[q] = disk[q]
  BY DEF Save, Remove, Write, TypeInv, TypeOK, TypeDisk
<1>3. \A q \in Path \ {p} : Owed(q)' => Owed(q)
  <2>1. \A q \in Path : disk[q].content # versions + 1
    BY DEF NumbersInv, TypeInv, TypeOK, TypeBounds, TypeDisk, File, Content, Absent, Empty,
           Version
  <2>2. owed' \subseteq owed \cup {versions + 1}
    BY DEF Save, Remove
  <2> QED BY <1>2, <2>1, <2>2 DEF Owed
<1>4. Owed(p)' => ~Reconciling /\ meta[p] # disk'[p].mtime
  <2>1. CASE Remove(p)
    BY <2>1 DEF Remove, Write, NoFile, Owed, TypeInv, TypeOK, TypeDisk, TypeHistory,
                Version, Absent
  <2>2. CASE Save(p)
    <3>1. disk'[p] = [content |-> versions + 1, mtime |-> clock]
      BY <2>2 DEF Save, Write, TypeInv, TypeOK, TypeDisk
    <3>2. versions + 1 \notin owed
      BY DEF NumbersInv, TypeInv, TypeOK, TypeHistory, TypeBounds, Version
    <3> QED BY <2>2, <3>1, <3>2 DEF Save, Owed
  <2> QED BY <2>1, <2>2
<1>5. SavesKept'
  <2>1. CASE Remove(p)
    BY <1>2, <2>1, KeptWrite DEF Remove, KeptInv
  <2>2. CASE Save(p)
    <3>1. ASSUME NEW v \in owed' PROVE \E q \in Path : disk'[q].content = v
      <4>1. CASE v = versions + 1
        BY <2>2, <4>1 DEF Save, Write, TypeInv, TypeOK, TypeDisk
      <4>2. CASE v # versions + 1
        <5>1. v \in owed /\ v # disk[p].content
          BY <2>2, <3>1, <4>2 DEF Save
        <5>2. PICK q \in Path : disk[q].content = v
          BY <5>1 DEF KeptInv, SavesKept
        <5> QED BY <1>2, <5>1, <5>2
      <4> QED BY <4>1, <4>2
    <3> QED BY <3>1 DEF SavesKept
  <2> QED BY <2>1, <2>2
<1>6. /\ Listing => Reconciling
      /\ pc \in {"push", "list", "pull", "pullmeta"} => Reconciling
      /\ Recording => cur \in Path
  BY DEF Listing, Recording, Reconciling, TypeInv, TypeOK, TypeLoop
<1>7. \A q \in Path : Owed(q)' =>
        \/ q = p /\ ~Reconciling /\ meta[p] # disk'[p].mtime
        \/ Owed(q) /\ disk'[q] = disk[q]
  BY <1>2, <1>3, <1>4
<1>8. OwedScanned' /\ OwedDone' /\ OwedPushed'
  BY <1>1, <1>6, <1>7 DEF KeptInv, OwedScanned, OwedDone, OwedPushed, Listing
<1>9. OwedQueued'
  BY <1>1, <1>7 DEF KeptInv, OwedQueued
<1>10. OwedRead' /\ OwedNotDeleted' /\ BufScanned' /\ BufChanged'
  <2>1. Recording /\ disk'[cur].content \in owed' =>
          disk[cur].content \in owed /\ disk'[cur] = disk[cur]
    BY <1>6, <1>7 DEF Recording, Listing, Owed
  <2> QED
    BY <1>1, <2>1 DEF KeptInv, OwedRead, OwedNotDeleted, BufScanned, BufChanged,
                            Recording, Owed
<1> QED BY <1>5, <1>8, <1>9, <1>10 DEF KeptInv

\* Scanning and recording.
LEMMA KeptScan ==
  ASSUME TypeInv, KeptInv, NEW skipped \in SUBSET Path, Scanned(skipped),
         owed' \subseteq owed, \A p \in skipped : disk[p].content \notin owed',
         pc = "scan", UNCHANGED <<disk, meta, queue, cur, buf>>
  PROVE  KeptInv'
<1>1. \A p \in Path : Owed(p)' => Owed(p) /\ p \notin skipped
  BY DEF Owed
<1>2. OwedScanned'
  BY <1>1 DEF OwedScanned, Scanned
<1>3. OwedDone'
  BY <1>1, OwedExists DEF OwedDone, Scanned
<1>4. OwedQueued'
  BY <1>1 DEF KeptInv, OwedQueued, Scanned
<1> QED
  BY <1>2, <1>3, <1>4 DEF KeptInv, OwedRead, OwedNotDeleted, BufScanned, BufChanged,
     OwedPushed, SavesKept, Recording, Scanned

LEMMA KeptRecord ==
  ASSUME TypeInv, DatedInv, DeleteInv, KeptInv, Record
  PROVE  KeptInv'
<1> USE DEF KeptInv
<1>1. CASE Scan
  BY <1>1, KeptScan DEF Scan, durable
<1>2. CASE StartSync
  BY <1>2 DEF StartSync, durable, locals, history, OwedScanned, OwedRead, OwedNotDeleted,
     BufScanned, BufChanged, OwedQueued, OwedDone, OwedPushed, SavesKept, Owed, Listing,
     Recording
<1>3. CASE PutFile
  <2>1. cur \in Path /\ buf \in File /\ local[cur] # 0
        /\ (buf.content = Absent => buf.mtime = NoTime)
    BY <1>3 DEF PutFile, TypeInv, TypeOK, TypeLoop, DatedInv, Listing
  <2>2. UNCHANGED <<meta, queue, local, todo, cur, buf, owed>> /\ pc = "put" /\ pc' = "meta"
    BY <1>3 DEF PutFile, durable, locals, history
  <2>3. \A q \in Path \ {cur} : disk'[q] = disk[q]
    BY <1>3 DEF PutFile, Write, TypeInv, TypeOK, TypeDisk
  <2>4. disk'[cur] = Stored(buf)
    BY <1>3, <2>1 DEF PutFile, Write, TypeInv, TypeOK, TypeDisk
  <2>5. disk'[cur].content = buf.content
    BY <2>1, <2>4, StoredThere
  <2>6. buf.content # Absent => disk'[cur].mtime = buf.mtime /\ buf.mtime = local[cur]
    <3>1. ASSUME buf.content # Absent PROVE buf.mtime = local[cur] /\ buf.mtime > 0
      BY <2>1, <2>2, <3>1 DEF BufScanned, Recording, TypeInv, TypeOK, TypeLoop, File, Time,
                              NoTime
    <3> QED BY <2>1, <2>4, <3>1 DEF Stored, File
  <2>7. Owed(cur)' => buf.content # Absent
    BY <2>2, <2>5 DEF Owed, TypeInv, TypeOK, TypeHistory, Version, Absent
  <2>8. \A q \in Path : Owed(q)' => q = cur \/ (Owed(q) /\ disk'[q] = disk[q])
    BY <2>2, <2>3 DEF Owed
  <2>9. SavesKept'
    <3>1. disk[cur].content \in owed => disk'[cur].content = disk[cur].content
      BY <2>2, <2>5 DEF OwedRead, Owed
    <3> QED BY <2>1, <2>2, <2>3, <3>1, KeptWrite
  <2>10. OwedScanned' /\ OwedPushed' /\ OwedRead' /\ OwedNotDeleted' /\ BufScanned' /\ BufChanged'
    BY <2>1, <2>2, <2>6, <2>7, <2>8 DEF OwedScanned, OwedPushed, OwedRead, OwedNotDeleted,
       BufScanned, BufChanged, Listing, Recording, Owed
  <2>11. OwedQueued'
    BY <2>1, <2>2, <2>6, <2>7, <2>8 DEF OwedQueued, BufChanged
  <2>12. OwedDone'
    <3>1. Owed(cur)' => cur \in todo
      BY <2>2, <2>7 DEF DeleteInv, RecordedFound, Recording
    <3> QED BY <2>2, <2>8, <3>1 DEF OwedDone, Listing
  <2> QED BY <2>9, <2>10, <2>11, <2>12
<1>4. CASE PutMeta
  <2>1. cur \in Path
    BY <1>4 DEF PutMeta, TypeInv, TypeOK, TypeLoop
  <2>2. \A q \in Path : meta'[q] = IF q = cur THEN buf.mtime ELSE meta[q]
    BY <1>4, <2>1 DEF PutMeta, TypeInv, TypeOK, TypeDurable
  <2> QED
    BY <1>4, <2>1, <2>2 DEF PutMeta, locals, history, OwedScanned, OwedRead, OwedNotDeleted,
       BufScanned, BufChanged, OwedQueued, OwedDone, OwedPushed, SavesKept, Owed, Listing,
       Recording
<1>5. CASE Enqueue
  <2>1. cur \in Path
    BY <1>5 DEF Enqueue, TypeInv, TypeOK, TypeLoop
  <2>2. \A q \in Path : queue'[q].op = IF q = cur
          THEN IF buf.content = Absent THEN "delete" ELSE "upsert" ELSE queue[q].op
    BY <1>5, <2>1 DEF Enqueue, TypeInv, TypeOK, TypeDurable
  <2> QED
    BY <1>5, <2>1, <2>2 DEF Enqueue, history, OwedScanned, OwedRead, OwedNotDeleted,
       BufScanned, BufChanged, OwedQueued, OwedDone, OwedPushed, SavesKept, Owed, Listing,
       Recording
<1>6. ASSUME NEW p \in Path, SkipFile(p) PROVE KeptInv'
  <2>1. Owed(p) => queue[p].op = "upsert"
    <3>1. CASE ~Exists(p)
      BY <3>1, OwedExists
    <3>2. CASE ~Changed(p)
      BY <1>6, <3>2 DEF SkipFile, Changed, OwedScanned, OwedQueued, Listing
    <3> QED BY <1>6, <3>1, <3>2 DEF SkipFile
  <2> QED
    BY <1>6, <2>1 DEF SkipFile, durable, history, OwedScanned, OwedRead, OwedNotDeleted,
       BufScanned, BufChanged, OwedQueued, OwedDone, OwedPushed, SavesKept, Owed, Listing,
       Recording
<1>7. ASSUME NEW p \in Path, ReadFile(p) PROVE KeptInv'
  BY <1>7 DEF ReadFile, Changed, Exists, durable, history, OwedScanned, OwedRead, OwedNotDeleted,
     BufScanned, BufChanged, OwedQueued, OwedDone, OwedPushed, SavesKept, Owed, Listing,
     Recording
<1>8. ASSUME NEW p \in Path, FindDeleted(p) PROVE KeptInv'
  <2>1. ~Owed(p)
    BY <1>8, OwedExists DEF FindDeleted, OwedScanned, Listing
  <2> QED
    BY <1>8, <2>1 DEF FindDeleted, NoFile, durable, history, OwedScanned, OwedRead,
       OwedNotDeleted, BufScanned, BufChanged, OwedQueued, OwedDone, OwedPushed, SavesKept,
       Owed, Listing, Recording
<1> QED BY <1>1, <1>2, <1>3, <1>4, <1>5, <1>6, <1>7, <1>8 DEF Record

\* Push and pull.
LEMMA KeptSync ==
  ASSUME TypeInv, NumbersInv, KeptInv, Sync
  PROVE  KeptInv'
<1> USE DEF KeptInv
<1>1. CASE PushQueue
  <2>1. pc = "push" /\ pc' = "list" /\ UNCHANGED <<disk, meta, local, todo, cur, buf>>
        /\ owed' = owed \ {Body(p) : p \in {q \in Path : queue[q].op = "upsert"}}
    BY <1>1 DEF PushQueue, Upload, locals
  <2>2. ASSUME NEW p \in Path PROVE ~Owed(p)'
    <3>1. CASE Owed(p)
      BY <2>1, <3>1, OwedExists DEF OwedPushed, Owed
    <3>2. CASE ~Owed(p)
      BY <2>1, <3>2 DEF Owed
    <3> QED BY <3>1, <3>2
  <2>3. SavesKept'
    BY <2>1 DEF SavesKept
  <2> QED
    BY <2>1, <2>2, <2>3 DEF OwedScanned, OwedRead, OwedNotDeleted, BufScanned, BufChanged,
       OwedQueued, OwedDone, OwedPushed, Listing, Recording
<1>2. CASE PushNothing
  <2>1. \A p \in Path : ~Owed(p)
    BY <1>2 DEF PushNothing, OwedPushed, Queued
  <2> QED
    BY <1>2, <2>1 DEF PushNothing, durable, locals, history, OwedScanned, OwedRead,
       OwedNotDeleted, BufScanned, BufChanged, OwedQueued, OwedDone, OwedPushed, SavesKept,
       Owed, Listing, Recording
<1>3. CASE List
  BY <1>3 DEF List, durable, history, OwedScanned, OwedRead, OwedNotDeleted, BufScanned,
     BufChanged, OwedQueued, OwedDone, OwedPushed, SavesKept, Owed, Listing, Recording
<1>9. CASE PushRefused
  <2>1. pc' \in {"spawn", "idle", "down"} /\ pc = "push" /\ UNCHANGED <<disk, meta, queue>>
    BY <1>9, PushRefusedIs, ReturnedBuf DEF durable
  <2>2. owed' \subseteq owed
    BY <1>9, PushRefusedIs DEF Upload
  <2> QED BY <2>1, <2>2, KeptAway
<1>4. ASSUME SaveCheckpoint \/ \E p \in Path : PullMissing(p)
      PROVE  KeptInv'
  <2>1. pc' \in {"spawn", "idle", "down"}
    BY <1>4, ReconciledFound DEF SaveCheckpoint, PullMissing
  <2>2. UNCHANGED <<disk, meta, queue, owed>> /\ pc # "queue"
    BY <1>4 DEF SaveCheckpoint, PullMissing, durable, history
  <2> QED BY <2>1, <2>2, KeptAway
<1>5. CASE PullMeta
  BY <1>5 DEF PullMeta, history, OwedScanned, OwedRead, OwedNotDeleted, BufScanned,
     BufChanged, OwedQueued, OwedDone, OwedPushed, SavesKept, Owed, Listing, Recording
<1>6. ASSUME NEW p \in Path, NEW file \in File, file.content \notin owed, Apply(p, file)
      PROVE  KeptInv'
  <2>1. /\ \A q \in Path \ {p} : disk'[q] = disk[q]
        /\ disk'[p].content = file.content
    BY <1>6, StoredThere DEF Apply, Write, TypeInv, TypeOK, TypeDisk
  <2>2. pc = "pull" /\ pc' = "pullmeta" /\ UNCHANGED owed
    BY <1>6 DEF Apply
  <2>3. \A q \in Path : ~Owed(q)
    BY <2>2 DEF OwedPushed
  <2>4. \A q \in Path : ~Owed(q)'
    BY <1>6, <2>1, <2>2, <2>3 DEF Owed
  <2>5. SavesKept'
    BY <2>1, <2>2, <2>3, KeptWrite DEF Owed
  <2> QED
    BY <2>2, <2>4, <2>5 DEF OwedScanned, OwedRead, OwedNotDeleted, BufScanned, BufChanged,
       OwedQueued, OwedDone, OwedPushed, Listing, Recording
<1>7. ASSUME NEW p \in Path, PullFile(p) PROVE KeptInv'
  <2>1. [content |-> hub[p].content, mtime |-> hub[p].mtime] \in File
    BY DEF TypeInv, TypeOK, TypeHub, Doc, File
  <2> QED BY <1>6, <1>7, <2>1 DEF PullFile, NumbersInv
<1>8. ASSUME NEW p \in Path, PullDelete(p) PROVE KeptInv'
  <2>1. NoFile.content \notin owed
    BY DEF NoFile, TypeInv, TypeOK, TypeHistory, Version, Absent
  <2> QED BY <1>6, <1>8, <2>1, NoneType DEF PullDelete
<1> QED BY <1>1, <1>2, <1>3, <1>4, <1>5, <1>7, <1>8, <1>9 DEF Sync

LEMMA KeptStep ==
  ASSUME TypeInv, NumbersInv, DatedInv, DeleteInv, KeptInv, [Next]_vars
  PROVE  KeptInv'
<1>1. CASE World
  <2>1. ASSUME UNCHANGED <<disk, durable, pc, locals, history>> PROVE KeptInv'
    BY <2>1, KeptFrame DEF durable, locals, history, deleteVars
  <2>2. ASSUME NEW p \in Path, RemoteEdit(p) \/ RemoteDelete(p) PROVE KeptInv'
    BY <2>1, <2>2 DEF RemoteEdit, RemoteDelete, RemoteChange
  <2>3. CASE Tick
    BY <2>1, <2>3 DEF Tick
  <2> QED BY <1>1, <2>2, <2>3, KeptUser DEF World
<1>2. CASE Launch \/ Loop \/ Terminate
  BY <1>2, KeptAway DEF Launch, Loop, Spawn, Recv, Debounce, Quiet, Terminate, Reconcile,
     durable, history
<1>3. CASE Wakers \/ WatchFails
  BY <1>3, KeptFrame DEF Wakers, WatchReady, PollChanges, WatchFails, durable, locals,
     history, deleteVars
<1>4. CASE Crash \/ FinalTimeout \/ Fail
  <2>1. pc' \in {"spawn", "idle", "down"} /\ CutOff /\ UNCHANGED <<disk, meta, queue>>
    BY <1>4, ReturnedBuf DEF Crash, FinalTimeout, Fail, durable
  <2> QED BY <2>1, KeptAway DEF CutOff
<1>5. CASE PushReplyLost
  <2>1. pc' \in {"spawn", "idle", "down"} /\ pc = "push" /\ UNCHANGED <<disk, meta, queue>>
        /\ owed' \subseteq owed
    BY <1>5, ReturnedBuf DEF PushReplyLost, Upload, durable
  <2> QED BY <2>1, KeptAway
<1>6. ASSUME NEW skipped \in SUBSET Path, ScanSkips(skipped) PROVE KeptInv'
  BY <1>6, KeptScan DEF ScanSkips, durable
<1>7. CASE UNCHANGED vars
  BY <1>7, KeptFrame DEF vars, durable, locals, history, deleteVars
<1> QED BY <1>1, <1>2, <1>3, <1>4, <1>5, <1>6, <1>7, KeptRecord, KeptSync DEF Next, Fault, Stop

\* What the user saved outside of a reconciliation, in a second of its own, is in the
\* directory until the user replaces or deletes it or the hub has taken it, whatever
\* fails, crashes, is pulled or is refused meanwhile.
THEOREM SavesKeptAlways == Spec => []SavesKept
<1>1. Init => NumbersInv /\ DatedInv /\ DeleteInv /\ KeptInv
  <2> SUFFICES ASSUME Init PROVE NumbersInv /\ DatedInv /\ DeleteInv /\ KeptInv
    OBVIOUS
  <2>1. NumbersInv /\ DatedInv
    BY DEF Init, NumbersInv, DatedInv, Listing, NoFile, NoDoc, Absent, NoTime
  <2>2. DeleteInv
    BY DEF Init, NoChange, DeleteInv, MissingRemoved, UnfoundRemoved, RecordedRemoved,
           RecordedFound, WrittenThere, DeletesAreUsers, Listing, Recording, Known
  <2>3. KeptInv
    BY DEF Init, KeptInv, OwedScanned, OwedRead, OwedNotDeleted, BufScanned, BufChanged,
           OwedQueued, OwedDone, OwedPushed, SavesKept, Owed, Listing, Recording
  <2> QED BY <2>1, <2>2, <2>3
<1>2. /\ TypeInv /\ NumbersInv /\ DatedInv /\ DeleteInv /\ KeptInv
      /\ [Next]_vars
      => NumbersInv' /\ DatedInv' /\ DeleteInv' /\ KeptInv'
  BY NumbersStep, DatedStep, DeleteStep, KeptStep
<1>3. KeptInv => SavesKept
  BY DEF KeptInv
<1> QED BY <1>1, <1>2, <1>3, TypeInvInductive, PTL DEF Spec

----------------------------------------------------------------------------
(* No upload without its file. *)

\* A delete of this path is about to be queued.
Deleting(p) == pc = "queue" /\ cur = p /\ buf.content = Absent

\* The empty content is only where a file went away ...
EmptyMarked ==
  /\ \A p \in Path : disk[p].content = Empty => p \in emptied
  /\ Recording \/ pc = "pullmeta" => (buf.content = Empty => cur \in emptied)

\* ... otherwise a queued upload has metadata, by which the next scan finds that its
\* file is missing ...
QueueKnown ==
  \A p \in Path \ emptied : queue[p].op = "upsert" => Known(p) \/ Deleting(p)

\* ... and if it is missing, the scan did find that, before the push ...
MissingFound ==
  \A p \in Path \ emptied : queue[p].op = "upsert" /\ ~Exists(p) =>
    pc # "push" /\ (Listing => local[p] = NoTime \/ Deleting(p))

\* ... so is every file that record_delete works on ...
DeletedUnfound == Recording /\ buf.content = Absent => local[cur] = NoTime

\* ... what is about to be queued was written, and its metadata too ...
WrittenExists ==
  pc \in {"meta", "queue"} /\ buf.content # Absent /\ ~Exists(cur) => cur \in emptied
MetaWritten == pc = "queue" => meta[cur] = buf.mtime

\* ... and the queue is empty throughout the pull.
PullsUnqueued == pc \in {"list", "pull", "pullmeta"} => \A p \in Path : ~Queued(p)

EmptyInv ==
  /\ EmptyMarked /\ QueueKnown /\ MissingFound /\ DeletedUnfound
  /\ WrittenExists /\ MetaWritten /\ PullsUnqueued
  /\ UploadsHaveFiles

\* Outside of a reconciliation the queue, its metadata and the files count.
LEMMA EmptyAway ==
  ASSUME TypeInv, EmptyInv, UNCHANGED <<disk, meta, queue, hub>>, emptied \subseteq emptied',
         pc' \in {"down", "spawn", "idle", "debounce", "scan"},
         pc = "queue" /\ buf.content = Absent => cur \in emptied'
  PROVE  EmptyInv'
  BY DEF EmptyInv, EmptyMarked, QueueKnown, MissingFound, WrittenExists, MetaWritten,
         DeletedUnfound, PullsUnqueued, UploadsHaveFiles, Deleting, Known, Exists, Queued, Listing, Recording

LEMMA EmptyFrame ==
  ASSUME EmptyInv, UNCHANGED <<pc, deleteVars, hub, emptied>>
  PROVE  EmptyInv'
  BY DEF EmptyInv, EmptyMarked, QueueKnown, MissingFound, WrittenExists, MetaWritten,
         DeletedUnfound, PullsUnqueued, UploadsHaveFiles, Deleting, Known, Exists, Queued, Listing, Recording,
         deleteVars

\* Deletes inside a reconciliation are marked, those outside are found by the scan.
LEMMA EmptyUser ==
  ASSUME TypeInv, EmptyInv, NEW p \in Path, Save(p) \/ Remove(p)
  PROVE  EmptyInv'
<1>1. UNCHANGED <<pc, meta, queue, local, cur, buf, hub>> /\ emptied \subseteq emptied'
  BY DEF Save, Remove, durable, locals, remote
<1>2. \A q \in Path \ {p} : disk'[q] = disk[q]
  BY DEF Save, Remove, Write, TypeInv, TypeOK, TypeDisk
<1>3. disk'[p].content # Empty
  <2>1. CASE Save(p)
    BY <2>1 DEF Save, Write, TypeInv, TypeOK, TypeDisk, TypeBounds, Empty
  <2>2. CASE Remove(p)
    BY <2>2 DEF Remove, Write, NoFile, TypeInv, TypeOK, TypeDisk, Empty, Absent
  <2> QED BY <2>1, <2>2
<1>4. disk'[p].content # Absent \/ p \in emptied' \/ ~Reconciling
  <2>1. CASE Save(p)
    BY <2>1 DEF Save, Write, TypeInv, TypeOK, TypeDisk, TypeBounds, Absent
  <2>2. CASE Remove(p)
    BY <2>2 DEF Remove
  <2> QED BY <2>1, <2>2
<1>5. pc \in {"meta", "queue"} => cur \in Path
  BY DEF TypeInv, TypeOK, TypeLoop
<1> QED
  BY <1>1, <1>2, <1>3, <1>4, <1>5 DEF EmptyInv, EmptyMarked, QueueKnown, MissingFound,
     WrittenExists, MetaWritten, DeletedUnfound, PullsUnqueued, UploadsHaveFiles, Deleting,
     Known, Exists, Queued, Listing, Recording, Reconciling

LEMMA EmptyRecord == ASSUME TypeInv, EmptyInv, Record PROVE EmptyInv'
<1> USE DEF EmptyInv, EmptyMarked, QueueKnown, MissingFound, WrittenExists, MetaWritten,
            DeletedUnfound, PullsUnqueued, UploadsHaveFiles, Deleting, Known, Exists, Queued,
            Listing, Recording
<1>0. UNCHANGED <<hub, emptied>>
  BY DEF Record, Scan, StartSync, PutFile, PutMeta, Enqueue, SkipFile, ReadFile, FindDeleted,
         remote, history
<1>1. CASE Scan
  BY <1>0, <1>1 DEF Scan, Scanned, durable, TypeInv, TypeOK, TypeDisk
<1>2. CASE StartSync
  BY <1>0, <1>2 DEF StartSync, durable, locals
<1>3. CASE PutFile
  <2>1. cur \in Path /\ buf \in File
    BY <1>3 DEF PutFile, TypeInv, TypeOK, TypeLoop
  <2>2. /\ \A q \in Path \ {cur} : disk'[q] = disk[q]
        /\ disk'[cur].content = buf.content
    BY <1>3, <2>1, StoredThere DEF PutFile, Write, TypeInv, TypeOK, TypeDisk
  <2>3. UNCHANGED <<meta, queue, local, cur, buf>> /\ pc = "put" /\ pc' = "meta"
    BY <1>3 DEF PutFile, durable, locals
  <2> QED BY <1>0, <2>1, <2>2, <2>3
<1>4. CASE PutMeta
  <2>1. cur \in Path /\ (buf.content = Absent <=> buf.mtime = NoTime)
    BY <1>4 DEF PutMeta, TypeInv, TypeOK, TypeLoop
  <2>2. \A q \in Path : meta'[q] = IF q = cur THEN buf.mtime ELSE meta[q]
    BY <1>4, <2>1 DEF PutMeta, TypeInv, TypeOK, TypeDurable
  <2> QED BY <1>0, <1>4, <2>1, <2>2 DEF PutMeta, locals
<1>5. CASE Enqueue
  <2>1. cur \in Path /\ (buf.content = Absent <=> buf.mtime = NoTime)
    BY <1>5 DEF Enqueue, TypeInv, TypeOK, TypeLoop
  <2>2. \A q \in Path : queue'[q].op = IF q = cur
          THEN IF buf.content = Absent THEN "delete" ELSE "upsert" ELSE queue[q].op
    BY <1>5, <2>1 DEF Enqueue, TypeInv, TypeOK, TypeDurable
  <2> QED BY <1>0, <1>5, <2>1, <2>2 DEF Enqueue
<1>6. ASSUME NEW p \in Path, SkipFile(p) \/ ReadFile(p) PROVE EmptyInv'
  BY <1>0, <1>6 DEF SkipFile, ReadFile, durable
<1>7. ASSUME NEW p \in Path, FindDeleted(p) PROVE EmptyInv'
  BY <1>0, <1>7 DEF FindDeleted, durable, NoFile, Absent, Empty
<1> QED BY <1>1, <1>2, <1>3, <1>4, <1>5, <1>6, <1>7 DEF Record

\* A push of the queue, or of a part of it.
LEMMA EmptyUpload ==
  ASSUME TypeInv, EmptyInv, pc = "push", NEW taken \in SUBSET Path, Upload(taken)
  PROVE  \A p \in Path \ emptied : hub'[p].content # Empty
<1> SUFFICES ASSUME NEW p \in Path \ emptied PROVE hub'[p].content # Empty
  OBVIOUS
<1>1. hub[p].content # Empty /\ hub[p] \in Doc
  BY DEF EmptyInv, UploadsHaveFiles, TypeInv, TypeOK, TypeHub
<1>2. queue[p].op = "upsert" => Body(p) # Empty
  BY DEF EmptyInv, MissingFound, EmptyMarked, Body, Exists
<1>3. Pushed(p).content # Empty
  <2>1. CASE queue[p].op = "upsert"
    BY <1>2, <2>1 DEF Pushed
  <2>2. CASE queue[p].op = "delete" /\ hub[p].content # Absent
    BY <2>2 DEF Pushed, NoDoc, Absent, Empty
  <2>3. CASE queue[p].op # "upsert" /\ ~(queue[p].op = "delete" /\ hub[p].content # Absent)
    BY <1>1, <2>3 DEF Pushed
  <2> QED BY <2>1, <2>2, <2>3
<1>4. [hub[p] EXCEPT !.seq = hubSeq + 1].content = hub[p].content
  BY <1>1 DEF Doc
<1> QED BY <1>1, <1>3, <1>4 DEF Upload

\* A push whose reply is lost, or which the hub refused after some of its changes.
LEMMA EmptyPushFailed ==
  ASSUME TypeInv, EmptyInv, pc = "push", NEW taken \in SUBSET Path, Upload(taken),
         pc' \in {"spawn", "idle", "down"}, UNCHANGED <<disk, meta, queue, emptied>>
  PROVE  EmptyInv'
<1>1. \A p \in Path \ emptied : hub'[p].content # Empty
  BY EmptyUpload
<1> QED
  BY <1>1 DEF EmptyInv, EmptyMarked, QueueKnown, MissingFound, WrittenExists,
     MetaWritten, DeletedUnfound, PullsUnqueued, UploadsHaveFiles, Deleting, Known, Exists,
     Queued, Listing, Recording

LEMMA EmptySync == ASSUME TypeInv, EmptyInv, Sync PROVE EmptyInv'
<1> USE DEF EmptyInv, EmptyMarked, QueueKnown, MissingFound, WrittenExists, MetaWritten,
            DeletedUnfound, PullsUnqueued, UploadsHaveFiles, Deleting, Known, Exists, Queued,
            Listing, Recording
<1>1. CASE PushQueue
  <2>1. \A p \in Path : queue'[p].op = "none"
    BY <1>1 DEF PushQueue, NoChange
  <2>2. \A p \in Path \ emptied : hub'[p].content # Empty
    BY <1>1, EmptyUpload DEF PushQueue
  <2> QED BY <1>1, <2>1, <2>2 DEF PushQueue, locals
<1>2. CASE PushNothing \/ List
  BY <1>2 DEF PushNothing, List, durable, locals, remote, history
<1>3. ASSUME SaveCheckpoint \/ \E p \in Path : PullMissing(p)
      PROVE  EmptyInv'
  <2>1. pc' \in {"spawn", "idle", "down"}
    BY <1>3, ReconciledFound DEF SaveCheckpoint, PullMissing
  <2>2. UNCHANGED <<disk, meta, queue, hub, emptied>> /\ pc # "queue"
    BY <1>3 DEF SaveCheckpoint, PullMissing, durable, remote, history
  <2> QED BY <2>1, <2>2, EmptyAway
<1>8. CASE PushRefused
  <2>1. /\ pc' \in {"spawn", "idle", "down"} /\ pc = "push"
        /\ UNCHANGED <<disk, meta, queue, emptied>>
    BY <1>8, PushRefusedIs, ReturnedBuf DEF durable
  <2>2. ASSUME UNCHANGED <<remote, owed>> PROVE EmptyInv'
    BY <2>1, <2>2, EmptyAway DEF remote
  <2> QED BY <1>8, <2>1, <2>2, PushRefusedIs, EmptyPushFailed
<1>4. CASE PullMeta
  BY <1>4 DEF PullMeta, remote, history
<1>5. ASSUME NEW p \in Path, NEW file \in File, Apply(p, file),
             file.content = Empty => p \in emptied
      PROVE  EmptyInv'
  <2>1. /\ \A q \in Path \ {p} : disk'[q] = disk[q]
        /\ disk'[p].content = file.content
    BY <1>5, StoredThere DEF Apply, Write, TypeInv, TypeOK, TypeDisk
  <2>2. /\ UNCHANGED <<meta, queue, hub, emptied>> /\ cur' = p /\ buf' = file
        /\ pc = "pull" /\ pc' = "pullmeta"
    BY <1>5 DEF Apply, durable, remote
  <2> QED BY <1>5, <2>1, <2>2
<1>6. ASSUME NEW p \in Path, PullFile(p) PROVE EmptyInv'
  <2>1. [content |-> hub[p].content, mtime |-> hub[p].mtime] \in File
    BY DEF TypeInv, TypeOK, TypeHub, Doc, File
  <2> QED BY <1>5, <1>6, <2>1 DEF PullFile
<1>7. ASSUME NEW p \in Path, PullDelete(p) PROVE EmptyInv'
  <2>1. NoFile.content # Empty
    BY DEF NoFile, Absent, Empty
  <2> QED BY <1>5, <1>7, <2>1, NoneType DEF PullDelete
<1> QED BY <1>1, <1>2, <1>3, <1>4, <1>6, <1>7, <1>8 DEF Sync

LEMMA EmptyStep == ASSUME TypeInv, EmptyInv, [Next]_vars PROVE EmptyInv'
<1>1. CASE World
  <2>1. ASSUME NEW p \in Path, RemoteEdit(p) \/ RemoteDelete(p) PROVE EmptyInv'
    <3>1. /\ \A q \in Path \ {p} : hub'[q] = hub[q]
          /\ hub'[p].content # Empty
      <4>1. CASE RemoteEdit(p)
        BY <4>1 DEF RemoteEdit, RemoteChange, TypeInv, TypeOK, TypeHub, TypeBounds, Empty
      <4>2. CASE RemoteDelete(p)
        BY <4>2 DEF RemoteDelete, RemoteChange, NoDoc, TypeInv, TypeOK, TypeHub, Empty, Absent
      <4> QED BY <2>1, <4>1, <4>2
    <3>2. UNCHANGED <<disk, durable, pc, locals, emptied>>
      BY <2>1 DEF RemoteEdit, RemoteDelete, RemoteChange, history
    <3> QED
      BY <3>1, <3>2 DEF durable, locals, EmptyInv, EmptyMarked, QueueKnown, MissingFound,
         WrittenExists, MetaWritten, DeletedUnfound, PullsUnqueued, UploadsHaveFiles,
         Deleting, Known, Exists, Queued, Listing, Recording
  <2>2. CASE Tick
    BY <2>2, EmptyFrame DEF Tick, durable, locals, remote, history, deleteVars
  <2> QED BY <1>1, <2>1, <2>2, EmptyUser DEF World
<1>2. CASE Launch \/ Loop \/ Terminate
  BY <1>2, EmptyAway DEF Launch, Loop, Spawn, Recv, Debounce, Quiet, Terminate, Reconcile,
     durable, remote, history
<1>3. CASE Wakers \/ WatchFails
  BY <1>3, EmptyFrame DEF Wakers, WatchReady, PollChanges, WatchFails, durable, locals,
     remote, history, deleteVars
<1>4. CASE Crash \/ FinalTimeout \/ Fail
  <2>1. /\ pc' \in {"spawn", "idle", "down"} /\ CutOff
        /\ UNCHANGED <<disk, meta, queue, hub>>
    BY <1>4, ReturnedBuf DEF Crash, FinalTimeout, Fail, durable, remote
  <2>2. buf.content = Absent => buf = NoFile
    BY DEF TypeInv, TypeOK, TypeLoop, File, NoFile
  <2> QED BY <2>1, <2>2, EmptyAway DEF CutOff
<1>5. CASE PushReplyLost
  <2>1. /\ pc' \in {"spawn", "idle", "down"} /\ pc = "push"
        /\ UNCHANGED <<disk, meta, queue, emptied>>
    BY <1>5, ReturnedBuf DEF PushReplyLost, durable
  <2> QED BY <1>5, <2>1, EmptyPushFailed DEF PushReplyLost
<1>6. ASSUME NEW skipped \in SUBSET Path, ScanSkips(skipped) PROVE EmptyInv'
  BY <1>6 DEF ScanSkips, Scanned, durable, remote, TypeInv, TypeOK, TypeDisk, EmptyInv,
     EmptyMarked, QueueKnown, MissingFound, WrittenExists, MetaWritten, DeletedUnfound,
     PullsUnqueued, UploadsHaveFiles, Deleting, Known, Exists, Queued, Listing, Recording
<1>7. CASE UNCHANGED vars
  BY <1>7, EmptyFrame DEF vars, durable, locals, remote, history, deleteVars
<1> QED BY <1>1, <1>2, <1>3, <1>4, <1>5, <1>6, <1>7, EmptyRecord, EmptySync
        DEF Next, Fault, Stop

\* The hub gets the bytes of a missing file only for a file that went away inside a
\* reconciliation, or whose delete was cut off before it was queued.
THEOREM UploadsHaveFilesAlways == Spec => []UploadsHaveFiles
<1>1. Init => EmptyInv
  BY DEF Init, NoFile, NoDoc, NoChange, Absent, Empty, EmptyInv, EmptyMarked, QueueKnown,
     MissingFound, WrittenExists, MetaWritten, DeletedUnfound, PullsUnqueued,
     UploadsHaveFiles, Listing, Recording
<1>2. TypeInv /\ EmptyInv /\ [Next]_vars => EmptyInv'
  BY EmptyStep
<1>3. EmptyInv => UploadsHaveFiles
  BY DEF EmptyInv
<1> QED BY <1>1, <1>2, <1>3, TypeInvInductive, PTL DEF Spec
=============================================================================
