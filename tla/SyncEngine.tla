---------------------------- MODULE SyncEngine ----------------------------
(***************************************************************************)
(* The client sync engine (client-core/src/engine.rs): one device that     *)
(* records local edits durably, pushes its queue to the first hub that     *)
(* answers and pulls the hub's changes behind a per-hub checkpoint.  The   *)
(* other devices and the replication between hubs are the environment.     *)
(*                                                                         *)
(* Every step is what the code does between two awaits that matter: a      *)
(* store write or a request.  A failed request, a store failure and a      *)
(* crash may come between any two of them.                                 *)
(***************************************************************************)
EXTENDS HubContract, FiniteSets

CONSTANTS
  Path,        \* the files
  NoPath,      \* none of them
  NHubs,       \* hubs, in the order they are tried
  Overlap,     \* records may run while a sync is under way (the web client)
  RecordCrash, \* the process may die inside a record
  Deleters,    \* who deletes files: a subset of {"local", "remote"}
  MaxDeletes,  \* bound: deletes, all devices together
  MaxFaults    \* bound: failed requests, lost replies, aborted syncs

Hub == 1..NHubs

ASSUME ConstantsAssumption ==
  /\ NoPath \notin Path
  /\ NHubs \in Nat \ {0}
  /\ Overlap \in BOOLEAN
  /\ RecordCrash \in BOOLEAN
  /\ Deleters \subseteq {"local", "remote"}
  /\ MaxDeletes \in Nat
  /\ MaxFaults \in Nat

VARIABLES
  \* durable, in the MetaStore and the FileStore
  files,       \* file contents
  meta,        \* FileMeta.rev per path, NoMeta where no metadata is stored
  pending,     \* the queued change of each path (coalesced, NoChange if none)
  checkpoint,  \* last checkpoint stored for each hub
  \* the sync under way
  pc,          \* next step
  hub,         \* hub being tried
  batch,       \* the changes being pushed
  todo,        \* paths of the batch still to be handled in this phase
  result,      \* revisions the hub returned
  gone,        \* entries the hub listed as deleted
  lastSeq,     \* the listing's own checkpoint
  cur,         \* path whose entry is being applied
  got,         \* what was fetched for it
  \* the record under way
  rec,
  \* the hubs
  docs,        \* documents of each hub
  hubSeq,      \* update sequence of each hub
  nextRev,     \* next revision number
  \* history
  used,        \* edits made so far, on any device
  saved,       \* edits in the contents recorded here (record_upsert returned)
  kept,        \* edits preserved in .conflict copies
  retired,     \* edits in files that a user deleted
  applied,     \* hub sequence up to which each path has been handled
  deletes, faults

durable == <<files, meta, pending, checkpoint>>
locals == <<pc, hub, batch, todo, result, gone, lastSeq, cur, got>>
hubs == <<docs, hubSeq, nextRev>>
history == <<used, saved, kept, retired, applied>>
bounds == <<deletes, faults>>
vars == <<durable, locals, rec, hubs, history, bounds>>

NoMeta == -1
\* A fetched FileContent, with the hub sequence it stands for.
File == [content : Content, rev : Rev \cup {NoMeta}, seq : Nat]
NoFile == [content |-> Absent, rev |-> NoMeta, seq |-> 0]
\* A record call between two of its writes.
Recording == [at : {"idle", "file", "meta", "queue"}, path : Path \cup {NoPath},
              op : {"none", "upsert", "delete"}, base : Rev, content : Content]
NoRecord == [at |-> "idle", path |-> NoPath, op |-> "none", base |-> NoRev,
             content |-> Absent]
NothingPending == [p \in Path |-> NoChange]
NoResult == [p \in Path |-> NoRev]

Queued(p) == pending[p].op # "none"

----------------------------------------------------------------------------
(* record_upsert and record_delete: read the base, then write the file, the *)
(* metadata and the queue.                                                  *)

\* Faulty variant: the filter on missing metadata is gone.
BaseRevUnfiltered(p) == meta[p]

\* FileMeta.rev if metadata is stored and its revision is not empty.
BaseRev(p) == IF meta[p] = NoMeta THEN NoRev ELSE meta[p]

MayRecord == rec = NoRecord /\ (Overlap \/ pc = "idle")

RecordUpsert(p) ==
  /\ MayRecord
  /\ \E e \in Edit \ used :
       /\ used' = used \cup {e}
       /\ rec' = [at |-> "file", path |-> p, op |-> "upsert",
                  base |-> BaseRev(p), content |-> Text(files[p]) \cup {e}]
  /\ UNCHANGED <<durable, locals, hubs, saved, kept, retired, applied, bounds>>

\* The user deletes a file that is there.
RecordDelete(p) ==
  /\ MayRecord
  /\ "local" \in Deleters /\ deletes < MaxDeletes
  /\ files[p] # Absent
  /\ deletes' = deletes + 1
  /\ retired' = retired \cup files[p]
  /\ rec' = [at |-> "file", path |-> p, op |-> "delete",
             base |-> BaseRev(p), content |-> Absent]
  /\ UNCHANGED <<durable, locals, hubs, used, saved, kept, applied, faults>>

RecordFile ==
  /\ rec.at = "file"
  /\ files' = [files EXCEPT ![rec.path] = rec.content]
  /\ rec' = [rec EXCEPT !.at = "meta"]
  /\ UNCHANGED <<meta, pending, checkpoint, locals, hubs, history, bounds>>

RecordMeta ==
  /\ rec.at = "meta"
  /\ meta' = [meta EXCEPT ![rec.path] =
                IF rec.op = "upsert" THEN rec.base ELSE NoMeta]
  /\ rec' = [rec EXCEPT !.at = "queue"]
  /\ UNCHANGED <<files, pending, checkpoint, locals, hubs, history, bounds>>

\* Faulty variant: a path that is already queued keeps its first entry.
RecordQueueOnce ==
  /\ rec.at = "queue"
  /\ pending' = IF Queued(rec.path) THEN pending
                ELSE [pending EXCEPT ![rec.path] =
                        [op |-> rec.op, base |-> rec.base, body |-> Absent]]
  /\ saved' = saved \cup Text(rec.content)
  /\ rec' = NoRecord
  /\ UNCHANGED <<files, meta, checkpoint, locals, hubs, used, kept, retired,
                 applied, bounds>>

\* upsert_pending: the path's earlier entry goes, the new one joins the queue.
RecordQueue ==
  /\ rec.at = "queue"
  /\ pending' = [pending EXCEPT ![rec.path] =
                   [op |-> rec.op, base |-> rec.base, body |-> Absent]]
  /\ saved' = saved \cup Text(rec.content)
  /\ rec' = NoRecord
  /\ UNCHANGED <<files, meta, checkpoint, locals, hubs, used, kept, retired,
                 applied, bounds>>

\* The process dies, or a store write fails, between two writes of a record.
AbortRecord ==
  /\ RecordCrash
  /\ rec # NoRecord /\ faults < MaxFaults
  /\ faults' = faults + 1
  /\ rec' = NoRecord
  /\ UNCHANGED <<durable, locals, hubs, history, deletes>>

----------------------------------------------------------------------------
(* push *)

\* The sync is over, with or without an error: its locals are gone.
EndSync ==
  /\ pc' = "idle" /\ hub' = 1 /\ batch' = NothingPending /\ todo' = {}
  /\ result' = NoResult /\ gone' = {} /\ lastSeq' = 0 /\ cur' = NoPath
  /\ got' = NoFile

\* sync() begins with push(): an empty queue goes straight to the pull.
LoadPending ==
  /\ pc = "idle"
  /\ Overlap \/ rec = NoRecord
  /\ batch' = pending
  /\ pc' = IF \E p \in Path : Queued(p) THEN "build" ELSE "list"
  /\ UNCHANGED <<durable, hub, todo, result, gone, lastSeq, cur, got, rec,
                 hubs, history, bounds>>

ToPush == {p \in Path : batch[p].op # "none"}

\* build_push_changes reads the current contents; a missing file reads empty.
BuildChanges ==
  /\ pc = "build"
  /\ batch' = [p \in Path |->
       IF batch[p].op = "upsert"
         THEN [batch[p] EXCEPT !.body = Text(files[p])] ELSE batch[p]]
  /\ todo' = ToPush
  /\ pc' = "push"
  /\ UNCHANGED <<durable, hub, result, gone, lastSeq, cur, got, rec, hubs,
                 history, bounds>>

\* Faulty variant: the sync pulls although the push failed.
PushFailedPulls ==
  /\ hub' = IF hub < NHubs THEN hub + 1 ELSE 1
  /\ todo' = IF hub < NHubs THEN ToPush ELSE {}
  /\ result' = NoResult
  /\ pc' = IF hub < NHubs THEN "push" ELSE "list"
  /\ UNCHANGED <<batch, gone, lastSeq, cur, got>>

\* The error of this hub moves the push to the next one; after the last it is
\* the error of the sync, which then does not pull.
PushFailed ==
  \/ /\ hub < NHubs
     /\ hub' = hub + 1 /\ todo' = ToPush /\ result' = NoResult /\ pc' = "push"
     /\ UNCHANGED <<batch, gone, lastSeq, cur, got>>
  \/ hub = NHubs /\ EndSync

\* The hub has handled p: its result joins the reply.
Replied(p, rev) ==
  /\ todo' = todo \ {p}
  /\ result' = [result EXCEPT ![p] = rev]
  /\ UNCHANGED <<durable, pc, hub, batch, gone, lastSeq, cur, got, rec, bounds>>

SetDoc(p, doc) == docs' = [docs EXCEPT ![hub][p] = doc]

NextSeq(h) == hubSeq[h] + 1
BumpSeq(h) == hubSeq' = [hubSeq EXCEPT ![h] = NextSeq(h)]

\* The conditioned write succeeds: put_doc and put_attachment, or delete_doc.
HubWrite(p) ==
  /\ pc = "push" /\ p \in todo
  /\ CasHolds(docs[hub][p], batch[p])
  /\ SetDoc(p, Written(docs[hub][p], batch[p].body, nextRev, NextSeq(hub)))
  /\ BumpSeq(hub)
  /\ nextRev' = nextRev + 1
  /\ Replied(p, nextRev)
  /\ UNCHANGED history

\* A blind delete of a file the hub does not have.
HubNoFile(p) ==
  /\ pc = "push" /\ p \in todo
  /\ Blind(batch[p]) /\ ~Live(docs[hub][p])
  /\ Replied(p, NoRev)
  /\ UNCHANGED <<hubs, history>>

\* A stale edit is branched into the tree and resolved before the reply; the
\* client gets the winner's revision.
HubBranchEdit(p) ==
  LET doc == docs[hub][p] IN
  /\ pc = "push" /\ p \in todo
  /\ batch[p].op = "upsert"
  /\ Stale(doc, batch[p]) /\ Parented(doc, batch[p])
  /\ batch[p] \notin doc.branched
  /\ \E m \in MergeOutcomes(doc.content, batch[p].body) :
       /\ SetDoc(p, [Written(doc, m.content, nextRev, NextSeq(hub))
                       EXCEPT !.branched = @ \cup {batch[p]}])
       /\ kept' = kept \cup m.copy
  /\ BumpSeq(hub)
  /\ nextRev' = nextRev + 1
  /\ Replied(p, nextRev)
  /\ UNCHANGED <<used, saved, retired, applied>>

\* A stale delete of a live document: the competing tombstone loses.
HubBranchTombstone(p) ==
  LET doc == docs[hub][p] IN
  /\ pc = "push" /\ p \in todo
  /\ batch[p].op = "delete"
  /\ Stale(doc, batch[p]) /\ Parented(doc, batch[p])
  /\ batch[p] \notin doc.branched
  /\ SetDoc(p, [doc EXCEPT !.branched = @ \cup {batch[p]}, !.seq = NextSeq(hub)])
  /\ BumpSeq(hub)
  /\ Replied(p, doc.rev)
  /\ UNCHANGED <<nextRev, history>>

\* A retry finds its branch already in the tree: nothing changes.
HubBranchAgain(p) ==
  LET doc == docs[hub][p] IN
  /\ pc = "push" /\ p \in todo
  /\ Stale(doc, batch[p]) /\ Parented(doc, batch[p])
  /\ batch[p] \in doc.branched /\ Live(doc)
  /\ Replied(p, doc.rev)
  /\ UNCHANGED <<hubs, history>>

\* 409 for one change fails the whole request; the ones before it stay applied.
HubRefuse(p) ==
  /\ pc = "push" /\ p \in todo
  /\ Refused(docs[hub][p], batch[p])
  /\ PushFailed
  /\ UNCHANGED <<durable, rec, hubs, history, bounds>>

\* Faulty variant: a reply that covers a part of the batch counts as success.
ReplyPartial ==
  /\ pc = "push"
  /\ todo' = {p \in Path : batch[p].op = "upsert"}
  /\ pc' = "adopt"
  /\ UNCHANGED <<durable, hub, batch, result, gone, lastSeq, cur, got, rec,
                 hubs, history, bounds>>

\* The reply arrives: upserts adopt their revisions.
Reply ==
  /\ pc = "push" /\ todo = {}
  /\ todo' = {p \in Path : batch[p].op = "upsert"}
  /\ pc' = "adopt"
  /\ UNCHANGED <<durable, hub, batch, result, gone, lastSeq, cur, got, rec,
                 hubs, history, bounds>>

\* The hub cannot be reached or fails part-way, or its reply is lost.
PushFault ==
  /\ pc = "push" /\ faults < MaxFaults
  /\ faults' = faults + 1
  /\ PushFailed
  /\ UNCHANGED <<durable, rec, hubs, history, deletes>>

\* bump_rev, for every path of the reply whose metadata still exists.
AdoptRev(p) ==
  /\ pc = "adopt" /\ p \in todo
  /\ meta' = IF meta[p] = NoMeta THEN meta ELSE [meta EXCEPT ![p] = result[p]]
  /\ todo' = todo \ {p}
  /\ UNCHANGED <<files, pending, checkpoint, pc, hub, batch, result, gone,
                 lastSeq, cur, got, rec, hubs, history, bounds>>

\* The whole queue is replaced by an empty one, and the pull begins.
ClearPending ==
  /\ pc = "adopt" /\ todo = {}
  /\ pending' = NothingPending
  /\ pc' = "list" /\ hub' = 1
  /\ batch' = NothingPending /\ result' = NoResult
  /\ UNCHANGED <<files, meta, checkpoint, todo, gone, lastSeq, cur, got, rec,
                 hubs, history, bounds>>

----------------------------------------------------------------------------
(* pull *)

PullFailed ==
  \/ /\ hub < NHubs
     /\ hub' = hub + 1 /\ pc' = "list"
     /\ todo' = {} /\ gone' = {} /\ lastSeq' = 0 /\ cur' = NoPath /\ got' = NoFile
     /\ UNCHANGED <<batch, result>>
  \/ hub = NHubs /\ EndSync

\* GET /changes: one entry for every document that changed after `since`.
ChangedSince(h, since) == {p \in Path : docs[h][p].seq > since}

\* The pull lists what is new since the stored checkpoint.
ListChanges ==
  /\ pc = "list"
  /\ todo' = ChangedSince(hub, checkpoint[hub])
  /\ gone' = {p \in todo' : ~Live(docs[hub][p])}
  /\ lastSeq' = hubSeq[hub]
  /\ pc' = "apply"
  /\ UNCHANGED <<durable, hub, batch, result, cur, got, rec, hubs, history, bounds>>

\* apply_remote skips a path with a queued change.
SkipEntry(p) ==
  /\ pc = "apply" /\ p \in todo
  /\ Queued(p)
  /\ todo' = todo \ {p}
  /\ applied' = [applied EXCEPT ![hub][p] = lastSeq]
  /\ UNCHANGED <<durable, pc, hub, batch, result, gone, lastSeq, cur, got, rec,
                 hubs, used, saved, kept, retired, bounds>>

TakeEntry(p) ==
  /\ pc = "apply" /\ p \in todo
  /\ ~Queued(p)
  /\ cur' = p
  /\ pc' = "fetch"
  /\ UNCHANGED <<durable, hub, batch, todo, result, gone, lastSeq, got, rec,
                 hubs, history, bounds>>

\* Nothing to fetch for an entry listed as deleted; otherwise GET /file.
FetchFile ==
  /\ pc = "fetch"
  /\ \/ cur \in gone /\ got' = [NoFile EXCEPT !.seq = lastSeq]
     \/ /\ cur \notin gone /\ Live(docs[hub][cur])
        /\ got' = [content |-> docs[hub][cur].content,
                   rev |-> docs[hub][cur].rev, seq |-> hubSeq[hub]]
  /\ pc' = "write"
  /\ UNCHANGED <<durable, hub, batch, todo, result, gone, lastSeq, cur, rec,
                 hubs, history, bounds>>

\* The file was listed alive and deleted since: 404, an error of this hub.
FetchMissing ==
  /\ pc = "fetch"
  /\ cur \notin gone /\ ~Live(docs[hub][cur])
  /\ PullFailed
  /\ UNCHANGED <<durable, rec, hubs, history, bounds>>

\* files.put or files.delete ...
WriteFile ==
  /\ pc = "write"
  /\ files' = [files EXCEPT ![cur] = got.content]
  /\ pc' = "meta"
  /\ UNCHANGED <<meta, pending, checkpoint, hub, batch, todo, result, gone,
                 lastSeq, cur, got, rec, hubs, history, bounds>>

\* ... then meta.put or meta.delete.
WriteMeta ==
  /\ pc = "meta"
  /\ meta' = [meta EXCEPT ![cur] = got.rev]
  /\ applied' = [applied EXCEPT ![hub][cur] = got.seq]
  /\ todo' = todo \ {cur}
  /\ pc' = "apply" /\ cur' = NoPath /\ got' = NoFile
  /\ UNCHANGED <<files, pending, checkpoint, hub, batch, result, gone, lastSeq,
                 rec, hubs, used, saved, kept, retired, bounds>>

\* Faulty variant: the hub's sequence by now is stored, not the listing's own.
SaveCheckpointLate ==
  /\ pc = "apply" /\ todo = {}
  /\ checkpoint' = [checkpoint EXCEPT ![hub] = hubSeq[hub]]
  /\ EndSync
  /\ UNCHANGED <<files, meta, pending, rec, hubs, history, bounds>>

\* Faulty variant: one checkpoint for all hubs.
SaveCheckpointShared ==
  /\ pc = "apply" /\ todo = {}
  /\ checkpoint' = [h \in Hub |-> lastSeq]
  /\ EndSync
  /\ UNCHANGED <<files, meta, pending, rec, hubs, history, bounds>>

\* The batch is durable: store the checkpoint, the sync returns Ok.
SaveCheckpoint ==
  /\ pc = "apply" /\ todo = {}
  /\ checkpoint' = [checkpoint EXCEPT ![hub] = lastSeq]
  /\ EndSync
  /\ UNCHANGED <<files, meta, pending, rec, hubs, history, bounds>>

\* A request of the pull fails.
PullFault ==
  /\ pc \in {"list", "fetch"} /\ faults < MaxFaults
  /\ cur \notin gone
  /\ faults' = faults + 1
  /\ PullFailed
  /\ UNCHANGED <<durable, rec, hubs, history, deletes>>

\* A store operation fails, or the process dies, between two steps of a sync.
AbortSync ==
  /\ pc # "idle" /\ faults < MaxFaults
  /\ faults' = faults + 1
  /\ EndSync
  /\ UNCHANGED <<durable, rec, hubs, history, deletes>>

----------------------------------------------------------------------------
(* The environment: other devices, and replication between hubs. *)

RemoteWrite(h, p, content) ==
  /\ docs' = [docs EXCEPT ![h][p] = Written(@, content, nextRev, NextSeq(h))]
  /\ BumpSeq(h)
  /\ nextRev' = nextRev + 1

\* Another device pushes an edit of what the hub holds ...
RemoteEdit(h, p) ==
  /\ \E e \in Edit \ used :
       /\ used' = used \cup {e}
       /\ RemoteWrite(h, p, Text(docs[h][p].content) \cup {e})
  /\ UNCHANGED <<durable, locals, rec, saved, kept, retired, applied, bounds>>

\* ... or one that conflicts with it and is newer.
RemoteConflict(h, p) ==
  /\ Live(docs[h][p])
  /\ \E e \in Edit \ used :
       /\ used' = used \cup {e}
       /\ RemoteWrite(h, p, {e})
  /\ kept' = kept \cup docs[h][p].content
  /\ UNCHANGED <<durable, locals, rec, saved, retired, applied, bounds>>

RemoteDelete(h, p) ==
  /\ "remote" \in Deleters /\ deletes < MaxDeletes
  /\ Live(docs[h][p])
  /\ deletes' = deletes + 1
  /\ retired' = retired \cup docs[h][p].content
  /\ RemoteWrite(h, p, Absent)
  /\ UNCHANGED <<durable, locals, rec, used, saved, kept, applied, faults>>

\* CouchDB replication of one document.  A hub that is behind takes the other's
\* winner; two winners that diverged are resolved into a new one.
Replicate(h, g, p) ==
  LET src == docs[h][p]
      dst == docs[g][p]
      Received(content, rev) ==
        [Written(dst, content, rev, NextSeq(g)) EXCEPT
           !.known = @ \cup src.known, !.branched = @ \cup src.branched]
  IN
  /\ src.rev # NoRev /\ src.rev \notin dst.known
  /\ \/ /\ dst.rev \in src.known \cup {NoRev}
        /\ docs' = [docs EXCEPT ![g][p] = Received(src.content, src.rev)]
        /\ UNCHANGED <<nextRev, kept>>
     \/ /\ dst.rev \notin src.known \cup {NoRev}
        /\ \E m \in MergeOutcomes(dst.content, src.content) :
             /\ docs' = [docs EXCEPT ![g][p] = Received(m.content, nextRev)]
             /\ kept' = kept \cup m.copy
        /\ nextRev' = nextRev + 1
  /\ BumpSeq(g)
  /\ UNCHANGED <<durable, locals, rec, used, saved, retired, applied, bounds>>

----------------------------------------------------------------------------
Init ==
  /\ files = [p \in Path |-> Absent]
  /\ meta = [p \in Path |-> NoMeta]
  /\ pending = NothingPending
  /\ checkpoint = [h \in Hub |-> 0]
  /\ pc = "idle" /\ hub = 1 /\ batch = NothingPending /\ todo = {}
  /\ result = NoResult /\ gone = {} /\ lastSeq = 0 /\ cur = NoPath
  /\ got = NoFile
  /\ rec = NoRecord
  /\ docs = [h \in Hub |-> [p \in Path |-> NoDoc]]
  /\ hubSeq = [h \in Hub |-> 0]
  /\ nextRev = 1
  /\ used = {} /\ saved = {} /\ kept = {} /\ retired = {}
  /\ applied = [h \in Hub |-> [p \in Path |-> 0]]
  /\ deletes = 0 /\ faults = 0

Record ==
  \/ \E p \in Path : RecordUpsert(p) \/ RecordDelete(p)
  \/ RecordFile \/ RecordMeta \/ RecordQueue

HubStep ==
  \E p \in Path : \/ HubWrite(p) \/ HubNoFile(p) \/ HubBranchEdit(p)
                  \/ HubBranchTombstone(p) \/ HubBranchAgain(p) \/ HubRefuse(p)

Push == \/ LoadPending \/ BuildChanges \/ HubStep \/ Reply
        \/ (\E p \in Path : AdoptRev(p)) \/ ClearPending

Pull == \/ ListChanges \/ (\E p \in Path : SkipEntry(p) \/ TakeEntry(p))
        \/ FetchFile \/ FetchMissing \/ WriteFile \/ WriteMeta \/ SaveCheckpoint

Fault == PushFault \/ PullFault \/ AbortSync \/ AbortRecord

Remote ==
  \/ \E h \in Hub, p \in Path :
       RemoteEdit(h, p) \/ RemoteConflict(h, p) \/ RemoteDelete(h, p)
  \/ \E h, g \in Hub, p \in Path : Replicate(h, g, p)

Next == Record \/ Push \/ Pull \/ Fault \/ Remote

Spec == Init /\ [][Next]_vars

\* The engine is called again and again, and an awaited step completes.
Progress == Push \/ Pull \/ RecordFile \/ RecordMeta \/ RecordQueue

FairSpec == Spec /\ WF_vars(Progress)

----------------------------------------------------------------------------
(* Properties. *)

TypeStores ==
  /\ files \in [Path -> Content]
  /\ meta \in [Path -> Rev \cup {NoMeta}]
  /\ pending \in [Path -> Change]
  /\ checkpoint \in [Hub -> Nat]

TypeSync ==
  /\ pc \in {"idle", "build", "push", "adopt", "list", "apply", "fetch", "write", "meta"}
  /\ hub \in Hub
  /\ batch \in [Path -> Change]
  /\ todo \subseteq Path
  /\ result \in [Path -> Rev]
  /\ gone \subseteq Path
  /\ lastSeq \in Nat
  /\ cur \in Path \cup {NoPath}
  /\ pc \in {"fetch", "write", "meta"} => cur \in todo
  /\ got \in File

TypeRecord ==
  /\ rec \in Recording
  /\ rec.at # "idle" => rec.path \in Path

TypeHubs ==
  /\ docs \in [Hub -> [Path -> Doc]]
  /\ hubSeq \in [Hub -> Nat]
  /\ nextRev \in Nat \ {0}

TypeHistory ==
  /\ used \subseteq Edit /\ saved \subseteq Edit /\ kept \subseteq Edit
  /\ retired \subseteq Edit
  /\ applied \in [Hub -> [Path -> Nat]]

TypeBounds == deletes \in 0..MaxDeletes /\ faults \in 0..MaxFaults

\* Type invariant: every variable holds a value of its type, and an entry under
\* way (apply_remote) belongs to the batch that is being applied.
TypeOK ==
  /\ TypeStores
  /\ TypeSync
  /\ TypeRecord
  /\ TypeHubs
  /\ TypeHistory
  /\ TypeBounds

\* "A checkpoint advances only after the whole batch it covers is durable":
\* no change that a stored checkpoint covers was left unhandled, whatever
\* requests failed, which hub answered and where the pull was cut off.
BatchDurable ==
  \A h \in Hub, p \in Path :
    docs[h][p].seq <= checkpoint[h] => applied[h][p] >= docs[h][p].seq

\* The engine implements the checkpointed feed: whatever fails, a checkpoint moves
\* forward only, one hub at a time, over changes that are handled, and nothing that
\* was handled counts as unhandled again (pull_from, apply_remote).
Feed == INSTANCE CheckpointedFeed WITH
  head <- hubSeq,
  changed <- [h \in Hub |-> [p \in Path |-> docs[h][p].seq]],
  handled <- applied

FeedSpec == Feed!Spec

\* Pulling last converges on the hub's resolved view: a path that has nothing
\* queued, and whose last change the stored checkpoint covers, holds exactly
\* what the hub holds.  (One hub, records not overlapping a sync.)
CheckpointSound ==
  pc = "idle" /\ rec = NoRecord =>
    \A h \in Hub, p \in Path :
      ~Queued(p) /\ docs[h][p].seq <= checkpoint[h] => files[p] = docs[h][p].content

\* An edit still exists: at a hub, in a conflict copy, in a file whose upload is
\* queued, or in a file some user deleted.
Preserved(e) ==
  \/ \E h \in Hub, p \in Path : e \in Text(docs[h][p].content)
  \/ e \in kept \cup retired
  \/ \E p \in Path : pending[p].op = "upsert" /\ e \in Text(files[p])

\* A recorded edit is never dropped: not by a rejected, lost or retried push,
\* and not by the pull that follows it.
LocalEditSafe == \A e \in saved : Preserved(e)

\* The same for every edit of every device.
NoEditLost == \A e \in used : Preserved(e) \/ e \in Text(rec.content)

\* A queued upload always has a file to read, so build_push_changes never
\* uploads the empty content it falls back to.
QueuedFileExists ==
  \A p \in Path : pending[p].op = "upsert" /\ rec = NoRecord => files[p] # Absent

\* Every queued change is eventually accepted by a hub and leaves the queue.
QueueDrains == \A p \in Path : Queued(p) ~> ~Queued(p)

\* Once the other devices are quiet and requests get through, the device ends
\* up with the hub's files and an empty queue.
Converges ==
  <>[](\A p \in Path : ~Queued(p) /\ \A h \in Hub : files[p] = docs[h][p].content)

============================================================================
