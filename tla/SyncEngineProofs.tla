-------------------------- MODULE SyncEngineProofs --------------------------
(***************************************************************************)
(* Theorems about SyncEngine, for every set of paths and edits, every      *)
(* number of hubs and every bound.                                         *)
(***************************************************************************)
EXTENDS SyncEngine, TLAPS

USE ConstantsAssumption, AbsentAssumption

\* Typing of the helpers.
LEMMA TextType == ASSUME NEW c \in Content PROVE Text(c) \in SUBSET Edit
  BY DEF Text, Content

\* A stored revision leaves a document.
LEMMA WrittenType ==
  ASSUME NEW doc \in Doc, NEW c \in Content, NEW r \in Rev, NEW s \in Nat
  PROVE  Written(doc, c, r, s) \in Doc
  BY DEF Written, Doc

\* Whatever a merge leaves is content again, and its copies are edits.
LEMMA MergeType ==
  ASSUME NEW a \in Content, NEW b \in Content, NEW m \in MergeOutcomes(a, b)
  PROVE  m.content \in Content /\ m.copy \subseteq Edit
  BY DEF MergeOutcomes, Content

\* The empty values are values of their types.
LEMMA NoneType ==
  /\ NothingPending \in [Path -> Change]
  /\ NoResult \in [Path -> Rev]
  /\ NoFile \in File
  /\ NoRecord \in Recording
  /\ NoRecord.at = "idle"
  BY DEF NothingPending, NoChange, Change, NoResult, NoFile, File, NoRecord, Recording, Rev, NoRev,
         NoMeta, Content

\* A part of the type invariant holds on as long as its variables stay put.
LEMMA FrameType ==
  ASSUME TypeOK
  PROVE  /\ UNCHANGED durable => TypeStores'
         /\ UNCHANGED locals => TypeSync'
         /\ UNCHANGED rec => TypeRecord'
         /\ UNCHANGED hubs => TypeHubs'
         /\ UNCHANGED history => TypeHistory'
         /\ UNCHANGED bounds => TypeBounds'
  BY DEF TypeOK, TypeStores, TypeSync, TypeRecord, TypeHubs, TypeHistory, TypeBounds,
         durable, locals, hubs, history, bounds

\* A sync that is over leaves well-typed locals ...
LEMMA EndSyncType == ASSUME EndSync PROVE TypeSync'
  BY NoneType DEF EndSync, TypeSync, Hub

\* ... and so does a failed push ...
LEMMA PushFailedType == ASSUME TypeOK, PushFailed PROVE TypeSync'
<1>1. CASE EndSync
  BY <1>1, EndSyncType
<1>2. CASE ~EndSync
  BY <1>2, NoneType DEF PushFailed, TypeOK, TypeSync, ToPush, Hub
<1> QED BY <1>1, <1>2

\* ... and a failed pull.
LEMMA PullFailedType == ASSUME TypeOK, PullFailed PROVE TypeSync'
<1>1. CASE EndSync
  BY <1>1, EndSyncType
<1>2. CASE ~EndSync
  BY <1>2, NoneType DEF PullFailed, TypeOK, TypeSync, Hub
<1> QED BY <1>1, <1>2

\* Another device's write keeps the hubs well-typed.
LEMMA RemoteWriteType ==
  ASSUME TypeOK, NEW h \in Hub, NEW p \in Path, NEW c \in Content,
         RemoteWrite(h, p, c)
  PROVE  TypeHubs'
<1>1. docs[h][p] \in Doc /\ NextSeq(h) \in Nat /\ nextRev \in Rev
  BY DEF TypeOK, TypeHubs, NextSeq, Rev
<1>2. Written(docs[h][p], c, nextRev, NextSeq(h)) \in Doc
  BY <1>1, WrittenType
<1> QED
  BY <1>1, <1>2 DEF TypeOK, TypeHubs, RemoteWrite, BumpSeq, Rev

\* A hub that stores a document and moves its sequence on stays well typed.
LEMMA DocUpdateType ==
  ASSUME TypeOK, NEW h \in Hub, NEW p \in Path, NEW d \in Doc,
         docs' = [docs EXCEPT ![h][p] = d], BumpSeq(h),
         nextRev' \in {nextRev, nextRev + 1}
  PROVE  TypeHubs'
<1>1. docs' \in [Hub -> [Path -> Doc]]
  BY DEF TypeOK, TypeHubs
<1>2. hubSeq' \in [Hub -> Nat]
  BY DEF TypeOK, TypeHubs, BumpSeq, NextSeq
<1> QED
  BY <1>1, <1>2 DEF TypeOK, TypeHubs

\* The type invariant.
THEOREM TypeCorrect == Spec => []TypeOK
<1>1. Init => TypeOK
  BY NoneType DEF Init, TypeOK, TypeStores, TypeSync, TypeRecord, TypeHubs, TypeHistory,
     TypeBounds, NoDoc, Doc, Rev, NoRev, NoMeta, Content, Hub
<1>2. TypeOK /\ [Next]_vars => TypeOK'
  <2> SUFFICES ASSUME TypeOK, [Next]_vars PROVE TypeOK'
    OBVIOUS
  <2> USE FrameType
  <2>t. TypeStores /\ TypeSync /\ TypeRecord /\ TypeHubs /\ TypeHistory /\ TypeBounds
    BY DEF TypeOK
  <2>1. ASSUME NEW p \in Path, RecordUpsert(p) PROVE TypeOK'
    <3>1. TypeRecord'
      BY <2>1, <2>t, TextType DEF RecordUpsert, TypeRecord, BaseRev, Recording, Rev, NoRev, NoMeta, Content, TypeStores
    <3>2. TypeHistory'
      BY <2>1, <2>t DEF RecordUpsert, TypeHistory
    <3> QED
      BY <2>1, <2>t, <3>1, <3>2 DEF RecordUpsert, TypeOK
  <2>2. ASSUME NEW p \in Path, RecordDelete(p) PROVE TypeOK'
    <3>1. TypeRecord'
      BY <2>2, <2>t DEF RecordDelete, TypeRecord, BaseRev, Recording, Rev, NoRev, NoMeta, Content, TypeStores
    <3>2. TypeHistory'
      BY <2>2, <2>t DEF RecordDelete, TypeHistory, TypeStores, Content
    <3>3. TypeBounds'
      BY <2>2, <2>t DEF RecordDelete, TypeBounds
    <3> QED
      BY <2>2, <2>t, <3>1, <3>2, <3>3 DEF RecordDelete, TypeOK
  <2>3. CASE RecordFile
    <3>1. TypeStores'
      BY <2>3, <2>t DEF RecordFile, TypeStores, TypeRecord, Recording
    <3>2. TypeRecord'
      BY <2>3, <2>t DEF RecordFile, TypeRecord, Recording
    <3> QED
      BY <2>3, <2>t, <3>1, <3>2 DEF RecordFile, TypeOK
  <2>4. CASE RecordMeta
    <3>1. TypeStores'
      BY <2>4, <2>t DEF RecordMeta, TypeStores, TypeRecord, Recording, Rev, NoMeta
    <3>2. TypeRecord'
      BY <2>4, <2>t DEF RecordMeta, TypeRecord, Recording
    <3> QED
      BY <2>4, <2>t, <3>1, <3>2 DEF RecordMeta, TypeOK
  <2>5. CASE RecordQueue
    <3>1. TypeStores'
      BY <2>5, <2>t, NoneType DEF RecordQueue, TypeStores, TypeRecord, Recording, Change, Content
    <3>2. TypeRecord'
      BY <2>5, <2>t, NoneType DEF RecordQueue, TypeRecord
    <3>3. TypeHistory'
      BY <2>5, <2>t, NoneType, TextType DEF RecordQueue, TypeHistory, TypeRecord, Recording
    <3> QED
      BY <2>5, <2>t, <3>1, <3>2, <3>3 DEF RecordQueue, TypeOK
  <2>6. CASE LoadPending
    <3>1. TypeSync'
      BY <2>6, <2>t DEF LoadPending, TypeSync, TypeStores
    <3> QED
      BY <2>6, <2>t, <3>1 DEF LoadPending, TypeOK
  <2>7. CASE BuildChanges
    <3>1. ASSUME NEW p \in Path
          PROVE  /\ batch[p] \in Change
                 /\ [batch[p] EXCEPT !.body = Text(files[p])] \in Change
      <4>1. batch[p] \in Change /\ Text(files[p]) \in Content
        BY <2>t, TextType DEF TypeSync, TypeStores, Content
      <4> QED BY <4>1 DEF Change
    <3>2. TypeSync'
      BY <2>7, <2>t, <3>1 DEF BuildChanges, TypeSync, ToPush
    <3> QED
      BY <2>7, <2>t, <3>2 DEF BuildChanges, TypeOK
  <2>8. ASSUME NEW p \in Path, HubWrite(p) PROVE TypeOK'
    <3>1. docs[hub][p] \in Doc /\ batch[p].body \in Content /\ nextRev \in Rev /\ NextSeq(hub) \in Nat
      BY <2>t DEF TypeHubs, TypeSync, NextSeq, Rev, Change
    <3>2. Written(docs[hub][p], batch[p].body, nextRev, NextSeq(hub)) \in Doc
      BY <3>1, WrittenType
    <3>3. TypeHubs'
      <4>1. hub \in Hub /\ BumpSeq(hub) /\ nextRev' = nextRev + 1
              /\ SetDoc(p, Written(docs[hub][p], batch[p].body, nextRev, NextSeq(hub)))
        BY <2>8, <2>t DEF HubWrite, TypeSync
      <4> QED BY <3>2, <4>1, DocUpdateType DEF SetDoc
    <3>4. TypeSync'
      BY <2>8, <2>t, <3>1 DEF HubWrite, TypeSync, Replied
    <3> QED
      BY <2>8, <2>t, <3>3, <3>4 DEF HubWrite, Replied, TypeOK
  <2>9. ASSUME NEW p \in Path, HubNoFile(p) PROVE TypeOK'
    <3>1. TypeSync'
      BY <2>9, <2>t DEF HubNoFile, TypeSync, Replied, Rev, NoRev
    <3> QED
      BY <2>9, <2>t, <3>1 DEF HubNoFile, Replied, TypeOK
  <2>10. ASSUME NEW p \in Path, HubBranchEdit(p) PROVE TypeOK'
    <3> DEFINE doc == docs[hub][p]
    <3>1. PICK m \in MergeOutcomes(doc.content, batch[p].body) :
            /\ SetDoc(p, [Written(doc, m.content, nextRev, NextSeq(hub))
                            EXCEPT !.branched = @ \cup {batch[p]}])
            /\ kept' = kept \cup m.copy
      BY <2>10, <2>t DEF HubBranchEdit
    <3>2. doc \in Doc /\ batch[p] \in Change /\ NextSeq(hub) \in Nat
      BY <2>t DEF TypeHubs, TypeSync, NextSeq
    <3>3. m.content \in Content /\ m.copy \subseteq Edit
      BY <3>2, MergeType DEF Doc, Change
    <3>4. Written(doc, m.content, nextRev, NextSeq(hub)) \in Doc
      BY <2>t, <3>2, <3>3, WrittenType DEF TypeHubs, Rev
    <3>5. [Written(doc, m.content, nextRev, NextSeq(hub))
             EXCEPT !.branched = @ \cup {batch[p]}] \in Doc
      <4> HIDE DEF doc
      <4> QED BY <3>2, <3>4 DEF Doc
    <3>6. TypeHubs'
      <4> HIDE DEF doc
      <4>1. hub \in Hub /\ BumpSeq(hub) /\ nextRev' = nextRev + 1
        BY <2>10, <2>t DEF HubBranchEdit, TypeSync
      <4> QED BY <3>1, <3>5, <4>1, DocUpdateType DEF SetDoc
    <3>7. TypeHistory'
      BY <2>10, <2>t, <3>1, <3>3 DEF HubBranchEdit, TypeHistory
    <3>8. TypeSync'
      BY <2>10, <2>t DEF HubBranchEdit, TypeSync, Replied, TypeHubs, Rev
    <3> QED
      BY <2>10, <2>t, <3>6, <3>7, <3>8, FrameType DEF HubBranchEdit, Replied, TypeOK
  <2>11. ASSUME NEW p \in Path, HubBranchTombstone(p) PROVE TypeOK'
    <3> DEFINE doc == docs[hub][p]
               new == [doc EXCEPT !.branched = @ \cup {batch[p]}, !.seq = NextSeq(hub)]
    <3>1. doc \in Doc /\ doc.rev \in Rev /\ batch[p] \in Change /\ NextSeq(hub) \in Nat
      BY <2>t DEF TypeHubs, TypeSync, NextSeq, Doc
    <3>2. new \in Doc
      <4> HIDE DEF doc
      <4> QED BY <3>1 DEF Doc
    <3>3. TypeHubs'
      <4>1. hub \in Hub /\ BumpSeq(hub) /\ nextRev' = nextRev /\ SetDoc(p, new)
        BY <2>11, <2>t DEF HubBranchTombstone, TypeSync
      <4> QED BY <3>2, <4>1, DocUpdateType DEF SetDoc
    <3>4. TypeSync'
      BY <2>11, <2>t, <3>1 DEF HubBranchTombstone, TypeSync, Replied
    <3> QED
      BY <2>11, <2>t, <3>3, <3>4 DEF HubBranchTombstone, Replied, TypeOK
  <2>12. ASSUME NEW p \in Path, HubBranchAgain(p) PROVE TypeOK'
    <3>1. docs[hub][p].rev \in Rev
      BY <2>t DEF TypeHubs, TypeSync, Doc
    <3>2. TypeSync'
      BY <2>12, <2>t, <3>1 DEF HubBranchAgain, TypeSync, Replied
    <3> QED
      BY <2>12, <2>t, <3>2 DEF HubBranchAgain, Replied, TypeOK
  <2>13. ASSUME NEW p \in Path, HubRefuse(p) PROVE TypeOK'
    <3>1. TypeSync'
      BY <2>13, <2>t, PushFailedType DEF HubRefuse, TypeSync
    <3> QED
      BY <2>13, <2>t, <3>1 DEF HubRefuse, TypeOK
  <2>14. CASE Reply
    <3>1. TypeSync'
      BY <2>14, <2>t DEF Reply, TypeSync
    <3> QED
      BY <2>14, <2>t, <3>1 DEF Reply, TypeOK
  <2>15. ASSUME NEW p \in Path, AdoptRev(p) PROVE TypeOK'
    <3>1. TypeStores'
      BY <2>15, <2>t DEF AdoptRev, TypeStores, TypeSync, Rev
    <3>2. TypeSync'
      BY <2>15, <2>t DEF AdoptRev, TypeSync
    <3> QED
      BY <2>15, <2>t, <3>1, <3>2 DEF AdoptRev, TypeOK
  <2>16. CASE ClearPending
    <3>1. TypeStores'
      BY <2>16, <2>t, NoneType DEF ClearPending, TypeStores
    <3>2. TypeSync'
      BY <2>16, <2>t, NoneType DEF ClearPending, TypeSync, Hub
    <3> QED
      BY <2>16, <2>t, <3>1, <3>2 DEF ClearPending, TypeOK
  <2>17. CASE ListChanges
    <3>1. TypeSync'
      BY <2>17, <2>t DEF ListChanges, ChangedSince, TypeSync, TypeHubs
    <3> QED
      BY <2>17, <2>t, <3>1 DEF ListChanges, ChangedSince, TypeOK
  <2>18. ASSUME NEW p \in Path, SkipEntry(p) PROVE TypeOK'
    <3>1. TypeSync'
      BY <2>18, <2>t DEF SkipEntry, TypeSync
    <3>2. TypeHistory'
      BY <2>18, <2>t DEF SkipEntry, TypeHistory, TypeSync
    <3> QED
      BY <2>18, <2>t, <3>1, <3>2 DEF SkipEntry, TypeOK
  <2>19. ASSUME NEW p \in Path, TakeEntry(p) PROVE TypeOK'
    <3>1. TypeSync'
      BY <2>19, <2>t DEF TakeEntry, TypeSync
    <3> QED
      BY <2>19, <2>t, <3>1 DEF TakeEntry, TypeOK
  <2>20. CASE FetchFile
    <3>1. TypeSync'
      BY <2>20, <2>t DEF FetchFile, TypeSync, TypeHubs, Live, NoFile, File, Doc, Rev, NoMeta, Content
    <3> QED
      BY <2>20, <2>t, <3>1 DEF FetchFile, TypeOK
  <2>21. CASE FetchMissing
    <3>1. TypeSync'
      BY <2>21, <2>t, PullFailedType DEF FetchMissing, TypeSync
    <3> QED
      BY <2>21, <2>t, <3>1 DEF FetchMissing, TypeOK
  <2>22. CASE WriteFile
    <3>1. TypeStores'
      BY <2>22, <2>t DEF WriteFile, TypeStores, TypeSync, File
    <3>2. TypeSync'
      BY <2>22, <2>t DEF WriteFile, TypeSync
    <3> QED
      BY <2>22, <2>t, <3>1, <3>2 DEF WriteFile, TypeOK
  <2>23. CASE WriteMeta
    <3>1. TypeStores'
      BY <2>23, <2>t, NoneType DEF WriteMeta, TypeStores, TypeSync, File
    <3>2. TypeSync'
      BY <2>23, <2>t, NoneType DEF WriteMeta, TypeSync
    <3>3. TypeHistory'
      BY <2>23, <2>t, NoneType DEF WriteMeta, TypeHistory, TypeSync, File
    <3> QED
      BY <2>23, <2>t, <3>1, <3>2, <3>3 DEF WriteMeta, TypeOK
  <2>24. CASE SaveCheckpoint
    <3>1. TypeStores'
      BY <2>24, <2>t DEF SaveCheckpoint, TypeStores, TypeSync
    <3>2. TypeSync'
      BY <2>24, <2>t, EndSyncType DEF SaveCheckpoint, TypeSync
    <3> QED
      BY <2>24, <2>t, <3>1, <3>2 DEF SaveCheckpoint, TypeOK
  <2>25. CASE PushFault
    <3>1. TypeSync'
      BY <2>25, <2>t, PushFailedType DEF PushFault, TypeSync
    <3>2. TypeBounds'
      BY <2>25, <2>t DEF PushFault, TypeBounds
    <3> QED
      BY <2>25, <2>t, <3>1, <3>2 DEF PushFault, TypeOK
  <2>26. CASE PullFault
    <3>1. TypeSync'
      BY <2>26, <2>t, PullFailedType DEF PullFault, TypeSync
    <3>2. TypeBounds'
      BY <2>26, <2>t DEF PullFault, TypeBounds
    <3> QED
      BY <2>26, <2>t, <3>1, <3>2 DEF PullFault, TypeOK
  <2>27. CASE AbortSync
    <3>1. TypeSync'
      BY <2>27, <2>t, EndSyncType DEF AbortSync, TypeSync
    <3>2. TypeBounds'
      BY <2>27, <2>t DEF AbortSync, TypeBounds
    <3> QED
      BY <2>27, <2>t, <3>1, <3>2 DEF AbortSync, TypeOK
  <2>28. CASE AbortRecord
    <3>1. TypeRecord'
      BY <2>28, <2>t, NoneType DEF AbortRecord, TypeRecord
    <3>2. TypeBounds'
      BY <2>28, <2>t, NoneType DEF AbortRecord, TypeBounds
    <3> QED
      BY <2>28, <2>t, <3>1, <3>2 DEF AbortRecord, TypeOK
  <2>29. ASSUME NEW h \in Hub, NEW p \in Path, RemoteEdit(h, p) PROVE TypeOK'
    <3>1. PICK e \in Edit \ used : used' = used \cup {e} /\ RemoteWrite(h, p, Text(docs[h][p].content) \cup {e})
      BY <2>29, <2>t DEF RemoteEdit
    <3>2. docs[h][p] \in Doc /\ docs[h][p].content \in Content
      BY <2>t DEF TypeHubs, Doc
    <3>3. Text(docs[h][p].content) \cup {e} \in Content
      BY <3>2, TextType DEF Content
    <3>4. TypeHubs'
      BY <3>1, <3>3, RemoteWriteType
    <3>5. TypeHistory'
      BY <2>29, <2>t, <3>1, <3>2 DEF RemoteEdit, TypeHistory, Live, Content
    <3> QED
      BY <2>29, <2>t, <3>4, <3>5, FrameType DEF RemoteEdit, TypeOK
  <2>30. ASSUME NEW h \in Hub, NEW p \in Path, RemoteConflict(h, p) PROVE TypeOK'
    <3>1. PICK e \in Edit \ used : used' = used \cup {e} /\ RemoteWrite(h, p, {e})
      BY <2>30, <2>t DEF RemoteConflict
    <3>2. docs[h][p] \in Doc /\ docs[h][p].content \in Content
      BY <2>t DEF TypeHubs, Doc
    <3>3. {e} \in Content
      BY <3>2, TextType DEF Content
    <3>4. TypeHubs'
      BY <3>1, <3>3, RemoteWriteType
    <3>5. TypeHistory'
      BY <2>30, <2>t, <3>1, <3>2 DEF RemoteConflict, TypeHistory, Live, Content
    <3> QED
      BY <2>30, <2>t, <3>4, <3>5, FrameType DEF RemoteConflict, TypeOK
  <2>31. ASSUME NEW h \in Hub, NEW p \in Path, RemoteDelete(h, p) PROVE TypeOK'
    <3>1. docs[h][p] \in Doc /\ docs[h][p].content \in Content
      BY <2>t DEF TypeHubs, Doc
    <3>2. TypeHubs'
      BY <2>31, <2>t, RemoteWriteType DEF RemoteDelete, Content
    <3>3. TypeHistory' /\ TypeBounds'
      BY <2>31, <2>t, <3>1 DEF RemoteDelete, TypeHistory, TypeBounds, Live, Content
    <3> QED
      BY <2>31, <2>t, <3>2, <3>3, FrameType DEF RemoteDelete, TypeOK
  <2>32. ASSUME NEW h \in Hub, NEW g \in Hub, NEW p \in Path, Replicate(h, g, p) PROVE TypeOK'
    <3> DEFINE src == docs[h][p]
               dst == docs[g][p]
               Received(content, rev) ==
                 [Written(dst, content, rev, NextSeq(g)) EXCEPT
                    !.known = @ \cup src.known, !.branched = @ \cup src.branched]
    <3>1. src \in Doc /\ dst \in Doc /\ NextSeq(g) \in Nat /\ nextRev \in Rev
      BY <2>t DEF TypeHubs, NextSeq, Rev
    <3>2. ASSUME NEW c \in Content, NEW r \in Rev PROVE Received(c, r) \in Doc
      <4>1. Written(dst, c, r, NextSeq(g)) \in Doc
        BY <3>1, <3>2, WrittenType
      <4> HIDE DEF src, dst
      <4> QED BY <3>1, <4>1 DEF Doc
    <3>3. \E c \in Content, r \in Rev : docs' = [docs EXCEPT ![g][p] = Received(c, r)]
      <4>1. CASE docs' = [docs EXCEPT ![g][p] = Received(src.content, src.rev)]
        BY <3>1, <4>1 DEF Doc
      <4>2. CASE \E m \in MergeOutcomes(dst.content, src.content) :
                   docs' = [docs EXCEPT ![g][p] = Received(m.content, nextRev)]
        BY <3>1, <4>2, MergeType DEF Doc
      <4> QED BY <2>32, <2>t, <4>1, <4>2 DEF Replicate
    <3>4. TypeHubs'
      <4> HIDE DEF Received
      <4>1. PICK c \in Content, r \in Rev : docs' = [docs EXCEPT ![g][p] = Received(c, r)]
        BY <3>3
      <4>2. Received(c, r) \in Doc
        BY <3>2
      <4>3. BumpSeq(g) /\ nextRev' \in {nextRev, nextRev + 1}
        BY <2>32, <2>t DEF Replicate
      <4> QED BY <4>1, <4>2, <4>3, DocUpdateType
    <3>5. TypeHistory'
      <4>1. \A m \in MergeOutcomes(dst.content, src.content) : m.copy \subseteq Edit
        BY <3>1, MergeType DEF Doc
      <4> QED BY <2>32, <2>t, <4>1 DEF Replicate, TypeHistory
    <3> QED
      BY <2>32, <2>t, <3>4, <3>5, FrameType DEF Replicate, TypeOK
  <2>33. CASE UNCHANGED vars
    BY <2>33 DEF vars, TypeOK
  <2> QED
    BY <2>1, <2>2, <2>3, <2>4, <2>5, <2>6, <2>7, <2>8, <2>9, <2>10, <2>11, <2>12, <2>13, <2>14, <2>15, <2>16, <2>17, <2>18, <2>19, <2>20, <2>21, <2>22, <2>23, <2>24, <2>25, <2>26, <2>27, <2>28, <2>29, <2>30, <2>31, <2>32, <2>33
       DEF Next, Record, Push, HubStep, Pull, Fault, Remote
<1> QED
  BY <1>1, <1>2, PTL DEF Spec

----------------------------------------------------------------------------
(***************************************************************************)
(* Checkpoints.  BatchDurable is not inductive: while a pull is under way  *)
(* the entries it has dealt with are covered by the listing's sequence,    *)
(* not yet by the stored checkpoint, and nothing a hub does meanwhile may  *)
(* fall below that sequence.                                               *)
(***************************************************************************)

SeqOrder ==
  \A h \in Hub : /\ checkpoint[h] <= hubSeq[h]
                 /\ \A p \in Path : docs[h][p].seq <= hubSeq[h]

Pulling == pc \in {"apply", "fetch", "write", "meta"}

PullCovers ==
  Pulling =>
    /\ checkpoint[hub] <= lastSeq /\ lastSeq <= hubSeq[hub]
    /\ \A p \in Path \ todo :
         docs[hub][p].seq <= lastSeq => applied[hub][p] >= docs[hub][p].seq
    /\ pc \in {"write", "meta"} => got.seq >= lastSeq

DurableInv == SeqOrder /\ PullCovers /\ BatchDurable

\* A hub changes one document, which moves to the end of its change feed.
Moves(h, p) ==
  /\ \A k \in Hub, q \in Path :
       docs'[k][q].seq = IF k = h /\ q = p THEN NextSeq(h) ELSE docs[k][q].seq
  /\ BumpSeq(h)

\* Storing a document under the next sequence of its hub is a move of that path.
LEMMA PutMoves ==
  ASSUME TypeOK, NEW h \in Hub, NEW p \in Path, NEW d, d.seq = NextSeq(h),
         docs' = [docs EXCEPT ![h][p] = d], BumpSeq(h)
  PROVE  Moves(h, p)
  BY DEF Moves, TypeOK, TypeHubs

\* Every way of storing a revision gives the document the sequence it is stored under.
LEMMA WrittenSeq ==
  ASSUME NEW doc \in Doc, NEW c, NEW r, NEW s, NEW K, NEW B
  PROVE  /\ Written(doc, c, r, s).seq = s
         /\ [Written(doc, c, r, s) EXCEPT !.branched = @ \cup B].seq = s
         /\ [Written(doc, c, r, s) EXCEPT !.known = @ \cup K, !.branched = @ \cup B].seq = s
         /\ [doc EXCEPT !.branched = @ \cup B, !.seq = s].seq = s
  BY DEF Written, Doc

\* A document that moves is ahead of every stored checkpoint and of the listing.
LEMMA MovesDurable ==
  ASSUME TypeOK, DurableInv, NEW h \in Hub, NEW p \in Path, Moves(h, p),
         UNCHANGED <<checkpoint, pc, hub, lastSeq, got, applied>>,
         pc = "push" \/ UNCHANGED todo
  PROVE  DurableInv'
<1>1. /\ hubSeq \in [Hub -> Nat] /\ checkpoint \in [Hub -> Nat] /\ hub \in Hub
      /\ lastSeq \in Nat /\ applied \in [Hub -> [Path -> Nat]] /\ got.seq \in Nat
  BY DEF TypeOK, TypeHubs, TypeStores, TypeSync, TypeHistory, File
<1>2. \A k \in Hub, q \in Path : docs[k][q].seq \in Nat
  BY DEF TypeOK, TypeHubs, Doc
<1>3. /\ \A k \in Hub, q \in Path :
           docs'[k][q].seq = IF k = h /\ q = p THEN hubSeq[h] + 1 ELSE docs[k][q].seq
      /\ \A k \in Hub : hubSeq'[k] = IF k = h THEN hubSeq[h] + 1 ELSE hubSeq[k]
  BY <1>1 DEF Moves, NextSeq, BumpSeq
<1>4. SeqOrder'
  <2> SUFFICES ASSUME NEW k \in Hub
               PROVE  /\ checkpoint'[k] <= hubSeq'[k]
                      /\ \A q \in Path : docs'[k][q].seq <= hubSeq'[k]
    BY DEF SeqOrder
  <2>1. /\ checkpoint[k] <= hubSeq[k]
        /\ \A q \in Path : docs[k][q].seq <= hubSeq[k]
    BY DEF DurableInv, SeqOrder
  <2>2. CASE k = h
    BY <1>1, <1>2, <1>3, <2>1, <2>2
  <2>3. CASE k # h
    BY <1>1, <1>3, <2>1, <2>3
  <2> QED
    BY <2>2, <2>3
<1>5. BatchDurable'
  <2> SUFFICES ASSUME NEW k \in Hub, NEW q \in Path, docs'[k][q].seq <= checkpoint[k]
               PROVE  applied[k][q] >= docs'[k][q].seq
    BY DEF BatchDurable
  <2>1. checkpoint[k] <= hubSeq[k]
    BY DEF DurableInv, SeqOrder
  <2>2. CASE k = h /\ q = p
    BY <1>1, <1>3, <2>1, <2>2
  <2>3. CASE ~(k = h /\ q = p)
    BY <1>3, <2>3 DEF DurableInv, BatchDurable
  <2> QED
    BY <2>2, <2>3
<1>6. PullCovers'
  <2> SUFFICES ASSUME Pulling
               PROVE  /\ checkpoint[hub] <= lastSeq /\ lastSeq <= hubSeq'[hub]
                      /\ \A q \in Path \ todo :
                           docs'[hub][q].seq <= lastSeq => applied[hub][q] >= docs'[hub][q].seq
                      /\ pc \in {"write", "meta"} => got.seq >= lastSeq
    BY DEF PullCovers, Pulling
  <2>1. /\ checkpoint[hub] <= lastSeq /\ lastSeq <= hubSeq[hub]
        /\ \A q \in Path \ todo :
             docs[hub][q].seq <= lastSeq => applied[hub][q] >= docs[hub][q].seq
        /\ pc \in {"write", "meta"} => got.seq >= lastSeq
    BY DEF DurableInv, PullCovers
  <2>2. lastSeq <= hubSeq'[hub]
    BY <1>1, <1>3, <2>1
  <2>3. ASSUME NEW q \in Path \ todo, docs'[hub][q].seq <= lastSeq
        PROVE  applied[hub][q] >= docs'[hub][q].seq
    <3>1. CASE hub = h /\ q = p
      BY <1>1, <1>3, <2>1, <2>3, <3>1
    <3>2. CASE ~(hub = h /\ q = p)
      BY <1>1, <1>3, <2>1, <2>3, <3>2
    <3> QED BY <3>1, <3>2
  <2> QED
    BY <2>1, <2>2, <2>3
<1> QED
  BY <1>4, <1>5, <1>6 DEF DurableInv

\* A step that leaves hubs, checkpoints and handled entries alone, and that is not
\* in the middle of a pull afterwards.
LEMMA NotPullingDurable ==
  ASSUME DurableInv, ~Pulling', UNCHANGED <<hubs, checkpoint, applied>>
  PROVE  DurableInv'
  BY DEF DurableInv, SeqOrder, PullCovers, BatchDurable, hubs

\* A step that touches nothing the invariant speaks of.
LEMMA FrameDurable ==
  ASSUME DurableInv,
         UNCHANGED <<hubs, checkpoint, applied, pc, hub, todo, lastSeq, got>>
  PROVE  DurableInv'
  BY DEF DurableInv, SeqOrder, PullCovers, Pulling, BatchDurable, hubs

\* A step of no pull, which leaves hubs, checkpoints and handled entries alone ...
QuietStep ==
  /\ UNCHANGED <<hubs, checkpoint, applied>>
  /\ ~Pulling' \/ UNCHANGED <<pc, hub, todo, lastSeq, got>>

\* ... or one by which a document moves.
MoveStep ==
  \E h \in Hub, p \in Path :
    /\ Moves(h, p)
    /\ UNCHANGED <<checkpoint, pc, hub, lastSeq, got, applied>>
    /\ pc = "push" \/ UNCHANGED todo

\* Apart from the steps of a pull there are only these two kinds.
LEMMA StepKinds ==
  ASSUME TypeOK, [Next]_vars
  PROVE  \/ QuietStep \/ MoveStep \/ ListChanges \/ FetchFile \/ WriteFile \/ WriteMeta
         \/ SaveCheckpoint \/ \E p \in Path : SkipEntry(p) \/ TakeEntry(p)
<1>t. /\ hubSeq \in [Hub -> Nat] /\ checkpoint \in [Hub -> Nat] /\ hub \in Hub
      /\ lastSeq \in Nat /\ applied \in [Hub -> [Path -> Nat]] /\ got.seq \in Nat
      /\ \A h \in Hub, p \in Path : docs[h][p] \in Doc /\ docs[h][p].seq \in Nat
      /\ \A h \in Hub : NextSeq(h) \in Nat
  BY DEF TypeOK, TypeHubs, TypeStores, TypeSync, TypeHistory, File, Doc, NextSeq
<1>1. CASE Record \/ AbortRecord \/ UNCHANGED vars
  <2>1. UNCHANGED <<hubs, checkpoint, applied, pc, hub, todo, lastSeq, got>>
    BY <1>1 DEF Record, RecordUpsert, RecordDelete, RecordFile, RecordMeta, RecordQueue,
                AbortRecord, vars, durable, locals, history, bounds
  <2> QED
    BY <2>1 DEF QuietStep
<1>2. CASE LoadPending \/ BuildChanges \/ Reply \/ ClearPending \/ \E p \in Path : AdoptRev(p)
  <2>1. ~Pulling' /\ UNCHANGED <<hubs, checkpoint, applied>>
    BY <1>2 DEF LoadPending, BuildChanges, Reply, ClearPending, AdoptRev, Pulling,
                durable, history
  <2> QED
    BY <2>1 DEF QuietStep
<1>3. ASSUME NEW p \in Path, HubNoFile(p) \/ HubBranchAgain(p) PROVE QuietStep \/ MoveStep
  <2>1. ~Pulling' /\ UNCHANGED <<hubs, checkpoint, applied>>
    BY <1>3 DEF HubNoFile, HubBranchAgain, Replied, Pulling, durable, history
  <2> QED
    BY <2>1 DEF QuietStep
<1>4. ASSUME NEW p \in Path, HubRefuse(p) PROVE QuietStep \/ MoveStep
  <2>1. ~Pulling' /\ UNCHANGED <<hubs, checkpoint, applied>>
    BY <1>4 DEF HubRefuse, PushFailed, EndSync, Pulling, durable, history
  <2> QED
    BY <2>1 DEF QuietStep
<1>5. CASE FetchMissing \/ PushFault \/ PullFault \/ AbortSync
  <2>1. ~Pulling' /\ UNCHANGED <<hubs, checkpoint, applied>>
    BY <1>5 DEF FetchMissing, PushFault, PullFault, AbortSync, PushFailed, PullFailed,
                EndSync, Pulling, durable, history
  <2> QED
    BY <2>1 DEF QuietStep
<1>6. ASSUME NEW p \in Path,
             HubWrite(p) \/ HubBranchEdit(p) \/ HubBranchTombstone(p)
      PROVE  QuietStep \/ MoveStep
  <2>1. ASSUME HubWrite(p) PROVE Moves(hub, p)
    <3> DEFINE d == Written(docs[hub][p], batch[p].body, nextRev, NextSeq(hub))
    <3>1. docs' = [docs EXCEPT ![hub][p] = d] /\ BumpSeq(hub)
      BY <2>1 DEF HubWrite, SetDoc
    <3>2. d.seq = NextSeq(hub)
      BY <1>t, WrittenSeq
    <3> HIDE DEF d
    <3> QED BY <1>t, <3>1, <3>2, PutMoves
  <2>2. ASSUME HubBranchEdit(p) PROVE Moves(hub, p)
    <3> DEFINE d(c) == [Written(docs[hub][p], c, nextRev, NextSeq(hub))
                          EXCEPT !.branched = @ \cup {batch[p]}]
    <3>1. PICK c : docs' = [docs EXCEPT ![hub][p] = d(c)]
      BY <2>2 DEF HubBranchEdit, SetDoc
    <3>2. d(c).seq = NextSeq(hub)
      BY <1>t, WrittenSeq
    <3>3. BumpSeq(hub)
      BY <2>2 DEF HubBranchEdit
    <3> HIDE DEF d
    <3> QED BY <1>t, <3>1, <3>2, <3>3, PutMoves
  <2>3. ASSUME HubBranchTombstone(p) PROVE Moves(hub, p)
    <3> DEFINE d == [docs[hub][p] EXCEPT !.branched = @ \cup {batch[p]}, !.seq = NextSeq(hub)]
    <3>1. docs' = [docs EXCEPT ![hub][p] = d] /\ BumpSeq(hub)
      BY <2>3 DEF HubBranchTombstone, SetDoc
    <3>2. d.seq = NextSeq(hub)
      BY <1>t, WrittenSeq
    <3> HIDE DEF d
    <3> QED BY <1>t, <3>1, <3>2, PutMoves
  <2>4. UNCHANGED <<checkpoint, pc, hub, lastSeq, got, applied>> /\ pc = "push"
    BY <1>6 DEF HubWrite, HubBranchEdit, HubBranchTombstone, Replied, durable, history
  <2>5. Moves(hub, p)
    BY <1>6, <2>1, <2>2, <2>3
  <2> QED
    BY <1>t, <2>4, <2>5 DEF MoveStep
<1>7. ASSUME NEW h \in Hub, NEW p \in Path,
             RemoteEdit(h, p) \/ RemoteConflict(h, p) \/ RemoteDelete(h, p)
      PROVE  QuietStep \/ MoveStep
  <2>3. Moves(h, p)
    <3> DEFINE d(c) == Written(docs[h][p], c, nextRev, NextSeq(h))
    <3>1. PICK c : docs' = [docs EXCEPT ![h][p] = d(c)]
      BY <1>7 DEF RemoteEdit, RemoteConflict, RemoteDelete, RemoteWrite
    <3>2. d(c).seq = NextSeq(h)
      BY <1>t, WrittenSeq
    <3>3. BumpSeq(h)
      BY <1>7 DEF RemoteEdit, RemoteConflict, RemoteDelete, RemoteWrite
    <3> HIDE DEF d
    <3> QED BY <3>1, <3>2, <3>3, PutMoves
  <2>4. UNCHANGED <<checkpoint, pc, hub, lastSeq, got, applied, todo>>
    BY <1>7 DEF RemoteEdit, RemoteConflict, RemoteDelete, durable, locals
  <2> QED
    BY <2>3, <2>4 DEF MoveStep
<1>8. ASSUME NEW h \in Hub, NEW g \in Hub, NEW p \in Path, Replicate(h, g, p)
      PROVE  QuietStep \/ MoveStep
  <2>3. Moves(g, p)
    <3> DEFINE d(c, r) == [Written(docs[g][p], c, r, NextSeq(g)) EXCEPT
                             !.known = @ \cup docs[h][p].known,
                             !.branched = @ \cup docs[h][p].branched]
    <3>1. PICK c, r : docs' = [docs EXCEPT ![g][p] = d(c, r)]
      BY <1>8 DEF Replicate
    <3>2. d(c, r).seq = NextSeq(g)
      BY <1>t, WrittenSeq
    <3>3. BumpSeq(g)
      BY <1>8 DEF Replicate
    <3> HIDE DEF d
    <3> QED BY <3>1, <3>2, <3>3, PutMoves
  <2>4. UNCHANGED <<checkpoint, pc, hub, lastSeq, got, applied, todo>>
    BY <1>8 DEF Replicate, durable, locals
  <2> QED
    BY <2>3, <2>4 DEF MoveStep
<1> QED
  BY <1>1, <1>2, <1>3, <1>4, <1>5, <1>6, <1>7, <1>8
     DEF Next, Push, HubStep, Pull, Fault, Remote

\* The strengthened invariant.
LEMMA DurableInductive == Spec => []DurableInv
<1>1. Init => DurableInv
  BY DEF Init, DurableInv, SeqOrder, PullCovers, Pulling, BatchDurable, NoDoc
<1>2. TypeOK /\ TypeOK' /\ DurableInv /\ [Next]_vars => DurableInv'
  <2> SUFFICES ASSUME TypeOK, TypeOK', DurableInv, [Next]_vars PROVE DurableInv'
    OBVIOUS
  <2>t. /\ hubSeq \in [Hub -> Nat] /\ checkpoint \in [Hub -> Nat] /\ hub \in Hub
        /\ lastSeq \in Nat /\ applied \in [Hub -> [Path -> Nat]] /\ got.seq \in Nat
        /\ \A h \in Hub, p \in Path : docs[h][p] \in Doc /\ docs[h][p].seq \in Nat
        /\ \A h \in Hub : NextSeq(h) \in Nat
    BY DEF TypeOK, TypeHubs, TypeStores, TypeSync, TypeHistory, File, Doc, NextSeq
  <2>1. CASE QuietStep
    BY <2>1, NotPullingDurable, FrameDurable DEF QuietStep
  <2>2. CASE MoveStep
    BY <2>2, MovesDurable DEF MoveStep
  <2>3. CASE ListChanges
    <3>1. /\ pc' = "apply" /\ lastSeq' = hubSeq[hub] /\ UNCHANGED <<hubs, checkpoint, applied, hub>>
          /\ todo' = {p \in Path : docs[hub][p].seq > checkpoint[hub]}
      BY <2>3 DEF ListChanges, ChangedSince, durable, history
    <3>2. SeqOrder' /\ BatchDurable'
      BY <3>1 DEF DurableInv, SeqOrder, BatchDurable, hubs
    <3>3. ASSUME NEW p \in Path \ todo' PROVE applied[hub][p] >= docs[hub][p].seq
      BY <2>t, <3>1 DEF DurableInv, BatchDurable
    <3>4. PullCovers'
      BY <2>t, <3>1, <3>3 DEF PullCovers, DurableInv, SeqOrder, hubs
    <3> QED
      BY <3>2, <3>4 DEF DurableInv
  <2>4. ASSUME NEW p \in Path, SkipEntry(p) PROVE DurableInv'
    <3>1. /\ pc = "apply" /\ todo' = todo \ {p}
          /\ applied' = [applied EXCEPT ![hub][p] = lastSeq]
          /\ UNCHANGED <<hubs, checkpoint, pc, hub, lastSeq, got>>
      BY <2>4 DEF SkipEntry, durable
    <3>2. SeqOrder'
      BY <3>1 DEF DurableInv, SeqOrder, hubs
    <3>3. BatchDurable'
      BY <2>t, <3>1 DEF DurableInv, BatchDurable, PullCovers, Pulling, hubs
    <3>4. PullCovers'
      BY <2>t, <3>1 DEF DurableInv, PullCovers, Pulling, hubs
    <3> QED
      BY <3>2, <3>3, <3>4 DEF DurableInv
  <2>5. CASE WriteFile \/ \E p \in Path : TakeEntry(p)
    <3>1. /\ UNCHANGED <<hubs, checkpoint, applied, hub, todo, lastSeq, got>>
          /\ Pulling /\ (pc' \in {"write", "meta"} => pc \in {"write", "meta"})
      BY <2>5 DEF WriteFile, TakeEntry, Pulling, durable, history
    <3> QED
      BY <3>1 DEF DurableInv, SeqOrder, BatchDurable, PullCovers, hubs
  <2>6. CASE FetchFile
    <3>1. /\ UNCHANGED <<hubs, checkpoint, applied, hub, todo, lastSeq>>
          /\ Pulling /\ got'.seq \in {lastSeq, hubSeq[hub]}
      BY <2>6 DEF FetchFile, Pulling, NoFile, durable, history
    <3>2. PullCovers'
      BY <2>t, <3>1 DEF DurableInv, PullCovers, hubs
    <3> QED
      BY <3>1, <3>2 DEF DurableInv, SeqOrder, BatchDurable, hubs
  <2>7. CASE WriteMeta
    <3>1. /\ pc = "meta" /\ pc' = "apply" /\ todo' = todo \ {cur}
          /\ applied' = [applied EXCEPT ![hub][cur] = got.seq]
          /\ UNCHANGED <<hubs, checkpoint, hub, lastSeq>>
      BY <2>7 DEF WriteMeta
    <3>2. SeqOrder'
      BY <3>1 DEF DurableInv, SeqOrder, hubs
    <3>3. BatchDurable'
      BY <2>t, <3>1 DEF DurableInv, BatchDurable, PullCovers, Pulling, hubs
    <3>4. PullCovers'
      BY <2>t, <3>1 DEF DurableInv, PullCovers, Pulling, hubs
    <3> QED
      BY <3>2, <3>3, <3>4 DEF DurableInv
  <2>8. CASE SaveCheckpoint
    <3>1. /\ pc = "apply" /\ todo = {} /\ ~Pulling'
          /\ checkpoint' = [checkpoint EXCEPT ![hub] = lastSeq]
          /\ UNCHANGED <<hubs, applied>>
      BY <2>8 DEF SaveCheckpoint, EndSync, Pulling, history
    <3>2. SeqOrder'
      BY <2>t, <3>1 DEF DurableInv, SeqOrder, PullCovers, Pulling, hubs
    <3>3. BatchDurable'
      BY <2>t, <3>1 DEF DurableInv, BatchDurable, PullCovers, Pulling, hubs
    <3> QED
      BY <3>1, <3>2, <3>3 DEF DurableInv, PullCovers
  <2> QED
    BY <2>1, <2>2, <2>3, <2>4, <2>5, <2>6, <2>7, <2>8, StepKinds
<1> QED
  BY <1>1, <1>2, TypeCorrect, PTL DEF Spec

\* Guarantee 1 of engine.rs: whatever fails and whenever, a stored checkpoint of a
\* hub never covers a change of that hub that the device has not made durable, or
\* skipped because a local change was queued.
THEOREM CheckpointsAreDurable == Spec => []BatchDurable
  BY DurableInductive, PTL DEF DurableInv

----------------------------------------------------------------------------
(***************************************************************************)
(* The queue and the files, for a client that does not record while it     *)
(* syncs (the desktop client).  A pull, which also removes files, runs     *)
(* only once the queue is empty.  If records are not cut off either, a     *)
(* file is missing under a queued upload only while record_delete is about *)
(* to replace that upload.                                                 *)
(***************************************************************************)

Recorded ==
  /\ rec # NoRecord => rec.at # "idle" /\ rec.op # "none" /\ pc = "idle"
  /\ rec.op = "upsert" => rec.content # Absent
  /\ rec.op = "delete" => rec.content = Absent
  /\ rec.at \in {"meta", "queue"} => files[rec.path] = rec.content

PullAfterPush ==
  pc \in {"list", "apply", "fetch", "write", "meta"} => \A p \in Path : ~Queued(p)

MissingOnlyInDelete ==
  ~RecordCrash =>
    \A p \in Path :
      pending[p].op = "upsert" /\ files[p] = Absent =>
        rec.at \in {"meta", "queue"} /\ rec.path = p

QueueInv == Recorded /\ PullAfterPush /\ MissingOnlyInDelete

\* The strengthened invariant.
LEMMA QueueInductive ==
  ASSUME ~Overlap
  PROVE  Spec => []QueueInv
<1>1. Init => QueueInv
  BY DEF Init, QueueInv, Recorded, PullAfterPush, MissingOnlyInDelete, NoRecord,
         NothingPending, NoChange
<1>2. TypeOK /\ QueueInv /\ [Next]_vars => QueueInv'
  <2> SUFFICES ASSUME TypeOK, QueueInv, [Next]_vars PROVE QueueInv'
    OBVIOUS
  <2>t. /\ files \in [Path -> Content] /\ pending \in [Path -> Change]
        /\ rec \in Recording /\ (rec.at # "idle" => rec.path \in Path)
    BY DEF TypeOK, TypeStores, TypeRecord
  <2>q. Recorded /\ PullAfterPush /\ MissingOnlyInDelete
    BY DEF QueueInv
  <2>1. ASSUME NEW p \in Path, RecordUpsert(p) PROVE QueueInv'
    <3>1. PICK e \in Edit :
            rec' = [at |-> "file", path |-> p, op |-> "upsert", base |-> BaseRev(p),
                    content |-> Text(files[p]) \cup {e}]
      BY <2>1 DEF RecordUpsert
    <3>2. rec = NoRecord /\ pc = "idle" /\ UNCHANGED <<files, pending, pc>>
      BY <2>1 DEF RecordUpsert, MayRecord, durable, locals
    <3>3. Text(files[p]) \cup {e} # Absent
      BY <2>t, TextType
    <3> QED
      BY <2>q, <3>1, <3>2, <3>3
         DEF QueueInv, Recorded, PullAfterPush, MissingOnlyInDelete, NoRecord
  <2>2. ASSUME NEW p \in Path, RecordDelete(p) PROVE QueueInv'
    <3>1. /\ rec' = [at |-> "file", path |-> p, op |-> "delete", base |-> BaseRev(p),
                     content |-> Absent]
          /\ rec = NoRecord /\ pc = "idle" /\ UNCHANGED <<files, pending, pc>>
      BY <2>2 DEF RecordDelete, MayRecord, durable, locals
    <3> QED
      BY <2>q, <3>1 DEF QueueInv, Recorded, PullAfterPush, MissingOnlyInDelete, NoRecord
  <2>3. CASE RecordFile
    <3>1. /\ rec.at = "file" /\ files' = [files EXCEPT ![rec.path] = rec.content]
          /\ rec' = [rec EXCEPT !.at = "meta"] /\ UNCHANGED <<pending, pc>>
      BY <2>3 DEF RecordFile, locals
    <3>2. /\ rec'.at = "meta" /\ rec'.path = rec.path /\ rec'.op = rec.op
          /\ rec'.content = rec.content /\ rec # NoRecord /\ rec.path \in Path
      BY <2>t, <3>1 DEF Recording, NoRecord
    <3>3. Recorded'
      BY <2>t, <2>q, <3>1, <3>2 DEF Recorded
    <3>4. MissingOnlyInDelete'
      BY <2>t, <2>q, <3>1, <3>2 DEF MissingOnlyInDelete
    <3> QED
      BY <2>q, <3>1, <3>3, <3>4 DEF QueueInv, PullAfterPush, Queued
  <2>4. CASE RecordMeta
    <3>1. /\ rec.at = "meta" /\ rec' = [rec EXCEPT !.at = "queue"]
          /\ UNCHANGED <<files, pending, pc>>
      BY <2>4 DEF RecordMeta, locals
    <3>2. /\ rec'.at = "queue" /\ rec'.path = rec.path /\ rec'.op = rec.op
          /\ rec'.content = rec.content /\ rec # NoRecord
      BY <2>t, <3>1 DEF Recording, NoRecord
    <3> QED
      BY <2>q, <3>1, <3>2 DEF QueueInv, Recorded, PullAfterPush, MissingOnlyInDelete
  <2>5. CASE RecordQueue
    <3>1. /\ rec.at = "queue" /\ rec' = NoRecord /\ UNCHANGED <<files, pc>>
          /\ pending' = [pending EXCEPT ![rec.path] =
                           [op |-> rec.op, base |-> rec.base, body |-> Absent]]
      BY <2>5 DEF RecordQueue, locals
    <3>2. pc = "idle" /\ rec.path \in Path /\ files[rec.path] = rec.content
      BY <2>t, <2>q, <3>1 DEF Recorded, NoRecord
    <3>3. MissingOnlyInDelete'
      BY <2>t, <2>q, <3>1, <3>2 DEF Recorded, MissingOnlyInDelete
    <3> QED
      BY <3>1, <3>2, <3>3 DEF QueueInv, Recorded, PullAfterPush, NoRecord
  <2>6. CASE LoadPending
    <3>1. /\ rec = NoRecord /\ UNCHANGED <<files, pending, rec>>
          /\ pc' = IF \E p \in Path : Queued(p) THEN "build" ELSE "list"
      BY <2>6 DEF LoadPending, durable
    <3> QED
      BY <2>q, <3>1 DEF QueueInv, Recorded, PullAfterPush, MissingOnlyInDelete, Queued
  <2>7. CASE BuildChanges \/ Reply \/ (\E p \in Path : AdoptRev(p)) \/ UNCHANGED vars
    <3>1. /\ UNCHANGED <<files, pending, rec>>
          /\ pc' = pc \/ (pc # "idle" /\ pc' \in {"push", "adopt"})
      BY <2>7 DEF BuildChanges, Reply, AdoptRev, vars, durable, locals
    <3> QED
      BY <2>q, <3>1 DEF QueueInv, Recorded, PullAfterPush, MissingOnlyInDelete, Queued
  <2>8. ASSUME NEW p \in Path,
               \/ HubWrite(p) \/ HubNoFile(p) \/ HubBranchEdit(p)
               \/ HubBranchTombstone(p) \/ HubBranchAgain(p)
        PROVE  QueueInv'
    <3>1. UNCHANGED <<files, pending, rec, pc>>
      BY <2>8 DEF HubWrite, HubNoFile, HubBranchEdit, HubBranchTombstone, HubBranchAgain,
                  Replied, durable
    <3> QED
      BY <2>q, <3>1 DEF QueueInv, Recorded, PullAfterPush, MissingOnlyInDelete, Queued
  <2>9. CASE \/ PushFault \/ PullFault \/ AbortSync \/ FetchMissing
             \/ \E p \in Path : HubRefuse(p)
    <3>1. /\ UNCHANGED <<files, pending, rec>> /\ pc # "idle"
          /\ pc' \in {"idle", "push"} \/ (pc' = "list" /\ pc \in {"list", "fetch"})
      BY <2>9 DEF PushFault, PullFault, AbortSync, FetchMissing, HubRefuse, PushFailed,
                  PullFailed, EndSync, durable
    <3>2. rec = NoRecord
      BY <2>q, <3>1 DEF Recorded
    <3> QED
      BY <2>q, <3>1, <3>2
         DEF QueueInv, Recorded, PullAfterPush, MissingOnlyInDelete, Queued, NoRecord
  <2>10. CASE ClearPending
    <3>1. pc = "adopt" /\ pc' = "list" /\ pending' = NothingPending /\ UNCHANGED <<files, rec>>
      BY <2>10 DEF ClearPending
    <3>2. rec = NoRecord /\ \A p \in Path : pending'[p].op = "none"
      BY <2>q, <3>1 DEF Recorded, NothingPending, NoChange
    <3> QED
      BY <2>q, <3>1, <3>2
         DEF QueueInv, Recorded, PullAfterPush, MissingOnlyInDelete, Queued, NoRecord
  <2>11. CASE \/ ListChanges \/ FetchFile \/ WriteFile \/ WriteMeta \/ SaveCheckpoint
              \/ \E p \in Path : SkipEntry(p) \/ TakeEntry(p)
    <3>1. /\ UNCHANGED <<pending, rec>>
          /\ pc \in {"list", "apply", "fetch", "write", "meta"}
      BY <2>11 DEF ListChanges, ChangedSince, FetchFile, WriteFile, WriteMeta, SaveCheckpoint, SkipEntry,
                   TakeEntry, durable
    <3>2. rec = NoRecord /\ \A p \in Path : pending[p].op = "none"
      BY <2>q, <3>1 DEF Recorded, PullAfterPush, Queued
    <3> QED
      BY <3>1, <3>2
         DEF QueueInv, Recorded, PullAfterPush, MissingOnlyInDelete, Queued, NoRecord
  <2>12. CASE Remote
    <3>1. UNCHANGED <<durable, locals, rec>>
      <4>1. ASSUME NEW h \in Hub, NEW p \in Path,
                   RemoteEdit(h, p) \/ RemoteConflict(h, p) \/ RemoteDelete(h, p)
            PROVE  UNCHANGED <<durable, locals, rec>>
        BY <4>1 DEF RemoteEdit, RemoteConflict, RemoteDelete
      <4>2. ASSUME NEW h \in Hub, NEW g \in Hub, NEW p \in Path, Replicate(h, g, p)
            PROVE  UNCHANGED <<durable, locals, rec>>
        BY <4>2 DEF Replicate
      <4> QED BY <2>12, <4>1, <4>2 DEF Remote
    <3> QED
      BY <2>q, <3>1 DEF QueueInv, Recorded, PullAfterPush, MissingOnlyInDelete, Queued,
                        durable, locals
  <2>13. CASE AbortRecord
    <3>1. RecordCrash /\ rec' = NoRecord /\ UNCHANGED <<files, pending, pc>>
      BY <2>13 DEF AbortRecord, durable, locals
    <3> QED
      BY <2>q, <3>1 DEF QueueInv, Recorded, PullAfterPush, MissingOnlyInDelete, Queued, NoRecord
  <2> QED
    BY <2>1, <2>2, <2>3, <2>4, <2>5, <2>6, <2>7, <2>8, <2>9, <2>10, <2>11, <2>12, <2>13
       DEF Next, Record, Push, HubStep, Pull, Fault
<1> QED
  BY <1>1, <1>2, TypeCorrect, PTL DEF Spec

\* The desktop client never uploads an empty body in place of a file it no longer
\* has: every queued upload has its file, whatever push or pull failed in between.
THEOREM QueuedUploadsHaveFiles ==
  ASSUME ~Overlap, ~RecordCrash
  PROVE  Spec => []QueuedFileExists
<1>1. QueueInv => QueuedFileExists
  BY DEF QueueInv, MissingOnlyInDelete, QueuedFileExists, NoRecord
<1> QED
  BY <1>1, QueueInductive, PTL

============================================================================
