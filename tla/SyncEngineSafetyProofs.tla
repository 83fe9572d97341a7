----------------------- MODULE SyncEngineSafetyProofs -----------------------
(***************************************************************************)
(* What the engine does to the user's files, for a device with one hub     *)
(* that does not record while it syncs: no recorded edit is lost           *)
(* (LocalEditSafe), and if records are not cut off either, a synced file   *)
(* is the hub's (CheckpointSound).                                         *)
(***************************************************************************)
EXTENDS SyncEngineProofs

\* The desktop client with one hub: the setting of both theorems.
Sequential == NHubs = 1 /\ ~Overlap

\* The only hub's document.
D(p) == docs[1][p]

\* The stored checkpoint covers the document's last change.
Covered(p) == D(p).seq <= checkpoint[1]

\* A record has written the file and has yet to queue it.
InRecord(p) == rec.at \in {"meta", "queue"} /\ rec.path = p

\* The hub has answered for this change of the batch.
Taken(p) == Queued(p) /\ (pc = "adopt" \/ (pc = "push" /\ p \notin todo))

\* What survives anything that happens to a file or a document.
LaidAside == kept \cup retired

----------------------------------------------------------------------------
(* The kinds of steps. *)

\* A document moves to the end of the change feed, the others stay as they are.
Moved(p) ==
  /\ D(p)'.seq = hubSeq[1] + 1
  /\ \A q \in Path \ {p} : D(q)' = D(q)
  /\ UNCHANGED <<checkpoint, lastSeq>>

\* Another device writes c, in which the edits of F are new; what it drops of the
\* document is laid aside.
RemoteStep(p, c, F) ==
  /\ c \in Content
  /\ Moved(p)
  /\ D(p)'.content = c /\ D(p)'.rev \in D(p)'.known /\ D(p)'.branched = D(p).branched
  /\ Text(c) \subseteq Text(D(p).content) \cup F
  /\ F \cap used = {} /\ used' = used \cup F
  /\ kept \subseteq kept' /\ retired \subseteq retired'
  /\ Text(D(p).content) \subseteq Text(c) \cup kept' \cup retired'
  /\ UNCHANGED <<durable, locals, rec, saved>>

\* The sync ends with an error.
GiveUp == EndSync /\ UNCHANGED <<durable, rec, hubs, history>>

RevsKnown == \A p \in Path : D(p).rev # NoRev => D(p).rev \in D(p).known

\* There is one hub, and it is the one that a sync tries.
LEMMA OneHub == ASSUME Sequential, TypeOK PROVE Hub = {1} /\ hub = 1
  BY DEF Sequential, Hub, TypeOK, TypeSync

\* The typing facts the proofs below use.
LEMMA Types ==
  ASSUME Sequential, TypeOK
  PROVE  /\ files \in [Path -> Content] /\ meta \in [Path -> Rev \cup {NoMeta}]
         /\ pending \in [Path -> Change] /\ checkpoint \in [Hub -> Nat]
         /\ checkpoint[1] \in Nat /\ lastSeq \in Nat /\ hubSeq[1] \in Nat
         /\ todo \subseteq Path /\ gone \subseteq Path
         /\ batch \in [Path -> Change] /\ result \in [Path -> Rev]
         /\ (pc \in {"fetch", "write", "meta"} => cur \in todo)
         /\ got \in File /\ got.content \in Content
         /\ rec \in Recording /\ (rec.at # "idle" => rec.path \in Path)
         /\ rec.content \in Content
         /\ \A p \in Path : D(p) \in Doc
         /\ \A p \in Path : /\ D(p).seq \in Nat /\ D(p).content \in Content
                            /\ D(p).rev \in Rev /\ D(p).branched \subseteq Change
                            /\ batch[p] \in Change /\ pending[p] \in Change
                            /\ files[p] \in Content
         /\ used \subseteq Edit /\ saved \subseteq Edit /\ kept \subseteq Edit
         /\ retired \subseteq Edit
         /\ nextRev \in Nat \ {0}
  BY OneHub DEF TypeOK, TypeStores, TypeSync, TypeRecord, TypeHubs, TypeHistory, D, Doc,
                File, Recording, Rev

\* A document that moves is not covered, by the checkpoint or by a listing.
LEMMA MovedUncovered ==
  ASSUME Sequential, TypeOK, DurableInv, NEW p \in Path, Moved(p)
  PROVE  /\ ~Covered(p)'
         /\ \A q \in Path \ {p} : Covered(q)' <=> Covered(q)
         /\ Pulling => ~(D(p)'.seq <= lastSeq)
<1>1. checkpoint[1] <= hubSeq[1] /\ (Pulling => lastSeq <= hubSeq[1])
  BY OneHub DEF DurableInv, SeqOrder, PullCovers
<1>2. checkpoint[1] \in Nat /\ lastSeq \in Nat /\ hubSeq[1] \in Nat
  BY Types
<1>3. ~Covered(p)'
  BY <1>1, <1>2 DEF Moved, Covered, D
<1>4. ASSUME NEW q \in Path \ {p} PROVE Covered(q)' <=> Covered(q)
  BY DEF Moved, Covered, D
<1> QED
  BY <1>1, <1>2, <1>3, <1>4 DEF Moved

\* Storing a document moves it.
LEMMA StoredMoves ==
  ASSUME Sequential, TypeOK, NEW p \in Path, NEW d \in Doc, d.seq = NextSeq(1),
         docs' = [docs EXCEPT ![1][p] = d], UNCHANGED <<checkpoint, lastSeq>>
  PROVE  Moved(p) /\ D(p)' = d
  BY OneHub DEF Moved, D, TypeOK, TypeHubs, NextSeq

\* Every error of a push or a pull ends the sync: there is no other hub.
LEMMA GiveUpSteps ==
  ASSUME Sequential, TypeOK,
         \/ PushFault \/ PullFault \/ AbortSync \/ FetchMissing
         \/ \E p \in Path : HubRefuse(p)
  PROVE  GiveUp /\ pc # "idle"
<1>1. hub = NHubs
  BY OneHub DEF Sequential
<1> QED
  BY <1>1 DEF PushFault, PullFault, AbortSync, FetchMissing, HubRefuse, PushFailed,
              PullFailed, GiveUp, Sequential

\* Edits are the text of a file that is there.
LEMMA TextOfEdits ==
  ASSUME NEW c \in SUBSET Edit PROVE c \in Content /\ c # Absent /\ Text(c) = c
<1>1. c # Absent
  BY AbsentAssumption
<1> QED
  BY <1>1 DEF Content, Text

\* What a written document is.
LEMMA WrittenFields ==
  ASSUME NEW d \in Doc, NEW c, NEW r, NEW s
  PROVE  LET w == Written(d, c, r, s) IN
         /\ w.rev = r /\ w.content = c /\ w.seq = s /\ r \in w.known
         /\ w.branched = d.branched /\ w.known = d.known \cup {r}
  BY DEF Written, Doc

\* The other devices write in one way only; nothing is replicated.
LEMMA RemoteSteps ==
  ASSUME Sequential, TypeOK, RevsKnown, Remote
  PROVE  \E p \in Path, c \in Content, F \in SUBSET Edit : RemoteStep(p, c, F)
<1>t. /\ nextRev \in Rev /\ NextSeq(1) \in Nat /\ used \subseteq Edit
      /\ \A p \in Path : D(p) \in Doc /\ D(p).content \in Content
  BY Types DEF Rev, NextSeq
<1>1. ASSUME NEW p \in Path, NEW c \in Content, RemoteWrite(1, p, c),
             UNCHANGED <<durable, locals>>
      PROVE  /\ Moved(p) /\ D(p)'.content = c /\ D(p)'.rev \in D(p)'.known
             /\ D(p)'.branched = D(p).branched
  <2> DEFINE d == Written(D(p), c, nextRev, NextSeq(1))
  <2>1. d \in Doc
    BY <1>t, WrittenType
  <2>2. /\ d.seq = NextSeq(1) /\ d.content = c /\ d.rev = nextRev /\ nextRev \in d.known
        /\ d.branched = D(p).branched
    BY <1>t, WrittenFields
  <2>3. docs' = [docs EXCEPT ![1][p] = d] /\ UNCHANGED <<checkpoint, lastSeq>>
    BY <1>1 DEF RemoteWrite, D, durable, locals
  <2> HIDE DEF d
  <2>4. Moved(p) /\ D(p)' = d
    BY <2>1, <2>2, <2>3, StoredMoves
  <2> QED
    BY <2>2, <2>4
<1>2. ASSUME NEW p \in Path, RemoteEdit(1, p)
      PROVE  \E c \in Content, F \in SUBSET Edit : RemoteStep(p, c, F)
  <2>1. PICK e \in Edit \ used :
          used' = used \cup {e} /\ RemoteWrite(1, p, Text(D(p).content) \cup {e})
    BY <1>2 DEF RemoteEdit, D
  <2> DEFINE c == Text(D(p).content) \cup {e}
  <2>2. c \in Content /\ Text(c) = c
    <3>1. c \in SUBSET Edit
      BY <1>t, TextType
    <3> QED BY <3>1, TextOfEdits
  <2>3. UNCHANGED <<durable, locals, rec, saved, kept, retired>>
    BY <1>2 DEF RemoteEdit
  <2>4. RemoteStep(p, c, {e})
    BY <1>1, <2>1, <2>2, <2>3 DEF RemoteStep
  <2> QED
    BY <2>2, <2>4
<1>3. ASSUME NEW p \in Path, RemoteConflict(1, p)
      PROVE  \E c \in Content, F \in SUBSET Edit : RemoteStep(p, c, F)
  <2>1. PICK e \in Edit \ used : used' = used \cup {e} /\ RemoteWrite(1, p, {e})
    BY <1>3 DEF RemoteConflict
  <2>2. {e} \in Content /\ Text({e}) = {e}
    BY TextOfEdits, {e} \in SUBSET Edit
  <2>3. /\ UNCHANGED <<durable, locals, rec, saved, retired>>
        /\ D(p).content # Absent /\ kept' = kept \cup D(p).content
    BY <1>3 DEF RemoteConflict, Live, D
  <2>4. RemoteStep(p, {e}, {e})
    BY <1>1, <2>1, <2>2, <2>3 DEF RemoteStep, Text
  <2> QED
    BY <2>2, <2>4
<1>4. ASSUME NEW p \in Path, RemoteDelete(1, p)
      PROVE  \E c \in Content, F \in SUBSET Edit : RemoteStep(p, c, F)
  <2>1. RemoteWrite(1, p, Absent)
    BY <1>4 DEF RemoteDelete
  <2>2. Absent \in Content /\ Text(Absent) = {}
    BY DEF Content, Text
  <2>3. /\ UNCHANGED <<durable, locals, rec, saved, kept, used>>
        /\ D(p).content # Absent /\ retired' = retired \cup D(p).content
    BY <1>4 DEF RemoteDelete, Live, D
  <2>4. RemoteStep(p, Absent, {})
    BY <1>1, <2>1, <2>2, <2>3 DEF RemoteStep, Text
  <2> QED
    BY <2>2, <2>4
<1>5. ASSUME NEW p \in Path PROVE ~Replicate(1, 1, p)
  BY DEF Replicate, RevsKnown, D
<1> QED
  BY <1>2, <1>3, <1>4, <1>5, OneHub DEF Remote


----------------------------------------------------------------------------
(***************************************************************************)
(* The batch of a push is the queue with the files' present contents,      *)
(* there is no file under a queued delete unless a record was cut off, and *)
(* an edit is nowhere before it is made.                                   *)
(***************************************************************************)

BatchIsQueue ==
  /\ \A p \in Path : pending[p].body = Absent
  /\ pc = "build" => batch = pending
  /\ pc \in {"push", "adopt"} =>
       \A p \in Path :
         /\ batch[p].op = pending[p].op /\ batch[p].base = pending[p].base
         /\ batch[p].body = IF pending[p].op = "upsert" THEN Text(files[p]) ELSE Absent
  /\ pc = "push" => \A p \in todo : Queued(p)

DeletedIsGone ==
  ~RecordCrash =>
    \A p \in Path : pending[p].op = "delete" /\ ~InRecord(p) => files[p] = Absent

EditsAreUsed ==
  /\ saved \subseteq used
  /\ Text(rec.content) \subseteq used
  /\ Text(got.content) \subseteq used
  /\ \A p \in Path : /\ Text(files[p]) \subseteq used
                     /\ Text(D(p).content) \subseteq used
                     /\ \A ch \in D(p).branched : Text(ch.body) \subseteq used

DataInv == RevsKnown /\ BatchIsQueue /\ DeletedIsGone /\ EditsAreUsed

\* The hub takes a pushed change, and the document becomes c.  Either c is the pushed
\* body, or neither side of the merge is lost.
HubTakes(p, c, B) ==
  /\ pc = "push" /\ p \in todo
  /\ c \in Content /\ B \subseteq {batch[p]}
  /\ Moved(p)
  /\ D(p)'.content = c /\ D(p)'.branched = D(p).branched \cup B
  /\ D(p)'.rev # NoRev => D(p)'.rev \in D(p)'.known
  /\ \/ c = batch[p].body /\ B = {}
     \/ Text(D(p).content) \cup Text(batch[p].body) \subseteq Text(c) \cup kept'
  /\ Text(c) \subseteq Text(D(p).content) \cup Text(batch[p].body)
  /\ kept \subseteq kept'
  /\ todo' = todo \ {p} /\ result' = [result EXCEPT ![p] = D(p)'.rev]
  /\ UNCHANGED <<durable, pc, batch, gone, lastSeq, cur, got, rec, used, saved, retired>>

\* The hub answers without a change of the document.
HubAnswers(p, rev) ==
  /\ pc = "push" /\ p \in todo
  /\ todo' = todo \ {p} /\ result' = [result EXCEPT ![p] = rev]
  /\ UNCHANGED <<docs, durable, pc, batch, gone, lastSeq, cur, got, rec, history>>

\* A resolved edit: nothing of either side is lost, nothing is made up.
LEMMA MergeKeeps ==
  ASSUME NEW a \in Content, NEW b \in SUBSET Edit, NEW m \in MergeOutcomes(a, b)
  PROVE  /\ Text(a) \cup Text(b) \subseteq Text(m.content) \cup m.copy
         /\ Text(m.content) \subseteq Text(a) \cup Text(b)
<1>1. b # Absent /\ Text(b) = b
  BY TextOfEdits
<1>2. CASE a = Absent
  BY <1>1, <1>2 DEF MergeOutcomes, Text
<1>3. CASE a # Absent
  <2>1. a \in SUBSET Edit /\ a \cup b \in SUBSET Edit
    BY <1>3 DEF Content
  <2>2. Text(a) = a /\ Text(a \cup b) = a \cup b
    BY <2>1, TextOfEdits
  <2>3. \/ m = [content |-> a \cup b, copy |-> {}]
        \/ m = [content |-> a, copy |-> b] \/ m = [content |-> b, copy |-> a]
    BY <1>1, <1>3 DEF MergeOutcomes
  <2> QED
    BY <1>1, <2>2, <2>3
<1> QED BY <1>2, <1>3

\* The three ways of the push handler to change a document.
LEMMA HubTakesSteps ==
  ASSUME Sequential, TypeOK, RevsKnown, BatchIsQueue, NEW p \in Path,
         HubWrite(p) \/ HubBranchEdit(p) \/ HubBranchTombstone(p)
  PROVE  \E c \in Content, B \in SUBSET {batch[p]} : HubTakes(p, c, B)
<1>t. /\ nextRev \in Rev /\ NextSeq(1) \in Nat /\ hub = 1
      /\ D(p) \in Doc /\ D(p).content \in Content /\ D(p).rev \in Rev
      /\ batch[p] \in Change /\ batch[p].body \in Content
      /\ files[p] \in Content
  BY Types, OneHub DEF Rev, NextSeq, Change
<1>1. CASE HubWrite(p)
  <2> DEFINE d == Written(D(p), batch[p].body, nextRev, NextSeq(1))
  <2>1. d \in Doc
    BY <1>t, WrittenType
  <2>2. /\ d.seq = NextSeq(1) /\ d.content = batch[p].body /\ d.rev = nextRev
        /\ nextRev \in d.known /\ d.branched = D(p).branched
    BY <1>t, WrittenFields
  <2>3. /\ docs' = [docs EXCEPT ![1][p] = d]
        /\ pc = "push" /\ p \in todo /\ todo' = todo \ {p}
        /\ result' = [result EXCEPT ![p] = nextRev]
        /\ UNCHANGED <<durable, pc, batch, gone, lastSeq, cur, got, rec, history>>
    BY <1>1, <1>t DEF HubWrite, SetDoc, Replied, D
  <2> HIDE DEF d
  <2>4. Moved(p) /\ D(p)' = d
    BY <2>1, <2>2, <2>3, StoredMoves DEF durable
  <2>5. HubTakes(p, batch[p].body, {})
    BY <1>t, <2>2, <2>3, <2>4 DEF HubTakes, history
  <2> QED
    BY <1>t, <2>5
<1>2. CASE HubBranchEdit(p)
  <2>1. PICK m \in MergeOutcomes(D(p).content, batch[p].body) :
          /\ SetDoc(p, [Written(D(p), m.content, nextRev, NextSeq(1))
                          EXCEPT !.branched = @ \cup {batch[p]}])
          /\ kept' = kept \cup m.copy
    BY <1>2, <1>t DEF HubBranchEdit, D
  <2> DEFINE w == Written(D(p), m.content, nextRev, NextSeq(1))
             d == [w EXCEPT !.branched = @ \cup {batch[p]}]
  <2>2. /\ pc = "push" /\ p \in todo /\ todo' = todo \ {p} /\ batch[p].op = "upsert"
        /\ result' = [result EXCEPT ![p] = nextRev]
        /\ UNCHANGED <<durable, pc, batch, gone, lastSeq, cur, got, rec, used, saved, retired>>
    BY <1>2 DEF HubBranchEdit, Replied
  <2>3. batch[p].body \in SUBSET Edit
    BY <1>t, <2>2, TextType DEF BatchIsQueue
  <2>4. m.content \in Content
    BY <1>t, MergeType
  <2>5. /\ Text(D(p).content) \cup Text(batch[p].body) \subseteq Text(m.content) \cup m.copy
        /\ Text(m.content) \subseteq Text(D(p).content) \cup Text(batch[p].body)
    BY <1>t, <2>3, MergeKeeps
  <2>6. w \in Doc
    BY <1>t, <2>4, WrittenType
  <2>7. /\ w.seq = NextSeq(1) /\ w.content = m.content /\ w.rev = nextRev
        /\ nextRev \in w.known /\ w.branched = D(p).branched
    BY <1>t, WrittenFields
  <2>8. docs' = [docs EXCEPT ![1][p] = d]
    BY <2>1, <1>t DEF SetDoc
  <2> HIDE DEF w
  <2>9. /\ d \in Doc /\ d.seq = NextSeq(1) /\ d.content = m.content /\ d.rev = nextRev
        /\ nextRev \in d.known /\ d.branched = D(p).branched \cup {batch[p]}
    BY <1>t, <2>6, <2>7 DEF Doc
  <2> HIDE DEF d
  <2>10. Moved(p) /\ D(p)' = d
    BY <2>2, <2>8, <2>9, StoredMoves DEF durable
  <2>11. HubTakes(p, m.content, {batch[p]})
    BY <2>1, <2>2, <2>4, <2>5, <2>9, <2>10 DEF HubTakes
  <2> QED
    BY <2>4, <2>11
<1>3. CASE HubBranchTombstone(p)
  <2> DEFINE d == [D(p) EXCEPT !.branched = @ \cup {batch[p]}, !.seq = NextSeq(1)]
  <2>1. /\ docs' = [docs EXCEPT ![1][p] = d]
        /\ pc = "push" /\ p \in todo /\ todo' = todo \ {p} /\ batch[p].op = "delete"
        /\ result' = [result EXCEPT ![p] = D(p).rev]
        /\ UNCHANGED <<durable, pc, batch, gone, lastSeq, cur, got, rec, history>>
    BY <1>3, <1>t DEF HubBranchTombstone, SetDoc, Replied, D
  <2>2. /\ d \in Doc /\ d.seq = NextSeq(1) /\ d.content = D(p).content /\ d.rev = D(p).rev
        /\ d.known = D(p).known /\ d.branched = D(p).branched \cup {batch[p]}
    BY <1>t DEF Doc
  <2> HIDE DEF d
  <2>3. Moved(p) /\ D(p)' = d
    BY <2>1, <2>2, StoredMoves DEF durable
  <2>4. Text(batch[p].body) = {}
    BY <2>1 DEF BatchIsQueue, Text
  <2>5. D(p)'.rev # NoRev => D(p)'.rev \in D(p)'.known
    BY <2>2, <2>3 DEF RevsKnown
  <2>6. HubTakes(p, D(p).content, {batch[p]})
    BY <1>t, <2>1, <2>2, <2>3, <2>4, <2>5 DEF HubTakes, history
  <2> QED
    BY <1>t, <2>6
<1> QED
  BY <1>1, <1>2, <1>3

\* The two ways to answer without one.
LEMMA HubAnswersSteps ==
  ASSUME Sequential, TypeOK, NEW p \in Path, HubNoFile(p) \/ HubBranchAgain(p)
  PROVE  \E rev \in {NoRev, D(p).rev} : HubAnswers(p, rev)
<1>1. CASE HubNoFile(p)
  <2>1. HubAnswers(p, NoRev)
    BY <1>1 DEF HubNoFile, Replied, HubAnswers, hubs
  <2> QED BY <2>1
<1>2. CASE HubBranchAgain(p)
  <2>1. HubAnswers(p, D(p).rev)
    BY <1>2, OneHub DEF HubBranchAgain, Replied, HubAnswers, hubs, D
  <2> QED BY <2>1
<1> QED BY <1>1, <1>2

\* The facts above about the data are preserved by every step.
LEMMA DataInductive ==
  ASSUME Sequential
  PROVE  Spec => []DataInv
<1>1. Init => DataInv
  BY DEF Init, DataInv, RevsKnown, BatchIsQueue, Queued, DeletedIsGone, EditsAreUsed, D, NoDoc,
         NothingPending, NoChange, NoRecord, NoFile, Text, Sequential, Hub
<1>2. TypeOK /\ QueueInv /\ DataInv /\ [Next]_vars => DataInv'
  <2> SUFFICES ASSUME TypeOK, QueueInv, DataInv, [Next]_vars PROVE DataInv'
    OBVIOUS
  <2>t. /\ files \in [Path -> Content] /\ pending \in [Path -> Change]
        /\ batch \in [Path -> Change]
        /\ rec \in Recording /\ (rec.at # "idle" => rec.path \in Path)
        /\ used \subseteq Edit /\ hub = 1
        /\ (pc \in {"fetch", "write", "meta"} => cur \in Path)
        /\ \A p \in Path : D(p).content \in Content /\ files[p] \in Content
    BY Types, OneHub
  <2>d. RevsKnown /\ BatchIsQueue /\ DeletedIsGone /\ EditsAreUsed
    BY DEF DataInv
  <2>r. Recorded /\ PullAfterPush
    BY DEF QueueInv
  <2>a. Text(Absent) = {} /\ Text(NoFile.content) = {} /\ Text(NoRecord.content) = {}
    BY DEF Text, NoFile, NoRecord
  <2>1. CASE Remote
    <3>1. PICK p \in Path, c \in Content, F \in SUBSET Edit : RemoteStep(p, c, F)
      BY <2>1, <2>d, RemoteSteps
    <3>2. /\ UNCHANGED <<files, pending, rec, got, pc, batch, todo, saved>>
          /\ \A q \in Path \ {p} : D(q)' = D(q)
      BY <3>1 DEF RemoteStep, Moved, durable, locals
    <3>3. RevsKnown'
      BY <2>d, <3>1, <3>2 DEF RemoteStep, RevsKnown
    <3>4. EditsAreUsed'
      BY <2>d, <3>1, <3>2 DEF RemoteStep, EditsAreUsed
    <3> QED
      BY <2>d, <3>2, <3>3, <3>4 DEF DataInv, BatchIsQueue, Queued, DeletedIsGone, InRecord
  <2>2. CASE \/ PushFault \/ PullFault \/ AbortSync \/ FetchMissing
             \/ \E p \in Path : HubRefuse(p)
    <3>1. /\ UNCHANGED <<files, pending, rec, docs, saved, used>>
          /\ pc' = "idle" /\ got' = NoFile
      BY <2>2, GiveUpSteps DEF GiveUp, EndSync, durable, hubs, history
    <3> QED
      BY <2>d, <2>a, <3>1 DEF DataInv, RevsKnown, BatchIsQueue, Queued, DeletedIsGone, EditsAreUsed,
                        InRecord, D
  <2>3. ASSUME NEW p \in Path, HubWrite(p) \/ HubBranchEdit(p) \/ HubBranchTombstone(p)
        PROVE  DataInv'
    <3>1. PICK c \in Content, B \in SUBSET {batch[p]} : HubTakes(p, c, B)
      BY <2>3, <2>d, HubTakesSteps
    <3>2. /\ UNCHANGED <<files, pending, rec, got, pc, batch, saved, used>> /\ todo' \subseteq todo
          /\ \A q \in Path \ {p} : D(q)' = D(q)
      BY <3>1 DEF HubTakes, Moved, durable
    <3>3. RevsKnown'
      BY <2>d, <3>1, <3>2 DEF HubTakes, RevsKnown
    <3>4. Text(batch[p].body) \subseteq used
      <4>1. batch[p].body \in {Absent, Text(files[p])} /\ Text(files[p]) \subseteq used
        BY <2>d, <3>1 DEF HubTakes, BatchIsQueue, EditsAreUsed
      <4> QED BY <4>1, <2>a, <2>t, TextOfEdits
    <3>5. Text(c) \subseteq used
      BY <2>d, <3>1, <3>4 DEF HubTakes, EditsAreUsed
    <3>6. EditsAreUsed'
      BY <2>d, <3>1, <3>2, <3>4, <3>5 DEF HubTakes, EditsAreUsed
    <3> QED
      BY <2>d, <3>2, <3>3, <3>6 DEF DataInv, BatchIsQueue, Queued, DeletedIsGone, InRecord
  <2>4. ASSUME NEW p \in Path, HubNoFile(p) \/ HubBranchAgain(p)
        PROVE  DataInv'
    <3>1. /\ UNCHANGED <<files, pending, rec, got, pc, batch, saved, used, docs>>
          /\ todo' \subseteq todo
      BY <2>4, HubAnswersSteps DEF HubAnswers, durable, history
    <3> QED
      BY <2>d, <3>1 DEF DataInv, RevsKnown, BatchIsQueue, Queued, DeletedIsGone, EditsAreUsed,
                        InRecord, D
  <2>5. ASSUME NEW p \in Path, RecordUpsert(p) PROVE DataInv'
    <3>1. PICK e \in Edit \ used :
            /\ used' = used \cup {e}
            /\ rec' = [at |-> "file", path |-> p, op |-> "upsert", base |-> BaseRev(p),
                       content |-> Text(files[p]) \cup {e}]
      BY <2>5 DEF RecordUpsert
    <3>2. rec = NoRecord /\ UNCHANGED <<files, pending, got, pc, batch, todo, saved, docs>>
      BY <2>5 DEF RecordUpsert, MayRecord, durable, locals, hubs
    <3>3. Text(rec'.content) \subseteq used'
      <4>1. Text(files[p]) \cup {e} \in SUBSET Edit
        BY <2>t, TextType
      <4>2. Text(rec'.content) = Text(files[p]) \cup {e}
        BY <3>1, <4>1, TextOfEdits
      <4> QED BY <2>d, <3>1, <4>2 DEF EditsAreUsed
    <3>4. EditsAreUsed'
      BY <2>d, <3>1, <3>2, <3>3 DEF EditsAreUsed, D
    <3> QED
      BY <2>d, <3>1, <3>2, <3>4 DEF DataInv, RevsKnown, BatchIsQueue, Queued, DeletedIsGone,
                                    InRecord, D, NoRecord
  <2>6. ASSUME NEW p \in Path, RecordDelete(p) PROVE DataInv'
    <3>1. /\ rec' = [at |-> "file", path |-> p, op |-> "delete", base |-> BaseRev(p),
                     content |-> Absent]
          /\ rec = NoRecord
          /\ UNCHANGED <<files, pending, got, pc, batch, todo, saved, used, docs>>
      BY <2>6 DEF RecordDelete, MayRecord, durable, locals, hubs
    <3> QED
      BY <2>d, <2>a, <3>1 DEF DataInv, RevsKnown, BatchIsQueue, Queued, DeletedIsGone, EditsAreUsed,
                        InRecord, D, NoRecord
  <2>7. CASE RecordFile
    <3>1. /\ rec.at = "file" /\ files' = [files EXCEPT ![rec.path] = rec.content]
          /\ rec' = [rec EXCEPT !.at = "meta"]
          /\ UNCHANGED <<pending, got, pc, batch, todo, saved, used, docs>>
      BY <2>7 DEF RecordFile, locals, hubs, history
    <3>2. /\ rec'.at = "meta" /\ rec'.path = rec.path /\ rec'.content = rec.content
          /\ rec'.op = rec.op
          /\ rec.path \in Path /\ pc = "idle"
      BY <2>t, <2>r, <3>1 DEF Recording, Recorded, NoRecord
    <3>3. EditsAreUsed'
      BY <2>t, <2>d, <3>1, <3>2 DEF EditsAreUsed, D
    <3>4. DeletedIsGone'
      BY <2>t, <2>d, <3>1, <3>2 DEF DeletedIsGone, InRecord
    <3> QED
      BY <2>d, <3>1, <3>2, <3>3, <3>4 DEF DataInv, RevsKnown, BatchIsQueue, Queued, D
  <2>8. CASE RecordMeta
    <3>1. /\ rec.at = "meta" /\ rec' = [rec EXCEPT !.at = "queue"]
          /\ UNCHANGED <<files, pending, got, pc, batch, todo, saved, used, docs>>
      BY <2>8 DEF RecordMeta, locals, hubs, history
    <3>2. rec'.at = "queue" /\ rec'.path = rec.path /\ rec'.content = rec.content
          /\ rec'.op = rec.op
      BY <2>t, <3>1 DEF Recording
    <3> QED
      BY <2>d, <3>1, <3>2 DEF DataInv, RevsKnown, BatchIsQueue, Queued, DeletedIsGone,
                              EditsAreUsed, InRecord, D
  <2>9. CASE RecordQueue
    <3>1. /\ rec.at = "queue" /\ rec' = NoRecord
          /\ pending' = [pending EXCEPT ![rec.path] =
                           [op |-> rec.op, base |-> rec.base, body |-> Absent]]
          /\ saved' = saved \cup Text(rec.content)
          /\ UNCHANGED <<files, got, pc, batch, used, docs>>
      BY <2>9 DEF RecordQueue, locals, hubs
    <3>2. /\ rec.path \in Path /\ pc = "idle" /\ files[rec.path] = rec.content
      BY <2>t, <2>r, <3>1 DEF Recorded, NoRecord
    <3>3. EditsAreUsed'
      BY <2>a, <2>d, <3>1 DEF EditsAreUsed, D
    <3>4. BatchIsQueue'
      BY <2>t, <2>d, <3>1, <3>2 DEF BatchIsQueue, Queued
    <3>5. rec.op = "delete" => rec.content = Absent
      BY <2>r DEF Recorded
    <3>6. DeletedIsGone'
      BY <2>t, <2>d, <3>1, <3>2, <3>5 DEF DeletedIsGone, InRecord, NoRecord
    <3> QED
      BY <2>d, <3>1, <3>3, <3>4, <3>6 DEF DataInv, RevsKnown, D
  <2>10. CASE LoadPending
    <3>1. /\ batch' = pending /\ pc' \in {"build", "list"}
          /\ UNCHANGED <<files, pending, rec, got, saved, used, docs>>
      BY <2>10 DEF LoadPending, durable, hubs, history
    <3> QED
      BY <2>d, <3>1 DEF DataInv, RevsKnown, BatchIsQueue, Queued, DeletedIsGone, EditsAreUsed,
                        InRecord, D
  <2>11. CASE BuildChanges
    <3>1. /\ batch' = [p \in Path |->
               IF batch[p].op = "upsert"
                 THEN [batch[p] EXCEPT !.body = Text(files[p])] ELSE batch[p]]
          /\ pc = "build" /\ pc' = "push" /\ todo' = {p \in Path : batch[p].op # "none"}
          /\ UNCHANGED <<files, pending, rec, got, saved, used, docs>>
      BY <2>11 DEF BuildChanges, ToPush, durable, hubs, history
    <3>2. ASSUME NEW p \in Path
          PROVE  /\ batch'[p].op = pending[p].op /\ batch'[p].base = pending[p].base
                 /\ batch'[p].body = IF pending[p].op = "upsert" THEN Text(files[p])
                                     ELSE Absent
      <4>1. batch[p] = pending[p] /\ pending[p].body = Absent
        BY <2>d, <3>1 DEF BatchIsQueue
      <4>2. batch[p] \in Change /\ (batch'[p] = IF batch[p].op = "upsert"
                 THEN [batch[p] EXCEPT !.body = Text(files[p])] ELSE batch[p])
        BY <2>t, <3>1
      <4> QED
        BY <4>1, <4>2 DEF Change
    <3> QED
      BY <2>d, <3>1, <3>2 DEF DataInv, RevsKnown, BatchIsQueue, Queued, DeletedIsGone, EditsAreUsed,
                        InRecord, D
  <2>12. CASE \/ Reply \/ UNCHANGED vars \/ \E p \in Path : AdoptRev(p)
    <3>1. /\ UNCHANGED <<files, pending, rec, got, batch, saved, used, docs>>
          /\ (pc' = pc /\ todo' \subseteq todo) \/ (pc = "push" /\ pc' = "adopt")
      BY <2>12 DEF Reply, AdoptRev, durable, locals, hubs, history, vars
    <3> QED
      BY <2>d, <3>1 DEF DataInv, RevsKnown, BatchIsQueue, Queued, DeletedIsGone, EditsAreUsed,
                        InRecord, D
  <2>13. CASE ClearPending
    <3>1. /\ pending' = NothingPending /\ pc' = "list"
          /\ UNCHANGED <<files, rec, got, saved, used, docs>>
      BY <2>13 DEF ClearPending, hubs, history
    <3>2. \A p \in Path : pending'[p].op = "none" /\ pending'[p].body = Absent
      BY <3>1 DEF NothingPending, NoChange
    <3> QED
      BY <2>d, <3>1, <3>2 DEF DataInv, RevsKnown, BatchIsQueue, Queued, DeletedIsGone, EditsAreUsed,
                        InRecord, D
  <2>14. CASE ListChanges \/ \E p \in Path : SkipEntry(p) \/ TakeEntry(p)
    <3>1. /\ UNCHANGED <<files, pending, rec, got, saved, used, docs>>
          /\ pc' \in {"apply", "fetch"}
      BY <2>14 DEF ListChanges, SkipEntry, TakeEntry, durable, hubs, history
    <3> QED
      BY <2>d, <3>1 DEF DataInv, RevsKnown, BatchIsQueue, Queued, DeletedIsGone, EditsAreUsed,
                        InRecord, D
  <2>15. CASE FetchFile
    <3>1. /\ UNCHANGED <<files, pending, rec, saved, used, docs>>
          /\ pc = "fetch" /\ pc' = "write"
          /\ got'.content \in {Absent, D(cur).content}
      BY <2>15, <2>t DEF FetchFile, durable, hubs, history, D, NoFile
    <3>2. Text(got'.content) \subseteq used
      BY <2>a, <2>t, <2>d, <3>1 DEF EditsAreUsed
    <3> QED
      BY <2>d, <3>1, <3>2 DEF DataInv, RevsKnown, BatchIsQueue, Queued, DeletedIsGone, EditsAreUsed,
                        InRecord, D
  <2>16. CASE WriteFile
    <3>1. /\ UNCHANGED <<pending, rec, got, saved, used, docs>>
          /\ pc = "write" /\ pc' = "meta"
          /\ files' = [files EXCEPT ![cur] = got.content]
      BY <2>16 DEF WriteFile, hubs, history
    <3>2. \A p \in Path : pending[p].op = "none"
      BY <2>r, <3>1 DEF PullAfterPush, Queued
    <3>3. EditsAreUsed'
      BY <2>t, <2>d, <3>1 DEF EditsAreUsed, D
    <3> QED
      BY <2>d, <3>1, <3>2, <3>3 DEF DataInv, RevsKnown, BatchIsQueue, Queued, DeletedIsGone, D
  <2>17. CASE WriteMeta \/ SaveCheckpoint
    <3>1. /\ UNCHANGED <<files, pending, rec, saved, used, docs>>
          /\ pc' \in {"apply", "idle"} /\ got' = NoFile
      BY <2>17 DEF WriteMeta, SaveCheckpoint, EndSync, hubs, history
    <3> QED
      BY <2>d, <2>a, <3>1 DEF DataInv, RevsKnown, BatchIsQueue, Queued, DeletedIsGone, EditsAreUsed,
                        InRecord, D
  <2>18. CASE AbortRecord
    <3>1. /\ RecordCrash /\ rec' = NoRecord
          /\ UNCHANGED <<files, pending, got, pc, batch, todo, saved, used, docs>>
      BY <2>18 DEF AbortRecord, durable, locals, hubs, history
    <3> QED
      BY <2>d, <2>a, <3>1 DEF DataInv, RevsKnown, BatchIsQueue, Queued, DeletedIsGone,
                              EditsAreUsed, D
  <2> QED
    BY <2>1, <2>2, <2>3, <2>4, <2>5, <2>6, <2>7, <2>8, <2>9, <2>10, <2>11, <2>12, <2>13,
       <2>14, <2>15, <2>16, <2>17, <2>18
       DEF Next, Record, Push, HubStep, Pull, Fault
<1> QED
  BY <1>1, <1>2, TypeCorrect, QueueInductive, PTL DEF Spec, Sequential

----------------------------------------------------------------------------
(***************************************************************************)
(* A synced file is the hub's.  CheckpointSound speaks of the time between *)
(* syncs; the strengthening follows a path through one:                    *)
(*   - Bases: while the checkpoint covers a document, the only revision of *)
(*     it that the device can know, queue or be told is the winner;        *)
(*   - BodiesAreNew: and no upload of the queued content was branched into *)
(*     it.  Hence a retry that finds its branch in the tree is a retry:    *)
(*     the document has changed since the checkpoint;                      *)
(*   - TakenInStep: so a path the hub has answered for is in step or ahead *)
(*     of the checkpoint when the queue is cleared;                        *)
(*   - PullInStep: what the pull has dealt with is in step with the        *)
(*     listing, which becomes the checkpoint.                              *)
(***************************************************************************)

InStep ==
  \A p \in Path : Covered(p) /\ ~Queued(p) /\ ~InRecord(p) => files[p] = D(p).content

Bases ==
  \A p \in Path :
    Covered(p) =>
      /\ meta[p] \in {NoMeta, NoRev, D(p).rev}
      /\ Queued(p) => pending[p].base \in {NoRev, D(p).rev}
      /\ result[p] \in {NoRev, D(p).rev}
      /\ rec.path = p => rec.base \in {NoRev, D(p).rev}

BodiesAreNew ==
  /\ \A p \in Path :
       Covered(p) /\ pending[p].op = "upsert" /\ ~InRecord(p) =>
         \A ch \in D(p).branched : ch.op = "upsert" => ch.body # Text(files[p])
  /\ rec.op = "upsert" =>
       \A ch \in D(rec.path).branched : ch.op = "upsert" => ch.body # rec.content

TakenInStep == \A p \in Path : Taken(p) /\ Covered(p) => files[p] = D(p).content

PullInStep ==
  Pulling =>
    /\ \A p \in todo : ~Covered(p)
    /\ \A p \in Path \ todo :
         D(p).seq <= lastSeq =>
           files[p] = D(p).content /\ meta[p] \in {NoMeta, NoRev, D(p).rev}
    /\ \A p \in gone : D(p).seq <= lastSeq => D(p).content = Absent
    /\ pc \in {"write", "meta"} /\ D(cur).seq <= lastSeq =>
         got.content = D(cur).content /\ got.rev \in {NoMeta, D(cur).rev}
    /\ pc = "meta" => files[cur] = got.content

SoundInv == InStep /\ Bases /\ BodiesAreNew /\ TakenInStep /\ PullInStep

\* A retry that finds its branch in the tree belongs to a document that has changed
\* since the checkpoint.
LEMMA AgainIsAhead ==
  ASSUME Sequential, TypeOK, QueueInv, DataInv, SoundInv, NEW p \in Path, HubBranchAgain(p)
  PROVE  ~Covered(p)
<1> SUFFICES ASSUME Covered(p) PROVE FALSE
  OBVIOUS
<1>1. /\ pc = "push" /\ Stale(D(p), batch[p]) /\ Live(D(p))
      /\ batch[p] \in D(p).branched
  BY OneHub DEF HubBranchAgain, D
<1>2. rec = NoRecord /\ ~InRecord(p)
  BY <1>1 DEF QueueInv, Recorded, InRecord, NoRecord
<1>3. /\ batch[p].op = pending[p].op /\ batch[p].base = pending[p].base
      /\ (pending[p].op = "upsert" => batch[p].body = Text(files[p]))
  BY <1>1 DEF DataInv, BatchIsQueue
<1>4. batch[p] \in Change
  BY Types
<1>5. CASE batch[p].op = "upsert"
  BY <1>1, <1>2, <1>3, <1>5 DEF SoundInv, BodiesAreNew
<1>6. CASE batch[p].op = "delete"
  <2>1. batch[p].base \in {NoRev, D(p).rev}
    BY <1>3, <1>6 DEF SoundInv, Bases, Queued
  <2> QED
    BY <1>1, <1>6, <2>1 DEF Stale, Blind, CasHolds
<1>7. CASE batch[p].op = "none"
  <2>1. p \in todo /\ p \in ToPush
    BY <1>1, <1>3 DEF HubBranchAgain, DataInv, BatchIsQueue, Queued, ToPush
  <2> QED
    BY <1>7, <2>1 DEF ToPush
<1> QED
  BY <1>4, <1>5, <1>6, <1>7 DEF Change

LEMMA SoundInductive ==
  ASSUME Sequential, ~RecordCrash
  PROVE  Spec => []SoundInv
<1>1. Init => SoundInv
  <2> SUFFICES ASSUME Init PROVE SoundInv
    OBVIOUS
  <2>1. \A p \in Path : D(p).content = Absent /\ files[p] = Absent /\ meta[p] = NoMeta
    BY DEF Init, D, NoDoc, Sequential, Hub
  <2>2. pc = "idle" /\ \A p \in Path : ~Queued(p) /\ pending[p].op = "none" /\ result[p] = NoRev
    BY DEF Init, Queued, NothingPending, NoChange, NoResult
  <2>3. rec.at = "idle" /\ rec.op = "none" /\ rec.base = NoRev
    BY DEF Init, NoRecord
  <2> QED
    BY <2>1, <2>2, <2>3 DEF SoundInv, InStep, Bases, BodiesAreNew, TakenInStep, PullInStep,
                            Pulling, Taken
<1>2. /\ TypeOK /\ QueueInv /\ DurableInv /\ DataInv /\ SoundInv /\ [Next]_vars
      => SoundInv'
  <2> SUFFICES ASSUME TypeOK, QueueInv, DurableInv, DataInv, SoundInv, [Next]_vars
               PROVE  SoundInv'
    OBVIOUS
  <2>t. /\ files \in [Path -> Content] /\ meta \in [Path -> Rev \cup {NoMeta}]
        /\ pending \in [Path -> Change] /\ batch \in [Path -> Change]
        /\ result \in [Path -> Rev] /\ todo \subseteq Path /\ gone \subseteq Path
        /\ rec \in Recording /\ (rec.at # "idle" => rec.path \in Path)
        /\ hub = 1 /\ checkpoint \in [Hub -> Nat] /\ 1 \in Hub
        /\ checkpoint[1] \in Nat /\ lastSeq \in Nat
        /\ (pc \in {"fetch", "write", "meta"} => cur \in todo)
        /\ \A p \in Path : D(p).seq \in Nat
    BY Types, OneHub
  <2>q. /\ rec # NoRecord => pc = "idle"
        /\ pc \in {"list", "apply", "fetch", "write", "meta"} => \A p \in Path : ~Queued(p)
    BY DEF QueueInv, Recorded, PullAfterPush
  <2>i. InStep /\ Bases /\ BodiesAreNew /\ TakenInStep /\ PullInStep
    BY DEF SoundInv
  <2>n. /\ NoRecord.at = "idle" /\ NoRecord.op = "none" /\ NoRecord.path \notin Path
        /\ NoRecord.base = NoRev /\ \A p \in Path : NoResult[p] = NoRev
    BY ConstantsAssumption DEF NoRecord, NoResult
  <2>s. ~Overlap
    BY DEF Sequential
  <2>1. CASE Remote
    <3>1. PICK p \in Path, c \in Content, F \in SUBSET Edit : RemoteStep(p, c, F)
      BY <2>1, RemoteSteps DEF DataInv
    <3>2. /\ UNCHANGED <<files, meta, pending, checkpoint, rec, pc, todo, result, gone, lastSeq,
                         cur, got>>
          /\ \A q \in Path \ {p} : D(q)' = D(q)
          /\ D(p)'.branched = D(p).branched
      BY <3>1 DEF RemoteStep, Moved, durable, locals
    <3>3. /\ ~Covered(p)' /\ (Pulling => ~(D(p)'.seq <= lastSeq))
          /\ \A q \in Path \ {p} : Covered(q)' <=> Covered(q)
      BY <3>1, MovedUncovered DEF RemoteStep
    <3>4. InStep' /\ Bases' /\ TakenInStep'
      BY <2>i, <3>2, <3>3 DEF InStep, Bases, TakenInStep, Taken, Queued, InRecord
    <3>5. BodiesAreNew'
      <4>1. \A q \in Path : D(q)'.branched = D(q).branched
        BY <3>2
      <4>2. ASSUME rec.op = "upsert" PROVE D(rec.path)'.branched = D(rec.path).branched
        <5>1. rec.path \in Path
          BY <2>t, <2>n, <4>2 DEF QueueInv, Recorded
        <5> QED BY <3>2, <4>1, <5>1 DEF D
      <4> QED
        BY <2>i, <3>2, <3>3, <4>1, <4>2 DEF BodiesAreNew, InRecord
    <3>6. PullInStep'
      <4>1. Pulling' <=> Pulling
        BY <3>2 DEF Pulling
      <4>2. Pulling => gone \subseteq Path /\ (pc \in {"write", "meta"} => cur \in Path)
        BY <2>t
      <4> QED
        BY <2>i, <2>t, <3>2, <3>3, <4>1, <4>2 DEF PullInStep
    <3> QED
      BY <3>4, <3>5, <3>6 DEF SoundInv
  <2>2. CASE \/ PushFault \/ PullFault \/ AbortSync \/ FetchMissing
             \/ \E p \in Path : HubRefuse(p)
    <3>1. /\ UNCHANGED <<files, meta, pending, checkpoint, rec, docs>>
          /\ pc' = "idle" /\ result' = NoResult
      BY <2>2, GiveUpSteps DEF GiveUp, EndSync, durable, hubs
    <3>2. ~Pulling' /\ \A p \in Path : ~Taken(p)' /\ result'[p] = NoRev
      BY <2>n, <3>1 DEF Pulling, Taken
    <3> QED
      BY <2>i, <3>1, <3>2 DEF SoundInv, InStep, Bases, BodiesAreNew, TakenInStep, PullInStep,
                              Covered, InRecord, Queued, D
  <2>3. ASSUME NEW p \in Path, HubWrite(p) \/ HubBranchEdit(p) \/ HubBranchTombstone(p)
        PROVE  SoundInv'
    <3>1. PICK c \in Content, B \in SUBSET {batch[p]} : HubTakes(p, c, B)
      BY <2>3, HubTakesSteps DEF DataInv
    <3>2. /\ UNCHANGED <<files, meta, pending, checkpoint, rec, pc, lastSeq>>
          /\ pc = "push" /\ todo' = todo \ {p}
          /\ result' = [result EXCEPT ![p] = D(p)'.rev]
          /\ \A q \in Path \ {p} : D(q)' = D(q)
      BY <3>1 DEF HubTakes, Moved, durable
    <3>3. ~Covered(p)' /\ \A q \in Path \ {p} : Covered(q)' <=> Covered(q)
      BY <3>1, MovedUncovered DEF HubTakes
    <3>4. rec.op # "upsert"
      BY <2>q, <2>n, <3>2
    <3>5. InStep' /\ Bases'
      BY <2>i, <2>t, <3>2, <3>3 DEF InStep, Bases, Queued, InRecord
    <3>6. BodiesAreNew' /\ TakenInStep'
      BY <2>i, <3>2, <3>3, <3>4 DEF BodiesAreNew, TakenInStep, Taken, Queued, InRecord
    <3> QED
      BY <3>2, <3>5, <3>6 DEF SoundInv, PullInStep, Pulling
  <2>4. ASSUME NEW p \in Path, HubNoFile(p) \/ HubBranchAgain(p)
        PROVE  SoundInv'
    <3>1. PICK rev \in {NoRev, D(p).rev} : HubAnswers(p, rev)
      BY <2>4, HubAnswersSteps
    <3>2. /\ UNCHANGED <<files, meta, pending, checkpoint, rec, pc, docs>>
          /\ pc = "push" /\ todo' = todo \ {p} /\ p \in todo
          /\ result' = [result EXCEPT ![p] = rev]
      BY <3>1 DEF HubAnswers, durable
    <3>3. Covered(p) => files[p] = D(p).content
      <4>1. CASE HubBranchAgain(p)
        BY <4>1, AgainIsAhead
      <4>2. CASE HubNoFile(p)
        <5>1. pending[p].op = "delete" /\ D(p).content = Absent
          BY <4>2, <2>t DEF HubNoFile, Blind, Live, D, DataInv, BatchIsQueue
        <5>2. ~InRecord(p)
          BY <2>q, <2>n, <3>2 DEF InRecord
        <5> QED
          BY <5>1, <5>2 DEF DataInv, DeletedIsGone
      <4> QED BY <2>4, <4>1, <4>2
    <3>4. \A q \in Path : Covered(q)' <=> Covered(q)
      BY <3>2 DEF Covered, D
    <3>5. Bases'
      BY <2>i, <2>t, <3>2, <3>4 DEF Bases, Queued, D
    <3>6. TakenInStep'
      BY <2>i, <2>t, <3>2, <3>3, <3>4 DEF TakenInStep, Taken, Queued, D
    <3>7. InStep' /\ BodiesAreNew'
      BY <2>i, <3>2, <3>4 DEF InStep, BodiesAreNew, Queued, InRecord, D
    <3> QED
      BY <3>2, <3>5, <3>6, <3>7 DEF SoundInv, PullInStep, Pulling
  <2>5. ASSUME NEW p \in Path, RecordUpsert(p) PROVE SoundInv'
    <3>1. PICK e \in Edit \ used :
            rec' = [at |-> "file", path |-> p, op |-> "upsert", base |-> BaseRev(p),
                    content |-> Text(files[p]) \cup {e}]
      BY <2>5 DEF RecordUpsert
    <3>2. /\ rec = NoRecord /\ pc = "idle"
          /\ UNCHANGED <<files, meta, pending, checkpoint, pc, result, docs>>
      BY <2>5, <2>s DEF RecordUpsert, MayRecord, durable, locals, hubs
    <3>3. /\ \A q \in Path : ~InRecord(q) /\ ~InRecord(q)'
          /\ \A q \in Path : ~Taken(q)' /\ (Covered(q)' <=> Covered(q))
          /\ ~Pulling'
      BY <2>n, <3>1, <3>2 DEF InRecord, Taken, Pulling, Covered, D
    <3>4. Covered(p) => BaseRev(p) \in {NoRev, D(p).rev}
      BY <2>i DEF Bases, BaseRev
    <3>5. ASSUME NEW ch \in D(p).branched, ch.body = Text(files[p]) \cup {e} PROVE FALSE
      <4>1. Text(files[p]) \cup {e} \in SUBSET Edit
        BY <2>t, TextType
      <4>2. Text(ch.body) = Text(files[p]) \cup {e}
        BY <3>5, <4>1, TextOfEdits
      <4> QED
        BY <4>2 DEF DataInv, EditsAreUsed
    <3>6. InStep' /\ Bases' /\ TakenInStep' /\ PullInStep'
      BY <2>i, <3>1, <3>2, <3>3, <3>4
         DEF InStep, Bases, TakenInStep, PullInStep, Queued, D
    <3>7. BodiesAreNew'
      BY <2>i, <3>1, <3>2, <3>3, <3>5 DEF BodiesAreNew, D
    <3> QED
      BY <3>6, <3>7 DEF SoundInv
  <2>6. ASSUME NEW p \in Path, RecordDelete(p) PROVE SoundInv'
    <3>1. rec' = [at |-> "file", path |-> p, op |-> "delete", base |-> BaseRev(p),
                  content |-> Absent]
      BY <2>6 DEF RecordDelete
    <3>2. /\ rec = NoRecord /\ pc = "idle"
          /\ UNCHANGED <<files, meta, pending, checkpoint, pc, result, docs>>
      BY <2>6, <2>s DEF RecordDelete, MayRecord, durable, locals, hubs
    <3>3. /\ \A q \in Path : ~InRecord(q) /\ ~InRecord(q)'
          /\ \A q \in Path : ~Taken(q)' /\ (Covered(q)' <=> Covered(q))
          /\ ~Pulling'
      BY <2>n, <3>1, <3>2 DEF InRecord, Taken, Pulling, Covered, D
    <3>4. Covered(p) => BaseRev(p) \in {NoRev, D(p).rev}
      BY <2>i DEF Bases, BaseRev
    <3>5. InStep' /\ Bases' /\ TakenInStep' /\ PullInStep'
      BY <2>i, <3>1, <3>2, <3>3, <3>4
         DEF InStep, Bases, TakenInStep, PullInStep, Queued, D
    <3>6. BodiesAreNew'
      BY <2>i, <3>1, <3>2, <3>3 DEF BodiesAreNew, D
    <3> QED
      BY <3>5, <3>6 DEF SoundInv
  <2>7. CASE RecordFile \/ RecordMeta
    <3>1. /\ rec.at \in {"file", "meta"}
          /\ \/ files' = [files EXCEPT ![rec.path] = rec.content]
                  /\ meta' = meta /\ rec.at = "file" /\ rec' = [rec EXCEPT !.at = "meta"]
             \/ /\ meta' = [meta EXCEPT ![rec.path] =
                              IF rec.op = "upsert" THEN rec.base ELSE NoMeta]
                /\ files' = files /\ rec.at = "meta" /\ rec' = [rec EXCEPT !.at = "queue"]
          /\ UNCHANGED <<pending, checkpoint, pc, result, docs>>
      BY <2>7 DEF RecordFile, RecordMeta, locals, hubs
    <3>2. /\ rec'.at \in {"meta", "queue"} /\ rec'.path = rec.path /\ rec'.op = rec.op
          /\ rec'.content = rec.content /\ rec'.base = rec.base
          /\ rec.path \in Path /\ pc = "idle"
      BY <2>t, <2>q, <2>n, <3>1 DEF Recording
    <3>3. /\ \A q \in Path : ~InRecord(q)' => q # rec.path /\ ~InRecord(q)
          /\ \A q \in Path : ~Taken(q)' /\ (Covered(q)' <=> Covered(q))
          /\ ~Pulling'
      BY <3>1, <3>2 DEF InRecord, Taken, Pulling, Covered, D
    <3>4. \A q \in Path \ {rec.path} : files'[q] = files[q] /\ meta'[q] = meta[q]
      BY <2>t, <3>1
    <3>5. InStep' /\ TakenInStep' /\ PullInStep'
      BY <2>i, <3>1, <3>3, <3>4 DEF InStep, TakenInStep, PullInStep, Queued, D
    <3>6. Bases'
      <4> SUFFICES ASSUME NEW q \in Path, Covered(q)
                   PROVE  /\ meta'[q] \in {NoMeta, NoRev, D(q).rev}
                          /\ Queued(q) => pending[q].base \in {NoRev, D(q).rev}
                          /\ result[q] \in {NoRev, D(q).rev}
                          /\ rec.path = q => rec.base \in {NoRev, D(q).rev}
        BY <3>1, <3>2, <3>3 DEF Bases, Queued, D
      <4>1. /\ meta[q] \in {NoMeta, NoRev, D(q).rev}
            /\ Queued(q) => pending[q].base \in {NoRev, D(q).rev}
            /\ result[q] \in {NoRev, D(q).rev}
            /\ rec.path = q => rec.base \in {NoRev, D(q).rev}
        BY <2>i DEF Bases
      <4>2. meta'[q] \in {meta[q], NoMeta} \/ (rec.path = q /\ meta'[q] = rec.base)
        BY <2>t, <3>1, <3>4
      <4> QED BY <4>1, <4>2
    <3>7. BodiesAreNew'
      BY <2>i, <3>1, <3>2, <3>3, <3>4 DEF BodiesAreNew, D
    <3> QED
      BY <3>5, <3>6, <3>7 DEF SoundInv
  <2>8. CASE RecordQueue
    <3>1. /\ rec.at = "queue" /\ rec' = NoRecord
          /\ pending' = [pending EXCEPT ![rec.path] =
                           [op |-> rec.op, base |-> rec.base, body |-> Absent]]
          /\ UNCHANGED <<files, meta, checkpoint, pc, result, docs>>
      BY <2>8 DEF RecordQueue, locals, hubs
    <3>2. /\ rec.path \in Path /\ pc = "idle" /\ rec.op # "none"
          /\ files[rec.path] = rec.content
          /\ (rec.op = "upsert" => Text(rec.content) = rec.content)
      BY <2>t, <2>q, <2>n, <3>1 DEF QueueInv, Recorded, Text
    <3>3. /\ \A q \in Path \ {rec.path} : pending'[q] = pending[q] /\ ~InRecord(q)
          /\ pending'[rec.path].op = rec.op /\ pending'[rec.path].base = rec.base
      BY <2>t, <3>1, <3>2 DEF InRecord
    <3>4. /\ \A q \in Path : ~Taken(q)' /\ (Covered(q)' <=> Covered(q)) /\ ~InRecord(q)'
          /\ ~Pulling'
      BY <2>n, <3>1, <3>2 DEF Taken, Pulling, Covered, D, InRecord
    <3>5. InStep' /\ TakenInStep' /\ PullInStep'
      BY <2>i, <3>1, <3>2, <3>3, <3>4 DEF InStep, TakenInStep, PullInStep, Queued, D
    <3>6. Bases'
      BY <2>i, <2>n, <3>1, <3>2, <3>3, <3>4 DEF Bases, Queued, D
    <3>7. BodiesAreNew'
      BY <2>i, <2>n, <3>1, <3>2, <3>3, <3>4 DEF BodiesAreNew, D
    <3> QED
      BY <3>5, <3>6, <3>7 DEF SoundInv
  <2>9. CASE \/ LoadPending \/ BuildChanges \/ Reply \/ UNCHANGED vars
             \/ \E p \in Path : AdoptRev(p)
    <3>1. UNCHANGED <<files, pending, checkpoint, rec, result, docs>>
      BY <2>9 DEF LoadPending, BuildChanges, Reply, AdoptRev, vars, durable, locals, hubs
    <3>2. \A q \in Path : /\ Covered(q)' <=> Covered(q)
                          /\ InRecord(q)' <=> InRecord(q)
                          /\ Queued(q)' <=> Queued(q)
      BY <3>1 DEF Covered, InRecord, Queued, D
    <3>3. InStep' /\ BodiesAreNew'
      BY <2>i, <3>1, <3>2 DEF InStep, BodiesAreNew, D
    <3>4. Bases'
      <4>1. \A q \in Path : meta'[q] = meta[q] \/ meta'[q] = result[q]
        BY <2>9, <2>t DEF LoadPending, BuildChanges, Reply, AdoptRev, vars, durable
      <4> QED
        BY <2>i, <3>1, <3>2, <4>1 DEF Bases, D
    <3>5. TakenInStep'
      <4>1. ASSUME NEW q \in Path, Taken(q)' PROVE Taken(q)
        <5>1. CASE LoadPending
          BY <4>1, <5>1 DEF LoadPending, Taken
        <5>2. CASE BuildChanges
          BY <4>1, <5>2, <3>1 DEF BuildChanges, ToPush, Taken, Queued, DataInv, BatchIsQueue
        <5>3. CASE Reply
          BY <4>1, <5>3, <3>2 DEF Reply, Taken
        <5>4. CASE \E p \in Path : AdoptRev(p)
          BY <4>1, <5>4, <3>2 DEF AdoptRev, Taken
        <5>5. CASE UNCHANGED vars
          BY <4>1, <5>5, <3>2 DEF vars, locals, Taken
        <5> QED BY <2>9, <5>1, <5>2, <5>3, <5>4, <5>5
      <4> QED
        BY <2>i, <3>1, <3>2, <4>1 DEF TakenInStep, D
    <3>6. PullInStep'
      <4>1. CASE UNCHANGED vars
        <5>1. UNCHANGED <<files, meta, checkpoint, docs, pc, todo, gone, lastSeq, cur, got>>
          BY <4>1 DEF vars, durable, locals, hubs
        <5>2. PullInStep <=> PullInStep'
          BY <5>1 DEF PullInStep, Pulling, Covered, D
        <5> QED BY <2>i, <5>2
      <4>2. CASE ~UNCHANGED vars
        <5>1. ~Pulling'
          BY <2>9, <4>2 DEF LoadPending, BuildChanges, Reply, AdoptRev, Pulling
        <5> QED BY <5>1 DEF PullInStep
      <4> QED BY <4>1, <4>2
    <3> QED
      BY <3>3, <3>4, <3>5, <3>6 DEF SoundInv
  <2>10. CASE ClearPending
    <3>1. /\ pc = "adopt" /\ todo = {} /\ pending' = NothingPending /\ pc' = "list"
          /\ result' = NoResult
          /\ UNCHANGED <<files, meta, checkpoint, rec, docs>>
      BY <2>10 DEF ClearPending, hubs
    <3>2. /\ \A q \in Path : /\ Covered(q)' <=> Covered(q)
                             /\ pending'[q].op = "none" /\ ~Queued(q)' /\ ~Taken(q)'
                             /\ ~InRecord(q) /\ ~InRecord(q)'
                             /\ Queued(q) => Taken(q)
          /\ ~Pulling' /\ rec = NoRecord
      BY <2>q, <2>n, <3>1 DEF Covered, D, NothingPending, NoChange, Queued, Taken, InRecord, Pulling
    <3>3. InStep'
      BY <2>i, <3>1, <3>2 DEF InStep, TakenInStep, D
    <3>4. Bases' /\ BodiesAreNew'
      BY <2>i, <2>n, <3>1, <3>2 DEF Bases, BodiesAreNew, D
    <3> QED
      BY <3>2, <3>3, <3>4 DEF SoundInv, TakenInStep, PullInStep
  \* What the steps of a pull have in common.
  <2>p. ASSUME pc \in {"list", "apply", "fetch", "write", "meta"},
               UNCHANGED <<pending, checkpoint, rec, result, docs>>,
               pc' \in {"apply", "fetch", "write", "meta"}
        PROVE  /\ rec = NoRecord
               /\ \A q \in Path : /\ ~Queued(q) /\ ~Queued(q)' /\ ~InRecord(q) /\ ~InRecord(q)'
                                  /\ Covered(q)' <=> Covered(q)
               /\ BodiesAreNew' /\ TakenInStep'
    <3>1. rec = NoRecord /\ \A q \in Path : ~Queued(q)
      BY <2>p, <2>q
    <3>2. \A q \in Path : /\ ~Queued(q)' /\ ~InRecord(q) /\ ~InRecord(q)'
                          /\ Covered(q)' <=> Covered(q)
                          /\ ~Taken(q)' /\ pending'[q].op = "none"
      BY <2>p, <2>n, <3>1 DEF Queued, InRecord, Covered, Taken, D
    <3> QED
      BY <2>p, <2>n, <3>1, <3>2 DEF BodiesAreNew, TakenInStep
  <2>11. CASE ListChanges
    <3>1. /\ pc = "list" /\ pc' = "apply"
          /\ todo' = {p \in Path : D(p).seq > checkpoint[1]}
          /\ gone' = {p \in todo' : D(p).content = Absent}
          /\ lastSeq' = hubSeq[1]
          /\ UNCHANGED <<files, meta, pending, checkpoint, rec, result, docs>>
      BY <2>11, <2>t DEF ListChanges, ChangedSince, Live, D, durable, hubs
    <3>2. /\ \A q \in Path : ~Queued(q) /\ ~InRecord(q) /\ (Covered(q)' <=> Covered(q))
          /\ BodiesAreNew' /\ TakenInStep'
      BY <3>1, <2>p
    <3>3. InStep' /\ Bases'
      BY <2>i, <3>1, <3>2 DEF InStep, Bases, Queued, InRecord, D
    <3>4. \A q \in todo' : ~Covered(q)'
      BY <2>t, <3>1, <3>2 DEF Covered
    <3>5. \A q \in Path \ todo' :
             files[q] = D(q).content /\ meta[q] \in {NoMeta, NoRev, D(q).rev}
      <4> SUFFICES ASSUME NEW q \in Path \ todo'
                   PROVE  files[q] = D(q).content /\ meta[q] \in {NoMeta, NoRev, D(q).rev}
        OBVIOUS
      <4>1. Covered(q)
        BY <2>t, <3>1 DEF Covered
      <4> QED BY <4>1, <2>i, <3>2 DEF InStep, Bases
    <3>6. PullInStep'
      BY <3>1, <3>4, <3>5 DEF PullInStep, D
    <3> QED
      BY <3>2, <3>3, <3>6 DEF SoundInv
  <2>12. ASSUME NEW p \in Path, SkipEntry(p) PROVE FALSE
    BY <2>12, <2>q DEF SkipEntry
  <2>13. ASSUME NEW p \in Path, TakeEntry(p) PROVE SoundInv'
    <3>1. /\ pc = "apply" /\ pc' = "fetch"
          /\ UNCHANGED <<files, meta, pending, checkpoint, rec, result, docs, todo, gone, lastSeq>>
      BY <2>13 DEF TakeEntry, durable, hubs
    <3>2. /\ \A q \in Path : ~Queued(q) /\ ~InRecord(q) /\ (Covered(q)' <=> Covered(q))
          /\ BodiesAreNew' /\ TakenInStep'
      BY <3>1, <2>p
    <3>3. InStep' /\ Bases'
      BY <2>i, <3>1, <3>2 DEF InStep, Bases, Queued, InRecord, D
    <3>4. PullInStep'
      BY <2>i, <2>t, <3>1, <3>2 DEF PullInStep, Pulling, D
    <3> QED
      BY <3>2, <3>3, <3>4 DEF SoundInv
  <2>14. CASE FetchFile
    <3>1. /\ pc = "fetch" /\ pc' = "write" /\ cur \in todo
          /\ \/ cur \in gone /\ got'.content = Absent /\ got'.rev = NoMeta
             \/ got'.content = D(cur).content /\ got'.rev = D(cur).rev
          /\ UNCHANGED <<files, meta, pending, checkpoint, rec, result, docs, todo, gone,
                         lastSeq, cur>>
      BY <2>14, <2>t DEF FetchFile, D, NoFile, durable, hubs
    <3>2. /\ \A q \in Path : ~Queued(q) /\ ~InRecord(q) /\ (Covered(q)' <=> Covered(q))
          /\ BodiesAreNew' /\ TakenInStep'
      BY <3>1, <2>p
    <3>3. InStep' /\ Bases'
      BY <2>i, <3>1, <3>2 DEF InStep, Bases, Queued, InRecord, D
    <3>4. PullInStep'
      BY <2>i, <2>t, <3>1, <3>2 DEF PullInStep, Pulling, D
    <3> QED
      BY <3>2, <3>3, <3>4 DEF SoundInv
  <2>15. CASE WriteFile
    <3>1. /\ pc = "write" /\ pc' = "meta" /\ cur \in todo /\ cur \in Path
          /\ files' = [files EXCEPT ![cur] = got.content]
          /\ UNCHANGED <<meta, pending, checkpoint, rec, result, docs, todo, gone,
                         lastSeq, cur, got>>
      BY <2>15, <2>t DEF WriteFile, hubs
    <3>2. /\ \A q \in Path : ~Queued(q) /\ ~InRecord(q) /\ (Covered(q)' <=> Covered(q))
          /\ BodiesAreNew' /\ TakenInStep'
      BY <3>1, <2>p
    <3>3. files'[cur] = got.content /\ \A q \in Path \ {cur} : files'[q] = files[q]
      BY <2>t, <3>1
    <3>4. ~Covered(cur)
      BY <2>i, <3>1 DEF PullInStep, Pulling
    <3>5. InStep' /\ Bases'
      BY <2>i, <3>1, <3>2, <3>3, <3>4 DEF InStep, Bases, Queued, InRecord, D
    <3>6. PullInStep'
      BY <2>i, <2>t, <3>1, <3>2, <3>3 DEF PullInStep, Pulling, D
    <3> QED
      BY <3>2, <3>5, <3>6 DEF SoundInv
  <2>16. CASE WriteMeta
    <3>1. /\ pc = "meta" /\ pc' = "apply" /\ cur \in todo /\ cur \in Path
          /\ todo' = todo \ {cur}
          /\ meta' = [meta EXCEPT ![cur] = got.rev]
          /\ UNCHANGED <<files, pending, checkpoint, rec, result, docs, gone, lastSeq>>
      BY <2>16, <2>t DEF WriteMeta, hubs
    <3>2. /\ \A q \in Path : ~Queued(q) /\ ~InRecord(q) /\ (Covered(q)' <=> Covered(q))
          /\ BodiesAreNew' /\ TakenInStep'
      BY <3>1, <2>p
    <3>3. meta'[cur] = got.rev /\ \A q \in Path \ {cur} : meta'[q] = meta[q]
      BY <2>t, <3>1
    <3>4. ~Covered(cur)
      BY <2>i, <3>1 DEF PullInStep, Pulling
    <3>5. InStep' /\ Bases'
      BY <2>i, <3>1, <3>2, <3>3, <3>4 DEF InStep, Bases, Queued, InRecord, D
    <3>6. PullInStep'
      BY <2>i, <2>t, <3>1, <3>2, <3>3 DEF PullInStep, Pulling, D
    <3> QED
      BY <3>2, <3>5, <3>6 DEF SoundInv
  <2>17. CASE SaveCheckpoint
    <3>1. /\ pc = "apply" /\ pc' = "idle" /\ todo = {} /\ checkpoint'[1] = lastSeq
          /\ result' = NoResult
          /\ UNCHANGED <<files, meta, pending, rec, docs>>
      BY <2>17, <2>t DEF SaveCheckpoint, EndSync, hubs
    <3>2. rec = NoRecord /\ \A q \in Path : ~Queued(q) /\ pending[q].op = "none"
      BY <2>q, <3>1 DEF Queued
    <3>3. \A q \in Path : /\ ~Queued(q)' /\ ~InRecord(q)' /\ ~Taken(q)'
                          /\ Covered(q)' <=> D(q).seq <= lastSeq
      BY <2>n, <3>1, <3>2 DEF Queued, InRecord, Taken, Covered, D
    <3>4. \A q \in Path : D(q).seq <= lastSeq =>
             files[q] = D(q).content /\ meta[q] \in {NoMeta, NoRev, D(q).rev}
      BY <2>i, <3>1 DEF PullInStep, Pulling
    <3>5. InStep' /\ Bases'
      BY <2>n, <3>1, <3>2, <3>3, <3>4 DEF InStep, Bases, D
    <3>6. BodiesAreNew' /\ TakenInStep' /\ PullInStep'
      BY <2>n, <3>1, <3>2, <3>3 DEF BodiesAreNew, TakenInStep, PullInStep, Pulling
    <3> QED
      BY <3>5, <3>6 DEF SoundInv
  <2>18. ~AbortRecord
    BY DEF AbortRecord
  <2> QED
    BY <2>1, <2>2, <2>3, <2>4, <2>5, <2>6, <2>7, <2>8, <2>9, <2>10, <2>11, <2>12, <2>13,
       <2>14, <2>15, <2>16, <2>17, <2>18
       DEF Next, Record, Push, HubStep, Pull, Fault
<1> QED
  BY <1>1, <1>2, TypeCorrect, QueueInductive, DurableInductive, DataInductive, PTL
     DEF Spec, Sequential

\* Pulling converges on the hub's view: between two syncs, a file with nothing queued
\* whose document the stored checkpoint covers is exactly the hub's, whatever pushes and
\* pulls failed, were cut off or repeated before (push, pull_from).
THEOREM SyncedFilesAreTheHubs ==
  ASSUME NHubs = 1, ~Overlap, ~RecordCrash
  PROVE  Spec => []CheckpointSound
<1>1. Sequential
  BY DEF Sequential
<1>2. SoundInv => CheckpointSound
  <2>1. Hub = {1}
    BY DEF Hub
  <2> QED
    BY <2>1 DEF SoundInv, InStep, CheckpointSound, Covered, InRecord, NoRecord, D
<1> QED
  BY <1>1, <1>2, SoundInductive, PTL

----------------------------------------------------------------------------
(***************************************************************************)
(* No recorded edit is lost.  The hub may drop the document's content in   *)
(* favour of the pushed one, so what it holds of the recorded edits must   *)
(* be in the file that is pushed, or laid aside (HubHolds), and in neither *)
(* if a delete is pushed (DeletedKept); a pull may overwrite that file, so *)
(* it must not have fetched less (PullKeeps); and when the queue is        *)
(* cleared the hub must have every queued content (TakenKept), also if it  *)
(* took it in an earlier attempt (BranchesKept).  An edit belongs to one   *)
(* file (Apart), and a record that is cut off leaves in it an edit that no *)
(* one else has seen (Unsent).                                             *)
(***************************************************************************)

\* Every place that holds edits of a path.
Held(p) ==
  Text(files[p]) \cup Text(D(p).content)
    \cup (IF rec.path = p THEN Text(rec.content) ELSE {})
    \cup (IF pc \in {"write", "meta"} /\ cur = p THEN Text(got.content) ELSE {})

Apart == \A p, q \in Path : p # q => Held(p) \cap Held(q) = {}

HubHolds ==
  \A p \in Path : Text(D(p).content) \cap saved \subseteq LaidAside \cup Text(files[p])

\* An edit that was not recorded to the end and has never been pushed.
Unsent(e, p) ==
  /\ e \notin saved /\ e \notin Text(D(p).content)
  /\ \A ch \in D(p).branched : e \notin Text(ch.body)

RecordKeeps ==
  rec.at = "file" =>
    /\ Text(files[rec.path]) \subseteq Text(rec.content) \cup retired
    /\ \A e \in Text(rec.content) \ Text(files[rec.path]) : Unsent(e, rec.path)

DeletedKept ==
  \A p \in Path :
    pending[p].op = "delete" => \A e \in Text(files[p]) : e \in LaidAside \/ Unsent(e, p)

PullKeeps ==
  Pulling =>
    /\ \A p \in todo \cap gone : Text(D(p).content) \cap saved \subseteq LaidAside
    /\ pc \in {"write", "meta"} =>
         /\ Text(D(cur).content) \cap saved \subseteq LaidAside \cup Text(got.content)
         /\ Text(got.content) \subseteq LaidAside \cup Text(D(cur).content)

BranchesKept ==
  \A p \in Path : \A ch \in D(p).branched :
    Text(ch.body) \cap Text(files[p]) \subseteq Text(D(p).content) \cup LaidAside

TakenKept ==
  \A p \in Path :
    Taken(p) /\ pending[p].op = "upsert" =>
      Text(files[p]) \subseteq Text(D(p).content) \cup LaidAside

SavedKept ==
  \A e \in saved : \/ e \in LaidAside
                   \/ \E p \in Path : e \in Text(D(p).content)
                   \/ \E p \in Path : pending[p].op = "upsert" /\ e \in Text(files[p])

SafeInv ==
  /\ Apart /\ HubHolds /\ RecordKeeps /\ DeletedKept /\ PullKeeps /\ BranchesKept
  /\ TakenKept /\ SavedKept

\* An edit that is made is new, so it keeps the paths apart.
LEMMA ApartStep ==
  ASSUME DataInv, Apart, NEW p \in Path, NEW F, F \cap used = {},
         Held(p)' \subseteq Held(p) \cup F,
         \A q \in Path \ {p} : Held(q)' \subseteq Held(q)
  PROVE  Apart'
<1>1. \A q \in Path : Held(q) \subseteq used
  BY DEF DataInv, EditsAreUsed, Held
<1> SUFFICES ASSUME NEW q \in Path, NEW r \in Path, q # r PROVE Held(q)' \cap Held(r)' = {}
  BY DEF Apart
<1>2. Held(q) \cap Held(r) = {}
  BY DEF Apart
<1> QED
  BY <1>1, <1>2

\* What the files and the documents hold does not grow.
LEMMA ApartFrame ==
  ASSUME Apart, \A q \in Path : Held(q)' \subseteq Held(q)
  PROVE  Apart'
  BY DEF Apart

LEMMA SafeInductive ==
  ASSUME Sequential
  PROVE  Spec => []SafeInv
<1>1. Init => SafeInv
  <2> SUFFICES ASSUME Init PROVE SafeInv
    OBVIOUS
  <2>1. \A p \in Path : /\ D(p).content = Absent /\ files[p] = Absent /\ D(p).branched = {}
                        /\ pending[p].op = "none"
    BY DEF Init, D, NoDoc, Sequential, Hub, NothingPending, NoChange
  <2>2. pc = "idle" /\ saved = {} /\ rec.at = "idle" /\ rec.content = Absent
    BY DEF Init, NoRecord
  <2>3. Text(Absent) = {}
    BY DEF Text
  <2>4. \A p \in Path : Held(p) = {}
    BY <2>1, <2>2, <2>3 DEF Held
  <2> QED
    BY <2>1, <2>2, <2>3, <2>4
       DEF SafeInv, Apart, HubHolds, RecordKeeps, DeletedKept, PullKeeps, Pulling,
           BranchesKept, TakenKept, Taken, Queued, SavedKept
<1>2. TypeOK /\ QueueInv /\ DataInv /\ SafeInv /\ [Next]_vars => SafeInv'
  <2> SUFFICES ASSUME TypeOK, QueueInv, DataInv, SafeInv, [Next]_vars
               PROVE  SafeInv'
    OBVIOUS
  <2>t. /\ files \in [Path -> Content] /\ pending \in [Path -> Change]
        /\ todo \subseteq Path /\ gone \subseteq Path
        /\ rec \in Recording /\ (rec.at # "idle" => rec.path \in Path)
        /\ hub = 1
        /\ (pc \in {"fetch", "write", "meta"} => cur \in todo)
        /\ \A p \in Path : files[p] \in Content
    BY Types, OneHub
  <2>q. /\ rec # NoRecord => pc = "idle"
        /\ pc \in {"list", "apply", "fetch", "write", "meta"} => \A p \in Path : ~Queued(p)
    BY DEF QueueInv, Recorded, PullAfterPush
  <2>i. /\ Apart /\ HubHolds /\ RecordKeeps /\ DeletedKept /\ PullKeeps /\ BranchesKept
        /\ TakenKept /\ SavedKept
    BY DEF SafeInv
  <2>n. /\ NoRecord.at = "idle" /\ NoRecord.op = "none" /\ NoRecord.path \notin Path
        /\ Text(Absent) = {} /\ NoRecord.content = Absent
    BY ConstantsAssumption DEF NoRecord, Text
  <2>s. ~Overlap
    BY DEF Sequential
  <2>1. CASE Remote
    <3>1. PICK p \in Path, c \in Content, F \in SUBSET Edit : RemoteStep(p, c, F)
      BY <2>1, RemoteSteps DEF DataInv
    <3>2. /\ UNCHANGED <<files, pending, rec, pc, todo, gone, cur, got, saved>>
          /\ \A q \in Path \ {p} : D(q)' = D(q)
          /\ D(p)'.branched = D(p).branched /\ D(p)'.content = c
          /\ LaidAside \subseteq LaidAside' /\ retired \subseteq retired'
          /\ Text(c) \subseteq Text(D(p).content) \cup F /\ F \cap used = {}
          /\ Text(D(p).content) \subseteq Text(c) \cup LaidAside'
      BY <3>1 DEF RemoteStep, Moved, durable, locals, LaidAside
    <3>3. F \cap saved = {}
      BY <3>2 DEF DataInv, EditsAreUsed
    <3>4. Apart'
      <4>1. Held(p)' \subseteq Held(p) \cup F
        BY <3>2 DEF Held
      <4>2. \A q \in Path \ {p} : Held(q)' \subseteq Held(q)
        BY <3>2 DEF Held
      <4> QED BY <2>i, <3>2, <4>1, <4>2, ApartStep
    <3>5. HubHolds'
      BY <2>i, <3>2, <3>3 DEF HubHolds
    <3>u. \A q \in Path : \A e \in used : Unsent(e, q) => Unsent(e, q)'
      BY <3>2 DEF Unsent
    <3>6. RecordKeeps' /\ DeletedKept'
      <4>1. rec.at = "file" => rec.path \in Path /\ Text(rec.content) \subseteq used
        BY <2>t DEF DataInv, EditsAreUsed
      <4>2. \A q \in Path : Text(files[q]) \subseteq used
        BY DEF DataInv, EditsAreUsed
      <4>3. RecordKeeps'
        BY <2>i, <3>2, <3>u, <4>1 DEF RecordKeeps
      <4>4. DeletedKept'
        BY <2>i, <3>2, <3>u, <4>2 DEF DeletedKept
      <4> QED BY <4>3, <4>4
    <3>7. PullKeeps'
      <4>1. \A q \in Path : Text(D(q)'.content) \cap saved \subseteq Text(D(q).content) \cap saved
        BY <3>2, <3>3
      <4>2. pc \in {"write", "meta"} => cur \in Path
        BY <2>t
      <4>3. \A q \in Path : Text(D(q).content) \subseteq LaidAside' \cup Text(D(q)'.content)
        BY <3>2
      <4> QED
        BY <2>i, <2>t, <3>2, <4>1, <4>2, <4>3 DEF PullKeeps, Pulling
    <3>8. BranchesKept' /\ TakenKept'
      BY <2>i, <3>2 DEF BranchesKept, TakenKept, Taken, Queued
    <3>9. SavedKept'
      BY <2>i, <3>2 DEF SavedKept
    <3> QED
      BY <3>4, <3>5, <3>6, <3>7, <3>8, <3>9 DEF SafeInv
  <2>2. CASE \/ PushFault \/ PullFault \/ AbortSync \/ FetchMissing
             \/ \E p \in Path : HubRefuse(p)
    <3>1. /\ UNCHANGED <<files, pending, rec, docs, saved, kept, retired>> /\ pc' = "idle"
      BY <2>2, GiveUpSteps DEF GiveUp, EndSync, durable, hubs, history
    <3>2. ~Pulling' /\ \A q \in Path : ~Taken(q)' /\ Held(q)' \subseteq Held(q)
      BY <3>1 DEF Pulling, Taken, Held, D
    <3>3. Apart'
      BY <2>i, <3>2, ApartFrame
    <3> QED
      BY <2>i, <3>1, <3>2, <3>3
         DEF SafeInv, HubHolds, RecordKeeps, DeletedKept, Unsent, PullKeeps, BranchesKept,
             TakenKept, SavedKept, LaidAside, D
  <2>3. ASSUME NEW p \in Path, HubWrite(p) \/ HubBranchEdit(p) \/ HubBranchTombstone(p)
        PROVE  SafeInv'
    <3>1. PICK c \in Content, B \in SUBSET {batch[p]} : HubTakes(p, c, B)
      BY <2>3, HubTakesSteps DEF DataInv
    <3>2. /\ UNCHANGED <<files, pending, rec, pc, saved, retired>>
          /\ pc = "push" /\ p \in todo /\ todo' = todo \ {p}
          /\ \A q \in Path \ {p} : D(q)' = D(q)
          /\ D(p)'.content = c /\ D(p)'.branched = D(p).branched \cup B
          /\ LaidAside \subseteq LaidAside'
          /\ Text(c) \subseteq Text(D(p).content) \cup Text(batch[p].body)
          /\ \/ c = batch[p].body /\ B = {}
             \/ Text(D(p).content) \cup Text(batch[p].body) \subseteq Text(c) \cup LaidAside'
      BY <3>1 DEF HubTakes, Moved, durable, LaidAside
    <3>3. rec = NoRecord /\ pending[p].op \in {"upsert", "delete"}
      <4>1. pending[p] \in Change /\ Queued(p)
        BY <2>t, <3>2 DEF DataInv, BatchIsQueue
      <4> QED BY <4>1, <2>q, <3>2 DEF Change, Queued
    <3>4. /\ pending[p].op = "upsert" => Text(batch[p].body) = Text(files[p])
          /\ pending[p].op = "delete" => Text(batch[p].body) = {}
      <4>1. CASE pending[p].op = "upsert"
        BY <4>1, <2>t, <3>2, TextType, TextOfEdits DEF DataInv, BatchIsQueue
      <4>2. CASE pending[p].op = "delete"
        BY <4>2, <2>n, <3>2 DEF DataInv, BatchIsQueue
      <4> QED BY <4>1, <4>2, <3>3
    <3>5. /\ Text(D(p).content) \cap saved \subseteq Text(c) \cup LaidAside'
          /\ Text(D(p).content) \cap Text(files[p]) \subseteq Text(c) \cup LaidAside'
          /\ pending[p].op = "upsert" => Text(files[p]) \subseteq Text(c) \cup LaidAside'
      <4>1. CASE pending[p].op = "upsert"
        BY <2>i, <3>2, <3>4, <4>1 DEF HubHolds
      <4>2. CASE pending[p].op = "delete"
        <5>1. \A e \in Text(files[p]) : e \in saved \cup Text(D(p).content) => e \in LaidAside
          BY <2>i, <4>2 DEF DeletedKept, Unsent
        <5> QED BY <2>i, <3>2, <4>2, <5>1 DEF HubHolds
      <4> QED BY <3>3, <4>1, <4>2
    <3>6. B # {} => Text(batch[p].body) \subseteq Text(c) \cup LaidAside'
      BY <3>2
    <3>7. Apart'
      <4>1. \A q \in Path : Held(q)' \subseteq Held(q)
        BY <3>2, <3>3, <3>4 DEF Held
      <4> QED BY <2>i, <4>1, ApartFrame
    <3>8. HubHolds'
      BY <2>i, <3>2, <3>3, <3>4 DEF HubHolds
    <3>9. RecordKeeps' /\ PullKeeps'
      BY <2>n, <3>2, <3>3 DEF RecordKeeps, PullKeeps, Pulling
    <3>10. DeletedKept'
      <4> SUFFICES ASSUME NEW q \in Path, pending[q].op = "delete", NEW e \in Text(files[q])
                   PROVE  e \in LaidAside' \/ Unsent(e, q)'
        BY <3>2 DEF DeletedKept
      <4>1. e \in LaidAside \/ Unsent(e, q)
        BY <2>i DEF DeletedKept
      <4>2. CASE q # p
        BY <3>2, <4>1, <4>2 DEF Unsent
      <4>3. CASE q = p
        BY <3>2, <3>4, <4>1, <4>3 DEF Unsent
      <4> QED BY <4>2, <4>3
    <3>11. BranchesKept'
      <4> SUFFICES ASSUME NEW q \in Path, NEW ch \in D(q)'.branched
                   PROVE  Text(ch.body) \cap Text(files[q])
                            \subseteq Text(D(q)'.content) \cup LaidAside'
        BY <3>2 DEF BranchesKept
      <4>1. CASE q # p
        BY <2>i, <3>2, <4>1 DEF BranchesKept
      <4>2. CASE q = p /\ ch \in D(p).branched
        <5>1. Text(ch.body) \cap Text(files[p]) \subseteq Text(D(p).content) \cup LaidAside
          BY <2>i, <4>2 DEF BranchesKept
        <5> QED BY <3>2, <3>5, <4>2, <5>1
      <4>3. CASE q = p /\ ch \in B
        BY <3>2, <3>6, <4>3
      <4> QED BY <3>2, <4>1, <4>2, <4>3
    <3>12. TakenKept'
      BY <2>i, <3>2, <3>5 DEF TakenKept, Taken, Queued
    <3>13. SavedKept'
      BY <2>i, <3>2, <3>5 DEF SavedKept
    <3> QED
      BY <3>7, <3>8, <3>9, <3>10, <3>11, <3>12, <3>13 DEF SafeInv
  <2>4. ASSUME NEW p \in Path, HubNoFile(p) \/ HubBranchAgain(p)
        PROVE  SafeInv'
    <3>1. /\ UNCHANGED <<files, pending, rec, pc, docs, saved, kept, retired>>
          /\ pc = "push" /\ p \in todo /\ todo' = todo \ {p}
      BY <2>4, HubAnswersSteps DEF HubAnswers, durable, history
    <3>2. ASSUME pending[p].op = "upsert"
          PROVE  Text(files[p]) \subseteq Text(D(p).content) \cup LaidAside
      <4>1. batch[p].op = "upsert" /\ Text(batch[p].body) = Text(files[p])
        BY <3>2, <2>t, <3>1, TextType, TextOfEdits DEF DataInv, BatchIsQueue
      <4>2. batch[p] \in D(p).branched
        BY <2>4, <2>t, <4>1 DEF HubNoFile, HubBranchAgain, Blind, D
      <4> QED BY <2>i, <4>1, <4>2 DEF BranchesKept
    <3>3. ~Pulling' /\ \A q \in Path : Held(q)' \subseteq Held(q)
      BY <3>1 DEF Pulling, Held, D
    <3>4. Apart'
      BY <2>i, <3>3, ApartFrame
    <3>5. TakenKept'
      BY <2>i, <3>1, <3>2 DEF TakenKept, Taken, Queued, LaidAside, D
    <3> QED
      BY <2>i, <3>1, <3>3, <3>4, <3>5
         DEF SafeInv, HubHolds, RecordKeeps, DeletedKept, Unsent, PullKeeps, BranchesKept,
             SavedKept, LaidAside, D
  <2>5. ASSUME NEW p \in Path, RecordUpsert(p) PROVE SafeInv'
    <3>1. PICK e \in Edit \ used :
            rec' = [at |-> "file", path |-> p, op |-> "upsert", base |-> BaseRev(p),
                    content |-> Text(files[p]) \cup {e}]
      BY <2>5 DEF RecordUpsert
    <3>2. /\ rec = NoRecord /\ pc = "idle"
          /\ UNCHANGED <<files, pending, pc, docs, saved, kept, retired>>
      BY <2>5, <2>s DEF RecordUpsert, MayRecord, durable, locals, hubs
    <3>3. Text(rec'.content) = Text(files[p]) \cup {e}
      <4>1. Text(files[p]) \cup {e} \in SUBSET Edit
        BY <2>t, TextType
      <4> QED BY <3>1, <4>1, TextOfEdits
    <3>4. ~Pulling' /\ \A q \in Path : ~Taken(q)'
      BY <3>2 DEF Pulling, Taken
    <3>5. Apart'
      <4>1. Held(p)' \subseteq Held(p) \cup {e}
        BY <3>1, <3>2, <3>3 DEF Held, D
      <4>2. \A q \in Path \ {p} : Held(q)' \subseteq Held(q)
        BY <3>1, <3>2 DEF Held, D
      <4>3. {e} \cap used = {}
        OBVIOUS
      <4> QED BY <2>i, <4>1, <4>2, <4>3, ApartStep
    <3>6. Unsent(e, p)
      BY DEF Unsent, DataInv, EditsAreUsed
    <3>7. RecordKeeps'
      BY <3>1, <3>2, <3>3, <3>6 DEF RecordKeeps, Unsent, D
    <3> QED
      BY <2>i, <3>2, <3>4, <3>5, <3>7
         DEF SafeInv, HubHolds, DeletedKept, Unsent, PullKeeps, BranchesKept, TakenKept,
             SavedKept, LaidAside, D
  <2>6. ASSUME NEW p \in Path, RecordDelete(p) PROVE SafeInv'
    <3>1. /\ rec' = [at |-> "file", path |-> p, op |-> "delete", base |-> BaseRev(p),
                     content |-> Absent]
          /\ files[p] # Absent /\ retired' = retired \cup files[p]
      BY <2>6 DEF RecordDelete
    <3>2. /\ rec = NoRecord /\ pc = "idle"
          /\ UNCHANGED <<files, pending, pc, docs, saved, kept>>
      BY <2>6, <2>s DEF RecordDelete, MayRecord, durable, locals, hubs
    <3>3. LaidAside \subseteq LaidAside' /\ Text(files[p]) \subseteq retired'
      BY <3>1, <3>2 DEF LaidAside, Text
    <3>4. ~Pulling' /\ \A q \in Path : ~Taken(q)'
      BY <3>2 DEF Pulling, Taken
    <3>5. Apart'
      <4>1. \A q \in Path : Held(q)' \subseteq Held(q)
        BY <2>n, <3>1, <3>2 DEF Held, D
      <4> QED BY <2>i, <4>1, ApartFrame
    <3>6. RecordKeeps'
      BY <2>n, <3>1, <3>2, <3>3 DEF RecordKeeps
    <3>7. HubHolds' /\ BranchesKept' /\ SavedKept' /\ DeletedKept'
      BY <2>i, <3>2, <3>3 DEF HubHolds, BranchesKept, SavedKept, DeletedKept, Unsent, D
    <3> QED
      BY <2>i, <3>2, <3>4, <3>5, <3>6, <3>7
         DEF SafeInv, PullKeeps, TakenKept
  <2>7. CASE RecordFile
    <3>1. /\ rec.at = "file" /\ files' = [files EXCEPT ![rec.path] = rec.content]
          /\ rec' = [rec EXCEPT !.at = "meta"]
          /\ UNCHANGED <<pending, pc, docs, saved, kept, retired>>
      BY <2>7 DEF RecordFile, locals, hubs, history
    <3>2. /\ rec'.at = "meta" /\ rec'.path = rec.path /\ rec'.content = rec.content
          /\ rec.path \in Path /\ pc = "idle"
      BY <2>t, <2>q, <2>n, <3>1 DEF Recording
    <3>3. /\ files'[rec.path] = rec.content
          /\ \A q \in Path \ {rec.path} : files'[q] = files[q]
      BY <2>t, <3>1, <3>2
    <3>4. ~Pulling' /\ \A q \in Path : ~Taken(q)'
      BY <3>1, <3>2 DEF Pulling, Taken
    <3>5. \A q \in Path : Text(files[q]) \subseteq Text(files'[q]) \cup LaidAside
      BY <2>i, <3>1, <3>3 DEF RecordKeeps, LaidAside
    <3>6. Apart'
      <4>1. \A q \in Path : Held(q)' \subseteq Held(q)
        BY <3>1, <3>2, <3>3 DEF Held, D
      <4> QED BY <2>i, <4>1, ApartFrame
    <3>7. HubHolds'
      BY <2>i, <3>1, <3>5 DEF HubHolds, LaidAside, D
    <3>8. \A q \in Path : \A e \in Text(files'[q]) : e \in Text(files[q]) \/ Unsent(e, q)
      BY <2>i, <3>1, <3>3 DEF RecordKeeps
    <3>9. DeletedKept' /\ BranchesKept'
      <4>1. DeletedKept'
        BY <2>i, <3>1, <3>8 DEF DeletedKept, Unsent, LaidAside, D
      <4>2. BranchesKept'
        BY <2>i, <3>1, <3>8 DEF BranchesKept, Unsent, LaidAside, D
      <4> QED BY <4>1, <4>2
    <3>10. SavedKept'
      BY <2>i, <3>1, <3>5 DEF SavedKept, LaidAside, D
    <3> QED
      BY <3>2, <3>4, <3>6, <3>7, <3>9, <3>10
         DEF SafeInv, RecordKeeps, PullKeeps, TakenKept
  <2>8. CASE RecordMeta
    <3>1. /\ rec.at = "meta" /\ rec' = [rec EXCEPT !.at = "queue"]
          /\ UNCHANGED <<files, pending, pc, docs, saved, kept, retired>>
      BY <2>8 DEF RecordMeta, locals, hubs, history
    <3>2. /\ rec'.at = "queue" /\ rec'.path = rec.path /\ rec'.content = rec.content
          /\ pc = "idle"
      BY <2>t, <2>q, <2>n, <3>1 DEF Recording
    <3>3. ~Pulling' /\ \A q \in Path : ~Taken(q)'
      BY <3>1, <3>2 DEF Pulling, Taken
    <3>4. Apart'
      <4>1. \A q \in Path : Held(q)' \subseteq Held(q)
        BY <3>1, <3>2 DEF Held, D
      <4> QED BY <2>i, <4>1, ApartFrame
    <3> QED
      BY <2>i, <3>1, <3>2, <3>3, <3>4
         DEF SafeInv, HubHolds, RecordKeeps, DeletedKept, Unsent, PullKeeps, BranchesKept,
             TakenKept, SavedKept, LaidAside, D
  <2>9. CASE RecordQueue
    <3>1. /\ rec.at = "queue" /\ rec' = NoRecord
          /\ pending' = [pending EXCEPT ![rec.path] =
                           [op |-> rec.op, base |-> rec.base, body |-> Absent]]
          /\ saved' = saved \cup Text(rec.content)
          /\ UNCHANGED <<files, pc, docs, kept, retired>>
      BY <2>9 DEF RecordQueue, locals, hubs
    <3>2. /\ rec.path \in Path /\ pc = "idle" /\ files[rec.path] = rec.content
          /\ (rec.op # "upsert" => rec.content = Absent)
      BY <2>t, <2>q, <2>n, <3>1
         DEF QueueInv, Recorded, Recording
    <3>3. /\ \A q \in Path \ {rec.path} : pending'[q] = pending[q]
          /\ pending'[rec.path].op = rec.op
      BY <2>t, <3>1, <3>2
    <3>4. ~Pulling' /\ \A q \in Path : ~Taken(q)'
      BY <3>1, <3>2 DEF Pulling, Taken
    <3>5. Apart'
      <4>1. \A q \in Path : Held(q)' \subseteq Held(q)
        BY <2>n, <3>1, <3>2 DEF Held, D
      <4> QED BY <2>i, <4>1, ApartFrame
    <3>6. HubHolds'
      <4> SUFFICES ASSUME NEW q \in Path, NEW e \in Text(D(q).content), e \in saved'
                   PROVE  e \in LaidAside \cup Text(files[q])
        BY <3>1 DEF HubHolds, LaidAside, D
      <4>1. CASE e \in saved
        BY <2>i, <4>1 DEF HubHolds
      <4>2. CASE e \in Text(files[rec.path])
        BY <2>i, <3>2, <4>2 DEF Apart, Held
      <4> QED BY <3>1, <3>2, <4>1, <4>2
    <3>7. DeletedKept'
      <4> SUFFICES ASSUME NEW q \in Path, pending'[q].op = "delete", NEW e \in Text(files[q])
                   PROVE  e \in LaidAside' \/ Unsent(e, q)'
        BY <3>1 DEF DeletedKept
      <4>1. q # rec.path
        BY <2>n, <3>2, <3>3
      <4>2. e \in LaidAside \/ Unsent(e, q)
        BY <2>i, <3>3, <4>1 DEF DeletedKept
      <4>3. e \notin Text(rec.content)
        BY <2>i, <3>2, <4>1 DEF Apart, Held
      <4> QED
        BY <3>1, <4>2, <4>3 DEF Unsent, LaidAside, D
    <3>8. BranchesKept'
      BY <2>i, <3>1 DEF BranchesKept, LaidAside, D
    <3>9. SavedKept'
      <4> SUFFICES ASSUME NEW e \in saved'
                   PROVE  \/ e \in LaidAside
                          \/ \E p \in Path : e \in Text(D(p).content)
                          \/ \E p \in Path : pending'[p].op = "upsert" /\ e \in Text(files[p])
        BY <3>1 DEF SavedKept, LaidAside, D
      <4>1. CASE e \in Text(files[rec.path])
        <5>1. rec.op = "upsert"
          BY <2>n, <3>2, <4>1
        <5> QED BY <3>2, <3>3, <4>1, <5>1
      <4>2. CASE e \in saved /\ e \notin Text(files[rec.path])
        BY <2>i, <3>2, <3>3, <4>2 DEF SavedKept
      <4> QED BY <3>1, <3>2, <4>1, <4>2
    <3> QED
      BY <2>n, <3>1, <3>4, <3>5, <3>6, <3>7, <3>8, <3>9
         DEF SafeInv, RecordKeeps, PullKeeps, TakenKept
  <2>10. CASE \/ LoadPending \/ BuildChanges \/ Reply \/ UNCHANGED vars
              \/ \E p \in Path : AdoptRev(p)
    <3>1. UNCHANGED <<files, pending, rec, docs, saved, kept, retired>>
      BY <2>10 DEF LoadPending, BuildChanges, Reply, AdoptRev, vars, durable, locals, hubs,
                   history
    <3>2. \A q \in Path : Queued(q)' <=> Queued(q)
      BY <3>1 DEF Queued
    <3>3. ASSUME NEW q \in Path, Taken(q)' PROVE Taken(q)
      <4>1. CASE LoadPending
        BY <3>3, <4>1 DEF LoadPending, Taken
      <4>2. CASE BuildChanges
        BY <3>3, <4>2, <3>1 DEF BuildChanges, ToPush, Taken, Queued, DataInv, BatchIsQueue
      <4>3. CASE Reply
        BY <3>3, <4>3, <3>2 DEF Reply, Taken
      <4>4. CASE \E p \in Path : AdoptRev(p)
        BY <3>3, <4>4, <3>2 DEF AdoptRev, Taken
      <4>5. CASE UNCHANGED vars
        BY <3>3, <4>5, <3>2 DEF vars, locals, Taken
      <4> QED BY <2>10, <4>1, <4>2, <4>3, <4>4, <4>5
    <3>4. ~Pulling' \/ UNCHANGED <<pc, todo, gone, cur, got>>
      BY <2>10 DEF LoadPending, BuildChanges, Reply, AdoptRev, Pulling, vars, locals
    <3>5. PullKeeps'
      <4>1. CASE ~Pulling'
        BY <4>1 DEF PullKeeps
      <4>2. CASE UNCHANGED <<pc, todo, gone, cur, got>>
        BY <2>i, <3>1, <4>2 DEF PullKeeps, Pulling, LaidAside, D
      <4> QED BY <3>4, <4>1, <4>2
    <3>6. Apart'
      <4>1. \A q \in Path : Held(q)' \subseteq Held(q)
        BY <3>1, <3>4 DEF Held, D, Pulling
      <4> QED BY <2>i, <4>1, ApartFrame
    <3>7. TakenKept'
      BY <2>i, <3>1, <3>3 DEF TakenKept, LaidAside, D
    <3> QED
      BY <2>i, <3>1, <3>2, <3>5, <3>6, <3>7
         DEF SafeInv, HubHolds, RecordKeeps, DeletedKept, Unsent, BranchesKept, SavedKept,
             LaidAside, D
  <2>11. CASE ClearPending
    <3>1. /\ pc = "adopt" /\ todo = {} /\ pending' = NothingPending /\ pc' = "list"
          /\ UNCHANGED <<files, rec, docs, saved, kept, retired>>
      BY <2>11 DEF ClearPending, hubs, history
    <3>2. /\ rec = NoRecord /\ ~Pulling'
          /\ \A q \in Path : /\ pending'[q].op = "none" /\ ~Queued(q)' /\ ~Taken(q)'
                             /\ Queued(q) => Taken(q)
      BY <2>q, <3>1 DEF NothingPending, NoChange, Queued, Taken, Pulling
    <3>3. Apart'
      <4>1. \A q \in Path : Held(q)' \subseteq Held(q)
        BY <3>1 DEF Held, D
      <4> QED BY <2>i, <4>1, ApartFrame
    <3>4. SavedKept'
      <4>1. \A q \in Path : pending[q].op = "upsert" =>
              Text(files[q]) \subseteq Text(D(q).content) \cup LaidAside
        BY <2>i, <3>2 DEF TakenKept, Queued
      <4> QED
        BY <2>i, <3>1, <4>1 DEF SavedKept, LaidAside, D
    <3> QED
      BY <2>i, <3>1, <3>2, <3>3, <3>4
         DEF SafeInv, HubHolds, RecordKeeps, DeletedKept, Unsent, PullKeeps, BranchesKept,
             TakenKept, LaidAside, D
  \* What the steps of a pull have in common.
  <2>p. ASSUME pc \in {"list", "apply", "fetch", "write", "meta"},
               pc' \notin {"push", "adopt"},
               UNCHANGED <<pending, rec, docs, saved, kept, retired>>
        PROVE  RecordKeeps' /\ DeletedKept' /\ TakenKept' /\ SavedKept'
    <3>1. rec = NoRecord /\ \A q \in Path : pending[q].op = "none" /\ ~Queued(q) /\ ~Taken(q)'
      BY <2>p, <2>q DEF Queued, Taken
    <3> QED
      BY <2>i, <2>n, <2>p, <3>1 DEF RecordKeeps, DeletedKept, TakenKept, SavedKept, LaidAside, D
  <2>12. ASSUME NEW p \in Path, SkipEntry(p) PROVE FALSE
    BY <2>12, <2>q DEF SkipEntry
  <2>13. CASE ListChanges \/ \E p \in Path : TakeEntry(p)
    <3>1. /\ pc \in {"list", "apply"} /\ pc' \in {"apply", "fetch"}
          /\ UNCHANGED <<files, pending, rec, docs, saved, kept, retired>>
          /\ \/ pc = "list" /\ \A q \in gone' : D(q).content = Absent
             \/ pc = "apply" /\ UNCHANGED <<todo, gone>>
      BY <2>13, <2>t DEF ListChanges, TakeEntry, Live, D, durable, hubs, history
    <3>2. Apart'
      <4>1. \A q \in Path : Held(q)' \subseteq Held(q)
        BY <3>1 DEF Held, D
      <4> QED BY <2>i, <4>1, ApartFrame
    <3>3. PullKeeps'
      BY <2>i, <2>n, <3>1 DEF PullKeeps, Pulling, LaidAside, D
    <3>4. HubHolds' /\ BranchesKept'
      BY <2>i, <3>1 DEF HubHolds, BranchesKept, LaidAside, D
    <3> QED
      BY <2>p, <3>1, <3>2, <3>3, <3>4 DEF SafeInv
  <2>14. CASE FetchFile
    <3>1. /\ pc = "fetch" /\ pc' = "write" /\ cur \in todo /\ cur \in Path
          /\ \/ cur \in gone /\ got'.content = Absent
             \/ got'.content = D(cur).content
          /\ UNCHANGED <<files, pending, rec, docs, todo, gone, cur, saved, kept, retired>>
      BY <2>14, <2>t DEF FetchFile, D, NoFile, durable, hubs, history
    <3>2. Apart'
      <4>1. \A q \in Path : Held(q)' \subseteq Held(q)
        BY <2>n, <3>1 DEF Held, D
      <4> QED BY <2>i, <4>1, ApartFrame
    <3>3. PullKeeps'
      <4>1. D(cur)' = D(cur) /\ got.content' = got'.content
        BY <3>1 DEF D
      <4>2. /\ Pulling /\ LaidAside' = LaidAside
            /\ \A q \in todo \cap gone : Text(D(q).content) \cap saved \subseteq LaidAside
        BY <2>i, <3>1 DEF PullKeeps, Pulling, LaidAside
      <4>3. /\ Text(D(cur).content) \cap saved \subseteq LaidAside \cup Text(got'.content)
            /\ Text(got'.content) \subseteq LaidAside \cup Text(D(cur).content)
        BY <2>n, <3>1, <4>2
      <4>4. \A q \in todo \cap gone : D(q)' = D(q)
        BY <3>1 DEF D
      <4> QED BY <3>1, <4>1, <4>2, <4>3, <4>4 DEF PullKeeps
    <3>4. HubHolds' /\ BranchesKept'
      BY <2>i, <3>1 DEF HubHolds, BranchesKept, LaidAside, D
    <3> QED
      BY <2>p, <3>1, <3>2, <3>3, <3>4 DEF SafeInv
  <2>15. CASE WriteFile
    <3>1. /\ pc = "write" /\ pc' = "meta" /\ cur \in todo /\ cur \in Path
          /\ files' = [files EXCEPT ![cur] = got.content]
          /\ UNCHANGED <<pending, rec, docs, todo, gone, cur, got, saved, kept, retired>>
      BY <2>15, <2>t DEF WriteFile, hubs, history
    <3>2. files'[cur] = got.content /\ \A q \in Path \ {cur} : files'[q] = files[q]
      BY <2>t, <3>1
    <3>3. Apart'
      <4>1. \A q \in Path : Held(q)' \subseteq Held(q)
        BY <3>1, <3>2 DEF Held, D
      <4> QED BY <2>i, <4>1, ApartFrame
    <3>4. PullKeeps'
      BY <2>i, <3>1 DEF PullKeeps, Pulling, LaidAside, D
    <3>5. HubHolds'
      <4>1. Text(D(cur).content) \cap saved \subseteq LaidAside \cup Text(got.content)
        BY <2>i, <3>1 DEF PullKeeps, Pulling
      <4> QED
        BY <2>i, <3>1, <3>2, <4>1 DEF HubHolds, LaidAside, D
    <3>6. BranchesKept'
      <4>1. Text(got.content) \subseteq LaidAside \cup Text(D(cur).content)
        BY <2>i, <3>1 DEF PullKeeps, Pulling
      <4> QED
        BY <2>i, <3>1, <3>2, <4>1 DEF BranchesKept, LaidAside, D
    <3> QED
      BY <2>p, <3>1, <3>3, <3>4, <3>5, <3>6 DEF SafeInv
  <2>16. CASE WriteMeta \/ SaveCheckpoint
    <3>1. /\ pc \in {"apply", "meta"} /\ pc' \in {"apply", "idle"}
          /\ (pc' = "apply" => pc = "meta" /\ todo' \subseteq todo /\ gone' = gone)
          /\ UNCHANGED <<files, pending, rec, docs, saved, kept, retired>>
      BY <2>16 DEF WriteMeta, SaveCheckpoint, EndSync, hubs, history
    <3>2. Apart'
      <4>1. \A q \in Path : Held(q)' \subseteq Held(q)
        BY <3>1 DEF Held, D
      <4> QED BY <2>i, <4>1, ApartFrame
    <3>3. PullKeeps'
      BY <2>i, <3>1 DEF PullKeeps, Pulling, LaidAside, D
    <3>4. HubHolds' /\ BranchesKept'
      BY <2>i, <3>1 DEF HubHolds, BranchesKept, LaidAside, D
    <3> QED
      BY <2>p, <3>1, <3>2, <3>3, <3>4 DEF SafeInv
  <2>17. CASE AbortRecord
    <3>1. rec' = NoRecord /\ UNCHANGED <<files, pending, docs, saved, kept, retired, locals>>
      BY <2>17 DEF AbortRecord, durable, hubs, history
    <3>2. UNCHANGED <<pc, todo, gone, cur, got>>
      BY <3>1 DEF locals
    <3>3. Apart'
      <4>1. \A q \in Path : Held(q)' \subseteq Held(q)
        BY <2>n, <3>1, <3>2 DEF Held, D
      <4> QED BY <2>i, <4>1, ApartFrame
    <3>4. PullKeeps'
      BY <2>i, <3>1, <3>2 DEF PullKeeps, Pulling, LaidAside, D
    <3> QED
      BY <2>i, <2>n, <3>1, <3>2, <3>3, <3>4
         DEF SafeInv, HubHolds, RecordKeeps, DeletedKept, Unsent, BranchesKept, TakenKept,
             Taken, Queued, SavedKept, LaidAside, D
  <2> QED
    BY <2>1, <2>2, <2>3, <2>4, <2>5, <2>6, <2>7, <2>8, <2>9, <2>10, <2>11, <2>12, <2>13,
       <2>14, <2>15, <2>16, <2>17
       DEF Next, Record, Push, HubStep, Pull, Fault
<1> QED
  BY <1>1, <1>2, TypeCorrect, QueueInductive, DataInductive, PTL DEF Spec, Sequential

\* Guarantee 2 of engine.rs, seen from the edit: one that record_upsert has accepted is
\* at the hub, in a conflict copy, in a file whose upload is queued or in a file that a
\* user deleted, at every moment: no rejected, lost or repeated push, no pull and no
\* later record that is cut off between its writes drops it.
THEOREM LocalEditsAreSafe ==
  ASSUME NHubs = 1, ~Overlap
  PROVE  Spec => []LocalEditSafe
<1>1. Sequential
  BY DEF Sequential
<1>2. SafeInv => LocalEditSafe
  <2>1. 1 \in Hub
    BY DEF Hub
  <2> QED
    BY <2>1 DEF SafeInv, SavedKept, LocalEditSafe, Preserved, LaidAside, D
<1> QED
  BY <1>1, <1>2, SafeInductive, PTL

============================================================================
