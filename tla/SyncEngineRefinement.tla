------------------------ MODULE SyncEngineRefinement ------------------------
(***************************************************************************)
(* SyncEngine implements CheckpointedFeed, for every set of paths and      *)
(* edits, every number of hubs and every bound.                            *)
(***************************************************************************)
EXTENDS SyncEngineProofs

(***************************************************************************)
(* What DurableInv does not say: nothing is handled beyond its hub's       *)
(* sequence, and an entry that the pull has still to handle is behind the  *)
(* listing.  So handling it never falls back.                              *)
(***************************************************************************)
HandledOrder ==
  /\ \A h \in Hub, p \in Path : applied[h][p] <= hubSeq[h]
  /\ Pulling => \A p \in todo : applied[hub][p] <= lastSeq
  /\ pc \in {"write", "meta"} => got.seq <= hubSeq[hub]

\* The numbers the proofs compare.
Numbers ==
  /\ hubSeq \in [Hub -> Nat] /\ checkpoint \in [Hub -> Nat] /\ hub \in Hub
  /\ lastSeq \in Nat /\ got.seq \in Nat /\ applied \in [Hub -> [Path -> Nat]]
  /\ todo \subseteq Path
  /\ pc = "meta" => cur \in todo

\* They are part of the type invariant.
LEMMA NumbersType == ASSUME TypeOK PROVE Numbers
  BY DEF TypeOK, TypeHubs, TypeStores, TypeSync, TypeHistory, File, Numbers

\* The order of sequences is an invariant.
LEMMA HandledInOrder == Spec => []HandledOrder
<1>1. Init => HandledOrder
  BY DEF Init, HandledOrder, Pulling
<1>2. TypeOK /\ DurableInv /\ HandledOrder /\ [Next]_vars => HandledOrder'
  <2> SUFFICES ASSUME TypeOK, DurableInv, HandledOrder, [Next]_vars PROVE HandledOrder'
    OBVIOUS
  <2>n. Numbers
    BY NumbersType
  <2>1. CASE QuietStep
    BY <2>1 DEF QuietStep, HandledOrder, Pulling, hubs
  <2>2. CASE MoveStep
    <3>1. PICK h \in Hub : BumpSeq(h)
      BY <2>2 DEF MoveStep, Moves
    <3>2. \A k \in Hub : hubSeq'[k] \in Nat /\ hubSeq'[k] >= hubSeq[k]
      BY <2>n, <3>1 DEF Numbers, BumpSeq, NextSeq
    <3>3. UNCHANGED <<pc, hub, lastSeq, got, applied>> /\ (pc = "push" \/ UNCHANGED todo)
      BY <2>2 DEF MoveStep
    <3> QED BY <2>n, <3>2, <3>3 DEF Numbers, HandledOrder, Pulling
  <2>3. CASE ListChanges
    <3>1. /\ pc' = "apply" /\ lastSeq' = hubSeq[hub] /\ todo' \subseteq Path
          /\ UNCHANGED <<hubs, applied, hub>>
      BY <2>3 DEF ListChanges, ChangedSince, history
    <3> QED BY <2>n, <3>1 DEF Numbers, HandledOrder, hubs
  <2>4. ASSUME NEW p \in Path, SkipEntry(p) PROVE HandledOrder'
    <3>1. /\ pc = "apply" /\ todo' = todo \ {p}
          /\ applied' = [applied EXCEPT ![hub][p] = lastSeq]
          /\ UNCHANGED <<hubs, pc, hub, lastSeq>>
      BY <2>4 DEF SkipEntry
    <3>2. lastSeq <= hubSeq[hub]
      BY <3>1 DEF DurableInv, PullCovers, Pulling
    <3> QED BY <2>n, <3>1, <3>2 DEF Numbers, HandledOrder, Pulling, hubs
  <2>5. CASE FetchFile
    <3>1. /\ pc = "fetch" /\ got'.seq \in {lastSeq, hubSeq[hub]}
          /\ UNCHANGED <<hubs, applied, hub, todo, lastSeq>>
      BY <2>5 DEF FetchFile, NoFile, history
    <3>2. lastSeq <= hubSeq[hub]
      BY <3>1 DEF DurableInv, PullCovers, Pulling
    <3> QED BY <2>n, <3>1, <3>2 DEF Numbers, HandledOrder, Pulling, hubs
  <2>6. CASE WriteFile \/ \E p \in Path : TakeEntry(p)
    <3>1. /\ UNCHANGED <<hubs, applied, hub, todo, lastSeq, got>>
          /\ Pulling /\ (pc' \in {"write", "meta"} => pc \in {"write", "meta"})
      BY <2>6 DEF WriteFile, TakeEntry, Pulling, history
    <3> QED BY <3>1 DEF HandledOrder, hubs
  <2>7. CASE WriteMeta
    <3>1. /\ pc = "meta" /\ pc' = "apply" /\ todo' = todo \ {cur}
          /\ applied' = [applied EXCEPT ![hub][cur] = got.seq]
          /\ UNCHANGED <<hubs, hub, lastSeq>>
      BY <2>7 DEF WriteMeta
    <3> QED BY <2>n, <3>1 DEF Numbers, HandledOrder, Pulling, hubs
  <2>8. CASE SaveCheckpoint
    <3>1. pc' = "idle" /\ UNCHANGED <<hubs, applied>>
      BY <2>8 DEF SaveCheckpoint, EndSync, history
    <3> QED BY <3>1 DEF HandledOrder, Pulling, hubs
  <2> QED
    BY <2>1, <2>2, <2>3, <2>4, <2>5, <2>6, <2>7, <2>8, StepKinds
<1> QED
  BY <1>1, <1>2, TypeCorrect, DurableInductive, PTL DEF Spec

----------------------------------------------------------------------------

\* The engine keeps the feed's rules (pull_from, apply_remote): a hub's change is a
\* Publish, an entry that is applied or skipped a Handle, a stored checkpoint an
\* Advance, and every other step, failures and crashes included, a stutter.
THEOREM EngineImplementsFeed == Spec => FeedSpec
<1> DEFINE Changed == [h \in Hub |-> [p \in Path |-> docs[h][p].seq]]
<1>1. Init => Feed!Init
  BY DEF Init, Feed!Init, NoDoc
<1>2. TypeOK /\ DurableInv /\ HandledOrder /\ [Next]_vars => [Feed!Next]_(Feed!vars)
  <2> SUFFICES ASSUME TypeOK, DurableInv, HandledOrder, [Next]_vars
               PROVE  Feed!Next \/ UNCHANGED Feed!vars
    OBVIOUS
  <2>n. Numbers
    BY NumbersType
  <2>1. CASE UNCHANGED <<hubs, checkpoint, applied>>
    BY <2>1 DEF Feed!vars, hubs
  <2>2. CASE MoveStep
    <3>1. PICK h \in Hub, p \in Path : Moves(h, p) /\ UNCHANGED <<checkpoint, applied>>
      BY <2>2 DEF MoveStep
    <3>2. hubSeq' = [hubSeq EXCEPT ![h] = @ + 1]
      BY <3>1 DEF Moves, BumpSeq, NextSeq
    <3>3. Changed' = [Changed EXCEPT ![h][p] = hubSeq[h] + 1]
      <4>1. \A k \in Hub, q \in Path :
              docs'[k][q].seq = IF k = h /\ q = p THEN hubSeq[h] + 1 ELSE docs[k][q].seq
        BY <3>1 DEF Moves, NextSeq
      <4>2. \A k \in Hub \ {h} :
              [q \in Path |-> docs'[k][q].seq] = [q \in Path |-> docs[k][q].seq]
        BY <4>1
      <4>3. [q \in Path |-> docs'[h][q].seq] =
              [[q \in Path |-> docs[h][q].seq] EXCEPT ![p] = hubSeq[h] + 1]
        BY <4>1
      <4> QED BY <4>2, <4>3
    <3> QED BY <3>1, <3>2, <3>3 DEF Feed!Next, Feed!Publish
  <2>3. ASSUME NEW p \in Path, SkipEntry(p) PROVE Feed!Next
    <3>1. /\ Pulling /\ p \in todo
          /\ applied' = [applied EXCEPT ![hub][p] = lastSeq]
          /\ UNCHANGED <<hubs, checkpoint>>
      BY <2>3 DEF SkipEntry, Pulling, durable
    <3>2. lastSeq \in applied[hub][p] .. hubSeq[hub]
      BY <2>n, <3>1 DEF Numbers, DurableInv, PullCovers, HandledOrder
    <3> QED BY <2>n, <3>1, <3>2 DEF Numbers, Feed!Next, Feed!Handle, hubs
  <2>4. CASE WriteMeta
    <3>1. /\ pc = "meta" /\ cur \in todo /\ cur \in Path
          /\ applied' = [applied EXCEPT ![hub][cur] = got.seq]
          /\ UNCHANGED <<hubs, checkpoint>>
      BY <2>4, <2>n DEF WriteMeta, Numbers
    <3>2. got.seq \in applied[hub][cur] .. hubSeq[hub]
      BY <2>n, <3>1 DEF Numbers, DurableInv, PullCovers, HandledOrder, Pulling
    <3> QED BY <2>n, <3>1, <3>2 DEF Numbers, Feed!Next, Feed!Handle, hubs
  <2>5. CASE SaveCheckpoint
    <3>1. /\ Pulling /\ todo = {}
          /\ checkpoint' = [checkpoint EXCEPT ![hub] = lastSeq]
          /\ UNCHANGED <<hubs, applied>>
      BY <2>5 DEF SaveCheckpoint, Pulling, history
    <3>2. lastSeq \in checkpoint[hub] .. hubSeq[hub]
      BY <2>n, <3>1 DEF Numbers, DurableInv, PullCovers
    <3>3. \A p \in Path : Changed[hub][p] <= lastSeq => applied[hub][p] >= Changed[hub][p]
      BY <2>n, <3>1 DEF Numbers, DurableInv, PullCovers
    <3> QED BY <2>n, <3>1, <3>2, <3>3 DEF Numbers, Feed!Next, Feed!Advance, hubs
  <2>6. CASE ListChanges \/ FetchFile \/ WriteFile \/ \E p \in Path : TakeEntry(p)
    <3>1. UNCHANGED <<hubs, checkpoint, applied>>
      BY <2>6 DEF ListChanges, FetchFile, WriteFile, TakeEntry, durable, history
    <3> QED BY <2>1, <3>1
  <2>7. CASE QuietStep
    BY <2>1, <2>7 DEF QuietStep
  <2> QED
    BY <2>2, <2>3, <2>4, <2>5, <2>6, <2>7, StepKinds
<1> QED
  BY <1>1, <1>2, TypeCorrect, DurableInductive, HandledInOrder, PTL
     DEF Spec, FeedSpec, Feed!Spec

=============================================================================
