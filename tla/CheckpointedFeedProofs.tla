----------------------- MODULE CheckpointedFeedProofs -----------------------
(***************************************************************************)
(* The promise of CheckpointedFeed holds for every set of hubs and paths.  *)
(***************************************************************************)
EXTENDS CheckpointedFeed, TLAPS

TypeFeed ==
  /\ head \in [Hub -> Nat]
  /\ changed \in [Hub -> [Path -> Nat]]
  /\ handled \in [Hub -> [Path -> Nat]]
  /\ checkpoint \in [Hub -> Nat]

\* A new change lies beyond every checkpoint, because none is ahead of its hub.
FeedInv ==
  /\ TypeFeed
  /\ \A h \in Hub : checkpoint[h] <= head[h]
  /\ NothingSkipped

\* Whoever follows the feed's rules may resume from a checkpoint without missing a
\* change: what makes the refinement by the engine worth having.
THEOREM FeedPromise == Spec => []NothingSkipped
<1>1. Init => FeedInv
  BY DEF Init, FeedInv, TypeFeed, NothingSkipped
<1>2. FeedInv /\ [Next]_vars => FeedInv'
  <2> SUFFICES ASSUME FeedInv, [Next]_vars PROVE FeedInv'
    OBVIOUS
  <2> USE DEF FeedInv, TypeFeed
  <2>1. ASSUME NEW h \in Hub, NEW p \in Path, Publish(h, p) PROVE FeedInv'
    <3>1. TypeFeed'
      BY <2>1 DEF Publish
    <3>2. \A k \in Hub : checkpoint'[k] <= head'[k]
      BY <2>1 DEF Publish
    <3>3. ASSUME NEW k \in Hub, NEW q \in Path, changed'[k][q] <= checkpoint'[k]
          PROVE  handled'[k][q] >= changed'[k][q]
      <4>1. checkpoint[k] <= head[k] /\ checkpoint' = checkpoint /\ handled' = handled
        BY <2>1 DEF Publish
      <4>2. CASE k = h /\ q = p
        BY <2>1, <3>3, <4>1, <4>2 DEF Publish
      <4>3. CASE ~(k = h /\ q = p)
        <5>1. changed'[k][q] = changed[k][q]
          BY <2>1, <4>3 DEF Publish
        <5> QED BY <3>3, <4>1, <5>1 DEF NothingSkipped
      <4> QED BY <4>2, <4>3
    <3> QED BY <3>1, <3>2, <3>3 DEF NothingSkipped
  <2>2. ASSUME NEW h \in Hub, NEW p \in Path, Handle(h, p) PROVE FeedInv'
    <3>1. PICK s \in handled[h][p] .. head[h] : handled' = [handled EXCEPT ![h][p] = s]
      BY <2>2 DEF Handle
    <3>2. s \in Nat /\ s >= handled[h][p]
      BY <3>1
    <3>3. TypeFeed' /\ \A k \in Hub, q \in Path : handled'[k][q] >= handled[k][q]
      BY <2>2, <3>1, <3>2 DEF Handle
    <3> QED BY <2>2, <3>3 DEF Handle, NothingSkipped
  <2>3. ASSUME NEW h \in Hub, Advance(h) PROVE FeedInv'
    <3>1. PICK s \in checkpoint[h] .. head[h] :
            /\ \A p \in Path : changed[h][p] <= s => handled[h][p] >= changed[h][p]
            /\ checkpoint' = [checkpoint EXCEPT ![h] = s]
      BY <2>3 DEF Advance
    <3>2. s \in Nat /\ s <= head[h]
      BY <3>1
    <3> QED BY <2>3, <3>1, <3>2 DEF Advance, NothingSkipped
  <2>4. CASE UNCHANGED vars
    BY <2>4 DEF vars, NothingSkipped
  <2> QED BY <2>1, <2>2, <2>3, <2>4 DEF Next
<1> QED
  BY <1>1, <1>2, PTL DEF Spec, FeedInv

=============================================================================
