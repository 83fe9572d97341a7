-------------------------- MODULE CheckpointedFeed --------------------------
(***************************************************************************)
(* What the engine promises about a hub's change feed, without files,      *)
(* requests or failures.  Every hub numbers its changes.  A device handles *)
(* them in any order, and may store a checkpoint, which it resumes from,   *)
(* as soon as it has handled everything the checkpoint covers.             *)
(***************************************************************************)
EXTENDS Naturals

CONSTANTS Hub, Path

VARIABLES
  head,       \* the number of changes of each hub
  changed,    \* the last change of each path at each hub
  handled,    \* how far each path is handled
  checkpoint  \* the stored checkpoint of each hub

vars == <<head, changed, handled, checkpoint>>

Init ==
  /\ head = [h \in Hub |-> 0]
  /\ changed = [h \in Hub |-> [p \in Path |-> 0]]
  /\ handled = [h \in Hub |-> [p \in Path |-> 0]]
  /\ checkpoint = [h \in Hub |-> 0]

\* A path changes; only its last change counts.
Publish(h, p) ==
  /\ head' = [head EXCEPT ![h] = @ + 1]
  /\ changed' = [changed EXCEPT ![h][p] = head[h] + 1]
  /\ UNCHANGED <<handled, checkpoint>>

\* The device catches up with a path, no matter whether it has changed.
Handle(h, p) ==
  /\ \E s \in handled[h][p] .. head[h] : handled' = [handled EXCEPT ![h][p] = s]
  /\ UNCHANGED <<head, changed, checkpoint>>

\* A checkpoint covers nothing unhandled and never moves back.
Advance(h) ==
  /\ \E s \in checkpoint[h] .. head[h] :
       /\ \A p \in Path : changed[h][p] <= s => handled[h][p] >= changed[h][p]
       /\ checkpoint' = [checkpoint EXCEPT ![h] = s]
  /\ UNCHANGED <<head, changed, handled>>

Next == \E h \in Hub : Advance(h) \/ \E p \in Path : Publish(h, p) \/ Handle(h, p)

Spec == Init /\ [][Next]_vars

\* Resuming from the checkpoint skips nothing: what it covers is handled.
NothingSkipped ==
  \A h \in Hub, p \in Path :
    changed[h][p] <= checkpoint[h] => handled[h][p] >= changed[h][p]

=============================================================================
