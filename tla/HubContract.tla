---------------------------- MODULE HubContract ----------------------------
(***************************************************************************)
(* What one hub promises about one path: the document a client sees        *)
(* through GET /changes, GET /file and POST /changes, and the case         *)
(* distinction POST /changes makes on a pushed change.  The revision tree  *)
(* behind it (leaves, tombstones, the resolver's own writes) is the        *)
(* subject of module HubResolver; here a document has its winning revision    *)
(* only.                                                                   *)
(*                                                                         *)
(* A file's content is the set of the edits it reflects: an edit adds its  *)
(* identifier, a clean three-way merge is the union, and an edit that no   *)
(* content contains any more has been lost.                                *)
(***************************************************************************)
EXTENDS Integers

CONSTANTS Edit,    \* identifiers of the edits that users make
          Absent   \* no such file, or a tombstone

ASSUME AbsentAssumption == \A c \in SUBSET Edit : c # Absent

Content == {Absent} \cup SUBSET Edit

\* The bytes of a possibly missing file: `unwrap_or_default` of nothing is empty.
Text(c) == IF c = Absent THEN {} ELSE c

\* Revisions are numbered in the order the hubs create them.  0 is the empty
\* string: base_rev None in a request, a blind delete's result in a reply.
Rev == Nat
NoRev == 0

\* A PushChange.  The same record without its body is a queued PendingChange,
\* and "none" marks a path that has none.
Change == [op : {"none", "upsert", "delete"}, base : Rev, body : Content]
NoChange == [op |-> "none", base |-> NoRev, body |-> Absent]

(***************************************************************************)
(* A document: winning revision, its content, the update sequence of its   *)
(* last change, the revisions of its tree, and the changes that were       *)
(* branched into the tree.  A branch revision's hash is computed from the  *)
(* change alone, so it is identified with the change.                      *)
(***************************************************************************)
Doc == [rev : Rev, content : Content, seq : Nat, known : SUBSET Rev,
        branched : SUBSET Change]

NoDoc == [rev |-> NoRev, content |-> Absent, seq |-> 0, known |-> {},
          branched |-> {}]

\* get_doc answers with a document.
Live(doc) == doc.content # Absent

Written(doc, content, rev, seq) ==
  [doc EXCEPT !.rev = rev, !.content = content, !.seq = seq,
              !.known = @ \cup {rev}]

----------------------------------------------------------------------------
(* POST /changes, one change. *)

\* A delete without a base revision.
Blind(ch) == ch.op = "delete" /\ ch.base = NoRev

\* CouchDB accepts the conditioned write: put_doc without a revision creates a
\* missing or deleted document, otherwise the base must be the leaf.
CasHolds(doc, ch) ==
  \/ ch.op = "upsert" /\ ch.base = NoRev /\ ~Live(doc)
  \/ ch.op = "upsert" /\ ch.base # NoRev /\ ch.base = doc.rev
  \/ ch.op = "delete" /\ ch.base # NoRev /\ ch.base = doc.rev /\ Live(doc)

\* The write is refused for its revision and the handler branches the tree.
\* CouchDB refuses a DELETE of a deleted document before it compares revisions.
Stale(doc, ch) ==
  /\ ~Blind(ch)
  /\ ~CasHolds(doc, ch)
  /\ ch.op = "delete" => Live(doc)

\* Faulty variant: a branch needs a base, new files collide for good.
ParentedWithoutRoot(doc, ch) == ch.base \in doc.known

\* branch_and_resolve finds the parent of the branch.
Parented(doc, ch) == ch.base = NoRev \/ ch.base \in doc.known

\* The three ways a pushed change ends in an error for good: a blind delete of
\* a live document, a conditioned delete of a deleted one, and a stale change
\* that has no parent or whose branch no longer leads to a live winner.
Refused(doc, ch) ==
  \/ Blind(ch) /\ Live(doc)
  \/ ch.op = "delete" /\ ~Blind(ch) /\ ~Live(doc)
  \/ Stale(doc, ch) /\ ~Parented(doc, ch)
  \/ Stale(doc, ch) /\ Parented(doc, ch) /\ ch \in doc.branched /\ ~Live(doc)

\* What resolving an edit against another may leave: a clean merge, or the
\* newer side with the older one kept as a .conflict copy.  An edit beats a
\* tombstone.
MergeOutcomes(a, b) ==
  IF a = Absent \/ b = Absent
    THEN {[content |-> IF a = Absent THEN b ELSE a, copy |-> {}]}
    ELSE {[content |-> a \cup b, copy |-> {}]} \cup
         {m \in {[content |-> a, copy |-> b], [content |-> b, copy |-> a]} : a # b}

============================================================================
