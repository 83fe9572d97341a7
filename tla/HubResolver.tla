---------------------------- MODULE HubResolver ----------------------------
(***************************************************************************)
(* One hub and one path: the push handler (routes/push.rs), the file route *)
(* (routes/file.rs), the conflict resolver (resolver.rs) and the change    *)
(* watcher (watcher.rs) over the path's revision tree in CouchDB.  One     *)
(* step is one CouchDB request, so requests of different devices and the   *)
(* watcher interleave between any two of them.                             *)
(*                                                                         *)
(* CouchDB is external, modelled from the way couch.rs uses it: a write is *)
(* conditioned on a leaf and appends a revision; a body written without    *)
(* its attachment has none; the winner is a live leaf before a tombstone,  *)
(* then the higher generation, then the higher hash; only live losing      *)
(* leaves are conflicts.  A request may also fail altogether, with a 5xx   *)
(* or a timeout, and the hub may crash, MaxFaults times between them.      *)
(***************************************************************************)
EXTENDS Integers, Sequences, FiniteSets

CONSTANTS
  Device,      \* devices that push and read
  Watcher,     \* the change watcher
  Missing,     \* a revision without its attachment
  Clash,       \* pairs of edits that diff3 cannot merge
  TornReads,   \* whether a write may fall between the two requests of GET /file
  MaxPushes,   \* bound: pushes
  MaxDeletes,  \* bound: how many of them are deletes
  MaxRepeats,  \* bound: pushes sent again after an error or a lost reply
  MaxRetries,  \* MAX_RETRIES of the resolver
  Polling,     \* whether the watcher polls, or is slower than everything else
  MaxFaults    \* bound: failed CouchDB requests and crashes of the hub process

Edit == 1..MaxPushes
Process == Device \cup {Watcher}

ASSUME HubAssumption ==
  /\ Watcher \notin Device
  /\ \A c \in SUBSET Edit : c # Missing
  /\ \A pair \in Clash : pair \subseteq Edit
  /\ MaxPushes \in Nat /\ MaxDeletes \in Nat /\ MaxRepeats \in Nat
  /\ MaxRetries \in Nat \ {0} /\ MaxFaults \in Nat
  /\ Polling \in BOOLEAN /\ TornReads \in BOOLEAN

VARIABLES
  tree,     \* the path's revisions in the order they were stored
  copies,   \* contents of its .conflict files, in the order of their names
  task,     \* what each request handler, and the watcher, is doing
  dev,      \* what each device read last
  unseen,   \* the change feed has entries above the watcher's since
  edits,    \* edits made so far
  acked,    \* edits whose push was answered with a revision
  retired,  \* edits in content that a device deleted
  deletes, repeats, faults

vars == <<tree, copies, task, dev, unseen, edits, acked, retired, deletes, repeats, faults>>
feed == <<tree, unseen>>
stored == <<tree, copies, unseen>>
bounds == <<deletes, repeats, faults>>
history == <<edits, acked, retired>>

Text(c) == IF c = Missing THEN {} ELSE c

----------------------------------------------------------------------------
(* The revision tree. *)

Node == 1..Len(tree)
NoRev == 0

Leaf == Node \ {tree[m].parent : m \in Node}
Live == {n \in Leaf : ~tree[n].dead}

\* CouchDB's order of two leaves of which both or neither are live.
Ahead(n, m) == \/ tree[n].gen > tree[m].gen
               \/ tree[n].gen = tree[m].gen /\ tree[n].rank > tree[m].rank

Best(S) == CHOOSE n \in S : \A m \in S \ {n} : Ahead(n, m)

\* get_doc: the winning revision, none if there is no document or a tombstone won.
Found == Live # {}
Winner == IF Found THEN Best(Live) ELSE IF Leaf # {} THEN Best(Leaf) ELSE NoRev
Conflicts == Live \ {Winner}

NoTag == [op |-> "none", base |-> NoRev, text |-> {}]

Gen(parent) == IF parent = NoRev THEN 1 ELSE tree[parent].gen + 1

\* A live revision's hash is above or below those of the live leaves it is compared to.
Rank(gen, dead) ==
  LET n == Len(tree) + 1
  IN IF ~dead /\ \E m \in Live : tree[m].gen = gen THEN {n, -n} ELSE {n}

NewRev == Len(tree) + 1

\* _revisions: the new revision and those it descends from.
Revisions(parent) == {NewRev} \cup (IF parent = NoRev THEN {} ELSE tree[parent].revisions)

\* CouchDB stores a revision, and its change feed says so.
Store(parent, dead, content, tag) ==
  /\ unseen' = TRUE
  /\ \E rank \in Rank(Gen(parent), dead) :
       tree' = Append(tree, [parent |-> parent, gen |-> Gen(parent), rank |-> rank,
                          dead |-> dead, content |-> content, tag |-> tag,
                          revisions |-> Revisions(parent)])

\* diff3::common_ancestor: the deepest shared revision, and its content; there is
\* none for independent roots, and an unreadable one counts as empty, ...
AncestorText(n, m) ==
  LET shared == tree[n].revisions \cap tree[m].revisions
      deepest == CHOOSE a \in shared : \A b \in shared : b <= a
  IN IF shared = {} THEN {} ELSE Text(tree[deepest].content)

\* ... whatever the reason: a failed read of it is no error.
Ancestors(n, m) == {AncestorText(n, m)} \cup (IF MaxFaults = 0 THEN {} ELSE {{}})

\* diff3::merge is clean unless both sides changed the same place differently.
Mergeable(o, a, b) ==
  a = b \/ ~\E x \in a \ o, y \in b \ o : {x, y} \in Clash

Merge(o, a, b) == (a \cap b) \cup (a \ o) \cup (b \ o)

\* Edit times follow the edits' numbers.
Mtime(c) == IF c = {} THEN 0 ELSE CHOOSE e \in c : \A f \in c : f <= e

----------------------------------------------------------------------------
(* Tasks. *)

Idle == [at |-> "idle", op |-> "none", base |-> NoRev, text |-> {}, new |-> NoRev,
         loop |-> "read", tries |-> 0, top |-> NoRev, final |-> {},
         copy |-> <<>>, slot |-> 0, losers |-> {}]

Goto(q, at) == task' = [task EXCEPT ![q].at = at]

At(q, at) == task[q].at = at

\* The change that a task pushes; its branch revision's hash is made from it.
Tag(q) == [op |-> task[q].op, base |-> task[q].base, text |-> task[q].text]

\* A handler that answers or fails is over; the device keeps what it pushed.
Finished(q, at) == [Idle EXCEPT !.at = at, !.op = task[q].op, !.base = task[q].base,
                                !.text = task[q].text]

\* 409 or 502: the device keeps the change queued.
Reject(q) == task' = [task EXCEPT ![q] = Finished(q, "rejected")]

\* 200 with a revision.
Answer(q) ==
  /\ task' = [task EXCEPT ![q] = Finished(q, "answered")]
  /\ acked' = acked \cup task[q].text

----------------------------------------------------------------------------
(* Devices: GET /file and POST /changes. *)

\* A device that has to read the path before it can push.
Unread == [at |-> "stale", base |-> NoRev, text |-> {}]

MayRead(d) ==
  /\ At(d, "idle") \/ At(d, "answered")
  /\ dev[d].at = "stale" /\ edits < MaxPushes
  /\ Found

\* get_file reads the winning document, for its revision ...
GetDoc(d) ==
  /\ TornReads /\ MayRead(d)
  /\ dev' = [dev EXCEPT ![d] = [at |-> "reading", base |-> Winner, text |-> {}]]
  /\ UNCHANGED <<stored, task, history, bounds>>

\* ... and then the attachment of whatever wins by now.
GetAttachment(d) ==
  /\ dev[d].at = "reading"
  /\ dev' = [dev EXCEPT ![d] =
       IF Found /\ tree[Winner].content # Missing
         THEN [at |-> "read", base |-> dev[d].base, text |-> tree[Winner].content]
         ELSE Unread]
  /\ UNCHANGED <<stored, task, history, bounds>>

\* Both requests with nothing in between.
GetFile(d) ==
  /\ MayRead(d) /\ tree[Winner].content # Missing
  /\ dev' = [dev EXCEPT ![d] = [at |-> "read", base |-> Winner, text |-> tree[Winner].content]]
  /\ UNCHANGED <<stored, task, history, bounds>>

MayPush(d) ==
  /\ At(d, "idle") \/ At(d, "answered")
  /\ dev[d].at = "read" /\ edits < MaxPushes

Push(d, op, text) ==
  /\ edits' = edits + 1
  /\ task' = [task EXCEPT ![d] = [Idle EXCEPT !.at = "put", !.op = op,
                                   !.base = dev[d].base, !.text = text]]
  /\ dev' = [dev EXCEPT ![d] = Unread]

PushUpsert(d) ==
  /\ MayPush(d)
  /\ Push(d, "upsert", dev[d].text \cup {edits + 1})
  /\ UNCHANGED <<stored, acked, retired, bounds>>

PushDelete(d) ==
  /\ MayPush(d) /\ dev[d].base # NoRev /\ deletes < MaxDeletes
  /\ Push(d, "delete", {})
  /\ deletes' = deletes + 1
  /\ retired' = retired \cup dev[d].text
  /\ UNCHANGED <<stored, acked, repeats, faults>>

\* The push is sent again: it was refused, or its reply was lost.
Repeat(d) ==
  /\ At(d, "rejected") \/ At(d, "answered")
  /\ repeats < MaxRepeats
  /\ repeats' = repeats + 1
  /\ task' = [task EXCEPT ![d] = Finished(d, "put")]
  /\ UNCHANGED <<stored, dev, history, deletes, faults>>

----------------------------------------------------------------------------
(* push.rs *)

\* put_doc without a revision creates the document, on top of a winning tombstone.
CasHolds(base) == IF base = NoRev THEN ~Found ELSE base \in Leaf

CasParent(base) == IF base = NoRev THEN Winner ELSE base

\* apply_upsert: put_doc; the body carries no attachment yet.
PutDoc(d) ==
  /\ At(d, "put") /\ task[d].op = "upsert"
  /\ \/ /\ CasHolds(task[d].base)
        /\ Store(CasParent(task[d].base), FALSE, Missing, NoTag)
        /\ task' = [task EXCEPT ![d].at = "attach", ![d].new = NewRev]
     \/ /\ ~CasHolds(task[d].base)
        /\ Goto(d, "branch")
        /\ UNCHANGED feed
  /\ UNCHANGED <<copies, dev, history, bounds>>

\* put_attachment on the revision put_doc returned; a conflict here is an error.
PutAttachment(d) ==
  /\ At(d, "attach")
  /\ \/ /\ task[d].new \in Leaf
        /\ Store(task[d].new, FALSE, task[d].text, NoTag)
        /\ Answer(d)
     \/ task[d].new \notin Leaf /\ Reject(d) /\ UNCHANGED <<feed, acked>>
  /\ UNCHANGED <<copies, dev, edits, retired, bounds>>

\* apply_delete with a base revision.  CouchDB answers 404 when a tombstone
\* already won, which is an error; a stale base is branched.
DeleteDoc(d) ==
  /\ At(d, "put") /\ task[d].op = "delete"
  /\ \/ /\ Found /\ task[d].base \in Leaf
        /\ Store(task[d].base, TRUE, Missing, NoTag)
        /\ Answer(d)
     \/ /\ Found /\ task[d].base \notin Leaf
        /\ Goto(d, "branch")
        /\ UNCHANGED <<feed, acked>>
     \/ ~Found /\ Reject(d) /\ UNCHANGED <<feed, acked>>
  /\ UNCHANGED <<copies, dev, edits, retired, bounds>>

\* branch_and_resolve: the change becomes a revision of its own next to the
\* current ones, unless an earlier attempt already put it there.
PutRevision(d) ==
  /\ At(d, "branch")
  /\ \/ /\ \A n \in Node : tree[n].tag # Tag(d)
        /\ Store(task[d].base, task[d].op = "delete",
                 IF task[d].op = "delete" THEN Missing ELSE task[d].text, Tag(d))
     \/ (\E n \in Node : tree[n].tag = Tag(d)) /\ UNCHANGED feed
  /\ Goto(d, "read")
  /\ UNCHANGED <<copies, dev, history, bounds>>

\* After resolving, the winner's revision is the answer.
AnswerWinner(d) ==
  /\ At(d, "winner")
  /\ \/ Found /\ Answer(d)
     \/ ~Found /\ Reject(d) /\ UNCHANGED acked
  /\ UNCHANGED <<stored, dev, edits, retired, bounds>>

----------------------------------------------------------------------------
(* watcher.rs *)

\* Faulty variant: conflicts are not noticed.
PollBlindly ==
  /\ Polling /\ At(Watcher, "idle") /\ unseen
  /\ unseen' = FALSE
  /\ UNCHANGED <<tree, copies, task, dev, history, bounds>>

\* changes_with_docs: a conflict of the winning document starts the resolver.  The
\* watcher's position passes the entry whatever the resolver's outcome is.
Poll ==
  /\ Polling /\ At(Watcher, "idle") /\ unseen
  /\ unseen' = FALSE
  /\ \/ Conflicts # {} /\ Goto(Watcher, "read")
     \/ Conflicts = {} /\ UNCHANGED task
  /\ UNCHANGED <<tree, copies, dev, history, bounds>>

----------------------------------------------------------------------------
(* resolver.rs *)

\* A task of the resolver that has no plan.
Unplanned(q, at) == [Finished(q, at) EXCEPT !.loop = task[q].loop, !.tries = task[q].tries]

\* resolve returns Ok: push.rs goes on to read the winner.
Resolved(q) ==
  task' = [task EXCEPT ![q] = IF q = Watcher THEN Idle ELSE Finished(q, "winner")]

\* resolve returns an error: push.rs reports a conflict, the watcher only logs it.
Unresolved(q) ==
  task' = [task EXCEPT ![q] = IF q = Watcher THEN Idle ELSE Finished(q, "rejected")]

\* Faulty variant: one retry too many.
RetryOnceMore(q) ==
  \/ /\ task[q].tries < MaxRetries
     /\ task' = [task EXCEPT ![q] = [Unplanned(q, task[q].loop) EXCEPT !.tries = @ + 1]]
  \/ task[q].tries = MaxRetries /\ Unresolved(q)

\* A 409 of any write: read everything again, MaxRetries times at most.
Retry(q) ==
  \/ /\ task[q].tries + 1 < MaxRetries
     /\ task' = [task EXCEPT ![q] = [Unplanned(q, task[q].loop) EXCEPT !.tries = @ + 1]]
  \/ task[q].tries + 1 = MaxRetries /\ Unresolved(q)

\* The plan: the revision to write on, the content, the copies, the losers.
Planned(q, top, final, copy, losers) ==
  task' = [task EXCEPT ![q].at = IF copy = <<>> THEN "write" ELSE "copy",
                       ![q].top = top, ![q].final = final,
                       ![q].copy = copy, ![q].losers = losers]

\* Faulty variant: the newer side wins without a copy of the older one.
PlanEditsNoCopy(q, other) ==
  LET a == tree[Winner].content
      b == tree[other].content
      o == AncestorText(Winner, other)
  IN \/ Mergeable(o, a, b) /\ Planned(q, Winner, Merge(o, a, b), <<>>, {other})
     \/ /\ ~Mergeable(o, a, b)
        /\ Planned(q, Winner, IF Mtime(a) >= Mtime(b) THEN a ELSE b, <<>>, {other})

\* plan_edit_vs_edit: merge, or keep the newer side and copy the older one.
PlanEdits(q, other) ==
  LET a == tree[Winner].content
      b == tree[other].content
  IN \E o \in Ancestors(Winner, other) :
       \/ Mergeable(o, a, b) /\ Planned(q, Winner, Merge(o, a, b), <<>>, {other})
       \/ /\ ~Mergeable(o, a, b) /\ Mtime(a) >= Mtime(b)
          /\ Planned(q, Winner, a, <<b>>, {other})
       \/ /\ ~Mergeable(o, a, b) /\ Mtime(a) < Mtime(b)
          /\ Planned(q, Winner, b, <<a>>, {other})

\* Any number of further live leaves: the winner stays, the rest become copies.
PlanMany(q) ==
  \E order \in [1..Cardinality(Conflicts) -> Conflicts] :
    /\ \A i, j \in DOMAIN order : order[i] < order[j] <=> i < j
    /\ Planned(q, Winner, tree[Winner].content,
               [i \in DOMAIN order |-> tree[order[i]].content], Conflicts)

\* resolve: read the winner and every conflicting leaf, and plan.
ReadLeaves(q) ==
  /\ At(q, "read")
  /\ \/ /\ ~Found
        /\ task' = [task EXCEPT ![q].at = "leaves", ![q].loop = "leaves", ![q].tries = 0]
     \/ Found /\ Conflicts = {} /\ Resolved(q)
     \/ /\ Conflicts # {}
        /\ \E n \in Live : tree[n].content = Missing
        /\ Unresolved(q)
     \/ /\ Conflicts # {}
        /\ \A n \in Live : tree[n].content # Missing
        /\ \/ \E other \in Conflicts : Conflicts = {other} /\ PlanEdits(q, other)
           \/ Cardinality(Conflicts) > 1 /\ PlanMany(q)
  /\ UNCHANGED <<stored, dev, history, bounds>>

\* resolve_delete_winner: get_doc found nothing, but a live leaf may be there by
\* now.  The content of every leaf is read first; then the newest live one is
\* written on top of a tombstone.
ReadAllLeaves(q) ==
  /\ At(q, "leaves")
  /\ \/ Cardinality(Leaf) < 2 /\ Resolved(q)
     \/ /\ Cardinality(Leaf) > 1
        /\ \E n \in Live : tree[n].content = Missing
        /\ Unresolved(q)
     \/ /\ Cardinality(Leaf) > 1 /\ Live \in {{}, Leaf}
        /\ \A n \in Live : tree[n].content # Missing
        /\ Resolved(q)
     \/ /\ Cardinality(Leaf) > 1 /\ Live \notin {{}, Leaf}
        /\ \A n \in Live : tree[n].content # Missing
        /\ \E n \in Live, t \in Leaf \ Live :
             /\ \A m \in Live : Mtime(tree[m].content) <= Mtime(tree[n].content)
             /\ \A m \in Leaf \ Live : tree[m].gen <= tree[t].gen
             /\ Planned(q, t, tree[n].content, <<>>, Leaf \ {t})
  /\ UNCHANGED <<stored, dev, history, bounds>>

\* conflict_copy_path: the first free name.
CopyName(q) ==
  /\ At(q, "copy")
  /\ task' = [task EXCEPT ![q].at = "copydoc", ![q].slot = Len(copies) + 1]
  /\ UNCHANGED <<stored, dev, history, bounds>>

\* put_doc without a revision: 409 if another resolver took the name.
CopyDoc(q) ==
  /\ At(q, "copydoc")
  /\ \/ /\ task[q].slot = Len(copies) + 1
        /\ copies' = Append(copies, Missing)
        /\ Goto(q, "copyatt")
     \/ task[q].slot <= Len(copies) /\ Retry(q) /\ UNCHANGED copies
  /\ UNCHANGED <<tree, dev, unseen, history, bounds>>

\* Faulty variant: the copy's content is not uploaded.
CopyAttachmentSkipped(q) ==
  /\ At(q, "copyatt")
  /\ task' = [task EXCEPT ![q].at = IF Tail(task[q].copy) = <<>> THEN "write" ELSE "copy",
                          ![q].copy = Tail(task[q].copy)]
  /\ UNCHANGED <<tree, copies, dev, unseen, history, bounds>>

\* put_attachment on the copy just created, then the next copy or the write.
CopyAttachment(q) ==
  /\ At(q, "copyatt")
  /\ copies' = [copies EXCEPT ![task[q].slot] = Head(task[q].copy)]
  /\ task' = [task EXCEPT ![q].at = IF Tail(task[q].copy) = <<>> THEN "write" ELSE "copy",
                          ![q].copy = Tail(task[q].copy)]
  /\ UNCHANGED <<tree, dev, unseen, history, bounds>>

\* Faulty variant: the body is taken to keep its attachment.
WriteDocOnly(q) ==
  /\ At(q, "write")
  /\ \/ /\ task[q].top \in Leaf
        /\ Store(task[q].top, FALSE, Missing, NoTag)
        /\ Goto(q, "drop")
     \/ task[q].top \notin Leaf /\ Retry(q) /\ UNCHANGED feed
  /\ UNCHANGED <<copies, dev, history, bounds>>

\* apply_plan writes the resolved body on the winner it read ...
WriteDoc(q) ==
  /\ At(q, "write")
  /\ \/ /\ task[q].top \in Leaf
        /\ Store(task[q].top, FALSE, Missing, NoTag)
        /\ task' = [task EXCEPT ![q].at = "writeatt", ![q].new = NewRev]
     \/ task[q].top \notin Leaf /\ Retry(q) /\ UNCHANGED feed
  /\ UNCHANGED <<copies, dev, history, bounds>>

\* ... then its content ...
WriteAttachment(q) ==
  /\ At(q, "writeatt")
  /\ \/ /\ task[q].new \in Leaf
        /\ Store(task[q].new, FALSE, task[q].final, NoTag)
        /\ Goto(q, "drop")
     \/ task[q].new \notin Leaf /\ Retry(q) /\ UNCHANGED feed
  /\ UNCHANGED <<copies, dev, history, bounds>>

\* ... and deletes the losing leaves, one request each: 404 when a tombstone won by
\* now, 409 when the loser is no leaf any more.
DropLoser(q) ==
  /\ At(q, "drop")
  /\ \E n \in task[q].losers :
       \/ /\ Found /\ n \in Leaf
          /\ Store(n, TRUE, Missing, NoTag)
          /\ \/ task[q].losers = {n} /\ Resolved(q)
             \/ task[q].losers # {n} /\ task' = [task EXCEPT ![q].losers = @ \ {n}]
       \/ Found /\ n \notin Leaf /\ Retry(q) /\ UNCHANGED feed
       \/ ~Found /\ Unresolved(q) /\ UNCHANGED feed
  /\ UNCHANGED <<copies, dev, history, bounds>>

----------------------------------------------------------------------------
Running(q) == task[q].at \notin {"idle", "answered", "rejected"}

\* A request to CouchDB fails with a 5xx or a timeout.  No retry: push.rs answers
\* 502 or 409, the watcher logs the error and is past the entry.  What was stored
\* before stays; a request that was carried out and whose reply failed is the
\* request's own step and then this one.
CouchFails(q) ==
  /\ Running(q) /\ faults < MaxFaults
  /\ faults' = faults + 1
  /\ Unresolved(q)
  /\ UNCHANGED <<stored, dev, history, deletes, repeats>>

\* The hub process dies: its requests end without an answer, and the watcher
\* starts again at since=now.
Crash ==
  /\ faults < MaxFaults
  /\ faults' = faults + 1
  /\ task' = [q \in Process |-> IF q = Watcher THEN Idle
                                ELSE IF Running(q) THEN Finished(q, "rejected") ELSE task[q]]
  /\ unseen' = FALSE
  /\ UNCHANGED <<tree, copies, dev, history, deletes, repeats>>

Root == [parent |-> NoRev, gen |-> 1, rank |-> 1, dead |-> FALSE, content |-> {}, tag |-> NoTag,
         revisions |-> {1}]

\* The file is new to all, or some devices have read the same revision of it.
Init ==
  /\ tree \in {<<>>, <<Root>>}
  /\ copies = <<>>
  /\ task = [q \in Process |-> Idle]
  /\ dev \in [Device -> {[at |-> "read", base |-> Len(tree), text |-> {}]} \cup
                         (IF tree = <<>> THEN {} ELSE {Unread})]
  /\ unseen = FALSE
  /\ edits = 0 /\ acked = {} /\ retired = {}
  /\ deletes = 0 /\ repeats = 0 /\ faults = 0

Handle(d) == PutDoc(d) \/ PutAttachment(d) \/ DeleteDoc(d) \/ PutRevision(d) \/ AnswerWinner(d)

Resolve(q) == \/ ReadLeaves(q) \/ ReadAllLeaves(q) \/ CopyName(q) \/ CopyDoc(q)
              \/ CopyAttachment(q) \/ WriteDoc(q) \/ WriteAttachment(q)
              \/ DropLoser(q)

Client(d) == GetDoc(d) \/ GetAttachment(d) \/ GetFile(d) \/ PushUpsert(d) \/ PushDelete(d) \/ Repeat(d)

Next == \/ \E d \in Device : Client(d) \/ Handle(d)
        \/ \E q \in Process : Resolve(q) \/ CouchFails(q)
        \/ Poll
        \/ Crash

Spec == Init /\ [][Next]_vars

\* Requests are served and the watcher polls on.
FairSpec ==
  /\ Spec
  /\ \A d \in Device : WF_vars(Handle(d))
  /\ \A q \in Process : WF_vars(Resolve(q))
  /\ WF_vars(Poll)

----------------------------------------------------------------------------
(* Properties. *)

\* Type invariant.  A revision hangs below an older one and a tombstone has no
\* attachment; a plan names revisions that exist, and resolve gives up after its
\* last attempt (`for _ in 0..MAX_RETRIES`).
TypeOK ==
  /\ \A n \in Node : /\ tree[n].parent \in 0..(n - 1)
                     /\ tree[n].content \in {Missing} \cup SUBSET Edit
                     /\ tree[n].dead => tree[n].content = Missing
  /\ \A i \in DOMAIN copies : copies[i] \in {Missing} \cup SUBSET Edit
  /\ \A q \in Process : /\ task[q].base \in 0..Len(tree)
                        /\ task[q].top \in 0..Len(tree)
                        /\ task[q].losers \subseteq Node
                        /\ task[q].tries \in 0..(MaxRetries - 1)
  /\ unseen \in BOOLEAN
  /\ acked \subseteq Edit /\ retired \subseteq Edit

\* No request and no resolution is under way.
Quiet == \A q \in Process : ~Running(q)

InCopies == UNION {Text(copies[i]) : i \in DOMAIN copies}
InLive == UNION {Text(tree[n].content) : n \in Live}

\* An edit the hub has acknowledged is in a live revision, in a conflict copy, or
\* in content somebody deleted: neither a stale push, nor a merge, nor two
\* resolvers at work on the same conflict discard it.
NothingLost == Quiet => acked \subseteq InLive \cup InCopies \cup retired

\* Whenever the hub is at rest, GET /file can serve the winner: put_doc's revision
\* without an attachment is never left on top.
WinnerReadable == Quiet /\ Found => tree[Winner].content # Missing

\* A crash between put_doc and put_attachment "just looks like a stale attachment
\* a retry with the current rev fixes": when a push ends with no other one waiting to
\* be sent again, and not by a fault of its own, the winner can be read.
RetryHeals ==
  [][\A d \in Device :
       /\ Running(d) /\ Quiet' /\ UNCHANGED faults
       /\ \A c \in Device \ {d} : ~At(c, "rejected")
       => WinnerReadable']_vars

\* A crash, or a request that CouchDB fails, leaves at worst a body without its
\* attachment on top of the content: what was acknowledged is still held by a leaf,
\* a copy, or the revision right below such a body.
Recoverable ==
  Quiet => acked \subseteq InLive \cup InCopies \cup retired
             \cup UNION {Text(tree[tree[n].parent].content) :
                           n \in {m \in Live : tree[m].content = Missing /\ tree[m].parent # NoRev}}

\* Every conflict is resolved in the end.
ConflictsEnd == <>[](Conflicts = {})

============================================================================
