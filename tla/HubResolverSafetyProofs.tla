--------------------- MODULE HubResolverSafetyProofs ---------------------
(***************************************************************************)
(* No acknowledged edit is lost on a hub, for any number of devices,       *)
(* pushes, repeated requests and retries, provided that GET /file reads    *)
(* one revision (TornReads = FALSE) and that resolve_delete_winner never   *)
(* has several live leaves to choose from (PicksOne).                      *)
(***************************************************************************)
EXTENDS HubResolverProofs

\* resolve_delete_winner keeps the newest of several live leaves and drops the others.
PicksOne ==
  \E q \in Process : At(q, "leaves") /\ task'[q].at = "write" /\ \E n, m \in Live : n # m

(***************************************************************************)
(* The argument.  A revision holds what its ancestors hold, or the rest is *)
(* in a copy or was deleted by somebody (Inherit): this is what makes the  *)
(* merge with the common ancestor safe.  What any revision holds, a live   *)
(* leaf that is not older holds too, or, if that is a body still without   *)
(* its attachment, the revision below it does (Covered).  The order of     *)
(* ages is what rules out two resolvers that each delete the leaf the      *)
(* other relies on: a resolver writes first and then drops leaves that are *)
(* older than what it wrote (PlanInv).                                     *)
(***************************************************************************)
Words(n) == Text(tree[n].content)
Readable(n) == tree[n].content # Missing
Closed(n) == tree[n].dead \/ Readable(n)
Kept == InCopies \cup retired

\* What a leaf holds, or will hold when the attachment is there.
Held(n) == IF Readable(n) \/ tree[n].parent = NoRev THEN Words(n) ELSE Words(tree[n].parent)

Linked ==
  \A n \in Node : /\ n \in tree[n].revisions
                  /\ tree[n].parent # NoRev => tree[n].parent \in tree[n].revisions
                  /\ tree[n].tag.op = "upsert" => tree[n].content = tree[n].tag.text

Inherit ==
  \A n \in Node : Readable(n) => \A a \in tree[n].revisions : Words(a) \subseteq Words(n) \cup Kept

Covered ==
  \A w \in Node : \A e \in Words(w) : e \in Kept \/ \E m \in Live : m >= w /\ e \in Held(m)

AckedStored == \A e \in acked : \E n \in Node : e \in Words(n)

\* What a device read is a revision's content, from one moment.
ReadsWhole ==
  \A d \in Device :
    /\ dev[d].at # "reading"
    /\ dev[d].at = "read" =>
         \/ dev[d].base = NoRev /\ dev[d].text = {}
         \/ dev[d].base \in Node /\ tree[dev[d].base].content = dev[d].text

\* A body that waits for its attachment.
Body(n, text) ==
  /\ n \in Node /\ ~Readable(n)
  /\ \A a \in tree[n].revisions : Words(a) \subseteq text \cup Kept

Resolving == {"idle", "read", "leaves", "copy", "copydoc", "copyatt", "write", "writeatt",
              "drop", "winner"}

\* A pushed change has what its base has, or deletes it knowingly.
SentInv(q) ==
  /\ task[q].op = "upsert" =>
       \/ task[q].base = NoRev
       \/ /\ task[q].base \in Node /\ Readable(task[q].base)
          /\ Words(task[q].base) \subseteq task[q].text
  /\ task[q].op = "delete" =>
       /\ task[q].base \in Node /\ task[q].text = {} /\ Readable(task[q].base)
       /\ Words(task[q].base) \subseteq retired

PushInv(q) ==
  /\ task[q].at = "branch" => task[q].base \notin Leaf /\ task[q].op # "none"
  /\ task[q].at = "attach" => Body(task[q].new, task[q].text)
  /\ task[q].at \in Resolving =>
       task[q].text = {} \/ \E n \in Node : tree[n].content = task[q].text

Planning == {"copy", "copydoc", "copyatt", "write"}

PlanInv(q) ==
  /\ task[q].at \in Planning =>
       /\ task[q].top \in Node /\ Closed(task[q].top)
       /\ \A n \in task[q].losers : Closed(n)
       /\ \A n \in task[q].losers \cup tree[task[q].top].revisions :
            Words(n) \subseteq task[q].final \cup InPlan(task[q].copy) \cup Kept
       /\ task[q].at = "write" => task[q].copy = <<>>
  /\ task[q].at = "writeatt" =>
       /\ Body(task[q].new, task[q].final)
       /\ \A n \in task[q].losers :
            n < task[q].new /\ Closed(n) /\ Words(n) \subseteq task[q].final \cup Kept
  /\ task[q].at = "drop" =>
       \E w \in Node : /\ ~tree[w].dead
                       /\ \A n \in task[q].losers :
                            n < w /\ Closed(n) /\ Words(n) \subseteq Words(w) \cup Kept

\* No two resolvers write the same copy.
Slots ==
  \A q \in Process :
    /\ task[q].at = "copydoc" => task[q].slot \in 1..(Len(copies) + 1)
    /\ task[q].at = "copyatt" =>
         /\ task[q].slot \in 1..Len(copies) /\ copies[task[q].slot] = Missing
         /\ \A r \in Process \ {q} : task[r].at = "copyatt" => task[r].slot # task[q].slot

TasksInv == \A q \in Process : SentInv(q) /\ PushInv(q) /\ PlanInv(q)

TreeSafe == Linked /\ Inherit /\ Covered

SafeInv == TreeSafe /\ AckedStored /\ ReadsWhole /\ TasksInv /\ Slots

----------------------------------------------------------------------------
(* Revisions are never changed: what is said of them stays true. *)

Grown ==
  /\ Node \subseteq Node' /\ Leaf' \cap Node \subseteq Leaf
  /\ \A n \in Node : tree'[n] = tree[n]
  /\ Kept \subseteq Kept' /\ retired \subseteq retired'

LEMMA TextIs ==
  /\ Text(Missing) = {} /\ \A c \in SUBSET Edit : Text(c) = c /\ c # Missing
BY HubAssumption DEF Text

LEMMA NodeIs ==
  ASSUME TreeOK, NEW n \in Node
  PROVE  /\ n \in Nat /\ tree[n].revisions \subseteq Node
         /\ (tree[n].parent # NoRev => tree[n].parent \in Node)
         /\ (Readable(n) => Words(n) = tree[n].content /\ ~tree[n].dead)
         /\ (~Readable(n) => Words(n) = {})
         /\ Words(n) \subseteq Edit
<1>1. tree[n] \in Revision /\ Len(tree) \in Nat /\ n \in 1..Len(tree)
  BY DEF TreeOK, Node
<1>2. /\ tree[n].parent \in 0..(n - 1) /\ tree[n].revisions \subseteq 1..n
      /\ (tree[n].dead => tree[n].content = Missing) /\ tree[n].content \in Content
  BY <1>1 DEF TreeOK, Revision
<1> QED
  BY <1>1, <1>2, TextIs DEF Node, NoRev, Readable, Words, Text, Content

LEMMA SameTree ==
  ASSUME UNCHANGED <<tree, retired>>, Kept \subseteq Kept'
  PROVE  Grown /\ Node' = Node /\ Leaf' = Leaf /\ Live' = Live
BY SameLive DEF Grown

LEMMA AddedGrown ==
  ASSUME TreeOK, NEW p, NEW dead, NEW c, NEW tag, Added(p, dead, c, tag),
         UNCHANGED <<copies, retired>>
  PROVE  Grown /\ Kept' = Kept
<1>1. Kept' = Kept
  BY DEF Kept, InCopies
<1> QED
  BY <1>1 DEF Added, Grown

LEMMA GrownNode ==
  ASSUME TreeOK, Grown, NEW n \in Node
  PROVE  /\ n \in Node' /\ Words(n)' = Words(n) /\ (Readable(n)' <=> Readable(n))
         /\ (Closed(n)' <=> Closed(n)) /\ tree'[n] = tree[n]
         /\ Held(n)' = Held(n)
<1>1. n \in Node' /\ tree'[n] = tree[n]
  BY DEF Grown
<1>2. Words(n)' = Words(n) /\ (Readable(n)' <=> Readable(n)) /\ (Closed(n)' <=> Closed(n))
  BY <1>1 DEF Words, Readable, Closed
<1>3. tree[n].parent # NoRev => Words(tree[n].parent)' = Words(tree[n].parent)
  <2>1. tree[n].parent # NoRev => tree'[tree'[n].parent] = tree[tree[n].parent]
    BY <1>1, NodeIs DEF Grown
  <2> QED BY <2>1 DEF Words
<1>4. Held(n)' = Held(n)
  BY <1>1, <1>2, <1>3 DEF Held
<1> QED
  BY <1>1, <1>2, <1>4

LEMMA BodyStays ==
  ASSUME TreeOK, Grown, NEW n, NEW text, Body(n, text)
  PROVE  /\ n \in Node' /\ ~Readable(n)'
         /\ \A a \in tree'[n].revisions : Words(a)' \subseteq text \cup Kept'
<1>1. n \in Node /\ ~Readable(n) /\ \A a \in tree[n].revisions : Words(a) \subseteq text \cup Kept
  BY DEF Body
<1>2. tree'[n] = tree[n] /\ n \in Node' /\ ~Readable(n)' /\ tree[n].revisions \subseteq Node
  BY <1>1, GrownNode, NodeIs
<1>3. \A a \in tree[n].revisions : Words(a)' = Words(a)
  BY <1>2, GrownNode
<1> QED
  BY <1>1, <1>2, <1>3 DEF Grown

\* The pushed change of a task: it stays what it is, or is dropped with the task.
LEMMA SentStays ==
  ASSUME TypeInv, Grown, NEW q \in Process, SentInv(q),
         \/ /\ task'[q].op = task[q].op /\ task'[q].base = task[q].base
            /\ task'[q].text = task[q].text
         \/ task'[q].op = "none"
  PROVE  SentInv(q)'
<1>1. CASE task'[q].op = "none"
  BY <1>1 DEF SentInv
<1>2. CASE /\ task'[q].op = task[q].op /\ task'[q].base = task[q].base
           /\ task'[q].text = task[q].text
  <2> DEFINE b == task[q].base
  <2>1. b \in Node => /\ b \in Node' /\ tree'[b] = tree[b]
    BY DEF Grown
  <2>2. b \in Node => /\ Words(task[q].base)' = Words(b)
                      /\ (Readable(task[q].base)' <=> Readable(b))
    BY <1>2, <2>1 DEF Words, Readable
  <2> QED
    BY <1>2, <2>1, <2>2 DEF SentInv, Grown
<1> QED
  BY <1>1, <1>2

LEMMA TaskStays ==
  ASSUME TypeInv, Grown, NEW q \in Process, task'[q] = task[q],
         SentInv(q), PushInv(q), PlanInv(q)
  PROVE  SentInv(q)' /\ PushInv(q)' /\ PlanInv(q)'
<1>t. TreeOK /\ task[q].losers \subseteq Node /\ task[q].base \in 0..Len(tree)
  BY Fields
<1>g. \A n \in Node : /\ n \in Node' /\ tree'[n] = tree[n] /\ Words(n)' = Words(n)
                      /\ (Closed(n)' <=> Closed(n))
  BY <1>t, GrownNode
<1>1. SentInv(q)'
  BY SentStays
<1>2. PushInv(q)'
  <2>1. task[q].at = "branch" => task[q].base \notin Leaf'
    <3>1. task[q].base \in Node \/ task[q].base = NoRev
      BY <1>t DEF Node, NoRev, TreeOK
    <3>2. NoRev \notin Node'
      BY DEF NoRev, Node
    <3> QED BY <3>1, <3>2 DEF PushInv, Grown, Leaf
  <2>2. task[q].at = "attach" => Body(task[q].new, task[q].text)'
    <3> SUFFICES ASSUME task[q].at = "attach" PROVE Body(task[q].new, task[q].text)'
      OBVIOUS
    <3>1. Body(task[q].new, task[q].text)
      BY DEF PushInv
    <3> DEFINE n == task[q].new
    <3>2. n \in Node' /\ ~Readable(n)'
          /\ \A a \in tree'[n].revisions : Words(a)' \subseteq task[q].text \cup Kept'
      <4> HIDE DEF n
      <4>1. /\ n \in Node /\ ~Readable(n)
            /\ \A a \in tree[n].revisions : Words(a) \subseteq task[q].text \cup Kept
        BY <3>1 DEF Body, n
      <4>2. tree[n].revisions \subseteq Node /\ tree'[n] = tree[n] /\ n \in Node'
        BY <1>t, <1>g, <4>1, NodeIs
      <4>3. \A a \in tree[n].revisions : Words(a)' = Words(a)
        BY <1>g, <4>2
      <4>4. tree'[n].content = Missing
        BY <4>1, <4>2 DEF Readable
      <4> QED BY <4>1, <4>2, <4>3, <4>4 DEF Grown, n, Readable
    <3> QED BY <3>2 DEF Body, Readable
  <2>3. task[q].at \in Resolving =>
          task[q].text = {} \/ \E n \in Node' : tree'[n].content = task[q].text
    BY <1>g DEF PushInv
  <2> QED BY <2>1, <2>2, <2>3 DEF PushInv
<1>3. PlanInv(q)'
  <2>1. ASSUME task[q].at \in Planning
        PROVE  /\ task[q].top \in Node' /\ Closed(task[q].top)'
               /\ \A n \in task[q].losers : Closed(n)'
               /\ \A n \in task[q].losers \cup tree'[task[q].top].revisions :
                    Words(n)' \subseteq task[q].final \cup InPlan(task[q].copy) \cup Kept'
    <3>1. /\ task[q].top \in Node /\ Closed(task[q].top)
          /\ \A n \in task[q].losers : Closed(n)
          /\ \A n \in task[q].losers \cup tree[task[q].top].revisions :
               Words(n) \subseteq task[q].final \cup InPlan(task[q].copy) \cup Kept
      BY <2>1 DEF PlanInv
    <3>2. tree'[task[q].top] = tree[task[q].top] /\ tree[task[q].top].revisions \subseteq Node
      BY <1>t, <1>g, <3>1, NodeIs
    <3>3. \A n \in task[q].losers \cup tree[task[q].top].revisions : Words(n)' = Words(n)
      BY <1>t, <1>g, <3>2
    <3>4. Closed(task[q].top)'
      BY <3>1, <3>2 DEF Closed, Readable
    <3> QED BY <1>t, <1>g, <3>1, <3>2, <3>3, <3>4 DEF Grown
  <2>2. ASSUME task[q].at = "writeatt"
        PROVE  /\ Body(task[q].new, task[q].final)'
               /\ \A n \in task[q].losers :
                    n < task[q].new /\ Closed(n)' /\ Words(n)' \subseteq task[q].final \cup Kept'
    <3>1. /\ Body(task[q].new, task[q].final)
          /\ \A n \in task[q].losers :
               n < task[q].new /\ Closed(n) /\ Words(n) \subseteq task[q].final \cup Kept
      BY <2>2 DEF PlanInv
    <3>2. \A n \in task[q].losers : Closed(n)' /\ Words(n)' \subseteq task[q].final \cup Kept'
      BY <1>t, <1>g, <3>1 DEF Grown
    <3> DEFINE n == task[q].new
    <3>3. /\ n \in Node /\ ~Readable(n)
          /\ \A a \in tree[n].revisions : Words(a) \subseteq task[q].final \cup Kept
      BY <3>1 DEF Body
    <3> HIDE DEF n
    <3>4. tree[n].revisions \subseteq Node /\ tree'[n] = tree[n] /\ n \in Node'
      BY <1>t, <1>g, <3>3, NodeIs
    <3>5. \A a \in tree[n].revisions : Words(a)' = Words(a)
      BY <1>g, <3>4
    <3>6. Body(task[q].new, task[q].final)'
      BY <3>3, <3>4, <3>5 DEF Body, Grown, Readable, n
    <3> QED BY <3>1, <3>2, <3>6
  <2>3. ASSUME task[q].at = "drop"
        PROVE  \E w \in Node' :
                 /\ ~tree'[w].dead
                 /\ \A n \in task[q].losers :
                      n < w /\ Closed(n)' /\ Words(n)' \subseteq Words(w)' \cup Kept'
    <3>1. PICK w \in Node :
            /\ ~tree[w].dead
            /\ \A n \in task[q].losers :
                 n < w /\ Closed(n) /\ Words(n) \subseteq Words(w) \cup Kept
      BY <2>3 DEF PlanInv
    <3> QED BY <1>t, <1>g, <3>1 DEF Grown
  <2>4. task[q].at = "write" => task[q].copy = <<>>
    BY DEF PlanInv, Planning
  <2> QED BY <2>1, <2>2, <2>3, <2>4 DEF PlanInv
<1> QED
  BY <1>1, <1>2, <1>3

\* Only the task q changes: the others keep what holds of them.
LEMMA TasksFrame ==
  ASSUME TypeInv, TasksInv, Grown, NEW q \in Process,
         \A r \in Process \ {q} : task'[r] = task[r],
         SentInv(q)', PushInv(q)', PlanInv(q)'
  PROVE  TasksInv'
<1>1. \A r \in Process \ {q} : SentInv(r)' /\ PushInv(r)' /\ PlanInv(r)'
  BY TaskStays DEF TasksInv
<1> QED
  BY <1>1 DEF TasksInv

\* The resolver's task is left: nothing of its plan counts any more.
LEMMA TasksLeft ==
  ASSUME TypeInv, TasksInv, Grown, NEW q \in Process, task[q].at \in Resolving,
         NEW S, S \subseteq {"idle", "winner", "rejected", "read", "leaves"}, Left(q, S)
  PROVE  TasksInv'
<1>1. /\ \A r \in Process \ {q} : task'[r] = task[r]
      /\ task'[q].at \in {"idle", "winner", "rejected", "read", "leaves"}
      /\ \/ /\ task'[q].op = task[q].op /\ task'[q].base = task[q].base
            /\ task'[q].text = task[q].text
         \/ task'[q].op = "none" /\ task'[q].text = {}
  BY DEF Left
<1>2. SentInv(q)'
  BY <1>1, SentStays DEF TasksInv
<1>3. PushInv(q)'
  <2>1. task'[q].text = {} \/ \E n \in Node : tree[n].content = task'[q].text
    BY <1>1 DEF TasksInv, PushInv
  <2> QED BY <1>1, <2>1 DEF PushInv, Grown
<1>4. PlanInv(q)'
  BY <1>1 DEF PlanInv, Planning
<1> QED
  BY <1>1, <1>2, <1>3, <1>4, TasksFrame

----------------------------------------------------------------------------
(* What a stored revision has to be for the tree to stay safe. *)

LEMMA AddedSafe ==
  ASSUME TypeInv, TreeSafe, NEW p \in 0..Len(tree), NEW dead, NEW c \in Content, NEW tag,
         Added(p, dead, c, tag), UNCHANGED <<copies, retired>>,
         c # Missing => ~dead,
         tag.op = "upsert" => c = tag.text,
         c # Missing /\ p # NoRev => \A a \in tree[p].revisions : Words(a) \subseteq c \cup Kept,
         p \in Live => \A e \in Held(p) : e \in Kept \/ \E m \in Live' : m > p /\ e \in Held(m)'
  PROVE  TreeSafe' /\ Grown /\ Kept' = Kept
<1>1. TreeOK /\ Len(tree) \in Nat /\ Live \subseteq Node
  BY DEF TypeInv, TreeOK, Live, Leaf
<1>2. Grown /\ Kept' = Kept
  BY <1>1, AddedGrown
<1>3. /\ tree'[NewRev].parent = p /\ tree'[NewRev].dead = dead
      /\ tree'[NewRev].content = c /\ tree'[NewRev].tag = tag
      /\ tree'[NewRev].revisions = {NewRev} \cup (IF p = NoRev THEN {} ELSE tree[p].revisions)
      /\ Node' = Node \cup {NewRev} /\ NewRev \notin Node
      /\ Live' = (Live \ {p}) \cup (IF dead THEN {} ELSE {NewRev})
      /\ NewRev \in Nat
  BY DEF Added
<1>4. \A n \in Node : /\ tree'[n] = tree[n] /\ Words(n)' = Words(n)
                      /\ (Readable(n)' <=> Readable(n)) /\ Held(n)' = Held(n)
                      /\ n \in Nat /\ tree[n].revisions \subseteq Node
  BY <1>1, <1>2, GrownNode, NodeIs
<1>5. p = NoRev \/ p \in Node
  BY <1>1 DEF NoRev, Node
<1>6. /\ tree'[NewRev].content # Missing <=> c # Missing
      /\ c # Missing => Text(tree'[NewRev].content) = c
      /\ c = Missing => Text(tree'[NewRev].content) = {}
  BY <1>3, TextIs DEF Content
<1>7. Linked'
  <2>1. \A n \in Node : /\ n \in tree'[n].revisions
                        /\ tree'[n].parent # NoRev => tree'[n].parent \in tree'[n].revisions
                        /\ tree'[n].tag.op = "upsert" => tree'[n].content = tree'[n].tag.text
    BY <1>4 DEF TreeSafe, Linked
  <2>2. p # NoRev => p \in tree[p].revisions
    BY <1>5 DEF TreeSafe, Linked
  <2>3. /\ NewRev \in tree'[NewRev].revisions
        /\ p # NoRev => p \in tree'[NewRev].revisions
        /\ tag.op = "upsert" => c = tag.text
    BY <1>3, <2>2
  <2> QED BY <1>3, <2>1, <2>3 DEF Linked
<1>8. Inherit'
  <2> SUFFICES ASSUME NEW n \in Node', Readable(n)', NEW a \in tree'[n].revisions
               PROVE  Words(a)' \subseteq Words(n)' \cup Kept'
    BY DEF Inherit, Readable
  <2>1. CASE n \in Node
    <3>1. Readable(n) /\ a \in tree[n].revisions /\ a \in Node
      BY <1>4, <2>1
    <3>2. Words(a) \subseteq Words(n) \cup Kept
      BY <2>1, <3>1 DEF TreeSafe, Inherit
    <3> QED BY <1>2, <1>4, <2>1, <3>1, <3>2
  <2>2. CASE n = NewRev
    <3>1. c # Missing /\ Text(tree'[n].content) = c
      BY <1>6, <2>2 DEF Readable
    <3>2. CASE a = NewRev
      BY <2>2, <3>2 DEF Words
    <3>3. CASE a # NewRev
      <4>1. p # NoRev /\ a \in tree[p].revisions
        BY <1>3, <2>2, <3>3
      <4>2. a \in Node /\ Words(a) \subseteq c \cup Kept
        BY <1>4, <1>5, <3>1, <4>1
      <4> QED BY <1>2, <1>4, <3>1, <4>2 DEF Words
    <3> QED BY <3>2, <3>3
  <2> QED BY <1>3, <2>1, <2>2
<1>9. Covered'
  <2> SUFFICES ASSUME NEW w \in Node', NEW e \in Words(w)', e \notin Kept'
               PROVE  \E m \in Live' : m >= w /\ e \in Held(m)'
    BY DEF Covered
  <2>1. CASE w \in Node
    <3>1. e \in Words(w) /\ e \notin Kept
      BY <1>2, <1>4, <2>1
    <3>2. PICK m \in Live : m >= w /\ e \in Held(m)
      BY <2>1, <3>1 DEF TreeSafe, Covered
    <3>3. m \in Node /\ m \in Nat /\ w \in Nat /\ Live' \subseteq Node' /\ \A k \in Node' : k \in Nat
      BY <1>1, <1>3, <1>4, <2>1
    <3>4. CASE m # p
      BY <1>3, <1>4, <3>2, <3>3, <3>4
    <3>5. CASE m = p
      <4>1. PICK k \in Live' : k > p /\ e \in Held(k)'
        BY <3>1, <3>2, <3>5
      <4>2. k \in Nat /\ k >= w
        BY <3>2, <3>3, <3>5, <4>1
      <4> QED BY <4>1, <4>2
    <3> QED BY <3>4, <3>5
  <2>2. CASE w = NewRev
    <3>1. e \in Text(tree'[NewRev].content)
      BY <2>2 DEF Words
    <3>2. c # Missing
      BY <1>6, <3>1
    <3>3. NewRev \in Live' /\ tree'[NewRev].content # Missing
      BY <1>3, <3>2
    <3>4. e \in Held(w)'
      BY <2>2, <3>1, <3>3 DEF Held, Words, Readable
    <3> QED BY <1>3, <2>2, <3>3, <3>4
  <2> QED BY <1>3, <2>1, <2>2
<1> QED
  BY <1>2, <1>7, <1>8, <1>9 DEF TreeSafe

\* put_doc and apply_plan's write: a body holds what is below it.
LEMMA BodyAdded ==
  ASSUME TypeInv, TreeSafe, NEW p \in 0..Len(tree), Added(p, FALSE, Missing, NoTag),
         UNCHANGED <<copies, retired>>, p # NoRev => Closed(p)
  PROVE  TreeSafe' /\ Grown /\ Kept' = Kept
<1>1. TreeOK /\ Len(tree) \in Nat /\ Live \subseteq Node /\ Live \subseteq Leaf
  BY DEF TypeInv, TreeOK, Live, Leaf
<1>2. PICK k : k = NewRev
  OBVIOUS
<1>3. k \in Node' /\ tree'[k].content = Missing /\ tree'[k].parent = p
      /\ k \in Nat /\ k = Len(tree) + 1 /\ k \in Live'
  BY <1>2 DEF Added
<1>4. ASSUME p \in Live, NEW e \in Held(p)
      PROVE  \E m \in Live' : m > p /\ e \in Held(m)'
  <2>1. p \in Node /\ p # NoRev /\ ~tree[p].dead /\ k > p
    BY <1>1, <1>3, <1>4 DEF Node, NoRev, Live
  <2>2. Readable(p) /\ Held(p) = Words(p)
    BY <2>1 DEF Closed, Held
  <2>3. tree'[p] = tree[p]
    BY <2>1 DEF Added
  <2>4. Held(k)' = Words(p)
    <3>1. tree'[tree'[k].parent].content = tree[p].content
      BY <1>3, <2>3
    <3> QED BY <1>3, <2>1, <3>1 DEF Held, Words, Readable
  <2> QED BY <1>3, <1>4, <2>1, <2>2, <2>4
<1>5. NoTag.op # "upsert" /\ Missing \in Content
  BY NoTagIs
<1>6. p \in Live => \A e \in Held(p) : e \in Kept \/ \E m \in Live' : m > p /\ e \in Held(m)'
  BY <1>4
<1> QED
  BY <1>5, <1>6, AddedSafe

\* put_attachment on a body.
LEMMA AttachmentAdded ==
  ASSUME TypeInv, TreeSafe, NEW n \in Node, NEW text \in SUBSET Edit, Body(n, text),
         Added(n, FALSE, text, NoTag), UNCHANGED <<copies, retired>>
  PROVE  /\ TreeSafe' /\ Grown /\ Kept' = Kept
         /\ \E k \in Node' : /\ k > n /\ tree'[k].content = text /\ ~tree'[k].dead
                             /\ Words(k)' = text
<1>1. TreeOK /\ Len(tree) \in Nat /\ Live \subseteq Node /\ n \in 0..Len(tree) /\ n \in Nat
  BY DEF TypeInv, TreeOK, Live, Leaf, Node
<1>2. PICK k : k = NewRev
  OBVIOUS
<1>3. k \in Node' /\ tree'[k].content = text /\ ~tree'[k].dead
      /\ k \in Nat /\ k = Len(tree) + 1 /\ k \in Live'
  BY <1>2 DEF Added
<1>4. text # Missing /\ text \in Content /\ NoTag.op # "upsert"
  BY TextIs, NoTagIs DEF Content
<1>5. Words(k)' = text /\ Held(k)' = text /\ k > n
  BY <1>1, <1>3, <1>4 DEF Words, Held, Text, Readable, Node
<1>6. \A a \in tree[n].revisions : Words(a) \subseteq text \cup Kept
  BY DEF Body
<1>7. \A e \in Held(n) : e \in Kept \/ e \in text
  <2>1. ~Readable(n)
    BY DEF Body
  <2>2. tree[n].parent # NoRev => tree[n].parent \in tree[n].revisions
    BY DEF TreeSafe, Linked
  <2>3. Words(n) = {}
    BY <1>1, <2>1, NodeIs
  <2> QED BY <1>6, <2>1, <2>2, <2>3 DEF Held
<1>8. \A e \in Held(n) : e \in Kept \/ \E m \in Live' : m > n /\ e \in Held(m)'
  BY <1>3, <1>5, <1>7
<1>9. TreeSafe' /\ Grown /\ Kept' = Kept
  BY <1>1, <1>4, <1>6, <1>8, AddedSafe
<1> QED
  BY <1>3, <1>5, <1>9

\* A tombstone on a leaf of which others have everything, or which is not the newest.
LEMMA TombstoneAdded ==
  ASSUME TypeInv, TreeSafe, NEW n \in Node, Added(n, TRUE, Missing, NoTag),
         UNCHANGED <<copies, retired>>, Closed(n),
         \A e \in Words(n) : e \in Kept \/ \E w \in Node : w > n /\ e \in Words(w)
  PROVE  TreeSafe' /\ Grown /\ Kept' = Kept
<1>1. TreeOK /\ Len(tree) \in Nat /\ Live \subseteq Node /\ n \in 0..Len(tree)
      /\ \A m \in Node : m \in Nat
  BY DEF TypeInv, TreeOK, Live, Leaf, Node
<1>2. Grown
  BY <1>1, AddedGrown
<1>3. Live' = Live \ {n} /\ NoTag.op # "upsert" /\ Missing \in Content
  BY NoTagIs DEF Added
<1>4. ASSUME n \in Live, NEW e \in Held(n), e \notin Kept
      PROVE  \E m \in Live' : m > n /\ e \in Held(m)'
  <2>1. Held(n) = Words(n)
    BY <1>4 DEF Live, Closed, Held
  <2>2. PICK w \in Node : w > n /\ e \in Words(w)
    BY <1>4, <2>1
  <2>3. PICK m \in Live : m >= w /\ e \in Held(m)
    BY <1>4, <2>2 DEF TreeSafe, Covered
  <2>4. m \in Node /\ m \in Nat /\ w \in Nat /\ n \in Nat
    BY <1>1
  <2>5. Held(m)' = Held(m)
    BY <1>1, <1>2, <2>4, GrownNode
  <2> QED BY <1>3, <2>2, <2>3, <2>4, <2>5
<1>5. n \in Live => \A e \in Held(n) : e \in Kept \/ \E m \in Live' : m > n /\ e \in Held(m)'
  BY <1>4
<1> QED
  BY <1>1, <1>3, <1>5, AddedSafe

\* The tree is as it was; more may be kept in copies, or deleted.
LEMMA SameTreeSafe ==
  ASSUME TypeInv, TreeSafe, UNCHANGED tree, Kept \subseteq Kept', retired \subseteq retired'
  PROVE  TreeSafe' /\ Grown
<1>1. Node' = Node /\ Leaf' = Leaf /\ Live' = Live /\ Grown
  BY SameLive DEF Grown
<1>2. \A n : /\ Words(n)' = Words(n) /\ (Readable(n)' <=> Readable(n)) /\ Held(n)' = Held(n)
  BY DEF Words, Readable, Held
<1>3. Linked'
  BY <1>1 DEF TreeSafe, Linked
<1>4. Inherit'
  BY <1>1, <1>2 DEF TreeSafe, Inherit
<1>5. Covered'
  BY <1>1, <1>2 DEF TreeSafe, Covered
<1> QED
  BY <1>1, <1>3, <1>4, <1>5 DEF TreeSafe

LEMMA AckedStays ==
  ASSUME TypeInv, Grown, AckedStored,
         \A e \in acked' : e \in acked \/ \E n \in Node' : e \in Words(n)'
  PROVE  AckedStored'
<1>1. \A n \in Node : n \in Node' /\ Words(n)' = Words(n)
  BY GrownNode DEF TypeInv
<1> QED
  BY <1>1 DEF AckedStored

LEMMA ReadsStay ==
  ASSUME TypeInv, Grown, ReadsWhole, UNCHANGED dev
  PROVE  ReadsWhole'
BY DEF Grown, ReadsWhole

LEMMA SlotsStay ==
  ASSUME Slots, UNCHANGED copies, NEW q \in Process,
         \A r \in Process \ {q} : task'[r] = task[r],
         task'[q].at \notin {"copydoc", "copyatt"}
  PROVE  Slots'
BY DEF Slots

----------------------------------------------------------------------------
(* The steps of the devices and of push.rs. *)

\* A request handler's task after a step, when it is not in the resolver.
LEMMA PushedIs ==
  ASSUME NEW q \in Process, task'[q].at \in {"put", "answered", "rejected"}
  PROVE  PushInv(q)' /\ PlanInv(q)'
BY DEF PushInv, PlanInv, Resolving, Planning

LEMMA ReadsSafe ==
  ASSUME ~TornReads, TypeInv, SafeInv, NEW d \in Device,
         GetDoc(d) \/ GetAttachment(d) \/ GetFile(d)
  PROVE  SafeInv'
<1>1. /\ UNCHANGED <<tree, copies, task, acked, retired>>
      /\ \A e \in Device \ {d} : dev'[e] = dev[e]
      /\ Winner \in Live /\ tree[Winner].content # Missing
      /\ dev'[d] = [at |-> "read", base |-> Winner, text |-> tree[Winner].content]
  BY ReadsType DEF SafeInv, ReadsWhole
<1>2. TreeSafe' /\ Grown
  BY <1>1, SameTreeSafe DEF SafeInv, Kept, InCopies
<1>3. Winner \in Node
  BY <1>1 DEF Live, Leaf
<1>4. ReadsWhole'
  BY <1>1, <1>3 DEF SafeInv, ReadsWhole, Node
<1>5. TasksInv'
  BY <1>1, <1>2, TaskStays DEF SafeInv, TasksInv
<1>6. Slots' /\ AckedStored'
  BY <1>1, <1>2, AckedStays DEF SafeInv, Slots
<1> QED
  BY <1>2, <1>4, <1>5, <1>6 DEF SafeInv

LEMMA PushSafe ==
  ASSUME TypeInv, SafeInv, NEW d \in Device, PushUpsert(d) \/ PushDelete(d)
  PROVE  SafeInv'
<1>1. /\ d \in Process /\ UNCHANGED <<tree, copies, acked>>
      /\ \A r \in Process \ {d} : task'[r] = task[r]
      /\ \A e \in Device \ {d} : dev'[e] = dev[e]
      /\ dev'[d].at = "stale" /\ dev[d].at = "read"
      /\ task'[d].at = "put" /\ task'[d].base = dev[d].base
      /\ \/ /\ task'[d].op = "upsert" /\ dev[d].text \subseteq task'[d].text
            /\ UNCHANGED retired
         \/ /\ task'[d].op = "delete" /\ dev[d].base # NoRev /\ task'[d].text = {}
            /\ retired' = retired \cup dev[d].text
  BY PushType, DeviceIsProcess
<1>2. retired \subseteq retired' /\ Kept \subseteq Kept'
  BY <1>1 DEF Kept, InCopies
<1>3. TreeSafe' /\ Grown
  BY <1>1, <1>2, SameTreeSafe DEF SafeInv
<1>4. ReadsWhole'
  BY <1>1, <1>3 DEF SafeInv, ReadsWhole, Grown
<1>5. /\ dev[d].text \in SUBSET Edit
      /\ \/ dev[d].base = NoRev /\ dev[d].text = {}
         \/ /\ dev[d].base \in Node /\ tree[dev[d].base].content = dev[d].text
            /\ dev[d].base # NoRev
  BY <1>1 DEF TypeInv, DevOK, SafeInv, ReadsWhole, NoRev, Node
<1>6. SentInv(d)'
  <2>1. dev[d].base # NoRev => /\ dev[d].base \in Node' /\ tree'[dev[d].base].content # Missing
                               /\ Text(tree'[dev[d].base].content) = dev[d].text
    BY <1>1, <1>5, TextIs DEF Node
  <2>2. CASE task'[d].op = "upsert"
    BY <1>1, <2>1, <2>2 DEF SentInv, Words, Readable
  <2>3. CASE task'[d].op = "delete"
    BY <1>1, <2>1, <2>3 DEF SentInv, Words, Readable
  <2> QED BY <1>1, <2>2, <2>3
<1>7. TasksInv'
  <2>1. PushInv(d)' /\ PlanInv(d)'
    BY <1>1, PushedIs
  <2> QED BY <1>1, <1>3, <1>6, <2>1, TasksFrame DEF SafeInv
<1>8. Slots' /\ AckedStored'
  BY <1>1, <1>3, AckedStays, SlotsStay DEF SafeInv
<1> QED
  BY <1>3, <1>4, <1>7, <1>8 DEF SafeInv

LEMMA RepeatSafe ==
  ASSUME TypeInv, SafeInv, NEW d \in Device, Repeat(d)
  PROVE  SafeInv'
<1>1. /\ d \in Process /\ UNCHANGED <<tree, copies, dev, acked, retired>>
      /\ \A r \in Process \ {d} : task'[r] = task[r]
      /\ task'[d].at = "put" /\ task'[d].op = task[d].op /\ task'[d].base = task[d].base
      /\ task'[d].text = task[d].text
  BY RepeatType, DeviceIsProcess
<1>2. TreeSafe' /\ Grown
  BY <1>1, SameTreeSafe DEF SafeInv, Kept, InCopies
<1>3. SentInv(d)' /\ PushInv(d)' /\ PlanInv(d)'
  BY <1>1, <1>2, SentStays, PushedIs DEF SafeInv, TasksInv
<1>4. TasksInv'
  BY <1>1, <1>2, <1>3, TasksFrame DEF SafeInv
<1>5. Slots' /\ AckedStored' /\ ReadsWhole'
  BY <1>1, <1>2, AckedStays, SlotsStay, ReadsStay DEF SafeInv
<1> QED
  BY <1>2, <1>4, <1>5 DEF SafeInv

\* A handler answers or fails.
LEMMA OverSafe ==
  ASSUME TypeInv, SafeInv, NEW d \in Process, NEW at, at \in {"answered", "rejected"},
         Over(d, at), TreeSafe', Grown, UNCHANGED <<copies, dev>>,
         at = "answered" => \A e \in task[d].text : \E n \in Node' : e \in Words(n)'
  PROVE  SafeInv'
<1>1. /\ \A r \in Process \ {d} : task'[r] = task[r]
      /\ task'[d].at = at /\ task'[d].op = task[d].op /\ task'[d].base = task[d].base
      /\ task'[d].text = task[d].text
      /\ acked' = IF at = "answered" THEN acked \cup task[d].text ELSE acked
  BY DEF Over
<1>2. SentInv(d)' /\ PushInv(d)' /\ PlanInv(d)'
  BY <1>1, SentStays, PushedIs DEF SafeInv, TasksInv
<1>3. TasksInv'
  BY <1>1, <1>2, TasksFrame DEF SafeInv
<1>4. AckedStored'
  BY <1>1, AckedStays DEF SafeInv
<1>5. Slots' /\ ReadsWhole'
  BY <1>1, SlotsStay, ReadsStay DEF SafeInv
<1> QED
  BY <1>3, <1>4, <1>5 DEF SafeInv

LEMMA PutAttachmentSafe ==
  ASSUME TypeInv, SafeInv, NEW d \in Device, PutAttachment(d)
  PROVE  SafeInv'
<1>1. /\ d \in Process /\ UNCHANGED <<copies, dev, retired>> /\ task[d].at = "attach"
      /\ task[d].text \in SUBSET Edit
  BY PutAttachmentType, DeviceIsProcess, Fields
<1>2. Body(task[d].new, task[d].text)
  BY <1>1 DEF SafeInv, TasksInv, PushInv
<1>3. CASE Added(task[d].new, FALSE, task[d].text, NoTag) /\ Over(d, "answered")
  <2>1. task[d].new \in Node
    BY <1>2 DEF Body
  <2>2. /\ TreeSafe' /\ Grown
        /\ \E k \in Node' : Words(k)' = task[d].text
    BY <1>1, <1>2, <1>3, <2>1, AttachmentAdded DEF SafeInv
  <2> QED BY <1>1, <1>3, <2>2, OverSafe
<1>4. CASE UNCHANGED tree /\ Over(d, "rejected")
  <2>1. TreeSafe' /\ Grown
    BY <1>1, <1>4, SameTreeSafe DEF SafeInv, Kept, InCopies
  <2> QED BY <1>1, <1>4, <2>1, OverSafe
<1> QED
  BY <1>3, <1>4, PutAttachmentType

LEMMA AnswerWinnerSafe ==
  ASSUME TypeInv, SafeInv, NEW d \in Device, AnswerWinner(d)
  PROVE  SafeInv'
<1>1. /\ d \in Process /\ UNCHANGED <<tree, copies, dev, retired>> /\ task[d].at = "winner"
      /\ task[d].text \in SUBSET Edit
  BY AnswerWinnerType, DeviceIsProcess, Fields
<1>2. TreeSafe' /\ Grown
  BY <1>1, SameTreeSafe DEF SafeInv, Kept, InCopies
<1>3. \A e \in task[d].text : \E n \in Node' : e \in Words(n)'
  <2>1. task[d].text = {} \/ \E n \in Node : tree[n].content = task[d].text
    BY <1>1 DEF SafeInv, TasksInv, PushInv, Resolving
  <2>2. Node' = Node
    BY <1>1, SameLive
  <2> QED BY <1>1, <2>1, <2>2, TextIs DEF Words
<1>4. CASE Over(d, "answered")
  BY <1>1, <1>2, <1>3, <1>4, OverSafe
<1>5. CASE Over(d, "rejected")
  BY <1>1, <1>2, <1>5, OverSafe
<1> QED
  BY <1>4, <1>5, AnswerWinnerType

\* The revision put_doc adds waits for an attachment with all that is below it.
LEMMA BodyIs ==
  ASSUME TypeInv, NEW p \in 0..Len(tree), Added(p, FALSE, Missing, NoTag), Grown, Kept' = Kept,
         NEW text, p # NoRev => \A a \in tree[p].revisions : Words(a) \subseteq text \cup Kept
  PROVE  \E k \in Node' :
           /\ k = NewRev /\ tree'[k].content = Missing /\ k = Len(tree) + 1
           /\ \A a \in tree'[k].revisions : Words(a)' \subseteq text \cup Kept'
<1>1. TreeOK /\ Len(tree) \in Nat
  BY DEF TypeInv, TreeOK
<1>2. PICK k : k = NewRev
  OBVIOUS
<1>3. /\ k \in Node' /\ tree'[k].content = Missing /\ k = Len(tree) + 1
      /\ tree'[k].revisions = {k} \cup (IF p = NoRev THEN {} ELSE tree[p].revisions)
  BY <1>2 DEF Added
<1>4. Words(k)' = {}
  BY <1>3, TextIs DEF Words
<1>5. p # NoRev => p \in Node /\ tree[p].revisions \subseteq Node
  <2>1. p # NoRev => p \in Node
    BY <1>1 DEF NoRev, Node
  <2> QED BY <1>1, <2>1, NodeIs
<1>6. p # NoRev => \A a \in tree[p].revisions : Words(a)' \subseteq text \cup Kept'
  BY <1>1, <1>5, GrownNode
<1> QED
  BY <1>2, <1>3, <1>4, <1>6

LEMMA PutDocSafe ==
  ASSUME TypeInv, SafeInv, NEW d \in Device, PutDoc(d)
  PROVE  SafeInv'
<1>1. /\ d \in Process /\ UNCHANGED <<copies, dev, acked, retired>>
      /\ task[d].at = "put" /\ task[d].op = "upsert" /\ task[d].text \in SUBSET Edit
      /\ task[d].base \in 0..Len(tree) /\ TreeOK /\ Len(tree) \in Nat
  BY PutDocType, DeviceIsProcess, Fields
<1>2. CASE /\ CasHolds(task[d].base) /\ Moved(d, "attach") /\ task'[d].new = NewRev
           /\ Added(CasParent(task[d].base), FALSE, Missing, NoTag)
  <2> DEFINE p == CasParent(task[d].base)
  <2>1. /\ \A r \in Process \ {d} : task'[r] = task[r]
        /\ task'[d].at = "attach" /\ task'[d].op = task[d].op /\ task'[d].base = task[d].base
        /\ task'[d].text = task[d].text
    BY <1>2 DEF Moved
  <2>2. /\ p \in 0..Len(tree) /\ (p # NoRev => p \in Node /\ Closed(p))
        /\ p # NoRev => \A a \in tree[p].revisions : Words(a) \subseteq task[d].text \cup Kept
    <3>1. CASE task[d].base = NoRev
      <4>1. ~Found /\ p = Winner /\ p \in 0..Len(tree) /\ (p = NoRev \/ p \in Leaf \ Live)
        BY <1>1, <1>2, <3>1, WinnerIsLeaf DEF CasHolds, CasParent
      <4>2. p # NoRev => p \in Node /\ tree[p].dead
        BY <4>1 DEF Live, Leaf
      <4>3. p # NoRev => tree[p].revisions \subseteq Node
        BY <1>1, <4>2, NodeIs
      <4>4. \A a \in Node : Words(a) \subseteq Kept
        BY <4>1 DEF SafeInv, TreeSafe, Covered, Found
      <4> HIDE DEF p
      <4> QED BY <4>1, <4>2, <4>3, <4>4 DEF Closed
    <3>2. CASE task[d].base # NoRev
      <4>1. p = task[d].base /\ p \in Leaf /\ p \in Node
        BY <1>2, <3>2 DEF CasHolds, CasParent, Leaf
      <4>2. Readable(p) /\ Words(p) \subseteq task[d].text
        BY <1>1, <3>2, <4>1 DEF SafeInv, TasksInv, SentInv
      <4>3. \A a \in tree[p].revisions : Words(a) \subseteq Words(p) \cup Kept
        BY <4>1, <4>2 DEF SafeInv, TreeSafe, Inherit
      <4> QED BY <1>1, <4>1, <4>2, <4>3 DEF Closed
    <3> QED BY <3>1, <3>2
  <2> HIDE DEF p
  <2>3. TreeSafe' /\ Grown /\ Kept' = Kept /\ Added(p, FALSE, Missing, NoTag)
    BY <1>1, <1>2, <2>2, BodyAdded DEF SafeInv, p
  <2>4. PICK k \in Node' :
          /\ k = NewRev /\ tree'[k].content = Missing
          /\ \A a \in tree'[k].revisions : Words(a)' \subseteq task[d].text \cup Kept'
    BY <2>2, <2>3, BodyIs
  <2>5. PushInv(d)'
    <3>1. /\ task'[d].new \in Node' /\ tree'[task'[d].new].content = Missing
          /\ \A a \in tree'[task'[d].new].revisions : Words(a)' \subseteq task'[d].text \cup Kept'
      BY <1>2, <2>1, <2>4
    <3> QED BY <2>1, <3>1 DEF PushInv, Body, Readable, Resolving
  <2>6. SentInv(d)' /\ PlanInv(d)'
    <3>1. PlanInv(d)'
      BY <2>1 DEF PlanInv, Planning
    <3> QED BY <1>1, <2>1, <2>3, <3>1, SentStays DEF SafeInv, TasksInv
  <2>7. TasksInv'
    BY <1>1, <2>1, <2>3, <2>5, <2>6, TasksFrame DEF SafeInv
  <2>8. Slots' /\ AckedStored' /\ ReadsWhole'
    BY <1>1, <2>1, <2>3, AckedStays, SlotsStay, ReadsStay DEF SafeInv
  <2> QED BY <2>3, <2>7, <2>8 DEF SafeInv
<1>3. CASE ~CasHolds(task[d].base) /\ Moved(d, "branch") /\ UNCHANGED tree
  <2>1. /\ \A r \in Process \ {d} : task'[r] = task[r]
        /\ task'[d].at = "branch" /\ task'[d].op = task[d].op /\ task'[d].base = task[d].base
        /\ task'[d].text = task[d].text
    BY <1>3 DEF Moved
  <2>2. TreeSafe' /\ Grown /\ Leaf' = Leaf
    BY <1>1, <1>3, SameTreeSafe, SameLive DEF SafeInv, Kept, InCopies
  <2>3. PushInv(d)' /\ PlanInv(d)'
    <3>1. task[d].base \notin Leaf
      BY <1>3 DEF CasHolds, Leaf, Node, NoRev
    <3> QED BY <1>1, <2>1, <2>2, <3>1 DEF PushInv, PlanInv, Resolving, Planning
  <2>4. SentInv(d)'
    BY <2>1, <2>2, <1>1, SentStays DEF SafeInv, TasksInv
  <2>5. TasksInv'
    BY <1>1, <2>1, <2>2, <2>3, <2>4, TasksFrame DEF SafeInv
  <2>6. Slots' /\ AckedStored' /\ ReadsWhole'
    BY <1>1, <2>1, <2>2, AckedStays, SlotsStay, ReadsStay DEF SafeInv
  <2> QED BY <2>2, <2>5, <2>6 DEF SafeInv
<1> QED
  BY <1>2, <1>3, PutDocType

LEMMA DeleteDocSafe ==
  ASSUME TypeInv, SafeInv, NEW d \in Device, DeleteDoc(d)
  PROVE  SafeInv'
<1>1. /\ d \in Process /\ UNCHANGED <<copies, dev, retired>>
      /\ task[d].at = "put" /\ task[d].op = "delete"
      /\ TreeOK
  BY DeleteDocType, DeviceIsProcess, Fields
<1>2. /\ task[d].base \in Node /\ task[d].text = {} /\ Readable(task[d].base)
      /\ Words(task[d].base) \subseteq retired
  BY <1>1 DEF SafeInv, TasksInv, SentInv
<1>3. CASE Added(task[d].base, TRUE, Missing, NoTag) /\ Over(d, "answered")
  <2>1. Closed(task[d].base) /\ Words(task[d].base) \subseteq Kept
    BY <1>2 DEF Closed, Kept
  <2>2. TreeSafe' /\ Grown
    BY <1>1, <1>2, <1>3, <2>1, TombstoneAdded DEF SafeInv
  <2> QED BY <1>1, <1>2, <1>3, <2>2, OverSafe
<1>4. CASE task[d].base \notin Leaf /\ UNCHANGED <<tree, acked>> /\ Moved(d, "branch")
  <2>1. /\ \A r \in Process \ {d} : task'[r] = task[r]
        /\ task'[d].at = "branch" /\ task'[d].op = task[d].op /\ task'[d].base = task[d].base
        /\ task'[d].text = task[d].text
    BY <1>4 DEF Moved
  <2>2. TreeSafe' /\ Grown /\ Leaf' = Leaf
    BY <1>1, <1>4, SameTreeSafe, SameLive DEF SafeInv, Kept, InCopies
  <2>3. PushInv(d)' /\ PlanInv(d)'
    BY <1>1, <1>4, <2>1, <2>2 DEF PushInv, PlanInv, Resolving, Planning
  <2>4. SentInv(d)'
    BY <1>1, <2>1, <2>2, SentStays DEF SafeInv, TasksInv
  <2>5. TasksInv'
    BY <1>1, <2>1, <2>2, <2>3, <2>4, TasksFrame DEF SafeInv
  <2>6. Slots' /\ AckedStored' /\ ReadsWhole'
    BY <1>1, <1>4, <2>1, <2>2, AckedStays, SlotsStay, ReadsStay DEF SafeInv
  <2> QED BY <2>2, <2>5, <2>6 DEF SafeInv
<1>5. CASE UNCHANGED tree /\ Over(d, "rejected")
  <2>1. TreeSafe' /\ Grown
    BY <1>1, <1>5, SameTreeSafe DEF SafeInv, Kept, InCopies
  <2> QED BY <1>1, <1>5, <2>1, OverSafe
<1> QED
  BY <1>3, <1>4, <1>5, DeleteDocType

LEMMA PutRevisionSafe ==
  ASSUME TypeInv, SafeInv, NEW d \in Device, PutRevision(d)
  PROVE  SafeInv'
<1>1. /\ d \in Process /\ UNCHANGED <<copies, dev, acked, retired>>
      /\ task[d].at = "branch" /\ TreeOK /\ Len(tree) \in Nat
      /\ \A r \in Process \ {d} : task'[r] = task[r]
      /\ task'[d].at = "read" /\ task'[d].op = task[d].op /\ task'[d].base = task[d].base
      /\ task'[d].text = task[d].text
      /\ task[d].text \in SUBSET Edit /\ task[d].base \in 0..Len(tree)
      /\ task[d].op \in {"upsert", "delete"} /\ task[d].base \notin Leaf
      /\ Tag(d).op = task[d].op /\ Tag(d).text = task[d].text
  BY PutRevisionType, DeviceIsProcess, Fields DEF Moved, SafeInv, TasksInv, PushInv
<1>2. SentInv(d)
  BY <1>1 DEF SafeInv, TasksInv
<1>3. TreeSafe' /\ Grown
      /\ (task[d].op = "upsert" => \E n \in Node' : tree'[n].content = task[d].text)
  <2>1. CASE Added(task[d].base, task[d].op = "delete",
                   IF task[d].op = "delete" THEN Missing ELSE task[d].text, Tag(d))
    <3>1. task[d].base \notin Live /\ Missing \in Content
      BY <1>1, NoTagIs DEF Live
    <3>2. CASE task[d].op = "delete"
      <4>1. Added(task[d].base, TRUE, Missing, Tag(d)) /\ Tag(d).op # "upsert"
        BY <1>1, <2>1, <3>2
      <4> QED BY <1>1, <3>1, <3>2, <4>1, AddedSafe DEF SafeInv
    <3>3. CASE task[d].op = "upsert"
      <4>1. Added(task[d].base, FALSE, task[d].text, Tag(d)) /\ task[d].text \in Content
        BY <1>1, <2>1, <3>3 DEF Content
      <4>2. task[d].base # NoRev =>
              \A a \in tree[task[d].base].revisions : Words(a) \subseteq task[d].text \cup Kept
        <5> SUFFICES ASSUME task[d].base # NoRev, NEW a \in tree[task[d].base].revisions
                     PROVE  Words(a) \subseteq task[d].text \cup Kept
          OBVIOUS
        <5>1. /\ task[d].base \in Node /\ Readable(task[d].base)
              /\ Words(task[d].base) \subseteq task[d].text
          BY <1>2, <3>3 DEF SentInv
        <5>2. Words(a) \subseteq Words(task[d].base) \cup Kept
          BY <5>1 DEF SafeInv, TreeSafe, Inherit
        <5> QED BY <5>1, <5>2
      <4>3. TreeSafe' /\ Grown
        BY <1>1, <3>1, <4>1, <4>2, AddedSafe DEF SafeInv
      <4>4. NewRev \in Node' /\ tree'[NewRev].content = task[d].text
        BY <4>1 DEF Added
      <4> QED BY <4>3, <4>4
    <3> QED BY <1>1, <3>2, <3>3
  <2>2. CASE UNCHANGED tree /\ \E n \in Node : tree[n].tag = Tag(d)
    <3>1. TreeSafe' /\ Grown /\ Node' = Node
      BY <1>1, <2>2, SameTreeSafe, SameLive DEF SafeInv, Kept, InCopies
    <3>2. PICK n \in Node : tree[n].tag = Tag(d)
      BY <2>2
    <3>3. task[d].op = "upsert" => tree[n].content = task[d].text
      BY <1>1, <3>2 DEF SafeInv, TreeSafe, Linked
    <3> QED BY <2>2, <3>1, <3>3
  <2> QED BY <2>1, <2>2, PutRevisionType
<1>4. PushInv(d)' /\ PlanInv(d)'
  <2>1. task[d].op = "delete" => task[d].text = {}
    BY <1>2 DEF SentInv
  <2>2. task'[d].text = {} \/ \E n \in Node' : tree'[n].content = task'[d].text
    BY <1>1, <1>3, <2>1
  <2> QED BY <1>1, <2>2 DEF PushInv, PlanInv, Planning
<1>5. SentInv(d)'
  BY <1>1, <1>2, <1>3, SentStays
<1>6. TasksInv'
  BY <1>1, <1>3, <1>4, <1>5, TasksFrame DEF SafeInv
<1>7. Slots' /\ AckedStored' /\ ReadsWhole'
  BY <1>1, <1>3, AckedStays, SlotsStay, ReadsStay DEF SafeInv
<1> QED
  BY <1>3, <1>6, <1>7 DEF SafeInv

LEMMA PollSafe ==
  ASSUME TypeInv, SafeInv, Poll
  PROVE  SafeInv'
<1>1. /\ Watcher \in Process /\ UNCHANGED <<tree, copies, dev, acked, retired>>
      /\ task[Watcher].at = "idle"
  BY PollType, DeviceIsProcess
<1>2. TreeSafe' /\ Grown /\ Node' = Node
  BY <1>1, SameTreeSafe, SameLive DEF SafeInv, Kept, InCopies
<1>3. CASE Moved(Watcher, "read")
  <2>1. /\ \A r \in Process \ {Watcher} : task'[r] = task[r]
        /\ task'[Watcher].at = "read" /\ task'[Watcher].op = task[Watcher].op
        /\ task'[Watcher].base = task[Watcher].base /\ task'[Watcher].text = task[Watcher].text
    BY <1>3 DEF Moved
  <2>2. task[Watcher].text = {} \/ \E n \in Node : tree[n].content = task[Watcher].text
    BY <1>1 DEF SafeInv, TasksInv, PushInv, Resolving
  <2>3. PushInv(Watcher)' /\ PlanInv(Watcher)'
    BY <1>1, <1>2, <2>1, <2>2 DEF PushInv, PlanInv, Planning
  <2>4. SentInv(Watcher)'
    BY <1>1, <1>2, <2>1, SentStays DEF SafeInv, TasksInv
  <2>5. TasksInv'
    BY <1>1, <1>2, <2>1, <2>3, <2>4, TasksFrame DEF SafeInv
  <2>6. Slots' /\ AckedStored' /\ ReadsWhole'
    BY <1>1, <1>2, <2>1, AckedStays, SlotsStay, ReadsStay DEF SafeInv
  <2> QED BY <1>2, <2>5, <2>6 DEF SafeInv
<1>4. CASE UNCHANGED task
  <2>1. TasksInv'
    BY <1>2, <1>4, TaskStays DEF SafeInv, TasksInv
  <2>2. Slots' /\ AckedStored' /\ ReadsWhole'
    BY <1>1, <1>2, <1>4, AckedStays, ReadsStay DEF SafeInv, Slots
  <2> QED BY <1>2, <2>1, <2>2 DEF SafeInv
<1> QED
  BY <1>3, <1>4, PollType

LEMMA CrashSafe ==
  ASSUME TypeInv, SafeInv, Crash
  PROVE  SafeInv'
<1>1. UNCHANGED <<tree, copies, dev, acked, retired>>
  BY CrashType
<1>2. TreeSafe' /\ Grown
  BY <1>1, SameTreeSafe DEF SafeInv, Kept, InCopies
<1>3. ASSUME NEW q \in Process
      PROVE  /\ SentInv(q)' /\ PushInv(q)' /\ PlanInv(q)'
             /\ task'[q].at \notin {"copydoc", "copyatt"}
  <2>1. CASE task'[q] = task[q] /\ ~Running(q)
    <3>1. SentInv(q)' /\ PushInv(q)' /\ PlanInv(q)'
      BY <1>2, <2>1, TaskStays DEF SafeInv, TasksInv
    <3> QED BY <2>1, <3>1 DEF Running
  <2>2. CASE task'[q] = Idle
    <3>1. task'[q].at = "idle" /\ task'[q].op = "none" /\ task'[q].text = {}
      BY <2>2, IdleIs
    <3> QED BY <3>1 DEF SentInv, PushInv, PlanInv, Planning
  <2>3. CASE /\ task'[q].at = "rejected" /\ task'[q].op = task[q].op
             /\ task'[q].base = task[q].base /\ task'[q].text = task[q].text
    <3>1. SentInv(q)'
      BY <1>2, <2>3, SentStays DEF SafeInv, TasksInv
    <3>2. PushInv(q)' /\ PlanInv(q)'
      BY <2>3, PushedIs
    <3> QED BY <2>3, <3>1, <3>2
  <2> QED BY <2>1, <2>2, <2>3, CrashType
<1>4. TasksInv' /\ Slots'
  BY <1>3 DEF TasksInv, Slots
<1>5. AckedStored' /\ ReadsWhole'
  BY <1>1, <1>2, AckedStays, ReadsStay DEF SafeInv
<1> QED
  BY <1>2, <1>4, <1>5 DEF SafeInv

LEMMA CouchFailsSafe ==
  ASSUME TypeInv, SafeInv, NEW q \in Process, CouchFails(q)
  PROVE  SafeInv'
<1>1. /\ UNCHANGED <<tree, copies, dev, acked, retired>>
      /\ \A r \in Process \ {q} : task'[r] = task[r]
  BY CouchFailsType
<1>2. TreeSafe' /\ Grown
  BY <1>1, SameTreeSafe DEF SafeInv, Kept, InCopies
<1>3. /\ SentInv(q)' /\ PushInv(q)' /\ PlanInv(q)'
      /\ task'[q].at \notin {"copydoc", "copyatt"}
  <2>1. CASE task'[q] = Idle
    <3>1. task'[q].at = "idle" /\ task'[q].op = "none" /\ task'[q].text = {}
      BY <2>1, IdleIs
    <3> QED BY <3>1 DEF SentInv, PushInv, PlanInv, Planning
  <2>2. CASE /\ task'[q].at = "rejected" /\ task'[q].op = task[q].op
             /\ task'[q].base = task[q].base /\ task'[q].text = task[q].text
    <3>1. SentInv(q)'
      BY <1>2, <2>2, SentStays DEF SafeInv, TasksInv
    <3>2. PushInv(q)' /\ PlanInv(q)'
      BY <2>2, PushedIs
    <3> QED BY <2>2, <3>1, <3>2
  <2> QED BY <2>1, <2>2, CouchFailsType
<1>4. TasksInv'
  BY <1>1, <1>2, <1>3, TasksFrame DEF SafeInv
<1>5. Slots' /\ AckedStored' /\ ReadsWhole'
  BY <1>1, <1>2, <1>3, AckedStays, SlotsStay, ReadsStay DEF SafeInv
<1> QED
  BY <1>2, <1>4, <1>5 DEF SafeInv

----------------------------------------------------------------------------
(* The steps of resolver.rs. *)

LEMMA LeftSafe ==
  ASSUME TypeInv, SafeInv, NEW q \in Process, task[q].at \in Resolving,
         NEW S, S \subseteq {"idle", "winner", "rejected", "read", "leaves"}, Left(q, S),
         TreeSafe', Grown, UNCHANGED <<copies, dev, acked>>
  PROVE  SafeInv'
<1>1. TasksInv'
  BY TasksLeft DEF SafeInv
<1>2. /\ \A r \in Process \ {q} : task'[r] = task[r]
      /\ task'[q].at \notin {"copydoc", "copyatt"}
  BY DEF Left
<1>3. Slots' /\ AckedStored' /\ ReadsWhole'
  BY <1>2, AckedStays, SlotsStay, ReadsStay DEF SafeInv
<1> QED
  BY <1>1, <1>3 DEF SafeInv

\* A plan that takes nothing away that it does not keep.
LEMMA PlanSafe ==
  ASSUME TypeInv, SafeInv, NEW q \in Process, task[q].at \in Resolving,
         UNCHANGED <<tree, copies, dev, acked, retired>>,
         NEW top \in Node, NEW final, NEW copy, NEW losers \in SUBSET Node,
         HasPlan(q, top, final, copy, losers),
         Closed(top), \A n \in losers : Closed(n),
         \A n \in losers \cup tree[top].revisions :
           Words(n) \subseteq final \cup InPlan(copy) \cup Kept
  PROVE  SafeInv'
<1>1. /\ \A r \in Process \ {q} : task'[r] = task[r]
      /\ task'[q].at = IF copy = <<>> THEN "write" ELSE "copy"
      /\ task'[q].op = task[q].op /\ task'[q].base = task[q].base
      /\ task'[q].text = task[q].text
      /\ task'[q].top = top /\ task'[q].final = final
      /\ task'[q].copy = copy /\ task'[q].losers = losers
  BY DEF HasPlan
<1>2. TreeSafe' /\ Grown /\ Node' = Node /\ Kept' = Kept
  BY SameTreeSafe, SameLive DEF SafeInv, Kept, InCopies
<1>3. SentInv(q)'
  BY <1>1, <1>2, SentStays DEF SafeInv, TasksInv
<1>4. PushInv(q)'
  <2>1. task[q].text = {} \/ \E n \in Node : tree[n].content = task[q].text
    BY DEF SafeInv, TasksInv, PushInv
  <2> QED BY <1>1, <1>2, <2>1 DEF PushInv
<1>5. PlanInv(q)'
  <2>1. \A n : Words(n)' = Words(n) /\ (Closed(n)' <=> Closed(n))
    BY DEF Words, Closed, Readable
  <2>2. Closed(task[q].top)' /\ task'[q].top \in Node'
    BY <1>1, <1>2 DEF Closed, Readable
  <2>3. \A n \in task'[q].losers : Closed(n)'
    BY <1>1, <2>1
  <2>4. \A n \in task'[q].losers \cup tree'[task'[q].top].revisions :
          Words(n)' \subseteq task'[q].final \cup InPlan(task'[q].copy) \cup Kept'
    BY <1>1, <1>2, <2>1
  <2>5. InPlan(task[q].copy)' = InPlan(task'[q].copy)
    BY DEF InPlan
  <2>6. task'[q].at = "write" => task'[q].copy = <<>>
    BY <1>1
  <2>7. task'[q].at \notin {"writeatt", "drop"}
    BY <1>1
  <2> QED BY <2>2, <2>3, <2>4, <2>5, <2>6, <2>7 DEF PlanInv
<1>6. TasksInv'
  BY <1>1, <1>2, <1>3, <1>4, <1>5, TasksFrame DEF SafeInv
<1>7. Slots' /\ AckedStored' /\ ReadsWhole'
  BY <1>1, <1>2, AckedStays, SlotsStay, ReadsStay DEF SafeInv
<1> QED
  BY <1>2, <1>6, <1>7 DEF SafeInv

\* A clean merge with the common ancestor: what is missing from it was taken away
\* on one side, and that side has it in a copy or it was deleted by somebody.
LEMMA MergeKeeps ==
  ASSUME TypeInv, TreeSafe, NEW n \in Node, NEW m \in Node, Readable(n), Readable(m)
  PROVE  Words(n) \cup Words(m) \subseteq
           Merge(AncestorText(n, m), tree[n].content, tree[m].content) \cup Kept
<1>1. TreeOK /\ Len(tree) \in Nat
  BY DEF TypeInv, TreeOK
<1>2. /\ Words(n) = tree[n].content /\ Words(m) = tree[m].content
      /\ Words(n) \in SUBSET Edit /\ Words(m) \in SUBSET Edit
  BY <1>1, NodeIs
<1>3. \A e \in AncestorText(n, m) : (e \in Words(n) \/ e \in Kept) /\ (e \in Words(m) \/ e \in Kept)
  <2> DEFINE shared == tree[n].revisions \cap tree[m].revisions
             deepest == CHOOSE a \in shared : \A b \in shared : b <= a
  <2>1. CASE shared = {}
    BY <2>1 DEF AncestorText
  <2>2. CASE shared # {}
    <3>1. shared \subseteq (-Len(tree))..Len(tree)
      <4>1. tree[n].revisions \subseteq Node
        BY <1>1, NodeIs
      <4>2. Node \subseteq (-Len(tree))..Len(tree)
        BY <1>1 DEF Node
      <4> QED BY <4>1, <4>2
    <3>2. \E a \in shared : \A b \in shared : b <= a
      <4> HIDE DEF shared
      <4> QED BY <1>1, <2>2, <3>1, MaxExists
    <3>3. deepest \in shared
      BY <3>2
    <3>4. AncestorText(n, m) = Words(deepest)
      BY <2>2 DEF AncestorText, Words
    <3> HIDE DEF deepest
    <3>5. Words(deepest) \subseteq Words(n) \cup Kept /\ Words(deepest) \subseteq Words(m) \cup Kept
      BY <3>3 DEF TreeSafe, Inherit
    <3> QED BY <3>4, <3>5
  <2> QED BY <2>1, <2>2
<1> QED
  BY <1>2, <1>3 DEF Merge

LEMMA ReadLeavesSafe ==
  ASSUME TypeInv, SafeInv, NEW q \in Process, ReadLeaves(q)
  PROVE  SafeInv'
<1>1. /\ UNCHANGED <<tree, copies, dev, acked, retired>> /\ task[q].at = "read"
      /\ task[q].at \in Resolving /\ TreeOK
  BY ReadLeavesType DEF TypeInv, Resolving
<1>2. TreeSafe' /\ Grown /\ Node' = Node
  BY <1>1, SameTreeSafe, SameLive DEF SafeInv, Kept, InCopies
<1>3. CASE /\ \A r \in Process \ {q} : task'[r] = task[r]
           /\ task'[q].at = "leaves" /\ task'[q].op = task[q].op
           /\ task'[q].base = task[q].base /\ task'[q].text = task[q].text
  <2>1. SentInv(q)'
    BY <1>2, <1>3, SentStays DEF SafeInv, TasksInv
  <2>2. PushInv(q)' /\ PlanInv(q)'
    <3>1. task[q].text = {} \/ \E n \in Node : tree[n].content = task[q].text
      BY <1>1 DEF SafeInv, TasksInv, PushInv
    <3> QED BY <1>1, <1>2, <1>3, <3>1 DEF PushInv, PlanInv, Planning
  <2>3. TasksInv'
    BY <1>2, <1>3, <2>1, <2>2, TasksFrame DEF SafeInv
  <2>4. Slots' /\ AckedStored' /\ ReadsWhole'
    BY <1>1, <1>2, <1>3, AckedStays, SlotsStay, ReadsStay DEF SafeInv
  <2> QED BY <1>2, <2>3, <2>4 DEF SafeInv
<1>4. CASE Left(q, {"idle", "winner", "rejected"})
  BY <1>1, <1>2, <1>4, LeftSafe
<1>5. CASE /\ \A n \in Live : tree[n].content # Missing
           /\ Winner \in Live
           /\ \E final \in SUBSET Edit, copy \in Seq(SUBSET Edit), losers \in SUBSET Conflicts :
                /\ HasPlan(q, Winner, final, copy, losers)
                /\ \/ \E other \in Conflicts :
                        /\ losers = {other}
                        /\ final = Merge(AncestorText(Winner, other), tree[Winner].content,
                                         tree[other].content)
                   \/ \A n \in losers \cup {Winner} :
                        tree[n].content \subseteq final \cup InPlan(copy)
  <2>1. PICK final \in SUBSET Edit, copy \in Seq(SUBSET Edit), losers \in SUBSET Conflicts :
          /\ HasPlan(q, Winner, final, copy, losers)
          /\ \/ \E other \in Conflicts :
                  /\ losers = {other}
                  /\ final = Merge(AncestorText(Winner, other), tree[Winner].content,
                                   tree[other].content)
             \/ \A n \in losers \cup {Winner} :
                  tree[n].content \subseteq final \cup InPlan(copy)
    BY <1>5
  <2>2. /\ Conflicts \subseteq Live /\ Live \subseteq Node /\ Winner \in Node
        /\ \A n \in Live : Readable(n) /\ Closed(n) /\ Words(n) = tree[n].content
    <3>1. Conflicts \subseteq Live /\ Live \subseteq Node
      BY DEF Conflicts, Live, Leaf
    <3>2. \A n \in Live : Readable(n) /\ Closed(n)
      BY <1>5 DEF Readable, Closed
    <3> QED BY <1>1, <1>5, <3>1, <3>2, NodeIs
  <2>3. \A n \in losers \cup {Winner} : Words(n) \subseteq final \cup InPlan(copy) \cup Kept
    <3>1. ASSUME NEW other \in Conflicts, losers = {other},
                 final = Merge(AncestorText(Winner, other), tree[Winner].content,
                               tree[other].content)
          PROVE  \A n \in losers \cup {Winner} : Words(n) \subseteq final \cup InPlan(copy) \cup Kept
      <4>1. Words(Winner) \cup Words(other) \subseteq final \cup Kept
        BY <1>5, <2>2, <3>1, MergeKeeps DEF SafeInv
      <4> QED BY <3>1, <4>1
    <3>2. ASSUME \A n \in losers \cup {Winner} : tree[n].content \subseteq final \cup InPlan(copy)
          PROVE  \A n \in losers \cup {Winner} : Words(n) \subseteq final \cup InPlan(copy) \cup Kept
      BY <1>5, <2>2, <3>2
    <3> QED BY <2>1, <3>1, <3>2
  <2>4. \A n \in tree[Winner].revisions : Words(n) \subseteq final \cup InPlan(copy) \cup Kept
    <3>1. \A n \in tree[Winner].revisions : Words(n) \subseteq Words(Winner) \cup Kept
      BY <1>5, <2>2 DEF SafeInv, TreeSafe, Inherit
    <3> QED BY <2>3, <3>1
  <2>5. losers \in SUBSET Node /\ Closed(Winner) /\ \A n \in losers : Closed(n)
    BY <1>5, <2>2
  <2>6. \A n \in losers \cup tree[Winner].revisions :
          Words(n) \subseteq final \cup InPlan(copy) \cup Kept
    BY <2>3, <2>4
  <2> QED BY <1>1, <2>1, <2>2, <2>5, <2>6, PlanSafe
<1> QED
  BY <1>3, <1>4, <1>5, ReadLeavesType

\* With one live leaf, resolve_delete_winner's choice has everything.
LEMMA ReadAllLeavesSafe ==
  ASSUME TypeInv, SafeInv, NEW q \in Process, ReadAllLeaves(q), ~PicksOne
  PROVE  SafeInv'
<1>1. /\ UNCHANGED <<tree, copies, dev, acked, retired>> /\ task[q].at = "leaves"
      /\ task[q].at \in Resolving /\ TreeOK
  BY ReadAllLeavesType DEF TypeInv, Resolving
<1>2. TreeSafe' /\ Grown
  BY <1>1, SameTreeSafe DEF SafeInv, Kept, InCopies
<1>3. CASE Left(q, {"idle", "winner", "rejected"})
  BY <1>1, <1>2, <1>3, LeftSafe
<1>4. CASE /\ \A n \in Live : tree[n].content # Missing
           /\ \E n \in Live, t \in Leaf \ Live :
                /\ tree[n].content \in SUBSET Edit
                /\ HasPlan(q, t, tree[n].content, <<>>, Leaf \ {t})
  <2>1. PICK n \in Live, t \in Leaf \ Live : HasPlan(q, t, tree[n].content, <<>>, Leaf \ {t})
    BY <1>4
  <2>2. task'[q].at = "write"
    BY <2>1 DEF HasPlan
  <2>3. Live = {n}
    BY <1>1, <2>2 DEF PicksOne, At
  <2>4. /\ n \in Node /\ t \in Node /\ Readable(n) /\ Closed(t) /\ Held(n) = Words(n)
        /\ \A m \in Leaf : Closed(m)
        /\ Leaf \subseteq Node
    BY <1>4, <2>3 DEF Live, Leaf, Readable, Closed, Held
  <2>5. Words(n) = tree[n].content /\ tree[t].revisions \subseteq Node
    BY <1>1, <2>4, NodeIs
  <2>6. \A w \in Node : Words(w) \subseteq tree[n].content \cup InPlan(<<>>) \cup Kept
    BY <2>3, <2>4, <2>5 DEF SafeInv, TreeSafe, Covered
  <2>7. /\ Leaf \ {t} \in SUBSET Node
        /\ \A m \in (Leaf \ {t}) \cup tree[t].revisions :
             Words(m) \subseteq tree[n].content \cup InPlan(<<>>) \cup Kept
        /\ \A m \in Leaf \ {t} : Closed(m)
    BY <2>4, <2>5, <2>6
  <2> QED BY <1>1, <2>1, <2>4, <2>7, PlanSafe
<1> QED
  BY <1>3, <1>4, ReadAllLeavesType

\* A step within a plan that is still being carried out before its write.
LEMMA PlanGoesOn ==
  ASSUME TypeInv, SafeInv, NEW q \in Process, task[q].at \in Planning,
         NEW at, at \in Planning, Moved(q, at), Grown, UNCHANGED tree,
         task'[q].losers = task[q].losers,
         at = "write" => task'[q].copy = <<>>,
         InPlan(task[q].copy) \subseteq InPlan(task'[q].copy) \cup Kept'
  PROVE  TasksInv'
<1>1. /\ \A r \in Process \ {q} : task'[r] = task[r]
      /\ task'[q].at = at /\ task'[q].op = task[q].op /\ task'[q].base = task[q].base
      /\ task'[q].text = task[q].text /\ task'[q].top = task[q].top
      /\ task'[q].final = task[q].final
  BY DEF Moved
<1>2. Node' = Node /\ Kept \subseteq Kept'
  BY SameLive DEF Grown
<1>3. SentInv(q)'
  BY <1>1, SentStays DEF SafeInv, TasksInv
<1>4. PushInv(q)'
  <2>1. task[q].text = {} \/ \E n \in Node : tree[n].content = task[q].text
    BY DEF SafeInv, TasksInv, PushInv, Planning, Resolving
  <2> QED BY <1>1, <1>2, <2>1 DEF PushInv, Planning
<1>5. PlanInv(q)'
  <2>1. /\ task[q].top \in Node /\ Closed(task[q].top)
        /\ \A n \in task[q].losers : Closed(n)
        /\ \A n \in task[q].losers \cup tree[task[q].top].revisions :
             Words(n) \subseteq task[q].final \cup InPlan(task[q].copy) \cup Kept
    BY DEF SafeInv, TasksInv, PlanInv
  <2>2. \A n : Words(n)' = Words(n) /\ (Closed(n)' <=> Closed(n))
    BY DEF Words, Closed, Readable
  <2>3. Closed(task[q].top)' /\ task'[q].top \in Node'
    BY <1>1, <1>2, <2>1 DEF Closed, Readable
  <2>4. \A n \in task'[q].losers : Closed(n)'
    BY <1>1, <2>1, <2>2
  <2>5. \A n \in task'[q].losers \cup tree'[task'[q].top].revisions :
          Words(n)' \subseteq task'[q].final \cup InPlan(task'[q].copy) \cup Kept'
    BY <1>1, <1>2, <2>1, <2>2
  <2>6. InPlan(task[q].copy)' = InPlan(task'[q].copy)
    BY DEF InPlan
  <2>7. task'[q].at \notin {"writeatt", "drop"} /\ (task'[q].at = "write" => task'[q].copy = <<>>)
    BY <1>1 DEF Planning
  <2> QED BY <2>3, <2>4, <2>5, <2>6, <2>7 DEF PlanInv
<1> QED
  BY <1>1, <1>3, <1>4, <1>5, TasksFrame DEF SafeInv

LEMMA CopyNameSafe ==
  ASSUME TypeInv, SafeInv, NEW q \in Process, CopyName(q)
  PROVE  SafeInv'
<1>1. /\ UNCHANGED <<tree, copies, dev, acked, retired>> /\ task[q].at = "copy"
      /\ Moved(q, "copydoc") /\ task'[q].slot = Len(copies) + 1
      /\ task'[q].copy = task[q].copy /\ task'[q].losers = task[q].losers
      /\ Len(copies) \in Nat
  BY CopyNameType DEF TypeInv
<1>2. TreeSafe' /\ Grown
  BY <1>1, SameTreeSafe DEF SafeInv, Kept, InCopies
<1>3. TasksInv'
  BY <1>1, <1>2, PlanGoesOn DEF Planning
<1>4. Slots'
  <2>1. task'[q].at = "copydoc" /\ \A r \in Process \ {q} : task'[r] = task[r]
    BY <1>1 DEF Moved
  <2> QED BY <1>1, <2>1 DEF SafeInv, Slots
<1>5. AckedStored' /\ ReadsWhole'
  BY <1>1, <1>2, AckedStays, ReadsStay DEF SafeInv
<1> QED
  BY <1>2, <1>3, <1>4, <1>5 DEF SafeInv

LEMMA CopyDocSafe ==
  ASSUME TypeInv, SafeInv, NEW q \in Process, CopyDoc(q)
  PROVE  SafeInv'
<1>1. /\ UNCHANGED <<tree, dev, acked, retired>> /\ task[q].at = "copydoc"
      /\ copies \in Seq(Content) /\ Len(copies) \in Nat
  BY CopyDocType DEF TypeInv
<1>2. CASE /\ task[q].slot = Len(copies) + 1 /\ copies' = Append(copies, Missing)
           /\ Moved(q, "copyatt") /\ task'[q].slot = task[q].slot
           /\ task'[q].copy = task[q].copy /\ task'[q].losers = task[q].losers
  <2>1. /\ Len(copies') = Len(copies) + 1 /\ copies'[Len(copies) + 1] = Missing
        /\ \A i \in 1..Len(copies) : copies'[i] = copies[i]
        /\ DOMAIN copies = 1..Len(copies) /\ DOMAIN copies' = 1..Len(copies')
    BY <1>1, <1>2, Missing \in Content DEF Content
  <2>2. Kept \subseteq Kept'
    <3>1. \A i \in DOMAIN copies : i \in DOMAIN copies' /\ copies'[i] = copies[i]
      BY <1>1, <2>1
    <3> QED BY <1>1, <3>1 DEF Kept, InCopies
  <2>3. TreeSafe' /\ Grown
    BY <1>1, <2>2, SameTreeSafe DEF SafeInv
  <2>4. TasksInv'
    BY <1>1, <1>2, <2>3, PlanGoesOn DEF Planning
  <2>5. Slots'
    <3>1. task'[q].at = "copyatt" /\ \A r \in Process \ {q} : task'[r] = task[r]
      BY <1>2 DEF Moved
    <3>2. \A r \in Process \ {q} :
            /\ task[r].at = "copydoc" => task[r].slot \in 1..(Len(copies') + 1)
            /\ task[r].at = "copyatt" => /\ task[r].slot \in 1..Len(copies)
                                         /\ copies'[task[r].slot] = Missing
                                         /\ task[r].slot # task[q].slot
      BY <1>1, <1>2, <2>1 DEF SafeInv, Slots
    <3>3. task[q].slot \in 1..Len(copies') /\ copies'[task[q].slot] = Missing
          /\ 1..Len(copies) \subseteq 1..Len(copies')
      BY <1>1, <1>2, <2>1
    <3>4. \A r, s \in Process : task[r].at = "copyatt" /\ task[s].at = "copyatt" /\ r # s
                                  => task[r].slot # task[s].slot
      BY DEF SafeInv, Slots
    <3> QED BY <1>2, <3>1, <3>2, <3>3, <3>4 DEF Slots
  <2>6. AckedStored' /\ ReadsWhole'
    BY <1>1, <2>3, AckedStays, ReadsStay DEF SafeInv
  <2> QED BY <2>3, <2>4, <2>5, <2>6 DEF SafeInv
<1>3. CASE UNCHANGED copies /\ Left(q, {"idle", "winner", "rejected", "read", "leaves"})
  <2>1. TreeSafe' /\ Grown
    BY <1>1, <1>3, SameTreeSafe DEF SafeInv, Kept, InCopies
  <2>2. task[q].at \in Resolving
    BY <1>1 DEF Resolving
  <2> QED BY <1>1, <1>3, <2>1, <2>2, LeftSafe
<1> QED
  BY <1>2, <1>3, CopyDocType

LEMMA CopyAttachmentSafe ==
  ASSUME TypeInv, SafeInv, NEW q \in Process, CopyAttachment(q)
  PROVE  SafeInv'
<1> DEFINE s == task[q].slot
           copy == task[q].copy
           at == IF Tail(copy) = <<>> THEN "write" ELSE "copy"
<1>1. /\ UNCHANGED <<tree, dev, acked, retired>> /\ task[q].at = "copyatt"
      /\ copy # <<>> /\ copies' = [copies EXCEPT ![s] = Head(copy)]
      /\ Moved(q, at) /\ task'[q].copy = Tail(copy) /\ task'[q].losers = task[q].losers
  BY CopyAttachmentType
<1>2. copies \in Seq(Content) /\ copy \in Seq(SUBSET Edit) /\ Len(copies) \in Nat
  BY Fields DEF TypeInv
<1>3. s \in 1..Len(copies) /\ copies[s] = Missing
  BY <1>1 DEF SafeInv, Slots
<1>4. at \in Planning /\ (at = "write" => Tail(copy) = <<>>) /\ at \notin {"copydoc", "copyatt"}
  BY DEF Planning
<1> HIDE DEF s, copy, at
<1>5. Head(copy) \in SUBSET Edit /\ Head(copy) \in Content /\ Text(Head(copy)) = Head(copy)
  BY <1>1, <1>2, TextIs DEF Content
<1>6. /\ Len(copies') = Len(copies) /\ copies' \in Seq(Content)
      /\ \A i \in 1..Len(copies) : copies'[i] = IF i = s THEN Head(copy) ELSE copies[i]
  <2>1. copies \in [1..Len(copies) -> Content] /\ DOMAIN copies = 1..Len(copies)
    BY <1>2
  <2>2. /\ copies' \in [1..Len(copies) -> Content]
        /\ \A i \in 1..Len(copies) : copies'[i] = IF i = s THEN Head(copy) ELSE copies[i]
    BY <1>1, <1>5, <2>1
  <2> QED BY <1>2, <2>2
<1>7. DOMAIN copies = 1..Len(copies) /\ DOMAIN copies' = 1..Len(copies)
  BY <1>2, <1>6
<1>8. InCopies \subseteq InCopies' /\ Head(copy) \subseteq InCopies'
  <2>1. \A i \in DOMAIN copies : Text(copies[i]) \subseteq Text(copies'[i])
    <3>1. Text(copies[s]) = {}
      BY <1>3, TextIs
    <3> QED BY <1>6, <1>7, <3>1
  <2>2. Text(copies'[s]) = Head(copy) /\ s \in DOMAIN copies'
    BY <1>3, <1>5, <1>6, <1>7
  <2> QED BY <1>7, <2>1, <2>2 DEF InCopies
<1>9. Kept \subseteq Kept' /\ Head(copy) \subseteq Kept'
  BY <1>1, <1>8 DEF Kept
<1>10. TreeSafe' /\ Grown
  BY <1>1, <1>9, SameTreeSafe DEF SafeInv
<1>11. InPlan(copy) \subseteq InPlan(Tail(copy)) \cup Kept'
  <2> SUFFICES ASSUME NEW i \in DOMAIN copy
               PROVE  copy[i] \subseteq InPlan(Tail(copy)) \cup Kept'
    BY DEF InPlan
  <2>1. CASE i = 1
    BY <1>1, <1>2, <1>9, <2>1
  <2>2. CASE i # 1
    <3>1. i - 1 \in DOMAIN Tail(copy) /\ Tail(copy)[i - 1] = copy[i]
      BY <1>1, <1>2, <2>2
    <3> QED BY <3>1 DEF InPlan
  <2> QED BY <2>1, <2>2
<1>12. TasksInv'
  <2>1. task[q].at \in Planning
    BY <1>1 DEF Planning
  <2>2. InPlan(task[q].copy) \subseteq InPlan(task'[q].copy) \cup Kept'
    BY <1>1, <1>11 DEF copy
  <2> QED BY <1>1, <1>4, <1>10, <2>1, <2>2, PlanGoesOn
<1>13. Slots'
  <2>1. task'[q].at = at /\ \A r \in Process \ {q} : task'[r] = task[r]
    BY <1>1 DEF Moved
  <2>2. \A r \in Process \ {q} :
          task[r].at = "copyatt" => task[r].slot # s /\ copies'[task[r].slot] = Missing
    BY <1>1, <1>6 DEF SafeInv, Slots, s
  <2> QED BY <1>4, <1>6, <2>1, <2>2 DEF SafeInv, Slots
<1>14. AckedStored' /\ ReadsWhole'
  BY <1>1, <1>10, AckedStays, ReadsStay DEF SafeInv
<1> QED
  BY <1>10, <1>12, <1>13, <1>14 DEF SafeInv

LEMMA WriteDocSafe ==
  ASSUME TypeInv, SafeInv, NEW q \in Process, WriteDoc(q)
  PROVE  SafeInv'
<1>1. /\ UNCHANGED <<copies, dev, acked, retired>> /\ task[q].at = "write"
      /\ task[q].at \in Resolving /\ TreeOK /\ Len(tree) \in Nat
      /\ task[q].losers \in SUBSET Node /\ task[q].top \in 0..Len(tree)
  BY WriteDocType, Fields DEF Resolving
<1>2. CASE /\ task[q].top \in Leaf /\ Added(task[q].top, FALSE, Missing, NoTag)
           /\ Moved(q, "writeatt") /\ task'[q].new = NewRev
           /\ task'[q].losers = task[q].losers
  <2>1. /\ \A r \in Process \ {q} : task'[r] = task[r]
        /\ task'[q].at = "writeatt" /\ task'[q].op = task[q].op /\ task'[q].base = task[q].base
        /\ task'[q].text = task[q].text /\ task'[q].final = task[q].final
    BY <1>2 DEF Moved
  <2>2. /\ task[q].top \in Node /\ Closed(task[q].top)
        /\ \A n \in task[q].losers : Closed(n)
        /\ \A n \in task[q].losers \cup tree[task[q].top].revisions :
             Words(n) \subseteq task[q].final \cup Kept
    <3>1. task[q].at \in Planning
      BY <1>1 DEF Planning
    <3>2. InPlan(task[q].copy) = {}
      BY <1>1, <3>1 DEF SafeInv, TasksInv, PlanInv, InPlan
    <3> QED BY <3>1, <3>2 DEF SafeInv, TasksInv, PlanInv
  <2>3. TreeSafe' /\ Grown /\ Kept' = Kept
    BY <1>1, <1>2, <2>2, BodyAdded DEF SafeInv
  <2>4. PICK k \in Node' :
          /\ k = NewRev /\ tree'[k].content = Missing /\ k = Len(tree) + 1
          /\ \A a \in tree'[k].revisions : Words(a)' \subseteq task[q].final \cup Kept'
    BY <1>1, <1>2, <2>2, <2>3, BodyIs
  <2>5. PlanInv(q)'
    <3>1. /\ task'[q].new \in Node' /\ tree'[task'[q].new].content = Missing
          /\ \A a \in tree'[task'[q].new].revisions : Words(a)' \subseteq task'[q].final \cup Kept'
      BY <1>2, <2>1, <2>4
    <3>2. \A n \in task[q].losers : /\ n < k /\ (Closed(n)' <=> Closed(n))
                                    /\ Words(n)' = Words(n)
      <4>1. \A n \in task[q].losers : n \in Node /\ n < k
        BY <1>1, <2>4 DEF Node
      <4> QED BY <1>1, <2>3, <4>1, GrownNode
    <3>3. \A n \in task'[q].losers :
            n < task'[q].new /\ Closed(n)' /\ Words(n)' \subseteq task'[q].final \cup Kept'
      BY <1>2, <2>1, <2>2, <2>3, <2>4, <3>2
    <3> QED BY <2>1, <3>1, <3>3 DEF PlanInv, Body, Readable, Planning
  <2>6. PushInv(q)'
    <3>1. task[q].text = {} \/ \E n \in Node : tree[n].content = task[q].text
      BY <1>1 DEF SafeInv, TasksInv, PushInv
    <3> QED BY <2>1, <2>3, <3>1 DEF PushInv, Grown
  <2>7. SentInv(q)'
    BY <2>1, <2>3, SentStays DEF SafeInv, TasksInv
  <2>8. TasksInv'
    BY <2>1, <2>3, <2>5, <2>6, <2>7, TasksFrame DEF SafeInv
  <2>9. Slots' /\ AckedStored' /\ ReadsWhole'
    BY <1>1, <2>1, <2>3, AckedStays, SlotsStay, ReadsStay DEF SafeInv
  <2> QED BY <2>3, <2>8, <2>9 DEF SafeInv
<1>3. CASE UNCHANGED tree /\ Left(q, {"idle", "winner", "rejected", "read", "leaves"})
  <2>1. TreeSafe' /\ Grown
    BY <1>1, <1>3, SameTreeSafe DEF SafeInv, Kept, InCopies
  <2> QED BY <1>1, <1>3, <2>1, LeftSafe
<1> QED
  BY <1>2, <1>3, WriteDocType

LEMMA WriteAttachmentSafe ==
  ASSUME TypeInv, SafeInv, NEW q \in Process, WriteAttachment(q)
  PROVE  SafeInv'
<1>1. /\ UNCHANGED <<copies, dev, acked, retired>> /\ task[q].at = "writeatt"
      /\ task[q].at \in Resolving /\ TreeOK
      /\ task[q].losers \in SUBSET Node /\ task[q].final \in SUBSET Edit
  BY WriteAttachmentType, Fields DEF Resolving
<1>2. /\ Body(task[q].new, task[q].final) /\ task[q].new \in Node
      /\ \A n \in task[q].losers :
           n < task[q].new /\ Closed(n) /\ Words(n) \subseteq task[q].final \cup Kept
  BY <1>1 DEF SafeInv, TasksInv, PlanInv, Body
<1>3. CASE /\ Added(task[q].new, FALSE, task[q].final, NoTag)
           /\ Moved(q, "drop") /\ task'[q].losers = task[q].losers
  <2>1. /\ \A r \in Process \ {q} : task'[r] = task[r]
        /\ task'[q].at = "drop" /\ task'[q].op = task[q].op /\ task'[q].base = task[q].base
        /\ task'[q].text = task[q].text
    BY <1>3 DEF Moved
  <2>2. TreeSafe' /\ Grown /\ Kept' = Kept
    BY <1>1, <1>2, <1>3, AttachmentAdded DEF SafeInv
  <2>3. PICK k \in Node' : /\ k > task[q].new /\ ~tree'[k].dead
                           /\ Words(k)' = task[q].final
    BY <1>1, <1>2, <1>3, AttachmentAdded DEF SafeInv
  <2>4. PlanInv(q)'
    <3>1. \A n \in task[q].losers : /\ n < k /\ (Closed(n)' <=> Closed(n))
                                    /\ Words(n)' = Words(n)
      <4>1. k \in Nat /\ task[q].new \in Nat /\ \A n \in task[q].losers : n \in Node /\ n \in Nat
        BY <1>1, <1>2 DEF Node
      <4>2. \A n \in task[q].losers : n < k
        BY <1>2, <2>3, <4>1
      <4> QED BY <1>1, <2>2, <4>1, <4>2, GrownNode
    <3>2. \A n \in task'[q].losers :
            n < k /\ Closed(n)' /\ Words(n)' \subseteq Words(k)' \cup Kept'
      BY <1>2, <1>3, <2>2, <2>3, <3>1
    <3> QED BY <2>1, <2>3, <3>2 DEF PlanInv, Planning
  <2>5. PushInv(q)'
    <3>1. task[q].text = {} \/ \E n \in Node : tree[n].content = task[q].text
      BY <1>1 DEF SafeInv, TasksInv, PushInv
    <3> QED BY <2>1, <2>2, <3>1 DEF PushInv, Grown
  <2>6. SentInv(q)'
    BY <2>1, <2>2, SentStays DEF SafeInv, TasksInv
  <2>7. TasksInv'
    BY <2>1, <2>2, <2>4, <2>5, <2>6, TasksFrame DEF SafeInv
  <2>8. Slots' /\ AckedStored' /\ ReadsWhole'
    BY <1>1, <2>1, <2>2, AckedStays, SlotsStay, ReadsStay DEF SafeInv
  <2> QED BY <2>2, <2>7, <2>8 DEF SafeInv
<1>4. CASE UNCHANGED tree /\ Left(q, {"idle", "winner", "rejected", "read", "leaves"})
  <2>1. TreeSafe' /\ Grown
    BY <1>1, <1>4, SameTreeSafe DEF SafeInv, Kept, InCopies
  <2> QED BY <1>1, <1>4, <2>1, LeftSafe
<1> QED
  BY <1>3, <1>4, WriteAttachmentType

\* A loser is older than the revision that has its content, so whatever has that
\* content by now is another leaf.
LEMMA DropLoserSafe ==
  ASSUME TypeInv, SafeInv, NEW q \in Process, DropLoser(q)
  PROVE  SafeInv'
<1>1. /\ UNCHANGED <<copies, dev, acked, retired>> /\ task[q].at = "drop"
      /\ task[q].at \in Resolving /\ TreeOK
      /\ task[q].losers \in SUBSET Node
  BY DropLoserType, Fields DEF Resolving
<1>2. PICK w \in Node :
        /\ ~tree[w].dead
        /\ \A n \in task[q].losers :
             n < w /\ Closed(n) /\ Words(n) \subseteq Words(w) \cup Kept
  BY <1>1 DEF SafeInv, TasksInv, PlanInv
<1>3. ASSUME NEW n \in task[q].losers, Added(n, TRUE, Missing, NoTag)
      PROVE  TreeSafe' /\ Grown /\ Kept' = Kept
  <2>1. n \in Node /\ w > n /\ Closed(n)
    BY <1>1, <1>2 DEF Node
  <2>2. \A e \in Words(n) : e \in Kept \/ \E m \in Node : m > n /\ e \in Words(m)
    BY <1>2, <2>1
  <2> QED BY <1>1, <1>3, <2>1, <2>2, TombstoneAdded DEF SafeInv
<1>4. ASSUME NEW n \in task[q].losers, Added(n, TRUE, Missing, NoTag),
             Left(q, {"idle", "winner", "rejected"})
      PROVE  SafeInv'
  <2>1. TreeSafe' /\ Grown
    BY <1>3, <1>4
  <2> QED BY <1>1, <1>4, <2>1, LeftSafe
<1>5. ASSUME NEW n \in task[q].losers, Added(n, TRUE, Missing, NoTag),
             Moved(q, "drop"), task'[q].losers = task[q].losers \ {n}
      PROVE  SafeInv'
  <2>1. TreeSafe' /\ Grown /\ Kept' = Kept
    BY <1>3, <1>5
  <2>2. /\ \A r \in Process \ {q} : task'[r] = task[r]
        /\ task'[q].at = "drop" /\ task'[q].op = task[q].op /\ task'[q].base = task[q].base
        /\ task'[q].text = task[q].text
    BY <1>5 DEF Moved
  <2>3. PlanInv(q)'
    <3>1. w \in Node' /\ ~tree'[w].dead /\ Words(w)' = Words(w)
      BY <1>1, <1>2, <2>1, GrownNode
    <3>2. \A m \in task'[q].losers :
            m < w /\ Closed(m)' /\ Words(m)' \subseteq Words(w)' \cup Kept'
      <4>1. \A m \in task'[q].losers : m \in task[q].losers /\ m \in Node
        BY <1>1, <1>5
      <4> QED BY <1>1, <1>2, <2>1, <3>1, <4>1, GrownNode
    <3> QED BY <2>2, <3>1, <3>2 DEF PlanInv, Planning
  <2>4. PushInv(q)'
    <3>1. task[q].text = {} \/ \E m \in Node : tree[m].content = task[q].text
      BY <1>1 DEF SafeInv, TasksInv, PushInv
    <3> QED BY <2>1, <2>2, <3>1 DEF PushInv, Grown
  <2>5. SentInv(q)'
    BY <2>1, <2>2, SentStays DEF SafeInv, TasksInv
  <2>6. TasksInv'
    BY <2>1, <2>2, <2>3, <2>4, <2>5, TasksFrame DEF SafeInv
  <2>7. Slots' /\ AckedStored' /\ ReadsWhole'
    BY <1>1, <2>1, <2>2, AckedStays, SlotsStay, ReadsStay DEF SafeInv
  <2> QED BY <2>1, <2>6, <2>7 DEF SafeInv
<1>6. CASE UNCHANGED tree /\ Left(q, {"idle", "winner", "rejected", "read", "leaves"})
  <2>1. TreeSafe' /\ Grown
    BY <1>1, <1>6, SameTreeSafe DEF SafeInv, Kept, InCopies
  <2> QED BY <1>1, <1>6, <2>1, LeftSafe
<1> QED
  BY <1>4, <1>5, <1>6, DropLoserType

----------------------------------------------------------------------------
(* The invariant is inductive, as long as resolve_delete_winner has no choice. *)

LEMMA SafeInit ==
  ASSUME Init
  PROVE  SafeInv
<1>1. /\ tree = <<>> \/ tree = <<Root>>
      /\ copies = <<>> /\ task = [q \in Process |-> Idle]
      /\ acked = {} /\ retired = {}
      /\ dev \in [Device -> {[at |-> "read", base |-> Len(tree), text |-> {}]} \cup
                            (IF tree = <<>> THEN {} ELSE {Unread})]
  BY DEF Init
<1>2. \A n \in Node : tree = <<Root>> /\ n = 1 /\ tree[n] = Root
  <2>1. CASE tree = <<>>
    BY <2>1 DEF Node
  <2>2. CASE tree = <<Root>>
    <3>1. Len(tree) = 1 /\ tree[1] = Root
      BY <2>2
    <3> QED BY <2>2, <3>1 DEF Node
  <2> QED BY <1>1, <2>1, <2>2
<1>3. \A n \in Node : /\ tree[n].content = {} /\ tree[n].revisions = {n}
                      /\ tree[n].parent = NoRev /\ tree[n].tag.op = "none"
  BY <1>2 DEF Root, NoRev, NoTag
<1>4. \A n \in Node : Words(n) = {}
  <2>1. Text({}) = {}
    BY TextIs
  <2> QED BY <1>3, <2>1 DEF Words
<1>5. TreeSafe
  <2>1. Linked
    BY <1>3 DEF Linked
  <2>2. Inherit
    BY <1>3, <1>4 DEF Inherit
  <2>3. Covered
    BY <1>4 DEF Covered
  <2> QED BY <2>1, <2>2, <2>3 DEF TreeSafe
<1>6. AckedStored
  BY <1>1 DEF AckedStored
<1>7. ReadsWhole
  <2> SUFFICES ASSUME NEW d \in Device
               PROVE  /\ dev[d].at # "reading"
                      /\ dev[d].at = "read" =>
                           \/ dev[d].base = NoRev /\ dev[d].text = {}
                           \/ dev[d].base \in Node /\ tree[dev[d].base].content = dev[d].text
    BY DEF ReadsWhole
  <2>1. \/ dev[d] = [at |-> "read", base |-> Len(tree), text |-> {}]
        \/ dev[d] = Unread
    BY <1>1
  <2>2. Len(tree) = NoRev \/ (Len(tree) \in Node /\ tree[Len(tree)].content = {})
    <3>1. CASE tree = <<>>
      BY <3>1 DEF NoRev
    <3>2. CASE tree = <<Root>>
      <4>1. Len(tree) \in Node
        BY <3>2 DEF Node
      <4> QED BY <1>3, <4>1
    <3> QED BY <1>1, <3>1, <3>2
  <2>3. CASE dev[d] = [at |-> "read", base |-> Len(tree), text |-> {}]
    <3>1. dev[d].at = "read" /\ dev[d].base = Len(tree) /\ dev[d].text = {}
      BY <2>3
    <3> QED BY <2>2, <3>1
  <2>4. CASE dev[d] = Unread
    <3>1. dev[d].at = "stale"
      BY <2>4 DEF Unread
    <3> QED BY <3>1
  <2> QED BY <2>1, <2>3, <2>4
<1>8. \A q \in Process : task[q].at = "idle" /\ task[q].op = "none" /\ task[q].text = {}
  BY <1>1, IdleIs
<1>9. TasksInv /\ Slots
  BY <1>8 DEF TasksInv, SentInv, PushInv, PlanInv, Planning, Slots
<1> QED
  BY <1>5, <1>6, <1>7, <1>9 DEF SafeInv

LEMMA SafeStep ==
  ASSUME ~TornReads, TypeInv, SafeInv, [Next /\ ~PicksOne]_vars
  PROVE  SafeInv'
<1>1. CASE UNCHANGED vars
  <2>1. UNCHANGED <<tree, copies, task, dev, acked, retired>>
    BY <1>1 DEF vars
  <2>2. TreeSafe' /\ Grown
    BY <2>1, SameTreeSafe DEF SafeInv, Kept, InCopies
  <2>3. TasksInv'
    BY <2>1, <2>2, TaskStays DEF SafeInv, TasksInv
  <2>4. Slots' /\ AckedStored' /\ ReadsWhole'
    BY <2>1, <2>2, AckedStays, ReadsStay DEF SafeInv, Slots
  <2> QED BY <2>2, <2>3, <2>4 DEF SafeInv
<1>2. ASSUME NEW d \in Device, Client(d)
      PROVE  SafeInv'
  BY <1>2, ReadsSafe, PushSafe, RepeatSafe DEF Client
<1>3. ASSUME NEW d \in Device, Handle(d)
      PROVE  SafeInv'
  BY <1>3, PutDocSafe, PutAttachmentSafe, DeleteDocSafe, PutRevisionSafe, AnswerWinnerSafe
     DEF Handle
<1>4. ASSUME NEW q \in Process, Resolve(q), ~PicksOne
      PROVE  SafeInv'
  BY <1>4, ReadLeavesSafe, ReadAllLeavesSafe, CopyNameSafe, CopyDocSafe, CopyAttachmentSafe,
     WriteDocSafe, WriteAttachmentSafe, DropLoserSafe DEF Resolve
<1>5. CASE Poll
  BY <1>5, PollSafe
<1>6. CASE Crash
  BY <1>6, CrashSafe
<1>7. ASSUME NEW q \in Process, CouchFails(q)
      PROVE  SafeInv'
  BY <1>7, CouchFailsSafe
<1> QED
  BY <1>1, <1>2, <1>3, <1>4, <1>5, <1>6, <1>7 DEF Next

\* What was acknowledged is held, at rest or not, and the leaf that holds it may be
\* a body still without its attachment.
LEMMA SafeIsRecoverable ==
  ASSUME TypeInv, SafeInv
  PROVE  Recoverable
<1> SUFFICES ASSUME NEW e \in acked, e \notin InCopies \cup retired
             PROVE  e \in InLive \cup
                      UNION {Text(tree[tree[n].parent].content) :
                        n \in {m \in Live : tree[m].content = Missing /\ tree[m].parent # NoRev}}
  BY DEF Recoverable
<1>1. PICK w \in Node : e \in Words(w)
  BY DEF SafeInv, AckedStored
<1>2. PICK m \in Live : e \in Held(m)
  BY <1>1 DEF SafeInv, TreeSafe, Covered, Kept
<1>3. CASE Readable(m) \/ tree[m].parent = NoRev
  BY <1>2, <1>3 DEF Held, Words, InLive
<1>4. CASE ~Readable(m) /\ tree[m].parent # NoRev
  BY <1>2, <1>4 DEF Held, Words, Readable
<1> QED
  BY <1>3, <1>4

LEMMA SafeIsNotLost ==
  ASSUME TypeInv, SafeInv, Owned
  PROVE  NothingLost
<1> SUFFICES ASSUME Quiet, NEW e \in acked, e \notin InCopies \cup retired
             PROVE  e \in InLive
  BY DEF NothingLost
<1>1. PICK w \in Node : e \in Words(w)
  BY DEF SafeInv, AckedStored
<1>2. PICK m \in Live : e \in Held(m)
  BY <1>1 DEF SafeInv, TreeSafe, Covered, Kept
<1>3. Readable(m)
  BY DEF Quiet, Running, Owned, Owner, Readable
<1> QED
  BY <1>2, <1>3 DEF Held, Words, InLive

----------------------------------------------------------------------------
LEMMA SafeInductive ==
  ASSUME ~TornReads
  PROVE  Spec /\ [][~PicksOne]_vars => []SafeInv
<1>1. TypeInv /\ SafeInv /\ [Next]_vars /\ [~PicksOne]_vars => SafeInv'
  BY SafeStep
<1>2. Init => SafeInv
  BY SafeInit
<1> QED
  BY <1>1, <1>2, TypeInductive, PTL DEF Spec

\* While CouchDB answers every request and the hub does not crash, an edit the hub has acknowledged is in a live revision, in a
\* conflict copy or in content somebody deleted: no stale push, repeated request,
\* merge, lost race for a copy's name or pair of resolvers at work on the same
\* conflict discards it, for any number of devices, pushes and retries.  The proviso
\* is that GET /file answers from one revision and that resolve_delete_winner finds
\* no more than one live leaf when it plans; its choice of the newest of several
\* discards the others.
THEOREM AcknowledgedIsKept ==
  ASSUME ~TornReads, MaxFaults = 0
  PROVE  Spec /\ [][~PicksOne]_vars => []NothingLost
<1>1. TypeInv /\ SafeInv /\ Owned => NothingLost
  BY SafeIsNotLost
<1> QED
  BY <1>1, SafeInductive, OwnedInductive, TypeInductive, PTL

\* With any number of failed CouchDB requests and crashes of the hub process: what was
\* acknowledged is still there, at worst in the revision below a body that never got
\* its attachment.
THEOREM AcknowledgedIsRecoverable ==
  ASSUME ~TornReads
  PROVE  Spec /\ [][~PicksOne]_vars => []Recoverable
<1>1. TypeInv /\ SafeInv => Recoverable
  BY SafeIsRecoverable
<1> QED
  BY <1>1, SafeInductive, TypeInductive, PTL

----------------------------------------------------------------------------
(***************************************************************************)
(* When no device deletes the file, resolve_delete_winner is never called, *)
(* and the proviso falls away.  resolve runs only when there is a          *)
(* revision, and the newest revision that is not a tombstone always has a  *)
(* live leaf: a resolver deletes only leaves older than what it wrote.     *)
(***************************************************************************)
LiveTree ==
  /\ \A w \in Node : ~tree[w].dead => \E m \in Live : m >= w
  /\ Node # {} => ~tree[1].dead

Undeleted(q) ==
  /\ task[q].op # "delete" /\ task[q].at # "leaves" /\ task[q].loop = "read"
  /\ task[q].at \in Resolving \ {"idle"} => Node # {}

LiveInv == LiveTree /\ \A q \in Process : Undeleted(q)

LEMMA AddedLive ==
  ASSUME TypeInv, LiveTree, NEW p, NEW c, NEW tag, Added(p, FALSE, c, tag)
  PROVE  LiveTree' /\ Node' # {}
<1>1. Len(tree) \in Nat
  BY DEF TypeInv, TreeOK
<1>2. PICK k : k = NewRev
  OBVIOUS
<1>3. /\ k \in Node' /\ k \in Live' /\ k = Len(tree) + 1 /\ ~tree'[k].dead
      /\ \A n \in Node : tree'[n] = tree[n]
      /\ Node' = Node \cup {k}
  BY <1>2 DEF Added
<1>4. \A w \in Node' : k >= w
  BY <1>1, <1>3 DEF Node
<1>5. ~tree'[1].dead
  <2>1. CASE Node = {}
    <3>1. k = 1
      <4>1. Len(tree) = 0
        BY <1>1, <2>1 DEF Node
      <4> QED BY <1>3, <4>1
    <3> QED BY <1>3, <3>1
  <2>2. CASE Node # {}
    <3>1. 1 \in Node
      BY <1>1, <2>2 DEF Node
    <3> QED BY <1>3, <2>2, <3>1 DEF LiveTree
  <2> QED BY <2>1, <2>2
<1> QED
  BY <1>3, <1>4, <1>5 DEF LiveTree

LEMMA DroppedLive ==
  ASSUME TypeInv, LiveTree, NEW n \in Node, Added(n, TRUE, Missing, NoTag),
         NEW w \in Node, ~tree[w].dead, w > n
  PROVE  LiveTree' /\ Node' # {}
<1>1. /\ Len(tree) \in Nat /\ 1 \in Node /\ Live \subseteq Node
      /\ \A m \in Node : m \in Nat
  BY DEF TypeInv, TreeOK, Node, Live, Leaf
<1>2. PICK k : k = NewRev
  OBVIOUS
<1>3. /\ \A m \in Node : tree'[m] = tree[m] /\ tree'[k].dead /\ Live' = Live \ {n}
      /\ Node' = Node \cup {k}
  BY <1>2 DEF Added
<1>4. PICK m \in Live : m >= w
  BY DEF LiveTree
<1>5. m \in Live' /\ m > n /\ m \in Nat /\ n \in Nat
  BY <1>1, <1>3, <1>4
<1>6. ASSUME NEW v \in Node', ~tree'[v].dead
      PROVE  \E l \in Live' : l >= v
  <2>1. v \in Node /\ ~tree[v].dead
    BY <1>3, <1>6
  <2>2. PICK l \in Live : l >= v
    BY <2>1 DEF LiveTree
  <2>3. CASE l = n
    <3>1. v \in Nat /\ m >= v
      BY <1>1, <1>5, <2>1, <2>2, <2>3
    <3> QED BY <1>5, <3>1
  <2>4. CASE l # n
    BY <1>3, <2>2, <2>4
  <2> QED BY <2>3, <2>4
<1> QED
  BY <1>1, <1>3, <1>6 DEF LiveTree

LEMMA UndeletedStays ==
  ASSUME LiveInv, Node' # {} \/ Node = {}, LiveTree', NEW q \in Process,
         \A r \in Process \ {q} : task'[r] = task[r], Undeleted(q)'
  PROVE  LiveInv'
BY DEF LiveInv, Undeleted

LEMMA SameLiveTree ==
  ASSUME LiveInv, UNCHANGED tree
  PROVE  LiveTree' /\ Node' = Node
BY SameLive DEF LiveInv, LiveTree

LEMMA MovedUndeleted ==
  ASSUME LiveInv, NEW q \in Process, NEW at, Moved(q, at), at # "leaves", Node' # {}
  PROVE  Undeleted(q)' /\ \A r \in Process \ {q} : task'[r] = task[r]
BY DEF LiveInv, Undeleted, Moved

LEMMA OverUndeleted ==
  ASSUME LiveInv, NEW q \in Process, NEW at, at \in {"answered", "rejected"}, Over(q, at)
  PROVE  Undeleted(q)' /\ \A r \in Process \ {q} : task'[r] = task[r]
BY DEF LiveInv, Undeleted, Over, Resolving

LEMMA LeftUndeleted ==
  ASSUME LiveInv, NEW q \in Process, NEW S, Left(q, S), Node' # {}
  PROVE  Undeleted(q)' /\ \A r \in Process \ {q} : task'[r] = task[r]
BY DEF LiveInv, Undeleted, Left

LEMMA PlanUndeleted ==
  ASSUME LiveInv, NEW q \in Process, NEW top, NEW final, NEW copy, NEW losers,
         HasPlan(q, top, final, copy, losers), Node' # {}
  PROVE  Undeleted(q)' /\ \A r \in Process \ {q} : task'[r] = task[r]
BY DEF LiveInv, Undeleted, HasPlan

LEMMA LiveHandle ==
  ASSUME MaxDeletes = 0, TypeInv, SafeInv, LiveInv, NEW d \in Device, Client(d) \/ Handle(d)
  PROVE  LiveInv'
<1>1. d \in Process /\ Undeleted(d) /\ LiveTree /\ TypeInv
  BY DeviceIsProcess DEF LiveInv
<1>2. CASE GetDoc(d) \/ GetAttachment(d) \/ GetFile(d)
  <2>1. UNCHANGED <<tree, task>>
    BY <1>2, ReadsType
  <2>2. LiveTree' /\ Node' = Node
    BY <2>1, SameLiveTree
  <2> QED BY <2>1, <2>2 DEF LiveInv, Undeleted
<1>3. CASE PushUpsert(d) \/ PushDelete(d)
  <2>1. /\ UNCHANGED tree /\ \A r \in Process \ {d} : task'[r] = task[r]
        /\ task'[d].at = "put" /\ task'[d].loop = "read" /\ task'[d].op # "delete"
    BY <1>3, PushType
  <2>2. LiveTree' /\ Node' = Node
    BY <2>1, SameLiveTree
  <2>3. Undeleted(d)'
    BY <2>1 DEF Undeleted, Resolving
  <2> QED BY <1>1, <2>1, <2>2, <2>3, UndeletedStays
<1>4. CASE Repeat(d)
  <2>1. /\ UNCHANGED tree /\ \A r \in Process \ {d} : task'[r] = task[r]
        /\ task'[d].at = "put" /\ task'[d].loop = "read" /\ task'[d].op = task[d].op
    BY <1>4, RepeatType
  <2>2. LiveTree' /\ Node' = Node
    BY <2>1, SameLiveTree
  <2>3. Undeleted(d)'
    BY <1>1, <2>1 DEF Undeleted, Resolving
  <2> QED BY <1>1, <2>1, <2>2, <2>3, UndeletedStays
<1>5. CASE PutDoc(d)
  <2>1. CASE /\ Moved(d, "attach")
             /\ Added(CasParent(task[d].base), FALSE, Missing, NoTag)
    <3>1. LiveTree' /\ Node' # {}
      BY <1>1, <2>1, AddedLive
    <3>2. Undeleted(d)' /\ \A r \in Process \ {d} : task'[r] = task[r]
      BY <1>1, <2>1, <3>1, MovedUndeleted
    <3> QED BY <1>1, <3>1, <3>2, UndeletedStays
  <2>2. CASE Moved(d, "branch") /\ UNCHANGED tree
    <3>1. LiveTree' /\ Node' = Node
      BY <2>2, SameLiveTree
    <3>2. Undeleted(d)' /\ \A r \in Process \ {d} : task'[r] = task[r]
      BY <1>1, <2>2 DEF Undeleted, Moved, Resolving
    <3> QED BY <1>1, <3>1, <3>2, UndeletedStays
  <2> QED BY <1>5, <2>1, <2>2, PutDocType
<1>6. CASE PutAttachment(d)
  <2>1. CASE /\ Added(task[d].new, FALSE, task[d].text, NoTag)
             /\ Over(d, "answered")
    <3>1. LiveTree' /\ Node' # {}
      BY <1>1, <2>1, AddedLive
    <3>2. Undeleted(d)' /\ \A r \in Process \ {d} : task'[r] = task[r]
      BY <1>1, <2>1, OverUndeleted
    <3> QED BY <1>1, <3>1, <3>2, UndeletedStays
  <2>2. CASE UNCHANGED tree /\ Over(d, "rejected")
    <3>1. LiveTree' /\ Node' = Node
      BY <2>2, SameLiveTree
    <3>2. Undeleted(d)' /\ \A r \in Process \ {d} : task'[r] = task[r]
      BY <1>1, <2>2, OverUndeleted
    <3> QED BY <1>1, <3>1, <3>2, UndeletedStays
  <2> QED BY <1>6, <2>1, <2>2, PutAttachmentType
<1>7. CASE DeleteDoc(d)
  BY <1>1, <1>7, DeleteDocType DEF Undeleted
<1>8. CASE PutRevision(d)
  <2>1. Moved(d, "read")
    BY <1>8, PutRevisionType
  <2>2. LiveTree' /\ Node' # {}
    <3>1. CASE Added(task[d].base, task[d].op = "delete",
                     IF task[d].op = "delete" THEN Missing ELSE task[d].text, Tag(d))
      <4>1. task[d].op # "delete"
        BY <1>1 DEF Undeleted
      <4>2. Added(task[d].base, FALSE, task[d].text, Tag(d))
        BY <3>1, <4>1
      <4> QED BY <1>1, <4>2, AddedLive
    <3>2. CASE UNCHANGED tree /\ \E n \in Node : tree[n].tag = Tag(d)
      BY <3>2, SameLiveTree
    <3> QED BY <1>8, <3>1, <3>2, PutRevisionType
  <2>3. Undeleted(d)' /\ \A r \in Process \ {d} : task'[r] = task[r]
    BY <1>1, <2>1, <2>2, MovedUndeleted
  <2> QED BY <1>1, <2>2, <2>3, UndeletedStays
<1>9. CASE AnswerWinner(d)
  <2>1. UNCHANGED tree /\ (Over(d, "answered") \/ Over(d, "rejected"))
    BY <1>9, AnswerWinnerType
  <2>2. LiveTree' /\ Node' = Node
    BY <2>1, SameLiveTree
  <2>3. Undeleted(d)' /\ \A r \in Process \ {d} : task'[r] = task[r]
    BY <1>1, <2>1, OverUndeleted
  <2> QED BY <1>1, <2>2, <2>3, UndeletedStays
<1> QED
  BY <1>2, <1>3, <1>4, <1>5, <1>6, <1>7, <1>8, <1>9 DEF Client, Handle

LEMMA LiveResolve ==
  ASSUME TypeInv, SafeInv, LiveInv, NEW q \in Process, Resolve(q)
  PROVE  LiveInv'
<1>1. Undeleted(q) /\ LiveTree /\ TypeInv /\ Len(tree) \in Nat
  BY Fields DEF LiveInv
<1>2. ASSUME UNCHANGED tree, Node # {}, Undeleted(q)',
             \A r \in Process \ {q} : task'[r] = task[r]
      PROVE  LiveInv'
  <2>1. LiveTree' /\ Node' = Node
    BY <1>2, SameLiveTree
  <2> QED BY <1>2, <2>1, UndeletedStays
<1>3. ASSUME UNCHANGED tree, Node # {}, NEW S, Left(q, S)
      PROVE  LiveInv'
  <2>1. Node' # {}
    BY <1>3, SameLive
  <2>2. Undeleted(q)' /\ \A r \in Process \ {q} : task'[r] = task[r]
    BY <1>3, <2>1, LeftUndeleted
  <2> QED BY <1>2, <1>3, <2>2
<1>4. ASSUME UNCHANGED tree, Node # {}, NEW at, at # "leaves", Moved(q, at)
      PROVE  LiveInv'
  <2>1. Node' # {}
    BY <1>4, SameLive
  <2>2. Undeleted(q)' /\ \A r \in Process \ {q} : task'[r] = task[r]
    BY <1>4, <2>1, MovedUndeleted
  <2> QED BY <1>2, <1>4, <2>2
<1>5. task[q].at \in {"read", "copy", "copydoc", "copyatt", "write", "writeatt", "drop"} => Node # {}
  BY <1>1 DEF Undeleted, Resolving
<1>6. CASE ReadLeaves(q)
  <2>1. UNCHANGED tree /\ Node # {}
    BY <1>5, <1>6, ReadLeavesType
  <2>2. Found
    <3>1. 1 \in Node /\ ~tree[1].dead
      BY <1>1, <2>1 DEF Node, LiveTree
    <3> QED BY <1>1, <3>1 DEF LiveTree, Found
  <2>3. CASE Left(q, {"idle", "winner", "rejected"})
    BY <1>3, <2>1, <2>3
  <2>4. ASSUME NEW final, NEW copy, NEW losers, HasPlan(q, Winner, final, copy, losers)
        PROVE  LiveInv'
    <3>1. Node' # {}
      BY <2>1, SameLive
    <3>2. Undeleted(q)' /\ \A r \in Process \ {q} : task'[r] = task[r]
      BY <2>4, <3>1, PlanUndeleted
    <3> QED BY <1>2, <2>1, <3>2
  <2> QED BY <1>6, <2>2, <2>3, <2>4, ReadLeavesType
<1>7. CASE ReadAllLeaves(q)
  BY <1>1, <1>7, ReadAllLeavesType DEF Undeleted
<1>8. CASE CopyName(q)
  BY <1>4, <1>5, <1>8, CopyNameType
<1>9. CASE CopyDoc(q)
  BY <1>3, <1>4, <1>5, <1>9, CopyDocType
<1>10. CASE CopyAttachment(q)
  <2> DEFINE at == IF Tail(task[q].copy) = <<>> THEN "write" ELSE "copy"
  <2>1. at # "leaves"
    OBVIOUS
  <2>2. UNCHANGED tree /\ Node # {} /\ Moved(q, at)
    BY <1>5, <1>10, CopyAttachmentType
  <2> HIDE DEF at
  <2> QED BY <1>4, <2>1, <2>2
<1>11. CASE WriteDoc(q)
  <2>1. Node # {}
    BY <1>5, <1>11, WriteDocType
  <2>2. CASE Added(task[q].top, FALSE, Missing, NoTag) /\ Moved(q, "writeatt")
    <3>1. LiveTree' /\ Node' # {}
      BY <1>1, <2>2, AddedLive
    <3>2. Undeleted(q)' /\ \A r \in Process \ {q} : task'[r] = task[r]
      BY <2>2, <3>1, MovedUndeleted
    <3> QED BY <3>1, <3>2, UndeletedStays
  <2> QED BY <1>3, <1>11, <2>1, <2>2, WriteDocType
<1>12. CASE WriteAttachment(q)
  <2>1. Node # {}
    BY <1>5, <1>12, WriteAttachmentType
  <2>2. CASE Added(task[q].new, FALSE, task[q].final, NoTag) /\ Moved(q, "drop")
    <3>1. LiveTree' /\ Node' # {}
      BY <1>1, <2>2, AddedLive
    <3>2. Undeleted(q)' /\ \A r \in Process \ {q} : task'[r] = task[r]
      BY <2>2, <3>1, MovedUndeleted
    <3> QED BY <3>1, <3>2, UndeletedStays
  <2> QED BY <1>3, <1>12, <2>1, <2>2, WriteAttachmentType
<1>13. CASE DropLoser(q)
  <2>1. task[q].at = "drop" /\ Node # {} /\ task[q].losers \in SUBSET Node
    BY <1>5, <1>13, DropLoserType, Fields
  <2>2. PICK w \in Node : ~tree[w].dead /\ \A n \in task[q].losers : n < w
    BY <2>1 DEF SafeInv, TasksInv, PlanInv
  <2>3. ASSUME NEW n \in task[q].losers, Added(n, TRUE, Missing, NoTag)
        PROVE  LiveTree' /\ Node' # {}
    <3>1. n \in Node /\ w > n
      BY <2>1, <2>2 DEF Node
    <3> QED BY <1>1, <2>2, <2>3, <3>1, DroppedLive
  <2>4. ASSUME NEW n \in task[q].losers, Added(n, TRUE, Missing, NoTag),
               Left(q, {"idle", "winner", "rejected"})
        PROVE  LiveInv'
    <3>1. LiveTree' /\ Node' # {}
      BY <2>3, <2>4
    <3>2. Undeleted(q)' /\ \A r \in Process \ {q} : task'[r] = task[r]
      BY <2>4, <3>1, LeftUndeleted
    <3> QED BY <3>1, <3>2, UndeletedStays
  <2>5. ASSUME NEW n \in task[q].losers, Added(n, TRUE, Missing, NoTag), Moved(q, "drop")
        PROVE  LiveInv'
    <3>1. LiveTree' /\ Node' # {}
      BY <2>3, <2>5
    <3>2. Undeleted(q)' /\ \A r \in Process \ {q} : task'[r] = task[r]
      BY <2>5, <3>1, MovedUndeleted
    <3> QED BY <3>1, <3>2, UndeletedStays
  <2> QED BY <1>3, <1>13, <2>1, <2>4, <2>5, DropLoserType
<1> QED
  BY <1>6, <1>7, <1>8, <1>9, <1>10, <1>11, <1>12, <1>13 DEF Resolve

LEMMA LiveStep ==
  ASSUME MaxDeletes = 0, TypeInv, SafeInv, LiveInv, [Next]_vars
  PROVE  LiveInv'
<1>1. CASE UNCHANGED vars
  <2>1. UNCHANGED <<tree, task>>
    BY <1>1 DEF vars
  <2>2. LiveTree' /\ Node' = Node
    BY <2>1, SameLiveTree
  <2> QED BY <2>1, <2>2 DEF LiveInv, Undeleted
<1>2. CASE Poll
  <2>1. UNCHANGED tree /\ Watcher \in Process
    BY <1>2, PollType, DeviceIsProcess
  <2>2. LiveTree' /\ Node' = Node
    BY <2>1, SameLiveTree
  <2>3. CASE Moved(Watcher, "read") /\ Conflicts # {}
    <3>1. Node # {}
      BY <2>3 DEF Conflicts, Live, Leaf
    <3>2. Undeleted(Watcher)' /\ \A r \in Process \ {Watcher} : task'[r] = task[r]
      BY <2>1, <2>2, <2>3, <3>1, MovedUndeleted
    <3> QED BY <2>1, <2>2, <3>1, <3>2, UndeletedStays
  <2>4. CASE UNCHANGED task
    BY <2>2, <2>4 DEF LiveInv, Undeleted
  <2> QED BY <1>2, <2>3, <2>4, PollType
<1>3. CASE Crash
  <2>1. UNCHANGED tree
    BY <1>3, CrashType
  <2>2. LiveTree' /\ Node' = Node
    BY <2>1, SameLiveTree
  <2>3. ASSUME NEW q \in Process
        PROVE  Undeleted(q)'
    <3>1. Undeleted(q)
      BY DEF LiveInv
    <3>2. CASE task'[q] = task[q]
      BY <2>2, <3>1, <3>2 DEF Undeleted
    <3>3. CASE task'[q] = Idle
      BY <3>3, IdleIs DEF Undeleted
    <3>4. CASE /\ task'[q].at = "rejected" /\ task'[q].op = task[q].op
               /\ task'[q].loop = "read"
      BY <3>1, <3>4 DEF Undeleted, Resolving
    <3> QED BY <1>3, <3>2, <3>3, <3>4, CrashType
  <2> QED BY <2>2, <2>3 DEF LiveInv
<1>4. ASSUME NEW q \in Process, CouchFails(q)
      PROVE  LiveInv'
  <2>1. UNCHANGED tree /\ \A r \in Process \ {q} : task'[r] = task[r]
    BY <1>4, CouchFailsType
  <2>2. LiveTree' /\ Node' = Node
    BY <2>1, SameLiveTree
  <2>3. CASE task'[q] = Idle
    <3>1. Undeleted(q)'
      BY <2>3, IdleIs DEF Undeleted
    <3> QED BY <2>1, <2>2, <3>1, UndeletedStays
  <2>4. CASE /\ task'[q].at = "rejected" /\ task'[q].op = task[q].op
             /\ task'[q].loop = "read"
    <3>1. Undeleted(q)'
      BY <2>4 DEF LiveInv, Undeleted, Resolving
    <3> QED BY <2>1, <2>2, <3>1, UndeletedStays
  <2> QED BY <1>4, <2>3, <2>4, CouchFailsType
<1> QED
  BY <1>1, <1>2, <1>3, <1>4, LiveHandle, LiveResolve DEF Next

LEMMA LiveInit ==
  ASSUME Init
  PROVE  LiveInv
<1>1. tree = <<>> \/ tree = <<Root>>
  BY DEF Init
<1>2. \A q \in Process : task[q] = Idle
  BY DEF Init
<1>3. LiveTree
  <2>1. CASE tree = <<>>
    BY <2>1 DEF LiveTree, Node
  <2>2. CASE tree = <<Root>>
    <3>1. Len(tree) = 1 /\ tree[1] = Root
      BY <2>2
    <3>2. \A n \in Node : n = 1
      BY <3>1 DEF Node
    <3>3. 1 \in Node /\ tree[1].parent = 0 /\ ~tree[1].dead
      BY <3>1 DEF Node, Root, NoRev
    <3>4. 1 \in Live
      BY <3>2, <3>3 DEF Live, Leaf
    <3> QED BY <3>2, <3>3, <3>4 DEF LiveTree
  <2> QED BY <1>1, <2>1, <2>2
<1> QED
  BY <1>2, <1>3, IdleIs DEF LiveInv, Undeleted

LEMMA LiveInductive ==
  ASSUME ~TornReads, MaxDeletes = 0
  PROVE  Spec => [](SafeInv /\ LiveInv)
<1>1. Init => SafeInv /\ LiveInv
  BY SafeInit, LiveInit
<1>2. TypeInv /\ SafeInv /\ LiveInv /\ [Next]_vars => SafeInv' /\ LiveInv'
  <2> SUFFICES ASSUME TypeInv, SafeInv, LiveInv, [Next]_vars
               PROVE  SafeInv' /\ LiveInv'
    OBVIOUS
  <2>1. ~PicksOne
    BY DEF PicksOne, At, LiveInv, Undeleted
  <2> QED BY <2>1, SafeStep, LiveStep
<1> QED
  BY <1>1, <1>2, TypeInductive, PTL DEF Spec

\* While nobody deletes the file, CouchDB answers every request and the hub does not
\* crash, no acknowledged edit is ever lost, whatever the resolvers do.
THEOREM EditsAreKept ==
  ASSUME ~TornReads, MaxDeletes = 0, MaxFaults = 0
  PROVE  Spec => []NothingLost
<1>1. TypeInv /\ SafeInv /\ Owned => NothingLost
  BY SafeIsNotLost
<1> QED
  BY <1>1, LiveInductive, OwnedInductive, TypeInductive, PTL

\* While nobody deletes the file, failed requests and crashes included, every acknowledged edit is in a
\* live revision, in a copy, or right below a body without its attachment.
THEOREM EditsAreRecoverable ==
  ASSUME ~TornReads, MaxDeletes = 0
  PROVE  Spec => []Recoverable
<1>1. TypeInv /\ SafeInv => Recoverable
  BY SafeIsRecoverable
<1> QED
  BY <1>1, LiveInductive, TypeInductive, PTL
=============================================================================
