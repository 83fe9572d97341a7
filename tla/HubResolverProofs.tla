------------------------- MODULE HubResolverProofs -------------------------
(***************************************************************************)
(* What holds of one hub's push, resolve and watch steps for any number of *)
(* devices, pushes, repeated requests and retries.                         *)
(***************************************************************************)
EXTENDS HubResolver, FiniteSetTheorems, WellFoundedInduction, TLAPS

Content == {Missing} \cup SUBSET Edit

Change == [op : {"none", "upsert", "delete"}, base : Nat, text : SUBSET Edit]

Revision == [parent : Nat, gen : Nat, rank : Int, dead : BOOLEAN, content : Content,
             tag : Change, revisions : SUBSET Nat]

Step == {"idle", "put", "attach", "branch", "winner", "answered", "rejected", "read",
         "leaves", "copy", "copydoc", "copyatt", "write", "writeatt", "drop"}

Task == [at : Step, op : {"none", "upsert", "delete"}, base : Nat, text : SUBSET Edit,
         new : Nat, loop : {"read", "leaves"}, tries : 0..(MaxRetries - 1), top : Nat,
         final : SUBSET Edit, copy : Seq(SUBSET Edit), slot : Nat, losers : SUBSET Nat]

TreeOK ==
  /\ tree \in Seq(Revision)
  /\ \A n \in Node : /\ tree[n].parent \in 0..(n - 1)
                     /\ tree[n].gen \in 1..n /\ tree[n].rank \in {n, -n}
                     /\ tree[n].dead => tree[n].content = Missing
                     /\ tree[n].revisions \subseteq 1..n

TaskOK ==
  /\ task \in [Process -> Task]
  /\ \A q \in Process : /\ task[q].base \in 0..Len(tree)
                        /\ task[q].top \in 0..Len(tree)
                        /\ task[q].losers \subseteq Node

DevOK ==
  /\ dev \in [Device -> [at : {"stale", "reading", "read"}, base : Nat, text : SUBSET Edit]]
  /\ \A d \in Device : dev[d].base \in 0..Len(tree)

CountersOK ==
  /\ edits \in 0..MaxPushes /\ acked \subseteq Edit /\ retired \subseteq Edit
  /\ deletes \in Nat /\ repeats \in Nat /\ faults \in Nat /\ unseen \in BOOLEAN

\* The resolver has a copy to write when it looks for a name for it.
CopyOK ==
  \A q \in Process : task[q].at \in {"copy", "copydoc", "copyatt"} => task[q].copy # <<>>

TypeInv ==
  TreeOK /\ copies \in Seq(Content) /\ TaskOK /\ CopyOK /\ DevOK /\ CountersOK

----------------------------------------------------------------------------
(* The revision tree. *)

LEMMA MaxExists ==
  ASSUME NEW L \in Nat, NEW S, S \subseteq (-L)..L, S # {}
  PROVE  \E x \in S : \A y \in S : y <= x
<1> DEFINE T == {L - x : x \in S}
<1>1. T \subseteq Nat /\ T # {}
  OBVIOUS
<1>2. PICK t \in T : \A u \in T : <<u, t>> \notin OpToRel(<, Nat)
  BY <1>1, NatLessThanWellFounded, WFMin
<1>3. PICK x \in S : t = L - x
  OBVIOUS
<1>4. \A y \in S : y <= x
  <2> TAKE y \in S
  <2>1. L - y \in T /\ L - y \in Nat /\ t \in Nat
    BY <1>1
  <2>2. ~(L - y < t)
    BY <1>2, <2>1 DEF OpToRel
  <2> QED BY <1>3, <2>2
<1> QED BY <1>4

\* get_doc has one answer: of any leaves one is ahead of all others.
LEMMA BestIsAhead ==
  ASSUME TreeOK, NEW S, S \subseteq Node, S # {}
  PROVE  Best(S) \in S
<1> DEFINE L == Len(tree)
<1>1. L \in Nat /\ \A n \in S : /\ n \in 1..L /\ tree[n].gen \in 1..L
                                /\ tree[n].rank \in {n, -n} /\ tree[n].rank \in (-L)..L
  BY DEF TreeOK, Node
<1> DEFINE G == {tree[n].gen : n \in S}
<1>2. PICK g \in G : \A h \in G : h <= g
  <2>1. G \subseteq (-L)..L /\ G # {}
    BY <1>1
  <2> QED BY <1>1, <2>1, MaxExists
<1> DEFINE R == {tree[n].rank : n \in {m \in S : tree[m].gen = g}}
<1>3. PICK r \in R : \A s \in R : s <= r
  <2>1. R \subseteq (-L)..L /\ R # {}
    BY <1>1
  <2> QED BY <1>1, <2>1, MaxExists
<1>4. PICK b \in S : tree[b].gen = g /\ tree[b].rank = r
  OBVIOUS
<1>5. ASSUME NEW m \in S \ {b} PROVE Ahead(b, m)
  <2>1. tree[m].gen <= g /\ (tree[m].gen = g => tree[m].rank <= r)
    BY <1>2, <1>3
  <2>2. tree[m].rank # tree[b].rank
    <3>1. m \in Nat /\ b \in Nat /\ m > 0 /\ b > 0 /\ m # b
      BY <1>1
    <3>2. tree[m].rank \in {m, -m} /\ tree[b].rank \in {b, -b}
      BY <1>1
    <3> HIDE DEF G, R, L
    <3> QED BY <3>1, <3>2
  <2> QED BY <1>1, <1>4, <2>1, <2>2 DEF Ahead
<1> QED
  BY <1>4, <1>5 DEF Best

LEMMA WinnerIsLeaf ==
  ASSUME TreeOK
  PROVE  /\ Len(tree) \in Nat /\ Live \subseteq Leaf /\ Leaf \subseteq Node
         /\ Found => Winner \in Live
         /\ ~Found => Winner = NoRev \/ Winner \in Leaf \ Live
         /\ Winner \in 0..Len(tree) /\ (Conflicts # {} => Found)
         /\ Conflicts \subseteq Live
<1>1. Len(tree) \in Nat /\ Live \subseteq Leaf /\ Leaf \subseteq Node
  BY DEF TreeOK, Live, Leaf
<1>2. Live # {} => Best(Live) \in Live
  BY <1>1, BestIsAhead
<1>3. Leaf # {} => Best(Leaf) \in Leaf
  BY <1>1, BestIsAhead
<1>4. /\ Found => Winner \in Live
      /\ ~Found => Winner = NoRev \/ Winner \in Leaf \ Live
      /\ Conflicts \subseteq Live /\ (Conflicts # {} => Found)
  BY <1>2, <1>3 DEF Winner, Found, Conflicts
<1>5. Winner = NoRev \/ Winner \in Node
  BY <1>1, <1>4
<1>6. Winner \in 0..Len(tree)
  BY <1>1, <1>5 DEF NoRev, Node
<1> QED
  BY <1>1, <1>4, <1>6

\* A revision was added below p, and p is no leaf any more.
Added(p, dead, c, tag) ==
  /\ Len(tree') = Len(tree) + 1 /\ NewRev = Len(tree) + 1 /\ NewRev \in Nat
  /\ \A n \in Node : tree'[n] = tree[n]
  /\ tree'[NewRev].parent = p /\ tree'[NewRev].dead = dead
  /\ tree'[NewRev].content = c /\ tree'[NewRev].tag = tag
  /\ tree'[NewRev].revisions = {NewRev} \cup (IF p = NoRev THEN {} ELSE tree[p].revisions)
  /\ Node' = Node \cup {NewRev} /\ NewRev \notin Node
  /\ Leaf' = (Leaf \ {p}) \cup {NewRev}
  /\ Live' = (Live \ {p}) \cup (IF dead THEN {} ELSE {NewRev})

LEMMA StoreAdds ==
  ASSUME TreeOK, NEW p \in 0..Len(tree), NEW dead \in BOOLEAN, NEW c \in Content,
         NEW tag \in Change, dead => c = Missing, Store(p, dead, c, tag)
  PROVE  /\ TreeOK' /\ unseen' = TRUE /\ Added(p, dead, c, tag)
         /\ Len(tree) \in Nat /\ Len(tree') \in Nat /\ Len(tree) <= Len(tree')
<1>1. PICK rank \in Rank(Gen(p), dead) :
        tree' = Append(tree, [parent |-> p, gen |-> Gen(p), rank |-> rank, dead |-> dead,
                              content |-> c, tag |-> tag, revisions |-> Revisions(p)])
  BY DEF Store
<1> DEFINE x == [parent |-> p, gen |-> Gen(p), rank |-> rank, dead |-> dead,
                 content |-> c, tag |-> tag, revisions |-> Revisions(p)]
<1>2. tree \in Seq(Revision) /\ Len(tree) \in Nat
  BY DEF TreeOK
<1>3. p # NoRev => /\ p \in Node /\ tree[p].gen \in 1..p /\ tree[p].revisions \subseteq 1..p
  BY <1>2 DEF TreeOK, Node, NoRev
<1>4. /\ Gen(p) \in 1..NewRev /\ NewRev \in Nat /\ rank \in {NewRev, -NewRev}
      /\ Revisions(p) \subseteq 1..NewRev
  BY <1>2, <1>3 DEF Gen, NewRev, Rank, Revisions, NoRev
<1>5. x \in Revision
  BY <1>4 DEF Revision
<1>6. /\ tree' \in Seq(Revision) /\ Len(tree') = Len(tree) + 1
      /\ \A n \in 1..Len(tree) : tree'[n] = tree[n]
      /\ tree'[Len(tree) + 1] = x
  <2> HIDE DEF x
  <2> QED BY <1>1, <1>2, <1>5 DEF x
<1>7. Node' = Node \cup {NewRev} /\ NewRev \notin Node /\ NewRev = Len(tree) + 1
  BY <1>2, <1>6 DEF Node, NewRev
<1>8. \A n \in Node : tree'[n] = tree[n]
  BY <1>6 DEF Node
<1>9. tree'[NewRev] = x
  BY <1>6 DEF NewRev
<1>10. TreeOK'
  <2>1. \A n \in Node : /\ tree'[n].parent \in 0..(n - 1)
                        /\ tree'[n].gen \in 1..n /\ tree'[n].rank \in {n, -n}
                        /\ tree'[n].dead => tree'[n].content = Missing
                        /\ tree'[n].revisions \subseteq 1..n
    BY <1>8 DEF TreeOK
  <2>2. /\ tree'[NewRev].parent \in 0..(NewRev - 1)
        /\ tree'[NewRev].gen \in 1..NewRev /\ tree'[NewRev].rank \in {NewRev, -NewRev}
        /\ tree'[NewRev].dead => tree'[NewRev].content = Missing
        /\ tree'[NewRev].revisions \subseteq 1..NewRev
    BY <1>2, <1>4, <1>7, <1>9
  <2> QED BY <1>6, <1>7, <2>1, <2>2 DEF TreeOK
<1>11. Leaf' = (Leaf \ {p}) \cup {NewRev}
  <2>1. {tree'[m].parent : m \in Node'} = {tree[m].parent : m \in Node} \cup {p}
    BY <1>7, <1>8, <1>9
  <2>2. NewRev \notin {tree[m].parent : m \in Node} \cup {p}
    BY <1>2, <1>7 DEF TreeOK, Node
  <2> QED BY <1>7, <2>1, <2>2 DEF Leaf
<1>12. Live' = (Live \ {p}) \cup (IF dead THEN {} ELSE {NewRev})
  <2>1. \A n \in Leaf : tree'[n].dead = tree[n].dead
    BY <1>8 DEF Leaf
  <2> QED BY <1>7, <1>9, <1>11, <2>1 DEF Live, Leaf
<1>13. /\ tree'[NewRev].parent = p /\ tree'[NewRev].dead = dead
       /\ tree'[NewRev].content = c /\ tree'[NewRev].tag = tag
       /\ tree'[NewRev].revisions = Revisions(p)
  BY <1>9
<1>14. unseen' = TRUE
  BY DEF Store
<1> QED
  BY <1>2, <1>4, <1>6, <1>7, <1>8, <1>10, <1>11, <1>12, <1>13, <1>14 DEF Revisions, Added

----------------------------------------------------------------------------
(* Tasks. *)

LEMMA TaskSet ==
  ASSUME TaskOK, Len(tree) \in Nat, Len(tree') \in Nat, Len(tree) <= Len(tree'),
         NEW q \in Process, NEW x \in Task, task' = [task EXCEPT ![q] = x],
         x.base \in 0..Len(tree'), x.top \in 0..Len(tree'), x.losers \subseteq Node'
  PROVE  TaskOK' /\ task'[q] = x /\ \A r \in Process \ {q} : task'[r] = task[r]
<1>1. /\ task' \in [Process -> Task] /\ task'[q] = x
      /\ \A r \in Process \ {q} : task'[r] = task[r]
  BY DEF TaskOK
<1>2. \A r \in Process : /\ task'[r].base \in 0..Len(tree')
                         /\ task'[r].top \in 0..Len(tree')
                         /\ task'[r].losers \subseteq Node'
  BY <1>1 DEF TaskOK, Node
<1> QED
  BY <1>1, <1>2 DEF TaskOK

LEMMA IdleIs ==
  /\ Idle \in Task /\ Idle.at = "idle" /\ Idle.op = "none" /\ Idle.base = NoRev
  /\ Idle.text = {} /\ Idle.top = NoRev /\ Idle.losers = {} /\ Idle.loop = "read"
<1>1. 0 \in 0..(MaxRetries - 1)
  BY HubAssumption
<1>2. <<>> \in Seq(SUBSET Edit)
  OBVIOUS
<1> QED
  BY <1>1, <1>2 DEF Idle, Task, Step, NoRev

LEMMA FinishedIs ==
  ASSUME TaskOK, NEW q \in Process, NEW at \in Step
  PROVE  /\ Finished(q, at) \in Task /\ Finished(q, at).at = at
         /\ Finished(q, at).op = task[q].op /\ Finished(q, at).base = task[q].base
         /\ Finished(q, at).text = task[q].text
         /\ Finished(q, at).top = NoRev /\ Finished(q, at).losers = {}
         /\ Finished(q, at).loop = "read"
<1>1. task[q] \in Task
  BY DEF TaskOK
<1>2. Idle \in Task /\ Idle.top = NoRev /\ Idle.losers = {} /\ Idle.loop = "read"
  BY IdleIs
<1> QED
  BY <1>1, <1>2 DEF Finished, Task

\* The handler leaves the resolver's plan: it ends, or reads everything again.
Ended(q, S) ==
  \E x \in Task :
    /\ task' = [task EXCEPT ![q] = x]
    /\ x.at \in S /\ x.top = NoRev /\ x.losers = {}
    /\ \/ x.op = task[q].op /\ x.base = task[q].base /\ x.text = task[q].text
       \/ x.op = "none" /\ x.base = NoRev /\ x.text = {} /\ x.at = "idle"
    /\ x.loop \in {"read", task[q].loop} /\ (x.at = "leaves" => task[q].loop = "leaves")

LEMMA ResolvedEnds ==
  ASSUME TaskOK, NEW q \in Process, Resolved(q)
  PROVE  Ended(q, {"idle", "winner"})
<1>1. CASE q = Watcher
  BY <1>1, IdleIs DEF Resolved, Ended
<1>2. CASE q # Watcher
  <2>1. task' = [task EXCEPT ![q] = Finished(q, "winner")]
    BY <1>2 DEF Resolved
  <2> QED
    BY <2>1, FinishedIs DEF Ended, Step
<1> QED
  BY <1>1, <1>2

LEMMA UnresolvedEnds ==
  ASSUME TaskOK, NEW q \in Process, Unresolved(q)
  PROVE  Ended(q, {"idle", "rejected"})
<1>1. CASE q = Watcher
  BY <1>1, IdleIs DEF Unresolved, Ended
<1>2. CASE q # Watcher
  <2>1. task' = [task EXCEPT ![q] = Finished(q, "rejected")]
    BY <1>2 DEF Unresolved
  <2> QED
    BY <2>1, FinishedIs DEF Ended, Step
<1> QED
  BY <1>1, <1>2

LEMMA RetryEnds ==
  ASSUME TaskOK, NEW q \in Process, Retry(q)
  PROVE  Ended(q, {"idle", "rejected", "read", "leaves"})
<1>1. CASE Unresolved(q)
  BY <1>1, UnresolvedEnds DEF Ended
<1>2. CASE /\ task[q].tries + 1 < MaxRetries
           /\ task' = [task EXCEPT ![q] = [Unplanned(q, task[q].loop) EXCEPT !.tries = @ + 1]]
  <2> DEFINE x == [Unplanned(q, task[q].loop) EXCEPT !.tries = @ + 1]
  <2>1. task[q] \in Task /\ task[q].loop \in {"read", "leaves"}
    BY DEF TaskOK, Task
  <2>2. task[q].tries + 1 \in 0..(MaxRetries - 1)
    <3>1. task[q].tries \in 0..(MaxRetries - 1) /\ MaxRetries \in Nat
      BY <2>1, HubAssumption DEF Task
    <3> QED BY <1>2, <3>1
  <2> DEFINE f == Finished(q, task[q].loop)
             u == Unplanned(q, task[q].loop)
  <2>3. /\ f \in Task /\ f.at = task[q].loop /\ f.op = task[q].op /\ f.base = task[q].base
        /\ f.text = task[q].text /\ f.top = NoRev /\ f.losers = {}
    BY <2>1, FinishedIs DEF Step
  <2>4. /\ u \in Task /\ u.at = task[q].loop /\ u.op = task[q].op /\ u.base = task[q].base
        /\ u.text = task[q].text /\ u.top = NoRev /\ u.losers = {}
        /\ u.loop = task[q].loop /\ u.tries = task[q].tries
    <3> HIDE DEF f
    <3>1. u = [f EXCEPT !.loop = task[q].loop, !.tries = task[q].tries]
      BY DEF Unplanned, f
    <3> HIDE DEF u
    <3> QED BY <2>1, <2>3, <3>1 DEF Task
  <2>5. /\ x \in Task /\ x.at = task[q].loop /\ x.loop = task[q].loop /\ x.op = task[q].op
        /\ x.base = task[q].base /\ x.text = task[q].text /\ x.top = NoRev /\ x.losers = {}
    <3> HIDE DEF f, u
    <3>1. x = [u EXCEPT !.tries = task[q].tries + 1]
      BY <2>4 DEF u
    <3> HIDE DEF x
    <3> QED BY <2>2, <2>4, <3>1 DEF Task
  <2> HIDE DEF x
  <2>6. task' = [task EXCEPT ![q] = x]
    BY <1>2 DEF x
  <2> QED
    BY <2>1, <2>5, <2>6 DEF Ended
<1> QED
  BY <1>1, <1>2 DEF Retry

LEMMA EndedType ==
  ASSUME TaskOK, Len(tree) \in Nat, Len(tree') \in Nat, Len(tree) <= Len(tree'),
         NEW q \in Process, NEW S, Ended(q, S)
  PROVE  /\ TaskOK' /\ \A r \in Process \ {q} : task'[r] = task[r]
         /\ task'[q].at \in S
         /\ \/ /\ task'[q].op = task[q].op /\ task'[q].base = task[q].base
               /\ task'[q].text = task[q].text
            \/ /\ task'[q].op = "none" /\ task'[q].base = NoRev
               /\ task'[q].text = {} /\ task'[q].at = "idle"
         /\ task'[q].loop \in {"read", task[q].loop}
         /\ (task'[q].at = "leaves" => task[q].loop = "leaves")
<1>1. PICK x \in Task :
        /\ task' = [task EXCEPT ![q] = x]
        /\ x.at \in S /\ x.top = NoRev /\ x.losers = {}
        /\ \/ x.op = task[q].op /\ x.base = task[q].base /\ x.text = task[q].text
           \/ x.op = "none" /\ x.base = NoRev /\ x.text = {} /\ x.at = "idle"
        /\ x.loop \in {"read", task[q].loop} /\ (x.at = "leaves" => task[q].loop = "leaves")
  BY DEF Ended
<1>2. x.base \in 0..Len(tree') /\ x.top \in 0..Len(tree') /\ x.losers \subseteq Node'
  BY <1>1 DEF TaskOK, NoRev
<1>3. TaskOK' /\ task'[q] = x /\ \A r \in Process \ {q} : task'[r] = task[r]
  BY <1>1, <1>2, TaskSet
<1> QED
  BY <1>1, <1>3

\* A plan: the fields it sets, and those it leaves alone.
HasPlan(q, top, final, copy, losers) ==
  /\ \A r \in Process \ {q} : task'[r] = task[r]
  /\ task'[q].at = IF copy = <<>> THEN "write" ELSE "copy"
  /\ task'[q].op = task[q].op /\ task'[q].base = task[q].base
  /\ task'[q].text = task[q].text /\ task'[q].loop = task[q].loop
  /\ task'[q].top = top /\ task'[q].final = final
  /\ task'[q].copy = copy /\ task'[q].losers = losers

LEMMA PlannedIs ==
  ASSUME TaskOK, TreeOK, NEW q \in Process, NEW top \in Node, NEW final \in SUBSET Edit,
         NEW copy \in Seq(SUBSET Edit), NEW losers \in SUBSET Node,
         Planned(q, top, final, copy, losers), UNCHANGED tree
  PROVE  TaskOK' /\ HasPlan(q, top, final, copy, losers)
<1> DEFINE at == IF copy = <<>> THEN "write" ELSE "copy"
           x == [task[q] EXCEPT !.at = at, !.top = top, !.final = final,
                                !.copy = copy, !.losers = losers]
<1>1. task[q] \in Task /\ at \in Step /\ Len(tree) \in Nat /\ Len(tree') = Len(tree)
  BY DEF TaskOK, TreeOK, Step
<1>2. task' = [task EXCEPT ![q] = x]
  BY DEF Planned, TaskOK
<1>3. top \in Nat /\ losers \in SUBSET Nat /\ top \in 0..Len(tree)
  BY <1>1 DEF Node
<1>4. x \in Task
  BY <1>1, <1>3 DEF Task
<1>5. /\ x.at = at /\ x.op = task[q].op /\ x.base = task[q].base /\ x.text = task[q].text
      /\ x.loop = task[q].loop /\ x.top = top /\ x.final = final /\ x.copy = copy
      /\ x.losers = losers
  BY <1>1 DEF Task
<1> HIDE DEF x
<1>6. TaskOK' /\ task'[q] = x /\ \A r \in Process \ {q} : task'[r] = task[r]
  <2>1. x.base \in 0..Len(tree') /\ x.top \in 0..Len(tree') /\ x.losers \subseteq Node'
    BY <1>1, <1>3, <1>5 DEF TaskOK, Node
  <2>2. Len(tree') \in Nat /\ Len(tree) <= Len(tree')
    BY <1>1
  <2> QED
    BY <1>1, <1>2, <1>4, <2>1, <2>2, TaskSet
<1> QED
  BY <1>5, <1>6 DEF HasPlan

\* A step within a task: it goes to another request with the same change and plan.
Moved(q, at) ==
  /\ \A r \in Process \ {q} : task'[r] = task[r]
  /\ task'[q].at = at /\ task'[q].op = task[q].op /\ task'[q].base = task[q].base
  /\ task'[q].text = task[q].text /\ task'[q].loop = task[q].loop
  /\ task'[q].top = task[q].top /\ task'[q].final = task[q].final

LEMMA GotoIs ==
  ASSUME TaskOK, Len(tree) \in Nat, Len(tree') \in Nat, Len(tree) <= Len(tree'),
         NEW q \in Process, NEW x \in Task, task' = [task EXCEPT ![q] = x],
         x.op = task[q].op, x.base = task[q].base, x.text = task[q].text,
         x.loop = task[q].loop, x.top = task[q].top, x.final = task[q].final,
         x.losers \subseteq task[q].losers
  PROVE  TaskOK' /\ task'[q] = x /\ Moved(q, x.at)
<1>1. x.base \in 0..Len(tree') /\ x.top \in 0..Len(tree') /\ x.losers \subseteq Node'
  BY DEF TaskOK, Node
<1>2. TaskOK' /\ task'[q] = x /\ \A r \in Process \ {q} : task'[r] = task[r]
  BY <1>1, TaskSet
<1> QED
  BY <1>2 DEF Moved
----------------------------------------------------------------------------
(* What each action does, and that it keeps the types. *)

LEMMA NoTagIs == NoTag \in Change /\ NoTag.op = "none" /\ Missing \in Content
BY DEF NoTag, Change, Content, NoRev

\* A leaf of which a task or a device knows the number.
LEMMA DevKept ==
  ASSUME DevOK, Len(tree) \in Nat, Len(tree') \in Nat, Len(tree) <= Len(tree'), UNCHANGED dev
  PROVE  DevOK'
BY DEF DevOK

LEMMA ContentIsText ==
  ASSUME TreeOK, NEW n \in Node, tree[n].content # Missing
  PROVE  tree[n].content \in SUBSET Edit /\ ~tree[n].dead
<1>1. tree[n] \in Revision
  BY DEF TreeOK, Node
<1> QED
  BY <1>1 DEF TreeOK, Revision, Content

LEMMA ReadsType ==
  ASSUME TypeInv, NEW d \in Device, GetDoc(d) \/ GetAttachment(d) \/ GetFile(d)
  PROVE  /\ TypeInv'
         /\ UNCHANGED <<tree, copies, task, unseen, edits, acked, retired>>
         /\ \A e \in Device \ {d} : dev'[e] = dev[e]
         /\ \/ GetDoc(d) /\ TornReads
            \/ dev[d].at = "reading"
            \/ /\ Winner \in Live /\ tree[Winner].content # Missing
               /\ dev'[d] = [at |-> "read", base |-> Winner, text |-> tree[Winner].content]
<1>1. /\ TreeOK /\ DevOK /\ (Found => Winner \in Live) /\ Live \subseteq Node
      /\ Winner \in 0..Len(tree) /\ Len(tree) \in Nat
  BY WinnerIsLeaf DEF TypeInv
<1>2. UNCHANGED <<tree, copies, task, unseen, edits, acked, retired, deletes, repeats, faults>>
  BY DEF GetDoc, GetAttachment, GetFile, stored, history, bounds
<1>3. PICK x \in [at : {"stale", "reading", "read"}, base : Nat, text : SUBSET Edit] :
        /\ x.base \in 0..Len(tree) /\ dev' = [dev EXCEPT ![d] = x]
        /\ \/ GetDoc(d) /\ TornReads
           \/ dev[d].at = "reading"
           \/ /\ Winner \in Live /\ tree[Winner].content # Missing
              /\ x = [at |-> "read", base |-> Winner, text |-> tree[Winner].content]
  <2>1. CASE GetDoc(d)
    <3> DEFINE x == [at |-> "reading", base |-> Winner, text |-> {}]
    <3>1. x \in [at : {"stale", "reading", "read"}, base : Nat, text : SUBSET Edit]
      BY <1>1
    <3> QED BY <1>1, <2>1, <3>1 DEF GetDoc
  <2>2. CASE GetAttachment(d)
    <3>1. CASE Found /\ tree[Winner].content # Missing
      <4> DEFINE x == [at |-> "read", base |-> dev[d].base, text |-> tree[Winner].content]
      <4>1. x \in [at : {"stale", "reading", "read"}, base : Nat, text : SUBSET Edit]
            /\ x.base \in 0..Len(tree)
        BY <1>1, <3>1, ContentIsText DEF DevOK
      <4> QED BY <2>2, <3>1, <4>1 DEF GetAttachment
    <3>2. CASE ~(Found /\ tree[Winner].content # Missing)
      <4>1. Unread \in [at : {"stale", "reading", "read"}, base : Nat, text : SUBSET Edit]
            /\ Unread.base \in 0..Len(tree)
        BY <1>1 DEF Unread, NoRev
      <4> QED BY <2>2, <3>2, <4>1 DEF GetAttachment
    <3> QED BY <3>1, <3>2
  <2>3. CASE GetFile(d)
    <3> DEFINE x == [at |-> "read", base |-> Winner, text |-> tree[Winner].content]
    <3>1. Winner \in Live /\ tree[Winner].content # Missing
      BY <1>1, <2>3 DEF GetFile, MayRead
    <3>2. x \in [at : {"stale", "reading", "read"}, base : Nat, text : SUBSET Edit]
      BY <1>1, <3>1, ContentIsText
    <3> QED BY <1>1, <2>3, <3>1, <3>2 DEF GetFile
  <2> QED BY <2>1, <2>2, <2>3
<1>4. dev'[d] = x /\ \A e \in Device \ {d} : dev'[e] = dev[e]
  BY <1>1, <1>3 DEF DevOK
<1>5. DevOK'
  BY <1>1, <1>2, <1>3, <1>4 DEF DevOK
<1>6. TypeInv'
  BY <1>2, <1>5 DEF TypeInv, TreeOK, TaskOK, CopyOK, CountersOK, Node
<1> QED
  BY <1>2, <1>3, <1>4, <1>6

\* POST /changes: the change is what the device read, with its edit or without all of it.
LEMMA PushType ==
  ASSUME TypeInv, NEW d \in Device, PushUpsert(d) \/ PushDelete(d)
  PROVE  /\ TypeInv' /\ UNCHANGED <<tree, copies, unseen, acked>>
         /\ \A r \in Process \ {d} : task'[r] = task[r]
         /\ \A e \in Device \ {d} : dev'[e] = dev[e]
         /\ dev'[d].at = "stale" /\ dev[d].at = "read"
         /\ task'[d].at = "put" /\ task'[d].base = dev[d].base /\ task'[d].loop = "read"
         /\ \/ /\ task'[d].op = "upsert" /\ dev[d].text \subseteq task'[d].text
               /\ UNCHANGED retired
            \/ /\ task'[d].op = "delete" /\ dev[d].base # NoRev /\ task'[d].text = {}
               /\ retired' = retired \cup dev[d].text
               /\ MaxDeletes # 0
<1>1. /\ TaskOK /\ DevOK /\ CountersOK /\ d \in Process /\ edits < MaxPushes
      /\ edits \in Nat /\ edits + 1 \in Edit /\ MaxPushes \in Nat
      /\ dev[d].base \in Nat /\ dev[d].text \in SUBSET Edit /\ dev[d].at = "read"
      /\ dev[d].base \in 0..Len(tree) /\ Len(tree) \in Nat
  BY HubAssumption
     DEF TypeInv, CountersOK, PushUpsert, PushDelete, MayPush, Edit, Process, DevOK, TreeOK
<1>2. PICK op \in {"upsert", "delete"}, text \in SUBSET Edit :
        /\ Push(d, op, text)
        /\ \/ op = "upsert" /\ dev[d].text \subseteq text /\ UNCHANGED <<retired, deletes>>
           \/ /\ op = "delete" /\ dev[d].base # NoRev /\ text = {}
              /\ retired' = retired \cup dev[d].text /\ deletes' = deletes + 1
              /\ deletes < MaxDeletes
        /\ UNCHANGED <<tree, copies, unseen, acked, repeats, faults>>
  <2>1. CASE PushUpsert(d)
    <3>1. dev[d].text \cup {edits + 1} \in SUBSET Edit
      BY <1>1
    <3> QED BY <2>1, <3>1 DEF PushUpsert, stored, bounds
  <2>2. CASE PushDelete(d)
    BY <2>2 DEF PushDelete, stored
  <2> QED BY <2>1, <2>2
<1> DEFINE x == [Idle EXCEPT !.at = "put", !.op = op, !.base = dev[d].base, !.text = text]
<1>3. x \in Task /\ x.at = "put" /\ x.op = op /\ x.base = dev[d].base /\ x.text = text
      /\ x.top = NoRev /\ x.losers = {} /\ x.loop = "read"
  BY <1>1, IdleIs DEF Task, Step
<1>4. task' = [task EXCEPT ![d] = x] /\ dev' = [dev EXCEPT ![d] = Unread] /\ edits' = edits + 1
  BY <1>2 DEF Push
<1> HIDE DEF x
<1>5. TaskOK' /\ task'[d] = x /\ \A r \in Process \ {d} : task'[r] = task[r]
  <2>1. /\ x.base \in 0..Len(tree') /\ x.top \in 0..Len(tree') /\ x.losers \subseteq Node'
        /\ Len(tree') \in Nat /\ Len(tree) <= Len(tree')
    BY <1>1, <1>2, <1>3 DEF NoRev
  <2> QED BY <1>1, <1>3, <1>4, <2>1, TaskSet
<1>6. DevOK' /\ dev'[d].at = "stale" /\ \A e \in Device \ {d} : dev'[e] = dev[e]
  BY <1>1, <1>2, <1>4 DEF DevOK, Unread, NoRev
<1>7. CountersOK' /\ (op = "delete" => MaxDeletes # 0)
  <2>1. edits' \in 0..MaxPushes /\ retired' \subseteq Edit /\ deletes' \in Nat
    BY <1>1, <1>2, <1>4 DEF CountersOK
  <2>2. deletes \in Nat /\ MaxDeletes \in Nat
    BY HubAssumption DEF TypeInv, CountersOK
  <2>3. op = "delete" => MaxDeletes # 0
    BY <1>2, <2>2
  <2> QED BY <1>1, <1>2, <2>1, <2>3 DEF CountersOK
<1>8. TypeInv'
  BY <1>2, <1>3, <1>5, <1>6, <1>7 DEF TypeInv, TreeOK, CopyOK, Node
<1> QED
  BY <1>1, <1>2, <1>3, <1>5, <1>6, <1>7, <1>8

\* The pushed change stays as it is when its handler ends, and when it is sent again.
LEMMA RepeatType ==
  ASSUME TypeInv, NEW d \in Device, Repeat(d)
  PROVE  /\ TypeInv' /\ UNCHANGED <<tree, copies, unseen, dev, acked, retired>>
         /\ \A r \in Process \ {d} : task'[r] = task[r]
         /\ task'[d].at = "put" /\ task'[d].op = task[d].op /\ task'[d].base = task[d].base
         /\ task'[d].text = task[d].text /\ task'[d].loop = "read"
<1>1. /\ TaskOK /\ DevOK /\ CountersOK /\ d \in Process /\ Len(tree) \in Nat
      /\ UNCHANGED <<tree, copies, unseen, dev, edits, acked, retired, deletes, faults>>
      /\ task' = [task EXCEPT ![d] = Finished(d, "put")] /\ repeats' = repeats + 1
  BY DEF TypeInv, TreeOK, Process, Repeat, stored, history
<1> DEFINE x == Finished(d, "put")
<1>2. /\ x \in Task /\ x.at = "put" /\ x.op = task[d].op /\ x.base = task[d].base
      /\ x.text = task[d].text /\ x.top = NoRev /\ x.losers = {} /\ x.loop = "read"
  BY <1>1, FinishedIs DEF Step
<1> HIDE DEF x
<1>3. TaskOK' /\ task'[d] = x /\ \A r \in Process \ {d} : task'[r] = task[r]
  <2>1. /\ x.base \in 0..Len(tree') /\ x.top \in 0..Len(tree') /\ x.losers \subseteq Node'
        /\ Len(tree') \in Nat /\ Len(tree) <= Len(tree')
    BY <1>1, <1>2 DEF TaskOK, NoRev
  <2>2. task' = [task EXCEPT ![d] = x]
    BY <1>1 DEF x
  <2> QED BY <1>1, <1>2, <2>1, <2>2, TaskSet
<1>4. TypeInv'
  <2>1. CountersOK' /\ DevOK'
    BY <1>1 DEF CountersOK, DevOK
  <2> QED BY <1>1, <1>2, <1>3, <2>1 DEF TypeInv, TreeOK, CopyOK, Node
<1> QED
  BY <1>1, <1>2, <1>3, <1>4

\* 200, 409 or 502: only the change is left of the task, and of a 200 the device knows.
LEMMA FinishType ==
  ASSUME TaskOK, Len(tree) \in Nat, Len(tree') \in Nat, Len(tree) <= Len(tree'),
         NEW d \in Process, NEW at \in Step, task' = [task EXCEPT ![d] = Finished(d, at)]
  PROVE  /\ TaskOK' /\ \A r \in Process \ {d} : task'[r] = task[r]
         /\ task'[d].at = at /\ task'[d].op = task[d].op /\ task'[d].base = task[d].base
         /\ task'[d].text = task[d].text /\ task'[d].loop = "read"
<1> DEFINE x == Finished(d, at)
<1>1. /\ x \in Task /\ x.at = at /\ x.op = task[d].op /\ x.base = task[d].base
      /\ x.text = task[d].text /\ x.top = NoRev /\ x.losers = {} /\ x.loop = "read"
  BY FinishedIs
<1> HIDE DEF x
<1>2. x.base \in 0..Len(tree') /\ x.top \in 0..Len(tree') /\ x.losers \subseteq Node'
  BY <1>1 DEF TaskOK, NoRev
<1>3. task' = [task EXCEPT ![d] = x]
  BY DEF x
<1>4. TaskOK' /\ task'[d] = x /\ \A r \in Process \ {d} : task'[r] = task[r]
  BY <1>1, <1>2, <1>3, TaskSet
<1> QED
  BY <1>1, <1>4

\* Only at and new change.
LEMMA GotoType ==
  ASSUME TaskOK, Len(tree) \in Nat, Len(tree') \in Nat, Len(tree) <= Len(tree'),
         NEW q \in Process, NEW at \in Step, Goto(q, at)
  PROVE  /\ TaskOK' /\ Moved(q, at) /\ task'[q].new = task[q].new
         /\ task'[q].slot = task[q].slot /\ task'[q].copy = task[q].copy
         /\ task'[q].losers = task[q].losers
<1> DEFINE x == [task[q] EXCEPT !.at = at]
<1>1. task[q] \in Task
  BY DEF TaskOK
<1>2. /\ x \in Task /\ x.at = at /\ x.new = task[q].new /\ x.slot = task[q].slot
      /\ x.copy = task[q].copy /\ x.losers = task[q].losers
      /\ x.op = task[q].op /\ x.base = task[q].base /\ x.text = task[q].text
      /\ x.loop = task[q].loop /\ x.top = task[q].top /\ x.final = task[q].final
  BY <1>1 DEF Task
<1>3. task' = [task EXCEPT ![q] = x]
  BY DEF Goto, TaskOK
<1> HIDE DEF x
<1>4. TaskOK' /\ task'[q] = x /\ Moved(q, x.at)
  BY <1>2, <1>3, GotoIs
<1> QED
  BY <1>2, <1>4

\* put_doc and apply_plan's first write: the task goes on with the revision it got.
LEMMA BodyType ==
  ASSUME TaskOK, Len(tree) \in Nat, Len(tree') \in Nat, Len(tree) <= Len(tree'),
         NEW q \in Process, NEW at \in Step, NewRev \in Nat,
         task' = [task EXCEPT ![q].at = at, ![q].new = NewRev]
  PROVE  /\ TaskOK' /\ Moved(q, at) /\ task'[q].new = NewRev
         /\ task'[q].copy = task[q].copy /\ task'[q].losers = task[q].losers
<1> DEFINE x == [task[q] EXCEPT !.at = at, !.new = NewRev]
<1>1. task[q] \in Task
  BY DEF TaskOK
<1>2. /\ x \in Task /\ x.at = at /\ x.new = NewRev /\ x.slot = task[q].slot
      /\ x.copy = task[q].copy /\ x.losers = task[q].losers
      /\ x.op = task[q].op /\ x.base = task[q].base /\ x.text = task[q].text
      /\ x.loop = task[q].loop /\ x.top = task[q].top /\ x.final = task[q].final
  BY <1>1 DEF Task
<1>3. task' = [task EXCEPT ![q] = x]
  BY DEF TaskOK
<1> HIDE DEF x
<1>4. TaskOK' /\ task'[q] = x /\ Moved(q, x.at)
  BY <1>2, <1>3, GotoIs
<1> QED
  BY <1>2, <1>4

LEMMA PutDocType ==
  ASSUME TypeInv, NEW d \in Device, PutDoc(d)
  PROVE  /\ TypeInv' /\ UNCHANGED <<copies, dev, acked, retired>>
         /\ task[d].at = "put" /\ task[d].op = "upsert"
         /\ \/ /\ CasHolds(task[d].base) /\ Moved(d, "attach") /\ task'[d].new = NewRev
               /\ Added(CasParent(task[d].base), FALSE, Missing, NoTag)
            \/ ~CasHolds(task[d].base) /\ Moved(d, "branch") /\ UNCHANGED tree
<1>1. /\ TreeOK /\ TaskOK /\ DevOK /\ CountersOK /\ d \in Process /\ Len(tree) \in Nat
      /\ UNCHANGED <<copies, dev, edits, acked, retired, deletes, repeats, faults>>
      /\ task[d].at = "put" /\ task[d].op = "upsert"
  BY DEF TypeInv, TreeOK, Process, PutDoc, At, history, bounds
<1>2. CASE /\ CasHolds(task[d].base)
           /\ Store(CasParent(task[d].base), FALSE, Missing, NoTag)
           /\ task' = [task EXCEPT ![d].at = "attach", ![d].new = NewRev]
  <2>1. CasParent(task[d].base) \in 0..Len(tree)
    BY <1>1, WinnerIsLeaf DEF CasParent, TaskOK
  <2>2. /\ TreeOK' /\ unseen' = TRUE /\ Added(CasParent(task[d].base), FALSE, Missing, NoTag)
        /\ Len(tree') \in Nat /\ Len(tree) <= Len(tree') /\ NewRev \in Nat
    BY <1>1, <1>2, <2>1, NoTagIs, StoreAdds DEF Added
  <2>3. TaskOK' /\ Moved(d, "attach") /\ task'[d].new = NewRev
    BY <1>1, <1>2, <2>2, BodyType DEF Step
  <2>4. DevOK' /\ CountersOK'
    BY <1>1, <2>2 DEF DevOK, CountersOK
  <2> QED
    BY <1>1, <1>2, <2>2, <2>3, <2>4 DEF TypeInv, CopyOK, Moved
<1>3. CASE ~CasHolds(task[d].base) /\ Goto(d, "branch") /\ UNCHANGED feed
  <2>1. UNCHANGED <<tree, unseen>> /\ Len(tree') \in Nat /\ Len(tree) <= Len(tree')
    BY <1>1, <1>3 DEF feed
  <2>2. TaskOK' /\ Moved(d, "branch")
    BY <1>1, <1>3, <2>1, GotoType DEF Step
  <2>3. DevOK' /\ CountersOK' /\ TreeOK'
    BY <1>1, <2>1 DEF DevOK, CountersOK, TreeOK, Node
  <2> QED
    BY <1>1, <1>3, <2>1, <2>2, <2>3 DEF TypeInv, CopyOK, Moved
<1> QED
  BY <1>2, <1>3 DEF PutDoc

\* The task of an answered or refused change, and what is acknowledged with it.
Over(d, at) ==
  /\ \A r \in Process \ {d} : task'[r] = task[r]
  /\ task'[d].at = at /\ task'[d].op = task[d].op /\ task'[d].base = task[d].base
  /\ task'[d].text = task[d].text /\ task'[d].loop = "read"
  /\ acked' = IF at = "answered" THEN acked \cup task[d].text ELSE acked

LEMMA AnswerType ==
  ASSUME TaskOK, CountersOK, Len(tree) \in Nat, Len(tree') \in Nat, Len(tree) <= Len(tree'),
         NEW d \in Process, Answer(d)
  PROVE  TaskOK' /\ acked' \subseteq Edit /\ Over(d, "answered")
<1>1. task[d].text \subseteq Edit /\ acked \subseteq Edit
  BY DEF TaskOK, Task, CountersOK
<1>2. task' = [task EXCEPT ![d] = Finished(d, "answered")] /\ acked' = acked \cup task[d].text
  BY DEF Answer
<1>3. /\ TaskOK' /\ \A r \in Process \ {d} : task'[r] = task[r]
      /\ task'[d].at = "answered" /\ task'[d].op = task[d].op /\ task'[d].base = task[d].base
      /\ task'[d].text = task[d].text /\ task'[d].loop = "read"
  BY <1>2, FinishType DEF Step
<1> QED
  BY <1>1, <1>2, <1>3 DEF Over

LEMMA RejectType ==
  ASSUME TaskOK, CountersOK, Len(tree) \in Nat, Len(tree') \in Nat, Len(tree) <= Len(tree'),
         NEW d \in Process, Reject(d), UNCHANGED acked
  PROVE  TaskOK' /\ acked' \subseteq Edit /\ Over(d, "rejected")
<1>1. task' = [task EXCEPT ![d] = Finished(d, "rejected")]
  BY DEF Reject
<1>2. /\ TaskOK' /\ \A r \in Process \ {d} : task'[r] = task[r]
      /\ task'[d].at = "rejected" /\ task'[d].op = task[d].op /\ task'[d].base = task[d].base
      /\ task'[d].text = task[d].text /\ task'[d].loop = "read"
  BY <1>1, FinishType DEF Step
<1> QED
  BY <1>2 DEF Over, CountersOK

LEMMA Fields ==
  ASSUME TypeInv, NEW q \in Process
  PROVE  /\ TreeOK /\ TaskOK /\ CountersOK /\ Len(tree) \in Nat /\ task[q] \in Task
         /\ task[q].text \in SUBSET Edit /\ task[q].final \in SUBSET Edit
         /\ task[q].op \in {"none", "upsert", "delete"} /\ task[q].new \in Nat
         /\ task[q].base \in 0..Len(tree) /\ task[q].top \in 0..Len(tree)
         /\ task[q].copy \in Seq(SUBSET Edit) /\ task[q].losers \in SUBSET Node
         /\ task[q].loop \in {"read", "leaves"} /\ task[q].slot \in Nat
         /\ Leaf \subseteq 0..Len(tree)
<1>1. TreeOK /\ TaskOK /\ CountersOK /\ Len(tree) \in Nat /\ task[q] \in Task
  BY DEF TypeInv, TreeOK, TaskOK
<1>2. /\ task[q].base \in 0..Len(tree) /\ task[q].top \in 0..Len(tree)
      /\ task[q].losers \in SUBSET Node
  BY <1>1 DEF TaskOK
<1>3. /\ task[q].text \in SUBSET Edit /\ task[q].final \in SUBSET Edit
      /\ task[q].op \in {"none", "upsert", "delete"} /\ task[q].new \in Nat
      /\ task[q].copy \in Seq(SUBSET Edit)
      /\ task[q].loop \in {"read", "leaves"} /\ task[q].slot \in Nat
  BY <1>1 DEF Task
<1>4. Leaf \subseteq 0..Len(tree)
  BY <1>1 DEF Leaf, Node
<1> QED
  BY <1>1, <1>2, <1>3, <1>4

LEMMA DeviceIsProcess == Device \subseteq Process /\ Watcher \in Process
BY DEF Process

\* A step of a request handler or of the resolver that changes nothing a device holds.
LEMMA TypeFrame ==
  ASSUME TypeInv, TreeOK', TaskOK', acked' \subseteq Edit, copies' \in Seq(Content),
         unseen' \in BOOLEAN, Len(tree) <= Len(tree'),
         UNCHANGED <<dev, edits, retired, deletes, repeats, faults>>,
         NEW q \in Process, \A r \in Process \ {q} : task'[r] = task[r],
         task'[q].at \notin {"copy", "copydoc", "copyatt"} \/ task'[q].copy # <<>>
  PROVE  TypeInv'
<1>1. Len(tree) \in Nat /\ Len(tree') \in Nat
  BY DEF TypeInv, TreeOK
<1>2. DevOK' /\ CountersOK'
  BY <1>1 DEF TypeInv, DevOK, CountersOK
<1>3. CopyOK'
  BY DEF TypeInv, CopyOK
<1> QED
  BY <1>2, <1>3 DEF TypeInv

LEMMA PutAttachmentType ==
  ASSUME TypeInv, NEW d \in Device, PutAttachment(d)
  PROVE  /\ TypeInv' /\ UNCHANGED <<copies, dev, retired>> /\ task[d].at = "attach"
         /\ \/ /\ task[d].new \in Leaf /\ Added(task[d].new, FALSE, task[d].text, NoTag)
               /\ Over(d, "answered")
            \/ task[d].new \notin Leaf /\ UNCHANGED tree /\ Over(d, "rejected")
<1>1. /\ TreeOK /\ TaskOK /\ CountersOK /\ d \in Process /\ Len(tree) \in Nat
      /\ UNCHANGED <<copies, dev, edits, retired, deletes, repeats, faults>>
      /\ task[d].at = "attach" /\ Leaf \subseteq 0..Len(tree) /\ task[d].text \in SUBSET Edit
  BY DeviceIsProcess, Fields DEF PutAttachment, At, bounds
<1>2. CASE /\ task[d].new \in Leaf /\ Store(task[d].new, FALSE, task[d].text, NoTag)
           /\ Answer(d)
  <2>1. task[d].new \in 0..Len(tree) /\ task[d].text \in Content
    BY <1>1, <1>2 DEF Content
  <2>2. /\ TreeOK' /\ unseen' = TRUE /\ Added(task[d].new, FALSE, task[d].text, NoTag)
        /\ Len(tree') \in Nat /\ Len(tree) <= Len(tree')
    BY <1>1, <1>2, <2>1, NoTagIs, StoreAdds
  <2>3. TaskOK' /\ acked' \subseteq Edit /\ Over(d, "answered")
    BY <1>1, <1>2, <2>2, AnswerType
  <2>4. TypeInv'
    BY <1>1, <2>2, <2>3, TypeFrame DEF TypeInv, Over, Moved
  <2> QED
    BY <1>1, <1>2, <2>2, <2>3, <2>4
<1>3. CASE task[d].new \notin Leaf /\ Reject(d) /\ UNCHANGED <<feed, acked>>
  <2>1. UNCHANGED <<tree, unseen>> /\ Len(tree') \in Nat /\ Len(tree) <= Len(tree')
    BY <1>1, <1>3 DEF feed
  <2>2. TaskOK' /\ acked' \subseteq Edit /\ Over(d, "rejected")
    BY <1>1, <1>3, <2>1, RejectType
  <2>3. TreeOK' /\ unseen' \in BOOLEAN
    BY <1>1, <2>1 DEF TreeOK, Node, CountersOK
  <2>4. TypeInv'
    BY <1>1, <2>1, <2>2, <2>3, TypeFrame DEF TypeInv, Over, Moved
  <2> QED
    BY <1>1, <1>3, <2>1, <2>2, <2>4
<1> QED
  BY <1>2, <1>3 DEF PutAttachment

LEMMA DeleteDocType ==
  ASSUME TypeInv, NEW d \in Device, DeleteDoc(d)
  PROVE  /\ TypeInv' /\ UNCHANGED <<copies, dev, retired>>
         /\ task[d].at = "put" /\ task[d].op = "delete"
         /\ \/ /\ task[d].base \in Leaf /\ Added(task[d].base, TRUE, Missing, NoTag)
               /\ Over(d, "answered")
            \/ /\ task[d].base \notin Leaf /\ UNCHANGED <<tree, acked>> /\ Moved(d, "branch")
            \/ UNCHANGED tree /\ Over(d, "rejected")
<1>1. /\ TreeOK /\ TaskOK /\ CountersOK /\ d \in Process /\ Len(tree) \in Nat
      /\ UNCHANGED <<copies, dev, edits, retired, deletes, repeats, faults>>
      /\ task[d].at = "put" /\ task[d].op = "delete" /\ task[d].base \in 0..Len(tree)
  BY DEF TypeInv, TreeOK, Process, DeleteDoc, At, bounds, TaskOK
<1>2. CASE task[d].base \in Leaf /\ Store(task[d].base, TRUE, Missing, NoTag) /\ Answer(d)
  <2>2. /\ TreeOK' /\ unseen' = TRUE /\ Added(task[d].base, TRUE, Missing, NoTag)
        /\ Len(tree') \in Nat /\ Len(tree) <= Len(tree')
    BY <1>1, <1>2, NoTagIs, StoreAdds
  <2>3. TaskOK' /\ acked' \subseteq Edit /\ Over(d, "answered")
    BY <1>1, <1>2, <2>2, AnswerType
  <2>4. TypeInv'
    BY <1>1, <2>2, <2>3, TypeFrame DEF TypeInv, Over, Moved
  <2> QED
    BY <1>1, <1>2, <2>2, <2>3, <2>4
<1>3. CASE task[d].base \notin Leaf /\ Goto(d, "branch") /\ UNCHANGED <<feed, acked>>
  <2>1. UNCHANGED <<tree, unseen>> /\ Len(tree') \in Nat /\ Len(tree) <= Len(tree')
    BY <1>1, <1>3 DEF feed
  <2>2. TaskOK' /\ Moved(d, "branch")
    BY <1>1, <1>3, <2>1, GotoType DEF Step
  <2>3. TreeOK' /\ unseen' \in BOOLEAN /\ acked' \subseteq Edit
    BY <1>1, <1>3, <2>1 DEF TreeOK, Node, CountersOK
  <2>4. TypeInv'
    BY <1>1, <2>1, <2>2, <2>3, TypeFrame DEF TypeInv, Over, Moved
  <2> QED
    BY <1>1, <1>3, <2>1, <2>2, <2>4
<1>4. CASE Reject(d) /\ UNCHANGED <<feed, acked>>
  <2>1. UNCHANGED <<tree, unseen>> /\ Len(tree') \in Nat /\ Len(tree) <= Len(tree')
    BY <1>1, <1>4 DEF feed
  <2>2. TaskOK' /\ acked' \subseteq Edit /\ Over(d, "rejected")
    BY <1>1, <1>4, <2>1, RejectType
  <2>3. TreeOK' /\ unseen' \in BOOLEAN
    BY <1>1, <2>1 DEF TreeOK, Node, CountersOK
  <2>4. TypeInv'
    BY <1>1, <2>1, <2>2, <2>3, TypeFrame DEF TypeInv, Over, Moved
  <2> QED
    BY <1>1, <1>4, <2>1, <2>2, <2>4
<1> QED
  BY <1>2, <1>3, <1>4 DEF DeleteDoc

LEMMA PutRevisionType ==
  ASSUME TypeInv, NEW d \in Device, PutRevision(d)
  PROVE  /\ TypeInv' /\ UNCHANGED <<copies, dev, acked, retired>>
         /\ task[d].at = "branch" /\ Moved(d, "read")
         /\ Tag(d).op = task[d].op /\ Tag(d).text = task[d].text
         /\ \/ Added(task[d].base, task[d].op = "delete",
                     IF task[d].op = "delete" THEN Missing ELSE task[d].text, Tag(d))
            \/ UNCHANGED tree /\ \E n \in Node : tree[n].tag = Tag(d)
<1>1. /\ TreeOK /\ TaskOK /\ CountersOK /\ d \in Process /\ Len(tree) \in Nat
      /\ UNCHANGED <<copies, dev, edits, acked, retired, deletes, repeats, faults>>
      /\ task[d].at = "branch" /\ task[d].base \in 0..Len(tree)
      /\ task[d].text \in SUBSET Edit /\ task[d].op \in {"none", "upsert", "delete"}
      /\ Goto(d, "read")
  BY DeviceIsProcess, Fields DEF PutRevision, At, history, bounds
<1>2. Tag(d) \in Change /\ Tag(d).op = task[d].op /\ Tag(d).text = task[d].text
  BY <1>1 DEF Tag, Change
<1> DEFINE dead == task[d].op = "delete"
           c == IF task[d].op = "delete" THEN Missing ELSE task[d].text
<1>3. c \in Content /\ dead \in BOOLEAN /\ (dead => c = Missing)
  BY <1>1 DEF Content
<1>4. CASE Store(task[d].base, dead, c, Tag(d))
  <2> HIDE DEF dead, c
  <2>1. /\ TreeOK' /\ unseen' = TRUE /\ Added(task[d].base, dead, c, Tag(d))
        /\ Len(tree') \in Nat /\ Len(tree) <= Len(tree')
    BY <1>1, <1>2, <1>3, <1>4, StoreAdds
  <2>2. TaskOK' /\ Moved(d, "read")
    BY <1>1, <2>1, GotoType DEF Step
  <2>3. TypeInv'
    BY <1>1, <2>1, <2>2, TypeFrame DEF TypeInv, CountersOK, Moved
  <2> QED
    BY <1>1, <1>2, <2>1, <2>2, <2>3 DEF dead, c
<1>5. CASE (\E n \in Node : tree[n].tag = Tag(d)) /\ UNCHANGED feed
  <2>1. UNCHANGED <<tree, unseen>> /\ Len(tree') \in Nat /\ Len(tree) <= Len(tree')
    BY <1>1, <1>5 DEF feed
  <2>2. TaskOK' /\ Moved(d, "read")
    BY <1>1, <2>1, GotoType DEF Step
  <2>3. TreeOK' /\ unseen' \in BOOLEAN
    BY <1>1, <2>1 DEF TreeOK, Node, CountersOK
  <2>4. TypeInv'
    BY <1>1, <2>1, <2>2, <2>3, TypeFrame DEF TypeInv, CountersOK, Moved
  <2> QED
    BY <1>1, <1>2, <1>5, <2>1, <2>2, <2>4
<1> QED
  BY <1>4, <1>5 DEF PutRevision

LEMMA AnswerWinnerType ==
  ASSUME TypeInv, NEW d \in Device, AnswerWinner(d)
  PROVE  /\ TypeInv' /\ UNCHANGED <<tree, copies, dev, retired>> /\ task[d].at = "winner"
         /\ Over(d, "answered") \/ Over(d, "rejected")
<1>1. /\ TreeOK /\ TaskOK /\ CountersOK /\ d \in Process /\ Len(tree) \in Nat
      /\ UNCHANGED <<tree, unseen, copies, dev, edits, retired, deletes, repeats, faults>>
      /\ task[d].at = "winner" /\ Len(tree') \in Nat /\ Len(tree) <= Len(tree')
  BY DEF TypeInv, TreeOK, Process, AnswerWinner, At, bounds, stored
<1>2. TaskOK' /\ acked' \subseteq Edit /\ (Over(d, "answered") \/ Over(d, "rejected"))
  BY <1>1, AnswerType, RejectType DEF AnswerWinner
<1>3. TreeOK' /\ unseen' \in BOOLEAN
  BY <1>1 DEF TreeOK, Node, CountersOK
<1>4. TypeInv'
  BY <1>1, <1>2, <1>3, TypeFrame DEF TypeInv, Over, Moved
<1> QED
  BY <1>1, <1>2, <1>4

LEMMA PollType ==
  ASSUME TypeInv, Poll
  PROVE  /\ TypeInv' /\ UNCHANGED <<tree, copies, dev, acked, retired>>
         /\ task[Watcher].at = "idle"
         /\ \/ Moved(Watcher, "read") /\ Conflicts # {}
            \/ UNCHANGED task
<1>1. /\ TreeOK /\ TaskOK /\ CountersOK /\ Watcher \in Process /\ Len(tree) \in Nat
      /\ UNCHANGED <<tree, copies, dev, edits, acked, retired, deletes, repeats, faults>>
      /\ task[Watcher].at = "idle" /\ Len(tree') \in Nat /\ Len(tree) <= Len(tree')
      /\ unseen' = FALSE
  BY DEF TypeInv, TreeOK, Process, Poll, At, bounds, history
<1>2. TaskOK' /\ ((Moved(Watcher, "read") /\ Conflicts # {}) \/ UNCHANGED task)
  <2>1. CASE Conflicts # {} /\ Goto(Watcher, "read")
    BY <1>1, <2>1, GotoType DEF Step
  <2>2. CASE UNCHANGED task
    BY <1>1, <2>2 DEF TaskOK, Node
  <2> QED BY <2>1, <2>2 DEF Poll
<1>3. TreeOK' /\ acked' \subseteq Edit
  BY <1>1 DEF TreeOK, Node, CountersOK
<1>4. TypeInv'
  BY <1>1, <1>2, <1>3, TypeFrame DEF TypeInv, Over, Moved
<1> QED
  BY <1>1, <1>2, <1>4

\* The order of PlanMany's copies has every conflicting leaf.
LEMMA OrderHasAll ==
  ASSUME NEW L \in Nat, NEW C \in SUBSET (1..L), NEW order \in [1..Cardinality(C) -> C],
         \A i, j \in DOMAIN order : order[i] < order[j] <=> i < j
  PROVE  Cardinality(C) \in Nat /\ \A c \in C : \E i \in 1..Cardinality(C) : order[i] = c
<1> DEFINE k == Cardinality(C)
<1>1. IsFiniteSet(C)
  <2>1. IsFiniteSet(1..L)
    BY FS_Interval
  <2> QED BY <2>1, FS_Subset
<1>2. k \in Nat
  BY <1>1, FS_CardinalityType
<1>3. Cardinality(1..k) = k
  BY <1>2, FS_Interval
<1>4. order \in Injection(1..k, C)
  <2>1. \A i, j \in 1..k : order[i] = order[j] => i = j
    BY <1>2
  <2> QED BY <2>1 DEF Injection, IsInjective
<1>5. order \in Surjection(1..k, C)
  BY <1>1, <1>3, <1>4, FS_Injection
<1> QED
  BY <1>2, <1>5 DEF Surjection

LEMMA MergeIs ==
  ASSUME NEW o, NEW a \in SUBSET Edit, NEW b \in SUBSET Edit
  PROVE  /\ Merge(o, a, b) \in SUBSET Edit
         /\ \A e \in (a \cup b) \ Merge(o, a, b) : e \in o /\ (e \notin a \/ e \notin b)
BY DEF Merge

\* What a plan keeps besides the merge of the two sides: all that it takes away.
InPlan(copy) == UNION {copy[i] : i \in DOMAIN copy}

LEMMA PlanManyType ==
  ASSUME TypeInv, NEW q \in Process, PlanMany(q), Conflicts # {}, UNCHANGED tree,
         \A n \in Live : tree[n].content # Missing
  PROVE  \E final \in SUBSET Edit, copy \in Seq(SUBSET Edit) :
           /\ TaskOK' /\ HasPlan(q, Winner, final, copy, Conflicts)
           /\ final = tree[Winner].content
           /\ \A n \in Conflicts : tree[n].content \subseteq InPlan(copy)
<1>1. /\ TreeOK /\ TaskOK /\ Winner \in Live /\ Conflicts \subseteq Live /\ Live \subseteq Node
      /\ Len(tree) \in Nat
  BY WinnerIsLeaf DEF TypeInv
<1>2. \A n \in Live : tree[n].content \in SUBSET Edit
  BY <1>1, ContentIsText
<1>3. PICK order \in [1..Cardinality(Conflicts) -> Conflicts] :
        /\ \A i, j \in DOMAIN order : order[i] < order[j] <=> i < j
        /\ Planned(q, Winner, tree[Winner].content,
                   [i \in DOMAIN order |-> tree[order[i]].content], Conflicts)
  BY DEF PlanMany
<1> DEFINE k == Cardinality(Conflicts)
           copy == [i \in 1..k |-> tree[order[i]].content]
<1>4. k \in Nat /\ \A c \in Conflicts : \E i \in 1..k : order[i] = c
  BY <1>1, <1>3, OrderHasAll DEF Node
<1>5. copy \in Seq(SUBSET Edit)
  BY <1>1, <1>2, <1>3, <1>4
<1>6. Planned(q, Winner, tree[Winner].content, copy, Conflicts)
  BY <1>3
<1>7. \A n \in Conflicts : tree[n].content \subseteq InPlan(copy)
  <2> TAKE n \in Conflicts
  <2>1. PICK i \in 1..k : order[i] = n
    BY <1>4
  <2>2. i \in DOMAIN copy /\ copy[i] = tree[n].content
    BY <2>1
  <2> HIDE DEF copy
  <2> QED BY <2>2 DEF InPlan
<1> HIDE DEF copy, k
<1>8. TaskOK' /\ HasPlan(q, Winner, tree[Winner].content, copy, Conflicts)
  <2>1. /\ Winner \in Node /\ tree[Winner].content \in SUBSET Edit
        /\ Conflicts \in SUBSET Node
    BY <1>1, <1>2
  <2> QED BY <1>1, <1>5, <1>6, <2>1, PlannedIs
<1> QED
  BY <1>1, <1>2, <1>5, <1>7, <1>8

LEMMA PlanEditsType ==
  ASSUME TypeInv, NEW q \in Process, NEW other \in Conflicts, PlanEdits(q, other),
         UNCHANGED tree, \A n \in Live : tree[n].content # Missing
  PROVE  \E final \in SUBSET Edit, copy \in Seq(SUBSET Edit) :
           /\ TaskOK' /\ HasPlan(q, Winner, final, copy, {other})
           /\ \/ final = Merge(AncestorText(Winner, other), tree[Winner].content,
                               tree[other].content)
              \/ tree[Winner].content \cup tree[other].content \subseteq final \cup InPlan(copy)
<1> DEFINE a == tree[Winner].content
           b == tree[other].content
           Final(final, copy) ==
             \/ final = Merge(AncestorText(Winner, other), a, b)
             \/ a \cup b \subseteq final \cup InPlan(copy)
<1>1. /\ TreeOK /\ TaskOK /\ Winner \in Node /\ other \in Node /\ Live \subseteq Node
      /\ Winner \in Live /\ other \in Live
  BY WinnerIsLeaf DEF TypeInv
<1>2. a \in SUBSET Edit /\ b \in SUBSET Edit
  BY <1>1, ContentIsText
<1>3. ASSUME NEW o \in Ancestors(Winner, other), Planned(q, Winner, Merge(o, a, b), <<>>, {other})
      PROVE  \E final \in SUBSET Edit, copy \in Seq(SUBSET Edit) :
               /\ TaskOK' /\ HasPlan(q, Winner, final, copy, {other})
               /\ Final(final, copy)
  <2> DEFINE m == Merge(o, a, b)
  <2>1. m \in SUBSET Edit /\ <<>> \in Seq(SUBSET Edit) /\ {other} \in SUBSET Node
    BY <1>1, <1>2, MergeIs
  <2>2. Planned(q, Winner, m, <<>>, {other})
    BY <1>3
  <2>3. Final(m, <<>>)
    <3>1. o = AncestorText(Winner, other) \/ o = {}
      BY <1>3 DEF Ancestors
    <3>2. o = {} => a \cup b \subseteq m
      BY DEF Merge
    <3> QED BY <3>1, <3>2
  <2> HIDE DEF m, a, b, Final
  <2>4. TaskOK' /\ HasPlan(q, Winner, m, <<>>, {other})
    BY <1>1, <2>1, <2>2, PlannedIs
  <2> QED BY <2>1, <2>3, <2>4
<1>4. ASSUME NEW x \in SUBSET Edit, NEW y \in SUBSET Edit, {x, y} = {a, b},
             Planned(q, Winner, x, <<y>>, {other})
      PROVE  \E final \in SUBSET Edit, copy \in Seq(SUBSET Edit) :
               /\ TaskOK' /\ HasPlan(q, Winner, final, copy, {other})
               /\ a \cup b \subseteq final \cup InPlan(copy)
  <2>1. <<y>> \in Seq(SUBSET Edit) /\ {other} \in SUBSET Node
    BY <1>1
  <2>2. TaskOK' /\ HasPlan(q, Winner, x, <<y>>, {other})
    BY <1>1, <1>4, <2>1, PlannedIs
  <2>3. InPlan(<<y>>) = y
    <3>1. DOMAIN <<y>> = {1} /\ <<y>>[1] = y
      OBVIOUS
    <3> QED BY <3>1 DEF InPlan
  <2>4. a \cup b \subseteq x \cup y
    BY <1>4
  <2> HIDE DEF a, b
  <2> QED BY <2>1, <2>2, <2>3, <2>4
<1>5. CASE Planned(q, Winner, a, <<b>>, {other})
  BY <1>2, <1>4, <1>5
<1>6. CASE Planned(q, Winner, b, <<a>>, {other})
  BY <1>2, <1>4, <1>6
<1>7. PICK o \in Ancestors(Winner, other) :
        \/ Planned(q, Winner, Merge(o, a, b), <<>>, {other})
        \/ Planned(q, Winner, a, <<b>>, {other})
        \/ Planned(q, Winner, b, <<a>>, {other})
  BY DEF PlanEdits
<1> QED
  BY <1>3, <1>5, <1>6, <1>7

\* How a resolver's task is left: its change stays, and it may start again.
Left(q, S) ==
  /\ \A r \in Process \ {q} : task'[r] = task[r]
  /\ task'[q].at \in S
  /\ \/ /\ task'[q].op = task[q].op /\ task'[q].base = task[q].base
        /\ task'[q].text = task[q].text
     \/ /\ task'[q].op = "none" /\ task'[q].base = NoRev
        /\ task'[q].text = {} /\ task'[q].at = "idle"
  /\ task'[q].loop \in {"read", task[q].loop}
  /\ (task'[q].at = "leaves" => task[q].loop = "leaves")

LEMMA LeftType ==
  ASSUME TaskOK, Len(tree) \in Nat, Len(tree') \in Nat, Len(tree) <= Len(tree'),
         NEW q \in Process, Resolved(q) \/ Unresolved(q) \/ Retry(q)
  PROVE  /\ TaskOK' /\ Left(q, {"idle", "winner", "rejected", "read", "leaves"})
         /\ Resolved(q) \/ Unresolved(q) => Left(q, {"idle", "winner", "rejected"})
<1>1. CASE Resolved(q)
  BY <1>1, ResolvedEnds, EndedType DEF Left
<1>2. CASE Unresolved(q)
  BY <1>2, UnresolvedEnds, EndedType DEF Left
<1>3. CASE Retry(q)
  BY <1>1, <1>2, <1>3, RetryEnds, EndedType DEF Left
<1> QED
  BY <1>1, <1>2, <1>3

LEMMA ReadLeavesType ==
  ASSUME TypeInv, NEW q \in Process, ReadLeaves(q)
  PROVE  /\ TypeInv' /\ UNCHANGED <<tree, copies, dev, acked, retired>> /\ task[q].at = "read"
         /\ \/ /\ ~Found /\ \A r \in Process \ {q} : task'[r] = task[r]
               /\ task'[q].at = "leaves" /\ task'[q].op = task[q].op
               /\ task'[q].base = task[q].base /\ task'[q].text = task[q].text
            \/ Left(q, {"idle", "winner", "rejected"})
            \/ /\ \A n \in Live : tree[n].content # Missing
               /\ Winner \in Live
               /\ \E final \in SUBSET Edit, copy \in Seq(SUBSET Edit), losers \in SUBSET Conflicts :
                    /\ HasPlan(q, Winner, final, copy, losers)
                    /\ \/ \E other \in Conflicts :
                            /\ losers = {other}
                            /\ final = Merge(AncestorText(Winner, other), tree[Winner].content,
                                             tree[other].content)
                       \/ \A n \in losers \cup {Winner} :
                            tree[n].content \subseteq final \cup InPlan(copy)
<1>1. /\ TreeOK /\ TaskOK /\ CountersOK /\ Len(tree) \in Nat /\ task[q] \in Task
      /\ UNCHANGED <<tree, unseen, copies, dev, edits, acked, retired, deletes, repeats, faults>>
      /\ task[q].at = "read" /\ Len(tree') \in Nat /\ Len(tree) <= Len(tree')
      /\ (Conflicts # {} => Winner \in Live)
  BY Fields, WinnerIsLeaf DEF ReadLeaves, At, history, bounds, stored
<1>2. /\ TreeOK' /\ acked' \subseteq Edit /\ unseen' \in BOOLEAN /\ copies' \in Seq(Content)
  BY <1>1 DEF TypeInv, TreeOK, Node, CountersOK
<1>3. CASE /\ ~Found
           /\ task' = [task EXCEPT ![q].at = "leaves", ![q].loop = "leaves", ![q].tries = 0]
  <2> DEFINE x == [task[q] EXCEPT !.at = "leaves", !.loop = "leaves", !.tries = 0]
  <2>1. 0 \in 0..(MaxRetries - 1)
    BY HubAssumption
  <2>2. /\ x \in Task /\ x.at = "leaves" /\ x.op = task[q].op /\ x.base = task[q].base
        /\ x.text = task[q].text /\ x.top = task[q].top /\ x.losers = task[q].losers
    BY <1>1, <2>1 DEF Task, Step
  <2>3. task' = [task EXCEPT ![q] = x]
    BY <1>1, <1>3 DEF TaskOK
  <2> HIDE DEF x
  <2>4. x.base \in 0..Len(tree') /\ x.top \in 0..Len(tree') /\ x.losers \subseteq Node'
    BY <1>1, <2>2 DEF TaskOK, Node
  <2>5. TaskOK' /\ task'[q] = x /\ \A r \in Process \ {q} : task'[r] = task[r]
    BY <1>1, <2>2, <2>3, <2>4, TaskSet
  <2>6. TypeInv'
    BY <1>1, <1>2, <2>2, <2>5, TypeFrame
  <2> QED BY <1>1, <1>3, <2>2, <2>5, <2>6
<1>4. CASE Resolved(q) \/ Unresolved(q)
  <2>1. TaskOK' /\ Left(q, {"idle", "winner", "rejected"})
    BY <1>1, <1>4, LeftType
  <2>2. TypeInv'
    BY <1>1, <1>2, <2>1, TypeFrame DEF Left
  <2> QED BY <1>1, <2>1, <2>2
<1>5. CASE /\ Conflicts # {} /\ \A n \in Live : tree[n].content # Missing
           /\ \/ \E other \in Conflicts : Conflicts = {other} /\ PlanEdits(q, other)
              \/ PlanMany(q)
  <2>1. PICK final \in SUBSET Edit, copy \in Seq(SUBSET Edit), losers \in SUBSET Conflicts :
          /\ TaskOK' /\ HasPlan(q, Winner, final, copy, losers)
          /\ \/ \E other \in Conflicts :
                  /\ losers = {other}
                  /\ final = Merge(AncestorText(Winner, other), tree[Winner].content,
                                   tree[other].content)
             \/ \A n \in losers \cup {Winner} : tree[n].content \subseteq final \cup InPlan(copy)
    <3>1. CASE PlanMany(q)
      <4>1. PICK final \in SUBSET Edit, copy \in Seq(SUBSET Edit) :
              /\ TaskOK' /\ HasPlan(q, Winner, final, copy, Conflicts)
              /\ final = tree[Winner].content
              /\ \A n \in Conflicts : tree[n].content \subseteq InPlan(copy)
        BY <1>1, <1>5, <3>1, PlanManyType
      <4>2. \A n \in Conflicts \cup {Winner} : tree[n].content \subseteq final \cup InPlan(copy)
        BY <4>1
      <4> QED BY <4>1, <4>2
    <3>2. CASE \E other \in Conflicts : Conflicts = {other} /\ PlanEdits(q, other)
      <4>1. PICK other \in Conflicts : PlanEdits(q, other)
        BY <3>2
      <4>2. PICK final \in SUBSET Edit, copy \in Seq(SUBSET Edit) :
              /\ TaskOK' /\ HasPlan(q, Winner, final, copy, {other})
              /\ \/ final = Merge(AncestorText(Winner, other), tree[Winner].content,
                                  tree[other].content)
                 \/ tree[Winner].content \cup tree[other].content
                      \subseteq final \cup InPlan(copy)
        BY <1>1, <1>5, <4>1, PlanEditsType
      <4>3. {other} \in SUBSET Conflicts
        OBVIOUS
      <4> QED BY <4>2, <4>3
    <3> QED BY <1>5, <3>1, <3>2
  <2>2. TypeInv'
    BY <1>1, <1>2, <2>1, TypeFrame DEF HasPlan
  <2> QED BY <1>1, <1>5, <2>1, <2>2
<1> QED
  BY <1>3, <1>4, <1>5 DEF ReadLeaves

LEMMA ReadAllLeavesType ==
  ASSUME TypeInv, NEW q \in Process, ReadAllLeaves(q)
  PROVE  /\ TypeInv' /\ UNCHANGED <<tree, copies, dev, acked, retired>> /\ task[q].at = "leaves"
         /\ \/ Left(q, {"idle", "winner", "rejected"})
            \/ /\ \A n \in Live : tree[n].content # Missing
               /\ \E n \in Live, t \in Leaf \ Live :
                    /\ tree[n].content \in SUBSET Edit
                    /\ HasPlan(q, t, tree[n].content, <<>>, Leaf \ {t})
<1>1. /\ TreeOK /\ TaskOK /\ CountersOK /\ Len(tree) \in Nat
      /\ UNCHANGED <<tree, unseen, copies, dev, edits, acked, retired, deletes, repeats, faults>>
      /\ task[q].at = "leaves" /\ Len(tree') \in Nat /\ Len(tree) <= Len(tree')
      /\ Live \subseteq Leaf /\ Leaf \subseteq Node
  BY Fields, WinnerIsLeaf DEF ReadAllLeaves, At, history, bounds, stored
<1>2. /\ TreeOK' /\ acked' \subseteq Edit /\ unseen' \in BOOLEAN /\ copies' \in Seq(Content)
  BY <1>1 DEF TypeInv, TreeOK, Node, CountersOK
<1>3. CASE Resolved(q) \/ Unresolved(q)
  <2>1. TaskOK' /\ Left(q, {"idle", "winner", "rejected"})
    BY <1>1, <1>3, LeftType
  <2>2. TypeInv'
    BY <1>1, <1>2, <2>1, TypeFrame DEF Left
  <2> QED BY <1>1, <2>1, <2>2
<1>4. CASE /\ \A n \in Live : tree[n].content # Missing
           /\ \E n \in Live, t \in Leaf \ Live :
                Planned(q, t, tree[n].content, <<>>, Leaf \ {t})
  <2>1. PICK n \in Live, t \in Leaf \ Live : Planned(q, t, tree[n].content, <<>>, Leaf \ {t})
    BY <1>4
  <2>2. tree[n].content \in SUBSET Edit
    BY <1>1, <1>4, ContentIsText
  <2>3. TaskOK' /\ HasPlan(q, t, tree[n].content, <<>>, Leaf \ {t})
    <3>1. t \in Node /\ <<>> \in Seq(SUBSET Edit) /\ Leaf \ {t} \in SUBSET Node
      BY <1>1
    <3> QED BY <1>1, <2>1, <2>2, <3>1, PlannedIs
  <2>4. TypeInv'
    BY <1>1, <1>2, <2>3, TypeFrame DEF HasPlan
  <2> QED BY <1>1, <1>4, <2>2, <2>3, <2>4
<1> QED
  BY <1>3, <1>4 DEF ReadAllLeaves

LEMMA CopyNameType ==
  ASSUME TypeInv, NEW q \in Process, CopyName(q)
  PROVE  /\ TypeInv' /\ UNCHANGED <<tree, copies, dev, acked, retired>> /\ task[q].at = "copy"
         /\ Moved(q, "copydoc") /\ task'[q].slot = Len(copies) + 1
         /\ task'[q].copy = task[q].copy /\ task'[q].losers = task[q].losers
<1>1. /\ TreeOK /\ TaskOK /\ CountersOK /\ Len(tree) \in Nat /\ task[q] \in Task
      /\ UNCHANGED <<tree, unseen, copies, dev, edits, acked, retired, deletes, repeats, faults>>
      /\ task[q].at = "copy" /\ Len(tree') \in Nat /\ Len(tree) <= Len(tree')
      /\ task' = [task EXCEPT ![q].at = "copydoc", ![q].slot = Len(copies) + 1]
  BY Fields DEF CopyName, At, history, bounds, stored
<1>2. /\ TreeOK' /\ acked' \subseteq Edit /\ unseen' \in BOOLEAN /\ copies' \in Seq(Content)
      /\ Len(copies) + 1 \in Nat /\ task[q].copy # <<>>
  BY <1>1 DEF TypeInv, TreeOK, Node, CountersOK, CopyOK
<1> DEFINE x == [task[q] EXCEPT !.at = "copydoc", !.slot = Len(copies) + 1]
<1>3. /\ x \in Task /\ x.at = "copydoc" /\ x.slot = Len(copies) + 1
      /\ x.copy = task[q].copy /\ x.losers = task[q].losers
      /\ x.op = task[q].op /\ x.base = task[q].base /\ x.text = task[q].text
      /\ x.loop = task[q].loop /\ x.top = task[q].top /\ x.final = task[q].final
  BY <1>1, <1>2 DEF Task, Step
<1>4. task' = [task EXCEPT ![q] = x]
  BY <1>1 DEF TaskOK
<1> HIDE DEF x
<1>5. TaskOK' /\ task'[q] = x /\ Moved(q, x.at)
  BY <1>1, <1>3, <1>4, GotoIs
<1>6. TypeInv'
  BY <1>1, <1>2, <1>3, <1>5, TypeFrame DEF Moved
<1> QED
  BY <1>1, <1>3, <1>5, <1>6

LEMMA CopyDocType ==
  ASSUME TypeInv, NEW q \in Process, CopyDoc(q)
  PROVE  /\ TypeInv' /\ UNCHANGED <<tree, dev, acked, retired>> /\ task[q].at = "copydoc"
         /\ \/ /\ task[q].slot = Len(copies) + 1 /\ copies' = Append(copies, Missing)
               /\ Moved(q, "copyatt") /\ task'[q].slot = task[q].slot
               /\ task'[q].copy = task[q].copy /\ task'[q].losers = task[q].losers
            \/ UNCHANGED copies /\ Left(q, {"idle", "winner", "rejected", "read", "leaves"})
<1>1. /\ TreeOK /\ TaskOK /\ CountersOK /\ Len(tree) \in Nat /\ copies \in Seq(Content)
      /\ UNCHANGED <<tree, unseen, dev, edits, acked, retired, deletes, repeats, faults>>
      /\ task[q].at = "copydoc" /\ Len(tree') \in Nat /\ Len(tree) <= Len(tree')
  BY Fields DEF CopyDoc, At, history, bounds, TypeInv
<1>2. TreeOK' /\ acked' \subseteq Edit /\ unseen' \in BOOLEAN /\ task[q].copy # <<>>
  BY <1>1 DEF TypeInv, TreeOK, Node, CountersOK, CopyOK
<1>3. CASE /\ task[q].slot = Len(copies) + 1 /\ copies' = Append(copies, Missing)
           /\ Goto(q, "copyatt")
  <2>1. copies' \in Seq(Content)
    BY <1>1, <1>3, NoTagIs
  <2>2. /\ TaskOK' /\ Moved(q, "copyatt") /\ task'[q].slot = task[q].slot
        /\ task'[q].copy = task[q].copy /\ task'[q].losers = task[q].losers
    BY <1>1, <1>3, GotoType DEF Step
  <2>3. TypeInv'
    BY <1>1, <1>2, <2>1, <2>2, TypeFrame DEF Moved
  <2> QED BY <1>1, <1>3, <2>2, <2>3
<1>4. CASE Retry(q) /\ UNCHANGED copies
  <2>1. TaskOK' /\ Left(q, {"idle", "winner", "rejected", "read", "leaves"})
    BY <1>1, <1>4, LeftType
  <2>2. TypeInv'
    BY <1>1, <1>2, <1>4, <2>1, TypeFrame DEF Left
  <2> QED BY <1>1, <1>4, <2>1, <2>2
<1> QED
  BY <1>3, <1>4 DEF CopyDoc

LEMMA ReplacedInSeq ==
  ASSUME NEW S, NEW s \in Seq(S), NEW i, NEW e \in S
  PROVE  /\ [s EXCEPT ![i] = e] \in Seq(S) /\ Len([s EXCEPT ![i] = e]) = Len(s)
         /\ \A j \in 1..Len(s) : [s EXCEPT ![i] = e][j] = IF j = i THEN e ELSE s[j]
<1> DEFINE t == [s EXCEPT ![i] = e]
<1>1. Len(s) \in Nat /\ s \in [1..Len(s) -> S] /\ DOMAIN s = 1..Len(s)
  OBVIOUS
<1>2. t \in [1..Len(s) -> S] /\ \A j \in 1..Len(s) : t[j] = IF j = i THEN e ELSE s[j]
  BY <1>1
<1> HIDE DEF t
<1>3. t \in Seq(S) /\ Len(t) = Len(s)
  BY <1>1, <1>2
<1> QED
  BY <1>2, <1>3 DEF t

LEMMA CopyAttachmentType ==
  ASSUME TypeInv, NEW q \in Process, CopyAttachment(q)
  PROVE  /\ TypeInv' /\ UNCHANGED <<tree, dev, acked, retired>> /\ task[q].at = "copyatt"
         /\ task[q].copy # <<>>
         /\ copies' = [copies EXCEPT ![task[q].slot] = Head(task[q].copy)]
         /\ Moved(q, IF Tail(task[q].copy) = <<>> THEN "write" ELSE "copy")
         /\ task'[q].copy = Tail(task[q].copy) /\ task'[q].losers = task[q].losers
<1>1. /\ TreeOK /\ TaskOK /\ CountersOK /\ Len(tree) \in Nat /\ task[q] \in Task
      /\ UNCHANGED <<tree, unseen, dev, edits, acked, retired, deletes, repeats, faults>>
      /\ task[q].at = "copyatt" /\ Len(tree') \in Nat /\ Len(tree) <= Len(tree')
      /\ task[q].copy \in Seq(SUBSET Edit)
      /\ copies' = [copies EXCEPT ![task[q].slot] = Head(task[q].copy)]
      /\ task' = [task EXCEPT ![q].at = IF Tail(task[q].copy) = <<>> THEN "write" ELSE "copy",
                              ![q].copy = Tail(task[q].copy)]
  BY Fields DEF CopyAttachment, At, history, bounds
<1>2. /\ TreeOK' /\ acked' \subseteq Edit /\ unseen' \in BOOLEAN /\ task[q].copy # <<>>
      /\ copies \in Seq(Content)
  BY <1>1 DEF TypeInv, TreeOK, Node, CountersOK, CopyOK
<1>3. /\ Head(task[q].copy) \in Content /\ Tail(task[q].copy) \in Seq(SUBSET Edit)
  BY <1>1, <1>2 DEF Content
<1>4. copies' \in Seq(Content)
  BY <1>1, <1>2, <1>3, ReplacedInSeq
<1> DEFINE at == IF Tail(task[q].copy) = <<>> THEN "write" ELSE "copy"
           x == [task[q] EXCEPT !.at = at, !.copy = Tail(task[q].copy)]
<1>5. /\ x \in Task /\ x.at = at /\ x.copy = Tail(task[q].copy) /\ x.losers = task[q].losers
      /\ x.op = task[q].op /\ x.base = task[q].base /\ x.text = task[q].text
      /\ x.loop = task[q].loop /\ x.top = task[q].top /\ x.final = task[q].final
  BY <1>1, <1>3 DEF Task, Step
<1>6. task' = [task EXCEPT ![q] = x]
  BY <1>1 DEF TaskOK
<1> HIDE DEF x
<1>7. TaskOK' /\ task'[q] = x /\ Moved(q, x.at)
  BY <1>1, <1>5, <1>6, GotoIs
<1>8. TypeInv'
  <2>1. task'[q].at \notin {"copy", "copydoc", "copyatt"} \/ task'[q].copy # <<>>
    BY <1>5, <1>7
  <2> QED BY <1>1, <1>2, <1>4, <1>7, <2>1, TypeFrame DEF Moved
<1> QED
  BY <1>1, <1>2, <1>5, <1>7, <1>8

LEMMA WriteDocType ==
  ASSUME TypeInv, NEW q \in Process, WriteDoc(q)
  PROVE  /\ TypeInv' /\ UNCHANGED <<copies, dev, acked, retired>> /\ task[q].at = "write"
         /\ \/ /\ task[q].top \in Leaf /\ Added(task[q].top, FALSE, Missing, NoTag)
               /\ Moved(q, "writeatt") /\ task'[q].new = NewRev
               /\ task'[q].losers = task[q].losers
            \/ UNCHANGED tree /\ Left(q, {"idle", "winner", "rejected", "read", "leaves"})
<1>1. /\ TreeOK /\ TaskOK /\ CountersOK /\ Len(tree) \in Nat /\ copies \in Seq(Content)
      /\ UNCHANGED <<copies, dev, edits, acked, retired, deletes, repeats, faults>>
      /\ task[q].at = "write" /\ task[q].top \in 0..Len(tree)
  BY Fields DEF WriteDoc, At, history, bounds, TypeInv
<1>2. CASE /\ task[q].top \in Leaf /\ Store(task[q].top, FALSE, Missing, NoTag)
           /\ task' = [task EXCEPT ![q].at = "writeatt", ![q].new = NewRev]
  <2>1. /\ TreeOK' /\ unseen' = TRUE /\ Added(task[q].top, FALSE, Missing, NoTag)
        /\ Len(tree') \in Nat /\ Len(tree) <= Len(tree') /\ NewRev \in Nat
    BY <1>1, <1>2, NoTagIs, StoreAdds DEF Added
  <2>2. /\ TaskOK' /\ Moved(q, "writeatt") /\ task'[q].new = NewRev
        /\ task'[q].losers = task[q].losers
    BY <1>1, <1>2, <2>1, BodyType DEF Step
  <2>3. TypeInv'
    BY <1>1, <2>1, <2>2, TypeFrame DEF Moved, CountersOK
  <2> QED BY <1>1, <1>2, <2>1, <2>2, <2>3
<1>3. CASE Retry(q) /\ UNCHANGED feed
  <2>1. UNCHANGED <<tree, unseen>> /\ Len(tree') \in Nat /\ Len(tree) <= Len(tree')
    BY <1>1, <1>3 DEF feed
  <2>2. TaskOK' /\ Left(q, {"idle", "winner", "rejected", "read", "leaves"})
    BY <1>1, <1>3, <2>1, LeftType
  <2>3. TreeOK' /\ unseen' \in BOOLEAN /\ acked' \subseteq Edit
    BY <1>1, <2>1 DEF TreeOK, Node, CountersOK
  <2>4. TypeInv'
    BY <1>1, <2>1, <2>2, <2>3, TypeFrame DEF Left
  <2> QED BY <1>1, <2>1, <2>2, <2>4
<1> QED
  BY <1>2, <1>3 DEF WriteDoc

LEMMA WriteAttachmentType ==
  ASSUME TypeInv, NEW q \in Process, WriteAttachment(q)
  PROVE  /\ TypeInv' /\ UNCHANGED <<copies, dev, acked, retired>> /\ task[q].at = "writeatt"
         /\ \/ /\ task[q].new \in Leaf /\ Added(task[q].new, FALSE, task[q].final, NoTag)
               /\ Moved(q, "drop") /\ task'[q].losers = task[q].losers
            \/ /\ task[q].new \notin Leaf /\ UNCHANGED tree
               /\ Left(q, {"idle", "winner", "rejected", "read", "leaves"})
<1>1. /\ TreeOK /\ TaskOK /\ CountersOK /\ Len(tree) \in Nat /\ copies \in Seq(Content)
      /\ UNCHANGED <<copies, dev, edits, acked, retired, deletes, repeats, faults>>
      /\ task[q].at = "writeatt" /\ Leaf \subseteq 0..Len(tree)
      /\ task[q].final \in SUBSET Edit
  BY Fields DEF WriteAttachment, At, history, bounds, TypeInv
<1>2. CASE /\ task[q].new \in Leaf /\ Store(task[q].new, FALSE, task[q].final, NoTag)
           /\ Goto(q, "drop")
  <2>1. task[q].new \in 0..Len(tree) /\ task[q].final \in Content
    BY <1>1, <1>2 DEF Content
  <2>2. /\ TreeOK' /\ unseen' = TRUE /\ Added(task[q].new, FALSE, task[q].final, NoTag)
        /\ Len(tree') \in Nat /\ Len(tree) <= Len(tree')
    BY <1>1, <1>2, <2>1, NoTagIs, StoreAdds
  <2>3. TaskOK' /\ Moved(q, "drop") /\ task'[q].losers = task[q].losers
    BY <1>1, <1>2, <2>2, GotoType DEF Step
  <2>4. TypeInv'
    BY <1>1, <2>2, <2>3, TypeFrame DEF Moved, CountersOK
  <2> QED BY <1>1, <1>2, <2>2, <2>3, <2>4
<1>3. CASE task[q].new \notin Leaf /\ Retry(q) /\ UNCHANGED feed
  <2>1. UNCHANGED <<tree, unseen>> /\ Len(tree') \in Nat /\ Len(tree) <= Len(tree')
    BY <1>1, <1>3 DEF feed
  <2>2. TaskOK' /\ Left(q, {"idle", "winner", "rejected", "read", "leaves"})
    BY <1>1, <1>3, <2>1, LeftType
  <2>3. TreeOK' /\ unseen' \in BOOLEAN /\ acked' \subseteq Edit
    BY <1>1, <2>1 DEF TreeOK, Node, CountersOK
  <2>4. TypeInv'
    BY <1>1, <2>1, <2>2, <2>3, TypeFrame DEF Left
  <2> QED BY <1>1, <1>3, <2>1, <2>2, <2>4
<1> QED
  BY <1>2, <1>3 DEF WriteAttachment

LEMMA DropLoserType ==
  ASSUME TypeInv, NEW q \in Process, DropLoser(q)
  PROVE  /\ TypeInv' /\ UNCHANGED <<copies, dev, acked, retired>> /\ task[q].at = "drop"
         /\ \/ \E n \in task[q].losers :
                 /\ n \in Leaf /\ Added(n, TRUE, Missing, NoTag)
                 /\ \/ Left(q, {"idle", "winner", "rejected"})
                    \/ Moved(q, "drop") /\ task'[q].losers = task[q].losers \ {n}
            \/ UNCHANGED tree /\ Left(q, {"idle", "winner", "rejected", "read", "leaves"})
<1>1. /\ TreeOK /\ TaskOK /\ CountersOK /\ Len(tree) \in Nat /\ copies \in Seq(Content)
      /\ UNCHANGED <<copies, dev, edits, acked, retired, deletes, repeats, faults>>
      /\ task[q].at = "drop" /\ task[q].losers \in SUBSET Node /\ task[q] \in Task
  BY Fields DEF DropLoser, At, history, bounds, TypeInv
<1>2. PICK n \in task[q].losers :
        \/ /\ n \in Leaf /\ Store(n, TRUE, Missing, NoTag)
           /\ \/ Resolved(q)
              \/ task' = [task EXCEPT ![q].losers = @ \ {n}]
        \/ (Retry(q) \/ Unresolved(q)) /\ UNCHANGED feed
  BY DEF DropLoser
<1>3. CASE /\ n \in Leaf /\ Store(n, TRUE, Missing, NoTag)
           /\ \/ Resolved(q)
              \/ task' = [task EXCEPT ![q].losers = @ \ {n}]
  <2>1. n \in 0..Len(tree)
    BY <1>1 DEF Node
  <2>2. /\ TreeOK' /\ unseen' = TRUE /\ Added(n, TRUE, Missing, NoTag)
        /\ Len(tree') \in Nat /\ Len(tree) <= Len(tree')
    BY <1>1, <1>3, <2>1, NoTagIs, StoreAdds
  <2>3. CASE Resolved(q)
    <3>1. TaskOK' /\ Left(q, {"idle", "winner", "rejected"})
      BY <1>1, <2>2, <2>3, LeftType
    <3>2. TypeInv'
      BY <1>1, <2>2, <3>1, TypeFrame DEF Left, CountersOK
    <3> QED BY <1>1, <1>3, <2>2, <3>1, <3>2
  <2>4. CASE task' = [task EXCEPT ![q].losers = @ \ {n}]
    <3> DEFINE x == [task[q] EXCEPT !.losers = task[q].losers \ {n}]
    <3>1. /\ x \in Task /\ x.at = task[q].at /\ x.losers = task[q].losers \ {n}
          /\ x.op = task[q].op /\ x.base = task[q].base /\ x.text = task[q].text
          /\ x.loop = task[q].loop /\ x.top = task[q].top /\ x.final = task[q].final
      BY <1>1 DEF Task
    <3>2. task' = [task EXCEPT ![q] = x]
      BY <1>1, <2>4 DEF TaskOK
    <3> HIDE DEF x
    <3>3. TaskOK' /\ task'[q] = x /\ Moved(q, x.at)
      BY <1>1, <2>2, <3>1, <3>2, GotoIs
    <3>4. Moved(q, "drop")
      BY <1>1, <3>1, <3>3
    <3>5. TypeInv'
      BY <1>1, <2>2, <3>3, <3>4, TypeFrame DEF Moved, CountersOK
    <3> QED BY <1>1, <1>3, <2>2, <3>1, <3>3, <3>4, <3>5
  <2> QED BY <1>3, <2>3, <2>4
<1>4. CASE (Retry(q) \/ Unresolved(q)) /\ UNCHANGED feed
  <2>1. UNCHANGED <<tree, unseen>> /\ Len(tree') \in Nat /\ Len(tree) <= Len(tree')
    BY <1>1, <1>4 DEF feed
  <2>2. TaskOK' /\ Left(q, {"idle", "winner", "rejected", "read", "leaves"})
    BY <1>1, <1>4, <2>1, LeftType
  <2>3. TreeOK' /\ unseen' \in BOOLEAN /\ acked' \subseteq Edit
    BY <1>1, <2>1 DEF TreeOK, Node, CountersOK
  <2>4. TypeInv'
    BY <1>1, <2>1, <2>2, <2>3, TypeFrame DEF Left
  <2> QED BY <1>1, <2>1, <2>2, <2>4
<1> QED
  BY <1>2, <1>3, <1>4

LEMMA CrashType ==
  ASSUME TypeInv, Crash
  PROVE  /\ TypeInv' /\ UNCHANGED <<tree, copies, dev, acked, retired>> /\ MaxFaults # 0
         /\ \A q \in Process :
              \/ task'[q] = task[q] /\ ~Running(q)
              \/ task'[q] = Idle
              \/ /\ task'[q].at = "rejected" /\ task'[q].op = task[q].op
                 /\ task'[q].base = task[q].base /\ task'[q].text = task[q].text
                 /\ task'[q].loop = "read"
<1>1. /\ TreeOK /\ TaskOK /\ CopyOK /\ Len(tree) \in Nat /\ DevOK /\ CountersOK
      /\ UNCHANGED <<tree, copies, dev, edits, acked, retired, deletes, repeats>>
      /\ unseen' = FALSE /\ faults' = faults + 1 /\ faults < MaxFaults
  BY DEF Crash, history, TypeInv, TreeOK
<1>2. /\ task' = [q \in Process |-> IF q = Watcher THEN Idle
                       ELSE IF Running(q) THEN Finished(q, "rejected") ELSE task[q]]
  BY DEF Crash
<1>3. \A q \in Process :
        /\ task'[q] \in Task
        /\ \/ task'[q] = task[q] /\ ~Running(q)
           \/ task'[q] = Idle
           \/ /\ task'[q].at = "rejected" /\ task'[q].op = task[q].op
              /\ task'[q].base = task[q].base /\ task'[q].text = task[q].text
              /\ task'[q].loop = "read" /\ task'[q].top = NoRev /\ task'[q].losers = {}
  <2> TAKE q \in Process
  <2>1. CASE q = Watcher
    BY <1>2, <2>1, IdleIs
  <2>2. CASE q # Watcher /\ ~Running(q)
    BY <1>1, <1>2, <2>2 DEF TaskOK
  <2>3. CASE q # Watcher /\ Running(q)
    <3>1. task'[q] = Finished(q, "rejected")
      BY <1>2, <2>3
    <3> QED BY <1>1, <3>1, FinishedIs DEF Step
  <2> QED BY <2>1, <2>2, <2>3
<1>4. TaskOK'
  <2>1. task' \in [Process -> Task]
    BY <1>2, <1>3
  <2>2. \A q \in Process : /\ task'[q].base \in 0..Len(tree)
                           /\ task'[q].top \in 0..Len(tree)
                           /\ task'[q].losers \subseteq Node
    BY <1>1, <1>3, IdleIs DEF TaskOK, NoRev
  <2> QED BY <1>1, <2>1, <2>2 DEF TaskOK, Node
<1>5. CopyOK'
  BY <1>1, <1>3, IdleIs DEF CopyOK
<1>6. DevOK' /\ CountersOK' /\ TreeOK' /\ copies' \in Seq(Content) /\ MaxFaults # 0
  <2>1. DevOK' /\ TreeOK' /\ copies' \in Seq(Content)
    BY <1>1 DEF DevOK, TreeOK, Node, TypeInv
  <2>2. faults' \in Nat /\ MaxFaults # 0
    BY <1>1, HubAssumption DEF CountersOK
  <2> QED BY <1>1, <2>1, <2>2 DEF CountersOK
<1>7. TypeInv'
  BY <1>4, <1>5, <1>6 DEF TypeInv
<1> QED
  BY <1>1, <1>3, <1>6, <1>7

\* A request that CouchDB fails ends its handler, and nothing else changes.
LEMMA CouchFailsType ==
  ASSUME TypeInv, NEW q \in Process, CouchFails(q)
  PROVE  /\ TypeInv' /\ UNCHANGED <<tree, copies, dev, acked, retired>> /\ MaxFaults # 0
         /\ \A r \in Process \ {q} : task'[r] = task[r]
         /\ \/ task'[q] = Idle
            \/ /\ task'[q].at = "rejected" /\ task'[q].op = task[q].op
               /\ task'[q].base = task[q].base /\ task'[q].text = task[q].text
               /\ task'[q].loop = "read"
<1>1. /\ TreeOK /\ TaskOK /\ CopyOK /\ Len(tree) \in Nat /\ DevOK /\ CountersOK
      /\ UNCHANGED <<tree, copies, dev, edits, acked, retired, deletes, repeats, unseen>>
      /\ faults' = faults + 1 /\ faults < MaxFaults /\ Unresolved(q)
  BY DEF CouchFails, history, stored, TypeInv, TreeOK
<1>2. /\ TaskOK' /\ \A r \in Process \ {q} : task'[r] = task[r]
      /\ \/ task'[q] = Idle
         \/ /\ task'[q].at = "rejected" /\ task'[q].op = task[q].op
            /\ task'[q].base = task[q].base /\ task'[q].text = task[q].text
            /\ task'[q].loop = "read"
  <2> DEFINE x == IF q = Watcher THEN Idle ELSE Finished(q, "rejected")
  <2>1. /\ x \in Task /\ x.top = NoRev /\ x.losers = {} /\ x.base \in 0..Len(tree)
        /\ \/ x = Idle
           \/ /\ x.at = "rejected" /\ x.op = task[q].op /\ x.base = task[q].base
              /\ x.text = task[q].text /\ x.loop = "read"
    <3>1. CASE q = Watcher
      BY <1>1, <3>1, IdleIs DEF NoRev
    <3>2. CASE q # Watcher
      <4>1. x = Finished(q, "rejected") /\ "rejected" \in Step
        BY <3>2 DEF Step
      <4>2. task[q].base \in 0..Len(tree)
        BY <1>1 DEF TaskOK
      <4> HIDE DEF x
      <4> QED BY <1>1, <4>1, <4>2, FinishedIs
    <3> QED BY <3>1, <3>2
  <2>2. task' = [task EXCEPT ![q] = x]
    BY <1>1 DEF Unresolved
  <2> HIDE DEF x
  <2>3. /\ x.base \in 0..Len(tree') /\ x.top \in 0..Len(tree') /\ x.losers \subseteq Node'
        /\ Len(tree') \in Nat /\ Len(tree) <= Len(tree')
    BY <1>1, <2>1 DEF NoRev
  <2>4. TaskOK' /\ task'[q] = x /\ \A r \in Process \ {q} : task'[r] = task[r]
    BY <1>1, <2>1, <2>2, <2>3, TaskSet
  <2> QED BY <2>1, <2>4
<1>3. CopyOK'
  BY <1>1, <1>2, IdleIs DEF CopyOK
<1>4. DevOK' /\ TreeOK' /\ copies' \in Seq(Content)
  BY <1>1 DEF DevOK, TreeOK, Node, TypeInv
<1>5. CountersOK' /\ MaxFaults # 0
  <2>1. faults' \in Nat /\ MaxFaults # 0
    BY <1>1, HubAssumption DEF CountersOK
  <2> QED BY <1>1, <2>1 DEF CountersOK
<1> QED
  BY <1>1, <1>2, <1>3, <1>4, <1>5 DEF TypeInv

LEMMA TypeInductive == Spec => []TypeInv
<1>1. Init => TypeInv
  <2> SUFFICES ASSUME Init PROVE TypeInv
    OBVIOUS
  <2>1. /\ tree = <<>> \/ tree = <<Root>>
        /\ Root \in Revision /\ Root.parent = 0 /\ Root.gen = 1 /\ Root.rank = 1
        /\ ~Root.dead /\ Root.revisions = {1}
    BY NoTagIs DEF Init, Root, Revision, Content, NoRev
  <2>2. TreeOK /\ Len(tree) \in Nat
    <3>1. CASE tree = <<>>
      BY <3>1 DEF TreeOK, Node
    <3>2. CASE tree = <<Root>>
      <4>1. tree \in Seq(Revision) /\ Len(tree) = 1 /\ tree[1] = Root
        BY <2>1, <3>2
      <4> QED BY <2>1, <4>1 DEF TreeOK, Node
    <3> QED BY <2>1, <3>1, <3>2
  <2>3. TaskOK /\ CopyOK
    <3>1. task \in [Process -> Task] /\ \A q \in Process : task[q] = Idle
      BY IdleIs DEF Init
    <3> QED BY <2>2, <3>1, IdleIs DEF TaskOK, CopyOK, NoRev
  <2>4. DevOK
    <3>1. \A d \in Device : \/ dev[d] = [at |-> "read", base |-> Len(tree), text |-> {}]
                            \/ dev[d] = [at |-> "stale", base |-> 0, text |-> {}]
      BY DEF Init, Unread, NoRev
    <3>2. dev \in [Device -> [at : {"stale", "reading", "read"}, base : Nat, text : SUBSET Edit]]
      <4>1. dev = [d \in Device |-> dev[d]]
        BY DEF Init
      <4> QED BY <2>2, <3>1, <4>1
    <3> QED BY <2>2, <3>1, <3>2 DEF DevOK
  <2>5. CountersOK /\ copies \in Seq(Content)
    <3>1. 0 \in 0..MaxPushes
      BY HubAssumption
    <3>2. copies \in Seq(Content)
      BY DEF Init
    <3> QED BY <3>1, <3>2 DEF Init, CountersOK
  <2> QED BY <2>2, <2>3, <2>4, <2>5 DEF TypeInv
<1>2. TypeInv /\ [Next]_vars => TypeInv'
  <2> SUFFICES ASSUME TypeInv, [Next]_vars PROVE TypeInv'
    OBVIOUS
  <2>1. ASSUME NEW d \in Device, Client(d) PROVE TypeInv'
    BY <2>1, ReadsType, PushType, RepeatType DEF Client
  <2>2. ASSUME NEW d \in Device, Handle(d) PROVE TypeInv'
    BY <2>2, PutDocType, PutAttachmentType, DeleteDocType, PutRevisionType, AnswerWinnerType
       DEF Handle
  <2>3. ASSUME NEW q \in Process, Resolve(q) PROVE TypeInv'
    BY <2>3, ReadLeavesType, ReadAllLeavesType, CopyNameType, CopyDocType, CopyAttachmentType,
       WriteDocType, WriteAttachmentType, DropLoserType DEF Resolve
  <2>4. CASE UNCHANGED vars
    BY <2>4 DEF vars, TypeInv, TreeOK, TaskOK, CopyOK, DevOK, CountersOK, Node
  <2> QED
    BY <2>1, <2>2, <2>3, <2>4, PollType, CrashType, CouchFailsType DEF Next
<1> QED
  BY <1>1, <1>2, PTL DEF Spec

\* Every task and every plan names revisions that exist, a tombstone has no attachment,
\* and the resolver gives up after its last attempt, however many requests and
\* resolutions interleave (resolve, apply_plan, push.rs).
THEOREM HubTypeCorrect == Spec => []TypeOK
<1>1. TypeInv => TypeOK
  <2> SUFFICES ASSUME TypeInv PROVE TypeOK
    OBVIOUS
  <2>1. \A n \in Node : /\ tree[n].parent \in 0..(n - 1)
                        /\ tree[n].content \in {Missing} \cup SUBSET Edit
                        /\ tree[n].dead => tree[n].content = Missing
    <3>1. \A n \in Node : tree[n] \in Revision
      BY DEF TypeInv, TreeOK, Node
    <3> QED BY <3>1 DEF TypeInv, TreeOK, Revision, Content
  <2>2. \A q \in Process : /\ task[q].base \in 0..Len(tree)
                           /\ task[q].top \in 0..Len(tree)
                           /\ task[q].losers \subseteq Node
                           /\ task[q].tries \in 0..(MaxRetries - 1)
    BY DEF TypeInv, TaskOK, Task
  <2>3. \A i \in DOMAIN copies : copies[i] \in {Missing} \cup SUBSET Edit
    BY DEF TypeInv, Content
  <2> QED
    BY <2>1, <2>2, <2>3 DEF TypeInv, TypeOK, CountersOK
<1> QED
  BY <1>1, TypeInductive, PTL

----------------------------------------------------------------------------
(***************************************************************************)
(* WinnerReadable is not inductive: a body without an attachment is on top *)
(* for as long as the task that wrote it has not sent the attachment.      *)
(* Owned says that there is such a task for every one; a fault breaks it.  *)
(***************************************************************************)
Owner == {"attach", "writeatt"}

Owned ==
  \A n \in Live : \/ tree[n].content # Missing
                  \/ \E q \in Process : task[q].at \in Owner /\ task[q].new = n

LEMMA OwnedStep ==
  ASSUME Owned, NEW q \in Process, \A r \in Process \ {q} : task'[r] = task[r],
         task[q].at \notin Owner \/ task[q].new \notin Live',
         \A n \in Live' : \/ n \in Live /\ tree'[n].content = tree[n].content
                          \/ tree'[n].content # Missing
                          \/ task'[q].at \in Owner /\ task'[q].new = n
  PROVE  Owned'
BY DEF Owned

LEMMA SameLive ==
  ASSUME UNCHANGED tree
  PROVE  Node' = Node /\ Leaf' = Leaf /\ Live' = Live
BY DEF Live, Leaf, Node

LEMMA OwnedInductive ==
  ASSUME MaxFaults = 0
  PROVE  Spec => []Owned
<1>1. Init => Owned
  <2> SUFFICES ASSUME Init PROVE Owned
    OBVIOUS
  <2>1. \A n \in Live : tree[n].content # Missing
    <3>1. Root.content # Missing
      BY HubAssumption DEF Root
    <3>2. \A n \in Node : tree[n] = Root
      BY DEF Init, Node
    <3> QED BY <3>1, <3>2 DEF Live, Leaf
  <2> QED BY <2>1 DEF Owned
<1>2. TypeInv /\ Owned /\ [Next]_vars => Owned'
  <2> SUFFICES ASSUME TypeInv, Owned, [Next]_vars PROVE Owned'
    OBVIOUS
  <2>l. Live \subseteq Leaf /\ Leaf \subseteq Node
    BY WinnerIsLeaf DEF TypeInv
  <2>m. \A c \in SUBSET Edit : c # Missing
    BY HubAssumption
  <2>s. ASSUME NEW q \in Process, \A r \in Process \ {q} : task'[r] = task[r],
               task[q].at \notin Owner, UNCHANGED tree
        PROVE  Owned'
    BY <2>s, SameLive, OwnedStep
  <2>n. NewRev \notin Node /\ NewRev # NoRev
    BY DEF TypeInv, TreeOK, Node, NewRev, NoRev
  \* A body: its task owns it.
  <2>b. ASSUME NEW q \in Process, Moved(q, "attach") \/ Moved(q, "writeatt"),
               task[q].at \notin Owner, task'[q].new = NewRev,
               NEW p, Added(p, FALSE, Missing, NoTag)
        PROVE  Owned'
    <3>1. /\ Live' = (Live \ {p}) \cup {NewRev} /\ \A n \in Node : tree'[n] = tree[n]
          /\ task'[q].at \in Owner /\ \A r \in Process \ {q} : task'[r] = task[r]
      BY <2>b DEF Added, Moved, Owner
    <3> QED BY <2>b, <2>l, <3>1, OwnedStep
  \* An attachment: nobody has to own it.
  <2>c. ASSUME NEW q \in Process, \A r \in Process \ {q} : task'[r] = task[r],
               task[q].new \in Leaf, NEW c \in SUBSET Edit,
               Added(task[q].new, FALSE, c, NoTag)
        PROVE  Owned'
    <3>1. /\ Live' = (Live \ {task[q].new}) \cup {NewRev}
          /\ \A n \in Node : tree'[n] = tree[n] /\ tree'[NewRev].content = c
      BY <2>c DEF Added
    <3>2. task[q].new \notin Live' /\ c # Missing
      BY <2>c, <2>l, <2>m, <2>n, <3>1
    <3>3. \A n \in Live' : \/ n \in Live /\ tree'[n].content = tree[n].content
                           \/ tree'[n].content # Missing
      BY <2>c, <2>l, <3>1, <3>2, <2>n DEF Added
    <3> QED BY <2>c, <3>2, <3>3, OwnedStep
  \* A tombstone: nobody has to own it.
  <2>d. ASSUME NEW q \in Process, \A r \in Process \ {q} : task'[r] = task[r],
               task[q].at \notin Owner, NEW p, Added(p, TRUE, Missing, NoTag)
        PROVE  Owned'
    <3>1. Live' = Live \ {p} /\ \A n \in Node : tree'[n] = tree[n]
      BY <2>d DEF Added
    <3> QED BY <2>d, <2>l, <3>1, OwnedStep
  <2>1. ASSUME NEW d \in Device, Client(d) PROVE Owned'
    <3>1. CASE GetDoc(d) \/ GetAttachment(d) \/ GetFile(d)
      BY <3>1, ReadsType, SameLive DEF Owned
    <3>2. CASE PushUpsert(d) \/ PushDelete(d)
      <4>1. task[d].at \notin Owner
        BY <3>2 DEF PushUpsert, PushDelete, MayPush, At, Owner
      <4> QED BY <2>s, <3>2, <4>1, PushType, DeviceIsProcess
    <3>3. CASE Repeat(d)
      <4>1. task[d].at \notin Owner
        BY <3>3 DEF Repeat, At, Owner
      <4> QED BY <2>s, <3>3, <4>1, RepeatType, DeviceIsProcess
    <3> QED BY <2>1, <3>1, <3>2, <3>3 DEF Client
  <2>2. ASSUME NEW d \in Device, Handle(d) PROVE Owned'
    <3>d. d \in Process
      BY DeviceIsProcess
    <3>1. CASE PutDoc(d)
      <4>1. task[d].at \notin Owner
        BY <3>1, PutDocType DEF Owner
      <4>2. CASE ~CasHolds(task[d].base)
        BY <2>s, <3>1, <3>d, <4>1, <4>2, PutDocType DEF Moved
      <4>3. CASE CasHolds(task[d].base)
        <5>1. /\ Added(CasParent(task[d].base), FALSE, Missing, NoTag)
              /\ Moved(d, "attach") /\ task'[d].new = NewRev
          BY <3>1, <4>3, PutDocType
        <5> QED BY <2>b, <3>d, <4>1, <5>1
      <4> QED BY <4>2, <4>3
    <3>2. CASE PutAttachment(d)
      <4>1. task[d].text \in SUBSET Edit
        BY <3>d, Fields
      <4>2. CASE task[d].new \in Leaf
        <5>1. Added(task[d].new, FALSE, task[d].text, NoTag) /\ Over(d, "answered")
          BY <3>2, <4>2, PutAttachmentType
        <5>2. \A r \in Process \ {d} : task'[r] = task[r]
          BY <5>1 DEF Over
        <5> QED BY <2>c, <3>d, <4>1, <4>2, <5>1, <5>2
      <4>3. CASE task[d].new \notin Leaf
        <5>1. UNCHANGED tree /\ Over(d, "rejected")
          BY <3>2, <4>3, PutAttachmentType
        <5> QED BY <2>l, <3>d, <4>3, <5>1, SameLive, OwnedStep DEF Over
      <4> QED BY <4>2, <4>3
    <3>3. CASE DeleteDoc(d)
      <4>1. task[d].at \notin Owner
        BY <3>3, DeleteDocType DEF Owner
      <4>2. CASE UNCHANGED tree
        BY <2>s, <3>3, <3>d, <4>1, <4>2, DeleteDocType DEF Moved, Over
      <4>3. CASE task[d].base \in Leaf /\ Added(task[d].base, TRUE, Missing, NoTag)
                 /\ Over(d, "answered")
        <5>1. \A r \in Process \ {d} : task'[r] = task[r]
          BY <4>3 DEF Over
        <5> QED BY <2>d, <3>d, <4>1, <4>3, <5>1
      <4> QED BY <3>3, <4>2, <4>3, DeleteDocType
    <3>4. CASE PutRevision(d)
      <4>1. task[d].at \notin Owner /\ Moved(d, "read")
        BY <3>4, PutRevisionType DEF Owner
      <4>2. CASE UNCHANGED tree
        BY <2>s, <3>d, <4>1, <4>2 DEF Moved
      <4>3. CASE Added(task[d].base, task[d].op = "delete",
                       IF task[d].op = "delete" THEN Missing ELSE task[d].text, Tag(d))
        <5> DEFINE c == IF task[d].op = "delete" THEN Missing ELSE task[d].text
                   dead == task[d].op = "delete"
        <5>1. dead \/ c # Missing
          BY <2>m, <3>d, Fields
        <5>2. /\ Live' \subseteq Live \cup (IF dead THEN {} ELSE {NewRev})
              /\ \A n \in Live : tree'[n] = tree[n]
              /\ tree'[NewRev].content = c
          BY <2>l, <4>3 DEF Added
        <5> QED BY <3>d, <4>1, <5>1, <5>2, OwnedStep DEF Moved
      <4> QED BY <3>4, <4>2, <4>3, PutRevisionType
    <3>5. CASE AnswerWinner(d)
      <4>1. task[d].at \notin Owner
        BY <3>5, AnswerWinnerType DEF Owner
      <4> QED BY <2>s, <3>5, <3>d, <4>1, AnswerWinnerType DEF Over
    <3> QED BY <2>2, <3>1, <3>2, <3>3, <3>4, <3>5 DEF Handle
  <2>3. ASSUME NEW q \in Process, Resolve(q) PROVE Owned'
    <3>1. CASE ReadLeaves(q)
      <4>1. task[q].at \notin Owner
        BY <3>1, ReadLeavesType DEF Owner
      <4>2. UNCHANGED tree /\ \A r \in Process \ {q} : task'[r] = task[r]
        BY <3>1, ReadLeavesType DEF Left, HasPlan
      <4> QED BY <2>s, <4>1, <4>2
    <3>2. CASE ReadAllLeaves(q)
      <4>1. task[q].at \notin Owner
        BY <3>2, ReadAllLeavesType DEF Owner
      <4>2. UNCHANGED tree /\ \A r \in Process \ {q} : task'[r] = task[r]
        BY <3>2, ReadAllLeavesType DEF Left, HasPlan
      <4> QED BY <2>s, <4>1, <4>2
    <3>3. CASE CopyName(q) \/ CopyDoc(q) \/ CopyAttachment(q)
      <4>1. task[q].at \notin Owner
        BY <3>3, CopyNameType, CopyDocType, CopyAttachmentType DEF Owner
      <4>2. UNCHANGED tree /\ \A r \in Process \ {q} : task'[r] = task[r]
        BY <3>3, CopyNameType, CopyDocType, CopyAttachmentType DEF Left, Moved
      <4> QED BY <2>s, <4>1, <4>2
    <3>4. CASE WriteDoc(q)
      <4>1. task[q].at \notin Owner
        BY <3>4, WriteDocType DEF Owner
      <4>2. CASE UNCHANGED tree /\ Left(q, {"idle", "winner", "rejected", "read", "leaves"})
        BY <2>s, <4>1, <4>2 DEF Left
      <4>3. CASE /\ task[q].top \in Leaf /\ Added(task[q].top, FALSE, Missing, NoTag)
                 /\ Moved(q, "writeatt") /\ task'[q].new = NewRev
        BY <2>b, <4>1, <4>3
      <4> QED BY <3>4, <4>2, <4>3, WriteDocType
    <3>5. CASE WriteAttachment(q)
      <4>1. task[q].final \in SUBSET Edit
        BY Fields
      <4>2. CASE /\ task[q].new \in Leaf /\ Added(task[q].new, FALSE, task[q].final, NoTag)
                 /\ Moved(q, "drop")
        <5>1. \A r \in Process \ {q} : task'[r] = task[r]
          BY <4>2 DEF Moved
        <5> QED BY <2>c, <4>1, <4>2, <5>1
      <4>3. CASE /\ task[q].new \notin Leaf /\ UNCHANGED tree
                 /\ Left(q, {"idle", "winner", "rejected", "read", "leaves"})
        BY <2>l, <4>3, SameLive, OwnedStep DEF Left
      <4> QED BY <3>5, <4>2, <4>3, WriteAttachmentType
    <3>6. CASE DropLoser(q)
      <4>1. task[q].at \notin Owner
        BY <3>6, DropLoserType DEF Owner
      <4>2. CASE UNCHANGED tree /\ Left(q, {"idle", "winner", "rejected", "read", "leaves"})
        BY <2>s, <4>1, <4>2 DEF Left
      <4>3. CASE \E n \in task[q].losers :
                   /\ n \in Leaf /\ Added(n, TRUE, Missing, NoTag)
                   /\ \/ Left(q, {"idle", "winner", "rejected"})
                      \/ Moved(q, "drop") /\ task'[q].losers = task[q].losers \ {n}
        <5>1. PICK n \in task[q].losers : n \in Leaf /\ Added(n, TRUE, Missing, NoTag)
          BY <4>3
        <5>2. \A r \in Process \ {q} : task'[r] = task[r]
          BY <4>3 DEF Moved, Left
        <5> QED BY <2>d, <4>1, <5>1, <5>2
      <4> QED BY <3>6, <4>2, <4>3, DropLoserType
    <3> QED BY <2>3, <3>1, <3>2, <3>3, <3>4, <3>5, <3>6 DEF Resolve
  <2>4. CASE Poll
    <3>1. task[Watcher].at \notin Owner
      BY <2>4, PollType DEF Owner
    <3> QED BY <2>s, <2>4, <3>1, PollType, DeviceIsProcess DEF Moved
  <2>5. ~Crash /\ \A q \in Process : ~CouchFails(q)
    BY CrashType, CouchFailsType
  <2>6. CASE UNCHANGED vars
    BY <2>6, SameLive DEF Owned, vars
  <2> QED
    BY <2>1, <2>2, <2>3, <2>4, <2>5, <2>6 DEF Next
<1> QED
  BY <1>1, <1>2, TypeInductive, PTL DEF Spec

\* If CouchDB answers every request (be it with a conflict) and the hub does not crash,
\* GET /file can serve the winner whenever the hub is at rest:
\* whatever pushes, resolutions and polls interleave, put_doc's body without an attachment
\* is never left on top (push.rs, apply_plan).
THEOREM RestIsReadable ==
  ASSUME MaxFaults = 0
  PROVE  Spec => []WinnerReadable
<1>1. TypeInv /\ Owned => WinnerReadable
  <2> SUFFICES ASSUME TypeInv, Owned, Quiet, Found PROVE tree[Winner].content # Missing
    BY DEF WinnerReadable
  <2>1. Winner \in Live
    BY WinnerIsLeaf DEF TypeInv
  <2>2. \A q \in Process : task[q].at \notin Owner
    BY DEF Quiet, Running, Owner
  <2> QED BY <2>1, <2>2 DEF Owned
<1> QED
  BY <1>1, TypeInductive, OwnedInductive, PTL
=============================================================================
