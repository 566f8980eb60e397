------------------------- MODULE WorkflowRunProofs -------------------------
(***************************************************************************)
(* The safety of a tree of workflow runs, for any plans, coordinators,     *)
(* crashes and expiries: rows belong to rows, what has settled stays, and  *)
(* a map that waits stays within its concurrency.                          *)
(* The coordinator's pass over nodes and members is a recursive function;  *)
(* what it computes is shown by induction on its argument.                 *)
(***************************************************************************)
EXTENDS WorkflowRun, SequenceTheorems, FiniteSetTheorems, WellFoundedInduction, TLAPS

-----------------------------------------------------------------------------
(* Induction over the naturals.                                            *)

\* Every set of naturals has a least member.
LEMMA LeastNatural ==
    ASSUME NEW T, T \subseteq Nat, T # {} PROVE \E m \in T : \A k \in T : m <= k
  <1> DEFINE R == OpToRel(<, Nat)
  <1>1. IsWellFoundedOn(R, Nat)
    BY NatLessThanWellFounded, Zenon
  <1>2. PICK x \in T : \A y \in T : ~(<<y, x>> \in R)
    <2> HIDE DEF R
    <2> QED BY <1>1, WFMin
  <1>3. \A y \in T : ~(y < x)
    BY <1>2, Zenon DEF OpToRel
  <1> QED BY <1>3

\* A set with 0 and all successors has every natural.
LEMMA InductionOnSets ==
    ASSUME NEW S, 0 \in S, \A n \in Nat : n \in S => n + 1 \in S PROVE \A n \in Nat : n \in S
  <1> SUFFICES ASSUME NEW b \in Nat, b \notin S PROVE FALSE
    OBVIOUS
  <1> DEFINE T == {n \in Nat : n \notin S}
  <1>1. PICK m \in T : \A k \in T : m <= k
    <2>1. T \subseteq Nat /\ T # {}
      OBVIOUS
    <2> HIDE DEF T
    <2> QED BY <2>1, LeastNatural
  <1>2. m # 0 /\ m - 1 \in Nat
    OBVIOUS
  <1>3. m - 1 \notin T
    BY <1>1, <1>2
  <1> QED BY <1>1, <1>2, <1>3

-----------------------------------------------------------------------------
(* Plans and the names of runs.                                            *)

RunNames == Seq(Nat \X Nat)

\* What a node of any run declares.
NodeOk(node) ==
    /\ node.members \in Seq({"activity", "task", "workflow"})
    /\ node.kind \in {"$task", "activity", "task", "workflow", "branch", "parallel", "map"}
    /\ node.kind \notin {"branch", "parallel", "map"} => Len(node.members) = 1
    /\ node.kind = "map" => /\ \A i \in DOMAIN node.members : node.members[i] # "activity"
                            /\ node.mode \in {"wait-all", "wait-settled", "start-only"}
                            /\ node.limit \in Nat \ {0}

\* The plan of a task run.
LEMMA TaskPlanFacts ==
    Len(TaskPlan) = 1 /\ DOMAIN TaskPlan = {1} /\ TaskPlan[1].kind = "$task"
    /\ TaskPlan[1].members = <<"activity">> /\ NodeOk(TaskPlan[1])
  <1> DEFINE node == [kind |-> "$task", members |-> <<"activity">>]
  <1>1. TaskPlan = <<node>>
    BY DEF TaskPlan
  <1>2. node.kind = "$task" /\ node.members = <<"activity">>
    OBVIOUS
  <1> HIDE DEF node
  <1>3. Len(TaskPlan) = 1 /\ DOMAIN TaskPlan = {1} /\ TaskPlan[1] = node
    BY <1>1
  <1>4. <<"activity">> \in Seq({"activity", "task", "workflow"}) /\ Len(<<"activity">>) = 1
    OBVIOUS
  <1> QED BY <1>2, <1>3, <1>4 DEF NodeOk

\* Whatever run a plan is of, its nodes are what a plan may declare.
LEMMA PlanFacts ==
    ASSUME NEW p, PlanOk(p), NEW r
    PROVE  /\ Len(PlanOf(p, r)) \in Nat /\ DOMAIN PlanOf(p, r) = 1..Len(PlanOf(p, r))
           /\ \A n \in DOMAIN PlanOf(p, r) : NodeOk(PlanOf(p, r)[n])
  <1>1. ASSUME NEW q, PlanOk(q) PROVE Len(q) \in Nat /\ DOMAIN q = 1..Len(q) /\ \A n \in DOMAIN q : NodeOk(q[n])
    BY <1>1 DEF PlanOk, NodeOk
  <1>2. PlanOf(p, r) \in {p, TaskPlan, ChildPlan}
    BY DEF PlanOf
  <1>3. Len(TaskPlan) \in Nat /\ DOMAIN TaskPlan = 1..Len(TaskPlan) /\ \A n \in DOMAIN TaskPlan : NodeOk(TaskPlan[n])
    BY TaskPlanFacts
  <1> QED BY <1>1, <1>2, <1>3, ChildPlanAssumption

\* The name of a child run has one step more, and says whose child it is.
LEMMA ChildRunNames ==
    ASSUME NEW r \in RunNames, NEW n \in Nat, NEW i \in Nat
    PROVE  /\ ChildRun(<<r, n, i>>) \in RunNames /\ ChildRun(<<r, n, i>>) # <<>>
           /\ Front(ChildRun(<<r, n, i>>)) = r /\ Last(ChildRun(<<r, n, i>>)) = <<n, i>>
           /\ KidOf(ChildRun(<<r, n, i>>)) = <<r, n, i>>
  <1> DEFINE c == Append(r, <<n, i>>)
  <1>1. <<n, i>> \in Nat \X Nat
    OBVIOUS
  <1>2. c \in RunNames /\ Len(c) = Len(r) + 1 /\ c[Len(r) + 1] = <<n, i>> /\ \A j \in 1..Len(r) : c[j] = r[j]
    BY <1>1 DEF RunNames
  <1>3. ChildRun(<<r, n, i>>) = c
    BY DEF ChildRun
  <1>4. Len(r) \in Nat /\ c # <<>>
    <2>1. Len(r) \in Nat
      BY DEF RunNames
    <2>2. Len(c) # 0
      BY <1>2, <2>1
    <2> QED BY <2>1, <2>2
  <1>5. Front(c) = r
    BY <1>2, <1>4 DEF Front, RunNames
  <1>6. Last(c) = <<n, i>>
    BY <1>2, <1>4 DEF Last, RunNames
  <1>7. KidOf(c) = <<r, n, i>>
    BY <1>5, <1>6 DEF KidOf
  <1> HIDE DEF c
  <1> QED BY <1>2, <1>3, <1>4, <1>5, <1>6, <1>7

\* The kind of a child run is what the plan of its parent says.
LEMMA KindOfChildRun ==
    ASSUME NEW p, PlanOk(p), NEW r \in RunNames, NEW n \in DOMAIN PlanOf(p, r),
           NEW i \in DOMAIN PlanOf(p, r)[n].members, PlanOf(p, r)[n].members[i] # "activity"
    PROVE  /\ KindOfRun(p, ChildRun(<<r, n, i>>)) = PlanOf(p, r)[n].members[i]
           /\ PlanOf(p, r)[n].members[i] \in {"task", "workflow"}
  <1> DEFINE c == ChildRun(<<r, n, i>>)
  <1>1. n \in Nat /\ i \in Nat /\ PlanOf(p, r)[n].members[i] \in {"task", "workflow"}
    BY PlanFacts DEF NodeOk
  <1>2. PlanOf(p, r) # TaskPlan
    BY TaskPlanFacts
  <1>3. PlanOf(p, r) = IF r = <<>> THEN p ELSE ChildPlan
    BY <1>2 DEF PlanOf
  <1>4. c # <<>> /\ Last(c) = <<n, i>> /\ c \in RunNames /\ Len(c) = Len(r) + 1 /\ Len(r) \in Nat
    <2>1. c = Append(r, <<n, i>>)
      BY DEF ChildRun
    <2>2. Len(Append(r, <<n, i>>)) = Len(r) + 1 /\ Len(r) \in Nat
      BY <1>1 DEF RunNames
    <2> QED BY <1>1, <2>1, <2>2, ChildRunNames
  <1>5. CASE r = <<>>
    <2>1. Len(c) = 1 /\ c[1] = <<n, i>>
      BY <1>4, <1>5 DEF Last
    <2> QED BY <1>1, <1>3, <1>4, <1>5, <2>1 DEF KindOfRun
  <1>6. CASE r # <<>>
    <2>1. Len(c) # 1
      BY <1>4, <1>6 DEF RunNames
    <2> QED BY <1>1, <1>3, <1>4, <1>6, <2>1 DEF KindOfRun
  <1> QED BY <1>5, <1>6

-----------------------------------------------------------------------------
(* What is true of the rows, committed or being written.                   *)

IsDb(d) == d = [runs |-> d.runs, nodes |-> d.nodes, kids |-> d.kids, queue |-> d.queue,
                cmds |-> d.cmds, thrown |-> d.thrown]

\* A child run is that of a child.
RunsOk(p, d) ==
    /\ Root \in DOMAIN d.runs
    /\ \A r \in DOMAIN d.runs :
        /\ r \in RunNames /\ d.runs[r] \in RunStatus /\ KindOfRun(p, r) \in {"task", "workflow"}
        /\ r # Root => KidOf(r) \in DOMAIN d.kids

NodeRow == [status : NodeStatus, selected : Nat]

\* The nodes of a run are nodes of its plan.
NodesOk(p, d) ==
    \A x \in DOMAIN d.nodes :
        /\ x = <<x[1], x[2]>> /\ x[1] \in DOMAIN d.runs /\ x[2] \in DOMAIN PlanOf(p, x[1])
        /\ d.nodes[x] \in NodeRow
        /\ d.nodes[x].selected \in {0} \cup DOMAIN PlanOf(p, x[1])[x[2]].members

\* The children a node has once it has any.
ChildrenOf(p, d, r, n) ==
    IF PlanOf(p, r)[n].kind = "branch" THEN {d.nodes[<<r, n>>].selected}
    ELSE DOMAIN PlanOf(p, r)[n].members

KidsOk(p, d) ==
    \A k \in DOMAIN d.kids :
        /\ k = <<k[1], k[2], k[3]>> /\ <<k[1], k[2]>> \in DOMAIN d.nodes
        /\ k[3] \in DOMAIN PlanOf(p, k[1])[k[2]].members
        /\ d.kids[k] \in KidRow
        /\ d.kids[k].linked <=> ChildRun(k) \in DOMAIN d.runs
        /\ \A i \in ChildrenOf(p, d, k[1], k[2]) : <<k[1], k[2], i>> \in DOMAIN d.kids

CmdsOk(d) == \A k \in DOMAIN d.cmds : k \in DOMAIN d.kids /\ d.kids[k].attempt # "none"

DbOk(p, d) ==
    /\ IsDb(d) /\ RunsOk(p, d) /\ NodesOk(p, d) /\ KidsOk(p, d) /\ CmdsOk(d)
    /\ d.queue \subseteq DOMAIN d.runs /\ d.thrown \in BOOLEAN

\* No row is lost, and none that has settled changes.
Later(d, e) ==
    /\ DOMAIN d.runs \subseteq DOMAIN e.runs
    /\ DOMAIN d.nodes \subseteq DOMAIN e.nodes
    /\ DOMAIN d.kids \subseteq DOMAIN e.kids
    /\ \A r \in DOMAIN d.runs : d.runs[r] \in Terminal => e.runs[r] = d.runs[r]
    /\ \A x \in DOMAIN d.nodes : d.nodes[x].status \in Terminal => e.nodes[x].status = d.nodes[x].status
    /\ \A k \in DOMAIN d.kids : d.kids[k].status \in Terminal => e.kids[k].status = d.kids[k].status

Becomes(p, d, e) == DbOk(p, e) /\ Later(d, e)

\* What a coordinator has read of the children of a node: a child run it has
\* seen exists.
ViewOk(p, d, r, n, v) ==
    \A i \in DOMAIN PlanOf(p, r)[n].members :
        /\ v[i].run \in RunStatus \cup {"none"}
        /\ v[i].run # "none" => ChildRun(<<r, n, i>>) \in DOMAIN d.runs

CoordOk(p, d, c) ==
    /\ c = [run |-> c.run, status |-> c.status, view |-> c.view, nodes |-> c.nodes]
    /\ c.run \in DOMAIN d.runs
    /\ LET n == FirstOpenNode(p, c.run, c.nodes)
       IN  c.view # None /\ n \in DOMAIN PlanOf(p, c.run) => ViewOk(p, d, c.run, n, c.view)

\* The activations of cancelRunTree over the runs R.
Frames(R) ==
    {f \in [run : R, pc : {"load", "request", "nodes", "children", "ask", "wake", "commands", "cancel"},
            kids : SUBSET R, kid : R \cup {None}] : f.pc \in {"ask", "wake"} => f.kid \in R}

SweepOk(d, s) ==
    /\ s = [why |-> s.why, run |-> s.run, kid |-> s.kid, pc |-> s.pc, kids |-> s.kids, stack |-> s.stack]
    /\ s.run \in DOMAIN d.runs /\ s.kids \subseteq DOMAIN d.runs
    /\ s.stack \in Seq(Frames(DOMAIN d.runs))

WfInv ==
    /\ PlanOk(plan)
    /\ DbOk(plan, db) /\ ~db.thrown
    /\ dead \cup expired \subseteq DOMAIN db.runs
    /\ DOMAIN coord = Coordinators
    /\ \A w \in Coordinators : coord[w] # None => CoordOk(plan, db, coord[w])
    /\ sweep # None => SweepOk(db, sweep)

\* Later composes.
LEMMA LaterTransitive ==
    ASSUME NEW d, NEW e, NEW f, Later(d, e), Later(e, f) PROVE Later(d, f)
  <1>1. \A r \in DOMAIN d.runs : d.runs[r] \in Terminal => f.runs[r] = d.runs[r]
    BY DEF Later
  <1>2. \A x \in DOMAIN d.nodes : d.nodes[x].status \in Terminal => f.nodes[x].status = d.nodes[x].status
    BY DEF Later
  <1>3. \A k \in DOMAIN d.kids : d.kids[k].status \in Terminal => f.kids[k].status = d.kids[k].status
    BY DEF Later
  <1> QED BY <1>1, <1>2, <1>3 DEF Later

\* To write nothing is sound.
LEMMA Stays == ASSUME NEW p, NEW d, DbOk(p, d) PROVE Becomes(p, d, d)
  BY DEF Becomes, Later

\* Sound writes compose.
LEMMA BecomesTransitive ==
    ASSUME NEW p, NEW d, NEW e, NEW f, Becomes(p, d, e), Becomes(p, e, f) PROVE Becomes(p, d, f)
  BY LaterTransitive DEF Becomes

\* What a view says of child runs stays true of later rows.
LEMMA ViewStays ==
    ASSUME NEW p, NEW d, NEW e, NEW r, NEW n, NEW v, ViewOk(p, d, r, n, v), Later(d, e)
    PROVE  ViewOk(p, e, r, n, v)
  BY DEF ViewOk, Later

(***************************************************************************)
(* An update of rows that are there: statuses move, attempts and commands  *)
(* come, links and selections stay.                                        *)
(***************************************************************************)
Updated(d, e) ==
    /\ IsDb(e)
    /\ DOMAIN e.runs = DOMAIN d.runs
    /\ \A r \in DOMAIN d.runs : e.runs[r] \in RunStatus /\ (d.runs[r] \in Terminal => e.runs[r] = d.runs[r])
    /\ DOMAIN e.nodes = DOMAIN d.nodes
    /\ \A x \in DOMAIN d.nodes :
        /\ e.nodes[x] \in NodeRow /\ e.nodes[x].selected = d.nodes[x].selected
        /\ d.nodes[x].status \in Terminal => e.nodes[x].status = d.nodes[x].status
    /\ DOMAIN e.kids = DOMAIN d.kids
    /\ \A k \in DOMAIN d.kids :
        /\ e.kids[k] \in KidRow /\ e.kids[k].linked = d.kids[k].linked
        /\ d.kids[k].attempt # "none" => e.kids[k].attempt # "none"
        /\ d.kids[k].status \in Terminal => e.kids[k].status = d.kids[k].status
    /\ \A k \in DOMAIN e.cmds : k \in DOMAIN d.cmds \/ (k \in DOMAIN d.kids /\ e.kids[k].attempt # "none")
    /\ e.queue \subseteq DOMAIN d.runs
    /\ e.thrown \in BOOLEAN

\* An update of existing rows keeps them in agreement.
LEMMA UpdateIsSound ==
    ASSUME NEW p, NEW d, DbOk(p, d), NEW e, Updated(d, e) PROVE Becomes(p, d, e)
  <1>1. RunsOk(p, e)
    BY DEF DbOk, RunsOk, Updated
  <1>2. NodesOk(p, e)
    BY DEF DbOk, NodesOk, Updated
  <1>3. KidsOk(p, e)
    <2> SUFFICES ASSUME NEW k \in DOMAIN e.kids
                 PROVE  /\ k = <<k[1], k[2], k[3]>> /\ <<k[1], k[2]>> \in DOMAIN e.nodes
                        /\ k[3] \in DOMAIN PlanOf(p, k[1])[k[2]].members
                        /\ e.kids[k] \in KidRow
                        /\ e.kids[k].linked <=> ChildRun(k) \in DOMAIN e.runs
                        /\ \A i \in ChildrenOf(p, e, k[1], k[2]) : <<k[1], k[2], i>> \in DOMAIN e.kids
      BY DEF KidsOk
    <2>1. k \in DOMAIN d.kids /\ <<k[1], k[2]>> \in DOMAIN d.nodes
      BY DEF DbOk, KidsOk, Updated
    <2>2. ChildrenOf(p, e, k[1], k[2]) = ChildrenOf(p, d, k[1], k[2])
      BY <2>1 DEF ChildrenOf, Updated
    <2> QED BY <2>1, <2>2 DEF DbOk, KidsOk, Updated
  <1>4. CmdsOk(e)
    BY DEF DbOk, CmdsOk, Updated
  <1>5. Later(d, e)
    BY DEF Later, Updated
  <1> QED BY <1>1, <1>2, <1>3, <1>4, <1>5 DEF DbOk, Becomes, Updated

\* The rows as they are, for the fields an update leaves alone.
LEMMA RowsAreTyped ==
    ASSUME NEW p, NEW d, DbOk(p, d)
    PROVE  /\ \A r \in DOMAIN d.runs : d.runs[r] \in RunStatus /\ r \in RunNames
           /\ \A x \in DOMAIN d.nodes : d.nodes[x] \in NodeRow
           /\ \A k \in DOMAIN d.kids : d.kids[k] \in KidRow
           /\ d.queue \subseteq DOMAIN d.runs /\ d.thrown \in BOOLEAN /\ IsDb(d)
  BY DEF DbOk, RunsOk, NodesOk, KidsOk

\* A continue is of a run.
LEMMA EnqueueIsSound ==
    ASSUME NEW p, NEW d, DbOk(p, d), NEW r \in DOMAIN d.runs PROVE Becomes(p, d, Enqueue(d, r))
  <1> DEFINE e == Enqueue(d, r)
  <1>1. IsDb(e) /\ e.runs = d.runs /\ e.nodes = d.nodes /\ e.kids = d.kids /\ e.cmds = d.cmds
        /\ e.thrown = d.thrown /\ e.queue = d.queue \cup {r}
    BY DEF DbOk, IsDb, Enqueue
  <1> HIDE DEF e
  <1>2. Updated(d, e)
    BY <1>1, RowsAreTyped DEF Updated
  <1> QED BY <1>2, UpdateIsSound DEF e

\* The parent of a run is a run.
LEMMA ParentIsRun ==
    ASSUME NEW p, NEW d, DbOk(p, d), NEW r \in DOMAIN d.runs, r # <<>> PROVE Front(r) \in DOMAIN d.runs
  <1> DEFINE k == KidOf(r)
  <1>1. k \in DOMAIN d.kids
    BY DEF DbOk, RunsOk, Root
  <1>2. <<k[1], k[2]>> \in DOMAIN d.nodes
    BY <1>1 DEF DbOk, KidsOk
  <1>3. k[1] \in DOMAIN d.runs
    <2> DEFINE x == <<k[1], k[2]>>
    <2>1. x[1] \in DOMAIN d.runs
      BY <1>2 DEF DbOk, NodesOk
    <2> QED BY <2>1
  <1>4. k[1] = Front(r)
    BY DEF KidOf
  <1> QED BY <1>3, <1>4

\* The continue of a parent is of a run.
LEMMA WakeIsSound ==
    ASSUME NEW p, NEW d, DbOk(p, d), NEW r \in DOMAIN d.runs PROVE Becomes(p, d, WakeParentRun(d, r))
  BY ParentIsRun, EnqueueIsSound, Stays DEF WakeParentRun

\* No transition leaves a terminal status.
LEMMA SourcesAreLive ==
    ASSUME NEW to \in {"running", "waiting", "cancelling", "completed", "failed", "cancelled"}
    PROVE  /\ RunSources(to) \subseteq RunStatus \ Terminal /\ to \in RunStatus
           /\ NodeSources(to) \subseteq NodeStatus \ Terminal /\ to \in NodeStatus
  BY DEF RunSources, NodeSources, RunStatus, NodeStatus, Terminal

Moves == {"running", "waiting", "cancelling", "completed", "failed", "cancelled"}

\* The guarded update of a run, also where it misses.
LEMMA SetRunIsSound ==
    ASSUME NEW p, NEW d, DbOk(p, d), NEW r, NEW to \in Moves PROVE Becomes(p, d, SetRun(d, r, to))
  <1> DEFINE e == [d EXCEPT !.runs[r] = to]
  <1>1. IsDb(e) /\ e.runs = [d.runs EXCEPT ![r] = to] /\ e.nodes = d.nodes /\ e.kids = d.kids
        /\ e.cmds = d.cmds /\ e.thrown = d.thrown /\ e.queue = d.queue
    BY DEF DbOk, IsDb
  <1> HIDE DEF e
  <1>2. CASE d.runs[r] \in RunSources(to)
    <2>1. d.runs[r] \notin Terminal /\ to \in RunStatus
      BY <1>2, SourcesAreLive DEF Moves
    <2>2. Updated(d, e)
      BY <1>1, <2>1, RowsAreTyped DEF Updated
    <2> QED BY <1>2, <2>2, UpdateIsSound DEF SetRun, e
  <1>3. CASE d.runs[r] \notin RunSources(to)
    BY <1>3, Stays DEF SetRun
  <1> QED BY <1>2, <1>3

\* The guarded update of a node, also where it misses.
LEMMA SetNodeIsSound ==
    ASSUME NEW p, NEW d, DbOk(p, d), NEW r, NEW n, NEW to \in Moves
    PROVE  Becomes(p, d, SetNode(d, r, n, to))
  <1> DEFINE y == <<r, n>>
  <1> DEFINE e == [d EXCEPT !.nodes[y].status = to]
  <1>1. IsDb(e) /\ e.nodes = [d.nodes EXCEPT ![y].status = to] /\ e.runs = d.runs /\ e.kids = d.kids
        /\ e.cmds = d.cmds /\ e.thrown = d.thrown /\ e.queue = d.queue
    BY DEF DbOk, IsDb
  <1> HIDE DEF e, y
  <1>2. CASE d.nodes[y].status \in NodeSources(to)
    <2>1. d.nodes[y].status \notin Terminal /\ to \in NodeStatus
      BY <1>2, SourcesAreLive DEF Moves
    <2>2. \A x \in DOMAIN d.nodes :
            /\ e.nodes[x] \in NodeRow /\ e.nodes[x].selected = d.nodes[x].selected
            /\ d.nodes[x].status \in Terminal => e.nodes[x].status = d.nodes[x].status
      <3> SUFFICES ASSUME NEW x \in DOMAIN d.nodes
                   PROVE  /\ e.nodes[x] \in NodeRow /\ e.nodes[x].selected = d.nodes[x].selected
                          /\ d.nodes[x].status \in Terminal => e.nodes[x].status = d.nodes[x].status
        OBVIOUS
      <3>1. d.nodes[x] \in NodeRow
        BY RowsAreTyped
      <3> QED BY <1>1, <2>1, <3>1 DEF NodeRow
    <2>3. Updated(d, e)
      BY <1>1, <2>2, RowsAreTyped DEF Updated
    <2> QED BY <1>2, <2>3, UpdateIsSound DEF SetNode, e, y
  <1>3. CASE d.nodes[y].status \notin NodeSources(to)
    BY <1>3, Stays DEF SetNode, y
  <1> QED BY <1>2, <1>3

\* The guarded update of a child, also where it misses.
LEMMA SetKidIsSound ==
    ASSUME NEW p, NEW d, DbOk(p, d), NEW k, NEW to \in Moves PROVE Becomes(p, d, SetKid(d, k, to))
  <1> DEFINE e == [d EXCEPT !.kids[k].status = to]
  <1>1. IsDb(e) /\ e.kids = [d.kids EXCEPT ![k].status = to] /\ e.runs = d.runs /\ e.nodes = d.nodes
        /\ e.cmds = d.cmds /\ e.thrown = d.thrown /\ e.queue = d.queue
    BY DEF DbOk, IsDb
  <1> HIDE DEF e
  <1>2. CASE d.kids[k].status \in NodeSources(to)
    <2>1. d.kids[k].status \notin Terminal /\ to \in NodeStatus
      BY <1>2, SourcesAreLive DEF Moves
    <2>2. \A x \in DOMAIN d.kids :
            /\ e.kids[x] \in KidRow /\ e.kids[x].linked = d.kids[x].linked
            /\ e.kids[x].attempt = d.kids[x].attempt
            /\ d.kids[x].status \in Terminal => e.kids[x].status = d.kids[x].status
      <3> SUFFICES ASSUME NEW x \in DOMAIN d.kids
                   PROVE  /\ e.kids[x] \in KidRow /\ e.kids[x].linked = d.kids[x].linked
                          /\ e.kids[x].attempt = d.kids[x].attempt
                          /\ d.kids[x].status \in Terminal => e.kids[x].status = d.kids[x].status
        OBVIOUS
      <3>1. d.kids[x] \in KidRow
        BY RowsAreTyped
      <3> QED BY <1>1, <2>1, <3>1 DEF KidRow
    <2>3. Updated(d, e)
      BY <1>1, <2>2, RowsAreTyped DEF Updated
    <2> QED BY <1>2, <2>3, UpdateIsSound DEF SetKid, e
  <1>3. CASE d.kids[k].status \notin NodeSources(to)
    BY <1>3, Stays DEF SetKid
  <1> QED BY <1>2, <1>3

-----------------------------------------------------------------------------
(* Rows that are added.                                                    *)

\* createNode inserts a node of the plan, once.
LEMMA CreateNodeIsSound ==
    ASSUME NEW p, PlanOk(p), NEW d, DbOk(p, d), NEW r \in DOMAIN d.runs, NEW n \in DOMAIN PlanOf(p, r)
    PROVE  /\ Becomes(p, d, CreateNode(d, r, n)) /\ <<r, n>> \in DOMAIN CreateNode(d, r, n).nodes
           /\ CreateNode(d, r, n).runs = d.runs
  <1> DEFINE y == <<r, n>>
  <1> DEFINE new == [status |-> "pending", selected |-> 0]
  <1> DEFINE e == [d EXCEPT !.nodes = WithRows(@, {y}, new)]
  <1>1. CASE y \in DOMAIN d.nodes
    BY <1>1, Stays DEF CreateNode
  <1>2. CASE y \notin DOMAIN d.nodes
    <2>1. IsDb(e) /\ e.nodes = WithRows(d.nodes, {y}, new) /\ e.runs = d.runs /\ e.kids = d.kids
          /\ e.cmds = d.cmds /\ e.thrown = d.thrown /\ e.queue = d.queue
      BY DEF DbOk, IsDb
    <2>2. CreateNode(d, r, n) = e
      BY <1>2 DEF CreateNode
    <2>3. new \in NodeRow /\ new.selected = 0
      BY DEF NodeRow, NodeStatus
    <2>4. y = <<y[1], y[2]>> /\ y[1] = r /\ y[2] = n
      OBVIOUS
    <2> HIDE DEF e, new, y
    <2>5. DOMAIN e.nodes = DOMAIN d.nodes \cup {y} /\ e.nodes[y] = new
          /\ \A x \in DOMAIN d.nodes : e.nodes[x] = d.nodes[x]
      BY <1>2, <2>1 DEF WithRows
    <2>6. RunsOk(p, e) /\ CmdsOk(e)
      BY <2>1 DEF DbOk, RunsOk, CmdsOk
    <2>7. NodesOk(p, e)
      <3> SUFFICES ASSUME NEW x \in DOMAIN e.nodes
                   PROVE  /\ x = <<x[1], x[2]>> /\ x[1] \in DOMAIN e.runs /\ x[2] \in DOMAIN PlanOf(p, x[1])
                          /\ e.nodes[x] \in NodeRow
                          /\ e.nodes[x].selected \in {0} \cup DOMAIN PlanOf(p, x[1])[x[2]].members
        BY DEF NodesOk
      <3>1. CASE x = y
        BY <2>1, <2>3, <2>4, <2>5, <3>1
      <3>2. CASE x \in DOMAIN d.nodes
        BY <2>1, <2>5, <3>2 DEF DbOk, NodesOk
      <3> QED BY <2>5, <3>1, <3>2
    <2>8. KidsOk(p, e)
      <3> SUFFICES ASSUME NEW k \in DOMAIN d.kids
                   PROVE  /\ <<k[1], k[2]>> \in DOMAIN e.nodes
                          /\ \A i \in ChildrenOf(p, e, k[1], k[2]) : <<k[1], k[2], i>> \in DOMAIN e.kids
        BY <2>1 DEF KidsOk, DbOk
      <3>1. <<k[1], k[2]>> \in DOMAIN d.nodes
            /\ \A i \in ChildrenOf(p, d, k[1], k[2]) : <<k[1], k[2], i>> \in DOMAIN d.kids
        BY DEF DbOk, KidsOk
      <3>2. ChildrenOf(p, e, k[1], k[2]) = ChildrenOf(p, d, k[1], k[2])
        BY <2>5, <3>1 DEF ChildrenOf
      <3> QED BY <2>1, <2>5, <3>1, <3>2
    <2>9. Later(d, e)
      BY <2>1, <2>5 DEF Later
    <2>10. DbOk(p, e)
      BY <2>1, <2>6, <2>7, <2>8 DEF DbOk
    <2> QED BY <2>1, <2>2, <2>5, <2>9, <2>10 DEF Becomes, y
  <1> QED BY <1>1, <1>2

\* The children of a node are created together: a node that has any has all.
LEMMA EnsureNodeChildrenIsSound ==
    ASSUME NEW p, PlanOk(p), NEW d, DbOk(p, d), NEW r, NEW n, <<r, n>> \in DOMAIN d.nodes,
           NEW I, I = ChildrenOf(p, d, r, n), I \subseteq DOMAIN PlanOf(p, r)[n].members
    PROVE  /\ Becomes(p, d, EnsureNodeChildren(d, r, n, I))
           /\ \A i \in I : <<r, n, i>> \in DOMAIN EnsureNodeChildren(d, r, n, I).kids
           /\ EnsureNodeChildren(d, r, n, I).runs = d.runs
           /\ EnsureNodeChildren(d, r, n, I).nodes = d.nodes
  <1> DEFINE new == [status |-> "pending", linked |-> FALSE, attempt |-> "none"]
  <1> DEFINE K == {<<r, n, i>> : i \in I}
  <1> DEFINE e == [d EXCEPT !.kids = WithRows(@, K, new)]
  <1>0. r \in DOMAIN d.runs /\ r \in RunNames /\ n \in DOMAIN PlanOf(p, r) /\ n \in Nat
    <2> DEFINE x == <<r, n>>
    <2>1. x[1] \in DOMAIN d.runs /\ x[2] \in DOMAIN PlanOf(p, x[1])
      BY DEF DbOk, NodesOk
    <2>2. r \in DOMAIN d.runs /\ n \in DOMAIN PlanOf(p, r)
      BY <2>1
    <2> QED BY <2>2, PlanFacts, RowsAreTyped
  <1>1. CASE KidsOfNode(d, r, n) # {}
    <2>1. EnsureNodeChildren(d, r, n, I) = d
      BY <1>1 DEF EnsureNodeChildren
    <2>2. PICK k \in DOMAIN d.kids : k[1] = r /\ k[2] = n
      BY <1>1 DEF KidsOfNode, KidsOf
    <2>3. \A i \in I : <<r, n, i>> \in DOMAIN d.kids
      BY <2>2 DEF DbOk, KidsOk
    <2> QED BY <2>1, <2>3, Stays
  <1>2. CASE KidsOfNode(d, r, n) = {}
    <2>1. IsDb(e) /\ e.kids = WithRows(d.kids, K, new) /\ e.runs = d.runs /\ e.nodes = d.nodes
          /\ e.cmds = d.cmds /\ e.thrown = d.thrown /\ e.queue = d.queue
      BY DEF DbOk, IsDb
    <2>2. EnsureNodeChildren(d, r, n, I) = e
      BY <1>2 DEF EnsureNodeChildren
    <2>3. new \in KidRow /\ ~new.linked
      BY DEF KidRow, NodeStatus
    <2>4. \A k \in K : k[1] = r /\ k[2] = n /\ k[3] \in I /\ k = <<k[1], k[2], k[3]>>
      OBVIOUS
    <2>5. \A k \in DOMAIN d.kids : ~(k[1] = r /\ k[2] = n)
      BY <1>2 DEF KidsOfNode, KidsOf
    <2>6. \A i \in I : <<r, n, i>> \in K
      OBVIOUS
    <2>7. \A k \in K : ChildRun(k) \notin DOMAIN d.runs
      <3> SUFFICES ASSUME NEW i \in I, ChildRun(<<r, n, i>>) \in DOMAIN d.runs PROVE FALSE
        OBVIOUS
      <3> DEFINE c == ChildRun(<<r, n, i>>)
      <3>1. i \in Nat
        BY <1>0, PlanFacts DEF NodeOk
      <3>2. c # <<>> /\ KidOf(c) = <<r, n, i>>
        BY <1>0, <3>1, ChildRunNames
      <3>3. <<r, n, i>> \in DOMAIN d.kids
        BY <3>2 DEF DbOk, RunsOk, Root
      <3> QED BY <2>5, <3>3
    <2> HIDE DEF e, new, K
    <2>8. DOMAIN e.kids = DOMAIN d.kids \cup K /\ (\A k \in K : e.kids[k] = new)
          /\ \A k \in DOMAIN d.kids : k \notin K /\ e.kids[k] = d.kids[k]
      BY <2>1, <2>4, <2>5 DEF WithRows
    <2>9. RunsOk(p, e)
      BY <2>1, <2>8 DEF DbOk, RunsOk
    <2>10. NodesOk(p, e)
      BY <2>1 DEF DbOk, NodesOk
    <2>11. KidsOk(p, e)
      <3> SUFFICES ASSUME NEW k \in DOMAIN e.kids
                   PROVE  /\ k = <<k[1], k[2], k[3]>> /\ <<k[1], k[2]>> \in DOMAIN e.nodes
                          /\ k[3] \in DOMAIN PlanOf(p, k[1])[k[2]].members
                          /\ e.kids[k] \in KidRow
                          /\ e.kids[k].linked <=> ChildRun(k) \in DOMAIN e.runs
                          /\ \A i \in ChildrenOf(p, e, k[1], k[2]) : <<k[1], k[2], i>> \in DOMAIN e.kids
        BY DEF KidsOk
      <3>1. ChildrenOf(p, e, k[1], k[2]) = ChildrenOf(p, d, k[1], k[2])
        BY <2>1 DEF ChildrenOf
      <3>2. CASE k \in K
        BY <2>1, <2>3, <2>4, <2>6, <2>7, <2>8, <3>1, <3>2
      <3>3. CASE k \in DOMAIN d.kids
        BY <2>1, <2>8, <3>1, <3>3 DEF DbOk, KidsOk
      <3> QED BY <2>8, <3>2, <3>3
    <2>12. CmdsOk(e)
      BY <2>1, <2>8 DEF DbOk, CmdsOk
    <2>13. Later(d, e)
      BY <2>1, <2>8 DEF Later
    <2>14. DbOk(p, e)
      BY <2>1, <2>9, <2>10, <2>11, <2>12 DEF DbOk
    <2> QED BY <2>1, <2>2, <2>6, <2>8, <2>13, <2>14 DEF Becomes
  <1> QED BY <1>1, <1>2

\* A case is selected before the branch has a child.
LEMMA SelectNodeCaseIsSound ==
    ASSUME NEW p, PlanOk(p), NEW d, DbOk(p, d), NEW r, NEW n, <<r, n>> \in DOMAIN d.nodes,
           PlanOf(p, r)[n].kind = "branch", d.nodes[<<r, n>>].status \notin Terminal,
           NEW case \in DOMAIN PlanOf(p, r)[n].members, d.nodes[<<r, n>>].selected \in {0, case}
    PROVE  /\ Becomes(p, d, SelectNodeCase(d, r, n, case))
           /\ <<r, n>> \in DOMAIN SelectNodeCase(d, r, n, case).nodes
           /\ SelectNodeCase(d, r, n, case).nodes[<<r, n>>].selected = case
           /\ SelectNodeCase(d, r, n, case).runs = d.runs
  <1> DEFINE y == <<r, n>>
  <1> DEFINE e == [d EXCEPT !.nodes[y].selected = case]
  <1>0. case \in Nat \ {0} /\ 0 \notin DOMAIN PlanOf(p, r)[n].members
    <2> DEFINE x == <<r, n>>
    <2>1. x[2] \in DOMAIN PlanOf(p, x[1])
      BY DEF DbOk, NodesOk
    <2>2. n \in DOMAIN PlanOf(p, r)
      BY <2>1
    <2>3. NodeOk(PlanOf(p, r)[n])
      BY <2>2, PlanFacts
    <2> QED BY <2>3 DEF NodeOk
  <1>1. CASE d.nodes[y].selected # 0
    BY <1>0, <1>1, Stays DEF SelectNodeCase
  <1>2. CASE d.nodes[y].selected = 0
    <2>1. IsDb(e) /\ e.nodes = [d.nodes EXCEPT ![y].selected = case] /\ e.runs = d.runs /\ e.kids = d.kids
          /\ e.cmds = d.cmds /\ e.thrown = d.thrown /\ e.queue = d.queue
      BY DEF DbOk, IsDb
    <2>2. SelectNodeCase(d, r, n, case) = e
      BY <1>2 DEF SelectNodeCase
    <2>3. \A k \in DOMAIN d.kids : <<k[1], k[2]>> # y
      <3> SUFFICES ASSUME NEW k \in DOMAIN d.kids, k[1] = r, k[2] = n PROVE FALSE
        OBVIOUS
      <3>1. 0 \in ChildrenOf(p, d, r, n)
        BY <1>2 DEF ChildrenOf
      <3>2. <<r, n, 0>> \in DOMAIN d.kids
        BY <3>1 DEF DbOk, KidsOk
      <3> DEFINE z == <<r, n, 0>>
      <3>3. z[3] \in DOMAIN PlanOf(p, z[1])[z[2]].members
        BY <3>2 DEF DbOk, KidsOk
      <3> QED BY <1>0, <3>3
    <2>4. y[1] = r /\ y[2] = n
      OBVIOUS
    <2> HIDE DEF e, y
    <2>5. DOMAIN e.nodes = DOMAIN d.nodes /\ \A x \in DOMAIN d.nodes : x # y => e.nodes[x] = d.nodes[x]
      BY <2>1
    <2>6. y \in DOMAIN d.nodes /\ e.nodes[y] \in NodeRow /\ e.nodes[y].selected = case
          /\ e.nodes[y].status = d.nodes[y].status
      <3>1. y \in DOMAIN d.nodes /\ d.nodes[y] \in NodeRow
        BY RowsAreTyped DEF y
      <3> QED BY <1>0, <2>1, <3>1 DEF NodeRow
    <2>7. RunsOk(p, e) /\ CmdsOk(e)
      BY <2>1 DEF DbOk, RunsOk, CmdsOk
    <2>8. NodesOk(p, e)
      <3> SUFFICES ASSUME NEW x \in DOMAIN e.nodes
                   PROVE  /\ x = <<x[1], x[2]>> /\ x[1] \in DOMAIN e.runs /\ x[2] \in DOMAIN PlanOf(p, x[1])
                          /\ e.nodes[x] \in NodeRow
                          /\ e.nodes[x].selected \in {0} \cup DOMAIN PlanOf(p, x[1])[x[2]].members
        BY DEF NodesOk
      <3>1. /\ x = <<x[1], x[2]>> /\ x[1] \in DOMAIN d.runs /\ x[2] \in DOMAIN PlanOf(p, x[1])
            /\ d.nodes[x] \in NodeRow
            /\ d.nodes[x].selected \in {0} \cup DOMAIN PlanOf(p, x[1])[x[2]].members
        BY <2>5 DEF DbOk, NodesOk
      <3>2. CASE x = y
        BY <2>1, <2>4, <2>6, <3>1, <3>2
      <3>3. CASE x # y
        BY <2>1, <2>5, <3>1, <3>3
      <3> QED BY <3>2, <3>3
    <2>9. KidsOk(p, e)
      <3> SUFFICES ASSUME NEW k \in DOMAIN d.kids
                   PROVE  /\ <<k[1], k[2]>> \in DOMAIN e.nodes
                          /\ \A i \in ChildrenOf(p, e, k[1], k[2]) : <<k[1], k[2], i>> \in DOMAIN e.kids
        BY <2>1 DEF KidsOk, DbOk
      <3>1. <<k[1], k[2]>> \in DOMAIN d.nodes
            /\ \A i \in ChildrenOf(p, d, k[1], k[2]) : <<k[1], k[2], i>> \in DOMAIN d.kids
        BY DEF DbOk, KidsOk
      <3>2. ChildrenOf(p, e, k[1], k[2]) = ChildrenOf(p, d, k[1], k[2])
        BY <2>3, <2>5, <3>1 DEF ChildrenOf
      <3> QED BY <2>1, <2>5, <3>1, <3>2
    <2>10. Later(d, e)
      BY <2>1, <2>5, <2>6 DEF Later
    <2>11. DbOk(p, e)
      BY <2>1, <2>7, <2>8, <2>9 DEF DbOk
    <2> QED BY <2>1, <2>2, <2>6, <2>10, <2>11 DEF Becomes, y
  <1> QED BY <1>1, <1>2
-----------------------------------------------------------------------------
(* Starting work.                                                          *)

\* A pass that throws has written nothing wrong.
LEMMA ThrownIsSound ==
    ASSUME NEW p, NEW d, DbOk(p, d) PROVE Becomes(p, d, [d EXCEPT !.thrown = TRUE])
  <1>1. ASSUME NEW t \in BOOLEAN PROVE Becomes(p, d, [d EXCEPT !.thrown = t])
    <2> DEFINE e == [d EXCEPT !.thrown = t]
    <2>1. IsDb(e) /\ e.runs = d.runs /\ e.nodes = d.nodes /\ e.kids = d.kids
          /\ e.cmds = d.cmds /\ e.thrown = t /\ e.queue = d.queue
      BY DEF DbOk, IsDb
    <2> HIDE DEF e
    <2>2. Updated(d, e)
      BY <2>1, RowsAreTyped DEF Updated
    <2> QED BY <2>2, UpdateIsSound DEF e
  <1> QED BY <1>1

\* Where a child stands in the plan of its run.
LEMMA KidFacts ==
    ASSUME NEW p, PlanOk(p), NEW d, DbOk(p, d), NEW k \in DOMAIN d.kids
    PROVE  /\ k = <<k[1], k[2], k[3]>> /\ k[1] \in DOMAIN d.runs /\ k[1] \in RunNames
           /\ k[2] \in DOMAIN PlanOf(p, k[1]) /\ k[2] \in Nat
           /\ k[3] \in DOMAIN PlanOf(p, k[1])[k[2]].members /\ k[3] \in Nat
           /\ <<k[1], k[2]>> \in DOMAIN d.nodes /\ d.kids[k] \in KidRow
  <1> DEFINE x == <<k[1], k[2]>>
  <1>1. k = <<k[1], k[2], k[3]>> /\ x \in DOMAIN d.nodes /\ d.kids[k] \in KidRow
        /\ k[3] \in DOMAIN PlanOf(p, k[1])[k[2]].members
    BY DEF DbOk, KidsOk
  <1>2. x[1] \in DOMAIN d.runs /\ x[2] \in DOMAIN PlanOf(p, x[1])
    BY <1>1 DEF DbOk, NodesOk
  <1>3. k[1] \in DOMAIN d.runs /\ k[2] \in DOMAIN PlanOf(p, k[1])
    BY <1>2
  <1>4. NodeOk(PlanOf(p, k[1])[k[2]]) /\ k[2] \in Nat
    BY <1>3, PlanFacts
  <1>5. k[3] \in Nat
    BY <1>1, <1>4 DEF NodeOk
  <1> QED BY <1>1, <1>3, <1>4, <1>5, RowsAreTyped

\* A child run is created with its link, or not at all.
LEMMA EnsureChildRunIsSound ==
    ASSUME NEW p, PlanOk(p), NEW d, DbOk(p, d), NEW k \in DOMAIN d.kids,
           PlanOf(p, k[1])[k[2]].members[k[3]] # "activity"
    PROVE  /\ Becomes(p, d, EnsureChildRun(d, k))
           /\ EnsureChildRun(d, k).thrown \/ ChildRun(k) \in DOMAIN EnsureChildRun(d, k).runs
  <1> DEFINE row == [d.kids[k] EXCEPT !.linked = TRUE, !.status = "running"]
  <1> DEFINE c == ChildRun(k)
  <1> DEFINE e == [d EXCEPT !.runs = WithRows(@, {c}, "queued"), !.kids[k] = row]
  <1>0. k = <<k[1], k[2], k[3]>> /\ k[1] \in RunNames /\ k[2] \in DOMAIN PlanOf(p, k[1]) /\ k[2] \in Nat
        /\ k[3] \in DOMAIN PlanOf(p, k[1])[k[2]].members /\ k[3] \in Nat /\ d.kids[k] \in KidRow
    BY KidFacts
  <1>1. CASE d.kids[k].linked
    <2>1. c \in DOMAIN d.runs
      BY <1>1 DEF DbOk, KidsOk
    <2> QED BY <1>1, <2>1, Stays DEF EnsureChildRun
  <1>2. CASE ~d.kids[k].linked /\ d.kids[k].status \notin NodeSources("running") \cup {"running"}
    <2>1. EnsureChildRun(d, k) = [d EXCEPT !.thrown = TRUE]
      BY <1>2 DEF EnsureChildRun
    <2>2. [d EXCEPT !.thrown = TRUE].thrown
      BY DEF DbOk, IsDb
    <2> QED BY <2>1, <2>2, ThrownIsSound
  <1>3. CASE ~d.kids[k].linked /\ d.kids[k].status \in NodeSources("running") \cup {"running"}
    <2>1. IsDb(e) /\ e.runs = WithRows(d.runs, {c}, "queued") /\ e.nodes = d.nodes
          /\ e.kids = [d.kids EXCEPT ![k] = row]
          /\ e.cmds = d.cmds /\ e.thrown = d.thrown /\ e.queue = d.queue
      <3> DEFINE R == WithRows(d.runs, {c}, "queued")
      <3> DEFINE K == [d.kids EXCEPT ![k] = row]
      <3> HIDE DEF row, c
      <3>1. e = [d EXCEPT !.runs = R, !.kids = K]
        OBVIOUS
      <3> HIDE DEF e, R, K
      <3>2. e = [runs |-> R, nodes |-> d.nodes, kids |-> K, queue |-> d.queue,
                 cmds |-> d.cmds, thrown |-> d.thrown]
        BY <3>1 DEF DbOk, IsDb
      <3>3. IsDb(e) /\ e.runs = R /\ e.kids = K /\ e.nodes = d.nodes
            /\ e.cmds = d.cmds /\ e.thrown = d.thrown /\ e.queue = d.queue
        BY <3>2 DEF IsDb
      <3> QED BY <3>3 DEF R, K
    <2>2. EnsureChildRun(d, k) = e
      BY <1>3 DEF EnsureChildRun
    <2>3. row \in KidRow /\ row.linked /\ row.status = "running" /\ row.attempt = d.kids[k].attempt
      BY <1>0 DEF KidRow, NodeStatus
    <2>4. d.kids[k].status \notin Terminal
      BY <1>3 DEF NodeSources, Terminal
    <2>5. c \notin DOMAIN d.runs
      BY <1>3 DEF DbOk, KidsOk
    <2>6. c \in RunNames /\ c # Root /\ KidOf(c) = k
      BY <1>0, ChildRunNames DEF Root
    <2>7. KindOfRun(p, c) \in {"task", "workflow"}
      BY <1>0, KindOfChildRun
    <2>12. \A j \in DOMAIN d.kids : ChildRun(j) = c => j = k
      <3> SUFFICES ASSUME NEW j \in DOMAIN d.kids, ChildRun(j) = c PROVE j = k
        OBVIOUS
      <3>1. j = <<j[1], j[2], j[3]>> /\ j[1] \in RunNames /\ j[2] \in Nat /\ j[3] \in Nat
        BY KidFacts
      <3>2. KidOf(ChildRun(j)) = j
        BY <3>1, ChildRunNames
      <3> QED BY <2>6, <3>2
    <2> HIDE DEF e, row, c
    <2>8. DOMAIN e.runs = DOMAIN d.runs \cup {c} /\ e.runs[c] = "queued"
          /\ \A r \in DOMAIN d.runs : e.runs[r] = d.runs[r]
      BY <2>1, <2>5 DEF WithRows
    <2>9. DOMAIN e.kids = DOMAIN d.kids /\ e.kids[k] = row
          /\ \A j \in DOMAIN d.kids : j # k => e.kids[j] = d.kids[j]
      BY <2>1
    <2>10. RunsOk(p, e)
      BY <2>6, <2>7, <2>8, <2>9 DEF DbOk, RunsOk, RunStatus
    <2>11. NodesOk(p, e)
      BY <2>1, <2>8 DEF DbOk, NodesOk
    <2>13. KidsOk(p, e)
      <3> SUFFICES ASSUME NEW j \in DOMAIN e.kids
                   PROVE  /\ j = <<j[1], j[2], j[3]>> /\ <<j[1], j[2]>> \in DOMAIN e.nodes
                          /\ j[3] \in DOMAIN PlanOf(p, j[1])[j[2]].members
                          /\ e.kids[j] \in KidRow
                          /\ e.kids[j].linked <=> ChildRun(j) \in DOMAIN e.runs
                          /\ \A i \in ChildrenOf(p, e, j[1], j[2]) : <<j[1], j[2], i>> \in DOMAIN e.kids
        BY DEF KidsOk
      <3>1. ChildrenOf(p, e, j[1], j[2]) = ChildrenOf(p, d, j[1], j[2])
        BY <2>1 DEF ChildrenOf
      <3>2. /\ j = <<j[1], j[2], j[3]>> /\ <<j[1], j[2]>> \in DOMAIN d.nodes
            /\ j[3] \in DOMAIN PlanOf(p, j[1])[j[2]].members
            /\ d.kids[j] \in KidRow
            /\ d.kids[j].linked <=> ChildRun(j) \in DOMAIN d.runs
            /\ \A i \in ChildrenOf(p, d, j[1], j[2]) : <<j[1], j[2], i>> \in DOMAIN d.kids
        BY <2>9 DEF DbOk, KidsOk
      <3>3. e.kids[j] \in KidRow /\ (e.kids[j].linked <=> ChildRun(j) \in DOMAIN e.runs)
        <4>1. CASE j = k
          BY <2>3, <2>8, <2>9, <4>1 DEF c
        <4>2. CASE j # k
          BY <2>8, <2>9, <2>12, <3>2, <4>2
        <4> QED BY <4>1, <4>2
      <3> QED BY <2>1, <2>9, <3>1, <3>2, <3>3
    <2>14. CmdsOk(e)
      BY <2>1, <2>3, <2>9 DEF DbOk, CmdsOk
    <2>15. Later(d, e)
      BY <2>1, <2>4, <2>8, <2>9 DEF Later
    <2>16. DbOk(p, e)
      BY <2>1, <2>8, <2>10, <2>11, <2>13, <2>14 DEF DbOk
    <2> QED BY <2>2, <2>8, <2>15, <2>16 DEF Becomes, c
  <1> QED BY <1>1, <1>2, <1>3

\* A command is that of an attempt that has started.
LEMMA DispatchAttemptIsSound ==
    ASSUME NEW p, NEW d, DbOk(p, d), NEW k \in DOMAIN d.kids PROVE Becomes(p, d, DispatchAttempt(d, k))
  <1> DEFINE dispatched(f) == IF k \in DOMAIN f.cmds THEN f
                              ELSE [f EXCEPT !.cmds = WithRows(@, {k}, "queued")]
  <1>1. ASSUME NEW f, DbOk(p, f), k \in DOMAIN f.kids, f.kids[k].attempt # "none"
        PROVE  Becomes(p, f, dispatched(f))
    <2> DEFINE e == [f EXCEPT !.cmds = WithRows(@, {k}, "queued")]
    <2>1. IsDb(e) /\ e.runs = f.runs /\ e.nodes = f.nodes /\ e.kids = f.kids
          /\ e.cmds = WithRows(f.cmds, {k}, "queued") /\ e.thrown = f.thrown /\ e.queue = f.queue
      BY <1>1 DEF DbOk, IsDb
    <2> HIDE DEF e
    <2>2. DOMAIN e.cmds = DOMAIN f.cmds \cup {k}
      BY <2>1 DEF WithRows
    <2>3. Updated(f, e)
      BY <1>1, <2>1, <2>2, RowsAreTyped DEF Updated
    <2>4. Becomes(p, f, e)
      BY <1>1, <2>3, UpdateIsSound
    <2> QED BY <1>1, <2>4, Stays DEF e
  <1> DEFINE row == [d.kids[k] EXCEPT !.attempt = "started", !.status = "running"]
  <1> DEFINE e == [d EXCEPT !.kids[k] = [@ EXCEPT !.attempt = "started", !.status = "running"]]
  <1>2. CASE d.kids[k].attempt = "started"
    <2>1. DispatchAttempt(d, k) = dispatched(d)
      BY <1>2 DEF DispatchAttempt
    <2> QED BY <1>1, <1>2, <2>1
  <1>3. CASE d.kids[k].attempt \notin {"none", "started"}
    BY <1>3, Stays DEF DispatchAttempt
  <1>4. CASE d.kids[k].attempt = "none" /\ d.kids[k].status \notin NodeSources("running") \cup {"running"}
    BY <1>4, ThrownIsSound DEF DispatchAttempt
  <1>5. CASE d.kids[k].attempt = "none" /\ d.kids[k].status \in NodeSources("running") \cup {"running"}
    <2>1. DispatchAttempt(d, k) = dispatched(SetNode(e, k[1], k[2], "running"))
      BY <1>5 DEF DispatchAttempt
    <2>2. IsDb(e) /\ e.runs = d.runs /\ e.nodes = d.nodes /\ e.kids = [d.kids EXCEPT ![k] = row]
          /\ e.cmds = d.cmds /\ e.thrown = d.thrown /\ e.queue = d.queue
      BY DEF DbOk, IsDb
    <2>3. row \in KidRow /\ row.linked = d.kids[k].linked /\ row.attempt = "started"
      <3>1. d.kids[k] \in KidRow
        BY RowsAreTyped
      <3> QED BY <3>1 DEF KidRow, NodeStatus
    <2>4. d.kids[k].status \notin Terminal
      BY <1>5 DEF NodeSources, Terminal
    <2> HIDE DEF e, row
    <2>5. Updated(d, e)
      BY <2>2, <2>3, <2>4, RowsAreTyped DEF Updated
    <2>6. Becomes(p, d, e)
      BY <2>5, UpdateIsSound
    <2> DEFINE f == SetNode(e, k[1], k[2], "running")
    <2>7. Becomes(p, e, f)
      BY <2>6, SetNodeIsSound DEF Becomes, Moves
    <2>8. f.kids = e.kids
      BY <2>6 DEF SetNode, Becomes, DbOk, IsDb
    <2>9. k \in DOMAIN f.kids /\ f.kids[k].attempt # "none"
      BY <2>2, <2>3, <2>8
    <2> HIDE DEF f, dispatched
    <2>10. Becomes(p, f, dispatched(f))
      BY <1>1, <2>7, <2>9 DEF Becomes
    <2> QED BY <2>1, <2>6, <2>7, <2>10, BecomesTransitive DEF f
  <1> QED BY <1>2, <1>3, <1>4, <1>5

\* A task run has one node and one child.
LEMMA DispatchTaskRunAttemptIsSound ==
    ASSUME NEW p, PlanOk(p), NEW d, DbOk(p, d), NEW r \in DOMAIN d.runs, KindOfRun(p, r) = "task"
    PROVE  Becomes(p, d, DispatchTaskRunAttempt(d, r))
  <1>1. PlanOf(p, r) = TaskPlan
    BY DEF PlanOf, KindOfRun
  <1> DEFINE e == CreateNode(d, r, 1)
  <1> DEFINE f == EnsureNodeChildren(e, r, 1, {1})
  <1>2. Becomes(p, d, e) /\ <<r, 1>> \in DOMAIN e.nodes
    BY <1>1, TaskPlanFacts, CreateNodeIsSound
  <1>3. ChildrenOf(p, e, r, 1) = {1} /\ {1} \subseteq DOMAIN PlanOf(p, r)[1].members
    <2>1. DOMAIN <<"activity">> = {1}
      OBVIOUS
    <2> QED BY <1>1, <2>1, TaskPlanFacts DEF ChildrenOf
  <1>4. Becomes(p, e, f) /\ <<r, 1, 1>> \in DOMAIN f.kids
    <2>1. DbOk(p, e)
      BY <1>2 DEF Becomes
    <2> HIDE DEF e
    <2> QED BY <1>2, <1>3, <2>1, EnsureNodeChildrenIsSound
  <1>5. Becomes(p, f, DispatchAttempt(f, <<r, 1, 1>>))
    BY <1>4, DispatchAttemptIsSound DEF Becomes
  <1>6. DispatchTaskRunAttempt(d, r) = DispatchAttempt(f, <<r, 1, 1>>)
    BY DEF DispatchTaskRunAttempt
  <1> HIDE DEF e, f
  <1> QED BY <1>2, <1>4, <1>5, <1>6, BecomesTransitive

\* Whatever its kind, an existing run can be set going.
LEMMA ActivateIsSound ==
    ASSUME NEW p, PlanOk(p), NEW d, DbOk(p, d), NEW r \in DOMAIN d.runs PROVE Becomes(p, d, Activate(p, d, r))
  <1>1. KindOfRun(p, r) \in {"task", "workflow"}
    BY DEF DbOk, RunsOk
  <1> QED BY <1>1, EnqueueIsSound, DispatchTaskRunAttemptIsSound DEF Activate

\* A child run is started once it exists.
LEMMA StartChildRunIsSound ==
    ASSUME NEW p, PlanOk(p), NEW d, DbOk(p, d), NEW k \in DOMAIN d.kids,
           PlanOf(p, k[1])[k[2]].members[k[3]] # "activity"
    PROVE  Becomes(p, d, StartChildRun(p, d, k))
  <1> DEFINE e == EnsureChildRun(d, k)
  <1>1. Becomes(p, d, e) /\ (e.thrown \/ ChildRun(k) \in DOMAIN e.runs)
    BY EnsureChildRunIsSound
  <1>2. StartChildRun(p, d, k) = IF e.thrown THEN e ELSE Activate(p, e, ChildRun(k))
    BY DEF StartChildRun
  <1> HIDE DEF e
  <1>3. ~e.thrown => Becomes(p, e, Activate(p, e, ChildRun(k)))
    BY <1>1, ActivateIsSound DEF Becomes
  <1> QED BY <1>1, <1>2, <1>3, BecomesTransitive
-----------------------------------------------------------------------------
(* Cancellation.                                                           *)

\* cancelRunTree reaches live runs only.
LEMMA TreesAreLive ==
    ASSUME NEW p, NEW d, DbOk(p, d), NEW R, R \subseteq DOMAIN d.runs
    PROVE  \A c \in LiveTree(d, R) : c \in DOMAIN d.runs /\ d.runs[c] \notin Terminal
  <1> SUFFICES ASSUME NEW c \in DOMAIN d.runs, NEW r \in R, Reaches(d, r, c) PROVE d.runs[c] \notin Terminal
    BY DEF LiveTree
  <1>1. c \in RunNames /\ r \in RunNames
    BY RowsAreTyped
  <1>2. Len(c) \in Nat /\ Len(r) \in Nat /\ SubSeq(c, 1, Len(c)) = c
    BY <1>1 DEF RunNames
  <1>3. IsLive(d, SubSeq(c, 1, Len(c)))
    <2>1. Len(c) \in Len(r)..Len(c)
      BY <1>2 DEF Reaches
    <2> QED BY <2>1, Zenon DEF Reaches
  <1> QED BY <1>2, <1>3 DEF IsLive

\* A row whose status is set keeps the rest.
LEMMA CancelledRows ==
    ASSUME NEW p, NEW d, DbOk(p, d)
    PROVE  /\ \A x \in DOMAIN d.nodes : LET y == [d.nodes[x] EXCEPT !.status = "cancelled"]
                                        IN  y \in NodeRow /\ y.selected = d.nodes[x].selected
           /\ \A k \in DOMAIN d.kids : LET y == [d.kids[k] EXCEPT !.status = "cancelled"]
                                       IN  y \in KidRow /\ y.linked = d.kids[k].linked
                                           /\ y.attempt = d.kids[k].attempt
  BY RowsAreTyped DEF NodeRow, KidRow, NodeStatus

\* cancelNonTerminalRunNodes leaves the settled rows alone.
LEMMA CancelNodesIsSound ==
    ASSUME NEW p, NEW d, DbOk(p, d), NEW r PROVE Becomes(p, d, CancelNonTerminalRunNodes(d, r))
  <1> DEFINE N == [x \in DOMAIN d.nodes |-> IF x[1] = r /\ d.nodes[x].status \notin Terminal
                       THEN [d.nodes[x] EXCEPT !.status = "cancelled"] ELSE d.nodes[x]]
  <1> DEFINE K == [k \in DOMAIN d.kids |-> IF k[1] = r /\ d.kids[k].status \notin Terminal
                       THEN [d.kids[k] EXCEPT !.status = "cancelled"] ELSE d.kids[k]]
  <1> DEFINE e == CancelNonTerminalRunNodes(d, r)
  <1>1. e = [d EXCEPT !.nodes = N, !.kids = K]
    BY DEF CancelNonTerminalRunNodes
  <1>2. DOMAIN N = DOMAIN d.nodes /\ \A x \in DOMAIN d.nodes :
            /\ N[x] \in NodeRow /\ N[x].selected = d.nodes[x].selected
            /\ d.nodes[x].status \in Terminal => N[x].status = d.nodes[x].status
    BY RowsAreTyped, CancelledRows
  <1>3. DOMAIN K = DOMAIN d.kids /\ \A k \in DOMAIN d.kids :
            /\ K[k] \in KidRow /\ K[k].linked = d.kids[k].linked /\ K[k].attempt = d.kids[k].attempt
            /\ d.kids[k].status \in Terminal => K[k].status = d.kids[k].status
    BY RowsAreTyped, CancelledRows
  <1> HIDE DEF N, K, e
  <1>4. IsDb(e) /\ e.runs = d.runs /\ e.nodes = N /\ e.kids = K
        /\ e.cmds = d.cmds /\ e.thrown = d.thrown /\ e.queue = d.queue
    BY <1>1 DEF DbOk, IsDb
  <1>5. Updated(d, e)
    BY <1>2, <1>3, <1>4, RowsAreTyped DEF Updated
  <1> QED BY <1>5, UpdateIsSound DEF e

\* Commands that go.
LEMMA FewerCommands ==
    ASSUME NEW p, NEW d, DbOk(p, d), NEW C, DOMAIN C \subseteq DOMAIN d.cmds
    PROVE  Becomes(p, d, [d EXCEPT !.cmds = C])
  <1> DEFINE e == [d EXCEPT !.cmds = C]
  <1>1. IsDb(e) /\ e.runs = d.runs /\ e.nodes = d.nodes /\ e.kids = d.kids
        /\ e.cmds = C /\ e.thrown = d.thrown /\ e.queue = d.queue
    BY DEF DbOk, IsDb
  <1> HIDE DEF e
  <1>2. Updated(d, e)
    BY <1>1, RowsAreTyped DEF Updated
  <1> QED BY <1>2, UpdateIsSound DEF e

\* The unclaimed commands of a run go.
LEMMA DeleteUnclaimedIsSound ==
    ASSUME NEW p, NEW d, DbOk(p, d), NEW r PROVE Becomes(p, d, DeleteUnclaimed(d, r))
  <1> DEFINE C == [k \in {j \in DOMAIN d.cmds : ~(j[1] = r /\ d.cmds[j] = "queued")} |-> d.cmds[k]]
  <1>1. DOMAIN C \subseteq DOMAIN d.cmds
    OBVIOUS
  <1>2. DeleteUnclaimed(d, r) = [d EXCEPT !.cmds = C]
    BY DEF DeleteUnclaimed
  <1> HIDE DEF C
  <1> QED BY <1>1, <1>2, FewerCommands

\* An acknowledged command goes.
LEMMA DropCommandIsSound ==
    ASSUME NEW p, NEW d, DbOk(p, d), NEW k
    PROVE  Becomes(p, d, DropCommand(d, k)) /\ DropCommand(d, k).kids = d.kids
  <1> DEFINE C == [j \in DOMAIN d.cmds \ {k} |-> d.cmds[j]]
  <1>1. DOMAIN C \subseteq DOMAIN d.cmds
    OBVIOUS
  <1>2. DropCommand(d, k) = [d EXCEPT !.cmds = C]
    BY DEF DropCommand
  <1> HIDE DEF C
  <1>3. [d EXCEPT !.cmds = C].kids = d.kids
    BY DEF DbOk, IsDb
  <1> QED BY <1>1, <1>2, <1>3, FewerCommands

\* cancelRunTree, of any runs, with or without waking them.
LEMMA CancelTreesIsSound ==
    ASSUME NEW p, NEW d, DbOk(p, d), NEW R, R \subseteq DOMAIN d.runs, NEW wakeRoots
    PROVE  Becomes(p, d, CancelTrees(p, d, R, wakeRoots))
  <1> DEFINE S == LiveTree(d, R)
  <1> DEFINE woken == {r \in S : KindOfRun(p, r) = "workflow" /\ (wakeRoots \/ r \notin R)}
  <1> DEFINE Q == [r \in DOMAIN d.runs |-> IF r \in S THEN "cancelled" ELSE d.runs[r]]
  <1> DEFINE N == [x \in DOMAIN d.nodes |-> IF x[1] \in S /\ d.nodes[x].status \notin Terminal
                       THEN [d.nodes[x] EXCEPT !.status = "cancelled"] ELSE d.nodes[x]]
  <1> DEFINE K == [k \in DOMAIN d.kids |-> IF k[1] \in S /\ d.kids[k].status \notin Terminal
                       THEN [d.kids[k] EXCEPT !.status = "cancelled"] ELSE d.kids[k]]
  <1> DEFINE C == [k \in {j \in DOMAIN d.cmds : ~(j[1] \in S /\ d.cmds[j] = "queued")} |-> d.cmds[k]]
  <1> DEFINE U == d.queue \cup woken
  <1> DEFINE e == CancelTrees(p, d, R, wakeRoots)
  <1>1. e = [d EXCEPT !.runs = Q, !.nodes = N, !.kids = K, !.cmds = C, !.queue = U]
    BY DEF CancelTrees
  <1>2. \A c \in S : c \in DOMAIN d.runs /\ d.runs[c] \notin Terminal
    BY TreesAreLive
  <1> HIDE DEF S
  <1>3. DOMAIN Q = DOMAIN d.runs /\ \A r \in DOMAIN d.runs :
            Q[r] \in RunStatus /\ (d.runs[r] \in Terminal => Q[r] = d.runs[r])
    BY <1>2, RowsAreTyped DEF RunStatus
  <1>4. DOMAIN N = DOMAIN d.nodes /\ \A x \in DOMAIN d.nodes :
            /\ N[x] \in NodeRow /\ N[x].selected = d.nodes[x].selected
            /\ d.nodes[x].status \in Terminal => N[x].status = d.nodes[x].status
    BY RowsAreTyped, CancelledRows
  <1>5. DOMAIN K = DOMAIN d.kids /\ \A k \in DOMAIN d.kids :
            /\ K[k] \in KidRow /\ K[k].linked = d.kids[k].linked /\ K[k].attempt = d.kids[k].attempt
            /\ d.kids[k].status \in Terminal => K[k].status = d.kids[k].status
    BY RowsAreTyped, CancelledRows
  <1>6. DOMAIN C \subseteq DOMAIN d.cmds
    OBVIOUS
  <1>7. U \subseteq DOMAIN d.runs
    BY <1>2, RowsAreTyped
  <1> HIDE DEF Q, N, K, C, U, e
  <1>8. e = [runs |-> Q, nodes |-> N, kids |-> K, queue |-> U, cmds |-> C, thrown |-> d.thrown]
    BY <1>1 DEF DbOk, IsDb
  <1>9. IsDb(e) /\ e.runs = Q /\ e.nodes = N /\ e.kids = K
        /\ e.cmds = C /\ e.thrown = d.thrown /\ e.queue = U
    BY <1>8 DEF IsDb
  <1>10. Updated(d, e)
    BY <1>3, <1>4, <1>5, <1>6, <1>7, <1>9, RowsAreTyped DEF Updated
  <1> QED BY <1>10, UpdateIsSound DEF e

\* cancelNodeChildRunsAndCommands.
LEMMA CancelNodeChildrenIsSound ==
    ASSUME NEW p, NEW d, DbOk(p, d), NEW r, NEW n PROVE Becomes(p, d, CancelNodeChildren(p, d, r, n))
  <1> DEFINE R == LinkedRuns(d, KidsOfNode(d, r, n))
  <1> DEFINE e == CancelTrees(p, d, R, TRUE)
  <1>1. R \subseteq DOMAIN d.runs
    BY DEF LinkedRuns, KidsOfNode, KidsOf, DbOk, KidsOk
  <1> HIDE DEF R
  <1>2. Becomes(p, d, e)
    BY <1>1, CancelTreesIsSound
  <1>3. CancelNodeChildren(p, d, r, n) = DeleteUnclaimed(e, r)
    BY DEF CancelNodeChildren, R
  <1> HIDE DEF e
  <1> QED BY <1>2, <1>3, DeleteUnclaimedIsSound, BecomesTransitive DEF Becomes

\* How a run ends.
LEMMA SinksAreSound ==
    ASSUME NEW p, NEW d, DbOk(p, d), NEW r \in DOMAIN d.runs, NEW n
    PROVE  /\ Becomes(p, d, CompleteRunAndWakeParent(d, r))
           /\ Becomes(p, d, FailRunAndWakeParent(d, r))
           /\ Becomes(p, d, CancelRunAndWakeParent(p, d, r))
           /\ Becomes(p, d, FailNodeAndRun(d, r, n))
           /\ Becomes(p, d, CancelNodeAndRun(p, d, r, n))
  <1>1. ASSUME NEW f, DbOk(p, f), r \in DOMAIN f.runs, NEW e, Becomes(p, f, e)
        PROVE  Becomes(p, f, WakeParentRun(e, r))
    <2>1. DbOk(p, e) /\ r \in DOMAIN e.runs
      BY <1>1 DEF Becomes, Later
    <2> QED BY <1>1, <2>1, WakeIsSound, BecomesTransitive
  <1>2. ASSUME NEW f, DbOk(p, f), r \in DOMAIN f.runs
        PROVE  /\ Becomes(p, f, CompleteRunAndWakeParent(f, r)) /\ Becomes(p, f, FailRunAndWakeParent(f, r))
               /\ Becomes(p, f, CancelRunAndWakeParent(p, f, r))
    <2>1. Becomes(p, f, SetRun(f, r, "completed")) /\ Becomes(p, f, SetRun(f, r, "failed"))
      BY <1>2, SetRunIsSound DEF Moves
    <2>2. Becomes(p, f, CancelRunTree(p, f, r))
      BY <1>2, CancelTreesIsSound DEF CancelRunTree
    <2> QED BY <1>1, <1>2, <2>1, <2>2
            DEF CompleteRunAndWakeParent, FailRunAndWakeParent, CancelRunAndWakeParent
  <1>3. ASSUME NEW to \in Moves
        PROVE  /\ Becomes(p, d, FailRunAndWakeParent(SetNode(d, r, n, to), r))
               /\ Becomes(p, d, CancelRunAndWakeParent(p, SetNode(d, r, n, to), r))
    <2> DEFINE e == SetNode(d, r, n, to)
    <2>1. Becomes(p, d, e)
      BY SetNodeIsSound
    <2> HIDE DEF e
    <2>2. DbOk(p, e) /\ r \in DOMAIN e.runs
      BY <2>1 DEF Becomes, Later
    <2>3. Becomes(p, e, FailRunAndWakeParent(e, r)) /\ Becomes(p, e, CancelRunAndWakeParent(p, e, r))
      BY <1>2, <2>2
    <2> QED BY <2>1, <2>3, BecomesTransitive DEF e
  <1> QED BY <1>2, <1>3 DEF FailNodeAndRun, CancelNodeAndRun, Moves
-----------------------------------------------------------------------------
(* The coordinator.                                                        *)

\* The fields of a result.
LEMMA Results == ASSUME NEW d, NEW out PROVE Result(d, out).db = d /\ Result(d, out).out = out
  BY DEF Result

\* What may follow a write.
LEMMA Then ==
    ASSUME NEW p, NEW d, NEW e, Becomes(p, d, e), NEW r \in DOMAIN d.runs, NEW n
    PROVE  /\ DbOk(p, e) /\ r \in DOMAIN e.runs
           /\ \A to \in Moves : Becomes(p, d, SetNode(e, r, n, to))
           /\ Becomes(p, d, FailNodeAndRun(e, r, n)) /\ Becomes(p, d, CancelNodeAndRun(p, e, r, n))
           /\ Becomes(p, d, FailNodeAndRun(CancelNodeChildren(p, e, r, n), r, n))
  <1>1. DbOk(p, e) /\ r \in DOMAIN e.runs
    BY DEF Becomes, Later
  <1>2. \A to \in Moves : Becomes(p, e, SetNode(e, r, n, to))
    BY <1>1, SetNodeIsSound
  <1>3. Becomes(p, e, FailNodeAndRun(e, r, n)) /\ Becomes(p, e, CancelNodeAndRun(p, e, r, n))
    BY <1>1, SinksAreSound
  <1> DEFINE f == CancelNodeChildren(p, e, r, n)
  <1>4. Becomes(p, e, f)
    BY <1>1, CancelNodeChildrenIsSound
  <1> HIDE DEF f
  <1>5. Becomes(p, f, FailNodeAndRun(f, r, n))
    <2>1. DbOk(p, f) /\ r \in DOMAIN f.runs
      BY <1>1, <1>4 DEF Becomes, Later
    <2> QED BY <2>1, SinksAreSound
  <1> QED BY <1>1, <1>2, <1>3, <1>4, <1>5, BecomesTransitive DEF f

\* Whom a coordinator dispatches: a member of a node, with its row.
Dispatchable(p, d, r, n, i) ==
    /\ r \in DOMAIN d.runs /\ n \in DOMAIN PlanOf(p, r)
    /\ i \in DOMAIN PlanOf(p, r)[n].members /\ <<r, n, i>> \in DOMAIN d.kids

\* The two ways to set a child run going.
LEMMA ChildRunStarts ==
    ASSUME NEW p, PlanOk(p), NEW d, DbOk(p, d), NEW r, NEW n, NEW i, Dispatchable(p, d, r, n, i),
           PlanOf(p, r)[n].members[i] # "activity"
    PROVE  /\ Becomes(p, d, StartChildRun(p, d, <<r, n, i>>))
           /\ ChildRun(<<r, n, i>>) \in DOMAIN d.runs => Becomes(p, d, Activate(p, d, ChildRun(<<r, n, i>>)))
  <1> DEFINE k == <<r, n, i>>
  <1>1. k \in DOMAIN d.kids /\ PlanOf(p, k[1])[k[2]].members[k[3]] # "activity"
    BY DEF Dispatchable
  <1> HIDE DEF k
  <1>2. Becomes(p, d, StartChildRun(p, d, k))
    BY <1>1, StartChildRunIsSound
  <1> QED BY <1>2, ActivateIsSound DEF k

\* A node that stands for a child run, whatever the view says of the run.
LEMMA DispatchChildRunIsSound ==
    ASSUME NEW p, PlanOk(p), NEW d, DbOk(p, d), NEW r, NEW n, NEW i, Dispatchable(p, d, r, n, i),
           PlanOf(p, r)[n].members[i] # "activity", NEW v, ViewOk(p, d, r, n, v), NEW user
    PROVE  Becomes(p, d, DispatchChildRun(p, d, v, r, n, i, user).db)
  <1> DEFINE k == <<r, n, i>>
  <1> DEFINE res == DispatchChildRun(p, d, v, r, n, i, user)
  <1>1. r \in DOMAIN d.runs /\ v[i].run \in RunStatus \cup {"none"}
        /\ (v[i].run # "none" => ChildRun(k) \in DOMAIN d.runs)
    BY DEF Dispatchable, ViewOk
  <1>2. Becomes(p, d, d)
    BY Stays
  <1>3. CASE v[i].run = "none" /\ user.throws = i
    <2>1. res = Result(FailNodeAndRun(d, r, n), "terminal")
      BY <1>3 DEF DispatchChildRun
    <2> HIDE DEF res
    <2> QED BY <1>1, <1>2, <2>1, Then, Results DEF res
  <1>4. CASE v[i].run = "none" /\ user.throws # i
    <2> DEFINE e == StartChildRun(p, d, k)
    <2>1. res = Result(SetNode(e, r, n, "waiting"), "parked")
      BY <1>4 DEF DispatchChildRun
    <2>2. Becomes(p, d, e)
      BY ChildRunStarts
    <2> HIDE DEF res, e
    <2> QED BY <1>1, <2>1, <2>2, Then, Results DEF res, Moves
  <1>5. CASE v[i].run = "completed"
    <2> DEFINE e == SetKid(d, k, "completed")
    <2>1. res = Result(SetNode(e, r, n, "completed"), "next")
      BY <1>5 DEF DispatchChildRun
    <2>2. Becomes(p, d, e)
      BY SetKidIsSound DEF Moves
    <2> HIDE DEF res, e
    <2> QED BY <1>1, <2>1, <2>2, Then, Results DEF res, Moves
  <1>6. CASE v[i].run = "cancelled"
    <2>1. res = Result(CancelNodeAndRun(p, d, r, n), "terminal")
      BY <1>6 DEF DispatchChildRun
    <2> HIDE DEF res
    <2> QED BY <1>1, <1>2, <2>1, Then, Results DEF res
  <1>7. CASE v[i].run = "failed"
    <2> DEFINE e == SetKid(d, k, "failed")
    <2>1. res = Result(FailNodeAndRun(e, r, n), "terminal")
      BY <1>7 DEF DispatchChildRun
    <2>2. Becomes(p, d, e)
      BY SetKidIsSound DEF Moves
    <2> HIDE DEF res, e
    <2> QED BY <1>1, <2>1, <2>2, Then, Results DEF res
  <1>8. CASE v[i].run \notin {"none", "completed", "cancelled", "failed"}
    <2> DEFINE e == Activate(p, d, ChildRun(k))
    <2>1. res = Result(SetNode(e, r, n, "waiting"), "parked")
      BY <1>8 DEF DispatchChildRun
    <2>2. Becomes(p, d, e)
      BY <1>1, <1>8, ChildRunStarts
    <2> HIDE DEF res, e
    <2> QED BY <1>1, <2>1, <2>2, Then, Results DEF res, Moves
  <1> QED BY <1>3, <1>4, <1>5, <1>6, <1>7, <1>8

\* One member, an activity or a child run.
LEMMA DispatchOneIsSound ==
    ASSUME NEW p, PlanOk(p), NEW d, DbOk(p, d), NEW r, NEW n, NEW i, Dispatchable(p, d, r, n, i),
           NEW v, ViewOk(p, d, r, n, v), NEW user
    PROVE  Becomes(p, d, DispatchOne(p, d, v, r, n, i, user).db)
  <1>1. r \in DOMAIN d.runs /\ Becomes(p, d, d) /\ Becomes(p, d, DispatchAttempt(d, <<r, n, i>>))
    BY Stays, DispatchAttemptIsSound DEF Dispatchable
  <1>2. CASE PlanOf(p, r)[n].members[i] = "activity"
    <2>1. DispatchOne(p, d, v, r, n, i, user) = DispatchActivity(d, v, r, n, i, user)
      BY <1>2 DEF DispatchOne
    <2>2. DispatchActivity(d, v, r, n, i, user).db \in {FailNodeAndRun(d, r, n), DispatchAttempt(d, <<r, n, i>>)}
      BY Results DEF DispatchActivity
    <2> QED BY <1>1, <2>1, <2>2, Then
  <1>3. CASE PlanOf(p, r)[n].members[i] # "activity"
    BY <1>3, DispatchChildRunIsSound DEF DispatchOne
  <1> QED BY <1>2, <1>3
\* An activity, task or workflow node, or the node of a task run.
LEMMA DispatchSingleNodeIsSound ==
    ASSUME NEW p, PlanOk(p), NEW d, DbOk(p, d), NEW r \in DOMAIN d.runs, NEW n \in DOMAIN PlanOf(p, r),
           <<r, n>> \in DOMAIN d.nodes, PlanOf(p, r)[n].kind \notin {"branch", "parallel", "map"},
           NEW v, ViewOk(p, d, r, n, v), NEW user
    PROVE  Becomes(p, d, DispatchSingleNode(p, d, v, r, n, user).db)
  <1> DEFINE e == EnsureNodeChildren(d, r, n, {1})
  <1>1. DOMAIN PlanOf(p, r)[n].members = {1}
    <2>1. NodeOk(PlanOf(p, r)[n])
      BY PlanFacts
    <2> QED BY <2>1 DEF NodeOk
  <1>2. ChildrenOf(p, d, r, n) = {1}
    BY <1>1 DEF ChildrenOf
  <1>3. Becomes(p, d, e) /\ <<r, n, 1>> \in DOMAIN e.kids
    BY <1>1, <1>2, EnsureNodeChildrenIsSound
  <1>4. DispatchSingleNode(p, d, v, r, n, user) = DispatchOne(p, e, v, r, n, 1, user)
    BY DEF DispatchSingleNode
  <1> HIDE DEF e
  <1>5. DbOk(p, e) /\ Dispatchable(p, e, r, n, 1) /\ ViewOk(p, e, r, n, v)
    BY <1>1, <1>3, ViewStays DEF Becomes, Later, Dispatchable
  <1> QED BY <1>3, <1>4, <1>5, DispatchOneIsSound, BecomesTransitive

\* The stored case wins, and only it has a child.
LEMMA DispatchBranchNodeIsSound ==
    ASSUME NEW p, PlanOk(p), NEW d, DbOk(p, d), NEW r \in DOMAIN d.runs, NEW n \in DOMAIN PlanOf(p, r),
           <<r, n>> \in DOMAIN d.nodes, d.nodes[<<r, n>>].status \notin Terminal,
           PlanOf(p, r)[n].kind = "branch",
           NEW v, ViewOk(p, d, r, n, v), NEW user
    PROVE  Becomes(p, d, DispatchBranchNode(p, d, v, r, n, user).db)
  <1> DEFINE stored == d.nodes[<<r, n>>].selected
  <1> DEFINE named == IF user.case \in DOMAIN PlanOf(p, r)[n].members THEN user.case ELSE 0
  <1> DEFINE case == IF stored = 0 THEN named ELSE stored
  <1> DEFINE f == SelectNodeCase(d, r, n, case)
  <1> DEFINE e == EnsureNodeChildren(f, r, n, {case})
  <1> DEFINE res == DispatchBranchNode(p, d, v, r, n, user)
  <1>2. stored \in {0} \cup DOMAIN PlanOf(p, r)[n].members
    <2> DEFINE x == <<r, n>>
    <2>1. d.nodes[x].selected \in {0} \cup DOMAIN PlanOf(p, x[1])[x[2]].members
      BY DEF DbOk, NodesOk
    <2> QED BY <2>1
  <1>3. case = 0 \/ case \in DOMAIN PlanOf(p, r)[n].members
    <2> HIDE DEF stored
    <2> QED BY <1>2
  <1>4. Becomes(p, d, d)
    BY Stays
  <1>5. CASE case = 0
    <2>1. res = Result(FailNodeAndRun(d, r, n), "terminal")
      BY <1>5 DEF DispatchBranchNode
    <2> HIDE DEF res
    <2> QED BY <1>4, <2>1, Then, Results DEF res
  <1>6. CASE case # 0
    <2>1. case \in DOMAIN PlanOf(p, r)[n].members /\ stored \in {0, case}
      BY <1>3, <1>6
    <2>2. res = CASE v[case].row.status = "completed" -> Result(SetNode(e, r, n, "completed"), "next")
                  [] v[case].row.status = "failed" -> Result(FailNodeAndRun(e, r, n), "terminal")
                  [] v[case].row.status = "cancelled" -> Result(CancelNodeAndRun(p, e, r, n), "terminal")
                  [] OTHER -> DispatchOne(p, e, v, r, n, case, user)
      BY <1>6 DEF DispatchBranchNode
    <2> HIDE DEF case, res
    <2>3. Becomes(p, d, f) /\ <<r, n>> \in DOMAIN f.nodes /\ f.nodes[<<r, n>>].selected = case
      BY <2>1, SelectNodeCaseIsSound
    <2> HIDE DEF f
    <2>4. DbOk(p, f) /\ ChildrenOf(p, f, r, n) = {case} /\ {case} \subseteq DOMAIN PlanOf(p, r)[n].members
      BY <2>1, <2>3 DEF Becomes, ChildrenOf
    <2>5. Becomes(p, f, e) /\ <<r, n, case>> \in DOMAIN e.kids
      BY <2>3, <2>4, EnsureNodeChildrenIsSound
    <2> HIDE DEF e
    <2>6. Becomes(p, d, e)
      BY <2>3, <2>5, BecomesTransitive
    <2>7. DbOk(p, e) /\ Dispatchable(p, e, r, n, case) /\ ViewOk(p, e, r, n, v)
      BY <2>1, <2>5, <2>6, ViewStays DEF Becomes, Later, Dispatchable
    <2>8. Becomes(p, d, DispatchOne(p, e, v, r, n, case, user).db)
      BY <2>6, <2>7, DispatchOneIsSound, BecomesTransitive
    <2>9. /\ Becomes(p, d, SetNode(e, r, n, "completed")) /\ Becomes(p, d, FailNodeAndRun(e, r, n))
          /\ Becomes(p, d, CancelNodeAndRun(p, e, r, n))
      BY <2>6, Then DEF Moves
    <2>10. res \in {Result(SetNode(e, r, n, "completed"), "next"), Result(FailNodeAndRun(e, r, n), "terminal"),
                    Result(CancelNodeAndRun(p, e, r, n), "terminal"), DispatchOne(p, e, v, r, n, case, user)}
      BY <2>2
    <2> QED BY <2>8, <2>9, <2>10, Results DEF res
  <1> QED BY <1>5, <1>6

-----------------------------------------------------------------------------
(* A pass over the members of a node.                                      *)

PassOk(p, d, acc) == "db" \in DOMAIN acc /\ Becomes(p, d, acc.db)

\* What a pass may write next.
LEMMA PassSteps ==
    ASSUME NEW p, NEW d, NEW acc, PassOk(p, d, acc), NEW e, Becomes(p, d, e), NEW i
    PROVE  /\ PassOk(p, d, Ended(acc, e)) /\ PassOk(p, d, HasOutput(acc, e, i))
           /\ PassOk(p, d, [acc EXCEPT !.db = e])
           /\ PassOk(p, d, [acc EXCEPT !.db = e, !.local = TRUE])
           /\ PassOk(p, d, [acc EXCEPT !.db = e, !.active = @ + 1])
           /\ PassOk(p, d, [acc EXCEPT !.started = @ + 1, !.outputs = @ \cup {i}])
           /\ PassOk(p, d, [acc EXCEPT !.active = @ + 1])
  <1>1. PassOk(p, d, Ended(acc, e)) /\ PassOk(p, d, HasOutput(acc, e, i))
    BY DEF PassOk, Ended, HasOutput
  <1>2. PassOk(p, d, [acc EXCEPT !.db = e]) /\ PassOk(p, d, [acc EXCEPT !.db = e, !.local = TRUE])
    BY DEF PassOk
  <1>3. PassOk(p, d, [acc EXCEPT !.db = e, !.active = @ + 1])
    BY DEF PassOk
  <1>4. PassOk(p, d, [acc EXCEPT !.started = @ + 1, !.outputs = @ \cup {i}])
    BY DEF PassOk
  <1>5. PassOk(p, d, [acc EXCEPT !.active = @ + 1])
    BY DEF PassOk
  <1> QED BY <1>1, <1>2, <1>3, <1>4, <1>5
\* What a pass over a node relies on, in the rows it starts from.
PassStarts(p, d, r, n, v) ==
    /\ PlanOk(p) /\ DbOk(p, d) /\ ViewOk(p, d, r, n, v)
    /\ r \in DOMAIN d.runs /\ n \in DOMAIN PlanOf(p, r)
    /\ \A i \in DOMAIN PlanOf(p, r)[n].members : Dispatchable(p, d, r, n, i)

\* It can rely on it at every member.
LEMMA PassGoesOn ==
    ASSUME NEW p, NEW d, NEW r, NEW n, NEW v, PassStarts(p, d, r, n, v), NEW e, Becomes(p, d, e),
           NEW i \in DOMAIN PlanOf(p, r)[n].members
    PROVE  /\ r \in DOMAIN d.runs /\ DbOk(p, e) /\ Dispatchable(p, e, r, n, i)
           /\ v[i].run \in RunStatus \cup {"none"}
           /\ Becomes(p, d, DispatchAttempt(e, <<r, n, i>>))
           /\ \A to \in Moves : Becomes(p, d, SetKid(e, <<r, n, i>>, to))
           /\ PlanOf(p, r)[n].members[i] # "activity" =>
                /\ Becomes(p, d, StartChildRun(p, e, <<r, n, i>>))
                /\ v[i].run # "none" => Becomes(p, d, Activate(p, e, ChildRun(<<r, n, i>>)))
  <1>1. DbOk(p, e) /\ Dispatchable(p, e, r, n, i) /\ PlanOk(p)
    BY DEF PassStarts, Becomes, Later, Dispatchable
  <1>2. v[i].run \in RunStatus \cup {"none"} /\ (v[i].run # "none" => ChildRun(<<r, n, i>>) \in DOMAIN e.runs)
    BY DEF PassStarts, ViewOk, Becomes, Later
  <1>3. Becomes(p, e, DispatchAttempt(e, <<r, n, i>>))
    BY <1>1, DispatchAttemptIsSound DEF Dispatchable
  <1>4. \A to \in Moves : Becomes(p, e, SetKid(e, <<r, n, i>>, to))
    BY <1>1, SetKidIsSound
  <1>5. PlanOf(p, r)[n].members[i] # "activity" =>
            /\ Becomes(p, e, StartChildRun(p, e, <<r, n, i>>))
            /\ v[i].run # "none" => Becomes(p, e, Activate(p, e, ChildRun(<<r, n, i>>)))
    BY <1>1, <1>2, ChildRunStarts
  <1>6. r \in DOMAIN d.runs
    BY DEF PassStarts
  <1> QED BY <1>1, <1>2, <1>3, <1>4, <1>5, <1>6, BecomesTransitive

\* A member of a parallel node.
LEMMA ParallelMemberIsSound ==
    ASSUME NEW p, NEW d, NEW r, NEW n, NEW v, PassStarts(p, d, r, n, v), NEW acc, PassOk(p, d, acc),
           NEW i \in DOMAIN PlanOf(p, r)[n].members, NEW user
    PROVE  PassOk(p, d, ParallelMember(p, acc, v, r, n, i, user))
  <1> DEFINE k == <<r, n, i>>
  <1>1. Becomes(p, d, acc.db) /\ r \in DOMAIN d.runs
    BY PassGoesOn DEF PassOk
  <1>2. ASSUME NEW e, Becomes(p, d, e)
        PROVE  /\ PassOk(p, d, HasOutput(acc, e, i)) /\ PassOk(p, d, FailFanIn(p, acc, e, r, n))
               /\ PassOk(p, d, Ended(acc, CancelNodeAndRun(p, e, r, n)))
               /\ PassOk(p, d, Ended(acc, FailNodeAndRun(e, r, n)))
               /\ PassOk(p, d, [acc EXCEPT !.db = e])
               /\ PassOk(p, d, [acc EXCEPT !.db = e, !.local = TRUE])
    <2>1. /\ Becomes(p, d, CancelNodeAndRun(p, e, r, n)) /\ Becomes(p, d, FailNodeAndRun(e, r, n))
          /\ Becomes(p, d, FailNodeAndRun(CancelNodeChildren(p, e, r, n), r, n))
      BY <1>1, <1>2, Then
    <2> QED BY <1>2, <2>1, PassSteps DEF FailFanIn
  <1>3. ParallelMember(p, acc, v, r, n, i, user) \in
            {HasOutput(acc, acc.db, i), FailFanIn(p, acc, acc.db, r, n),
             Ended(acc, CancelNodeAndRun(p, acc.db, r, n))}
        \/ /\ PlanOf(p, r)[n].members[i] = "activity"
           /\ ParallelMember(p, acc, v, r, n, i, user) = ParallelActivity(acc, v, r, n, i, user)
        \/ /\ PlanOf(p, r)[n].members[i] # "activity"
           /\ ParallelMember(p, acc, v, r, n, i, user) = ParallelChildRun(p, acc, v, r, n, i, user)
    BY DEF ParallelMember
  <1>4. PassOk(p, d, ParallelActivity(acc, v, r, n, i, user))
    <2>1. Becomes(p, d, DispatchAttempt(acc.db, k))
      BY <1>1, PassGoesOn
    <2>2. ParallelActivity(acc, v, r, n, i, user) \in
            {Ended(acc, FailNodeAndRun(acc.db, r, n)), [acc EXCEPT !.db = DispatchAttempt(acc.db, k), !.local = TRUE]}
      BY DEF ParallelActivity
    <2> QED BY <1>1, <1>2, <2>1, <2>2
  <1>5. ASSUME PlanOf(p, r)[n].members[i] # "activity"
        PROVE  PassOk(p, d, ParallelChildRun(p, acc, v, r, n, i, user))
    <2>1. /\ Becomes(p, d, StartChildRun(p, acc.db, k)) /\ v[i].run \in RunStatus \cup {"none"}
          /\ v[i].run # "none" => Becomes(p, d, Activate(p, acc.db, ChildRun(k)))
          /\ Becomes(p, d, SetKid(acc.db, k, "completed")) /\ Becomes(p, d, SetKid(acc.db, k, "failed"))
      BY <1>1, <1>5, PassGoesOn DEF Moves
    <2>2. CASE v[i].run # "none"
      <3>1. ParallelChildRun(p, acc, v, r, n, i, user) \in
                {HasOutput(acc, SetKid(acc.db, k, "completed"), i),
                 Ended(acc, CancelNodeAndRun(p, acc.db, r, n)),
                 FailFanIn(p, acc, SetKid(acc.db, k, "failed"), r, n),
                 [acc EXCEPT !.db = Activate(p, acc.db, ChildRun(k))]}
        BY <2>2 DEF ParallelChildRun
      <3> QED BY <1>1, <1>2, <2>1, <2>2, <3>1
    <2>3. CASE v[i].run = "none"
      <3>1. ParallelChildRun(p, acc, v, r, n, i, user) \in
                {Ended(acc, FailNodeAndRun(acc.db, r, n)), [acc EXCEPT !.db = StartChildRun(p, acc.db, k)]}
        BY <2>3 DEF ParallelChildRun
      <3> QED BY <1>1, <1>2, <2>1, <3>1
    <2> QED BY <2>2, <2>3
  <1> QED BY <1>1, <1>2, <1>3, <1>4, <1>5

\* An item of a map, in each of its modes.
LEMMA MapItemIsSound ==
    ASSUME NEW p, NEW d, NEW r, NEW n, NEW v, PassStarts(p, d, r, n, v), NEW acc, PassOk(p, d, acc),
           NEW i \in DOMAIN PlanOf(p, r)[n].members, PlanOf(p, r)[n].kind = "map", NEW user
    PROVE  PassOk(p, d, MapItem(p, acc, v, r, n, i, user))
  <1> DEFINE k == <<r, n, i>>
  <1> DEFINE node == PlanOf(p, r)[n]
  <1> DEFINE run == v[i].run
  <1> DEFINE res == MapItem(p, acc, v, r, n, i, user)
  <1>1. /\ Becomes(p, d, acc.db) /\ r \in DOMAIN d.runs
        /\ node.members[i] # "activity" /\ node.mode \in {"wait-all", "wait-settled", "start-only"}
    <2>1. NodeOk(node)
      BY PlanFacts DEF PassStarts
    <2> QED BY <2>1, PassGoesOn DEF PassOk, NodeOk
  <1>2. /\ Becomes(p, d, StartChildRun(p, acc.db, k)) /\ run \in RunStatus \cup {"none"}
        /\ run # "none" => Becomes(p, d, Activate(p, acc.db, ChildRun(k)))
        /\ Becomes(p, d, SetKid(acc.db, k, "completed")) /\ Becomes(p, d, SetKid(acc.db, k, "failed"))
    BY <1>1, PassGoesOn DEF Moves
  <1>3. ASSUME NEW e, Becomes(p, d, e)
        PROVE  /\ PassOk(p, d, HasOutput(acc, e, i)) /\ PassOk(p, d, FailFanIn(p, acc, e, r, n))
               /\ PassOk(p, d, Ended(acc, CancelNodeAndRun(p, e, r, n)))
               /\ PassOk(p, d, Ended(acc, FailNodeAndRun(e, r, n)))
               /\ PassOk(p, d, [acc EXCEPT !.db = e])
               /\ PassOk(p, d, [acc EXCEPT !.db = e, !.active = @ + 1])
    <2>1. /\ Becomes(p, d, CancelNodeAndRun(p, e, r, n)) /\ Becomes(p, d, FailNodeAndRun(e, r, n))
          /\ Becomes(p, d, FailNodeAndRun(CancelNodeChildren(p, e, r, n), r, n))
      BY <1>1, <1>3, Then
    <2> QED BY <1>3, <2>1, PassSteps DEF FailFanIn
  <1>4. CASE run = "none"
    <2> DEFINE e == [acc EXCEPT !.db = StartChildRun(p, acc.db, k)]
    <2>1. res \in {acc, Ended(acc, FailNodeAndRun(acc.db, r, n)),
                   [e EXCEPT !.started = @ + 1, !.outputs = @ \cup {i}], [e EXCEPT !.active = @ + 1]}
      BY <1>4 DEF MapItem, Terminal
    <2>2. PassOk(p, d, e)
      BY <1>2, <1>3
    <2> HIDE DEF e, res
    <2>3. PassOk(p, d, [e EXCEPT !.started = @ + 1, !.outputs = @ \cup {i}])
          /\ PassOk(p, d, [e EXCEPT !.active = @ + 1])
      BY <1>1, <2>2, PassSteps
    <2> QED BY <1>1, <1>3, <2>1, <2>3 DEF res
  <1>5. CASE run # "none"
    <2>1. res \in {HasOutput(acc, acc.db, i), [acc EXCEPT !.db = Activate(p, acc.db, ChildRun(k)), !.active = @ + 1],
                   HasOutput(acc, SetKid(acc.db, k, "completed"), i), HasOutput(acc, SetKid(acc.db, k, "failed"), i),
                   Ended(acc, CancelNodeAndRun(p, acc.db, r, n)),
                   FailFanIn(p, acc, SetKid(acc.db, k, "failed"), r, n)}
      BY <1>1, <1>2, <1>5 DEF MapItem, Terminal, RunStatus
    <2> HIDE DEF res
    <2> QED BY <1>1, <1>2, <1>3, <1>5, <2>1 DEF res
  <1> QED BY <1>4, <1>5

\* A member of either fan-in.
LEMMA VisitMemberIsSound ==
    ASSUME NEW p, NEW d, NEW r, NEW n, NEW v, PassStarts(p, d, r, n, v), NEW acc, PassOk(p, d, acc),
           NEW i \in DOMAIN PlanOf(p, r)[n].members, PlanOf(p, r)[n].kind \in {"parallel", "map"}, NEW user
    PROVE  PassOk(p, d, VisitMember(p, acc, v, r, n, i, user))
  BY ParallelMemberIsSound, MapItemIsSound DEF VisitMember

\* The end of a pass over members.
LEMMA FinishFanInIsSound ==
    ASSUME NEW p, NEW d, NEW r \in DOMAIN d.runs, NEW n, NEW node, NEW acc, PassOk(p, d, acc)
    PROVE  Becomes(p, d, FinishFanIn(node, acc, r, n).db)
  <1>1. Becomes(p, d, acc.db) /\ DbOk(p, acc.db) /\ r \in DOMAIN acc.db.runs
    BY DEF PassOk, Becomes, Later
  <1>2. Becomes(p, d, Enqueue(acc.db, r))
    BY <1>1, EnqueueIsSound, BecomesTransitive
  <1>3. /\ Becomes(p, d, SetNode(acc.db, r, n, "completed")) /\ Becomes(p, d, SetNode(acc.db, r, n, "waiting"))
        /\ Becomes(p, d, SetNode(Enqueue(acc.db, r), r, n, "waiting"))
    BY <1>1, <1>2, Then DEF Moves
  <1>4. FinishFanIn(node, acc, r, n).db \in {acc.db, SetNode(acc.db, r, n, "completed"),
            SetNode(acc.db, r, n, "waiting"), SetNode(Enqueue(acc.db, r), r, n, "waiting")}
    BY Results DEF FinishFanIn
  <1> QED BY <1>1, <1>3, <1>4

\* P is the pass over the members of a fan-in, visit by visit.
FanInBy(p, d, v, r, n, user, P) ==
    LET node == PlanOf(p, r)[n]
        N    == Len(node.members)
    IN  /\ DispatchFanIn(p, d, v, r, n, user) = FinishFanIn(node, P[N], r, n)
        /\ P[0] = Pass(EnsureNodeChildren(d, r, n, DOMAIN node.members))
        /\ \A i \in 1..N : P[i] = VisitMember(p, P[i - 1], v, r, n, i, user)

\* The pass over the members of a fan-in is the function its equation says.
LEMMA FanInPass ==
    ASSUME NEW p, PlanOk(p), NEW d, NEW r, NEW n \in DOMAIN PlanOf(p, r), NEW v, NEW user
    PROVE  /\ Len(PlanOf(p, r)[n].members) \in Nat
           /\ DOMAIN PlanOf(p, r)[n].members = 1..Len(PlanOf(p, r)[n].members)
           /\ \E P : FanInBy(p, d, v, r, n, user, P)
  <1> DEFINE node == PlanOf(p, r)[n]
  <1> DEFINE N == Len(node.members)
  <1> DEFINE e == EnsureNodeChildren(d, r, n, DOMAIN node.members)
  <1> DEFINE base == Pass(e)
  <1> DEFINE Step(a, i) == VisitMember(p, a, v, r, n, i, user)
  <1> DEFINE Eq(g, m) == g = [i \in 0..m |-> IF i = 0 THEN base ELSE Step(g[i - 1], i)]
  <1> DEFINE P == CHOOSE g : Eq(g, N)
  <1>1. N \in Nat /\ DOMAIN node.members = 1..N
    <2>1. NodeOk(node)
      BY PlanFacts
    <2> QED BY <2>1 DEF NodeOk
  <1>2. DispatchFanIn(p, d, v, r, n, user) = FinishFanIn(node, P[N], r, n)
    BY DEF DispatchFanIn
  <1> HIDE DEF N, node, base, Step, e
  <1>3. \A m \in Nat : \E g : Eq(g, m)
    <2> DEFINE S == {m \in Nat : \E g : Eq(g, m)}
    <2>1. 0 \in S
      <3> DEFINE g == [i \in 0..0 |-> base]
      <3>1. Eq(g, 0)
        OBVIOUS
      <3> QED BY <3>1
    <2>2. ASSUME NEW m \in Nat, m \in S PROVE m + 1 \in S
      <3>1. PICK g : Eq(g, m)
        BY <2>2
      <3> DEFINE h == [i \in 0..(m + 1) |-> IF i = m + 1 THEN Step(g[m], m + 1) ELSE g[i]]
      <3>2. \A i \in 0..m : h[i] = g[i]
        OBVIOUS
      <3>3. \A i \in 0..(m + 1) : h[i] = IF i = 0 THEN base ELSE Step(h[i - 1], i)
        <4> TAKE i \in 0..(m + 1)
        <4>1. CASE i = m + 1
          BY <3>2, <4>1
        <4>2. CASE i # m + 1
          <5>1. i \in 0..m /\ h[i] = g[i] /\ (i # 0 => i - 1 \in 0..m)
            BY <4>2
          <5>2. g[i] = IF i = 0 THEN base ELSE Step(g[i - 1], i)
            BY <3>1, <5>1
          <5>3. i # 0 => h[i - 1] = g[i - 1]
            BY <3>2, <5>1
          <5> HIDE DEF h
          <5> QED BY <5>1, <5>2, <5>3
        <4> QED BY <4>1, <4>2
      <3>4. Eq(h, m + 1)
        BY <3>3
      <3>5. \E f : Eq(f, m + 1)
        BY <3>4
      <3> QED BY <3>5
    <2> HIDE DEF S
    <2>3. \A m \in Nat : m \in S
      BY <2>1, <2>2, InductionOnSets
    <2> QED BY <2>3 DEF S
  <1>4. Eq(P, N)
    <2>1. \E g : Eq(g, N)
      BY <1>1, <1>3
    <2> HIDE DEF Eq
    <2> QED BY <2>1
  <1> HIDE DEF P
  <1>5. P[0] = base /\ \A i \in 1..N : P[i] = Step(P[i - 1], i)
    BY <1>1, <1>4
  <1>6. FanInBy(p, d, v, r, n, user, P)
    BY <1>2, <1>5 DEF FanInBy, N, node, base, Step, e
  <1> QED BY <1>1, <1>6 DEF N, node

\* What holds of a pass that starts and is kept by every member holds when it ends.
LEMMA FanInInduction ==
    ASSUME NEW N \in Nat, NEW S, 0 \in S, \A m \in 0..N : m \in S /\ m < N => m + 1 \in S
    PROVE  N \in S
  <1> DEFINE T == {m \in Nat : m <= N => m \in S}
  <1>1. 0 \in T
    OBVIOUS
  <1>2. ASSUME NEW m \in Nat, m \in T PROVE m + 1 \in T
    BY <1>2
  <1> HIDE DEF T
  <1>3. \A m \in Nat : m \in T
    BY <1>1, <1>2, InductionOnSets
  <1> QED BY <1>3 DEF T

\* The pass over the members of a fan-in, by induction on the member.
LEMMA DispatchFanInIsSound ==
    ASSUME NEW p, PlanOk(p), NEW d, DbOk(p, d), NEW r \in DOMAIN d.runs, NEW n \in DOMAIN PlanOf(p, r),
           <<r, n>> \in DOMAIN d.nodes, PlanOf(p, r)[n].kind \in {"parallel", "map"},
           NEW v, ViewOk(p, d, r, n, v), NEW user
    PROVE  Becomes(p, d, DispatchFanIn(p, d, v, r, n, user).db)
  <1> DEFINE node == PlanOf(p, r)[n]
  <1> DEFINE N == Len(node.members)
  <1> DEFINE e == EnsureNodeChildren(d, r, n, DOMAIN node.members)
  <1>1. N \in Nat /\ DOMAIN node.members = 1..N
    BY FanInPass
  <1>0. PICK P : FanInBy(p, d, v, r, n, user, P)
    BY FanInPass
  <1>2. /\ DispatchFanIn(p, d, v, r, n, user) = FinishFanIn(node, P[N], r, n)
        /\ P[0] = Pass(e)
        /\ \A i \in 1..N : P[i] = VisitMember(p, P[i - 1], v, r, n, i, user)
    BY <1>0 DEF FanInBy
  <1>3. Becomes(p, d, e) /\ \A i \in DOMAIN node.members : <<r, n, i>> \in DOMAIN e.kids
    <2>1. ChildrenOf(p, d, r, n) = DOMAIN node.members
      BY DEF ChildrenOf
    <2> QED BY <2>1, EnsureNodeChildrenIsSound
  <1>4. PassOk(p, e, P[0])
    <2>1. "db" \in DOMAIN Pass(e) /\ Pass(e).db = e
      BY DEF Pass
    <2>2. Becomes(p, e, e)
      BY <1>3, Stays DEF Becomes
    <2> HIDE DEF e
    <2> QED BY <1>2, <2>1, <2>2 DEF PassOk
  <1> HIDE DEF e
  <1>5. PassStarts(p, e, r, n, v)
    BY <1>3, ViewStays DEF PassStarts, Becomes, Later, Dispatchable
  <1>6. ASSUME NEW m \in 0..N, PassOk(p, e, P[m]), m < N PROVE PassOk(p, e, P[m + 1])
    <2>1. m + 1 \in 1..N /\ (m + 1) - 1 = m
      BY <1>1, <1>6
    <2>2. P[m + 1] = VisitMember(p, P[m], v, r, n, m + 1, user)
      BY <1>2, <2>1
    <2> QED BY <1>1, <1>5, <1>6, <2>1, <2>2, VisitMemberIsSound
  <1> HIDE DEF N, node
  <1>7. PassOk(p, e, P[N])
    <2> DEFINE S == {m \in 0..N : PassOk(p, e, P[m])}
    <2>1. 0 \in S
      BY <1>1, <1>4
    <2>2. \A m \in 0..N : m \in S /\ m < N => m + 1 \in S
      BY <1>1, <1>6
    <2> HIDE DEF S
    <2>3. N \in S
      BY <1>1, <2>1, <2>2, FanInInduction
    <2> QED BY <2>3 DEF S
  <1>8. Becomes(p, e, FinishFanIn(node, P[N], r, n).db)
    <2>1. r \in DOMAIN e.runs
      BY <1>3 DEF Becomes, Later
    <2> QED BY <1>7, <2>1, FinishFanInIsSound
  <1> QED BY <1>2, <1>3, <1>8, BecomesTransitive

\* A node of any kind.
LEMMA DispatchNodeIsSound ==
    ASSUME NEW p, PlanOk(p), NEW d, DbOk(p, d), NEW r \in DOMAIN d.runs, NEW n \in DOMAIN PlanOf(p, r),
           NEW v, ViewOk(p, d, r, n, v), NEW user
    PROVE  Becomes(p, d, DispatchNode(p, d, v, r, n, user).db)
  <1> DEFINE e == CreateNode(d, r, n)
  <1> DEFINE kind == PlanOf(p, r)[n].kind
  <1> DEFINE res == DispatchNode(p, d, v, r, n, user)
  <1>1. Becomes(p, d, e) /\ <<r, n>> \in DOMAIN e.nodes
    BY CreateNodeIsSound
  <1>2. /\ e.nodes[<<r, n>>].status \in Terminal => res = Result(e, "parked")
        /\ e.nodes[<<r, n>>].status \notin Terminal =>
            /\ kind = "branch" => res = DispatchBranchNode(p, e, v, r, n, user)
            /\ kind \in {"parallel", "map"} => res = DispatchFanIn(p, e, v, r, n, user)
            /\ kind \notin {"branch", "parallel", "map"} => res = DispatchSingleNode(p, e, v, r, n, user)
    <2> DEFINE t == e.nodes[<<r, n>>].status \in Terminal
    <2>1. res = CASE t -> Result(e, "parked")
                  [] ~t /\ kind = "branch" -> DispatchBranchNode(p, e, v, r, n, user)
                  [] ~t /\ kind \in {"parallel", "map"} -> DispatchFanIn(p, e, v, r, n, user)
                  [] OTHER -> DispatchSingleNode(p, e, v, r, n, user)
      BY DEF DispatchNode
    <2> HIDE DEF res, t, kind
    <2> QED BY <2>1 DEF t
  <1> HIDE DEF e, res
  <1>3. DbOk(p, e) /\ r \in DOMAIN e.runs /\ ViewOk(p, e, r, n, v)
    BY <1>1, ViewStays DEF Becomes, Later
  <1>4. Becomes(p, e, res.db)
    <2>1. CASE e.nodes[<<r, n>>].status \in Terminal
      BY <1>2, <1>3, <2>1, Results, Stays
    <2>2. CASE e.nodes[<<r, n>>].status \notin Terminal
      BY <1>1, <1>2, <1>3, <2>2, DispatchBranchNodeIsSound, DispatchFanInIsSound, DispatchSingleNodeIsSound
    <2> QED BY <2>1, <2>2
  <1> QED BY <1>1, <1>4, BecomesTransitive DEF res

\* A view is of rows that are there.
LEMMA ViewOfIsSound ==
    ASSUME NEW p, PlanOk(p), NEW d, DbOk(p, d), NEW r \in DOMAIN d.runs, NEW n \in DOMAIN PlanOf(p, r)
    PROVE  ViewOk(p, d, r, n, ViewOf(p, d, r, n))
  <1> DEFINE v == ViewOf(p, d, r, n)
  <1> SUFFICES ASSUME NEW i \in DOMAIN PlanOf(p, r)[n].members
               PROVE  /\ v[i].run \in RunStatus \cup {"none"}
                      /\ v[i].run # "none" => ChildRun(<<r, n, i>>) \in DOMAIN d.runs
    BY DEF ViewOk
  <1> DEFINE k == <<r, n, i>>
  <1>1. v[i].run = IF ChildRow(d, k).linked THEN d.runs[ChildRun(k)] ELSE "none"
    BY DEF ViewOf
  <1>2. ChildRow(d, k).linked => ChildRun(k) \in DOMAIN d.runs
    <2>1. CASE k \in DOMAIN d.kids
      BY <2>1 DEF ChildRow, DbOk, KidsOk
    <2>2. CASE k \notin DOMAIN d.kids
      BY <2>2 DEF ChildRow
    <2> QED BY <2>1, <2>2
  <1> HIDE DEF v, k
  <1> QED BY <1>1, <1>2, RowsAreTyped DEF k
\* The first open node is a node of the plan, or its end.
LEMMA FirstOpenNodeIsNext ==
    ASSUME NEW p, PlanOk(p), NEW r, NEW nodes
    PROVE  FirstOpenNode(p, r, nodes) \in 1..(Len(PlanOf(p, r)) + 1)
  <1> DEFINE open == {n \in DOMAIN PlanOf(p, r) : n \notin DOMAIN nodes \/ nodes[n] # "completed"}
  <1> DEFINE end == Len(PlanOf(p, r))
  <1>1. end \in Nat /\ DOMAIN PlanOf(p, r) = 1..end
    BY PlanFacts
  <1>2. open \subseteq 1..end
    BY <1>1
  <1>3. FirstOpenNode(p, r, nodes) = IF open = {} THEN end + 1 ELSE CHOOSE n \in open : \A m \in open : n <= m
    BY DEF FirstOpenNode
  <1> HIDE DEF open, end
  <1>4. CASE open = {}
    BY <1>1, <1>3, <1>4 DEF end
  <1>5. CASE open # {}
    <2>0. open \subseteq Nat
      BY <1>1, <1>2
    <2>1. \E n \in open : \A m \in open : n <= m
      BY <1>5, <2>0, LeastNatural
    <2>2. FirstOpenNode(p, r, nodes) \in open
      BY <1>3, <1>5, <2>1
    <2> DEFINE n == FirstOpenNode(p, r, nodes)
    <2>3. n \in 1..end
      BY <1>2, <2>2
    <2> HIDE DEF n
    <2>4. n \in 1..(end + 1)
      BY <1>1, <2>3
    <2> QED BY <2>4 DEF n, end
  <1> QED BY <1>4, <1>5

\* P is the pass over the nodes of a run from n on, node by node.
AdvancedBy(p, d, v, r, n, user, P) ==
    LET end == Len(PlanOf(p, r))
    IN  /\ AdvanceWorkflowRun(p, d, v, r, n, user) =
                IF P[end].out # "next" THEN P[end]
                ELSE IF user.throws # 0 THEN Result(FailRunAndWakeParent(P[end].db, r), "terminal")
                ELSE Result(CompleteRunAndWakeParent(P[end].db, r), "terminal")
        /\ P[n - 1] = Result(d, "next")
        /\ \A m \in n..end : P[m] = AdvanceBy(p, P[m - 1], v, r, n, m, user)

\* The pass over the nodes of a run is the function its equation says.
LEMMA AdvancePass ==
    ASSUME NEW p, PlanOk(p), NEW d, NEW r, NEW n \in 1..(Len(PlanOf(p, r)) + 1), NEW v, NEW user
    PROVE  /\ Len(PlanOf(p, r)) \in Nat /\ DOMAIN PlanOf(p, r) = 1..Len(PlanOf(p, r))
           /\ n - 1 \in Nat /\ n - 1 <= Len(PlanOf(p, r)) /\ n \in Nat
           /\ \E P : AdvancedBy(p, d, v, r, n, user, P)
  <1> DEFINE end == Len(PlanOf(p, r))
  <1> DEFINE base == Result(d, "next")
  <1> DEFINE Step(a, m) == AdvanceBy(p, a, v, r, n, m, user)
  <1> DEFINE Eq(g, t) == g = [m \in (n - 1)..t |-> IF m = n - 1 THEN base ELSE Step(g[m - 1], m)]
  <1> DEFINE P == CHOOSE g : Eq(g, end)
  <1> DEFINE last == P[end]
  <1>1. end \in Nat /\ DOMAIN PlanOf(p, r) = 1..end /\ n - 1 \in Nat /\ n - 1 <= end /\ n \in Nat
    BY PlanFacts
  <1>2. AdvanceWorkflowRun(p, d, v, r, n, user) =
            IF last.out # "next" THEN last
            ELSE IF user.throws # 0 THEN Result(FailRunAndWakeParent(last.db, r), "terminal")
            ELSE Result(CompleteRunAndWakeParent(last.db, r), "terminal")
    BY DEF AdvanceWorkflowRun
  <1> HIDE DEF end, base, Step
  <1>3. \A j \in Nat : \E g : Eq(g, (n - 1) + j)
    <2> DEFINE S == {j \in Nat : \E g : Eq(g, (n - 1) + j)}
    <2>1. 0 \in S
      <3> DEFINE g == [m \in (n - 1)..(n - 1) |-> base]
      <3>1. Eq(g, n - 1)
        BY <1>1
      <3>2. (n - 1) + 0 = n - 1
        BY <1>1
      <3>3. \E f : Eq(f, (n - 1) + 0)
        BY <3>1, <3>2
      <3> QED BY <3>3
    <2>2. ASSUME NEW j \in Nat, j \in S PROVE j + 1 \in S
      <3> DEFINE t == (n - 1) + j
      <3>1. PICK g : Eq(g, t)
        BY <2>2
      <3>2. t \in Nat /\ t >= n - 1 /\ (n - 1) + (j + 1) = t + 1
        BY <1>1
      <3> HIDE DEF t
      <3> DEFINE h == [m \in (n - 1)..(t + 1) |-> IF m = t + 1 THEN Step(g[t], t + 1) ELSE g[m]]
      <3>3. \A m \in (n - 1)..t : h[m] = g[m]
        BY <1>1, <3>2
      <3>4. \A m \in (n - 1)..(t + 1) : h[m] = IF m = n - 1 THEN base ELSE Step(h[m - 1], m)
        <4> TAKE m \in (n - 1)..(t + 1)
        <4>1. CASE m = t + 1
          <5>1. m # n - 1 /\ m - 1 = t /\ t \in (n - 1)..t /\ h[m] = Step(g[t], t + 1)
            BY <1>1, <3>2, <4>1
          <5>2. h[t] = g[t]
            BY <3>3, <5>1
          <5> HIDE DEF h
          <5> QED BY <4>1, <5>1, <5>2
        <4>2. CASE m # t + 1
          <5>1. m \in (n - 1)..t /\ (m # n - 1 => m - 1 \in (n - 1)..t)
            BY <1>1, <3>2, <4>2
          <5>2. g[m] = IF m = n - 1 THEN base ELSE Step(g[m - 1], m)
            BY <3>1, <5>1
          <5>3. h[m] = g[m] /\ (m # n - 1 => h[m - 1] = g[m - 1])
            BY <3>3, <5>1
          <5> HIDE DEF h
          <5> QED BY <5>2, <5>3
        <4> QED BY <4>1, <4>2
      <3>5. Eq(h, t + 1)
        BY <3>4
      <3>6. \E f : Eq(f, (n - 1) + (j + 1))
        BY <3>2, <3>5
      <3> QED BY <3>6
    <2> HIDE DEF S
    <2>3. \A j \in Nat : j \in S
      BY <2>1, <2>2, InductionOnSets
    <2> QED BY <2>3 DEF S
  <1>4. Eq(P, end)
    <2>1. end - (n - 1) \in Nat /\ (n - 1) + (end - (n - 1)) = end
      BY <1>1
    <2>2. \E g : Eq(g, end)
      BY <1>3, <2>1
    <2> HIDE DEF Eq
    <2> QED BY <2>2
  <1> HIDE DEF P
  <1>5. P[n - 1] = base /\ \A m \in n..end : P[m] = Step(P[m - 1], m)
    BY <1>1, <1>4
  <1>6. AdvancedBy(p, d, v, r, n, user, P)
    BY <1>2, <1>5 DEF AdvancedBy, end, base, Step
  <1> QED BY <1>1, <1>6 DEF end

\* What holds before node n and is kept by every node holds after the last.
LEMMA AdvanceInduction ==
    ASSUME NEW n \in Nat, NEW end \in Nat, n - 1 \in Nat, n - 1 <= end, NEW S, n - 1 \in S,
           \A m \in n..end : m - 1 \in S => m \in S
    PROVE  end \in S
  <1> DEFINE T == {j \in Nat : (n - 1) + j <= end => (n - 1) + j \in S}
  <1>1. 0 \in T
    <2>1. (n - 1) + 0 = n - 1
      OBVIOUS
    <2> QED BY <2>1
  <1>2. ASSUME NEW j \in Nat, j \in T PROVE j + 1 \in T
    <2> DEFINE m == (n - 1) + (j + 1)
    <2>1. CASE m <= end
      <3>1. m \in n..end /\ m - 1 = (n - 1) + j /\ (n - 1) + j <= end
        BY <2>1
      <3>2. m - 1 \in S
        BY <1>2, <3>1
      <3>3. m \in S
        BY <3>1, <3>2
      <3> QED BY <3>3
    <2>2. CASE ~(m <= end)
      BY <2>2
    <2> QED BY <2>1, <2>2
  <1> HIDE DEF T
  <1>3. \A j \in Nat : j \in T
    BY <1>1, <1>2, InductionOnSets
  <1>4. end - (n - 1) \in Nat /\ (n - 1) + (end - (n - 1)) = end
    OBVIOUS
  <1>5. end - (n - 1) \in T
    BY <1>3, <1>4
  <1> QED BY <1>4, <1>5 DEF T

\* The pass over the nodes of a run, by induction on the node.
LEMMA AdvanceWorkflowRunIsSound ==
    ASSUME NEW p, PlanOk(p), NEW d, DbOk(p, d), NEW r \in DOMAIN d.runs,
           NEW n \in 1..(Len(PlanOf(p, r)) + 1), NEW v,
           n \in DOMAIN PlanOf(p, r) => ViewOk(p, d, r, n, v), NEW user
    PROVE  Becomes(p, d, AdvanceWorkflowRun(p, d, v, r, n, user).db)
  <1> DEFINE end == Len(PlanOf(p, r))
  <1> DEFINE Step(a, m) == AdvanceBy(p, a, v, r, n, m, user)
  <1>1. end \in Nat /\ DOMAIN PlanOf(p, r) = 1..end /\ n - 1 \in Nat /\ n - 1 <= end /\ n \in Nat
    BY AdvancePass
  <1>0. PICK P : AdvancedBy(p, d, v, r, n, user, P)
    BY AdvancePass
  <1>2. /\ AdvanceWorkflowRun(p, d, v, r, n, user) =
                IF P[end].out # "next" THEN P[end]
                ELSE IF user.throws # 0 THEN Result(FailRunAndWakeParent(P[end].db, r), "terminal")
                ELSE Result(CompleteRunAndWakeParent(P[end].db, r), "terminal")
        /\ P[n - 1] = Result(d, "next")
        /\ \A m \in n..end : P[m] = Step(P[m - 1], m)
    BY <1>0 DEF AdvancedBy
  <1>3. Becomes(p, d, P[n - 1].db)
    BY <1>2, Results, Stays
  <1>4. ASSUME NEW a, Becomes(p, d, a.db), NEW m \in n..end PROVE Becomes(p, d, Step(a, m).db)
    <2> DEFINE w == IF m = n THEN v ELSE ViewOf(p, a.db, r, m)
    <2>1. DbOk(p, a.db) /\ r \in DOMAIN a.db.runs /\ m \in DOMAIN PlanOf(p, r)
      BY <1>1, <1>4 DEF Becomes, Later
    <2>2. ViewOk(p, a.db, r, m, w)
      <3>1. CASE m = n
        BY <1>4, <2>1, <3>1, ViewStays DEF Becomes
      <3>2. CASE m # n
        BY <2>1, <3>2, ViewOfIsSound
      <3> QED BY <3>1, <3>2
    <2>3. Step(a, m) \in {a, DispatchNode(p, a.db, w, r, m, user)}
      BY DEF AdvanceBy
    <2> HIDE DEF w, Step
    <2>4. Becomes(p, a.db, DispatchNode(p, a.db, w, r, m, user).db)
      BY <2>1, <2>2, DispatchNodeIsSound
    <2> QED BY <1>4, <2>3, <2>4, BecomesTransitive
  <1> HIDE DEF end, Step
  <1>5. Becomes(p, d, P[end].db)
    <2> DEFINE S == {m \in Nat : Becomes(p, d, P[m].db)}
    <2>1. n - 1 \in S
      BY <1>1, <1>3
    <2>2. \A m \in n..end : m - 1 \in S => m \in S
      BY <1>1, <1>2, <1>4
    <2> HIDE DEF S
    <2>3. end \in S
      BY <1>1, <2>1, <2>2, AdvanceInduction
    <2> QED BY <2>3 DEF S
  <1> DEFINE last == P[end]
  <1>6. Becomes(p, d, last.db)
    BY <1>5
  <1>7. AdvanceWorkflowRun(p, d, v, r, n, user).db \in
            {last.db, FailRunAndWakeParent(last.db, r), CompleteRunAndWakeParent(last.db, r)}
    BY <1>2, Results
  <1> HIDE DEF last
  <1>8. Becomes(p, d, FailRunAndWakeParent(last.db, r)) /\ Becomes(p, d, CompleteRunAndWakeParent(last.db, r))
    <2>1. DbOk(p, last.db) /\ r \in DOMAIN last.db.runs
      BY <1>6 DEF Becomes, Later
    <2> QED BY <1>6, <2>1, SinksAreSound, BecomesTransitive
  <1> QED BY <1>6, <1>7, <1>8

\* What a coordinator commits agrees, and takes nothing back.
LEMMA ContinueWorkflowRunIsSound ==
    ASSUME NEW p, PlanOk(p), NEW d, DbOk(p, d), NEW r \in DOMAIN d.runs, NEW status, NEW nodes, NEW v,
           FirstOpenNode(p, r, nodes) \in DOMAIN PlanOf(p, r) =>
                ViewOk(p, d, r, FirstOpenNode(p, r, nodes), v),
           NEW user
    PROVE  Becomes(p, d, ContinueWorkflowRun(p, d, status, nodes, v, r, user))
  <1> DEFINE first == FirstOpenNode(p, r, nodes)
  <1> DEFINE e == SetRun(d, r, "running")
  <1> DEFINE result == AdvanceWorkflowRun(p, e, v, r, first, user)
  <1> DEFINE failed == CHOOSE n \in {n \in DOMAIN nodes : nodes[n] = "failed"} : TRUE
  <1>1. ContinueWorkflowRun(p, d, status, nodes, v, r, user) \in
            {CancelRunAndWakeParent(p, d, r), WakeParentRun(d, r), FailRunAndWakeParent(d, r),
             FailRunAndWakeParent(CancelNodeChildren(p, d, r, failed), r),
             SetRun(result.db, r, "waiting"), result.db}
    BY DEF ContinueWorkflowRun
  <1>2. Becomes(p, d, e)
    BY SetRunIsSound DEF Moves
  <1> HIDE DEF e, failed
  <1>3. Becomes(p, e, result.db)
    <2>1. first \in 1..(Len(PlanOf(p, r)) + 1)
      BY FirstOpenNodeIsNext
    <2>2. DbOk(p, e) /\ r \in DOMAIN e.runs /\ (first \in DOMAIN PlanOf(p, r) => ViewOk(p, e, r, first, v))
      BY <1>2, ViewStays DEF Becomes, Later
    <2> HIDE DEF first
    <2> QED BY <2>1, <2>2, AdvanceWorkflowRunIsSound
  <1> HIDE DEF result
  <1>4. Becomes(p, d, result.db) /\ Becomes(p, d, SetRun(result.db, r, "waiting"))
    <2>1. Becomes(p, result.db, SetRun(result.db, r, "waiting"))
      BY <1>3, SetRunIsSound DEF Becomes, Moves
    <2> QED BY <1>2, <1>3, <2>1, BecomesTransitive
  <1> DEFINE f == CancelNodeChildren(p, d, r, failed)
  <1>5. Becomes(p, d, FailRunAndWakeParent(f, r))
    <2>1. Becomes(p, d, f)
      BY CancelNodeChildrenIsSound
    <2> HIDE DEF f
    <2>2. DbOk(p, f) /\ r \in DOMAIN f.runs
      BY <2>1 DEF Becomes, Later
    <2> QED BY <2>1, <2>2, SinksAreSound, BecomesTransitive
  <1>6. Becomes(p, d, CancelRunAndWakeParent(p, d, r)) /\ Becomes(p, d, FailRunAndWakeParent(d, r))
        /\ Becomes(p, d, WakeParentRun(d, r))
    BY SinksAreSound, WakeIsSound
  <1> QED BY <1>1, <1>4, <1>5, <1>6
-----------------------------------------------------------------------------
(* The steps of the system.                                                *)

\* More runs, more activations.
LEMMA FramesGrow == ASSUME NEW R, NEW Q, R \subseteq Q, NEW q \in Seq(Frames(R)) PROVE q \in Seq(Frames(Q))
  <1>1. Frames(R) \subseteq Frames(Q)
    BY DEF Frames
  <1>2. q \in [1..Len(q) -> Frames(Q)] /\ Len(q) \in Nat
    BY <1>1
  <1> QED BY <1>2

\* What a coordinator or a sweep has read stays true of later rows.
LEMMA ReadsStay ==
    ASSUME NEW p, NEW d, NEW e, Later(d, e)
    PROVE  /\ \A c : CoordOk(p, d, c) => CoordOk(p, e, c)
           /\ \A s : SweepOk(d, s) => SweepOk(e, s)
  <1>1. ASSUME NEW c, CoordOk(p, d, c) PROVE CoordOk(p, e, c)
    <2> DEFINE n == FirstOpenNode(p, c.run, c.nodes)
    <2>1. c.run \in DOMAIN e.runs
      BY <1>1 DEF CoordOk, Later
    <2>2. c.view # None /\ n \in DOMAIN PlanOf(p, c.run) => ViewOk(p, e, c.run, n, c.view)
      BY <1>1, ViewStays DEF CoordOk
    <2> QED BY <1>1, <2>1, <2>2 DEF CoordOk
  <1>2. ASSUME NEW s, SweepOk(d, s) PROVE SweepOk(e, s)
    <2>1. s.stack \in Seq(Frames(DOMAIN e.runs))
      BY <1>2, FramesGrow DEF SweepOk, Later
    <2> QED BY <1>2, <2>1 DEF SweepOk, Later
  <1> QED BY <1>1, <1>2

\* What suffices for a step to be sound.
LEMMA StepIsSound ==
    ASSUME WfInv, plan' = plan, Becomes(plan, db, db'), ~db'.thrown,
           dead' \cup expired' \subseteq DOMAIN db'.runs, DOMAIN coord' = Coordinators,
           \A w \in Coordinators : coord'[w] # None => coord'[w] = coord[w] \/ CoordOk(plan, db', coord'[w]),
           sweep' # None => sweep' = sweep \/ SweepOk(db', sweep')
    PROVE  WfInv' /\ Later(db, db')
  <1>1. DbOk(plan, db') /\ Later(db, db')
    BY DEF Becomes
  <1>2. \A w \in Coordinators : coord'[w] # None => CoordOk(plan, db', coord'[w])
    BY <1>1, ReadsStay DEF WfInv
  <1>3. sweep' # None => SweepOk(db', sweep')
    BY <1>1, ReadsStay DEF WfInv
  <1> QED BY <1>1, <1>2, <1>3 DEF WfInv

\* A step on the rows alone.
LEMMA RowStepIsSound ==
    ASSUME WfInv, Becomes(plan, db, db'), ~db'.thrown, UNCHANGED <<plan, coord, dead, expired>>,
           sweep' # None => sweep' = sweep \/ SweepOk(db, sweep')
    PROVE  WfInv' /\ Later(db, db')
  <1>1. dead' \cup expired' \subseteq DOMAIN db'.runs
    BY DEF WfInv, Becomes, Later
  <1>2. sweep' # None => sweep' = sweep \/ SweepOk(db', sweep')
    BY ReadsStay DEF Becomes
  <1> QED BY <1>1, <1>2, StepIsSound DEF WfInv

\* A step that leaves the rows alone.
LEMMA NoRowStepIsSound ==
    ASSUME WfInv, UNCHANGED <<plan, db>>, dead' \cup expired' \subseteq DOMAIN db.runs,
           DOMAIN coord' = Coordinators,
           \A w \in Coordinators : coord'[w] # None => coord'[w] = coord[w] \/ CoordOk(plan, db, coord'[w]),
           sweep' # None => sweep' = sweep \/ SweepOk(db, sweep')
    PROVE  WfInv' /\ Later(db, db')
  <1>1. Becomes(plan, db, db') /\ ~db'.thrown
    BY Stays DEF WfInv
  <1> QED BY <1>1, StepIsSound DEF WfInv

\* Only starting work can throw.
LEMMA NothingThrows ==
    ASSUME NEW p, NEW d, DbOk(p, d), NEW r, NEW n, NEW k, NEW to
    PROVE  /\ Enqueue(d, r).thrown = d.thrown /\ WakeParentRun(d, r).thrown = d.thrown
           /\ SetRun(d, r, to).thrown = d.thrown /\ SetNode(d, r, n, to).thrown = d.thrown
           /\ SetKid(d, k, to).thrown = d.thrown
           /\ DropCommand(d, k).thrown = d.thrown /\ DeleteUnclaimed(d, r).thrown = d.thrown
           /\ CancelNonTerminalRunNodes(d, r).thrown = d.thrown
           /\ CancelRunTree(p, d, r).thrown = d.thrown
  <1> USE DEF DbOk, IsDb
  <1>1. Enqueue(d, r).thrown = d.thrown
    BY DEF Enqueue
  <1>2. WakeParentRun(d, r).thrown = d.thrown
    BY DEF WakeParentRun, Enqueue
  <1>3. SetRun(d, r, to).thrown = d.thrown
    BY DEF SetRun
  <1>4. SetNode(d, r, n, to).thrown = d.thrown
    BY DEF SetNode
  <1>5. SetKid(d, k, to).thrown = d.thrown
    BY DEF SetKid
  <1>6. DropCommand(d, k).thrown = d.thrown /\ DeleteUnclaimed(d, r).thrown = d.thrown
    BY DEF DropCommand, DeleteUnclaimed
  <1>7. CancelNonTerminalRunNodes(d, r).thrown = d.thrown
    BY DEF CancelNonTerminalRunNodes
  <1>8. CancelRunTree(p, d, r).thrown = d.thrown
    BY DEF CancelRunTree, CancelTrees
  <1> QED BY <1>1, <1>2, <1>3, <1>4, <1>5, <1>6, <1>7, <1>8

\* A coordinator's steps.
LEMMA CoordinationIsSound == WfInv /\ Coordination => WfInv' /\ Later(db, db')
  <1> SUFFICES ASSUME WfInv, NEW w \in Coordinators,
                      \/ \E r \in db.queue : LoadRun(w, r)
                      \/ ReadChildren(w)
                      \/ \E user \in UserChoices : CommitRun(w, user)
                      \/ CoordinatorCrashes(w)
               PROVE  WfInv' /\ Later(db, db')
    BY DEF Coordination
  <1>1. PlanOk(plan) /\ DbOk(plan, db) /\ ~db.thrown /\ DOMAIN coord = Coordinators
        /\ dead \cup expired \subseteq DOMAIN db.runs
    BY DEF WfInv
  <1>2. ASSUME NEW r \in db.queue, LoadRun(w, r) PROVE WfInv' /\ Later(db, db')
    <2> DEFINE N == [n \in {x[2] : x \in {y \in DOMAIN db.nodes : y[1] = r}} |-> db.nodes[<<r, n>>].status]
    <2> DEFINE c == [run |-> r, status |-> db.runs[r], view |-> None, nodes |-> N]
    <2>1. db' = [db EXCEPT !.queue = @ \ {r}] /\ coord' = [coord EXCEPT ![w] = c]
          /\ UNCHANGED <<plan, sweep, dead, expired>>
      BY <1>2 DEF LoadRun
    <2> DEFINE Q == db.queue \ {r}
    <2>2. db' = [db EXCEPT !.queue = Q]
      BY <2>1
    <2>3. r \in DOMAIN db.runs /\ Q \subseteq DOMAIN db.runs
      BY <1>1, RowsAreTyped
    <2> HIDE DEF Q, N
    <2>4. IsDb(db') /\ db'.runs = db.runs /\ db'.nodes = db.nodes /\ db'.kids = db.kids
          /\ db'.cmds = db.cmds /\ db'.thrown = db.thrown /\ db'.queue = Q
      BY <1>1, <2>2 DEF DbOk, IsDb
    <2>5. Updated(db, db')
      BY <1>1, <2>3, <2>4, RowsAreTyped DEF Updated
    <2>6. Becomes(plan, db, db')
      BY <1>1, <2>5, UpdateIsSound
    <2>7. CoordOk(plan, db', c)
      <3>1. c.run = r /\ c.view = None /\ c = [run |-> c.run, status |-> c.status, view |-> c.view, nodes |-> c.nodes]
        OBVIOUS
      <3> HIDE DEF c
      <3> QED BY <2>3, <2>4, <3>1 DEF CoordOk
    <2> HIDE DEF c
    <2>8. DOMAIN coord' = Coordinators /\ \A u \in Coordinators : coord'[u] = coord[u] \/ coord'[u] = c
      BY <1>1, <2>1
    <2> QED BY <1>1, <2>1, <2>4, <2>6, <2>7, <2>8, StepIsSound
  <1>3. ASSUME ReadChildren(w) PROVE WfInv' /\ Later(db, db')
    <2> DEFINE c == coord[w]
    <2> DEFINE n == FirstOpenNode(plan, c.run, c.nodes)
    <2> DEFINE v == IF n \in DOMAIN PlanOf(plan, c.run) THEN ViewOf(plan, db, c.run, n) ELSE <<>>
    <2> DEFINE b == [c EXCEPT !.view = v]
    <2>1. c # None /\ coord' = [coord EXCEPT ![w].view = v] /\ UNCHANGED <<plan, db, sweep, dead, expired>>
      BY <1>3 DEF ReadChildren
    <2>2. CoordOk(plan, db, c)
      BY <2>1 DEF WfInv
    <2>3. n \in DOMAIN PlanOf(plan, c.run) => ViewOk(plan, db, c.run, n, v)
      BY <1>1, <2>2, ViewOfIsSound DEF CoordOk
    <2>4. coord' = [coord EXCEPT ![w] = b]
      BY <2>1
    <2> HIDE DEF v
    <2>5. b.run = c.run /\ b.nodes = c.nodes /\ b.view = v
          /\ b = [run |-> b.run, status |-> b.status, view |-> b.view, nodes |-> b.nodes]
      <3> HIDE DEF c
      <3> QED BY <2>2 DEF CoordOk
    <2> HIDE DEF b
    <2>6. CoordOk(plan, db, b)
      BY <2>2, <2>3, <2>5 DEF CoordOk
    <2>7. DOMAIN coord' = Coordinators /\ \A u \in Coordinators : coord'[u] = coord[u] \/ coord'[u] = b
      BY <1>1, <2>4
    <2> QED BY <1>1, <2>1, <2>6, <2>7, NoRowStepIsSound
  <1>4. ASSUME NEW user \in UserChoices, CommitRun(w, user) PROVE WfInv' /\ Later(db, db')
    <2> DEFINE c == coord[w]
    <2> DEFINE d == ContinueWorkflowRun(plan, db, c.status, c.nodes, c.view, c.run, user)
    <2>1. c # None /\ c.view # None /\ db' = (IF d.thrown THEN Enqueue(db, c.run) ELSE d)
          /\ coord' = [coord EXCEPT ![w] = None] /\ UNCHANGED <<plan, sweep, dead, expired>>
      BY <1>4 DEF CommitRun
    <2>2. CoordOk(plan, db, c)
      BY <2>1 DEF WfInv
    <2>3. Becomes(plan, db, d)
      BY <1>1, <2>1, <2>2, ContinueWorkflowRunIsSound DEF CoordOk
    <2>4. Becomes(plan, db, Enqueue(db, c.run)) /\ Enqueue(db, c.run).thrown = db.thrown
      BY <1>1, <2>2, EnqueueIsSound, NothingThrows DEF CoordOk
    <2> HIDE DEF d
    <2>5. Becomes(plan, db, db') /\ ~db'.thrown
      BY <1>1, <2>1, <2>3, <2>4
    <2>6. DOMAIN coord' = Coordinators /\ \A u \in Coordinators : coord'[u] = coord[u] \/ coord'[u] = None
      BY <1>1, <2>1
    <2>7. dead' \cup expired' \subseteq DOMAIN db'.runs
      BY <1>1, <2>1, <2>5 DEF Becomes, Later
    <2> QED BY <2>1, <2>5, <2>6, <2>7, StepIsSound
  <1>5. ASSUME CoordinatorCrashes(w) PROVE WfInv' /\ Later(db, db')
    <2>1. coord[w] # None /\ coord' = [coord EXCEPT ![w] = None] /\ UNCHANGED <<plan, sweep, expired>>
          /\ \/ db' = Enqueue(db, coord[w].run) /\ UNCHANGED dead
             \/ dead' = dead \cup {coord[w].run} /\ UNCHANGED db
      BY <1>5 DEF CoordinatorCrashes
    <2>2. coord[w].run \in DOMAIN db.runs
      BY <2>1 DEF WfInv, CoordOk
    <2>3. DOMAIN coord' = Coordinators /\ \A u \in Coordinators : coord'[u] = coord[u] \/ coord'[u] = None
      BY <1>1, <2>1
    <2>4. CASE db' = Enqueue(db, coord[w].run) /\ UNCHANGED dead
      <3>1. Becomes(plan, db, db') /\ ~db'.thrown
        BY <1>1, <2>2, <2>4, EnqueueIsSound, NothingThrows
      <3>2. dead' \cup expired' \subseteq DOMAIN db'.runs
        BY <1>1, <2>1, <2>4, <3>1 DEF Becomes, Later
      <3> QED BY <2>1, <2>3, <3>1, <3>2, StepIsSound
    <2>5. CASE dead' = dead \cup {coord[w].run} /\ UNCHANGED db
      BY <1>1, <2>1, <2>2, <2>3, <2>5, NoRowStepIsSound
    <2> QED BY <2>1, <2>4, <2>5
  <1> QED BY <1>2, <1>3, <1>4, <1>5
\* A command whose status moves.
LEMMA CommandMoves ==
    ASSUME NEW p, NEW d, DbOk(p, d), NEW k, NEW to
    PROVE  /\ Becomes(p, d, [d EXCEPT !.cmds[k] = to])
           /\ [d EXCEPT !.cmds[k] = to].thrown = d.thrown
  <1> DEFINE C == [d.cmds EXCEPT ![k] = to]
  <1>1. [d EXCEPT !.cmds[k] = to] = [d EXCEPT !.cmds = C] /\ DOMAIN C \subseteq DOMAIN d.cmds
    OBVIOUS
  <1> HIDE DEF C
  <1>2. [d EXCEPT !.cmds = C].thrown = d.thrown
    BY DEF DbOk, IsDb
  <1> QED BY <1>1, <1>2, FewerCommands

\* A worker's steps.
LEMMA ExecutionIsSound == WfInv /\ Execution => WfInv' /\ Later(db, db')
  <1> SUFFICES ASSUME WfInv, NEW k \in DOMAIN db.cmds,
                      \/ StartAttempt(k)
                      \/ \E outcome \in {"completed", "failed"} : SettleAttempt(k, outcome)
                      \/ ObserveCancellation(k)
                      \/ WorkerCrashes(k)
               PROVE  WfInv' /\ Later(db, db')
    BY DEF Execution
  <1>1. PlanOk(plan) /\ DbOk(plan, db) /\ ~db.thrown
    BY DEF WfInv
  <1>2. k \in DOMAIN db.kids /\ k[1] \in DOMAIN db.runs /\ db.kids[k] \in KidRow
    <2>1. k \in DOMAIN db.kids
      BY <1>1 DEF DbOk, CmdsOk
    <2> QED BY <1>1, <2>1, KidFacts
  <1> DEFINE d0 == DropCommand(db, k)
  <1>3. Becomes(plan, db, d0) /\ ~d0.thrown /\ d0.kids = db.kids
    BY <1>1, DropCommandIsSound, NothingThrows
  <1>4. ASSUME StartAttempt(k) PROVE WfInv' /\ Later(db, db')
    <2> DEFINE d == [db EXCEPT !.cmds[k] = "claimed"]
    <2>1. db' \in {d0, SetRun(d, k[1], "running"), d} /\ UNCHANGED <<plan, coord, sweep, dead, expired>>
      BY <1>4 DEF StartAttempt
    <2>2. Becomes(plan, db, d) /\ ~d.thrown
      BY <1>1, CommandMoves
    <2> HIDE DEF d, d0
    <2>3. Becomes(plan, db, SetRun(d, k[1], "running")) /\ ~SetRun(d, k[1], "running").thrown
      <3>1. DbOk(plan, d)
        BY <2>2 DEF Becomes
      <3>2. Becomes(plan, d, SetRun(d, k[1], "running")) /\ SetRun(d, k[1], "running").thrown = d.thrown
        BY <3>1, SetRunIsSound, NothingThrows DEF Moves
      <3> QED BY <2>2, <3>2, BecomesTransitive
    <2>4. Becomes(plan, db, db') /\ ~db'.thrown
      BY <1>3, <2>1, <2>2, <2>3
    <2> QED BY <2>1, <2>4, RowStepIsSound
  <1>5. ASSUME NEW outcome \in {"completed", "failed"}, SettleAttempt(k, outcome) PROVE WfInv' /\ Later(db, db')
    <2> DEFINE r == k[1]
    <2> DEFINE d1 == [d0 EXCEPT !.kids[k] = [@ EXCEPT !.attempt = outcome, !.status = outcome]]
    <2> DEFINE d2 == IF Single(k) THEN SetNode(d1, r, k[2], outcome) ELSE d1
    <2> DEFINE d3 == IF KindOfRun(plan, r) = "task" THEN WakeParentRun(SetRun(d2, r, outcome), r)
                     ELSE Enqueue(d2, r)
    <2> DEFINE row == [d0.kids[k] EXCEPT !.attempt = outcome, !.status = outcome]
    <2>1. db' = (IF db.kids[k].status \in Terminal THEN d0 ELSE d3) /\ UNCHANGED <<plan, coord, sweep, dead, expired>>
      BY <1>5 DEF SettleAttempt
    <2>2. CASE db.kids[k].status \in Terminal
      BY <1>3, <2>1, <2>2, RowStepIsSound
    <2>3. CASE db.kids[k].status \notin Terminal
      <3>1. DbOk(plan, d0) /\ outcome \in Moves /\ r \in DOMAIN d0.runs
        BY <1>2, <1>3 DEF Becomes, Later, Moves
      <3>2. row \in KidRow /\ row.linked = d0.kids[k].linked /\ row.attempt = outcome /\ outcome # "none"
        <4> HIDE DEF d0
        <4> QED BY <1>2, <1>3 DEF KidRow, NodeStatus
      <3> HIDE DEF d0
      <3>3. d1 = [d0 EXCEPT !.kids[k] = row]
        OBVIOUS
      <3> HIDE DEF row, d1
      <3>4. IsDb(d1) /\ d1.runs = d0.runs /\ d1.nodes = d0.nodes /\ d1.kids = [d0.kids EXCEPT ![k] = row]
            /\ d1.cmds = d0.cmds /\ d1.thrown = d0.thrown /\ d1.queue = d0.queue
        BY <3>1, <3>3 DEF DbOk, IsDb
      <3>5. Updated(d0, d1)
        BY <1>2, <1>3, <2>3, <3>1, <3>2, <3>4, RowsAreTyped DEF Updated
      <3>6. Becomes(plan, d0, d1)
        BY <3>1, <3>5, UpdateIsSound
      <3>7. Becomes(plan, d0, d2) /\ d2.thrown = d0.thrown
        <4>1. DbOk(plan, d1)
          BY <3>6 DEF Becomes
        <4>2. Becomes(plan, d1, SetNode(d1, r, k[2], outcome)) /\ SetNode(d1, r, k[2], outcome).thrown = d1.thrown
          BY <3>1, <4>1, SetNodeIsSound, NothingThrows
        <4> QED BY <3>4, <3>6, <4>2, BecomesTransitive
      <3> HIDE DEF d2
      <3>8. DbOk(plan, d2) /\ r \in DOMAIN d2.runs
        BY <3>1, <3>7 DEF Becomes, Later
      <3> DEFINE e == SetRun(d2, r, outcome)
      <3>9. Becomes(plan, d2, e) /\ e.thrown = d2.thrown
        <4>1. Becomes(plan, d2, SetRun(d2, r, outcome))
          BY <3>1, <3>8, SetRunIsSound
        <4>2. SetRun(d2, r, outcome).thrown = d2.thrown
          BY <3>8, NothingThrows
        <4> QED BY <4>1, <4>2
      <3> HIDE DEF e
      <3>10. Becomes(plan, e, WakeParentRun(e, r)) /\ WakeParentRun(e, r).thrown = e.thrown
        <4>1. DbOk(plan, e) /\ r \in DOMAIN e.runs
          BY <3>8, <3>9 DEF Becomes, Later
        <4> QED BY <4>1, WakeIsSound, NothingThrows
      <3>11. Becomes(plan, d2, Enqueue(d2, r)) /\ Enqueue(d2, r).thrown = d2.thrown
        BY <3>8, EnqueueIsSound, NothingThrows
      <3>12. Becomes(plan, d2, d3) /\ d3.thrown = d2.thrown
        BY <3>9, <3>10, <3>11, BecomesTransitive DEF e
      <3> HIDE DEF d3
      <3>13. Becomes(plan, db, d3) /\ ~d3.thrown
        BY <1>3, <3>7, <3>12, BecomesTransitive
      <3> QED BY <2>1, <2>3, <3>13, RowStepIsSound
    <2> QED BY <2>2, <2>3
  <1>6. ASSUME ObserveCancellation(k) PROVE WfInv' /\ Later(db, db')
    BY <1>3, <1>6, RowStepIsSound DEF ObserveCancellation
  <1>7. ASSUME WorkerCrashes(k) PROVE WfInv' /\ Later(db, db')
    <2>1. PICK s : db' = [db EXCEPT !.cmds[k] = s]
      BY <1>7 DEF WorkerCrashes
    <2>2. Becomes(plan, db, db') /\ ~db'.thrown
      BY <1>1, <2>1, CommandMoves
    <2> QED BY <1>7, <2>2, RowStepIsSound DEF WorkerCrashes
  <1> QED BY <1>4, <1>5, <1>6, <1>7

\* The sweep goes on, with the same run.
LEMMA SweepGoesOn ==
    ASSUME NEW d, NEW s, SweepOk(d, s), NEW pc, NEW K, K \subseteq DOMAIN d.runs
    PROVE  /\ SweepOk(d, [s EXCEPT !.pc = pc]) /\ SweepOk(d, [s EXCEPT !.kids = K])
           /\ SweepOk(d, [s EXCEPT !.pc = pc, !.kids = K])
  <1>1. SweepOk(d, [s EXCEPT !.pc = pc])
    BY DEF SweepOk
  <1>2. ASSUME NEW t, SweepOk(d, t) PROVE SweepOk(d, [t EXCEPT !.kids = K])
    BY <1>2 DEF SweepOk
  <1>3. [s EXCEPT !.pc = pc, !.kids = K] = [[s EXCEPT !.pc = pc] EXCEPT !.kids = K]
    BY DEF SweepOk
  <1> QED BY <1>1, <1>2, <1>3

\* A sweep starts on a run.
LEMMA SweepStarts ==
    ASSUME NEW d, NEW why, NEW r \in DOMAIN d.runs, NEW kid, NEW pc PROVE SweepOk(d, Sweeping(why, r, kid, pc))
  BY DEF SweepOk, Sweeping

\* The last activation is replaced.
LEMMA StackMoves ==
    ASSUME NEW F, NEW q \in Seq(F), q # <<>>, NEW fs \in Seq(F)
    PROVE  Last(q) \in F /\ Front(q) \o fs \in Seq(F)
  <1>1. Front(q) \in Seq(F) /\ Last(q) \in F
    BY DEF Front, Last
  <1> QED BY <1>1

LEMMA TreeGoesOn ==
    ASSUME NEW d, NEW s, SweepOk(d, s), s.stack # <<>>, NEW fs \in Seq(Frames(DOMAIN d.runs))
    PROVE  SweepOk(d, [s EXCEPT !.stack = Front(@) \o fs])
  <1> DEFINE q == Front(s.stack) \o fs
  <1>1. q \in Seq(Frames(DOMAIN d.runs))
    BY StackMoves DEF SweepOk
  <1> HIDE DEF q
  <1>2. SweepOk(d, [s EXCEPT !.stack = q])
    BY <1>1 DEF SweepOk
  <1> QED BY <1>2 DEF q

\* The steps of cancelRunTree.
LEMMA TreeIsSound == ASSUME WfInv, CancelRunTreeSteps PROVE WfInv' /\ Later(db, db')
  <1> DEFINE R == DOMAIN db.runs
             t == Tree
  <1>1. PlanOk(plan) /\ DbOk(plan, db) /\ ~db.thrown
    BY DEF WfInv
  <1>2. sweep # None /\ sweep.stack # <<>> /\ SweepOk(db, sweep) /\ sweep.stack \in Seq(Frames(R))
    BY DEF CancelRunTreeSteps, TreeLoads, TreeRequests, TreeCancelsNodes, TreeLoadsChild, TreeAsksChild,
        TreeWakesChild, TreeDeletesCommands, TreeCancelsRun, InTree, WfInv, SweepOk
  <1>3. t \in Frames(R)
    BY <1>2, StackMoves DEF Tree
  <1>4. UNCHANGED <<plan, coord, dead, expired>>
    BY DEF CancelRunTreeSteps, TreeLoads, TreeRequests, TreeCancelsNodes, TreeLoadsChild, TreeAsksChild,
        TreeWakesChild, TreeDeletesCommands, TreeCancelsRun
  <1>5. ASSUME NEW f \in Frames(R) PROVE <<f>> \in Seq(Frames(R)) /\ \A g \in Frames(R) : <<f, g>> \in Seq(Frames(R))
    BY <1>5
  <1>6. ASSUME NEW fs \in Seq(Frames(R)), Descend(fs), Becomes(plan, db, db'), ~db'.thrown PROVE WfInv' /\ Later(db, db')
    <2>1. SweepOk(db, sweep')
      BY <1>2, <1>6, TreeGoesOn DEF Descend
    <2> QED BY <1>4, <1>6, <2>1, RowStepIsSound
  <1>7. Becomes(plan, db, db) /\ <<>> \in Seq(Frames(R))
    BY <1>1, Stays
  <1>8. \A r : /\ Becomes(plan, db, SetRun(db, r, "cancelling")) /\ ~SetRun(db, r, "cancelling").thrown
               /\ Becomes(plan, db, SetRun(db, r, "cancelled")) /\ ~SetRun(db, r, "cancelled").thrown
               /\ Becomes(plan, db, DeleteUnclaimed(db, r)) /\ ~DeleteUnclaimed(db, r).thrown
               /\ Becomes(plan, db, CancelNonTerminalRunNodes(db, r)) /\ ~CancelNonTerminalRunNodes(db, r).thrown
    BY <1>1, SetRunIsSound, DeleteUnclaimedIsSound, CancelNodesIsSound, NothingThrows DEF Moves
  <1>9. \A pc \in {"request", "nodes", "children", "commands", "cancel"} : [t EXCEPT !.pc = pc] \in Frames(R)
    BY <1>3 DEF Frames
  <1>10. CASE TreeLoads
    <2> DEFINE K == LinkedRuns(db, KidsOf(db, t.run))
    <2>1. K \subseteq R
      BY <1>1 DEF LinkedRuns, KidsOf, DbOk, KidsOk
    <2> HIDE DEF K
    <2>2. [t EXCEPT !.pc = "request", !.kids = K] \in Frames(R)
      BY <1>3, <2>1 DEF Frames
    <2>3. Descend(<<>>) \/ Descend(<<[t EXCEPT !.pc = "request", !.kids = K]>>)
      BY <1>10 DEF TreeLoads, K
    <2> HIDE DEF R, t
    <2> QED BY <1>1, <1>5, <1>6, <1>7, <1>10, <2>2, <2>3 DEF TreeLoads
  <1>11. CASE TreeRequests \/ TreeCancelsNodes \/ TreeDeletesCommands
    <2>1. \E pc \in {"nodes", "children", "cancel"} : Descend(<<[t EXCEPT !.pc = pc]>>)
      BY <1>11 DEF TreeRequests, TreeCancelsNodes, TreeDeletesCommands, TreeTo
    <2>2. Becomes(plan, db, db') /\ ~db'.thrown
      BY <1>8, <1>11 DEF TreeRequests, TreeCancelsNodes, TreeDeletesCommands
    <2> HIDE DEF R, t
    <2> QED BY <1>5, <1>6, <1>9, <2>1, <2>2
  <1>12. CASE TreeLoadsChild
    <2>1. \E f \in Frames(R) : Descend(<<f>>)
      <3>1. CASE TreeTo("commands")
        BY <1>9, <3>1 DEF TreeTo
      <3>2. ASSUME NEW c \in t.kids,
                   LET rest == [t EXCEPT !.kids = @ \ {c}]
                   IN  Descend(<<IF IsLive(db, c) THEN [rest EXCEPT !.pc = "ask", !.kid = c] ELSE rest>>)
            PROVE  \E f \in Frames(R) : Descend(<<f>>)
        <4> DEFINE rest == [t EXCEPT !.kids = @ \ {c}]
        <4>1. rest \in Frames(R) /\ c \in R
          BY <1>3, <3>2 DEF Frames
        <4>2. [rest EXCEPT !.pc = "ask", !.kid = c] \in Frames(R)
          BY <4>1 DEF Frames
        <4>3. Descend(<<rest>>) \/ Descend(<<[rest EXCEPT !.pc = "ask", !.kid = c]>>)
          BY <3>2
        <4> HIDE DEF rest
        <4> QED BY <4>1, <4>2, <4>3
      <3> QED BY <1>12, <3>1, <3>2 DEF TreeLoadsChild
    <2> HIDE DEF R, t
    <2> QED BY <1>1, <1>5, <1>6, <1>7, <1>12, <2>1 DEF TreeLoadsChild
  <1>13. CASE TreeAsksChild
    <2>1. t.pc = "ask" /\ Descend(<<[t EXCEPT !.pc = "wake"]>>) /\ db' = SetRun(db, t.kid, "cancelling")
      BY <1>13 DEF TreeAsksChild, TreeTo, InTree
    <2>2. [t EXCEPT !.pc = "wake"] \in Frames(R)
      BY <1>3, <2>1 DEF Frames
    <2> HIDE DEF R, t
    <2> QED BY <1>5, <1>6, <1>8, <2>1, <2>2
  <1>14. CASE TreeWakesChild
    <2>1. t.pc = "wake" /\ Descend(<<[t EXCEPT !.pc = "children", !.kid = None], Frame(t.kid)>>)
          /\ db' \in {Enqueue(db, t.kid), db}
      BY <1>14 DEF TreeWakesChild, InTree
    <2>2. t.kid \in R /\ [t EXCEPT !.pc = "children", !.kid = None] \in Frames(R)
      BY <1>3, <2>1 DEF Frames
    <2>4. Frame(t.kid) \in Frames(R)
      BY <2>2 DEF Frames, Frame
    <2> HIDE DEF t
    <2>5. Becomes(plan, db, Enqueue(db, t.kid)) /\ ~Enqueue(db, t.kid).thrown
      BY <1>1, <2>2, EnqueueIsSound, NothingThrows
    <2> HIDE DEF R
    <2>3. Becomes(plan, db, db') /\ ~db'.thrown
      BY <1>1, <1>7, <2>1, <2>5
    <2> QED BY <1>5, <1>6, <2>1, <2>2, <2>3, <2>4
  <1>15. CASE TreeCancelsRun
    BY <1>6, <1>7, <1>8, <1>15 DEF TreeCancelsRun
  <1> QED BY <1>10, <1>11, <1>12, <1>13, <1>14, <1>15 DEF CancelRunTreeSteps

\* The steps of the sweeps.
LEMMA MaintenanceIsSound == WfInv /\ Maintenance => WfInv' /\ Later(db, db')
  <1> SUFFICES ASSUME WfInv, Maintenance PROVE WfInv' /\ Later(db, db')
    OBVIOUS
  <1>1. PlanOk(plan) /\ DbOk(plan, db) /\ ~db.thrown /\ DOMAIN coord = Coordinators
        /\ dead \cup expired \subseteq DOMAIN db.runs /\ (sweep # None => SweepOk(db, sweep))
    BY DEF WfInv
  <1>2. ASSUME NEW r \in DOMAIN db.runs, Expire(r) PROVE WfInv' /\ Later(db, db')
    BY <1>1, <1>2, NoRowStepIsSound DEF Expire
  <1>3. ASSUME NEW r \in DOMAIN db.runs, SweepExpired(r) \/ SweepDeadContinue(r) PROVE WfInv' /\ Later(db, db')
    BY <1>1, <1>3, SweepStarts, NoRowStepIsSound DEF SweepExpired, SweepDeadContinue
  <1>4. ASSUME NEW k \in DOMAIN db.cmds, SweepDeadAttempt(k) PROVE WfInv' /\ Later(db, db')
    <2> DEFINE d == SetKid(db, k, "failed")
    <2>1. db' \in {d, SetNode(d, k[1], k[2], "failed")} /\ UNCHANGED <<plan, coord, dead, expired>>
          /\ sweep' = Sweeping("attempt", k[1], k, IF KindOfRun(plan, k[1]) = "task" THEN "read" ELSE "continue")
      BY <1>4 DEF SweepDeadAttempt
    <2>2. k[1] \in DOMAIN db.runs
      BY <1>1, KidFacts DEF DbOk, CmdsOk
    <2>3. Becomes(plan, db, d) /\ d.thrown = db.thrown
      BY <1>1, SetKidIsSound, NothingThrows DEF Moves
    <2> HIDE DEF d
    <2>4. Becomes(plan, db, SetNode(d, k[1], k[2], "failed")) /\ SetNode(d, k[1], k[2], "failed").thrown = d.thrown
      <3>1. DbOk(plan, d)
        BY <2>3 DEF Becomes
      <3> QED BY <2>3, <3>1, SetNodeIsSound, NothingThrows, BecomesTransitive DEF Moves
    <2>5. Becomes(plan, db, db') /\ ~db'.thrown
      BY <1>1, <2>1, <2>3, <2>4
    <2> QED BY <2>1, <2>2, <2>5, SweepStarts, RowStepIsSound
  <1>5. ASSUME SweepContinues \/ SweepWakesParent PROVE WfInv' /\ Later(db, db')
    <2>1. sweep # None /\ db' \in {Enqueue(db, sweep.run), WakeParentRun(db, sweep.run)}
          /\ UNCHANGED <<plan, coord, dead, expired>> /\ sweep' = [sweep EXCEPT !.pc = "mark"]
      BY <1>5 DEF SweepContinues, SweepWakesParent, SweepTo
    <2>2. SweepOk(db, sweep) /\ sweep.run \in DOMAIN db.runs
      BY <1>1, <2>1 DEF SweepOk
    <2>3. Becomes(plan, db, db') /\ ~db'.thrown
      BY <1>1, <2>1, <2>2, EnqueueIsSound, WakeIsSound, NothingThrows
    <2>4. SweepOk(db, sweep')
      BY <2>1, <2>2, SweepGoesOn
    <2> QED BY <2>1, <2>3, <2>4, RowStepIsSound
  <1>6. ASSUME SweepReads PROVE WfInv' /\ Later(db, db')
    <2> DEFINE K == LinkedRuns(db, KidsOf(db, sweep.run))
    <2>1. sweep # None /\ sweep' = [sweep EXCEPT !.pc = "trees", !.kids = K]
          /\ UNCHANGED <<plan, db, coord, dead, expired>>
      BY <1>6 DEF SweepReads
    <2>2. K \subseteq DOMAIN db.runs
      BY <1>1 DEF LinkedRuns, KidsOf, DbOk, KidsOk
    <2> HIDE DEF K
    <2>3. SweepOk(db, sweep')
      BY <1>1, <2>1, <2>2, SweepGoesOn
    <2> QED BY <1>1, <2>1, <2>3, NoRowStepIsSound
  <1>7. ASSUME SweepCancelsTree PROVE WfInv' /\ Later(db, db')
    <2>1. sweep # None /\ UNCHANGED <<plan, db, coord, dead, expired>>
          /\ \/ sweep' = [sweep EXCEPT !.pc = "commands"]
             \/ \E c \in sweep.kids : sweep' = [sweep EXCEPT !.kids = @ \ {c}, !.stack = <<Frame(c)>>]
      BY <1>7 DEF SweepCancelsTree, SweepTo
    <2>2. SweepOk(db, sweep) /\ sweep.kids \subseteq DOMAIN db.runs
      BY <1>1, <2>1 DEF SweepOk
    <2>3. ASSUME NEW c \in sweep.kids, sweep' = [sweep EXCEPT !.kids = @ \ {c}, !.stack = <<Frame(c)>>]
          PROVE  SweepOk(db, sweep')
      <3> DEFINE K == sweep.kids \ {c}
                 q == <<Frame(c)>>
      <3>1. Frame(c) \in Frames(DOMAIN db.runs)
        BY <2>2 DEF Frame, Frames
      <3>2. sweep' = [sweep EXCEPT !.kids = K, !.stack = q] /\ K \subseteq DOMAIN db.runs /\ q \in Seq(Frames(DOMAIN db.runs))
        BY <2>2, <2>3, <3>1
      <3> HIDE DEF K, q
      <3> QED BY <2>2, <3>2 DEF SweepOk
    <2>4. SweepOk(db, [sweep EXCEPT !.pc = "commands"])
      BY <2>2, SweepGoesOn
    <2>5. SweepOk(db, sweep')
      BY <2>1, <2>3, <2>4
    <2> QED BY <1>1, <2>1, <2>5, NoRowStepIsSound
  <1>8. ASSUME SweepDeletesCommands \/ SweepCancelsNodes \/ SweepFailsRun PROVE WfInv' /\ Later(db, db')
    <2>1. sweep # None /\ UNCHANGED <<plan, coord, dead, expired>> /\ (\E pc : sweep' = [sweep EXCEPT !.pc = pc])
          /\ db' \in {DeleteUnclaimed(db, sweep.run), CancelNonTerminalRunNodes(db, sweep.run),
                      SetRun(db, sweep.run, "failed")}
      BY <1>8 DEF SweepDeletesCommands, SweepCancelsNodes, SweepFailsRun, SweepTo
    <2>2. Becomes(plan, db, db')
      BY <1>1, <2>1, DeleteUnclaimedIsSound, CancelNodesIsSound, SetRunIsSound DEF Moves
    <2>3. ~db'.thrown
      BY <1>1, <2>1, NothingThrows
    <2>4. SweepOk(db, sweep')
      <3>1. PICK pc : sweep' = [sweep EXCEPT !.pc = pc]
        BY <2>1
      <3>2. SweepOk(db, [sweep EXCEPT !.pc = pc])
        BY <1>1, <2>1, SweepGoesOn
      <3> QED BY <3>1, <3>2
    <2> QED BY <2>1, <2>2, <2>3, <2>4, RowStepIsSound
  <1>9. ASSUME SweepMarks PROVE WfInv' /\ Later(db, db')
    <2>1. sweep' = None /\ UNCHANGED <<plan, coord, expired>> /\ dead' \subseteq dead
          /\ db' \in {[db EXCEPT !.cmds[sweep.kid] = "reaped"], db}
      BY <1>9 DEF SweepMarks
    <2>2. Becomes(plan, db, db') /\ ~db'.thrown
      <3>1. CASE db' = db
        BY <1>1, <3>1, Stays
      <3>2. CASE db' = [db EXCEPT !.cmds[sweep.kid] = "reaped"]
        <4> DEFINE k == sweep.kid
        <4>1. db' = [db EXCEPT !.cmds[k] = "reaped"]
          BY <3>2
        <4> HIDE DEF k
        <4> QED BY <1>1, <4>1, CommandMoves
      <3> QED BY <2>1, <3>1, <3>2
    <2>3. dead' \cup expired' \subseteq DOMAIN db'.runs
      BY <1>1, <2>1, <2>2 DEF Becomes, Later
    <2> QED BY <1>1, <2>1, <2>2, <2>3, StepIsSound
  <1>10. ASSUME SweepCrashes PROVE WfInv' /\ Later(db, db')
    BY <1>1, <1>10, NoRowStepIsSound DEF SweepCrashes
  <1> QED BY <1>2, <1>3, <1>4, <1>5, <1>6, <1>7, <1>8, <1>9, <1>10, TreeIsSound DEF Maintenance

\* The cancelling client's steps.
LEMMA ClientIsSound == WfInv /\ Client => WfInv' /\ Later(db, db')
  <1> SUFFICES ASSUME WfInv, Client PROVE WfInv' /\ Later(db, db')
    OBVIOUS
  <1>1. DbOk(plan, db) /\ ~db.thrown /\ DOMAIN coord = Coordinators /\ dead \cup expired \subseteq DOMAIN db.runs
    BY DEF WfInv
  <1>2. UNCHANGED <<plan, coord, sweep, dead, expired>>
        /\ db' \in {SetRun(db, Root, "cancelling"), Enqueue(db, Root), db}
    BY DEF Client, RequestCancel, EnqueueCancel, ClientCrashes
  <1>3. Becomes(plan, db, db')
    <2>1. Root \in DOMAIN db.runs
      BY <1>1 DEF DbOk, RunsOk
    <2> QED BY <1>1, <1>2, <2>1, SetRunIsSound, EnqueueIsSound, Stays DEF Moves
  <1>4. ~db'.thrown
    BY <1>1, <1>2, NothingThrows
  <1> QED BY <1>2, <1>3, <1>4, RowStepIsSound

-----------------------------------------------------------------------------
(* The theorems.                                                           *)

\* A root run alone.
LEMMA InitIsSound == Init => WfInv
  <1> SUFFICES ASSUME Init PROVE WfInv
    OBVIOUS
  <1>1. PlanOk(plan)
    BY RootPlansAssumption DEF Init
  <1>2. db = [runs |-> [r \in {Root} |-> "queued"], nodes |-> <<>>, kids |-> <<>>,
              queue |-> {Root}, cmds |-> <<>>, thrown |-> FALSE]
    BY DEF Init
  <1>3. db.runs = [r \in {Root} |-> "queued"] /\ DOMAIN db.nodes = {} /\ DOMAIN db.kids = {}
        /\ db.queue = {Root} /\ DOMAIN db.cmds = {} /\ ~db.thrown /\ db.thrown \in BOOLEAN
    BY <1>2
  <1>4. IsDb(db)
    <2> DEFINE Q == [r \in {Root} |-> "queued"]
    <2>1. db = [runs |-> Q, nodes |-> <<>>, kids |-> <<>>, queue |-> {Root}, cmds |-> <<>>, thrown |-> FALSE]
      BY <1>2
    <2> HIDE DEF Q
    <2> QED BY <2>1 DEF IsDb
  <1>5. RunsOk(plan, db)
    <2>1. Root \in RunNames /\ KindOfRun(plan, Root) = "workflow"
      BY DEF Root, RunNames, KindOfRun
    <2> QED BY <1>3, <2>1 DEF RunsOk, RunStatus
  <1>6. DbOk(plan, db)
    BY <1>3, <1>4, <1>5 DEF DbOk, NodesOk, KidsOk, CmdsOk
  <1> QED BY <1>1, <1>3, <1>6 DEF Init, WfInv

\* Every step keeps the rows in agreement and takes nothing back.
LEMMA NextIsSound == WfInv /\ [Next]_vars => WfInv' /\ Later(db, db')
  <1> SUFFICES ASSUME WfInv, [Next]_vars PROVE WfInv' /\ Later(db, db')
    OBVIOUS
  <1>1. CASE UNCHANGED vars
    BY <1>1, NoRowStepIsSound DEF vars, WfInv
  <1>2. CASE Next
    BY <1>2, CoordinationIsSound, ExecutionIsSound, MaintenanceIsSound, ClientIsSound DEF Next
  <1> QED BY <1>1, <1>2

\* The inductive invariant.
LEMMA WfInvHolds == Spec => []WfInv
  BY InitIsSound, NextIsSound, PTL DEF Spec

(***************************************************************************)
(* In every reachable state of any tree of runs, rows belong to rows: the  *)
(* node of a child and the run of a node exist, a child is linked exactly  *)
(* when its child run exists, a command is that of an attempt, what is     *)
(* queued, dead or expired is a run, and what a pass that threw wrote is   *)
(* never committed (continueWorkflowRun, the sweeps, client.cancel).       *)
(***************************************************************************)
THEOREM WorkflowRowsAgree == Spec => []TypeOK
  <1>1. WfInv => TypeOK
    <2> SUFFICES ASSUME WfInv PROVE TypeOK
      OBVIOUS
    <2>1. DbOk(plan, db) /\ ~db.thrown /\ dead \cup expired \subseteq DOMAIN db.runs
      BY DEF WfInv
    <2>2. DOMAIN db = {"runs", "nodes", "kids", "queue", "cmds", "thrown"}
      BY <2>1 DEF DbOk, IsDb
    <2>3. \A x \in DOMAIN db.nodes : x[1] \in DOMAIN db.runs /\ db.nodes[x].status \in NodeStatus
      BY <2>1 DEF DbOk, NodesOk, NodeRow
    <2>4. \A k \in DOMAIN db.kids :
            /\ <<k[1], k[2]>> \in DOMAIN db.nodes
            /\ db.kids[k] \in KidRow
            /\ db.kids[k].linked <=> ChildRun(k) \in DOMAIN db.runs
      BY <2>1 DEF DbOk, KidsOk
    <2> QED BY <2>1, <2>2, <2>3, <2>4 DEF TypeOK, DbOk, RunsOk, CmdsOk
  <1> QED BY <1>1, WfInvHolds, PTL

(***************************************************************************)
(* A run, node or child that has ended keeps its status, and no row of the *)
(* tree is lost, whatever coordinators with stale reads, late attempts,    *)
(* interrupted sweeps and the cancelling client write (the guarded updates *)
(* of the run store).                                                      *)
(***************************************************************************)
THEOREM WorkflowSettledIsFinal == Spec => SettledIsFinal
  <1> DEFINE A == /\ \A r \in DOMAIN db.runs : db.runs[r] \in Terminal => db'.runs[r] = db.runs[r]
                  /\ \A x \in DOMAIN db.nodes :
                        db.nodes[x].status \in Terminal => db'.nodes[x].status = db.nodes[x].status
                  /\ \A k \in DOMAIN db.kids :
                        db.kids[k].status \in Terminal => db'.kids[k].status = db.kids[k].status
  <1>1. WfInv /\ [Next]_vars => [A]_vars
    BY NextIsSound DEF Later
  <1>2. SettledIsFinal <=> [][A]_vars
    BY DEF SettledIsFinal
  <1> HIDE DEF A
  <1> QED BY <1>1, <1>2, WfInvHolds, PTL DEF Spec

-----------------------------------------------------------------------------
(* The concurrency of a map.                                               *)

WaitingMap(node) == node.kind = "map" /\ node.mode # "start-only"

\* The items of a map whose child run is alive.
LiveItems(p, d, r, n) == {i \in DOMAIN PlanOf(p, r)[n].members : IsLive(d, ChildRun(<<r, n, i>>))}

\* The items of a map that waits are started in order, and within its concurrency.
Within(p, d, r, n) ==
    /\ \A i, j \in DOMAIN PlanOf(p, r)[n].members :
        i < j /\ ChildRun(<<r, n, j>>) \in DOMAIN d.runs => ChildRun(<<r, n, i>>) \in DOMAIN d.runs
    /\ Cardinality(LiveItems(p, d, r, n)) <= PlanOf(p, r)[n].limit

MapsWithin(p, d) ==
    \A r \in RunNames : \A n \in DOMAIN PlanOf(p, r) : WaitingMap(PlanOf(p, r)[n]) => Within(p, d, r, n)

\* A view under the lock of its run: no child run has come since, and those
\* that had ended have.
ViewExact(p, d, r, n, v) ==
    \A i \in DOMAIN PlanOf(p, r)[n].members :
        /\ v[i].run = "none" <=> ChildRun(<<r, n, i>>) \notin DOMAIN d.runs
        /\ v[i].run \in Terminal => d.runs[ChildRun(<<r, n, i>>)] \in Terminal

MapInv ==
    /\ MapsWithin(plan, db)
    /\ \A u, w \in Coordinators : u # w /\ coord[u] # None /\ coord[w] # None => coord[u].run # coord[w].run
    /\ \A w \in Coordinators :
        LET n == FirstOpenNode(plan, coord[w].run, coord[w].nodes)
        IN  coord[w] # None /\ coord[w].view # None /\ n \in DOMAIN PlanOf(plan, coord[w].run)
            => ViewExact(plan, db, coord[w].run, n, coord[w].view)

\* No run comes with a write.
SameRuns(d, e) == IsDb(e) /\ DOMAIN e.runs = DOMAIN d.runs

\* Only a start brings a run.
LEMMA WritesBringNoRun ==
    ASSUME NEW d, IsDb(d), NEW p, NEW r, NEW n, NEW k, NEW to, NEW I, NEW R, NEW b
    PROVE  /\ SameRuns(d, Enqueue(d, r)) /\ SameRuns(d, WakeParentRun(d, r))
           /\ SameRuns(d, SetRun(d, r, to)) /\ SameRuns(d, SetNode(d, r, n, to)) /\ SameRuns(d, SetKid(d, k, to))
           /\ SameRuns(d, CreateNode(d, r, n)) /\ SameRuns(d, EnsureNodeChildren(d, r, n, I))
           /\ SameRuns(d, SelectNodeCase(d, r, n, b))
           /\ SameRuns(d, CancelTrees(p, d, R, b)) /\ SameRuns(d, DeleteUnclaimed(d, r))
           /\ SameRuns(d, CancelNonTerminalRunNodes(d, r)) /\ SameRuns(d, DropCommand(d, k))
  <1>1. ASSUME NEW f PROVE SameRuns(d, [d EXCEPT !.queue = f]) /\ SameRuns(d, [d EXCEPT !.cmds = f])
                           /\ SameRuns(d, [d EXCEPT !.nodes = f]) /\ SameRuns(d, [d EXCEPT !.kids = f])
                           /\ SameRuns(d, [d EXCEPT !.thrown = f])
                           /\ (DOMAIN f = DOMAIN d.runs => SameRuns(d, [d EXCEPT !.runs = f]))
    BY DEF SameRuns, IsDb
  <1>2. SameRuns(d, d)
    BY DEF SameRuns
  <1>3. SameRuns(d, Enqueue(d, r)) /\ SameRuns(d, WakeParentRun(d, r))
    <2>1. ASSUME NEW q PROVE SameRuns(d, Enqueue(d, q))
      <3> DEFINE f == d.queue \cup {q}
      <3>1. Enqueue(d, q) = [d EXCEPT !.queue = f]
        BY DEF Enqueue
      <3> HIDE DEF f
      <3> QED BY <1>1, <3>1
    <2> QED BY <1>2, <2>1 DEF WakeParentRun
  <1>4. SameRuns(d, SetRun(d, r, to))
    <2> DEFINE f == [d.runs EXCEPT ![r] = to]
    <2>1. SetRun(d, r, to) \in {d, [d EXCEPT !.runs = f]} /\ DOMAIN f = DOMAIN d.runs
      BY DEF SetRun
    <2> HIDE DEF f
    <2> QED BY <1>1, <1>2, <2>1
  <1>5. SameRuns(d, SetNode(d, r, n, to))
    <2> DEFINE f == [d.nodes EXCEPT ![<<r, n>>].status = to]
    <2>1. SetNode(d, r, n, to) \in {d, [d EXCEPT !.nodes = f]}
      BY DEF SetNode
    <2> HIDE DEF f
    <2> QED BY <1>1, <1>2, <2>1
  <1>6. SameRuns(d, SetKid(d, k, to))
    <2> DEFINE f == [d.kids EXCEPT ![k].status = to]
    <2>1. SetKid(d, k, to) \in {d, [d EXCEPT !.kids = f]}
      BY DEF SetKid
    <2> HIDE DEF f
    <2> QED BY <1>1, <1>2, <2>1
  <1>7. SameRuns(d, CreateNode(d, r, n))
    <2> DEFINE f == WithRows(d.nodes, {<<r, n>>}, [status |-> "pending", selected |-> 0])
    <2>1. CreateNode(d, r, n) \in {d, [d EXCEPT !.nodes = f]}
      BY DEF CreateNode
    <2> HIDE DEF f
    <2> QED BY <1>1, <1>2, <2>1
  <1>8. SameRuns(d, EnsureNodeChildren(d, r, n, I))
    <2> DEFINE f == WithRows(d.kids, {<<r, n, i>> : i \in I}, [status |-> "pending", linked |-> FALSE, attempt |-> "none"])
    <2>1. EnsureNodeChildren(d, r, n, I) \in {d, [d EXCEPT !.kids = f]}
      BY DEF EnsureNodeChildren
    <2> HIDE DEF f
    <2> QED BY <1>1, <1>2, <2>1
  <1>9. SameRuns(d, SelectNodeCase(d, r, n, b))
    <2> DEFINE f == [d.nodes EXCEPT ![<<r, n>>].selected = b]
    <2>1. SelectNodeCase(d, r, n, b) \in {d, [d EXCEPT !.nodes = f]}
      BY DEF SelectNodeCase
    <2> HIDE DEF f
    <2> QED BY <1>1, <1>2, <2>1
  <1>10. SameRuns(d, CancelTrees(p, d, R, b))
    <2> DEFINE S == LiveTree(d, R)
    <2> DEFINE runs == [q \in DOMAIN d.runs |-> IF q \in S THEN "cancelled" ELSE d.runs[q]]
    <2>1. \E nodes, kids, cmds, queue : CancelTrees(p, d, R, b) = [d EXCEPT !.runs = runs, !.nodes = nodes, !.kids = kids, !.cmds = cmds, !.queue = queue]
      BY DEF CancelTrees
    <2>2. DOMAIN runs = DOMAIN d.runs
      OBVIOUS
    <2> HIDE DEF runs
    <2> QED BY <2>1, <2>2 DEF SameRuns, IsDb
  <1>11. SameRuns(d, DeleteUnclaimed(d, r))
    <2> DEFINE f == [j \in {j \in DOMAIN d.cmds : ~(j[1] = r /\ d.cmds[j] = "queued")} |-> d.cmds[j]]
    <2>1. DeleteUnclaimed(d, r) = [d EXCEPT !.cmds = f]
      BY DEF DeleteUnclaimed
    <2> HIDE DEF f
    <2> QED BY <1>1, <2>1
  <1>12. SameRuns(d, CancelNonTerminalRunNodes(d, r))
    <2>1. \E nodes, kids : CancelNonTerminalRunNodes(d, r) = [d EXCEPT !.nodes = nodes, !.kids = kids]
      BY DEF CancelNonTerminalRunNodes
    <2> QED BY <2>1 DEF SameRuns, IsDb
  <1>13. SameRuns(d, DropCommand(d, k))
    <2> DEFINE f == [j \in DOMAIN d.cmds \ {k} |-> d.cmds[j]]
    <2>1. DropCommand(d, k) = [d EXCEPT !.cmds = f]
      BY DEF DropCommand
    <2> HIDE DEF f
    <2> QED BY <1>1, <2>1
  <1> QED BY <1>3, <1>4, <1>5, <1>6, <1>7, <1>8, <1>9, <1>10, <1>11, <1>12, <1>13

\* Nor do the sinks.
LEMMA SinksBringNoRun ==
    ASSUME NEW d, IsDb(d), NEW p, NEW r, NEW n
    PROVE  /\ SameRuns(d, CompleteRunAndWakeParent(d, r)) /\ SameRuns(d, FailRunAndWakeParent(d, r))
           /\ SameRuns(d, CancelRunTree(p, d, r)) /\ SameRuns(d, CancelRunAndWakeParent(p, d, r))
           /\ SameRuns(d, FailNodeAndRun(d, r, n)) /\ SameRuns(d, CancelNodeAndRun(p, d, r, n))
           /\ SameRuns(d, CancelNodeChildren(p, d, r, n))
           /\ SameRuns(d, FailNodeAndRun(CancelNodeChildren(p, d, r, n), r, n))
           /\ SameRuns(d, FailRunAndWakeParent(CancelNodeChildren(p, d, r, n), r))
  <1>1. ASSUME NEW e, SameRuns(d, e), NEW to
        PROVE  SameRuns(d, WakeParentRun(e, r)) /\ SameRuns(d, SetRun(e, r, to)) /\ SameRuns(d, SetNode(e, r, n, to))
               /\ SameRuns(d, CancelRunTree(p, e, r)) /\ SameRuns(d, DeleteUnclaimed(e, r))
    <2>1. IsDb(e) /\ DOMAIN e.runs = DOMAIN d.runs
      BY <1>1 DEF SameRuns
    <2>2. SameRuns(e, WakeParentRun(e, r)) /\ SameRuns(e, SetRun(e, r, to)) /\ SameRuns(e, SetNode(e, r, n, to))
          /\ SameRuns(e, DeleteUnclaimed(e, r))
      BY <2>1, WritesBringNoRun
    <2>3. SameRuns(e, CancelRunTree(p, e, r))
      BY <2>1, WritesBringNoRun DEF CancelRunTree
    <2> QED BY <2>1, <2>2, <2>3 DEF SameRuns
  <1>2. SameRuns(d, d)
    BY DEF SameRuns
  <1>3. ASSUME NEW e, SameRuns(d, e)
        PROVE  SameRuns(d, CompleteRunAndWakeParent(e, r)) /\ SameRuns(d, FailRunAndWakeParent(e, r))
               /\ SameRuns(d, CancelRunAndWakeParent(p, e, r))
    BY <1>1, <1>3 DEF CompleteRunAndWakeParent, FailRunAndWakeParent, CancelRunAndWakeParent
  <1>4. ASSUME NEW e, SameRuns(d, e)
        PROVE  SameRuns(d, FailNodeAndRun(e, r, n)) /\ SameRuns(d, CancelNodeAndRun(p, e, r, n))
    BY <1>1, <1>3, <1>4 DEF FailNodeAndRun, CancelNodeAndRun
  <1>5. SameRuns(d, CancelNodeChildren(p, d, r, n))
    <2> DEFINE R == LinkedRuns(d, KidsOfNode(d, r, n))
    <2>1. SameRuns(d, CancelTrees(p, d, R, TRUE))
      BY WritesBringNoRun
    <2> QED BY <1>1, <2>1 DEF CancelNodeChildren
  <1> QED BY <1>1, <1>2, <1>3, <1>4, <1>5

\* To dispatch an attempt, or to activate a run, brings none.
LEMMA ActivationBringsNoRun ==
    ASSUME NEW d, IsDb(d), NEW p, NEW k, NEW r
    PROVE  SameRuns(d, DispatchAttempt(d, k)) /\ SameRuns(d, Activate(p, d, r))
  <1>1. ASSUME NEW e, IsDb(e), NEW j PROVE SameRuns(e, DispatchAttempt(e, j))
    <2> DEFINE dispatched(f) == IF j \in DOMAIN f.cmds THEN f ELSE [f EXCEPT !.cmds = WithRows(@, {j}, "queued")]
    <2> DEFINE kids == [e.kids EXCEPT ![j] = [@ EXCEPT !.attempt = "started", !.status = "running"]]
    <2> DEFINE g == [e EXCEPT !.kids = kids]
    <2>1. DispatchAttempt(e, j) \in {dispatched(e), e, [e EXCEPT !.thrown = TRUE],
                                     dispatched(SetNode(g, j[1], j[2], "running"))}
      BY DEF DispatchAttempt
    <2>2. ASSUME NEW f, IsDb(f) PROVE SameRuns(f, dispatched(f))
      <3> DEFINE c == WithRows(f.cmds, {j}, "queued")
      <3>1. dispatched(f) \in {f, [f EXCEPT !.cmds = c]}
        OBVIOUS
      <3> HIDE DEF c, dispatched
      <3> QED BY <2>2, <3>1 DEF SameRuns, IsDb
    <2>3. SameRuns(e, e) /\ SameRuns(e, [e EXCEPT !.thrown = TRUE])
      <3>1. ASSUME NEW t PROVE SameRuns(e, [e EXCEPT !.thrown = t])
        BY <1>1 DEF SameRuns, IsDb
      <3> QED BY <1>1, <3>1 DEF SameRuns
    <2>4. SameRuns(e, g)
      <3> HIDE DEF kids
      <3> QED BY <1>1 DEF SameRuns, IsDb
    <2> DEFINE h == SetNode(g, j[1], j[2], "running")
    <2> HIDE DEF g, dispatched
    <2>5. SameRuns(g, h)
      BY <2>4, WritesBringNoRun DEF SameRuns
    <2> HIDE DEF h
    <2>6. SameRuns(h, dispatched(h))
      BY <2>2, <2>5 DEF SameRuns
    <2>7. SameRuns(e, dispatched(e))
      BY <1>1, <2>2
    <2>8. SameRuns(e, dispatched(h))
      BY <2>4, <2>5, <2>6 DEF SameRuns
    <2> QED BY <2>1, <2>3, <2>7, <2>8 DEF h, g
  <1>2. SameRuns(d, DispatchTaskRunAttempt(d, r))
    <2> DEFINE e == CreateNode(d, r, 1)
    <2> DEFINE f == EnsureNodeChildren(e, r, 1, {1})
    <2>1. SameRuns(d, e)
      BY WritesBringNoRun
    <2> HIDE DEF e
    <2>2. SameRuns(e, f)
      BY <2>1, WritesBringNoRun DEF SameRuns
    <2> HIDE DEF f
    <2>3. SameRuns(f, DispatchAttempt(f, <<r, 1, 1>>))
      BY <1>1, <2>2 DEF SameRuns
    <2> QED BY <2>1, <2>2, <2>3 DEF SameRuns, DispatchTaskRunAttempt, e, f
  <1>3. SameRuns(d, Enqueue(d, r))
    BY WritesBringNoRun
  <1> QED BY <1>1, <1>2, <1>3 DEF Activate

\* A start brings the child run it is for, unless it throws.
LEMMA StartBringsOneRun ==
    ASSUME NEW p, PlanOk(p), NEW d, DbOk(p, d), NEW k \in DOMAIN d.kids,
           PlanOf(p, k[1])[k[2]].members[k[3]] # "activity"
    PROVE  LET e == StartChildRun(p, d, k)
           IN  /\ IsDb(e) /\ DOMAIN e.runs \subseteq DOMAIN d.runs \cup {ChildRun(k)}
               /\ e.thrown \/ ChildRun(k) \in DOMAIN e.runs
  <1> DEFINE e == EnsureChildRun(d, k)
  <1> DEFINE c == ChildRun(k)
  <1>1. DbOk(p, e) /\ (e.thrown \/ c \in DOMAIN e.runs)
    BY EnsureChildRunIsSound DEF Becomes
  <1>2. DOMAIN e.runs \subseteq DOMAIN d.runs \cup {c}
    <2> DEFINE rows == WithRows(d.runs, {c}, "queued")
    <2> DEFINE kids == [d.kids EXCEPT ![k] = [@ EXCEPT !.linked = TRUE, !.status = "running"]]
    <2>1. e \in {d, [d EXCEPT !.thrown = TRUE], [d EXCEPT !.runs = rows, !.kids = kids]}
      BY DEF EnsureChildRun
    <2>2. DOMAIN rows = DOMAIN d.runs \cup {c}
      BY DEF WithRows
    <2>3. IsDb(d)
      BY DEF DbOk
    <2> HIDE DEF e, rows, kids, c
    <2> QED BY <2>1, <2>2, <2>3 DEF IsDb
  <1>3. StartChildRun(p, d, k) = IF e.thrown THEN e ELSE Activate(p, e, c)
    BY DEF StartChildRun
  <1> HIDE DEF e, c
  <1>4. SameRuns(e, Activate(p, e, c)) /\ IsDb(e)
    BY <1>1, ActivationBringsNoRun DEF DbOk
  <1> QED BY <1>1, <1>2, <1>3, <1>4 DEF SameRuns, c

-----------------------------------------------------------------------------
(* What a coordinator's writes do to the maps of a tree.                   *)

\* New runs are children of one node.
StartsAt(d, e, r, n) == \A c \in DOMAIN e.runs : c \in DOMAIN d.runs \/ \E i \in Nat : c = ChildRun(<<r, n, i>>)

\* Sound writes that bring no run.
Rewrites(p, d, e) == Becomes(p, d, e) /\ DOMAIN e.runs = DOMAIN d.runs

\* Sets of items are finite, and grow by one at most.
LEMMA ItemsAreFinite ==
    ASSUME NEW p, PlanOk(p), NEW r, NEW n \in DOMAIN PlanOf(p, r), NEW S, S \subseteq DOMAIN PlanOf(p, r)[n].members
    PROVE  /\ IsFiniteSet(S) /\ Cardinality(S) \in Nat
           /\ \A T : T \subseteq S => IsFiniteSet(T) /\ Cardinality(T) \in Nat /\ Cardinality(T) <= Cardinality(S)
           /\ \A T, x : T \subseteq S \cup {x} => IsFiniteSet(T) /\ Cardinality(T) \in Nat
                                               /\ Cardinality(T) <= Cardinality(S) + 1
  <1>1. IsFiniteSet(DOMAIN PlanOf(p, r)[n].members)
    <2>1. NodeOk(PlanOf(p, r)[n])
      BY PlanFacts
    <2>2. Len(PlanOf(p, r)[n].members) \in Nat /\ DOMAIN PlanOf(p, r)[n].members = 1..Len(PlanOf(p, r)[n].members)
      BY <2>1 DEF NodeOk
    <2> QED BY <2>2, FS_Interval
  <1>2. IsFiniteSet(S)
    BY <1>1, FS_Subset
  <1>3. Cardinality(S) \in Nat
    BY <1>2, FS_CardinalityType
  <1>4. ASSUME NEW T, T \subseteq S PROVE IsFiniteSet(T) /\ Cardinality(T) \in Nat /\ Cardinality(T) <= Cardinality(S)
    BY <1>2, <1>4, FS_Subset, FS_CardinalityType
  <1>5. ASSUME NEW T, NEW x, T \subseteq S \cup {x}
        PROVE  IsFiniteSet(T) /\ Cardinality(T) \in Nat /\ Cardinality(T) <= Cardinality(S) + 1
    <2> DEFINE U == S \cup {x}
    <2>1. IsFiniteSet(U) /\ Cardinality(U) = IF x \in S THEN Cardinality(S) ELSE Cardinality(S) + 1
      BY <1>2, FS_AddElement
    <2> HIDE DEF U
    <2>2. IsFiniteSet(T) /\ Cardinality(T) <= Cardinality(U)
      BY <1>5, <2>1, FS_Subset DEF U
    <2>3. Cardinality(T) \in Nat /\ Cardinality(U) \in Nat
      BY <2>1, <2>2, FS_CardinalityType
    <2> QED BY <1>3, <2>1, <2>2, <2>3
  <1> QED BY <1>2, <1>3, <1>4, <1>5

\* A run that is alive in later rows was alive, if it was there.
LEMMA LiveWasLive ==
    ASSUME NEW d, NEW e, Later(d, e), NEW c, IsLive(e, c), c \in DOMAIN d.runs PROVE IsLive(d, c)
  BY DEF IsLive, Later

\* A map to which no run comes stays within its concurrency.
LEMMA WithinStays ==
    ASSUME NEW p, PlanOk(p), NEW d, NEW e, Later(d, e), NEW r, NEW n \in DOMAIN PlanOf(p, r),
           Within(p, d, r, n), WaitingMap(PlanOf(p, r)[n]),
           \A i \in DOMAIN PlanOf(p, r)[n].members : ChildRun(<<r, n, i>>) \in DOMAIN e.runs
                                                    => ChildRun(<<r, n, i>>) \in DOMAIN d.runs
    PROVE  Within(p, e, r, n) /\ LiveItems(p, e, r, n) \subseteq LiveItems(p, d, r, n)
  <1> DEFINE M == DOMAIN PlanOf(p, r)[n].members
  <1>1. LiveItems(p, e, r, n) \subseteq LiveItems(p, d, r, n) /\ LiveItems(p, d, r, n) \subseteq M
    BY LiveWasLive DEF LiveItems, IsLive
  <1>2. Cardinality(LiveItems(p, e, r, n)) <= Cardinality(LiveItems(p, d, r, n))
        /\ Cardinality(LiveItems(p, e, r, n)) \in Nat /\ Cardinality(LiveItems(p, d, r, n)) \in Nat
    BY <1>1, ItemsAreFinite
  <1>3. PlanOf(p, r)[n].limit \in Nat
    <2>1. NodeOk(PlanOf(p, r)[n])
      BY PlanFacts
    <2> QED BY <2>1 DEF NodeOk, WaitingMap
  <1>4. Cardinality(LiveItems(p, e, r, n)) <= PlanOf(p, r)[n].limit
    BY <1>2, <1>3 DEF Within
  <1>5. DOMAIN d.runs \subseteq DOMAIN e.runs
    BY DEF Later
  <1> QED BY <1>1, <1>4, <1>5 DEF Within

\* All maps, when no run comes.
LEMMA MapsStay ==
    ASSUME NEW p, PlanOk(p), NEW d, NEW e, Later(d, e), MapsWithin(p, d), DOMAIN e.runs = DOMAIN d.runs
    PROVE  MapsWithin(p, e)
  BY WithinStays DEF MapsWithin

\* The names of children tell their nodes apart.
LEMMA NamesDiffer ==
    ASSUME NEW r \in RunNames, NEW n \in Nat, NEW i \in Nat, NEW q \in RunNames, NEW m \in Nat, NEW j \in Nat,
           ChildRun(<<r, n, i>>) = ChildRun(<<q, m, j>>)
    PROVE  r = q /\ n = m /\ i = j
  <1>1. KidOf(ChildRun(<<r, n, i>>)) = <<r, n, i>> /\ KidOf(ChildRun(<<q, m, j>>)) = <<q, m, j>>
    BY ChildRunNames
  <1>2. <<r, n, i>> = <<q, m, j>>
    BY <1>1
  <1> QED BY <1>2

\* The numbers of nodes and members are naturals.
LEMMA NumbersAreNatural ==
    ASSUME NEW p, PlanOk(p), NEW r, NEW n \in DOMAIN PlanOf(p, r)
    PROVE  /\ n \in Nat /\ DOMAIN PlanOf(p, r)[n].members = 1..Len(PlanOf(p, r)[n].members)
           /\ Len(PlanOf(p, r)[n].members) \in Nat /\ NodeOk(PlanOf(p, r)[n])
  <1>1. NodeOk(PlanOf(p, r)[n]) /\ n \in Nat
    BY PlanFacts
  <1> QED BY <1>1 DEF NodeOk

\* All maps, when runs come to one node and that node stays within its concurrency.
LEMMA MapsStayElsewhere ==
    ASSUME NEW p, PlanOk(p), NEW d, NEW e, Later(d, e), MapsWithin(p, d),
           NEW r \in RunNames, NEW n \in DOMAIN PlanOf(p, r), StartsAt(d, e, r, n),
           WaitingMap(PlanOf(p, r)[n]) => Within(p, e, r, n)
    PROVE  MapsWithin(p, e)
  <1> SUFFICES ASSUME NEW q \in RunNames, NEW m \in DOMAIN PlanOf(p, q), WaitingMap(PlanOf(p, q)[m])
               PROVE  Within(p, e, q, m)
    BY DEF MapsWithin
  <1>1. CASE q = r /\ m = n
    BY <1>1
  <1>2. CASE ~(q = r /\ m = n)
    <2>1. ASSUME NEW i \in DOMAIN PlanOf(p, q)[m].members, ChildRun(<<q, m, i>>) \in DOMAIN e.runs
          PROVE  ChildRun(<<q, m, i>>) \in DOMAIN d.runs
      <3>1. n \in Nat /\ m \in Nat /\ i \in Nat
        BY NumbersAreNatural
      <3>2. SUFFICES ASSUME ChildRun(<<q, m, i>>) \notin DOMAIN d.runs PROVE FALSE
        OBVIOUS
      <3>3. PICK j \in Nat : ChildRun(<<q, m, i>>) = ChildRun(<<r, n, j>>)
        BY <2>1, <3>2 DEF StartsAt
      <3>4. q = r /\ m = n
        BY <3>1, <3>3, NamesDiffer
      <3> QED BY <1>2, <3>4
    <2>2. Within(p, d, q, m)
      BY DEF MapsWithin
    <2> QED BY <2>1, <2>2, WithinStays
  <1> QED BY <1>1, <1>2

-----------------------------------------------------------------------------
(* A pass over the items of a map.                                         *)

IsPass(acc) == acc = [db |-> acc.db, go |-> acc.go, outputs |-> acc.outputs, active |-> acc.active,
                      started |-> acc.started, local |-> acc.local]

\* Of a pass that goes on after item i of a map that waits: the live items so
\* far are counted; the others are as they were; and none was passed over but
\* for the concurrency.
Counted(p, d, r, n, acc, i) ==
    LET items == DOMAIN PlanOf(p, r)[n].members
    IN  /\ Cardinality({j \in LiveItems(p, acc.db, r, n) : j <= i}) <= acc.active
        /\ \A j \in items : j > i /\ ChildRun(<<r, n, j>>) \in DOMAIN acc.db.runs
                            => ChildRun(<<r, n, j>>) \in DOMAIN d.runs
        /\ acc.active >= PlanOf(p, r)[n].limit
           \/ \A j \in items : j <= i => ChildRun(<<r, n, j>>) \in DOMAIN acc.db.runs

PassWithin(p, d, r, n, acc, i) ==
    /\ PassOk(p, d, acc) /\ IsPass(acc) /\ acc.active \in Nat /\ StartsAt(d, acc.db, r, n)
    /\ WaitingMap(PlanOf(p, r)[n]) =>
        /\ Within(p, acc.db, r, n)
        /\ acc.go /\ ~acc.db.thrown => Counted(p, d, r, n, acc, i)

\* What a pass does to a database, in one step.
LEMMA PassRewrites ==
    ASSUME NEW p, NEW d, NEW r, NEW n, NEW v, PassStarts(p, d, r, n, v), NEW i \in DOMAIN PlanOf(p, r)[n].members
    PROVE  /\ Rewrites(p, d, d)
           /\ Rewrites(p, d, FailNodeAndRun(d, r, n)) /\ Rewrites(p, d, CancelNodeAndRun(p, d, r, n))
           /\ Rewrites(p, d, FailNodeAndRun(CancelNodeChildren(p, d, r, n), r, n))
           /\ \A to \in Moves : Rewrites(p, d, SetKid(d, <<r, n, i>>, to))
           /\ LET e == SetKid(d, <<r, n, i>>, "failed")
              IN  Rewrites(p, d, FailNodeAndRun(CancelNodeChildren(p, e, r, n), r, n))
           /\ Rewrites(p, d, DispatchAttempt(d, <<r, n, i>>))
           /\ PlanOf(p, r)[n].members[i] # "activity" =>
                /\ v[i].run # "none" => Rewrites(p, d, Activate(p, d, ChildRun(<<r, n, i>>)))
                /\ LET e == StartChildRun(p, d, <<r, n, i>>)
                   IN  /\ Becomes(p, d, e) /\ DOMAIN e.runs \subseteq DOMAIN d.runs \cup {ChildRun(<<r, n, i>>)}
                       /\ e.thrown \/ ChildRun(<<r, n, i>>) \in DOMAIN e.runs
  <1> DEFINE k == <<r, n, i>>
  <1>1. DbOk(p, d) /\ IsDb(d) /\ r \in DOMAIN d.runs /\ Becomes(p, d, d) /\ k \in DOMAIN d.kids /\ PlanOk(p)
    BY Stays DEF PassStarts, DbOk, Dispatchable
  <1>2. /\ \A to \in Moves : Becomes(p, d, SetKid(d, k, to))
        /\ Becomes(p, d, DispatchAttempt(d, k))
        /\ PlanOf(p, r)[n].members[i] # "activity" =>
                /\ Becomes(p, d, StartChildRun(p, d, k))
                /\ v[i].run # "none" => Becomes(p, d, Activate(p, d, ChildRun(k)))
    BY <1>1, PassGoesOn
  <1>3. \A to : SameRuns(d, SetKid(d, k, to)) /\ SameRuns(d, DispatchAttempt(d, k))
                /\ SameRuns(d, Activate(p, d, ChildRun(k)))
    BY <1>1, WritesBringNoRun, ActivationBringsNoRun
  <1>4. ASSUME NEW e, Rewrites(p, d, e)
        PROVE  /\ Rewrites(p, d, FailNodeAndRun(e, r, n)) /\ Rewrites(p, d, CancelNodeAndRun(p, e, r, n))
               /\ Rewrites(p, d, FailNodeAndRun(CancelNodeChildren(p, e, r, n), r, n))
    <2>1. Becomes(p, d, e) /\ IsDb(e) /\ DOMAIN e.runs = DOMAIN d.runs
      BY <1>4 DEF Rewrites, Becomes, DbOk
    <2>2. /\ Becomes(p, d, FailNodeAndRun(e, r, n)) /\ Becomes(p, d, CancelNodeAndRun(p, e, r, n))
          /\ Becomes(p, d, FailNodeAndRun(CancelNodeChildren(p, e, r, n), r, n))
      BY <1>1, <2>1, Then
    <2>3. /\ SameRuns(e, FailNodeAndRun(e, r, n)) /\ SameRuns(e, CancelNodeAndRun(p, e, r, n))
          /\ SameRuns(e, FailNodeAndRun(CancelNodeChildren(p, e, r, n), r, n))
      BY <2>1, SinksBringNoRun
    <2> QED BY <2>1, <2>2, <2>3 DEF Rewrites, SameRuns
  <1>5. Rewrites(p, d, d)
    BY <1>1 DEF Rewrites
  <1>6. \A to \in Moves : Rewrites(p, d, SetKid(d, k, to))
    BY <1>2, <1>3 DEF Rewrites, SameRuns
  <1>7. Rewrites(p, d, SetKid(d, k, "failed"))
    BY <1>6 DEF Moves
  <1>8. Rewrites(p, d, DispatchAttempt(d, k))
        /\ (PlanOf(p, r)[n].members[i] # "activity" /\ v[i].run # "none" => Rewrites(p, d, Activate(p, d, ChildRun(k))))
    BY <1>2, <1>3 DEF Rewrites, SameRuns
  <1>9. ASSUME PlanOf(p, r)[n].members[i] # "activity"
        PROVE  LET e == StartChildRun(p, d, k)
               IN  /\ DOMAIN e.runs \subseteq DOMAIN d.runs \cup {ChildRun(k)}
                   /\ e.thrown \/ ChildRun(k) \in DOMAIN e.runs
    <2>1. PlanOf(p, k[1])[k[2]].members[k[3]] # "activity"
      BY <1>9
    <2> HIDE DEF k
    <2> QED BY <1>1, <2>1, StartBringsOneRun
  <1> HIDE DEF k
  <1> QED BY <1>2, <1>4, <1>5, <1>6, <1>7, <1>8, <1>9 DEF k

\* The fields of a pass that has written.
LEMMA PassRecord ==
    ASSUME NEW a, NEW b, NEW o, NEW c, NEW s, NEW l, NEW f,
           f = [db |-> a, go |-> b, outputs |-> o, active |-> c, started |-> s, local |-> l]
    PROVE  IsPass(f) /\ f.db = a /\ f.go = b /\ f.active = c
  BY DEF IsPass

\* A pass with another database.
LEMMA PassPuts ==
    ASSUME NEW acc, IsPass(acc), NEW e
    PROVE  LET f == [acc EXCEPT !.db = e] IN IsPass(f) /\ f.db = e /\ f.go = acc.go /\ f.active = acc.active
  <1>1. PICK a, b, o, c, s, l : acc = [db |-> a, go |-> b, outputs |-> o, active |-> c, started |-> s, local |-> l]
    BY DEF IsPass
  <1>2. acc.db = a /\ acc.go = b /\ acc.active = c
    BY <1>1
  <1> DEFINE f == [acc EXCEPT !.db = e]
  <1>3. f = [db |-> e, go |-> b, outputs |-> o, active |-> c, started |-> s, local |-> l]
    BY <1>1
  <1> HIDE DEF f
  <1>4. IsPass(f) /\ f.db = e /\ f.go = acc.go /\ f.active = acc.active
    BY <1>2, <1>3, PassRecord
  <1> QED BY <1>4 DEF f

\* A pass that stops.
LEMMA PassStops ==
    ASSUME NEW acc, IsPass(acc), NEW e
    PROVE  LET f == Ended(acc, e) IN IsPass(f) /\ f.db = e /\ f.go = FALSE /\ f.active = acc.active
  <1>1. PICK a, b, o, c, s, l : acc = [db |-> a, go |-> b, outputs |-> o, active |-> c, started |-> s, local |-> l]
    BY DEF IsPass
  <1>2. acc.db = a /\ acc.go = b /\ acc.active = c /\ acc.outputs = o /\ acc.started = s
    BY <1>1
  <1> DEFINE g == [acc EXCEPT !.db = e]
  <1>3. g = [db |-> e, go |-> b, outputs |-> o, active |-> c, started |-> s, local |-> l]
    BY <1>1
  <1> DEFINE f == Ended(acc, e)
  <1>4. f = [g EXCEPT !.go = FALSE]
    BY <1>1, <1>2 DEF Ended
  <1> HIDE DEF f, g
  <1>5. f = [db |-> e, go |-> FALSE, outputs |-> o, active |-> c, started |-> s, local |-> l]
    BY <1>3, <1>4
  <1>6. IsPass(f) /\ f.db = e /\ f.go = FALSE /\ f.active = acc.active
    BY <1>2, <1>5, PassRecord
  <1> QED BY <1>6 DEF f

\* A pass with one output more.
LEMMA PassOutputs ==
    ASSUME NEW acc, IsPass(acc), NEW e, NEW i
    PROVE  LET f == HasOutput(acc, e, i) IN IsPass(f) /\ f.db = e /\ f.go = acc.go /\ f.active = acc.active
  <1>1. PICK a, b, o, c, s, l : acc = [db |-> a, go |-> b, outputs |-> o, active |-> c, started |-> s, local |-> l]
    BY DEF IsPass
  <1>2. acc.db = a /\ acc.go = b /\ acc.active = c /\ acc.outputs = o /\ acc.started = s
    BY <1>1
  <1> DEFINE g == [acc EXCEPT !.db = e]
  <1>3. g = [db |-> e, go |-> b, outputs |-> o, active |-> c, started |-> s, local |-> l]
    BY <1>1
  <1> DEFINE f == HasOutput(acc, e, i)
  <1>4. f = [g EXCEPT !.outputs = o \cup {i}]
    BY <1>1, <1>2 DEF HasOutput
  <1> HIDE DEF f, g
  <1>5. f = [db |-> e, go |-> b, outputs |-> o \cup {i}, active |-> c, started |-> s, local |-> l]
    BY <1>3, <1>4
  <1>6. IsPass(f) /\ f.db = e /\ f.go = acc.go /\ f.active = acc.active
    BY <1>2, <1>5, PassRecord
  <1> QED BY <1>6 DEF f

\* A pass that leaves an attempt pending.
LEMMA PassIsLocal ==
    ASSUME NEW acc, IsPass(acc), NEW e
    PROVE  LET f == [acc EXCEPT !.db = e, !.local = TRUE] IN IsPass(f) /\ f.db = e /\ f.go = acc.go /\ f.active = acc.active
  <1>1. PICK a, b, o, c, s, l : acc = [db |-> a, go |-> b, outputs |-> o, active |-> c, started |-> s, local |-> l]
    BY DEF IsPass
  <1>2. acc.db = a /\ acc.go = b /\ acc.active = c /\ acc.outputs = o /\ acc.started = s
    BY <1>1
  <1> DEFINE g == [acc EXCEPT !.db = e]
  <1>3. g = [db |-> e, go |-> b, outputs |-> o, active |-> c, started |-> s, local |-> l]
    BY <1>1
  <1> DEFINE f == [acc EXCEPT !.db = e, !.local = TRUE]
  <1>4. f = [g EXCEPT !.local = TRUE]
    BY <1>1, <1>2
  <1> HIDE DEF f, g
  <1>5. f = [db |-> e, go |-> b, outputs |-> o, active |-> c, started |-> s, local |-> TRUE]
    BY <1>3, <1>4
  <1>6. IsPass(f) /\ f.db = e /\ f.go = acc.go /\ f.active = acc.active
    BY <1>2, <1>5, PassRecord
  <1> QED BY <1>6 DEF f

\* A pass that finds or starts an active item.
LEMMA PassActivates ==
    ASSUME NEW acc, IsPass(acc), NEW e
    PROVE  LET f == [acc EXCEPT !.db = e, !.active = @ + 1] IN IsPass(f) /\ f.db = e /\ f.go = acc.go /\ f.active = acc.active + 1
  <1>1. PICK a, b, o, c, s, l : acc = [db |-> a, go |-> b, outputs |-> o, active |-> c, started |-> s, local |-> l]
    BY DEF IsPass
  <1>2. acc.db = a /\ acc.go = b /\ acc.active = c /\ acc.outputs = o /\ acc.started = s
    BY <1>1
  <1> DEFINE g == [acc EXCEPT !.db = e]
  <1>3. g = [db |-> e, go |-> b, outputs |-> o, active |-> c, started |-> s, local |-> l]
    BY <1>1
  <1> DEFINE f == [acc EXCEPT !.db = e, !.active = @ + 1]
  <1>4. f = [g EXCEPT !.active = c + 1]
    BY <1>1, <1>2
  <1> HIDE DEF f, g
  <1>5. f = [db |-> e, go |-> b, outputs |-> o, active |-> c + 1, started |-> s, local |-> l]
    BY <1>3, <1>4
  <1>6. IsPass(f) /\ f.db = e /\ f.go = acc.go /\ f.active = acc.active + 1
    BY <1>2, <1>5, PassRecord
  <1> QED BY <1>6 DEF f

\* A pass that counts one active item more.
LEMMA PassActive ==
    ASSUME NEW acc, IsPass(acc)
    PROVE  LET f == [acc EXCEPT !.active = @ + 1] IN IsPass(f) /\ f.db = acc.db /\ f.go = acc.go /\ f.active = acc.active + 1
  <1>1. PICK a, b, o, c, s, l : acc = [db |-> a, go |-> b, outputs |-> o, active |-> c, started |-> s, local |-> l]
    BY DEF IsPass
  <1>2. acc.db = a /\ acc.go = b /\ acc.active = c
    BY <1>1
  <1> DEFINE f == [acc EXCEPT !.active = @ + 1]
  <1>3. f = [db |-> a, go |-> b, outputs |-> o, active |-> c + 1, started |-> s, local |-> l]
    BY <1>1
  <1> HIDE DEF f
  <1>4. IsPass(f) /\ f.db = acc.db /\ f.go = acc.go /\ f.active = acc.active + 1
    BY <1>2, <1>3, PassRecord
  <1> QED BY <1>4 DEF f

\* A pass that counts one started item more.
LEMMA PassStarted ==
    ASSUME NEW acc, IsPass(acc), NEW i
    PROVE  LET f == [acc EXCEPT !.started = @ + 1, !.outputs = @ \cup {i}] IN IsPass(f) /\ f.db = acc.db /\ f.go = acc.go /\ f.active = acc.active
  <1>1. PICK a, b, o, c, s, l : acc = [db |-> a, go |-> b, outputs |-> o, active |-> c, started |-> s, local |-> l]
    BY DEF IsPass
  <1>2. acc.db = a /\ acc.go = b /\ acc.active = c /\ acc.outputs = o /\ acc.started = s
    BY <1>1
  <1> DEFINE g == [acc EXCEPT !.started = s + 1]
  <1>3. g = [db |-> a, go |-> b, outputs |-> o, active |-> c, started |-> s + 1, local |-> l]
    BY <1>1
  <1> DEFINE f == [acc EXCEPT !.started = @ + 1, !.outputs = @ \cup {i}]
  <1>4. f = [g EXCEPT !.outputs = o \cup {i}]
    BY <1>1, <1>2
  <1> HIDE DEF f, g
  <1>5. f = [db |-> a, go |-> b, outputs |-> o \cup {i}, active |-> c, started |-> s + 1, local |-> l]
    BY <1>3, <1>4
  <1>6. IsPass(f) /\ f.db = acc.db /\ f.go = acc.go /\ f.active = acc.active
    BY <1>2, <1>5, PassRecord
  <1> QED BY <1>6 DEF f

\* A pass that rewrites rows may end.
LEMMA PassEnds ==
    ASSUME NEW p, NEW d, NEW r, NEW n, NEW v, PassStarts(p, d, r, n, v), NEW acc, NEW i, NEW j,
           PassWithin(p, d, r, n, acc, i), NEW e, Rewrites(p, acc.db, e)
    PROVE  /\ PassWithin(p, d, r, n, Ended(acc, e), j)
           /\ StartsAt(d, e, r, n) /\ Becomes(p, d, e)
           /\ WaitingMap(PlanOf(p, r)[n]) =>
                Within(p, e, r, n) /\ LiveItems(p, e, r, n) \subseteq LiveItems(p, acc.db, r, n)
  <1>1. Becomes(p, d, acc.db) /\ Later(acc.db, e) /\ DOMAIN e.runs = DOMAIN acc.db.runs /\ Becomes(p, acc.db, e)
    BY DEF PassWithin, PassOk, Rewrites, Becomes
  <1>2. Becomes(p, d, e) /\ StartsAt(d, e, r, n)
    BY <1>1, BecomesTransitive DEF PassWithin, StartsAt
  <1>3. WaitingMap(PlanOf(p, r)[n]) =>
            Within(p, e, r, n) /\ LiveItems(p, e, r, n) \subseteq LiveItems(p, acc.db, r, n)
    BY <1>1, WithinStays DEF PassWithin, PassStarts
  <1> DEFINE f == Ended(acc, e)
  <1>4. f.db = e /\ f.go = FALSE /\ IsPass(f) /\ f.active = acc.active
    BY PassStops DEF PassWithin
  <1>5. PassOk(p, d, f)
    BY <1>2, PassSteps DEF PassWithin
  <1> HIDE DEF f
  <1>6. PassWithin(p, d, r, n, f, j)
    BY <1>2, <1>3, <1>4, <1>5 DEF PassWithin
  <1> QED BY <1>2, <1>3, <1>6 DEF f

\* Writes that may bring the child run of item i.
Extends(p, d, e, c) == Becomes(p, d, e) /\ DOMAIN e.runs \subseteq DOMAIN d.runs \cup {c}

\* A pass over a node that is not a map that waits.
LEMMA PassGoesOnAnyhow ==
    ASSUME NEW p, NEW d, NEW r, NEW n, NEW acc, NEW i \in Nat, NEW j,
           PassWithin(p, d, r, n, acc, j), ~WaitingMap(PlanOf(p, r)[n]),
           NEW e, Extends(p, acc.db, e, ChildRun(<<r, n, i>>))
    PROVE  /\ PassWithin(p, d, r, n, [acc EXCEPT !.db = e], i)
           /\ PassWithin(p, d, r, n, Ended(acc, e), i)
           /\ PassWithin(p, d, r, n, HasOutput(acc, e, i), i)
           /\ PassWithin(p, d, r, n, [acc EXCEPT !.db = e, !.local = TRUE], i)
  <1>1. Becomes(p, d, e) /\ StartsAt(d, e, r, n)
    <2>1. Becomes(p, d, e)
      BY BecomesTransitive DEF PassWithin, PassOk, Extends
    <2>2. \A c \in DOMAIN e.runs : c \in DOMAIN acc.db.runs \/ c = ChildRun(<<r, n, i>>)
      BY DEF Extends
    <2>3. StartsAt(d, acc.db, r, n)
      BY DEF PassWithin
    <2> QED BY <2>1, <2>2, <2>3 DEF StartsAt
  <1>2. ASSUME NEW f, IsPass(f), f.db = e, f.active = acc.active PROVE PassWithin(p, d, r, n, f, i)
    <2>1. "db" \in DOMAIN f
      BY <1>2 DEF IsPass
    <2> QED BY <1>1, <1>2, <2>1 DEF PassWithin, PassOk
  <1>3. IsPass(acc)
    BY DEF PassWithin
  <1>4. PassWithin(p, d, r, n, [acc EXCEPT !.db = e], i)
    <2> DEFINE f == [acc EXCEPT !.db = e]
    <2>1. IsPass(f) /\ f.db = e /\ f.active = acc.active
      BY <1>3, PassPuts
    <2> HIDE DEF f
    <2>2. PassWithin(p, d, r, n, f, i)
      BY <1>2, <2>1
    <2> QED BY <2>2 DEF f
  <1>5. PassWithin(p, d, r, n, Ended(acc, e), i)
    BY <1>2, <1>3, PassStops
  <1>6. PassWithin(p, d, r, n, HasOutput(acc, e, i), i)
    BY <1>2, <1>3, PassOutputs
  <1>7. PassWithin(p, d, r, n, [acc EXCEPT !.db = e, !.local = TRUE], i)
    <2> DEFINE f == [acc EXCEPT !.db = e, !.local = TRUE]
    <2>1. IsPass(f) /\ f.db = e /\ f.active = acc.active
      BY <1>3, PassIsLocal
    <2> HIDE DEF f
    <2>2. PassWithin(p, d, r, n, f, i)
      BY <1>2, <2>1
    <2> QED BY <2>2 DEF f
  <1> QED BY <1>4, <1>5, <1>6, <1>7

\* What is written at member i of a node that is being visited.
LEMMA PassWrites ==
    ASSUME NEW p, NEW d, NEW r, NEW n, NEW v, PassStarts(p, d, r, n, v), NEW acc, NEW j, PassWithin(p, d, r, n, acc, j),
           NEW i \in DOMAIN PlanOf(p, r)[n].members
    PROVE  PassStarts(p, acc.db, r, n, v)
  <1>1. PlanOk(p) /\ Becomes(p, d, acc.db) /\ ViewOk(p, d, r, n, v) /\ r \in DOMAIN d.runs /\ n \in DOMAIN PlanOf(p, r)
    BY DEF PassWithin, PassOk, PassStarts
  <1>2. DbOk(p, acc.db) /\ ViewOk(p, acc.db, r, n, v)
    BY <1>1, ViewStays DEF Becomes
  <1>3. \A m \in DOMAIN PlanOf(p, r)[n].members : Dispatchable(p, acc.db, r, n, m)
    BY <1>1, PassGoesOn
  <1> QED BY <1>1, <1>2, <1>3 DEF PassStarts, Becomes, Later

\* A member of a parallel node.
LEMMA ParallelMemberWithin ==
    ASSUME NEW p, NEW d, NEW r, NEW n, NEW v, PassStarts(p, d, r, n, v), NEW acc, NEW j,
           PassWithin(p, d, r, n, acc, j), NEW i \in DOMAIN PlanOf(p, r)[n].members,
           PlanOf(p, r)[n].kind = "parallel", NEW user
    PROVE  PassWithin(p, d, r, n, ParallelMember(p, acc, v, r, n, i, user), i)
  <1> DEFINE k == <<r, n, i>>
  <1> DEFINE e == acc.db
  <1> DEFINE act == PlanOf(p, r)[n].members[i] = "activity"
  <1> DEFINE res == ParallelMember(p, acc, v, r, n, i, user)
  <1>1. PassStarts(p, e, r, n, v) /\ ~WaitingMap(PlanOf(p, r)[n]) /\ i \in Nat
    BY PassWrites, NumbersAreNatural DEF WaitingMap, PassStarts
  <1>2. ASSUME NEW f, Rewrites(p, e, f) PROVE Extends(p, e, f, ChildRun(k))
    BY <1>2 DEF Rewrites, Extends
  <1>3. /\ Extends(p, e, e, ChildRun(k)) /\ Extends(p, e, FailNodeAndRun(e, r, n), ChildRun(k))
        /\ Extends(p, e, CancelNodeAndRun(p, e, r, n), ChildRun(k))
        /\ Extends(p, e, FailNodeAndRun(CancelNodeChildren(p, e, r, n), r, n), ChildRun(k))
        /\ Extends(p, e, SetKid(e, k, "completed"), ChildRun(k))
        /\ Extends(p, e, FailNodeAndRun(CancelNodeChildren(p, SetKid(e, k, "failed"), r, n), r, n), ChildRun(k))
        /\ Extends(p, e, DispatchAttempt(e, k), ChildRun(k))
    BY <1>1, <1>2, PassRewrites DEF Moves
  <1>4. ~act => /\ Extends(p, e, StartChildRun(p, e, k), ChildRun(k))
                /\ v[i].run # "none" => Extends(p, e, Activate(p, e, ChildRun(k)), ChildRun(k))
    BY <1>1, <1>2, PassRewrites DEF Extends
  <1>5. \/ res \in {HasOutput(acc, e, i), FailFanIn(p, acc, e, r, n), Ended(acc, CancelNodeAndRun(p, e, r, n))}
        \/ res = ParallelActivity(acc, v, r, n, i, user)
        \/ ~act /\ res = ParallelChildRun(p, acc, v, r, n, i, user)
    BY DEF ParallelMember
  <1>6. ParallelActivity(acc, v, r, n, i, user) \in {Ended(acc, FailNodeAndRun(e, r, n)),
                                                     [acc EXCEPT !.db = DispatchAttempt(e, k), !.local = TRUE]}
    BY DEF ParallelActivity
  <1> DEFINE pc == ParallelChildRun(p, acc, v, r, n, i, user)
  <1>7. \/ pc \in {Ended(acc, FailNodeAndRun(e, r, n)), [acc EXCEPT !.db = StartChildRun(p, e, k)],
                   HasOutput(acc, SetKid(e, k, "completed"), i), Ended(acc, CancelNodeAndRun(p, e, r, n)),
                   FailFanIn(p, acc, SetKid(e, k, "failed"), r, n)}
        \/ v[i].run # "none" /\ pc = [acc EXCEPT !.db = Activate(p, e, ChildRun(k))]
    <2> DEFINE run == v[i].run
    <2>1. pc = CASE run = "none" /\ user.throws = i -> Ended(acc, FailNodeAndRun(e, r, n))
                 [] run = "none" /\ user.throws # i -> [acc EXCEPT !.db = StartChildRun(p, e, k)]
                 [] run = "completed" -> HasOutput(acc, SetKid(e, k, "completed"), i)
                 [] run = "cancelled" -> Ended(acc, CancelNodeAndRun(p, e, r, n))
                 [] run = "failed"    -> FailFanIn(p, acc, SetKid(e, k, "failed"), r, n)
                 [] OTHER -> [acc EXCEPT !.db = Activate(p, e, ChildRun(k))]
      BY DEF ParallelChildRun
    <2> HIDE DEF pc, run
    <2> QED BY <2>1 DEF run
  <1> HIDE DEF res, e, k, act, pc
  <1>8. PassWithin(p, d, r, n, ParallelActivity(acc, v, r, n, i, user), i)
    <2>1. PassWithin(p, d, r, n, Ended(acc, FailNodeAndRun(e, r, n)), i)
      BY <1>1, <1>3, PassGoesOnAnyhow DEF e, k
    <2>2. PassWithin(p, d, r, n, [acc EXCEPT !.db = DispatchAttempt(e, k), !.local = TRUE], i)
      BY <1>1, <1>3, PassGoesOnAnyhow DEF e, k
    <2> QED BY <1>6, <2>1, <2>2
  <1>9. PassWithin(p, d, r, n, HasOutput(acc, e, i), i) /\ PassWithin(p, d, r, n, FailFanIn(p, acc, e, r, n), i)
        /\ PassWithin(p, d, r, n, Ended(acc, CancelNodeAndRun(p, e, r, n)), i)
    BY <1>1, <1>3, PassGoesOnAnyhow DEF e, k, FailFanIn
  <1>10. ASSUME ~act PROVE PassWithin(p, d, r, n, pc, i)
    <2>1. PassWithin(p, d, r, n, Ended(acc, FailNodeAndRun(e, r, n)), i)
          /\ PassWithin(p, d, r, n, HasOutput(acc, SetKid(e, k, "completed"), i), i)
          /\ PassWithin(p, d, r, n, FailFanIn(p, acc, SetKid(e, k, "failed"), r, n), i)
      BY <1>1, <1>3, PassGoesOnAnyhow DEF e, k, FailFanIn
    <2>2. PassWithin(p, d, r, n, [acc EXCEPT !.db = StartChildRun(p, e, k)], i)
      BY <1>1, <1>4, <1>10, PassGoesOnAnyhow DEF e, k
    <2>3. v[i].run # "none" => PassWithin(p, d, r, n, [acc EXCEPT !.db = Activate(p, e, ChildRun(k))], i)
      BY <1>1, <1>4, <1>10, PassGoesOnAnyhow DEF e, k
    <2> QED BY <1>7, <1>9, <2>1, <2>2, <2>3
  <1> QED BY <1>5, <1>8, <1>9, <1>10 DEF res, pc

\* An item of a start-only map.
LEMMA StartOnlyItemWithin ==
    ASSUME NEW p, NEW d, NEW r, NEW n, NEW v, PassStarts(p, d, r, n, v), NEW acc, NEW j,
           PassWithin(p, d, r, n, acc, j), NEW i \in DOMAIN PlanOf(p, r)[n].members,
           PlanOf(p, r)[n].kind = "map", PlanOf(p, r)[n].mode = "start-only", NEW user
    PROVE  PassWithin(p, d, r, n, MapItem(p, acc, v, r, n, i, user), i)
  <1> DEFINE k == <<r, n, i>>
  <1> DEFINE e == acc.db
  <1> DEFINE g == [acc EXCEPT !.db = StartChildRun(p, e, k)]
  <1> DEFINE h == [g EXCEPT !.started = @ + 1, !.outputs = @ \cup {i}]
  <1> DEFINE res == MapItem(p, acc, v, r, n, i, user)
  <1>1. /\ PassStarts(p, e, r, n, v) /\ ~WaitingMap(PlanOf(p, r)[n]) /\ i \in Nat
        /\ PlanOf(p, r)[n].members[i] # "activity" /\ v[i].run \in RunStatus \cup {"none"}
    <2>1. PassStarts(p, e, r, n, v) /\ NodeOk(PlanOf(p, r)[n]) /\ i \in Nat
      BY PassWrites, NumbersAreNatural DEF PassStarts
    <2> QED BY <2>1 DEF WaitingMap, NodeOk, PassStarts, ViewOk
  <1>2. res \in {acc, Ended(acc, FailNodeAndRun(e, r, n)), h, HasOutput(acc, e, i)}
    <2>1. CASE v[i].run = "none"
      BY <2>1 DEF MapItem
    <2>2. CASE v[i].run # "none"
      BY <2>2 DEF MapItem
    <2> QED BY <2>1, <2>2
  <1>3. /\ Extends(p, e, e, ChildRun(k)) /\ Extends(p, e, FailNodeAndRun(e, r, n), ChildRun(k))
        /\ Extends(p, e, StartChildRun(p, e, k), ChildRun(k))
    BY <1>1, PassRewrites DEF Rewrites, Extends
  <1> HIDE DEF e, k
  <1>4. /\ PassWithin(p, d, r, n, Ended(acc, FailNodeAndRun(e, r, n)), i)
        /\ PassWithin(p, d, r, n, HasOutput(acc, e, i), i) /\ PassWithin(p, d, r, n, g, i)
    BY <1>1, <1>3, PassGoesOnAnyhow DEF e, k
  <1>5. PassWithin(p, d, r, n, acc, i)
    BY <1>1 DEF PassWithin
  <1> HIDE DEF g
  <1>6. PassWithin(p, d, r, n, h, i)
    <2>1. IsPass(h) /\ h.db = g.db /\ h.active = g.active
      BY <1>4, PassStarted DEF PassWithin
    <2> HIDE DEF h
    <2>2. "db" \in DOMAIN h
      BY <2>1 DEF IsPass
    <2> QED BY <1>1, <1>4, <2>1, <2>2 DEF PassWithin, PassOk
  <1> HIDE DEF res, h
  <1> QED BY <1>2, <1>4, <1>5, <1>6 DEF res

\* The view of a node that is being visited, from item i on.
LEMMA RestIsExact ==
    ASSUME NEW p, NEW d, NEW r, NEW n, NEW v, PassStarts(p, d, r, n, v), ViewExact(p, d, r, n, v),
           NEW acc, NEW i \in DOMAIN PlanOf(p, r)[n].members, PassOk(p, d, acc),
           Counted(p, d, r, n, acc, i - 1)
    PROVE  /\ v[i].run = "none" <=> ChildRun(<<r, n, i>>) \notin DOMAIN acc.db.runs
           /\ v[i].run \in Terminal => acc.db.runs[ChildRun(<<r, n, i>>)] \in Terminal
  <1> DEFINE c == ChildRun(<<r, n, i>>)
  <1>1. i > i - 1
    BY NumbersAreNatural DEF PassStarts
  <1>2. c \in DOMAIN acc.db.runs => c \in DOMAIN d.runs
    BY <1>1 DEF Counted
  <1>3. Later(d, acc.db)
    BY DEF PassOk, Becomes
  <1>4. /\ v[i].run = "none" <=> c \notin DOMAIN d.runs
        /\ v[i].run \in Terminal => d.runs[c] \in Terminal
    BY DEF ViewExact
  <1> HIDE DEF c
  <1>5. v[i].run \in Terminal => c \in DOMAIN d.runs
    BY <1>4 DEF Terminal
  <1>6. v[i].run \in Terminal => acc.db.runs[c] \in Terminal
    BY <1>3, <1>4, <1>5 DEF Later
  <1> QED BY <1>2, <1>3, <1>4, <1>6 DEF Later, c

\* The count of live items up to the next one.
LEMMA CountGoesOn ==
    ASSUME NEW p, NEW d, NEW r, NEW n, NEW v, PassStarts(p, d, r, n, v), NEW acc, acc.active \in Nat,
           NEW i \in DOMAIN PlanOf(p, r)[n].members, Counted(p, d, r, n, acc, i - 1),
           NEW e, LiveItems(p, e, r, n) \subseteq LiveItems(p, acc.db, r, n) \cup {i}
    PROVE  /\ Cardinality({j \in LiveItems(p, e, r, n) : j <= i}) <= acc.active + 1
           /\ i \notin LiveItems(p, e, r, n) => Cardinality({j \in LiveItems(p, e, r, n) : j <= i}) <= acc.active
  <1> DEFINE before == {j \in LiveItems(p, acc.db, r, n) : j <= i - 1}
  <1> DEFINE now == {j \in LiveItems(p, e, r, n) : j <= i}
  <1>1. DOMAIN PlanOf(p, r)[n].members \subseteq Nat /\ i \in Nat
    BY NumbersAreNatural DEF PassStarts
  <1>2. before \subseteq DOMAIN PlanOf(p, r)[n].members /\ LiveItems(p, e, r, n) \subseteq DOMAIN PlanOf(p, r)[n].members
    BY DEF LiveItems
  <1>3. now \subseteq before \cup {i}
    BY <1>1, <1>2
  <1>4. i \notin LiveItems(p, e, r, n) => now \subseteq before
    BY <1>3
  <1>5. Cardinality(before) <= acc.active
    BY DEF Counted
  <1> HIDE DEF before, now
  <1>6. Cardinality(before) \in Nat /\ Cardinality(now) \in Nat /\ Cardinality(now) <= Cardinality(before) + 1
        /\ (now \subseteq before => Cardinality(now) <= Cardinality(before))
    BY <1>2, <1>3, ItemsAreFinite DEF PassStarts
  <1>7. Cardinality(now) <= acc.active + 1 /\ (i \notin LiveItems(p, e, r, n) => Cardinality(now) <= acc.active)
    BY <1>4, <1>5, <1>6
  <1> QED BY <1>7 DEF now

\* An item of a map that waits, its run alive or ended: nothing is started.
LEMMA ItemSeen ==
    ASSUME NEW p, NEW d, NEW r, NEW n, NEW v, PassStarts(p, d, r, n, v), ViewExact(p, d, r, n, v), NEW acc,
           NEW i \in DOMAIN PlanOf(p, r)[n].members,
           PassWithin(p, d, r, n, acc, i - 1), acc.go, ~acc.db.thrown, WaitingMap(PlanOf(p, r)[n]),
           NEW e, Rewrites(p, acc.db, e), NEW f, IsPass(f), f.db = e,
           \/ f.active = acc.active + 1 /\ v[i].run # "none"
           \/ f.active = acc.active /\ v[i].run \in Terminal
           \/ f.active = acc.active /\ v[i].run = "none" /\ acc.active >= PlanOf(p, r)[n].limit
    PROVE  PassWithin(p, d, r, n, f, i)
  <1> DEFINE items == DOMAIN PlanOf(p, r)[n].members
  <1>1. /\ StartsAt(d, e, r, n) /\ Becomes(p, d, e) /\ Within(p, e, r, n)
        /\ LiveItems(p, e, r, n) \subseteq LiveItems(p, acc.db, r, n)
    BY PassEnds
  <1>2. Counted(p, d, r, n, acc, i - 1) /\ PassOk(p, d, acc) /\ acc.active \in Nat
    BY DEF PassWithin
  <1>3. /\ v[i].run = "none" <=> ChildRun(<<r, n, i>>) \notin DOMAIN acc.db.runs
        /\ v[i].run \in Terminal => acc.db.runs[ChildRun(<<r, n, i>>)] \in Terminal
    BY <1>2, RestIsExact
  <1>4. DOMAIN e.runs = DOMAIN acc.db.runs
    BY DEF Rewrites
  <1>5. /\ Cardinality({j \in LiveItems(p, e, r, n) : j <= i}) <= acc.active + 1
        /\ i \notin LiveItems(p, e, r, n) => Cardinality({j \in LiveItems(p, e, r, n) : j <= i}) <= acc.active
    BY <1>1, <1>2, CountGoesOn
  <1>6. Cardinality({j \in LiveItems(p, e, r, n) : j <= i}) <= f.active
    <2>1. v[i].run \in Terminal \cup {"none"} => i \notin LiveItems(p, e, r, n)
      BY <1>1, <1>3 DEF LiveItems, IsLive
    <2> QED BY <1>5, <2>1
  <1>7. items \subseteq Nat /\ i \in Nat /\ PlanOf(p, r)[n].limit \in Nat
    BY NumbersAreNatural DEF PassStarts, NodeOk, WaitingMap
  <1>8. \A j \in items : j > i /\ ChildRun(<<r, n, j>>) \in DOMAIN e.runs => ChildRun(<<r, n, j>>) \in DOMAIN d.runs
    <2> SUFFICES ASSUME NEW j \in items, j > i, ChildRun(<<r, n, j>>) \in DOMAIN e.runs
                 PROVE  ChildRun(<<r, n, j>>) \in DOMAIN d.runs
      OBVIOUS
    <2>1. j > i - 1
      BY <1>7
    <2> QED BY <1>2, <1>4, <2>1 DEF Counted
  <1>9. f.active >= PlanOf(p, r)[n].limit \/ \A j \in items : j <= i => ChildRun(<<r, n, j>>) \in DOMAIN e.runs
    <2>1. CASE acc.active >= PlanOf(p, r)[n].limit
      BY <1>2, <1>7, <2>1
    <2>2. CASE ~(acc.active >= PlanOf(p, r)[n].limit)
      <3>1. \A j \in items : j <= i - 1 => ChildRun(<<r, n, j>>) \in DOMAIN acc.db.runs
        BY <1>2, <2>2 DEF Counted
      <3>2. ChildRun(<<r, n, i>>) \in DOMAIN acc.db.runs
        BY <1>3, <2>2 DEF Terminal
      <3>3. ASSUME NEW j \in items, j <= i PROVE ChildRun(<<r, n, j>>) \in DOMAIN e.runs
        <4>1. j <= i - 1 \/ j = i
          BY <1>7, <3>3
        <4> QED BY <1>4, <3>1, <3>2, <4>1
      <3> QED BY <3>3
    <2> QED BY <2>1, <2>2
  <1>10. Counted(p, d, r, n, f, i)
    BY <1>6, <1>8, <1>9 DEF Counted
  <1>11. PassOk(p, d, f) /\ f.active \in Nat
    BY <1>1, <1>2 DEF PassOk, IsPass
  <1> QED BY <1>1, <1>10, <1>11 DEF PassWithin

\* An item of a map that waits, its run started.
LEMMA ItemStarted ==
    ASSUME NEW p, NEW d, NEW r, NEW n, NEW v, PassStarts(p, d, r, n, v), ViewExact(p, d, r, n, v), NEW acc,
           NEW i \in DOMAIN PlanOf(p, r)[n].members, r \in RunNames,
           PassWithin(p, d, r, n, acc, i - 1), acc.go, ~acc.db.thrown, WaitingMap(PlanOf(p, r)[n]),
           NEW e, Extends(p, acc.db, e, ChildRun(<<r, n, i>>)), e.thrown \/ ChildRun(<<r, n, i>>) \in DOMAIN e.runs,
           NEW f, IsPass(f), f.db = e, f.active = acc.active + 1,
           v[i].run = "none", ~(acc.active >= PlanOf(p, r)[n].limit)
    PROVE  PassWithin(p, d, r, n, f, i)
  <1> DEFINE items == DOMAIN PlanOf(p, r)[n].members
  <1> DEFINE c(j) == ChildRun(<<r, n, j>>)
  <1> DEFINE lim == PlanOf(p, r)[n].limit
  <1> DEFINE L == LiveItems(p, acc.db, r, n)
  <1>1. Counted(p, d, r, n, acc, i - 1) /\ PassOk(p, d, acc) /\ acc.active \in Nat /\ Within(p, acc.db, r, n)
        /\ StartsAt(d, acc.db, r, n) /\ Becomes(p, d, acc.db)
    BY DEF PassWithin, PassOk
  <1>2. c(i) \notin DOMAIN acc.db.runs
    BY <1>1, RestIsExact
  <1>3. Becomes(p, acc.db, e) /\ Later(acc.db, e) /\ DOMAIN acc.db.runs \subseteq DOMAIN e.runs
        /\ DOMAIN e.runs \subseteq DOMAIN acc.db.runs \cup {c(i)}
    BY DEF Extends, Becomes, Later
  <1>4. items \subseteq Nat /\ i \in Nat /\ n \in Nat /\ lim \in Nat /\ PlanOk(p) /\ n \in DOMAIN PlanOf(p, r)
    BY NumbersAreNatural DEF PassStarts, NodeOk, WaitingMap
  <1>5. ASSUME NEW j \in items, c(j) \in DOMAIN e.runs, j # i PROVE c(j) \in DOMAIN acc.db.runs
    <2>1. c(j) # c(i)
      BY <1>4, <1>5, NamesDiffer
    <2> QED BY <1>3, <1>5, <2>1
  <1>6. \A j \in items : j <= i - 1 => c(j) \in DOMAIN acc.db.runs
    BY <1>1 DEF Counted
  <1>7. \A j \in items : j > i => c(j) \notin DOMAIN acc.db.runs
    BY <1>1, <1>2 DEF Within
  <1>8. L \subseteq items /\ LiveItems(p, e, r, n) \subseteq L \cup {i} /\ LiveItems(p, e, r, n) \subseteq items
    <2>1. ASSUME NEW j \in items, IsLive(e, c(j)), j # i PROVE IsLive(acc.db, c(j))
      BY <1>3, <1>5, <2>1, LiveWasLive DEF IsLive
    <2> QED BY <2>1 DEF LiveItems
  <1>9. \A j \in L : j <= i - 1
    <2> SUFFICES ASSUME NEW j \in items, c(j) \in DOMAIN acc.db.runs PROVE j <= i - 1
      BY DEF LiveItems, IsLive
    <2>1. ~(j > i) /\ j # i
      BY <1>2, <1>7
    <2> QED BY <1>4, <2>1
  <1>10. Cardinality(LiveItems(p, e, r, n)) <= acc.active + 1
    <2>1. {j \in LiveItems(p, e, r, n) : j <= i} = LiveItems(p, e, r, n)
      BY <1>4, <1>8, <1>9
    <2>2. Cardinality({j \in LiveItems(p, e, r, n) : j <= i}) <= acc.active + 1
      BY <1>1, <1>8, CountGoesOn
    <2> QED BY <2>1, <2>2
  <1>11. Within(p, e, r, n)
    <2>1. Cardinality(LiveItems(p, e, r, n)) <= lim
      <3>1. Cardinality(LiveItems(p, e, r, n)) \in Nat
        BY <1>4, <1>8, ItemsAreFinite
      <3> QED BY <1>1, <1>4, <1>10, <3>1
    <2>2. ASSUME NEW a \in items, NEW b \in items, a < b, c(b) \in DOMAIN e.runs PROVE c(a) \in DOMAIN e.runs
      <3>1. CASE b = i
        <4>1. a <= i - 1
          BY <1>4, <2>2, <3>1
        <4> QED BY <1>3, <1>6, <4>1
      <3>2. CASE b # i
        <4>1. c(b) \in DOMAIN acc.db.runs
          BY <1>5, <2>2, <3>2
        <4>2. c(a) \in DOMAIN acc.db.runs
          BY <1>1, <2>2, <4>1 DEF Within
        <4> QED BY <1>3, <4>2
      <3> QED BY <3>1, <3>2
    <2> QED BY <2>1, <2>2 DEF Within
  <1>12. e.thrown \/ Counted(p, d, r, n, f, i)
    <2> SUFFICES ASSUME ~e.thrown PROVE Counted(p, d, r, n, f, i)
      OBVIOUS
    <2>1. Cardinality({j \in LiveItems(p, e, r, n) : j <= i}) <= f.active
      BY <1>1, <1>8, CountGoesOn
    <2>2. ASSUME NEW j \in items, j > i, c(j) \in DOMAIN e.runs PROVE c(j) \in DOMAIN d.runs
      <3>1. j # i
        BY <1>4, <2>2
      <3>2. c(j) \in DOMAIN acc.db.runs
        BY <1>5, <2>2, <3>1
      <3> QED BY <1>7, <2>2, <3>2
    <2>3. ASSUME NEW j \in items, j <= i PROVE c(j) \in DOMAIN e.runs
      <3>1. j <= i - 1 \/ j = i
        BY <1>4, <2>3
      <3> QED BY <1>3, <1>6, <3>1
    <2> QED BY <2>1, <2>2, <2>3 DEF Counted
  <1>13. PassOk(p, d, f) /\ f.active \in Nat
    <2>1. Becomes(p, d, e)
      BY <1>1, <1>3, BecomesTransitive
    <2> QED BY <1>1, <2>1 DEF PassOk, IsPass
  <1>14. StartsAt(d, e, r, n)
    <2>1. \A x \in DOMAIN e.runs : x \in DOMAIN acc.db.runs \/ x = ChildRun(<<r, n, i>>)
      BY <1>3
    <2> QED BY <1>1, <1>4, <2>1 DEF StartsAt
  <1> QED BY <1>11, <1>12, <1>13, <1>14 DEF PassWithin

\* An item of a map that waits.
LEMMA WaitingItemWithin ==
    ASSUME NEW p, NEW d, NEW r \in RunNames, NEW n, NEW v, PassStarts(p, d, r, n, v), ViewExact(p, d, r, n, v), NEW acc,
           NEW i \in DOMAIN PlanOf(p, r)[n].members,
           PassWithin(p, d, r, n, acc, i - 1), acc.go, ~acc.db.thrown, WaitingMap(PlanOf(p, r)[n]), NEW user
    PROVE  PassWithin(p, d, r, n, MapItem(p, acc, v, r, n, i, user), i)
  <1> DEFINE k == <<r, n, i>>
  <1> DEFINE e == acc.db
  <1> DEFINE g == [acc EXCEPT !.db = StartChildRun(p, e, k)]
  <1> DEFINE h == [g EXCEPT !.active = @ + 1]
  <1> DEFINE u == [acc EXCEPT !.db = Activate(p, e, ChildRun(k)), !.active = @ + 1]
  <1> DEFINE node == PlanOf(p, r)[n]
  <1> DEFINE run == v[i].run
  <1> DEFINE full == acc.active >= node.limit
  <1> DEFINE res == MapItem(p, acc, v, r, n, i, user)
  <1>1. PassStarts(p, e, r, n, v) /\ node.members[i] # "activity" /\ run \in RunStatus \cup {"none"} /\ IsPass(acc)
        /\ node.mode \in {"wait-all", "wait-settled"}
    <2>1. PassStarts(p, e, r, n, v) /\ NodeOk(node)
      BY PassWrites, NumbersAreNatural DEF PassStarts
    <2> QED BY <2>1 DEF WaitingMap, NodeOk, PassStarts, ViewOk, PassWithin
  <1>2. /\ Rewrites(p, e, e) /\ Rewrites(p, e, FailNodeAndRun(e, r, n)) /\ Rewrites(p, e, CancelNodeAndRun(p, e, r, n))
        /\ Rewrites(p, e, SetKid(e, k, "completed")) /\ Rewrites(p, e, SetKid(e, k, "failed"))
        /\ Rewrites(p, e, FailNodeAndRun(CancelNodeChildren(p, SetKid(e, k, "failed"), r, n), r, n))
        /\ run # "none" => Rewrites(p, e, Activate(p, e, ChildRun(k)))
    BY <1>1, PassRewrites DEF Moves
  <1>3. LET f == StartChildRun(p, e, k)
        IN  Extends(p, e, f, ChildRun(k)) /\ (f.thrown \/ ChildRun(k) \in DOMAIN f.runs)
    BY <1>1, PassRewrites DEF Extends
  <1>4. /\ run = "none" /\ full => res = acc
        /\ run = "none" /\ ~full => res = Ended(acc, FailNodeAndRun(e, r, n)) \/ res = h
        /\ run \notin Terminal \cup {"none"} => res = u
        /\ run \in Terminal => res \in {HasOutput(acc, SetKid(e, k, "completed"), i), HasOutput(acc, SetKid(e, k, "failed"), i),
                                        Ended(acc, CancelNodeAndRun(p, e, r, n)),
                                        FailFanIn(p, acc, SetKid(e, k, "failed"), r, n)}
    <2>1. node.mode # "start-only" /\ MapLimitReached(node, acc) = full
      BY <1>1 DEF MapLimitReached
    <2>2. res = CASE run = "none" /\ full -> acc
                  [] run = "none" /\ ~full ->
                        IF user.throws = i THEN Ended(acc, FailNodeAndRun(e, r, n))
                        ELSE IF node.mode = "start-only" THEN [g EXCEPT !.started = @ + 1, !.outputs = @ \cup {i}] ELSE h
                  [] run # "none" /\ node.mode = "start-only" -> HasOutput(acc, e, i)
                  [] run \notin Terminal \cup {"none"} /\ node.mode # "start-only" -> u
                  [] run = "completed" /\ node.mode # "start-only" -> HasOutput(acc, SetKid(e, k, "completed"), i)
                  [] run \in {"failed", "cancelled"} /\ node.mode = "wait-settled" ->
                        HasOutput(acc, SetKid(e, k, "failed"), i)
                  [] run = "cancelled" /\ node.mode = "wait-all" -> Ended(acc, CancelNodeAndRun(p, e, r, n))
                  [] run = "failed" /\ node.mode = "wait-all" -> FailFanIn(p, acc, SetKid(e, k, "failed"), r, n)
      BY <2>1 DEF MapItem
    <2> HIDE DEF res, u, h, g, full, node, run, e, k
    <2>3. CASE run = "none"
      BY <2>1, <2>2, <2>3 DEF Terminal
    <2>4. CASE run \notin Terminal \cup {"none"}
      BY <2>1, <2>2, <2>4 DEF Terminal
    <2>5. CASE run = "completed"
      BY <2>1, <2>2, <2>5 DEF Terminal
    <2>6. CASE run = "failed"
      BY <1>1, <2>1, <2>2, <2>6 DEF Terminal
    <2>7. CASE run = "cancelled"
      BY <1>1, <2>1, <2>2, <2>7 DEF Terminal
    <2> QED BY <2>3, <2>4, <2>5, <2>6, <2>7 DEF Terminal
  <1>5. CASE run = "none" /\ full
    BY <1>1, <1>2, <1>4, <1>5, ItemSeen
  <1>6. CASE run = "none" /\ ~full
    <2>1. PassWithin(p, d, r, n, Ended(acc, FailNodeAndRun(e, r, n)), i)
      BY <1>2, PassEnds
    <2>2. IsPass(h) /\ h.db = StartChildRun(p, e, k) /\ h.active = acc.active + 1
      <3>1. IsPass(g) /\ g.db = StartChildRun(p, e, k) /\ g.active = acc.active
        BY <1>1, PassPuts
      <3> HIDE DEF g
      <3> QED BY <3>1, PassActive
    <2> HIDE DEF h
    <2>3. PassWithin(p, d, r, n, h, i)
      BY <1>3, <1>6, <2>2, ItemStarted
    <2> QED BY <1>4, <1>6, <2>1, <2>3
  <1>7. CASE run \notin Terminal \cup {"none"}
    <2>1. IsPass(u) /\ u.db = Activate(p, e, ChildRun(k)) /\ u.active = acc.active + 1
      BY <1>1, PassActivates
    <2> HIDE DEF u
    <2>2. PassWithin(p, d, r, n, u, i)
      BY <1>2, <1>7, <2>1, ItemSeen
    <2> QED BY <1>4, <1>7, <2>2
  <1>8. CASE run \in Terminal
    <2>1. /\ PassWithin(p, d, r, n, Ended(acc, CancelNodeAndRun(p, e, r, n)), i)
          /\ PassWithin(p, d, r, n, FailFanIn(p, acc, SetKid(e, k, "failed"), r, n), i)
      BY <1>2, PassEnds DEF FailFanIn
    <2>2. ASSUME NEW f, Rewrites(p, e, f) PROVE PassWithin(p, d, r, n, HasOutput(acc, f, i), i)
      BY <1>1, <1>8, <2>2, PassOutputs, ItemSeen
    <2> QED BY <1>2, <1>4, <1>8, <2>1, <2>2
  <1> QED BY <1>1, <1>5, <1>6, <1>7, <1>8

\* A member of either fan-in.
LEMMA VisitMemberWithin ==
    ASSUME NEW p, NEW d, NEW r \in RunNames, NEW n, NEW v, PassStarts(p, d, r, n, v), ViewExact(p, d, r, n, v), NEW acc,
           NEW i \in DOMAIN PlanOf(p, r)[n].members,
           PassWithin(p, d, r, n, acc, i - 1), PlanOf(p, r)[n].kind \in {"parallel", "map"}, NEW user
    PROVE  PassWithin(p, d, r, n, VisitMember(p, acc, v, r, n, i, user), i)
  <1>1. CASE ~acc.go \/ acc.db.thrown
    BY <1>1 DEF VisitMember, PassWithin
  <1>2. CASE acc.go /\ ~acc.db.thrown /\ PlanOf(p, r)[n].kind = "parallel"
    BY <1>2, ParallelMemberWithin DEF VisitMember
  <1>3. CASE acc.go /\ ~acc.db.thrown /\ PlanOf(p, r)[n].kind = "map"
    <2>1. VisitMember(p, acc, v, r, n, i, user) = MapItem(p, acc, v, r, n, i, user)
      BY <1>3 DEF VisitMember
    <2>2. CASE PlanOf(p, r)[n].mode = "start-only"
      BY <1>3, <2>1, <2>2, StartOnlyItemWithin
    <2>3. CASE PlanOf(p, r)[n].mode # "start-only"
      BY <1>3, <2>1, <2>3, WaitingItemWithin DEF WaitingMap
    <2> QED BY <2>2, <2>3
  <1> QED BY <1>1, <1>2, <1>3

\* What a dispatch of node n may do to the maps of the tree.
NodeStep(p, d, e, r, n) ==
    StartsAt(d, e, r, n) /\ (WaitingMap(PlanOf(p, r)[n]) => Within(p, e, r, n))

\* A node to which only rewrites happen.
LEMMA RewriteIsNodeStep ==
    ASSUME NEW p, PlanOk(p), NEW d, NEW e, Rewrites(p, d, e), NEW r, NEW n \in DOMAIN PlanOf(p, r),
           WaitingMap(PlanOf(p, r)[n]) => Within(p, d, r, n)
    PROVE  NodeStep(p, d, e, r, n)
  <1>1. Later(d, e) /\ DOMAIN e.runs = DOMAIN d.runs
    BY DEF Rewrites, Becomes
  <1> QED BY <1>1, WithinStays DEF NodeStep, StartsAt

\* A rewrite before or after.
LEMMA NodeStepAround ==
    ASSUME NEW p, PlanOk(p), NEW c, NEW d, NEW e, NEW f, NEW r, NEW n \in DOMAIN PlanOf(p, r),
           Rewrites(p, c, d), NodeStep(p, d, e, r, n), Rewrites(p, e, f)
    PROVE  NodeStep(p, c, f, r, n)
  <1>1. Later(e, f) /\ DOMAIN f.runs = DOMAIN e.runs /\ DOMAIN d.runs = DOMAIN c.runs
    BY DEF Rewrites, Becomes
  <1> QED BY <1>1, WithinStays DEF NodeStep, StartsAt

\* A node that stands for one child run, or one activity.
LEMMA DispatchOneIsNodeStep ==
    ASSUME NEW p, PlanOk(p), NEW d, DbOk(p, d), NEW r, NEW n, NEW i, Dispatchable(p, d, r, n, i),
           PlanOf(p, r)[n].kind # "map", NEW v, ViewOk(p, d, r, n, v), NEW user
    PROVE  StartsAt(d, DispatchOne(p, d, v, r, n, i, user).db, r, n)
  <1> DEFINE k == <<r, n, i>>
  <1> DEFINE c == ChildRun(k)
  <1> DEFINE Ext(f) == IsDb(f) /\ DOMAIN f.runs \subseteq DOMAIN d.runs \cup {c}
  <1> DEFINE res == DispatchOne(p, d, v, r, n, i, user).db
  <1>1. IsDb(d) /\ i \in Nat /\ k \in DOMAIN d.kids /\ n \in DOMAIN PlanOf(p, r)
    BY NumbersAreNatural DEF Dispatchable, DbOk
  <1>2. ASSUME NEW f, Ext(f)
        PROVE  /\ Ext(FailNodeAndRun(f, r, n)) /\ Ext(CancelNodeAndRun(p, f, r, n)) /\ Ext(DispatchAttempt(f, k))
               /\ \A to : Ext(SetNode(f, r, n, to)) /\ Ext(SetKid(f, k, to))
               /\ Ext(Activate(p, f, c))
    <2>1. /\ SameRuns(f, FailNodeAndRun(f, r, n)) /\ SameRuns(f, CancelNodeAndRun(p, f, r, n))
          /\ SameRuns(f, DispatchAttempt(f, k)) /\ SameRuns(f, Activate(p, f, c))
          /\ \A to : SameRuns(f, SetNode(f, r, n, to)) /\ SameRuns(f, SetKid(f, k, to))
      BY <1>2, SinksBringNoRun, ActivationBringsNoRun, WritesBringNoRun
    <2> QED BY <1>2, <2>1 DEF SameRuns
  <1>3. Ext(d)
    BY <1>1
  <1>4. PlanOf(p, r)[n].members[i] # "activity" => Ext(StartChildRun(p, d, k))
    <2>1. PlanOf(p, r)[n].members[i] # "activity" => PlanOf(p, k[1])[k[2]].members[k[3]] # "activity"
      OBVIOUS
    <2> HIDE DEF k
    <2> QED BY <1>1, <2>1, StartBringsOneRun
  <1> HIDE DEF Ext
  <1>5. Ext(res)
    <2>1. CASE PlanOf(p, r)[n].members[i] = "activity"
      <3>1. res \in {FailNodeAndRun(d, r, n), DispatchAttempt(d, k)}
        BY <2>1, Results DEF DispatchOne, DispatchActivity
      <3> QED BY <1>2, <1>3, <3>1
    <2>2. CASE PlanOf(p, r)[n].members[i] # "activity"
      <3>1. res \in {FailNodeAndRun(d, r, n), SetNode(StartChildRun(p, d, k), r, n, "waiting"),
                     SetNode(SetKid(d, k, "completed"), r, n, "completed"), CancelNodeAndRun(p, d, r, n),
                     FailNodeAndRun(SetKid(d, k, "failed"), r, n), SetNode(Activate(p, d, c), r, n, "waiting")}
        <4> DEFINE run == v[i].run
        <4>1. DispatchOne(p, d, v, r, n, i, user) =
                CASE run = "none" /\ user.throws = i -> Result(FailNodeAndRun(d, r, n), "terminal")
                  [] run = "none" /\ user.throws # i ->
                        Result(SetNode(StartChildRun(p, d, k), r, n, "waiting"), "parked")
                  [] run = "completed" -> Result(SetNode(SetKid(d, k, "completed"), r, n, "completed"), "next")
                  [] run = "cancelled" -> Result(CancelNodeAndRun(p, d, r, n), "terminal")
                  [] run = "failed" -> Result(FailNodeAndRun(SetKid(d, k, "failed"), r, n), "terminal")
                  [] OTHER -> Result(SetNode(Activate(p, d, c), r, n, "waiting"), "parked")
          BY <2>2 DEF DispatchOne, DispatchChildRun
        <4> HIDE DEF run, c, k
        <4> QED BY <4>1, Results
      <3>2. Ext(SetKid(d, k, "completed")) /\ Ext(SetKid(d, k, "failed")) /\ Ext(Activate(p, d, c))
        BY <1>2, <1>3
      <3> HIDE DEF res, c, k
      <3>3. Ext(FailNodeAndRun(d, r, n)) /\ Ext(CancelNodeAndRun(p, d, r, n)) /\ Ext(FailNodeAndRun(SetKid(d, k, "failed"), r, n))
        BY <1>2, <1>3, <3>2
      <3>4. Ext(SetNode(StartChildRun(p, d, k), r, n, "waiting")) /\ Ext(SetNode(SetKid(d, k, "completed"), r, n, "completed"))
            /\ Ext(SetNode(Activate(p, d, c), r, n, "waiting"))
        BY <1>2, <1>4, <2>2, <3>2
      <3> QED BY <3>1, <3>3, <3>4
    <2> QED BY <2>1, <2>2
  <1>6. \A x \in DOMAIN res.runs : x \in DOMAIN d.runs \/ x = ChildRun(<<r, n, i>>)
    BY <1>5 DEF Ext
  <1> HIDE DEF res
  <1>7. StartsAt(d, res, r, n)
    BY <1>1, <1>6 DEF StartsAt
  <1> QED BY <1>7 DEF res

\* An activity, task or workflow node, or the node of a task run.
LEMMA SingleNodeStep ==
    ASSUME NEW p, PlanOk(p), NEW d, DbOk(p, d), NEW r \in DOMAIN d.runs, NEW n \in DOMAIN PlanOf(p, r),
           <<r, n>> \in DOMAIN d.nodes, PlanOf(p, r)[n].kind \notin {"branch", "parallel", "map"},
           NEW v, ViewOk(p, d, r, n, v), NEW user
    PROVE  StartsAt(d, DispatchSingleNode(p, d, v, r, n, user).db, r, n)
  <1> DEFINE e == EnsureNodeChildren(d, r, n, {1})
  <1>1. DOMAIN PlanOf(p, r)[n].members = {1}
    <2>1. NodeOk(PlanOf(p, r)[n])
      BY PlanFacts
    <2> QED BY <2>1 DEF NodeOk
  <1>2. ChildrenOf(p, d, r, n) = {1}
    BY <1>1 DEF ChildrenOf
  <1>3. Becomes(p, d, e) /\ <<r, n, 1>> \in DOMAIN e.kids
    BY <1>1, <1>2, EnsureNodeChildrenIsSound
  <1>4. DispatchSingleNode(p, d, v, r, n, user) = DispatchOne(p, e, v, r, n, 1, user)
    BY DEF DispatchSingleNode
  <1>5. SameRuns(d, e)
    BY WritesBringNoRun DEF DbOk
  <1> HIDE DEF e
  <1>6. DbOk(p, e) /\ Dispatchable(p, e, r, n, 1) /\ ViewOk(p, e, r, n, v)
    BY <1>1, <1>3, ViewStays DEF Becomes, Later, Dispatchable
  <1>7. StartsAt(e, DispatchOne(p, e, v, r, n, 1, user).db, r, n)
    BY <1>6, DispatchOneIsNodeStep
  <1> QED BY <1>4, <1>5, <1>7 DEF StartsAt, SameRuns

\* A branch.
LEMMA BranchNodeStep ==
    ASSUME NEW p, PlanOk(p), NEW d, DbOk(p, d), NEW r \in DOMAIN d.runs, NEW n \in DOMAIN PlanOf(p, r),
           <<r, n>> \in DOMAIN d.nodes, d.nodes[<<r, n>>].status \notin Terminal,
           PlanOf(p, r)[n].kind = "branch",
           NEW v, ViewOk(p, d, r, n, v), NEW user
    PROVE  StartsAt(d, DispatchBranchNode(p, d, v, r, n, user).db, r, n)
  <1> DEFINE stored == d.nodes[<<r, n>>].selected
  <1> DEFINE named == IF user.case \in DOMAIN PlanOf(p, r)[n].members THEN user.case ELSE 0
  <1> DEFINE case == IF stored = 0 THEN named ELSE stored
  <1> DEFINE f == SelectNodeCase(d, r, n, case)
  <1> DEFINE e == EnsureNodeChildren(f, r, n, {case})
  <1> DEFINE res == DispatchBranchNode(p, d, v, r, n, user)
  <1>1. IsDb(d)
    BY DEF DbOk
  <1>2. stored \in {0} \cup DOMAIN PlanOf(p, r)[n].members
    <2> DEFINE x == <<r, n>>
    <2>1. d.nodes[x].selected \in {0} \cup DOMAIN PlanOf(p, x[1])[x[2]].members
      BY DEF DbOk, NodesOk
    <2> QED BY <2>1
  <1>3. case = 0 \/ case \in DOMAIN PlanOf(p, r)[n].members
    <2> HIDE DEF stored
    <2> QED BY <1>2
  <1>5. CASE case = 0
    <2>1. res = Result(FailNodeAndRun(d, r, n), "terminal")
      BY <1>5 DEF DispatchBranchNode
    <2>2. SameRuns(d, FailNodeAndRun(d, r, n))
      BY <1>1, SinksBringNoRun
    <2> HIDE DEF res
    <2> QED BY <2>1, <2>2, Results DEF res, StartsAt, SameRuns
  <1>6. CASE case # 0
    <2>1. case \in DOMAIN PlanOf(p, r)[n].members /\ stored \in {0, case}
      BY <1>3, <1>6
    <2>2. res \in {Result(SetNode(e, r, n, "completed"), "next"), Result(FailNodeAndRun(e, r, n), "terminal"),
                   Result(CancelNodeAndRun(p, e, r, n), "terminal"), DispatchOne(p, e, v, r, n, case, user)}
      BY <1>6 DEF DispatchBranchNode
    <2> HIDE DEF case, res
    <2>3. Becomes(p, d, f) /\ <<r, n>> \in DOMAIN f.nodes /\ f.nodes[<<r, n>>].selected = case /\ SameRuns(d, f)
      <3>1. Becomes(p, d, f) /\ <<r, n>> \in DOMAIN f.nodes /\ f.nodes[<<r, n>>].selected = case
        BY <2>1, SelectNodeCaseIsSound
      <3>2. SameRuns(d, f)
        BY <1>1, WritesBringNoRun
      <3> QED BY <3>1, <3>2
    <2> HIDE DEF f
    <2>4. DbOk(p, f) /\ ChildrenOf(p, f, r, n) = {case} /\ {case} \subseteq DOMAIN PlanOf(p, r)[n].members
      BY <2>1, <2>3 DEF Becomes, ChildrenOf
    <2>5. Becomes(p, f, e) /\ <<r, n, case>> \in DOMAIN e.kids /\ SameRuns(f, e)
      <3>1. Becomes(p, f, e) /\ <<r, n, case>> \in DOMAIN e.kids
        BY <2>3, <2>4, EnsureNodeChildrenIsSound
      <3>2. IsDb(f)
        BY <2>3 DEF SameRuns
      <3>3. SameRuns(f, e)
        BY <3>2, WritesBringNoRun
      <3> QED BY <3>1, <3>3
    <2> HIDE DEF e
    <2>6. Becomes(p, d, e) /\ SameRuns(d, e)
      BY <2>3, <2>5, BecomesTransitive DEF SameRuns
    <2>7. DbOk(p, e) /\ Dispatchable(p, e, r, n, case) /\ ViewOk(p, e, r, n, v)
      BY <2>1, <2>5, <2>6, ViewStays DEF Becomes, Later, Dispatchable
    <2>8. StartsAt(e, DispatchOne(p, e, v, r, n, case, user).db, r, n)
      BY <2>7, DispatchOneIsNodeStep
    <2>9. /\ SameRuns(e, SetNode(e, r, n, "completed")) /\ SameRuns(e, FailNodeAndRun(e, r, n))
          /\ SameRuns(e, CancelNodeAndRun(p, e, r, n))
      BY <2>6, SinksBringNoRun, WritesBringNoRun DEF SameRuns
    <2>10. StartsAt(e, res.db, r, n)
      BY <2>2, <2>8, <2>9, Results DEF StartsAt, SameRuns
    <2> QED BY <2>6, <2>10 DEF res, StartsAt, SameRuns
  <1> QED BY <1>5, <1>6

\* A fan-in, by induction on the member.
LEMMA FanInStep ==
    ASSUME NEW p, PlanOk(p), NEW d, DbOk(p, d), NEW r \in DOMAIN d.runs, NEW n \in DOMAIN PlanOf(p, r),
           <<r, n>> \in DOMAIN d.nodes, PlanOf(p, r)[n].kind \in {"parallel", "map"},
           NEW v, ViewOk(p, d, r, n, v), ViewExact(p, d, r, n, v), NEW user,
           WaitingMap(PlanOf(p, r)[n]) => Within(p, d, r, n)
    PROVE  NodeStep(p, d, DispatchFanIn(p, d, v, r, n, user).db, r, n)
  <1> DEFINE node == PlanOf(p, r)[n]
  <1> DEFINE N == Len(node.members)
  <1> DEFINE e == EnsureNodeChildren(d, r, n, DOMAIN node.members)
  <1>1. N \in Nat /\ DOMAIN node.members = 1..N
    BY FanInPass
  <1>0. PICK P : FanInBy(p, d, v, r, n, user, P)
    BY FanInPass
  <1>2. /\ DispatchFanIn(p, d, v, r, n, user) = FinishFanIn(node, P[N], r, n)
        /\ P[0] = Pass(e)
        /\ \A i \in 1..N : P[i] = VisitMember(p, P[i - 1], v, r, n, i, user)
    BY <1>0 DEF FanInBy
  <1>3. Becomes(p, d, e) /\ (\A i \in DOMAIN node.members : <<r, n, i>> \in DOMAIN e.kids) /\ Rewrites(p, d, e)
    <2>1. ChildrenOf(p, d, r, n) = DOMAIN node.members
      BY DEF ChildrenOf
    <2>2. Becomes(p, d, e) /\ \A i \in DOMAIN node.members : <<r, n, i>> \in DOMAIN e.kids
      BY <2>1, EnsureNodeChildrenIsSound
    <2>3. SameRuns(d, e)
      BY WritesBringNoRun DEF DbOk
    <2> QED BY <2>2, <2>3 DEF Rewrites, SameRuns
  <1>4. IsPass(Pass(e)) /\ Pass(e).db = e /\ Pass(e).active = 0 /\ "db" \in DOMAIN Pass(e)
    <2> HIDE DEF e
    <2> QED BY PassRecord DEF Pass
  <1> HIDE DEF e
  <1>5. PassStarts(p, e, r, n, v)
    BY <1>3, ViewStays DEF PassStarts, Becomes, Later, Dispatchable
  <1>6. ViewExact(p, e, r, n, v) /\ (WaitingMap(node) => Within(p, e, r, n))
    <2>1. NodeStep(p, d, e, r, n)
      BY <1>3, RewriteIsNodeStep
    <2>2. \A c : c \in DOMAIN d.runs /\ d.runs[c] \in Terminal => e.runs[c] \in Terminal
      BY <1>3 DEF Becomes, Later
    <2>3. DOMAIN e.runs = DOMAIN d.runs
      BY <1>3 DEF Rewrites
    <2>4. \A s \in Terminal : s # "none"
      BY DEF Terminal
    <2> QED BY <2>1, <2>2, <2>3, <2>4 DEF NodeStep, ViewExact
  <1>7. PassWithin(p, e, r, n, P[0], 0)
    <2>1. PassOk(p, e, P[0])
      BY <1>2, <1>3, <1>4, Stays DEF PassOk, Becomes
    <2>2. StartsAt(e, e, r, n)
      BY DEF StartsAt
    <2>3. Counted(p, e, r, n, P[0], 0)
      <3> DEFINE now == {j \in LiveItems(p, e, r, n) : j <= 0}
      <3>1. now = {} /\ \A j \in DOMAIN node.members : ~(j <= 0)
        BY <1>1 DEF LiveItems
      <3>2. Cardinality(now) <= 0
        BY <3>1, FS_EmptySet
      <3> QED BY <1>2, <1>4, <3>1, <3>2 DEF Counted
    <2> QED BY <1>2, <1>4, <1>6, <2>1, <2>2, <2>3 DEF PassWithin
  <1>8. r \in RunNames
    BY RowsAreTyped
  <1>9. ASSUME NEW m \in 0..N, PassWithin(p, e, r, n, P[m], m), m < N PROVE PassWithin(p, e, r, n, P[m + 1], m + 1)
    <2>1. m + 1 \in 1..N /\ (m + 1) - 1 = m
      BY <1>1, <1>9
    <2>2. P[m + 1] = VisitMember(p, P[m], v, r, n, m + 1, user)
      BY <1>2, <2>1
    <2>3. m + 1 \in DOMAIN PlanOf(p, r)[n].members
      BY <1>1, <2>1
    <2>4. PassWithin(p, e, r, n, P[m], (m + 1) - 1)
      BY <1>9, <2>1
    <2> QED BY <1>5, <1>6, <1>8, <2>2, <2>3, <2>4, VisitMemberWithin
  <1> HIDE DEF N
  <1>10. PassWithin(p, e, r, n, P[N], N)
    <2> DEFINE S == {m \in 0..N : PassWithin(p, e, r, n, P[m], m)}
    <2>1. 0 \in S
      BY <1>1, <1>7
    <2>2. \A m \in 0..N : m \in S /\ m < N => m + 1 \in S
      BY <1>1, <1>9
    <2> HIDE DEF S
    <2>3. N \in S
      BY <1>1, <2>1, <2>2, FanInInduction
    <2> QED BY <2>3 DEF S
  <1> DEFINE f == P[N].db
  <1>11. NodeStep(p, e, f, r, n) /\ DbOk(p, f) /\ r \in DOMAIN f.runs
    <2>1. Becomes(p, e, f)
      BY <1>10 DEF PassWithin, PassOk
    <2> QED BY <1>3, <1>10, <2>1 DEF PassWithin, NodeStep, Becomes, Later
  <1>12. Rewrites(p, f, FinishFanIn(node, P[N], r, n).db)
    <2>1. FinishFanIn(node, P[N], r, n).db \in {f, SetNode(f, r, n, "completed"),
            SetNode(f, r, n, "waiting"), SetNode(Enqueue(f, r), r, n, "waiting")}
      BY Results DEF FinishFanIn
    <2> HIDE DEF f
    <2>2. Becomes(p, f, f) /\ IsDb(f)
      BY <1>11, Stays DEF DbOk
    <2>3. Becomes(p, f, Enqueue(f, r)) /\ SameRuns(f, Enqueue(f, r))
      BY <1>11, <2>2, EnqueueIsSound, WritesBringNoRun
    <2>4. Becomes(p, f, SetNode(f, r, n, "completed")) /\ Becomes(p, f, SetNode(f, r, n, "waiting"))
          /\ Becomes(p, f, SetNode(Enqueue(f, r), r, n, "waiting"))
      BY <1>11, <2>2, <2>3, Then DEF Moves
    <2>5. SameRuns(f, SetNode(f, r, n, "completed")) /\ SameRuns(f, SetNode(f, r, n, "waiting"))
      BY <2>2, WritesBringNoRun
    <2>6. SameRuns(Enqueue(f, r), SetNode(Enqueue(f, r), r, n, "waiting"))
      BY <2>3, WritesBringNoRun DEF SameRuns
    <2> QED BY <2>1, <2>2, <2>3, <2>4, <2>5, <2>6 DEF Rewrites, SameRuns
  <1> HIDE DEF f, node
  <1> QED BY <1>2, <1>3, <1>11, <1>12, NodeStepAround

\* A view stays exact while no run comes to its node.
LEMMA ViewStaysExact ==
    ASSUME NEW p, NEW d, NEW e, NEW r, NEW n, NEW v, ViewExact(p, d, r, n, v), Later(d, e),
           \A i \in DOMAIN PlanOf(p, r)[n].members : ChildRun(<<r, n, i>>) \in DOMAIN e.runs
                                                    => ChildRun(<<r, n, i>>) \in DOMAIN d.runs
    PROVE  ViewExact(p, e, r, n, v)
  <1> SUFFICES ASSUME NEW i \in DOMAIN PlanOf(p, r)[n].members
               PROVE  /\ v[i].run = "none" <=> ChildRun(<<r, n, i>>) \notin DOMAIN e.runs
                      /\ v[i].run \in Terminal => e.runs[ChildRun(<<r, n, i>>)] \in Terminal
    BY DEF ViewExact
  <1>1. /\ v[i].run = "none" <=> ChildRun(<<r, n, i>>) \notin DOMAIN d.runs
        /\ v[i].run \in Terminal => d.runs[ChildRun(<<r, n, i>>)] \in Terminal
    BY DEF ViewExact
  <1>2. "none" \notin Terminal
    BY DEF Terminal
  <1>3. DOMAIN d.runs \subseteq DOMAIN e.runs
        /\ \A c \in DOMAIN d.runs : d.runs[c] \in Terminal => e.runs[c] = d.runs[c]
    BY DEF Later
  <1> QED BY <1>1, <1>2, <1>3

\* What is read under the lock is exact.
LEMMA ViewOfIsExact ==
    ASSUME NEW p, PlanOk(p), NEW d, DbOk(p, d), NEW r \in DOMAIN d.runs, NEW n \in DOMAIN PlanOf(p, r)
    PROVE  ViewExact(p, d, r, n, ViewOf(p, d, r, n))
  <1> DEFINE v == ViewOf(p, d, r, n)
  <1> SUFFICES ASSUME NEW i \in DOMAIN PlanOf(p, r)[n].members
               PROVE  /\ v[i].run = "none" <=> ChildRun(<<r, n, i>>) \notin DOMAIN d.runs
                      /\ v[i].run \in Terminal => d.runs[ChildRun(<<r, n, i>>)] \in Terminal
    BY DEF ViewExact
  <1> DEFINE k == <<r, n, i>>
  <1> DEFINE c == ChildRun(k)
  <1>1. v[i].run = IF ChildRow(d, k).linked THEN d.runs[c] ELSE "none"
    BY DEF ViewOf
  <1>2. ChildRow(d, k).linked <=> c \in DOMAIN d.runs
    <2>1. CASE k \in DOMAIN d.kids
      BY <2>1 DEF ChildRow, DbOk, KidsOk
    <2>2. CASE k \notin DOMAIN d.kids
      <3>1. ~ChildRow(d, k).linked
        BY <2>2 DEF ChildRow
      <3>2. KidOf(c) = k /\ c # Root
        <4>1. r \in RunNames /\ n \in Nat /\ i \in Nat
          BY NumbersAreNatural, RowsAreTyped
        <4> QED BY <4>1, ChildRunNames DEF Root
      <3>3. c \notin DOMAIN d.runs
        BY <2>2, <3>2 DEF DbOk, RunsOk
      <3> QED BY <3>1, <3>3
    <2> QED BY <2>1, <2>2
  <1>3. "none" \notin Terminal /\ "none" \notin RunStatus
    BY DEF Terminal, RunStatus
  <1>4. c \in DOMAIN d.runs => d.runs[c] \in RunStatus
    BY RowsAreTyped
  <1> HIDE DEF v, c, k
  <1> QED BY <1>1, <1>2, <1>3, <1>4 DEF c, k

\* A node of any kind.
LEMMA DispatchNodeStep ==
    ASSUME NEW p, PlanOk(p), NEW d, DbOk(p, d), NEW r \in DOMAIN d.runs, NEW n \in DOMAIN PlanOf(p, r),
           NEW v, ViewOk(p, d, r, n, v), ViewExact(p, d, r, n, v), NEW user,
           WaitingMap(PlanOf(p, r)[n]) => Within(p, d, r, n)
    PROVE  NodeStep(p, d, DispatchNode(p, d, v, r, n, user).db, r, n)
  <1> DEFINE e == CreateNode(d, r, n)
  <1> DEFINE kind == PlanOf(p, r)[n].kind
  <1> DEFINE res == DispatchNode(p, d, v, r, n, user)
  <1>1. Becomes(p, d, e) /\ <<r, n>> \in DOMAIN e.nodes /\ DOMAIN e.runs = DOMAIN d.runs
    <2>1. Becomes(p, d, e) /\ <<r, n>> \in DOMAIN e.nodes
      BY CreateNodeIsSound
    <2>2. SameRuns(d, e)
      BY WritesBringNoRun DEF DbOk
    <2> QED BY <2>1, <2>2 DEF SameRuns
  <1>2. /\ e.nodes[<<r, n>>].status \in Terminal => res = Result(e, "parked")
        /\ e.nodes[<<r, n>>].status \notin Terminal =>
            /\ kind = "branch" => res = DispatchBranchNode(p, e, v, r, n, user)
            /\ kind \in {"parallel", "map"} => res = DispatchFanIn(p, e, v, r, n, user)
            /\ kind \notin {"branch", "parallel", "map"} => res = DispatchSingleNode(p, e, v, r, n, user)
    <2> DEFINE t == e.nodes[<<r, n>>].status \in Terminal
    <2>1. res = CASE t -> Result(e, "parked")
                  [] ~t /\ kind = "branch" -> DispatchBranchNode(p, e, v, r, n, user)
                  [] ~t /\ kind \in {"parallel", "map"} -> DispatchFanIn(p, e, v, r, n, user)
                  [] OTHER -> DispatchSingleNode(p, e, v, r, n, user)
      BY DEF DispatchNode
    <2> HIDE DEF res, t, kind
    <2> QED BY <2>1 DEF t
  <1> HIDE DEF e, res
  <1>3. DbOk(p, e) /\ r \in DOMAIN e.runs /\ ViewOk(p, e, r, n, v) /\ ViewExact(p, e, r, n, v)
    BY <1>1, ViewStays, ViewStaysExact DEF Becomes, Later
  <1>4. WaitingMap(PlanOf(p, r)[n]) => Within(p, e, r, n)
    BY <1>1, WithinStays DEF Becomes
  <1>5. Rewrites(p, d, e) /\ Later(d, e)
    BY <1>1 DEF Rewrites, Becomes
  <1>6. NodeStep(p, e, res.db, r, n)
    <2>1. CASE e.nodes[<<r, n>>].status \in Terminal
      <3>1. res.db = e
        BY <1>2, <2>1, Results
      <3> QED BY <1>4, <3>1 DEF NodeStep, StartsAt
    <2>2. CASE e.nodes[<<r, n>>].status \notin Terminal /\ kind \in {"parallel", "map"}
      <3>1. NodeStep(p, e, DispatchFanIn(p, e, v, r, n, user).db, r, n)
        BY <1>1, <1>3, <1>4, <2>2, FanInStep
      <3> QED BY <1>2, <2>2, <3>1
    <2>3. CASE e.nodes[<<r, n>>].status \notin Terminal /\ kind = "branch"
      <3>1. StartsAt(e, DispatchBranchNode(p, e, v, r, n, user).db, r, n)
        BY <1>1, <1>3, <2>3, BranchNodeStep
      <3> QED BY <1>2, <2>3, <3>1 DEF NodeStep, WaitingMap
    <2>4. CASE e.nodes[<<r, n>>].status \notin Terminal /\ kind \notin {"branch", "parallel", "map"}
      <3>1. StartsAt(e, DispatchSingleNode(p, e, v, r, n, user).db, r, n)
        BY <1>1, <1>3, <2>4, SingleNodeStep
      <3> QED BY <1>2, <2>4, <3>1 DEF NodeStep, WaitingMap
    <2> QED BY <2>1, <2>2, <2>3, <2>4
  <1> QED BY <1>1, <1>6 DEF NodeStep, StartsAt, res

-----------------------------------------------------------------------------
(* The pass over the nodes of a run.                                       *)

\* New runs are children of one run.
StartsUnder(d, e, r) ==
    \A c \in DOMAIN e.runs : c \in DOMAIN d.runs \/ \E m \in Nat, i \in Nat : c = ChildRun(<<r, m, i>>)

\* What a coordinator's writes may do to the maps of a tree.
TreeStep(p, d, e, r) == Becomes(p, d, e) /\ MapsWithin(p, e) /\ StartsUnder(d, e, r)

\* A rewrite after.
LEMMA TreeStepThenRewrite ==
    ASSUME NEW p, PlanOk(p), NEW d, NEW e, NEW f, NEW r, TreeStep(p, d, e, r), Becomes(p, e, f),
           DOMAIN f.runs = DOMAIN e.runs
    PROVE  TreeStep(p, d, f, r)
  <1>1. Becomes(p, d, f)
    BY BecomesTransitive DEF TreeStep
  <1>2. MapsWithin(p, f)
    BY MapsStay DEF TreeStep, Becomes
  <1>3. StartsUnder(d, f, r)
    BY DEF TreeStep, StartsUnder
  <1> QED BY <1>1, <1>2, <1>3 DEF TreeStep

\* A node after.
LEMMA TreeStepThenNode ==
    ASSUME NEW p, PlanOk(p), NEW d, NEW e, NEW f, NEW r \in RunNames, NEW n \in DOMAIN PlanOf(p, r),
           TreeStep(p, d, e, r), Becomes(p, e, f), NodeStep(p, e, f, r, n)
    PROVE  TreeStep(p, d, f, r)
  <1>1. Becomes(p, d, f)
    BY BecomesTransitive DEF TreeStep
  <1>2. MapsWithin(p, f)
    <2>1. Later(e, f) /\ MapsWithin(p, e) /\ StartsAt(e, f, r, n)
          /\ (WaitingMap(PlanOf(p, r)[n]) => Within(p, f, r, n))
      BY DEF TreeStep, Becomes, NodeStep
    <2> QED BY <2>1, MapsStayElsewhere
  <1>3. StartsUnder(d, f, r)
    <2>1. n \in Nat
      BY NumbersAreNatural
    <2> QED BY <2>1 DEF TreeStep, StartsUnder, NodeStep, StartsAt
  <1> QED BY <1>1, <1>2, <1>3 DEF TreeStep

\* The pass over the nodes of a run, by induction on the node.
LEMMA AdvanceIsTreeStep ==
    ASSUME NEW p, PlanOk(p), NEW d, DbOk(p, d), MapsWithin(p, d), NEW r \in DOMAIN d.runs,
           NEW n \in 1..(Len(PlanOf(p, r)) + 1), NEW v,
           n \in DOMAIN PlanOf(p, r) => ViewOk(p, d, r, n, v) /\ ViewExact(p, d, r, n, v), NEW user
    PROVE  TreeStep(p, d, AdvanceWorkflowRun(p, d, v, r, n, user).db, r)
  <1> DEFINE end == Len(PlanOf(p, r))
  <1> DEFINE Step(a, m) == AdvanceBy(p, a, v, r, n, m, user)
  <1>1. end \in Nat /\ DOMAIN PlanOf(p, r) = 1..end /\ n - 1 \in Nat /\ n - 1 <= end /\ n \in Nat
    BY AdvancePass
  <1>0. PICK P : AdvancedBy(p, d, v, r, n, user, P)
    BY AdvancePass
  <1>2. /\ AdvanceWorkflowRun(p, d, v, r, n, user) =
                IF P[end].out # "next" THEN P[end]
                ELSE IF user.throws # 0 THEN Result(FailRunAndWakeParent(P[end].db, r), "terminal")
                ELSE Result(CompleteRunAndWakeParent(P[end].db, r), "terminal")
        /\ P[n - 1] = Result(d, "next")
        /\ \A m \in n..end : P[m] = Step(P[m - 1], m)
    BY <1>0 DEF AdvancedBy
  <1>3. TreeStep(p, d, d, r) /\ P[n - 1].db = d /\ r \in RunNames
    BY <1>2, Results, Stays, RowsAreTyped DEF TreeStep, StartsUnder
  <1>4. ASSUME NEW a, TreeStep(p, d, a.db, r), NEW m \in n..end, m = n => a.db = d
        PROVE  TreeStep(p, d, Step(a, m).db, r)
    <2> DEFINE w == IF m = n THEN v ELSE ViewOf(p, a.db, r, m)
    <2>1. DbOk(p, a.db) /\ r \in DOMAIN a.db.runs /\ m \in DOMAIN PlanOf(p, r) /\ MapsWithin(p, a.db)
      BY <1>1, <1>4 DEF TreeStep, Becomes, Later
    <2>2. ViewOk(p, a.db, r, m, w) /\ ViewExact(p, a.db, r, m, w)
      <3>1. CASE m = n
        BY <1>4, <2>1, <3>1
      <3>2. CASE m # n
        BY <2>1, <3>2, ViewOfIsSound, ViewOfIsExact
      <3> QED BY <3>1, <3>2
    <2>3. Step(a, m) \in {a, DispatchNode(p, a.db, w, r, m, user)}
      BY DEF AdvanceBy
    <2> HIDE DEF w, Step
    <2>4. Becomes(p, a.db, DispatchNode(p, a.db, w, r, m, user).db)
      BY <2>1, <2>2, DispatchNodeIsSound
    <2>5. WaitingMap(PlanOf(p, r)[m]) => Within(p, a.db, r, m)
      BY <1>3, <2>1 DEF MapsWithin
    <2>6. NodeStep(p, a.db, DispatchNode(p, a.db, w, r, m, user).db, r, m)
      BY <2>1, <2>2, <2>5, DispatchNodeStep
    <2>7. TreeStep(p, d, DispatchNode(p, a.db, w, r, m, user).db, r)
      BY <1>3, <1>4, <2>1, <2>4, <2>6, TreeStepThenNode
    <2> QED BY <1>4, <2>3, <2>7
  <1> HIDE DEF end, Step
  <1>5. TreeStep(p, d, P[end].db, r)
    <2> DEFINE S == {m \in Nat : TreeStep(p, d, P[m].db, r)}
    <2>1. n - 1 \in S
      BY <1>1, <1>3
    <2>2. \A m \in n..end : m - 1 \in S => m \in S
      <3> SUFFICES ASSUME NEW m \in n..end, m - 1 \in S PROVE m \in S
        OBVIOUS
      <3>1. m \in Nat /\ (m = n => m - 1 = n - 1)
        BY <1>1
      <3>2. TreeStep(p, d, P[m - 1].db, r) /\ (m = n => P[m - 1].db = d)
        BY <1>3, <3>1
      <3>3. TreeStep(p, d, Step(P[m - 1], m).db, r)
        BY <1>4, <3>2
      <3> QED BY <1>2, <3>1, <3>3
    <2> HIDE DEF S
    <2>3. end \in S
      BY <1>1, <2>1, <2>2, AdvanceInduction
    <2> QED BY <2>3 DEF S
  <1> DEFINE last == P[end]
  <1>6. TreeStep(p, d, last.db, r)
    BY <1>5
  <1>7. AdvanceWorkflowRun(p, d, v, r, n, user).db \in
            {last.db, FailRunAndWakeParent(last.db, r), CompleteRunAndWakeParent(last.db, r)}
    BY <1>2, Results
  <1> HIDE DEF last
  <1>8. ASSUME NEW f \in {FailRunAndWakeParent(last.db, r), CompleteRunAndWakeParent(last.db, r)}
        PROVE  TreeStep(p, d, f, r)
    <2>1. DbOk(p, last.db) /\ r \in DOMAIN last.db.runs /\ IsDb(last.db)
      BY <1>6 DEF TreeStep, Becomes, Later, DbOk
    <2>2. Becomes(p, last.db, f)
      BY <1>8, <2>1, SinksAreSound
    <2>3. SameRuns(last.db, f)
      BY <1>8, <2>1, SinksBringNoRun
    <2> QED BY <1>6, <2>2, <2>3, TreeStepThenRewrite DEF SameRuns
  <1> QED BY <1>6, <1>7, <1>8

\* What a coordinator commits keeps the maps of the tree within their concurrency.
LEMMA ContinueIsTreeStep ==
    ASSUME NEW p, PlanOk(p), NEW d, DbOk(p, d), MapsWithin(p, d), NEW r \in DOMAIN d.runs,
           NEW status, NEW nodes, NEW v,
           FirstOpenNode(p, r, nodes) \in DOMAIN PlanOf(p, r) =>
                ViewOk(p, d, r, FirstOpenNode(p, r, nodes), v) /\ ViewExact(p, d, r, FirstOpenNode(p, r, nodes), v),
           NEW user
    PROVE  TreeStep(p, d, ContinueWorkflowRun(p, d, status, nodes, v, r, user), r)
  <1> DEFINE first == FirstOpenNode(p, r, nodes)
  <1> DEFINE e == SetRun(d, r, "running")
  <1> DEFINE result == AdvanceWorkflowRun(p, e, v, r, first, user)
  <1> DEFINE failed == CHOOSE n \in {n \in DOMAIN nodes : nodes[n] = "failed"} : TRUE
  <1> DEFINE f == CancelNodeChildren(p, d, r, failed)
  <1> DEFINE res == ContinueWorkflowRun(p, d, status, nodes, v, r, user)
  <1>1. res \in {CancelRunAndWakeParent(p, d, r), WakeParentRun(d, r), FailRunAndWakeParent(d, r),
                 FailRunAndWakeParent(f, r), SetRun(result.db, r, "waiting"), result.db}
    BY DEF ContinueWorkflowRun
  <1>2. Becomes(p, d, res)
    BY ContinueWorkflowRunIsSound
  <1>3. IsDb(d) /\ TreeStep(p, d, d, r)
    BY Stays DEF TreeStep, StartsUnder, DbOk
  <1>4. TreeStep(p, d, e, r) /\ DbOk(p, e) /\ r \in DOMAIN e.runs /\ DOMAIN e.runs = DOMAIN d.runs /\ Later(d, e)
    <2>1. Becomes(p, d, e)
      BY SetRunIsSound DEF Moves
    <2>2. SameRuns(d, e)
      BY <1>3, WritesBringNoRun
    <2> HIDE DEF e
    <2>3. TreeStep(p, d, e, r)
      BY <1>3, <2>1, <2>2, TreeStepThenRewrite DEF SameRuns
    <2> QED BY <2>1, <2>2, <2>3 DEF SameRuns, Becomes
  <1>5. /\ SameRuns(d, CancelRunAndWakeParent(p, d, r)) /\ SameRuns(d, WakeParentRun(d, r))
        /\ SameRuns(d, FailRunAndWakeParent(d, r)) /\ SameRuns(d, FailRunAndWakeParent(f, r))
    BY <1>3, SinksBringNoRun, WritesBringNoRun
  <1> HIDE DEF e, failed, f
  <1>6. TreeStep(p, e, result.db, r)
    <2>1. first \in 1..(Len(PlanOf(p, r)) + 1)
      BY FirstOpenNodeIsNext
    <2>2. first \in DOMAIN PlanOf(p, r) => ViewOk(p, e, r, first, v) /\ ViewExact(p, e, r, first, v)
      BY <1>4, ViewStays, ViewStaysExact
    <2>3. MapsWithin(p, e)
      BY <1>4 DEF TreeStep
    <2> HIDE DEF first
    <2> QED BY <1>4, <2>1, <2>2, <2>3, AdvanceIsTreeStep
  <1> HIDE DEF result, res
  <1>7. TreeStep(p, d, result.db, r)
    <2>1. Becomes(p, d, result.db)
      BY <1>4, <1>6, BecomesTransitive DEF TreeStep
    <2> QED BY <1>4, <1>6, <2>1 DEF TreeStep, StartsUnder
  <1>8. TreeStep(p, d, SetRun(result.db, r, "waiting"), r)
    <2>1. DbOk(p, result.db) /\ IsDb(result.db) /\ r \in DOMAIN result.db.runs
      BY <1>7 DEF TreeStep, Becomes, Later, DbOk
    <2>2. Becomes(p, result.db, SetRun(result.db, r, "waiting"))
      BY <2>1, SetRunIsSound DEF Moves
    <2>3. SameRuns(result.db, SetRun(result.db, r, "waiting"))
      BY <2>1, WritesBringNoRun
    <2> QED BY <1>7, <2>2, <2>3, TreeStepThenRewrite DEF SameRuns
  <1>9. ASSUME SameRuns(d, res) PROVE TreeStep(p, d, res, r)
    <2>1. DOMAIN res.runs = DOMAIN d.runs
      BY <1>9 DEF SameRuns
    <2> QED BY <1>2, <1>3, <2>1, TreeStepThenRewrite
  <1> QED BY <1>1, <1>5, <1>7, <1>8, <1>9 DEF res

-----------------------------------------------------------------------------
(* The steps of the system, and its maps.                                  *)

\* Only a coordinator's commit brings runs.
LEMMA ExecutionBringsNoRun ==
    ASSUME WfInv, Execution PROVE DOMAIN db'.runs = DOMAIN db.runs /\ UNCHANGED <<plan, coord>>
  <1>1. IsDb(db)
    BY DEF WfInv, DbOk
  <1>2. PICK k \in DOMAIN db.cmds : \/ StartAttempt(k)
                                    \/ \E outcome \in {"completed", "failed"} : SettleAttempt(k, outcome)
                                    \/ ObserveCancellation(k)
                                    \/ WorkerCrashes(k)
    BY DEF Execution
  <1> DEFINE d0 == DropCommand(db, k)
  <1>3. SameRuns(db, d0) /\ UNCHANGED <<plan, coord>>
    <2>1. SameRuns(db, d0)
      BY <1>1, WritesBringNoRun
    <2> QED BY <1>2, <2>1 DEF StartAttempt, SettleAttempt, ObserveCancellation, WorkerCrashes
  <1>4. ASSUME NEW s PROVE SameRuns(db, [db EXCEPT !.cmds[k] = s])
    <2> DEFINE C == [db.cmds EXCEPT ![k] = s]
    <2>1. [db EXCEPT !.cmds[k] = s] = [db EXCEPT !.cmds = C]
      OBVIOUS
    <2> HIDE DEF C
    <2> QED BY <1>1, <2>1 DEF SameRuns, IsDb
  <1>5. CASE StartAttempt(k)
    <2> DEFINE d == [db EXCEPT !.cmds[k] = "claimed"]
    <2>1. db' \in {d0, SetRun(d, k[1], "running"), d}
      BY <1>5 DEF StartAttempt
    <2>2. SameRuns(db, d)
      BY <1>4
    <2> HIDE DEF d, d0
    <2>3. SameRuns(d, SetRun(d, k[1], "running"))
      BY <2>2, WritesBringNoRun DEF SameRuns
    <2> QED BY <1>3, <2>1, <2>2, <2>3 DEF SameRuns
  <1>6. ASSUME NEW outcome \in {"completed", "failed"}, SettleAttempt(k, outcome) PROVE DOMAIN db'.runs = DOMAIN db.runs
    <2> DEFINE r == k[1]
    <2> DEFINE kids == [d0.kids EXCEPT ![k] = [@ EXCEPT !.attempt = outcome, !.status = outcome]]
    <2> DEFINE d1 == [d0 EXCEPT !.kids[k] = [@ EXCEPT !.attempt = outcome, !.status = outcome]]
    <2> DEFINE d2 == IF Single(k) THEN SetNode(d1, r, k[2], outcome) ELSE d1
    <2> DEFINE e == SetRun(d2, r, outcome)
    <2>1. db' \in {d0, WakeParentRun(e, r), Enqueue(d2, r)}
      BY <1>6 DEF SettleAttempt
    <2> HIDE DEF d0
    <2>2. SameRuns(d0, d1)
      <3>1. d1 = [d0 EXCEPT !.kids = kids]
        OBVIOUS
      <3> HIDE DEF kids, d1
      <3> QED BY <1>3, <3>1 DEF SameRuns, IsDb
    <2> HIDE DEF d1
    <2>3. SameRuns(d1, d2)
      <3>1. SameRuns(d1, SetNode(d1, r, k[2], outcome)) /\ SameRuns(d1, d1)
        BY <2>2, WritesBringNoRun DEF SameRuns
      <3> QED BY <3>1
    <2> HIDE DEF d2
    <2>4. SameRuns(d2, e) /\ SameRuns(d2, Enqueue(d2, r))
      BY <2>3, WritesBringNoRun DEF SameRuns
    <2> HIDE DEF e
    <2>5. SameRuns(e, WakeParentRun(e, r))
      BY <2>4, WritesBringNoRun DEF SameRuns
    <2> QED BY <1>3, <2>1, <2>2, <2>3, <2>4, <2>5 DEF SameRuns
  <1>7. CASE ObserveCancellation(k)
    BY <1>3, <1>7 DEF ObserveCancellation, SameRuns
  <1>8. CASE WorkerCrashes(k)
    BY <1>4, <1>8 DEF WorkerCrashes, SameRuns
  <1> QED BY <1>2, <1>3, <1>5, <1>6, <1>7, <1>8

\* Nor does a sweep or a client.
LEMMA MaintenanceBringsNoRun ==
    ASSUME WfInv, Maintenance \/ Client PROVE DOMAIN db'.runs = DOMAIN db.runs /\ UNCHANGED <<plan, coord>>
  <1>1. IsDb(db)
    BY DEF WfInv, DbOk
  <1>2. ASSUME NEW k \in DOMAIN db.cmds, SweepDeadAttempt(k)
        PROVE  DOMAIN db'.runs = DOMAIN db.runs /\ UNCHANGED <<plan, coord>>
    <2> DEFINE d == SetKid(db, k, "failed")
    <2>1. db' \in {d, SetNode(d, k[1], k[2], "failed")} /\ UNCHANGED <<plan, coord>>
      BY <1>2 DEF SweepDeadAttempt
    <2>2. SameRuns(db, d)
      BY <1>1, WritesBringNoRun
    <2> HIDE DEF d
    <2>3. SameRuns(d, SetNode(d, k[1], k[2], "failed"))
      BY <2>2, WritesBringNoRun DEF SameRuns
    <2> QED BY <2>1, <2>2, <2>3 DEF SameRuns
  <1>3. ASSUME \/ SweepContinues \/ SweepDeletesCommands \/ SweepCancelsNodes \/ SweepFailsRun \/ SweepWakesParent
        PROVE  DOMAIN db'.runs = DOMAIN db.runs /\ UNCHANGED <<plan, coord>>
    <2>1. db' \in {Enqueue(db, sweep.run), DeleteUnclaimed(db, sweep.run), CancelNonTerminalRunNodes(db, sweep.run),
                   SetRun(db, sweep.run, "failed"), WakeParentRun(db, sweep.run)}
      BY <1>3 DEF SweepContinues, SweepDeletesCommands, SweepCancelsNodes, SweepFailsRun, SweepWakesParent
    <2>2. UNCHANGED <<plan, coord>>
      BY <1>3 DEF SweepContinues, SweepDeletesCommands, SweepCancelsNodes, SweepFailsRun, SweepWakesParent
    <2> QED BY <1>1, <2>1, <2>2, WritesBringNoRun DEF SameRuns
  <1>4. ASSUME CancelRunTreeSteps PROVE DOMAIN db'.runs = DOMAIN db.runs /\ UNCHANGED <<plan, coord>>
    <2>1. UNCHANGED <<plan, coord>>
      BY <1>4 DEF CancelRunTreeSteps, TreeLoads, TreeRequests, TreeCancelsNodes, TreeLoadsChild, TreeAsksChild,
          TreeWakesChild, TreeDeletesCommands, TreeCancelsRun
    <2>2. \E r : db' \in {db, SetRun(db, r, "cancelling"), SetRun(db, r, "cancelled"), Enqueue(db, r),
                          DeleteUnclaimed(db, r), CancelNonTerminalRunNodes(db, r)}
      BY <1>4 DEF CancelRunTreeSteps, TreeLoads, TreeRequests, TreeCancelsNodes, TreeLoadsChild, TreeAsksChild,
          TreeWakesChild, TreeDeletesCommands, TreeCancelsRun
    <2> QED BY <1>1, <2>1, <2>2, WritesBringNoRun DEF SameRuns
  <1>5. ASSUME SweepMarks PROVE DOMAIN db'.runs = DOMAIN db.runs /\ UNCHANGED <<plan, coord>>
    <2> DEFINE C == [db.cmds EXCEPT ![sweep.kid] = "reaped"]
    <2>1. UNCHANGED <<plan, coord>> /\ db' \in {db, [db EXCEPT !.cmds = C]}
      BY <1>5 DEF SweepMarks
    <2> HIDE DEF C
    <2> QED BY <1>1, <2>1 DEF IsDb
  <1>6. ASSUME Client PROVE DOMAIN db'.runs = DOMAIN db.runs /\ UNCHANGED <<plan, coord>>
    <2>1. db' \in {db, SetRun(db, Root, "cancelling"), Enqueue(db, Root)} /\ UNCHANGED <<plan, coord>>
      BY <1>6 DEF Client, RequestCancel, EnqueueCancel, ClientCrashes
    <2> QED BY <1>1, <2>1, WritesBringNoRun DEF SameRuns
  <1>7. ASSUME \/ \E r \in DOMAIN db.runs : Expire(r) \/ SweepExpired(r) \/ SweepDeadContinue(r)
               \/ SweepReads \/ SweepCancelsTree \/ SweepCrashes
        PROVE  DOMAIN db'.runs = DOMAIN db.runs /\ UNCHANGED <<plan, coord>>
    BY <1>7 DEF Expire, SweepExpired, SweepDeadContinue, SweepReads, SweepCancelsTree, SweepCrashes
  <1> QED BY <1>2, <1>3, <1>4, <1>5, <1>6, <1>7 DEF Maintenance

\* A view of a run's node, while the runs that come are children of other runs.
LEMMA ViewStaysElsewhere ==
    ASSUME NEW p, PlanOk(p), NEW d, NEW e, Later(d, e), NEW r \in RunNames, StartsUnder(d, e, r),
           NEW q \in RunNames, q # r, NEW n \in DOMAIN PlanOf(p, q), NEW v, ViewExact(p, d, q, n, v)
    PROVE  ViewExact(p, e, q, n, v)
  <1>1. ASSUME NEW i \in DOMAIN PlanOf(p, q)[n].members, ChildRun(<<q, n, i>>) \in DOMAIN e.runs
        PROVE  ChildRun(<<q, n, i>>) \in DOMAIN d.runs
    <2>1. n \in Nat /\ i \in Nat
      BY NumbersAreNatural
    <2>2. SUFFICES ASSUME NEW m \in Nat, NEW j \in Nat, ChildRun(<<q, n, i>>) = ChildRun(<<r, m, j>>) PROVE FALSE
      BY <1>1 DEF StartsUnder
    <2>3. q = r
      BY <2>1, <2>2, NamesDiffer
    <2> QED BY <2>3
  <1> QED BY <1>1, ViewStaysExact

\* The conjuncts of MapInv about the coordinators.
CoordinatorsDiffer == \A u, w \in Coordinators : u # w /\ coord[u] # None /\ coord[w] # None => coord[u].run # coord[w].run

Sees(p, d, c) ==
    LET n == FirstOpenNode(p, c.run, c.nodes)
    IN  c # None /\ c.view # None /\ n \in DOMAIN PlanOf(p, c.run) => ViewExact(p, d, c.run, n, c.view)

\* MapInv, part by part.
LEMMA MapInvParts ==
    MapInv <=> MapsWithin(plan, db) /\ CoordinatorsDiffer /\ \A w \in Coordinators : Sees(plan, db, coord[w])
  BY DEF MapInv, CoordinatorsDiffer, Sees

\* A step that brings no run and lets coordinators only stop.
LEMMA QuietStepKeepsMaps ==
    ASSUME WfInv, MapInv, plan' = plan, Later(db, db'), DOMAIN db'.runs = DOMAIN db.runs,
           \A w \in Coordinators : coord'[w] = coord[w] \/ coord'[w] = None
    PROVE  MapInv'
  <1>1. PlanOk(plan) /\ MapsWithin(plan, db) /\ CoordinatorsDiffer /\ \A w \in Coordinators : Sees(plan, db, coord[w])
    BY MapInvParts DEF WfInv
  <1>2. MapsWithin(plan, db')
    BY <1>1, MapsStay
  <1>3. CoordinatorsDiffer'
    BY <1>1 DEF CoordinatorsDiffer
  <1>4. ASSUME NEW c, Sees(plan, db, c) PROVE Sees(plan, db', c)
    BY <1>4, ViewStaysExact DEF Sees
  <1>5. \A w \in Coordinators : Sees(plan, db', coord'[w])
    BY <1>1, <1>4 DEF Sees
  <1> QED BY <1>2, <1>3, <1>5 DEF MapInv, CoordinatorsDiffer, Sees

\* A coordinator's steps.
LEMMA CoordinationKeepsMaps == WfInv /\ MapInv /\ Coordination => MapInv'
  <1> SUFFICES ASSUME WfInv, MapInv, NEW w \in Coordinators,
                      \/ \E r \in db.queue : LoadRun(w, r)
                      \/ ReadChildren(w)
                      \/ \E user \in UserChoices : CommitRun(w, user)
                      \/ CoordinatorCrashes(w)
               PROVE  MapInv'
    BY DEF Coordination
  <1>1. PlanOk(plan) /\ DbOk(plan, db) /\ IsDb(db) /\ DOMAIN coord = Coordinators /\ MapsWithin(plan, db)
        /\ CoordinatorsDiffer /\ \A u \in Coordinators : Sees(plan, db, coord[u])
    BY MapInvParts DEF WfInv, DbOk
  <1>2. Later(db, db')
    BY NextIsSound DEF Next, Coordination
  <1>3. ASSUME NEW r \in db.queue, LoadRun(w, r) PROVE MapInv'
    <2> DEFINE N == [n \in {x[2] : x \in {y \in DOMAIN db.nodes : y[1] = r}} |-> db.nodes[<<r, n>>].status]
    <2> DEFINE c == [run |-> r, status |-> db.runs[r], view |-> None, nodes |-> N]
    <2> DEFINE Q == db.queue \ {r}
    <2>1. db' = [db EXCEPT !.queue = Q] /\ coord' = [coord EXCEPT ![w] = c] /\ plan' = plan /\ RunLockFree(r)
      BY <1>3 DEF LoadRun
    <2>2. c.run = r /\ c.view = None
      OBVIOUS
    <2> HIDE DEF Q, N, c
    <2>3. DOMAIN db'.runs = DOMAIN db.runs
      BY <1>1, <2>1 DEF IsDb
    <2>4. MapsWithin(plan, db')
      BY <1>1, <1>2, <2>3, MapsStay
    <2>5. \A u \in Coordinators : coord'[u] = IF u = w THEN c ELSE coord[u]
      BY <1>1, <2>1
    <2>6. CoordinatorsDiffer'
      BY <1>1, <2>1, <2>2, <2>5 DEF CoordinatorsDiffer, RunLockFree
    <2>7. ASSUME NEW b, Sees(plan, db, b) PROVE Sees(plan, db', b)
      BY <1>2, <2>3, <2>7, ViewStaysExact DEF Sees
    <2>8. Sees(plan, db', c)
      BY <2>2 DEF Sees
    <2>9. \A u \in Coordinators : Sees(plan, db', coord'[u])
      BY <1>1, <2>5, <2>7, <2>8
    <2> QED BY <2>1, <2>4, <2>6, <2>9 DEF MapInv, CoordinatorsDiffer, Sees
  <1>4. ASSUME ReadChildren(w) PROVE MapInv'
    <2> DEFINE c == coord[w]
    <2> DEFINE n == FirstOpenNode(plan, c.run, c.nodes)
    <2> DEFINE v == IF n \in DOMAIN PlanOf(plan, c.run) THEN ViewOf(plan, db, c.run, n) ELSE <<>>
    <2> DEFINE b == [c EXCEPT !.view = v]
    <2>1. c # None /\ coord' = [coord EXCEPT ![w] = b] /\ plan' = plan /\ db' = db
      BY <1>4 DEF ReadChildren
    <2>2. CoordOk(plan, db, c)
      BY <2>1 DEF WfInv
    <2>3. n \in DOMAIN PlanOf(plan, c.run) => ViewExact(plan, db, c.run, n, v)
      BY <1>1, <2>2, ViewOfIsExact DEF CoordOk
    <2> HIDE DEF v
    <2>4. b.run = c.run /\ b.nodes = c.nodes /\ b.view = v
      <3> HIDE DEF c
      <3> QED BY <2>2 DEF CoordOk
    <2> HIDE DEF b
    <2>5. \A u \in Coordinators : coord'[u] = IF u = w THEN b ELSE coord[u]
      BY <1>1, <2>1
    <2>6. CoordinatorsDiffer'
      BY <1>1, <2>1, <2>4, <2>5 DEF CoordinatorsDiffer
    <2>7. Sees(plan, db, b)
      BY <2>3, <2>4 DEF Sees
    <2>8. \A u \in Coordinators : Sees(plan, db, coord'[u])
      BY <1>1, <2>5, <2>7
    <2> QED BY <1>1, <2>1, <2>6, <2>8 DEF MapInv, CoordinatorsDiffer, Sees
  <1>5. ASSUME NEW user \in UserChoices, CommitRun(w, user) PROVE MapInv'
    <2> DEFINE c == coord[w]
    <2> DEFINE d == ContinueWorkflowRun(plan, db, c.status, c.nodes, c.view, c.run, user)
    <2>1. c # None /\ c.view # None /\ db' = (IF d.thrown THEN Enqueue(db, c.run) ELSE d)
          /\ coord' = [coord EXCEPT ![w] = None] /\ plan' = plan
      BY <1>5 DEF CommitRun
    <2>2. CoordOk(plan, db, c) /\ Sees(plan, db, c)
      BY <1>1, <2>1 DEF WfInv
    <2>3. TreeStep(plan, db, d, c.run)
      BY <1>1, <2>1, <2>2, ContinueIsTreeStep DEF CoordOk, Sees
    <2>4. TreeStep(plan, db, Enqueue(db, c.run), c.run)
      <3>1. Becomes(plan, db, Enqueue(db, c.run))
        BY <1>1, <2>2, EnqueueIsSound DEF CoordOk
      <3>2. SameRuns(db, Enqueue(db, c.run))
        BY <1>1, WritesBringNoRun
      <3>3. TreeStep(plan, db, db, c.run)
        BY <1>1, Stays DEF TreeStep, StartsUnder
      <3> QED BY <1>1, <3>1, <3>2, <3>3, TreeStepThenRewrite DEF SameRuns
    <2> HIDE DEF d
    <2>5. TreeStep(plan, db, db', c.run)
      BY <2>1, <2>3, <2>4
    <2>6. \A u \in Coordinators : coord'[u] = IF u = w THEN None ELSE coord[u]
      BY <1>1, <2>1
    <2>7. CoordinatorsDiffer'
      BY <1>1, <2>6 DEF CoordinatorsDiffer
    <2>8. ASSUME NEW u \in Coordinators, u # w PROVE Sees(plan, db', coord[u])
      <3> SUFFICES ASSUME coord[u] # None, coord[u].view # None,
                          FirstOpenNode(plan, coord[u].run, coord[u].nodes) \in DOMAIN PlanOf(plan, coord[u].run)
                   PROVE  ViewExact(plan, db', coord[u].run, FirstOpenNode(plan, coord[u].run, coord[u].nodes), coord[u].view)
        BY DEF Sees
      <3>1. coord[u].run # c.run
        BY <1>1, <2>1, <2>8 DEF CoordinatorsDiffer
      <3>2. coord[u].run \in RunNames /\ c.run \in RunNames
        <4>1. coord[u].run \in DOMAIN db.runs /\ c.run \in DOMAIN db.runs
          BY <2>2 DEF WfInv, CoordOk
        <4> QED BY <1>1, <4>1, RowsAreTyped
      <3>3. ViewExact(plan, db, coord[u].run, FirstOpenNode(plan, coord[u].run, coord[u].nodes), coord[u].view)
        BY <1>1 DEF Sees
      <3>4. StartsUnder(db, db', c.run)
        BY <2>5 DEF TreeStep
      <3> HIDE DEF c
      <3> QED BY <1>1, <1>2, <3>1, <3>2, <3>3, <3>4, ViewStaysElsewhere
    <2>9. \A u \in Coordinators : Sees(plan, db', coord'[u])
      <3>1. Sees(plan, db', None)
        BY DEF Sees
      <3> QED BY <2>6, <2>8, <3>1
    <2> QED BY <2>1, <2>5, <2>7, <2>9 DEF TreeStep, MapInv, CoordinatorsDiffer, Sees
  <1>6. ASSUME CoordinatorCrashes(w) PROVE MapInv'
    <2>1. coord' = [coord EXCEPT ![w] = None] /\ plan' = plan /\ db' \in {db, Enqueue(db, coord[w].run)}
      BY <1>6 DEF CoordinatorCrashes
    <2>2. DOMAIN db'.runs = DOMAIN db.runs
      BY <1>1, <2>1, WritesBringNoRun DEF SameRuns
    <2>3. \A u \in Coordinators : coord'[u] = coord[u] \/ coord'[u] = None
      BY <1>1, <2>1
    <2> QED BY <1>2, <2>1, <2>2, <2>3, QuietStepKeepsMaps
  <1> QED BY <1>3, <1>4, <1>5, <1>6

\* All steps.
LEMMA MapInvHolds == Spec => []MapInv
  <1>1. Init => MapInv
    <2> SUFFICES ASSUME Init PROVE MapInv
      OBVIOUS
    <2>1. PlanOk(plan) /\ coord = [w \in Coordinators |-> None] /\ DOMAIN db.runs = {Root}
      BY RootPlansAssumption DEF Init
    <2>2. ASSUME NEW r \in RunNames, NEW n \in DOMAIN PlanOf(plan, r), WaitingMap(PlanOf(plan, r)[n])
          PROVE  Within(plan, db, r, n)
      <3>1. \A i \in DOMAIN PlanOf(plan, r)[n].members : ChildRun(<<r, n, i>>) \notin DOMAIN db.runs
        <4> TAKE i \in DOMAIN PlanOf(plan, r)[n].members
        <4>1. n \in Nat /\ i \in Nat
          BY <2>1, NumbersAreNatural
        <4>2. ChildRun(<<r, n, i>>) # Root
          BY <4>1, ChildRunNames DEF Root
        <4> QED BY <2>1, <4>2
      <3>2. LiveItems(plan, db, r, n) = {}
        BY <3>1 DEF LiveItems, IsLive
      <3>3. Cardinality(LiveItems(plan, db, r, n)) = 0
        BY <3>2, FS_EmptySet
      <3>4. PlanOf(plan, r)[n].limit \in Nat
        BY <2>1, <2>2, NumbersAreNatural DEF NodeOk, WaitingMap
      <3> QED BY <3>1, <3>3, <3>4 DEF Within
    <2>3. \A w \in Coordinators : coord[w] = None
      BY <2>1
    <2> QED BY <2>2, <2>3 DEF MapInv, MapsWithin
  <1>2. WfInv /\ MapInv /\ [Next]_vars => MapInv'
    <2> SUFFICES ASSUME WfInv, MapInv, [Next]_vars PROVE MapInv'
      OBVIOUS
    <2>1. Later(db, db')
      BY NextIsSound
    <2>2. CASE UNCHANGED vars
      BY <2>1, <2>2, QuietStepKeepsMaps DEF vars
    <2>3. CASE Coordination
      BY <2>3, CoordinationKeepsMaps
    <2>4. CASE Execution
      BY <2>1, <2>4, ExecutionBringsNoRun, QuietStepKeepsMaps
    <2>5. CASE Maintenance \/ Client
      BY <2>1, <2>5, MaintenanceBringsNoRun, QuietStepKeepsMaps
    <2> QED BY <2>2, <2>3, <2>4, <2>5 DEF Next
  <1> QED BY <1>1, <1>2, WfInvHolds, PTL DEF Spec

(***************************************************************************)
(* A map that waits for its items never has more live child runs than its  *)
(* concurrency allows, whatever coordinators, workers, sweeps and clients  *)
(* do in between: dispatchMapRunNode counts what it read under the run's   *)
(* lock.                                                                   *)
(***************************************************************************)
THEOREM MapsStayWithin == Spec => []MapWithinConcurrency
  <1>1. WfInv /\ MapInv => MapWithinConcurrency
    <2> SUFFICES ASSUME WfInv, MapInv, NEW x \in DOMAIN db.nodes, WaitingMap(PlanOf(plan, x[1])[x[2]])
                 PROVE  Cardinality({c \in LinkedRuns(db, KidsOfNode(db, x[1], x[2])) : IsLive(db, c)})
                            <= PlanOf(plan, x[1])[x[2]].limit
      BY DEF MapWithinConcurrency, WaitingMap
    <2> DEFINE r == x[1]
    <2> DEFINE n == x[2]
    <2> DEFINE S == {c \in LinkedRuns(db, KidsOfNode(db, r, n)) : IsLive(db, c)}
    <2> DEFINE L == LiveItems(plan, db, r, n)
    <2> DEFINE T == {i \in L : ChildRun(<<r, n, i>>) \in S}
    <2> DEFINE f == [i \in T |-> ChildRun(<<r, n, i>>)]
    <2>1. PlanOk(plan) /\ DbOk(plan, db)
      BY DEF WfInv
    <2>2. r \in RunNames /\ n \in DOMAIN PlanOf(plan, r)
      <3>1. r \in DOMAIN db.runs /\ n \in DOMAIN PlanOf(plan, r)
        BY <2>1 DEF DbOk, NodesOk
      <3> QED BY <2>1, <3>1, RowsAreTyped
    <2>3. \A c \in S : \E i \in T : f[i] = c
      <3> TAKE c \in S
      <3>1. PICK k \in KidsOfNode(db, r, n) : c = ChildRun(k)
        BY DEF LinkedRuns
      <3>2. k \in DOMAIN db.kids /\ k[1] = r /\ k[2] = n
        BY <3>1 DEF KidsOfNode, KidsOf
      <3>3. k = <<r, n, k[3]>> /\ k[3] \in DOMAIN PlanOf(plan, r)[n].members
        BY <2>1, <3>2 DEF DbOk, KidsOk
      <3>4. c = ChildRun(<<r, n, k[3]>>)
        BY <3>1, <3>3
      <3>5. k[3] \in L
        BY <3>3, <3>4 DEF LiveItems
      <3> QED BY <3>4, <3>5
    <2>4. T \subseteq L /\ L \subseteq DOMAIN PlanOf(plan, r)[n].members
      BY DEF LiveItems
    <2>5. IsFiniteSet(T) /\ Cardinality(T) \in Nat /\ Cardinality(L) \in Nat /\ Cardinality(T) <= Cardinality(L)
      <3> HIDE DEF T, L
      <3> QED BY <2>1, <2>2, <2>4, ItemsAreFinite
    <2>6. f \in Surjection(T, S)
      <3>1. f \in [T -> S]
        OBVIOUS
      <3> HIDE DEF f, T, S
      <3> QED BY <2>3, <3>1 DEF Surjection
    <2>7. IsFiniteSet(S) /\ Cardinality(S) <= Cardinality(T)
      <3> HIDE DEF f, T, S
      <3> QED BY <2>5, <2>6, FS_Surjection
    <2>8. Cardinality(S) \in Nat
      <3> HIDE DEF S
      <3> QED BY <2>7, FS_CardinalityType
    <2>9. Cardinality(L) <= PlanOf(plan, r)[n].limit /\ PlanOf(plan, r)[n].limit \in Nat
      <3>1. Within(plan, db, r, n)
        BY <2>2 DEF MapInv, MapsWithin
      <3>2. PlanOf(plan, r)[n].limit \in Nat
        BY <2>1, <2>2, NumbersAreNatural DEF NodeOk, WaitingMap
      <3> QED BY <3>1, <3>2 DEF Within
    <2> HIDE DEF S, T, L
    <2> QED BY <2>5, <2>7, <2>8, <2>9 DEF S
  <1> QED BY <1>1, MapInvHolds, WfInvHolds, PTL
=============================================================================
