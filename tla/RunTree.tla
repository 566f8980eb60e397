------------------------------ MODULE RunTree ------------------------------
(***************************************************************************)
(* A tree of runs as the coordinator sees it.  A workflow run executes the *)
(* nodes of its plan in order; a child of a node is executed by an attempt *)
(* of its own or by a child run, which is a task run or another workflow.  *)
(*                                                                         *)
(* A run is named by its path from the root: the child of run r started    *)
(* for child i of node n is r \o <<<<n, i>>>>.  A node is <<r, n>> and a   *)
(* child <<r, n, i>>.  The database is a record:                           *)
(*   runs   - run to status;                                               *)
(*   nodes  - node to its status and the selected case of a branch;        *)
(*   kids   - child to status, whether its child run is linked, and the    *)
(*            status of its attempt (its retries are TaskRun's subject);   *)
(*   queue  - the runs with an unclaimed continue command;                 *)
(*   cmds   - the attempt commands: child to "queued", "claimed", "dead";  *)
(*   thrown - the transaction writing this value threw.                    *)
(* An operator is the effect of one store method or helper on it.  The     *)
(* queue is reduced to the promise CommandQueue proves of it: an enqueued  *)
(* continue is delivered, or dies and is reaped.                           *)
(***************************************************************************)
EXTENDS Transitions, Naturals, Sequences, SequencesExt, FiniteSets, TLC

CONSTANT ChildPlan  \* the plan of every child workflow

(***************************************************************************)
(* A node declares its kind, the kinds of its children and, for a map, its *)
(* mode and its concurrency.  A task run has the one node $task.           *)
(***************************************************************************)
TaskPlan == <<[kind |-> "$task", members |-> <<"activity">>]>>

PlanOk(p) ==
    /\ Len(p) \in Nat /\ DOMAIN p = 1..Len(p)
    /\ \A n \in DOMAIN p :
        LET node == p[n]
        IN  /\ node.kind \in {"activity", "task", "workflow", "branch", "parallel", "map"}
            /\ node.members \in Seq({"activity", "task", "workflow"})
            /\ node.kind \in {"activity", "task", "workflow"} => Len(node.members) = 1
            /\ node.kind = "map" => /\ \A i \in DOMAIN node.members : node.members[i] # "activity"
                                    /\ node.mode \in {"wait-all", "wait-settled", "start-only"}
                                    /\ node.limit \in Nat \ {0}

ASSUME ChildPlanAssumption == PlanOk(ChildPlan)

KindOfRun(p, r) ==
    CASE r = <<>>     -> "workflow"
      [] Len(r) = 1   -> p[r[1][1]].members[r[1][2]]
      [] OTHER        -> ChildPlan[Last(r)[1]].members[Last(r)[2]]

PlanOf(p, r) ==
    IF r = <<>> THEN p
    ELSE IF KindOfRun(p, r) = "task" THEN TaskPlan ELSE ChildPlan

ChildRun(k) == Append(k[1], <<k[2], k[3]>>)
KidOf(r) == <<Front(r), Last(r)[1], Last(r)[2]>>
KidsOf(d, r) == {k \in DOMAIN d.kids : k[1] = r}
KidsOfNode(d, r, n) == {k \in KidsOf(d, r) : k[2] = n}
LinkedRuns(d, K) == {ChildRun(k) : k \in {j \in K : d.kids[j].linked}}
IsLive(d, r) == r \in DOMAIN d.runs /\ d.runs[r] \notin Terminal

Enqueue(d, r) == [d EXCEPT !.queue = @ \cup {r}]
WakeParentRun(d, r) == IF r = <<>> THEN d ELSE Enqueue(d, Front(r))

-----------------------------------------------------------------------------
(* Guarded status updates: a miss changes nothing.                         *)

SetRun(d, r, to) ==
    IF d.runs[r] \in RunSources(to) THEN [d EXCEPT !.runs[r] = to] ELSE d

SetNode(d, r, n, to) ==
    IF d.nodes[<<r, n>>].status \in NodeSources(to)
    THEN [d EXCEPT !.nodes[<<r, n>>].status = to] ELSE d

\* Seeded fault: a child that has ended is overwritten.
SetKidAnyway(d, k, to) == [d EXCEPT !.kids[k].status = to]

SetKid(d, k, to) ==
    IF d.kids[k].status \in NodeSources(to)
    THEN [d EXCEPT !.kids[k].status = to] ELSE d

\* Rows K, alike, inserted into table t.
WithRows(t, K, row) == [x \in DOMAIN t \cup K |-> IF x \in K THEN row ELSE t[x]]

CreateNode(d, r, n) ==
    IF <<r, n>> \in DOMAIN d.nodes THEN d
    ELSE [d EXCEPT !.nodes = WithRows(@, {<<r, n>>}, [status |-> "pending", selected |-> 0])]

(***************************************************************************)
(* ensureNodeChildren: the children of a node are created together, once.  *)
(***************************************************************************)
EnsureNodeChildren(d, r, n, I) ==
    IF KidsOfNode(d, r, n) # {} THEN d
    ELSE [d EXCEPT !.kids = WithRows(@, {<<r, n, i>> : i \in I},
                                [status |-> "pending", linked |-> FALSE, attempt |-> "none"])]

(***************************************************************************)
(* selectNodeCase: the first selection of a live node stays.               *)
(***************************************************************************)
SelectNodeCase(d, r, n, case) ==
    IF d.nodes[<<r, n>>].selected = 0 /\ d.nodes[<<r, n>>].status \notin Terminal
    THEN [d EXCEPT !.nodes[<<r, n>>].selected = case] ELSE d

-----------------------------------------------------------------------------
(* Starting work.                                                          *)

\* Seeded fault: the child run is created but not linked to its child.
EnsureChildRunUnlinked(d, k) ==
    IF d.kids[k].linked THEN d
    ELSE [d EXCEPT !.runs = WithRows(@, {ChildRun(k)}, "queued"), !.kids[k].status = "running"]

(***************************************************************************)
(* ensureChildRun: an existing link wins; a settled child throws, and the  *)
(* fresh run goes with the transaction.                                    *)
(***************************************************************************)
EnsureChildRun(d, k) ==
    IF d.kids[k].linked THEN d
    ELSE IF d.kids[k].status \notin NodeSources("running") \cup {"running"}
    THEN [d EXCEPT !.thrown = TRUE]
    ELSE [d EXCEPT !.runs = WithRows(@, {ChildRun(k)}, "queued"),
                   !.kids[k] = [@ EXCEPT !.linked = TRUE, !.status = "running"]]

(***************************************************************************)
(* ensureChildAttempt with dispatchPreparedAttempt: the first attempt of a *)
(* live child is created and dispatched; an attempt that is still started  *)
(* is dispatched again, a no-op while its command exists.                  *)
(***************************************************************************)
DispatchAttempt(d, k) ==
    LET dispatched(e) == IF k \in DOMAIN e.cmds THEN e
                         ELSE [e EXCEPT !.cmds = WithRows(@, {k}, "queued")]
    IN  IF d.kids[k].attempt = "started" THEN dispatched(d)
        ELSE IF d.kids[k].attempt # "none" THEN d
        ELSE IF d.kids[k].status \notin NodeSources("running") \cup {"running"}
        THEN [d EXCEPT !.thrown = TRUE]
        ELSE dispatched(SetNode([d EXCEPT !.kids[k] =
                                    [@ EXCEPT !.attempt = "started", !.status = "running"]],
                                k[1], k[2], "running"))

(***************************************************************************)
(* dispatchTaskRunAttempt: the $task node of a task run, its child and its *)
(* first attempt.                                                          *)
(***************************************************************************)
DispatchTaskRunAttempt(d, r) ==
    DispatchAttempt(EnsureNodeChildren(CreateNode(d, r, 1), r, 1, {1}), <<r, 1, 1>>)

(***************************************************************************)
(* What makes a child run go: a continue of a workflow, the attempt of a   *)
(* task.  It starts a new child run and redispatches a live one.           *)
(***************************************************************************)
Activate(p, d, r) ==
    IF KindOfRun(p, r) = "workflow" THEN Enqueue(d, r) ELSE DispatchTaskRunAttempt(d, r)

StartChildRun(p, d, k) ==
    LET e == EnsureChildRun(d, k)
    IN  IF e.thrown THEN e ELSE Activate(p, e, ChildRun(k))

-----------------------------------------------------------------------------
(* Cancellation.                                                           *)

CancelNonTerminalRunNodes(d, r) ==
    [d EXCEPT
        !.nodes = [x \in DOMAIN @ |-> IF x[1] = r /\ @[x].status \notin Terminal
                                      THEN [@[x] EXCEPT !.status = "cancelled"] ELSE @[x]],
        !.kids = [k \in DOMAIN @ |-> IF k[1] = r /\ @[k].status \notin Terminal
                                     THEN [@[k] EXCEPT !.status = "cancelled"] ELSE @[k]]]

DeleteUnclaimed(d, r) ==
    [d EXCEPT !.cmds = [k \in {j \in DOMAIN @ : ~(j[1] = r /\ @[j] = "queued")} |-> @[k]]]

(***************************************************************************)
(* cancelRunTree descends from r through linked, live child runs.          *)
(***************************************************************************)
Reaches(d, r, c) ==
    /\ Len(r) <= Len(c) /\ SubSeq(c, 1, Len(r)) = r
    /\ \A j \in Len(r)..Len(c) :
        LET b == SubSeq(c, 1, j)
        IN  IsLive(d, b) /\ (j > Len(r) => d.kids[KidOf(b)].linked)

LiveTree(d, R) == {c \in DOMAIN d.runs : \E r \in R : Reaches(d, r, c)}

(***************************************************************************)
(* cancelRunTree of every run in R: each live run of the trees becomes     *)
(* cancelling, loses its nodes and unclaimed commands and is cancelled;    *)
(* workflows below a root of R, and the roots too where the caller         *)
(* enqueues them, get a continue.                                          *)
(***************************************************************************)
CancelTrees(p, d, R, wakeRoots) ==
    LET S == LiveTree(d, R)
        woken == {r \in S : KindOfRun(p, r) = "workflow" /\ (wakeRoots \/ r \notin R)}
        gone(x) == x \in S
    IN  [d EXCEPT
            !.runs = [r \in DOMAIN @ |-> IF gone(r) THEN "cancelled" ELSE @[r]],
            !.nodes = [x \in DOMAIN @ |-> IF gone(x[1]) /\ @[x].status \notin Terminal
                                          THEN [@[x] EXCEPT !.status = "cancelled"] ELSE @[x]],
            !.kids = [k \in DOMAIN @ |-> IF gone(k[1]) /\ @[k].status \notin Terminal
                                         THEN [@[k] EXCEPT !.status = "cancelled"] ELSE @[k]],
            !.cmds = [k \in {j \in DOMAIN @ : ~(gone(j[1]) /\ @[j] = "queued")} |-> @[k]],
            !.queue = @ \cup woken]

CancelRunTree(p, d, r) == CancelTrees(p, d, {r}, FALSE)

(***************************************************************************)
(* cancelNodeChildRunsAndCommands of a failed fan-in.                      *)
(***************************************************************************)
CancelNodeChildren(p, d, r, n) ==
    DeleteUnclaimed(CancelTrees(p, d, LinkedRuns(d, KidsOfNode(d, r, n)), TRUE), r)

-----------------------------------------------------------------------------
(* The sinks: how a run ends.                                              *)

CompleteRunAndWakeParent(d, r) == WakeParentRun(SetRun(d, r, "completed"), r)
FailRunAndWakeParent(d, r) == WakeParentRun(SetRun(d, r, "failed"), r)
CancelRunAndWakeParent(p, d, r) == WakeParentRun(CancelRunTree(p, d, r), r)
FailNodeAndRun(d, r, n) == FailRunAndWakeParent(SetNode(d, r, n, "failed"), r)
CancelNodeAndRun(p, d, r, n) == CancelRunAndWakeParent(p, SetNode(d, r, n, "cancelled"), r)
=============================================================================
