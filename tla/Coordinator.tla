---------------------------- MODULE Coordinator ----------------------------
(***************************************************************************)
(* One pass of the coordinator over a workflow run, as operators: what     *)
(* continueWorkflowRun writes, given what it read.  The pass runs in one   *)
(* transaction.  It reads the run and its nodes first, then the children   *)
(* of the node it dispatches and their child runs (the view), and its      *)
(* writes apply to the rows as they are when it commits.                   *)
(*                                                                         *)
(* dispatch* operators return [db, out]: the database written and          *)
(*   next     - the node is completed, the run goes on to the next one;    *)
(*   parked   - the run waits for child runs;                              *)
(*   local    - an attempt or a continue of the run itself is pending;     *)
(*   terminal - the run has ended.                                         *)
(* The user's callbacks enter as `user`: the case a branch selects, and    *)
(* the child whose callback throws (0 if none does).                       *)
(***************************************************************************)
EXTENDS RunTree

Result(d, out) == [db |-> d, out |-> out]

ChildRow(d, k) ==
    IF k \in DOMAIN d.kids THEN d.kids[k]
    ELSE [status |-> "pending", linked |-> FALSE, attempt |-> "none"]

(***************************************************************************)
(* The children of node n of run r and the statuses of their child runs.   *)
(***************************************************************************)
ViewOf(p, d, r, n) ==
    [i \in DOMAIN PlanOf(p, r)[n].members |->
        LET k == <<r, n, i>>
        IN  [row |-> ChildRow(d, k),
             run |-> IF ChildRow(d, k).linked THEN d.runs[ChildRun(k)] ELSE "none"]]

-----------------------------------------------------------------------------
(***************************************************************************)
(* dispatchChildTaskRun, dispatchChildWorkflow: a node that stands for one *)
(* child run.                                                              *)
(***************************************************************************)
DispatchChildRun(p, d, v, r, n, i, user) ==
    LET k == <<r, n, i>>
    IN  CASE v[i].run = "none" /\ user.throws = i ->
                Result(FailNodeAndRun(d, r, n), "terminal")
          [] v[i].run = "none" /\ user.throws # i ->
                Result(SetNode(StartChildRun(p, d, k), r, n, "waiting"), "parked")
          [] v[i].run = "completed" ->
                Result(SetNode(SetKid(d, k, "completed"), r, n, "completed"), "next")
          [] v[i].run = "cancelled" ->
                Result(CancelNodeAndRun(p, d, r, n), "terminal")
          [] v[i].run = "failed" ->
                Result(FailNodeAndRun(SetKid(d, k, "failed"), r, n), "terminal")
          [] OTHER ->
                Result(SetNode(Activate(p, d, ChildRun(k)), r, n, "waiting"), "parked")

(***************************************************************************)
(* The input callback of an activity runs only before its first attempt.   *)
(***************************************************************************)
InputThrows(v, i, user) == v[i].row.attempt = "none" /\ user.throws = i

DispatchActivity(d, v, r, n, i, user) ==
    IF InputThrows(v, i, user) THEN Result(FailNodeAndRun(d, r, n), "terminal")
    ELSE Result(DispatchAttempt(d, <<r, n, i>>), "local")

DispatchOne(p, d, v, r, n, i, user) ==
    IF PlanOf(p, r)[n].members[i] = "activity"
    THEN DispatchActivity(d, v, r, n, i, user)
    ELSE DispatchChildRun(p, d, v, r, n, i, user)

(***************************************************************************)
(* dispatchActivityNode, dispatchTaskNode, dispatchWorkflowNode.           *)
(***************************************************************************)
DispatchSingleNode(p, d, v, r, n, user) ==
    DispatchOne(p, EnsureNodeChildren(d, r, n, {1}), v, r, n, 1, user)

(***************************************************************************)
(* dispatchBranchNode: the case is selected once and stored; only the      *)
(* selected case has a child.  Case 0: select threw or named no case.      *)
(***************************************************************************)
DispatchBranchNode(p, d, v, r, n, user) ==
    LET stored == d.nodes[<<r, n>>].selected
        named  == IF user.case \in DOMAIN PlanOf(p, r)[n].members THEN user.case ELSE 0
        case   == IF stored = 0 THEN named ELSE stored
        e      == EnsureNodeChildren(SelectNodeCase(d, r, n, case), r, n, {case})
    IN  IF case = 0 THEN Result(FailNodeAndRun(d, r, n), "terminal")
        ELSE CASE v[case].row.status = "completed" ->
                    Result(SetNode(e, r, n, "completed"), "next")
               [] v[case].row.status = "failed" ->
                    Result(FailNodeAndRun(e, r, n), "terminal")
               [] v[case].row.status = "cancelled" ->
                    Result(CancelNodeAndRun(p, e, r, n), "terminal")
               [] OTHER -> DispatchOne(p, e, v, r, n, case, user)

-----------------------------------------------------------------------------
(***************************************************************************)
(* A fan-in visits its children in order and may end early.  The pass over *)
(* them accumulates the database, whether it goes on, the outputs it has,  *)
(* the child runs it knows to be active or has started, and whether an     *)
(* activity is pending.                                                    *)
(***************************************************************************)
Pass(d) == [db |-> d, go |-> TRUE, outputs |-> {}, active |-> 0,
            started |-> 0, local |-> FALSE]

Ended(acc, d) == [acc EXCEPT !.db = d, !.go = FALSE]

\* Seeded fault: the failure of a member does not cancel its siblings.
FailFanInAlone(p, acc, d, r, n) == Ended(acc, FailNodeAndRun(d, r, n))

FailFanIn(p, acc, d, r, n) ==
    Ended(acc, FailNodeAndRun(CancelNodeChildren(p, d, r, n), r, n))

(***************************************************************************)
(* dispatchParallelNode on member i: an activity, a child run, and the     *)
(* member as the store already has it.                                     *)
(***************************************************************************)
ParallelActivity(acc, v, r, n, i, user) ==
    IF InputThrows(v, i, user) THEN Ended(acc, FailNodeAndRun(acc.db, r, n))
    ELSE [acc EXCEPT !.db = DispatchAttempt(acc.db, <<r, n, i>>), !.local = TRUE]

HasOutput(acc, d, i) == [acc EXCEPT !.db = d, !.outputs = @ \cup {i}]

ParallelChildRun(p, acc, v, r, n, i, user) ==
    LET d   == acc.db
        k   == <<r, n, i>>
        run == v[i].run
    IN  CASE run = "none" /\ user.throws = i -> Ended(acc, FailNodeAndRun(d, r, n))
          [] run = "none" /\ user.throws # i -> [acc EXCEPT !.db = StartChildRun(p, d, k)]
          [] run = "completed" -> HasOutput(acc, SetKid(d, k, "completed"), i)
          [] run = "cancelled" -> Ended(acc, CancelNodeAndRun(p, d, r, n))
          [] run = "failed"    -> FailFanIn(p, acc, SetKid(d, k, "failed"), r, n)
          [] OTHER -> [acc EXCEPT !.db = Activate(p, d, ChildRun(k))]

ParallelMember(p, acc, v, r, n, i, user) ==
    LET status == v[i].row.status
    IN  CASE status = "completed" -> HasOutput(acc, acc.db, i)
          [] status = "failed"    -> FailFanIn(p, acc, acc.db, r, n)
          [] status = "cancelled" -> Ended(acc, CancelNodeAndRun(p, acc.db, r, n))
          [] OTHER ->
                IF PlanOf(p, r)[n].members[i] = "activity"
                THEN ParallelActivity(acc, v, r, n, i, user)
                ELSE ParallelChildRun(p, acc, v, r, n, i, user)

\* Seeded fault: one child run too many is started.
MapLimitReachedLate(node, acc) ==
    (IF node.mode = "start-only" THEN acc.started ELSE acc.active) > node.limit

MapLimitReached(node, acc) ==
    (IF node.mode = "start-only" THEN acc.started ELSE acc.active) >= node.limit

(***************************************************************************)
(* dispatchMapRunNode on item i: wait-all fails or is cancelled with its   *)
(* first item, wait-settled collects every outcome, start-only does not    *)
(* wait at all.  The concurrency bounds the active children; for           *)
(* start-only, the children started in one pass.                           *)
(***************************************************************************)
MapItem(p, acc, v, r, n, i, user) ==
    LET d    == acc.db
        k    == <<r, n, i>>
        node == PlanOf(p, r)[n]
        run  == v[i].run
        settled(e) == HasOutput(acc, e, i)
    IN  CASE run = "none" /\ MapLimitReached(node, acc) -> acc
          [] run = "none" /\ ~MapLimitReached(node, acc) ->
                IF user.throws = i THEN Ended(acc, FailNodeAndRun(d, r, n))
                ELSE LET e == [acc EXCEPT !.db = StartChildRun(p, d, k)]
                     IN  IF node.mode = "start-only"
                         THEN [e EXCEPT !.started = @ + 1, !.outputs = @ \cup {i}]
                         ELSE [e EXCEPT !.active = @ + 1]
          [] run # "none" /\ node.mode = "start-only" -> settled(d)
          [] run \notin Terminal \cup {"none"} /\ node.mode # "start-only" ->
                [acc EXCEPT !.db = Activate(p, d, ChildRun(k)), !.active = @ + 1]
          [] run = "completed" /\ node.mode # "start-only" -> settled(SetKid(d, k, "completed"))
          [] run \in {"failed", "cancelled"} /\ node.mode = "wait-settled" ->
                settled(SetKid(d, k, "failed"))
          [] run = "cancelled" /\ node.mode = "wait-all" ->
                Ended(acc, CancelNodeAndRun(p, d, r, n))
          [] run = "failed" /\ node.mode = "wait-all" ->
                FailFanIn(p, acc, SetKid(d, k, "failed"), r, n)

(***************************************************************************)
(* A start-only map that started some but not all of its items continues   *)
(* itself.                                                                 *)
(***************************************************************************)
FinishFanIn(node, acc, r, n) ==
    IF ~acc.go THEN Result(acc.db, "terminal")
    ELSE IF acc.outputs = DOMAIN node.members
    THEN Result(SetNode(acc.db, r, n, "completed"), "next")
    ELSE IF acc.started > 0
    THEN Result(SetNode(Enqueue(acc.db, r), r, n, "waiting"), "local")
    ELSE Result(SetNode(acc.db, r, n, "waiting"), IF acc.local THEN "local" ELSE "parked")

VisitMember(p, acc, v, r, n, i, user) ==
    IF ~acc.go \/ acc.db.thrown THEN acc
    ELSE IF PlanOf(p, r)[n].kind = "parallel" THEN ParallelMember(p, acc, v, r, n, i, user)
    ELSE MapItem(p, acc, v, r, n, i, user)

DispatchFanIn(p, d, v, r, n, user) ==
    LET node == PlanOf(p, r)[n]
        e    == EnsureNodeChildren(d, r, n, DOMAIN node.members)
        pass[i \in 0..Len(node.members)] ==
            IF i = 0 THEN Pass(e) ELSE VisitMember(p, pass[i - 1], v, r, n, i, user)
    IN  FinishFanIn(node, pass[Len(node.members)], r, n)

-----------------------------------------------------------------------------
(***************************************************************************)
(* Every dispatch starts with createNode, which also locks the node; a     *)
(* node that has ended meanwhile parks the run.                            *)
(***************************************************************************)
DispatchNode(p, d, v, r, n, user) ==
    LET e    == CreateNode(d, r, n)
        kind == PlanOf(p, r)[n].kind
    IN  CASE e.nodes[<<r, n>>].status \in Terminal -> Result(e, "parked")
          [] e.nodes[<<r, n>>].status \notin Terminal /\ kind = "branch" ->
                DispatchBranchNode(p, e, v, r, n, user)
          [] e.nodes[<<r, n>>].status \notin Terminal /\ kind \in {"parallel", "map"} ->
                DispatchFanIn(p, e, v, r, n, user)
          [] OTHER -> DispatchSingleNode(p, e, v, r, n, user)

(***************************************************************************)
(* advanceWorkflowRun from node n on: the nodes after a completed one are  *)
(* dispatched in the same pass, on what the pass has written.  Past the    *)
(* last node, finish may throw.                                            *)
(***************************************************************************)
AdvanceBy(p, acc, v, r, n, m, user) ==
    IF acc.out # "next" \/ acc.db.thrown THEN acc
    ELSE DispatchNode(p, acc.db, IF m = n THEN v ELSE ViewOf(p, acc.db, r, m), r, m, user)

AdvanceWorkflowRun(p, d, v, r, n, user) ==
    LET end == Len(PlanOf(p, r))
        pass[m \in (n - 1)..end] ==
            IF m = n - 1 THEN Result(d, "next")
            ELSE AdvanceBy(p, pass[m - 1], v, r, n, m, user)
        last == pass[end]
    IN  IF last.out # "next" THEN last
        ELSE IF user.throws # 0 THEN Result(FailRunAndWakeParent(last.db, r), "terminal")
        ELSE Result(CompleteRunAndWakeParent(last.db, r), "terminal")

(***************************************************************************)
(* shouldCancelFailedFanInNode.                                            *)
(***************************************************************************)
ShouldCancelFailedFanIn(node) ==
    node.kind = "parallel" \/ (node.kind = "map" /\ node.mode # "wait-settled")

(***************************************************************************)
(* What continueWorkflowRun writes for a run it read with status `status`, *)
(* of whose nodes it read `nodes` (node number to status), and for the     *)
(* first node without output, the view v.                                  *)
(***************************************************************************)
FirstOpenNode(p, r, nodes) ==
    LET open == {n \in DOMAIN PlanOf(p, r) : n \notin DOMAIN nodes \/ nodes[n] # "completed"}
    IN  IF open = {} THEN Len(PlanOf(p, r)) + 1 ELSE CHOOSE n \in open : \A m \in open : n <= m

ContinueWorkflowRun(p, d, status, nodes, v, r, user) ==
    LET with(s) == {n \in DOMAIN nodes : nodes[n] = s}
        failed  == CHOOSE n \in with("failed") : TRUE
        result  == AdvanceWorkflowRun(p, SetRun(d, r, "running"), v, r,
                                      FirstOpenNode(p, r, nodes), user)
    IN  IF status = "cancelling" THEN CancelRunAndWakeParent(p, d, r)
        ELSE IF status \in Terminal THEN WakeParentRun(d, r)
        ELSE IF with("failed") # {}
        THEN FailRunAndWakeParent(
                IF ShouldCancelFailedFanIn(PlanOf(p, r)[failed])
                THEN CancelNodeChildren(p, d, r, failed) ELSE d, r)
        ELSE IF with("cancelled") # {} THEN CancelRunAndWakeParent(p, d, r)
        ELSE IF result.out = "parked" THEN SetRun(result.db, r, "waiting") ELSE result.db
=============================================================================
