------------------------------ MODULE RunStore ------------------------------
(***************************************************************************)
(* The run, node, node-child and attempt tables of the Postgres adapter,   *)
(* as operators on one database value; Transitions holds the maps that     *)
(* guard every status column.  As in CommandTable, an operator is the      *)
(* effect of one store method, so that a transaction is a composition of   *)
(* operators.                                                              *)
(*                                                                         *)
(* Rows get their ids from small sets fixed by the constants: an attempt   *)
(* id belongs to a child, a child to a node and a node to a run.  A table  *)
(* keeps None for an id that has no row yet; a run id goes from "absent"   *)
(* through the statuses to "deleted", its id never being used again.       *)
(***************************************************************************)
EXTENDS CommandTable, Transitions

CONSTANTS
    Nodes, Children,  \* workflow_nodes, workflow_node_children
    NodeOf,           \* the node of a child
    RunOfNode,        \* the run of a node
    ChildOf           \* the child of an attempt

ASSUME TopologyAssumption ==
    /\ NodeOf \in [Children -> Nodes]
    /\ RunOfNode \in [Nodes -> Runs]
    /\ ChildOf \in [Attempts -> Children]
    /\ \A a \in Attempts : RunOf[a] = RunOfNode[NodeOf[ChildOf[a]]]

ChildRow == [status  : NodeStatus,
             current : Attempts \cup {None},  \* current_attempt_id
             count   : 0..Cardinality(Attempts)]
AttemptRow == [status : AttemptStatus, number : 1..Cardinality(Attempts)]

ASSUME RowAssumption ==
    /\ IsFiniteSet(Attempts)
    /\ None \notin NodeStatus \cup ChildRow \cup AttemptRow \cup Attempts

Database == [runs     : [Runs -> RunStatus \cup {"absent", "deleted"}],
             nodes    : [Nodes -> NodeStatus \cup {None}],
             children : [Children -> ChildRow \cup {None}],
             attempts : [Attempts -> AttemptRow \cup {None}]]

EmptyDatabase ==
    [runs     |-> [r \in Runs |-> "absent"],
     nodes    |-> [n \in Nodes |-> None],
     children |-> [k \in Children |-> None],
     attempts |-> [a \in Attempts |-> None]]

RunExists(d, r) == d.runs[r] \in RunStatus
RunIsTerminal(d, r) == d.runs[r] \in Terminal
ChildRun(k) == RunOfNode[NodeOf[k]]

-----------------------------------------------------------------------------
(* Run rows: UPDATE ... WHERE status IN (sources); a miss changes nothing. *)

SetRun(d, r, to) ==
    IF d.runs[r] \in RunSources(to) THEN [d EXCEPT !.runs[r] = to] ELSE d

CreateRun(d, r) == [d EXCEPT !.runs[r] = "queued"]
MarkRunRunning(d, r) == SetRun(d, r, "running")
CompleteRun(d, r) == SetRun(d, r, "completed")
FailRun(d, r) == SetRun(d, r, "failed")
RequestRunCancellation(d, r) == SetRun(d, r, "cancelling")

-----------------------------------------------------------------------------
(* Node and child rows.                                                    *)

\* Seeded fault: the status is written whatever the node has become.
SetNodeUnguarded(d, n, to) ==
    IF d.nodes[n] # None THEN [d EXCEPT !.nodes[n] = to] ELSE d

SetNode(d, n, to) ==
    IF d.nodes[n] \in NodeSources(to) THEN [d EXCEPT !.nodes[n] = to] ELSE d

CreateNode(d, n) == IF d.nodes[n] = None THEN [d EXCEPT !.nodes[n] = "pending"] ELSE d
CompleteNode(d, n) == SetNode(d, n, "completed")
FailNode(d, n) == SetNode(d, n, "failed")

(***************************************************************************)
(* ensureNodeChildren: the node's children are created together, once.     *)
(***************************************************************************)
EnsureNodeChildren(d, n) ==
    [d EXCEPT !.children =
        [k \in Children |->
            IF NodeOf[k] = n /\ d.children[k] = None
            THEN [status |-> "pending", current |-> None, count |-> 0]
            ELSE d.children[k]]]

SetChild(d, k, to) ==
    IF d.children[k] # None /\ d.children[k].status \in NodeSources(to)
    THEN [d EXCEPT !.children[k].status = to] ELSE d

CompleteNodeChild(d, k) == SetChild(d, k, "completed")
FailNodeChild(d, k) == SetChild(d, k, "failed")

CancelNonTerminalRunNodes(d, r) ==
    [d EXCEPT
        !.nodes = [n \in Nodes |->
            IF RunOfNode[n] = r /\ d.nodes[n] \in NodeSources("cancelled")
            THEN "cancelled" ELSE d.nodes[n]],
        !.children = [k \in Children |->
            IF /\ ChildRun(k) = r /\ d.children[k] # None
               /\ d.children[k].status \in NodeSources("cancelled")
            THEN [d.children[k] EXCEPT !.status = "cancelled"]
            ELSE d.children[k]]]

-----------------------------------------------------------------------------
(* Attempts.                                                               *)

(***************************************************************************)
(* createAttempt throws for a terminal child; the node moves to running if *)
(* it can.                                                                 *)
(***************************************************************************)
CanCreateAttempt(d, k) ==
    /\ d.children[k] # None
    /\ d.children[k].status \in NodeSources("running") \cup {"running"}

\* Seeded fault: on a retry the child keeps pointing at the attempt that failed.
CreateAttemptUnlinked(d, k, a) ==
    SetNode(
        [d EXCEPT
            !.attempts[a] = [status |-> "started", number |-> d.children[k].count + 1],
            !.children[k] = [status |-> "running",
                             current |-> IF @.current = None THEN a ELSE @.current,
                             count |-> @.count + 1]],
        NodeOf[k], "running")

CreateAttempt(d, k, a) ==
    SetNode(
        [d EXCEPT
            !.attempts[a] = [status |-> "started", number |-> d.children[k].count + 1],
            !.children[k] = [status |-> "running", current |-> a, count |-> @.count + 1]],
        NodeOf[k], "running")

(***************************************************************************)
(* isFreshAttempt.  An attempt's lease token is written once, so a command *)
(* of the attempt always carries it.                                       *)
(***************************************************************************)
IsFreshAttempt(child, attempt, a) ==
    /\ child # None /\ child.current = a
    /\ attempt # None /\ attempt.status = "started"

(***************************************************************************)
(* loadFencedAttempt: an attempt settles only while its child still points *)
(* at it and is not terminal.                                              *)
(***************************************************************************)
FencedAttempt(d, a) ==
    /\ IsFreshAttempt(d.children[ChildOf[a]], d.attempts[a], a)
    /\ d.children[ChildOf[a]].status \notin Terminal

(***************************************************************************)
(* completeCurrentAttempt settles attempt and child together, its child    *)
(* update repeating the fence; without the fence it changes nothing.       *)
(***************************************************************************)
CompleteCurrentAttempt(d, a) ==
    IF FencedAttempt(d, a)
    THEN [d EXCEPT !.attempts[a].status = "completed",
                   !.children[ChildOf[a]].status = "completed"]
    ELSE d

(***************************************************************************)
(* failCurrentAttempt, timeoutCurrentAttempt: the update itself looks at   *)
(* the attempt only.                                                       *)
(***************************************************************************)
SettleCurrentAttempt(d, a, to) ==
    IF d.attempts[a] # None /\ d.attempts[a].status = "started"
    THEN [d EXCEPT !.attempts[a].status = to] ELSE d

(***************************************************************************)
(* deleteRun on one run: the rows of the run go with it.                   *)
(***************************************************************************)
DeleteRunRows(d, r) ==
    [runs     |-> [d.runs EXCEPT ![r] = "deleted"],
     nodes    |-> [n \in Nodes |-> IF RunOfNode[n] = r THEN None ELSE d.nodes[n]],
     children |-> [k \in Children |-> IF ChildRun(k) = r THEN None ELSE d.children[k]],
     attempts |-> [a \in Attempts |-> IF RunOf[a] = r THEN None ELSE d.attempts[a]]]
=============================================================================
