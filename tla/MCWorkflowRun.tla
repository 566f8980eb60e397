--------------------------- MODULE MCWorkflowRun ---------------------------
(* Instances of WorkflowRun for TLC: one root plan per node kind.           *)
EXTENDS WorkflowRun

Node(kind, members) == [kind |-> kind, members |-> members]
Map(mode, limit, members) ==
    [kind |-> "map", mode |-> mode, limit |-> limit, members |-> members]

MCChildPlan == <<Node("task", <<"task">>)>>

MCRootPlans ==
    {<<Node("activity", <<"activity">>), Node("task", <<"task">>)>>,
     <<Node("workflow", <<"workflow">>)>>,
     <<Node("branch", <<"activity", "task">>)>>,
     <<Node("parallel", <<"activity", "task">>)>>,
     <<Map("wait-all", 1, <<"task", "task">>)>>,
     <<Map("wait-settled", 1, <<"task", "task">>)>>,
     <<Map("start-only", 1, <<"task", "task">>)>>,
     <<Map("wait-all", 1, <<>>)>>}

MCSweptPlans == {<<Node("workflow", <<"workflow">>)>>}

Symmetry == Permutations(Coordinators)
=============================================================================
