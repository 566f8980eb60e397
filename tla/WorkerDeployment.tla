-------------------------- MODULE WorkerDeployment --------------------------
(***************************************************************************)
(* How a workflows configuration becomes worker threads: the check of the  *)
(* execution pools, the planner's threads, and the life of one thread from *)
(* the start of its runtime to its exit.                                   *)
(***************************************************************************)
EXTENDS Naturals, Sequences, FiniteSets

CONSTANTS
    PoolLists,      \* `workers.execution` as users write it: lists of pools
    NodeSets,       \* what the registered workflows are made of
    TaskSets,       \* the registered tasks: sets of names
    WorkflowNames,  \* the registered workflows: a set of names
    Omitted,        \* stands for an option left undefined
    Unnamed         \* stands for an empty pool name

\* Finitely many pools; a case is an activity, a task or a workflow.
ASSUME DeployAssumption ==
    /\ \A pools \in PoolLists : IsFiniteSet(DOMAIN pools)
    /\ \A nodes \in NodeSets : \A n \in nodes :
         n.kind \in {"branch", "parallel"} => \A m \in n.cases : m.kind \in {"activity", "task", "workflow"}

VARIABLES
    config,     \* the configuration being deployed, and the pools it resolves to
    worker,     \* one worker thread: its data, and where main() and start() are
    stage,      \* where runtime.stop() is
    holds,      \* execution, adapter and loop: "none", "open" or "closed"
    stopAsked,      \* stopRequested
    failedStop, \* `failure` of runtime.stop()
    exit        \* how the worker ended

deployVars == <<config, worker, stage, holds, stopAsked, failedStop, exit>>

Names(option) == IF option = Omitted THEN {} ELSE {option[k] : k \in DOMAIN option}
-----------------------------------------------------------------------------
(* The names the registered workflows refer to.  A node is an activity, a  *)
(* task, a workflow, a map of either, or a branch or parallel of cases.    *)

Members(nodes, plain, inCase) ==
    {n.name : n \in {x \in nodes : x.kind \in plain}}
    \cup UNION {{m.name : m \in {y \in n.cases : y.kind = inCase}} :
                n \in {x \in nodes : x.kind \in {"branch", "parallel"}}}

collectWorkflowActivityNames(nodes) == Members(nodes, {"activity"}, "activity")
collectWorkflowTaskNames(nodes) == Members(nodes, {"task", "mapTask"}, "task")
collectChildWorkflowNames(nodes) == Members(nodes, {"workflow", "mapWorkflow"}, "workflow")
-----------------------------------------------------------------------------
(* normalizeExecutionWorkerPools.                                          *)

CatchAll(pool) == pool.activityNames = Omitted /\ pool.taskNames = Omitted
ClaimedBy(pools, field) == UNION {Names(pools[k][field]) : k \in DOMAIN pools}

\* No name is claimed twice, by two pools or by one.
ClaimedOnce(pools, field) ==
    /\ \A j, k \in DOMAIN pools : j # k => Names(pools[j][field]) \cap Names(pools[k][field]) = {}
    /\ \A k \in DOMAIN pools :
         pools[k][field] # Omitted => Len(pools[k][field]) = Cardinality(Names(pools[k][field]))

\* Seeded fault: only the activities have to be covered.
CoveredHalf(pools, nodes, tasks) ==
    \/ \E k \in DOMAIN pools : CatchAll(pools[k])
    \/ collectWorkflowActivityNames(nodes) \subseteq ClaimedBy(pools, "activityNames")

\* "Missing coverage would otherwise leave durable commands stalled forever."
Covered(pools, nodes, tasks) ==
    \/ \E k \in DOMAIN pools : CatchAll(pools[k])
    \/ /\ collectWorkflowActivityNames(nodes) \subseteq ClaimedBy(pools, "activityNames")
       /\ tasks \subseteq ClaimedBy(pools, "taskNames")

\* The configuration is not refused.
Accepted(pools, nodes, tasks) ==
    /\ pools # <<>>
    /\ \A k \in DOMAIN pools : pools[k].name # Unnamed
    /\ \A j, k \in DOMAIN pools : j # k => pools[j].name # pools[k].name
    /\ Cardinality({k \in DOMAIN pools : CatchAll(pools[k])}) <= 1
    /\ ClaimedOnce(pools, "activityNames") /\ ClaimedOnce(pools, "taskNames")
    /\ collectChildWorkflowNames(nodes) \subseteq WorkflowNames
    /\ collectWorkflowTaskNames(nodes) \subseteq tasks
    /\ ClaimedBy(pools, "activityNames") \subseteq collectWorkflowActivityNames(nodes)
    /\ ClaimedBy(pools, "taskNames") \subseteq tasks
    /\ Covered(pools, nodes, tasks)

\* The names a pool serves: its own, or what a catch-all finds unclaimed.
Rest(pool, registered, claimed) == IF CatchAll(pool) THEN registered \ claimed ELSE {}

ResolvePools(pools, nodes, tasks) ==
    [k \in DOMAIN pools |->
        [name |-> pools[k].name, threads |-> pools[k].threads,
         activityNames |-> IF pools[k].activityNames # Omitted THEN Names(pools[k].activityNames)
                           ELSE Rest(pools[k], collectWorkflowActivityNames(nodes),
                                     ClaimedBy(pools, "activityNames")),
         taskNames |-> IF pools[k].taskNames # Omitted THEN Names(pools[k].taskNames)
                       ELSE Rest(pools[k], tasks, ClaimedBy(pools, "taskNames"))]]

NoConfig == [nodes |-> {}, tasks |-> {}, pools |-> <<>>]
NoWorker == [at |-> "unborn", role |-> "none", pool |-> Unnamed, scheduled |-> FALSE]

DeployInit ==
    /\ config = NoConfig /\ worker = NoWorker
    /\ stage = "none" /\ stopAsked = FALSE /\ failedStop = FALSE /\ exit = "running"
    /\ holds = [execution |-> "none", adapter |-> "none", loop |-> "none"]

\* The planner resolves a configuration; a refused one, or one with a thread
\* count that is not positive, is not deployed.
Plan(pools, nodes, tasks) ==
    /\ Accepted(pools, nodes, tasks)
    /\ \A k \in DOMAIN pools : pools[k].threads > 0
    /\ config' = [nodes |-> nodes, tasks |-> tasks, pools |-> ResolvePools(pools, nodes, tasks)]
    /\ UNCHANGED <<worker, stage, holds, stopAsked, failedStop, exit>>
-----------------------------------------------------------------------------
(* One worker: main() of the worker entry, and start() of the workflows    *)
(* runtime.                                                                *)

Spawn(role, pool, scheduled) ==
    /\ config # NoConfig /\ worker = NoWorker
    /\ role = "coordinator" => pool = Unnamed
    /\ worker' = [at |-> "creating", role |-> role, pool |-> pool, scheduled |-> scheduled]
    /\ UNCHANGED <<config, stage, holds, stopAsked, failedStop, exit>>

\* resolveExecutionWorkerPool: data written by hand may leave the pool out when
\* there is only one.
PoolsServed(t) ==
    {k \in DOMAIN config.pools :
        config.pools[k].name = t.pool \/ (t.pool = Unnamed /\ Len(config.pools) = 1)}

Runs == exit = "running"

\* createRuntime and then start(), up to the new ExecutionEnvironment.
RuntimeCreated ==
    /\ Runs /\ worker.at = "creating"
    /\ \/ /\ worker' = [worker EXCEPT !.at = "resolving"] /\ UNCHANGED exit
       \/ /\ exit' = "failed" /\ UNCHANGED worker
    /\ UNCHANGED <<config, stage, holds, stopAsked, failedStop>>

\* The steps of start(), in their order, and what each leaves behind.
StartOrder == <<"resolving", "initialize", "beforeInitialize", "adapter", "reconcile", "afterInitialize",
                "startHook", "ready">>
After(at) == StartOrder[(CHOOSE k \in DOMAIN StartOrder : StartOrder[k] = at) + 1]

StartStep ==
    /\ Runs /\ worker.at \in {"resolving", "initialize", "beforeInitialize", "adapter", "reconcile",
                              "afterInitialize", "startHook"}
    /\ stage = "none"
    /\ worker.at = "resolving" /\ worker.role = "execution" => PoolsServed(worker) # {}
    /\ worker' = [worker EXCEPT !.at = After(worker.at)]
    /\ holds' = CASE worker.at = "resolving" -> [holds EXCEPT !.execution = "open"]
                  [] worker.at = "adapter" -> [holds EXCEPT !.adapter = "open"]
                  [] worker.at = "afterInitialize" -> [holds EXCEPT !.loop = "open"]
                  [] OTHER -> holds
    /\ UNCHANGED <<config, stage, stopAsked, failedStop, exit>>

\* A step of start() throws: the runtime is stopped by force.
StartThrows ==
    /\ Runs
    /\ worker.at \in {"resolving", "initialize", "beforeInitialize", "adapter", "afterInitialize", "startHook"}
                      \cup (IF worker.role = "coordinator" /\ worker.scheduled THEN {"reconcile"} ELSE {})
    /\ stage = "none"
    /\ worker' = [worker EXCEPT !.at = "failed"]
    /\ stage' = "loop"
    /\ UNCHANGED <<config, holds, stopAsked, failedStop, exit>>
-----------------------------------------------------------------------------
(* The loop, the stop message and runtime.stop().                          *)

Aborted == stage # "none"

\* The worker loop returns after the abort, or throws at any time.
LoopEnds ==
    /\ Runs /\ holds.loop = "open"
    /\ \/ Aborted /\ holds' = [holds EXCEPT !.loop = "closed"]
       \/ holds' = [holds EXCEPT !.loop = "broken"]
    /\ UNCHANGED <<config, worker, stage, stopAsked, failedStop, exit>>

\* watchRuntimeFinished, once the worker is ready and nobody has asked it to stop.
FinishedSeen ==
    /\ Runs /\ worker.at = "ready" /\ holds.loop \in {"closed", "broken"} /\ ~stopAsked
    /\ exit' = "failed"
    /\ UNCHANGED <<config, worker, stage, holds, stopAsked, failedStop>>

\* stopAndExit: a runtime that has not finished starting is not stopped.
StopMessage ==
    /\ Runs /\ ~stopAsked /\ worker # NoWorker
    /\ stopAsked' = TRUE
    /\ IF worker.at = "ready"
       THEN stage' = "loop" /\ UNCHANGED exit
       ELSE exit' = "early" /\ UNCHANGED stage
    /\ UNCHANGED <<config, worker, holds, failedStop>>

\* The stages of runtime.stop(); each is tried whether or not the ones before
\* have thrown.
StopOrder == <<"loop", "stopHook", "beforeDispose", "adapter", "afterDispose", "execution", "stopped">>
NextStage(s) == StopOrder[(CHOOSE k \in DOMAIN StopOrder : StopOrder[k] = s) + 1]

StopStage ==
    /\ Runs /\ stage \notin {"none", "stopped"}
    /\ stage = "loop" => holds.loop # "open"
    /\ \E thrown \in BOOLEAN :
         /\ stage = "loop" => thrown = (holds.loop = "broken")
         /\ thrown /\ stage = "adapter" => holds.adapter # "none"
         /\ thrown /\ stage \in {"beforeDispose", "afterDispose", "execution"} => holds.execution # "none"
         /\ thrown /\ stage = "stopHook" => holds.loop # "none"
         /\ stage' = NextStage(stage)
         /\ failedStop' = (failedStop \/ thrown)
    /\ holds' = IF stage \in {"adapter", "execution"} /\ holds[stage] = "open"
                THEN [holds EXCEPT ![stage] = "closed"] ELSE holds
    /\ UNCHANGED <<config, worker, stopAsked, exit>>

\* The end of stopAndExit, or of the cleanup after a failed start.
StopReturns ==
    /\ Runs /\ stage = "stopped"
    /\ exit' = IF worker.at = "ready" /\ ~failedStop THEN "stopped" ELSE "failed"
    /\ UNCHANGED <<config, worker, stage, holds, stopAsked, failedStop>>

\* The host terminates a worker that does not stop in time.
Terminated ==
    /\ Runs /\ stopAsked
    /\ exit' = "killed"
    /\ UNCHANGED <<config, worker, stage, holds, stopAsked, failedStop>>

DeployNext ==
    \/ /\ config = NoConfig
       /\ \E pools \in PoolLists, nodes \in NodeSets, tasks \in TaskSets : Plan(pools, nodes, tasks)
    \/ \E role \in {"coordinator", "execution"}, scheduled \in BOOLEAN,
          pool \in {config.pools[k].name : k \in DOMAIN config.pools} \cup {Unnamed} :
          Spawn(role, pool, scheduled)
    \/ RuntimeCreated \/ StartStep \/ StartThrows
    \/ LoopEnds \/ FinishedSeen \/ StopMessage \/ StopStage \/ StopReturns \/ Terminated

DeploySpec == DeployInit /\ [][DeployNext]_deployVars
-----------------------------------------------------------------------------
\* What the coordinator can send for a workflow: attempts at an activity or a
\* task, wherever in the workflow it stands.
Sends(nodes) ==
    LET leaves == {n \in nodes : n.kind \notin {"branch", "parallel"}}
                  \cup UNION {n.cases : n \in {x \in nodes : x.kind \in {"branch", "parallel"}}}
    IN  {[field |-> IF l.kind = "activity" THEN "activityNames" ELSE "taskNames", name |-> l.name] :
            l \in {x \in leaves : x.kind \in {"activity", "task", "mapTask"}}}

\* Every attempt a deployed workflow or a client can send is claimed by the
\* threads of exactly one pool, and that pool has a thread: "Missing coverage
\* would otherwise leave durable commands stalled forever".
RoutedExactlyOnce ==
    \A c \in Sends(config.nodes) \cup [field : {"taskNames"}, name : config.tasks] :
        Cardinality({k \in DOMAIN config.pools :
                        c.name \in config.pools[k][c.field] /\ config.pools[k].threads > 0}) = 1

\* Work in progress never loses what it works with: the adapter is disposed
\* when the loop is over, and the container after both.
LoopKeepsItsAdapter ==
    /\ holds.adapter = "closed" => holds.loop # "open"
    /\ holds.execution = "closed" => holds.adapter # "open" /\ holds.loop # "open"

\* A worker that stops by itself, or cleans up after a failed start, has tried
\* to give back all it had, whichever step of start() or of stop() threw.
StoppedIsReleased ==
    (~Runs /\ stage = "stopped") =>
        holds.execution # "open" /\ holds.adapter # "open" /\ holds.loop # "open"

\* A deployment serves every name once and its threads leave in order.
DeploymentSound == RoutedExactlyOnce /\ LoopKeepsItsAdapter /\ StoppedIsReleased
=============================================================================
