------------------------------- MODULE MCTasks -------------------------------
(***************************************************************************)
(* Task runs, and the two services beside them: schedules, which start     *)
(* runs, and watching, which reports them.  A behaviour chooses one of the *)
(* three at the start, and the others stay as they are.                    *)
(***************************************************************************)
EXTENDS MCTaskRun, Scheduler, RunWatch

VARIABLE part

MCDefinitions ==
    {Definition(FALSE, 1, 1, TRUE, TRUE), Definition(TRUE, 2, 2, FALSE, FALSE)}

MCInit ==
    /\ part \in {"task", "scheduler", "watch"}
    /\ Init /\ SchedulerInit /\ WatchInit
    /\ part # "scheduler" => memory

MCNext ==
    /\ UNCHANGED part
    /\ \/ part = "task" /\ Next /\ UNCHANGED <<schedulerVars, watchVars>>
       \/ part = "scheduler" /\ SchedulerNext /\ UNCHANGED <<vars, watchVars>>
       \/ part = "watch" /\ WatchNext /\ UNCHANGED <<vars, schedulerVars>>

MCSpec == MCInit /\ [][MCNext]_<<part, vars, schedulerVars, watchVars>>
=============================================================================
