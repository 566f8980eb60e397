----------------------------- MODULE MCWorkflows -----------------------------
(***************************************************************************)
(* Workflow runs, the worker pool that carries their commands, and the     *)
(* admission of new runs.  A behaviour chooses one of the three at the     *)
(* start, and the others stay as they are.                                 *)
(***************************************************************************)
EXTENDS MCWorkflowRun, WorkerPool, RunAdmission

VARIABLE part

MCRequests ==
    {Request(TRUE, "none", FALSE, 1, TRUE), Request(TRUE, "none", FALSE, 2, TRUE),
     Request(TRUE, "none", FALSE, 1, FALSE), Request(TRUE, "active", TRUE, 1, TRUE),
     Request(FALSE, "active", TRUE, 1, TRUE), Request(FALSE, "active", FALSE, 1, TRUE),
     Request(FALSE, "active", TRUE, 1, FALSE), Request(FALSE, "all", TRUE, 1, TRUE), Retry}

MCInit ==
    /\ part \in {"workflow", "pool", "admission"}
    /\ Init /\ PoolInit /\ AdmissionInit
    /\ part # "workflow" => plan = <<Map("wait-all", 1, <<>>)>>
    /\ part # "pool" => /\ mode = "drain" /\ ~called /\ periodic = "off"
                        /\ \A i \in Items : item[i] = "absent"
    /\ part # "admission" => \A p \in Starters : starts[p].pc = "retry"

MCNext ==
    /\ UNCHANGED part
    /\ \/ part = "workflow" /\ Next /\ UNCHANGED <<poolVars, admissionVars>>
       \/ part = "pool" /\ PoolNext /\ UNCHANGED <<vars, admissionVars>>
       \/ part = "admission" /\ AdmissionNext /\ UNCHANGED <<vars, poolVars>>

MCSpec == MCInit /\ [][MCNext]_<<part, vars, poolVars, admissionVars>>
=============================================================================
