---------------------------- MODULE Transitions ----------------------------
(***************************************************************************)
(* The statuses of runs, nodes, node children and attempts, and the maps   *)
(* that say which status may follow which.  Every adapter guards its       *)
(* status columns with them.                                               *)
(***************************************************************************)

RunStatus == {"queued", "running", "waiting", "cancelling",
              "completed", "failed", "cancelled"}
NodeStatus == {"pending", "running", "waiting", "cancelling",
               "completed", "failed", "cancelled"}
AttemptStatus == {"started", "completed", "failed", "timedOut", "cancelled"}

Terminal == {"completed", "failed", "cancelled"}

(***************************************************************************)
(* RUN_TRANSITIONS and NODE_TRANSITIONS, read as the statuses from which a *)
(* status is reachable (transitionSources).                                *)
(***************************************************************************)
RunSources(to) ==
    CASE to = "running"    -> {"queued", "waiting"}
      [] to = "waiting"    -> {"running"}
      [] to = "cancelling" -> {"queued", "running", "waiting"}
      [] to \in Terminal   -> RunStatus \ Terminal

NodeSources(to) ==
    CASE to = "running"    -> {"pending", "waiting"}
      [] to = "waiting"    -> {"pending", "running"}
      [] to = "cancelling" -> {"pending", "running", "waiting"}
      [] to \in Terminal   -> NodeStatus \ Terminal
=============================================================================
