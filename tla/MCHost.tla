------------------------------- MODULE MCHost -------------------------------
(***************************************************************************)
(* The parts of a server process, each against its own environment: a      *)
(* behaviour chooses one part at the start, and the others stay as they    *)
(* are.                                                                    *)
(***************************************************************************)
EXTENDS NeemHost, HostProxy, Container, ServerLifecycle, DevSupervisor, WorkerDeployment, TLC

VARIABLE part

MCDeps == 1 :> {} @@ 2 :> {} @@ 3 :> {1} @@ 4 :> {2, 3}
MCOwnScope == 1 :> 1 @@ 2 :> 2 @@ 3 :> 0 @@ 4 :> 2
MCScopeOf == <<1, 2>>

MCOptions(names) == {Omitted, <<>>} \cup {<<x>> : x \in names} \cup {<<x, y>> : x, y \in names}
MCPools ==
    [name : {"p", "q", Unnamed}, threads : {0, 1},
     activityNames : MCOptions({"a", "b"}), taskNames : MCOptions({"t"})]
MCPoolLists ==
    {<<>>} \cup {<<p>> : p \in MCPools} \cup {<<p, q>> : p \in {x \in MCPools : x.threads = 1}, q \in MCPools}

MCNode(kind, name) == [kind |-> kind, name |-> name]
MCNodeSets ==
    {{MCNode("activity", "a"), MCNode("workflow", "w")},
     {MCNode("activity", "a"),
      [kind |-> "branch", cases |-> {MCNode("activity", "b"), MCNode("task", "t")}]},
     {MCNode("mapTask", "t"),
      [kind |-> "parallel", cases |-> {MCNode("activity", "a"), MCNode("workflow", "w")}]},
     {MCNode("mapWorkflow", "missing")}}

MCInit ==
    /\ part \in {"host", "proxy", "container", "lifecycle", "dev", "deployment"}
    /\ HostInit /\ ProxyInit /\ ContInit /\ LifeInit /\ DevInit /\ DeployInit

MCNext ==
    /\ UNCHANGED part
    /\ \/ /\ part = "host" /\ HostNext
          /\ UNCHANGED <<proxyVars, contVars, lifeVars, devVars, deployVars>>
       \/ /\ part = "proxy" /\ ProxyNext
          /\ UNCHANGED <<hostVars, contVars, lifeVars, devVars, deployVars>>
       \/ /\ part = "container" /\ ContNext
          /\ UNCHANGED <<hostVars, proxyVars, lifeVars, devVars, deployVars>>
       \/ /\ part = "lifecycle" /\ LifeNext
          /\ UNCHANGED <<hostVars, proxyVars, contVars, devVars, deployVars>>
       \/ /\ part = "dev" /\ DevNext
          /\ UNCHANGED <<hostVars, proxyVars, contVars, lifeVars, deployVars>>
       \/ /\ part = "deployment" /\ DeployNext
          /\ UNCHANGED <<hostVars, proxyVars, contVars, lifeVars, devVars>>

MCSpec ==
    MCInit /\ [][MCNext]_<<part, hostVars, proxyVars, contVars, lifeVars, devVars, deployVars>>
=============================================================================
