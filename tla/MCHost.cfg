SPECIFICATION MCSpec
CONSTANTS
    Controllers = {1, 2}
    Groups = {1, 2, 3}
    Threads = {1, 2}
    Attempts = 1
    MaxFaults = 2
    Upstreams = {1, 2, 3}
    MaxSets = 3
    MaxRefusals = 2
    Injectables = {1, 2, 3, 4}
    Deps <- MCDeps
    OwnScope <- MCOwnScope
    Lazy = {2}
    Disposable = {1, 3, 4}
    Containers = {1, 2}
    ScopeOf <- MCScopeOf
    Instances = {1, 2, 3, 4}
    MaxEvents = 3
    NoProvision = NoProvision
    Value = Value
    Handlers = 2
    Services = 2
    MaxOps = 4
    MaxServices = 4
    MaxRebuilds = 2
    MaxConfigEdits = 1
    MaxServiceFaults = 1
    PoolLists <- MCPoolLists
    NodeSets <- MCNodeSets
    TaskSets = {{}, {"t"}}
    WorkflowNames = {"w"}
    Omitted = Omitted
    Unnamed = Unnamed
INVARIANTS
    HostSound ProxySound ContainerSound LifecycleSound DevSessionSound DeploymentSound
CHECK_DEADLOCK FALSE
