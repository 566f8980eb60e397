SPECIFICATION Spec
CONSTANTS
    r1 = r1
    n1 = n1
    k1 = k1
    a1 = a1
    a2 = a2
    w1 = w1
    w2 = w2
    c1 = c1
    c2 = c2
    c3 = c3
    None = None
    Runs = {r1}
    Nodes = {n1}
    Children = {k1}
    Attempts = {a1, a2}
    RunOf <- MCRunOf
    NodeOf <- MCNodeOf
    RunOfNode <- MCRunOfNode
    ChildOf <- MCChildOf
    KindOf <- MCKindOf
    ParentOf <- MCParentOf
    Single = {k1}
    RetryAttempts <- MCRetryAttempts
    Workers = {w1, w2}
    CommandIds = {c1, c2, c3}
    MaxDeliveries = 2
    Serves <- MCServes
    FirstAttempt <- MCFirstAttempt
    TaskNode <- MCTaskNode
    TaskChild <- MCTaskChild
INVARIANT SweepIsRepeated
CHECK_DEADLOCK FALSE
