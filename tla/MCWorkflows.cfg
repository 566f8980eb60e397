SPECIFICATION MCSpec
CONSTANTS
    ChildPlan <- MCChildPlan
    RootPlans <- MCRootPlans
    Coordinators = {w1, w2}
    None = None
    MaxCrashes = 1
    MaxExpired = 1
    MaxMember = 2
    MayCancel = TRUE
    Starters = {1, 2, 3}
    MaxAdmitted = 3
    MaxLost = 1
    Requests <- MCRequests
    Items = {i1, i2, i3}
    Concurrency = 2
    MaxGiveBacks = 1
SYMMETRY Symmetry
INVARIANTS
    TypeOK NotStranded MapWithinConcurrency PoolSound StartsAgree AdmittedIsSent
PROPERTIES
    SettledIsFinal CoordinatorLeavesNoChild
CHECK_DEADLOCK FALSE
