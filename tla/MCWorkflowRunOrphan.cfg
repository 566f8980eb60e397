SPECIFICATION Spec
CONSTANTS
    ChildPlan <- MCChildPlan
    RootPlans <- MCSweptPlans
    Coordinators = {w1, w2}
    None = None
    MaxCrashes = 0
    MaxExpired = 1
    MaxMember = 2
    MayCancel = FALSE
INVARIANT FailedLeavesNoChild
CHECK_DEADLOCK FALSE
