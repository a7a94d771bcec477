SPECIFICATION Spec
CONSTANTS
    NPlans = 1
    MaxCalls = 1
    Executes <- OneWrite
    Changed <- NoPlan
    MayOverlap = FALSE
INVARIANTS UnknownResultIsReconciled
