SPECIFICATION Spec
CONSTANTS
    NPlans = 2
    MaxCalls = 3
    Executes <- TwoWrites
    Changed <- NoPlan
    MayOverlap = FALSE
INVARIANTS ReconciledIsSettled OutcomesAsAssumed
