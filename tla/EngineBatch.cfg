SPECIFICATION Spec
CONSTANTS
    NPlans = 3
    MaxCalls = 2
    Executes <- OneWrite
    Changed <- SecondPlan
    MayOverlap = TRUE
INVARIANTS TypeOK VerifiedIsPaused OneAtRisk ReturnsLocked RecordedIsPaused
