------------------------- MODULE MCExecutionEngine --------------------------
(* Instances of ExecutionEngine for TLC.                                   *)
EXTENDS ExecutionEngine

NoPlan == {}
SecondPlan == {2}
OneWrite == {1}
TwoWrites == {1, 2}

=============================================================================
