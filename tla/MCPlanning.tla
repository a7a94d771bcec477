----------------------------- MODULE MCPlanning ------------------------------
(* Two requests that share a plan; in PlanningLive also one whose budget pays *)
(* for none, and a source sync.                                               *)
EXTENDS Planning, TLC

CONSTANTS p1, p2, p3, s1, k1, k2, k3

MCPlans == [p \in Prepares |-> CASE p = p1 -> {k1, k2} [] p = p2 -> {k2, k3} [] p = p3 -> {}]

MCAttempts == [j \in Jobs |-> IF j = p1 THEN 2 ELSE 1]

Interchangeable == Permutations(Workers) \cup Permutations(Approvers)

==============================================================================
