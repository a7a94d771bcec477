--------------------------- MODULE StateSurfaces ----------------------------
(* The three state surfaces of state.py: which project_state,              *)
(* execution_state and delivery_state of a project may follow which.       *)
(* Every transition that goes through transition_project,                  *)
(* transition_execution or transition_delivery reads the state and checks  *)
(* its table in one transaction.                                           *)

ProjectState ==
    {"DRAFT", "INPUT_VALIDATED", "THREE_CHAIN_READY", "MATRIX_READY",
     "WAITING_BUDGET", "WAITING_CONFIRMATION", "ADVISORY_READY",
     "FAILED_CLOSED", "CLOSED"}

ProjectTransitions ==
    [DRAFT |-> {"INPUT_VALIDATED", "FAILED_CLOSED"},
     INPUT_VALIDATED |-> {"THREE_CHAIN_READY", "FAILED_CLOSED"},
     THREE_CHAIN_READY |-> {"MATRIX_READY", "WAITING_BUDGET", "FAILED_CLOSED"},
     MATRIX_READY |-> {"WAITING_CONFIRMATION", "WAITING_BUDGET", "FAILED_CLOSED"},
     WAITING_BUDGET |-> {"INPUT_VALIDATED", "MATRIX_READY", "CLOSED"},
     WAITING_CONFIRMATION |-> {"ADVISORY_READY", "FAILED_CLOSED"},
     ADVISORY_READY |-> {"INPUT_VALIDATED", "CLOSED", "FAILED_CLOSED"},
     FAILED_CLOSED |-> {"INPUT_VALIDATED", "CLOSED"},
     CLOSED |-> {}]

\* validate_project_transition
ProjectMayBecome(current, target) == target \in ProjectTransitions[current]

DeliveryState ==
    {"NOT_RELEASED", "FEED_LEARNING", "SEARCH_ELIGIBLE", "STABLE",
     "CLOSING", "CLOSED"}

DeliveryTransitions ==
    [NOT_RELEASED |-> {"FEED_LEARNING", "CLOSED"},
     FEED_LEARNING |-> {"SEARCH_ELIGIBLE", "STABLE", "CLOSING"},
     SEARCH_ELIGIBLE |-> {"STABLE", "CLOSING"},
     STABLE |-> {"CLOSING"},
     CLOSING |-> {"CLOSED"},
     CLOSED |-> {}]

\* is_alert_event: what the dispatcher tells the operators of.
DeliveryAlerts == {"CLOSING", "CLOSED"}

\* validate_delivery_transition
DeliveryMayBecome(current, target) == target \in DeliveryTransitions[current]

ExecutionState ==
    {"NONE", "TEST_WRITE_AUTHORIZED", "PRODUCTION_CREATE_AUTHORIZED",
     "WRITE_IN_PROGRESS", "PARTIALLY_CREATED_PAUSED", "PAUSE_FAILED_EMERGENCY",
     "CREATE_PAUSED", "READBACK_VERIFIED", "READBACK_MISMATCH",
     "RECONCILE_REQUIRED", "RECOVERY_REQUIRED", "RELOCK_FAILED",
     "WAITING_RELEASE_AUTHORIZATION"}

ExecutionTransitions ==
    [NONE |->
        {"TEST_WRITE_AUTHORIZED", "PRODUCTION_CREATE_AUTHORIZED"},
     TEST_WRITE_AUTHORIZED |->
        {"WRITE_IN_PROGRESS", "NONE"},
     PRODUCTION_CREATE_AUTHORIZED |->
        {"WRITE_IN_PROGRESS", "NONE"},
     WRITE_IN_PROGRESS |->
        {"PARTIALLY_CREATED_PAUSED", "PAUSE_FAILED_EMERGENCY", "CREATE_PAUSED",
         "READBACK_VERIFIED", "READBACK_MISMATCH", "RECONCILE_REQUIRED",
         "RECOVERY_REQUIRED", "RELOCK_FAILED", "WAITING_RELEASE_AUTHORIZATION"},
     PARTIALLY_CREATED_PAUSED |->
        {"RECONCILE_REQUIRED", "RECOVERY_REQUIRED"},
     PAUSE_FAILED_EMERGENCY |->
        {"RECONCILE_REQUIRED", "RECOVERY_REQUIRED"},
     CREATE_PAUSED |->
        {"READBACK_VERIFIED", "READBACK_MISMATCH", "RECONCILE_REQUIRED",
         "RELOCK_FAILED"},
     READBACK_VERIFIED |->
        {"TEST_WRITE_AUTHORIZED", "WAITING_RELEASE_AUTHORIZATION"},
     READBACK_MISMATCH |->
        {"RECONCILE_REQUIRED", "RECOVERY_REQUIRED"},
     RECONCILE_REQUIRED |->
        {"READBACK_VERIFIED", "RECOVERY_REQUIRED", "RELOCK_FAILED"},
     RECOVERY_REQUIRED |->
        {"RECONCILE_REQUIRED", "TEST_WRITE_AUTHORIZED",
         "PRODUCTION_CREATE_AUTHORIZED"},
     RELOCK_FAILED |->
        {"RECOVERY_REQUIRED", "RECONCILE_REQUIRED"},
     WAITING_RELEASE_AUTHORIZATION |->
        {"TEST_WRITE_AUTHORIZED"}]

\* validate_execution_transition
MayBecome(current, target) == target \in ExecutionTransitions[current]

=============================================================================
