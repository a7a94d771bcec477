--------------------------- MODULE EngineOutcomes ---------------------------
(***************************************************************************)
(* What the execution engine promises its callers: the status of a receipt *)
(* by what is on the platform.  TestWrite relies on it, ExecutionEngine is *)
(* checked to keep it.                                                     *)
(***************************************************************************)

\* receipt.status of the execution engine; "RAISED" is an exception.
Outcomes ==
    {"VERIFIED_PAUSED", "RECONCILE_REQUIRED", "PAUSE_FAILED_EMERGENCY",
     "READBACK_MISMATCH", "RELOCK_FAILED", "FAILED_TERMINAL",
     "RECOVERY_REQUIRED", "RECONCILED_VERIFIED_PAUSED",
     "RECONCILED_NOT_CREATED", "RAISED"}

\* What engine.execute may return, by whether the platform committed.
ExecuteOutcomes(committed) ==
    {"RECONCILE_REQUIRED", "FAILED_TERMINAL", "RELOCK_FAILED", "RECOVERY_REQUIRED"}
        \cup IF committed
             THEN {"VERIFIED_PAUSED", "PAUSE_FAILED_EMERGENCY", "READBACK_MISMATCH"}
             ELSE {"RAISED"}

\* What engine.reconcile may return, by whether no campaign, or exactly one,
\* bears the plan's name.
ReconcileOutcomes(missing, unique) ==
    {"RECONCILE_REQUIRED", "RELOCK_FAILED", "RECOVERY_REQUIRED", "RAISED"}
        \cup (IF missing THEN {"RECONCILED_NOT_CREATED"} ELSE {})
        \cup (IF unique THEN {"RECONCILED_VERIFIED_PAUSED",
                              "PAUSE_FAILED_EMERGENCY", "READBACK_MISMATCH"}
                        ELSE {})

=============================================================================
