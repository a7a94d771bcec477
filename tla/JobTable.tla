------------------------------ MODULE JobTable ------------------------------
(***************************************************************************)
(* One row of the table "jobs" and the SQL statements of store.py that     *)
(* rewrite it.  Every operator is one UPDATE or INSERT; the transactions   *)
(* that run them are the actions of the modules that EXTEND this one.      *)
(*                                                                         *)
(* Timestamps are compared with the clock only as "has it passed", so a    *)
(* lease is live or lapsed and a next_run_at is due or not.                *)
(***************************************************************************)
EXTENDS Naturals

CONSTANT NoOwner                       \* lease_owner = NULL

ExternalWriteKinds ==
    {"EXECUTE_TEST", "PRODUCTION_CREATE", "RECONCILE",
     "RELEASE", "RELEASE_EVALUATE", "RELEASE_RECOVERY"}

JobKinds == ExternalWriteKinds \cup {"PREPARE", "SYNC_JUGUANG"}

\* The max_attempts every enqueue call passes for its kind.
MaxAttempts(kind) == IF kind \in ExternalWriteKinds THEN 1 ELSE 3

Statuses == {"ABSENT", "PENDING", "RUNNING", "RETRY", "SUCCEEDED",
             "FAILED", "CANCELLED", "RECONCILE_REQUIRED"}

\* "ABSENT" is the row that has not been inserted.
NoRow == [status |-> "ABSENT", attempt |-> 0, owner |-> NoOwner,
          lease |-> "none", due |-> FALSE]

Inserted == [NoRow EXCEPT !.status = "PENDING", !.due = TRUE]

LeaseLapsed(row) == row.status = "RUNNING" /\ row.lease = "lapsed"

\* Mutated: the claim forgets that attempts are limited, or that a lapsed
\* lease frees a row.
ClaimableForever(row, kind) ==
    \/ row.status \in {"PENDING", "RETRY"} /\ row.due
    \/ LeaseLapsed(row)

ClaimableOnlyQueued(row, kind) ==
    /\ row.status \in {"PENDING", "RETRY"} /\ row.due
    /\ row.attempt < MaxAttempts(kind)

\* The WHERE clause of the claiming SELECT.
Claimable(row, kind) ==
    /\ \/ row.status \in {"PENDING", "RETRY"} /\ row.due
       \/ LeaseLapsed(row)
    /\ row.attempt < MaxAttempts(kind)

\* Mutated: claim_job without its sweep, or with one that queues the write again.
SweptNever(row, kind) == row

SweptRequeued(row, kind) ==
    IF LeaseLapsed(row) THEN [Inserted EXCEPT !.due = row.due] ELSE row

\* The first UPDATE of claim_job: an external write whose lease lapsed is
\* never handed to a worker again.
Swept(row, kind) ==
    IF LeaseLapsed(row) /\ kind \in ExternalWriteKinds
    THEN [row EXCEPT !.status = "RECONCILE_REQUIRED",
                     !.owner = NoOwner, !.lease = "none"]
    ELSE row

Claimed(row, worker) ==
    [row EXCEPT !.status = "RUNNING", !.attempt = @ + 1,
                !.owner = worker, !.lease = "live"]

\* Mutated: finishing does not compare the worker's name.
OwnedByAny(row, worker) == row.status = "RUNNING"

OwnedBy(row, worker) == row.status = "RUNNING" /\ row.owner = worker

Renewed(row) == [row EXCEPT !.lease = "live"]

\* Mutated: finishing leaves the lease behind.
FinishedLeased(row, status) ==
    [row EXCEPT !.status = status, !.owner = NoOwner, !.due = FALSE]

\* _finish_job; every verdict pushes next_run_at 30 seconds ahead.
Finished(row, status) ==
    [row EXCEPT !.status = status, !.owner = NoOwner,
                !.lease = "none", !.due = FALSE]

\* fail_job decides between the two by the attempts already used.
FailureStatus(row, kind) ==
    IF row.attempt >= MaxAttempts(kind) THEN "FAILED" ELSE "RETRY"

Cancellable(row) == row.status \in {"PENDING", "RETRY"}
CancelledRow(row) == [row EXCEPT !.status = "CANCELLED",
                                 !.owner = NoOwner, !.lease = "none"]

\* Mutated: resuming accepts what has to be reconciled.
ResumableUnknown(row) == row.status \in {"FAILED", "CANCELLED", "RECONCILE_REQUIRED"}

Resumable(row) == row.status \in {"FAILED", "CANCELLED"}
Resumed(row) == [row EXCEPT !.status = "PENDING", !.attempt = 0, !.due = TRUE]

=============================================================================
