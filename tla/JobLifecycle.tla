---------------------------- MODULE JobLifecycle ----------------------------
(***************************************************************************)
(* What the durable job queue promises its users: the status of a job and  *)
(* the attempts it has used, with no owner, no lease and no clock.  An     *)
(* external write starts only when it waits, a start uses an attempt up,   *)
(* and only an operator gives attempts back.  JobQueue implements this     *)
(* specification; Release is built on it.                                  *)
(***************************************************************************)
EXTENDS Naturals

CONSTANTS Jobs,
          External,   \* the jobs whose kind writes to the platform
          Attempts    \* the attempts each job is enqueued with

VARIABLE job   \* [status, attempt] of each job

NotSent == [status |-> "ABSENT", attempt |-> 0]
Waiting == [status |-> "PENDING", attempt |-> 0]

Init == job = [j \in Jobs |-> NotSent]

-----------------------------------------------------------------------------

Becomes(j, status) == job' = [job EXCEPT ![j].status = status]

Enqueue(j) ==
    /\ job[j].status = "ABSENT"
    /\ job' = [job EXCEPT ![j] = Waiting]

Cancel(j) == job[j].status \in {"PENDING", "RETRY"} /\ Becomes(j, "CANCELLED")

Resume(j) ==
    /\ job[j].status \in {"FAILED", "CANCELLED"}
    /\ job' = [job EXCEPT ![j] = Waiting]

\* An external write ends for good or is left to reconciliation; any other job
\* that fails is tried again while it has attempts.
Verdicts(j) ==
    IF j \in External
    THEN {"SUCCEEDED", "FAILED", "RECONCILE_REQUIRED"}
    ELSE {"SUCCEEDED", IF job[j].attempt < Attempts[j] THEN "RETRY" ELSE "FAILED"}

End(j, status) ==
    /\ job[j].status = "RUNNING"
    /\ status \in Verdicts(j)
    /\ Becomes(j, status)

\* A run may be given up while it goes on; of an external write nobody then
\* knows the result.
Lose(lost) ==
    [j \in Jobs |-> IF j \in lost THEN [job[j] EXCEPT !.status = "RECONCILE_REQUIRED"]
                                  ELSE job[j]]

MayBeLost == {j \in External : job[j].status = "RUNNING"}

Sweep(lost) == lost \subseteq MayBeLost /\ job' = Lose(lost)

MayStart(j) ==
    /\ \/ job[j].status \in {"PENDING", "RETRY"}
       \/ j \notin External /\ job[j].status = "RUNNING"
    /\ job[j].attempt < Attempts[j]

\* One transaction gives up what lapsed and starts the job it hands out.
Start(j, lost) ==
    /\ MayStart(j)
    /\ lost \subseteq MayBeLost
    /\ job' = [Lose(lost) EXCEPT ![j] =
                    [status |-> "RUNNING", attempt |-> job[j].attempt + 1]]

Step(j) ==
    \/ Enqueue(j) \/ Cancel(j) \/ Resume(j)
    \/ \E status \in Verdicts(j) : End(j, status)

Next ==
    \/ \E j \in Jobs : Step(j)
    \/ \E lost \in SUBSET MayBeLost : Sweep(lost) \/ \E j \in Jobs : Start(j, lost)

Spec == Init /\ [][Next]_job

=============================================================================
