------------------------------ MODULE Release -------------------------------
(***************************************************************************)
(* The release plane of a PRODUCTION project whose paused campaigns wait   *)
(* for release: approvers issue release grants, executors release under    *)
(* them, have the spend evaluated and recover releases whose result is     *)
(* unknown; workers run ProductionReleaseEngine and move the delivery      *)
(* state.  All grants release the same campaigns.                          *)
(*                                                                         *)
(* The jobs <<g, kind, n>> follow the lifecycle the queue promises         *)
(* (JobLifecycle).  A job has at most one run at a time, so a run is told  *)
(* by its job; it goes on though its lease lapsed and its job was given    *)
(* up.  Each step of a run is one request or one transaction.              *)
(***************************************************************************)
EXTENDS StateSurfaces, Naturals, FiniteSets

CONSTANTS Grants, NoGrant,
          MaxFollowUps,  \* bound: evaluations and recoveries of one release
          MaxResumes,    \* bound: operator resumes
          StoreMayFail,  \* may a transaction of a run be refused?
          MayStall       \* may the lease of a live process lapse?

ASSUME ReleaseAssumption ==
    /\ NoGrant \notin Grants
    /\ {MaxFollowUps, MaxResumes} \subseteq Nat
    /\ {StoreMayFail, MayStall} \subseteq BOOLEAN

VARIABLES
    job,       \* the status and attempt of each job, see JobLifecycle
    grant,     \* the status of each release grant
    accepted,  \* evaluations whose check has passed and that are not yet sent
    run,       \* the run of each job: its step, and what it has achieved
    delivery,  \* projects.delivery_state
    armed,     \* the grants whose spend cap is armed
    enabled,   \* the grant that enabled the campaigns, NoGrant when all are paused
    overspent, \* has the spend passed the cap?
    alerted,   \* the jobs whose trouble is in the outbox as an alert
    resumes    \* history: operator resumes

vars == <<job, grant, accepted, run, delivery, armed, enabled, overspent, alerted, resumes>>

-----------------------------------------------------------------------------

Release(g) == <<g, "RELEASE", 1>>

FollowUps == {"RELEASE_EVALUATE", "RELEASE_RECOVERY"}

Jobs == {Release(g) : g \in Grants} \cup (Grants \X FollowUps \X (1 .. MaxFollowUps))

Of(kind) == {j \in Jobs : j[2] = kind}

\* All of them are external writes, enqueued with max_attempts 1.
OneAttempt == [j \in Jobs |-> 1]

Lifecycle == INSTANCE JobLifecycle WITH External <- Jobs, Attempts <- OneAttempt

Status(j) == job[j].status

Steps == {"none", "arm", "verify", "enable", "readback", "activate", "measure",
          "pause", "relock", "decide", "closing", "close", "alert", "finish",
          "raised", "alarm", "stuck", "dead"}

NoRun == [step |-> "none", ok |-> FALSE]

JobStatus == {"ABSENT", "PENDING", "RUNNING", "SUCCEEDED", "FAILED",
              "CANCELLED", "RECONCILE_REQUIRED"}

\* The types, and that a job that runs has a run.
TypeOK ==
    /\ job \in [Jobs -> [status: JobStatus, attempt: 0 .. 1]]
    /\ grant \in [Grants -> {"ABSENT", "ISSUED", "CONSUMED", "REVOKED"}]
    /\ accepted \subseteq Of("RELEASE_EVALUATE")
    /\ run \in [Jobs -> [step: Steps, ok: BOOLEAN]]
    /\ delivery \in DeliveryState
    /\ armed \subseteq Grants
    /\ enabled \in Grants \cup {NoGrant}
    /\ overspent \in BOOLEAN
    /\ alerted \subseteq Jobs
    /\ resumes \in 0 .. MaxResumes
    /\ \A j \in Jobs : /\ Status(j) = "RUNNING" => run[j].step # "none"
                       /\ run[j].step \in {"stuck", "dead"} => Status(j) = "RUNNING"

Init ==
    /\ Lifecycle!Init
    /\ grant = [g \in Grants |-> "ABSENT"]
    /\ accepted = {}
    /\ run = [j \in Jobs |-> NoRun]
    /\ delivery = "NOT_RELEASED"
    /\ armed = {}
    /\ enabled = NoGrant
    /\ overspent = FALSE
    /\ alerted = {}
    /\ resumes = 0

planeVars == <<run, delivery, armed, enabled, overspent, alerted>>

\* Follow-ups are numbered as they are asked for.
Asked(g, kinds) == {j \in Jobs : /\ j[1] = g
                                 /\ j[2] \in kinds
                                 /\ Status(j) # "ABSENT" \/ j \in accepted}

IsNext(j, kind) ==
    /\ j \in Of(kind)
    /\ j[3] = Cardinality(Asked(j[1], {kind})) + 1
    /\ Cardinality(Asked(j[1], FollowUps)) < MaxFollowUps

Active == {"FEED_LEARNING", "SEARCH_ELIGIBLE", "STABLE"}

-----------------------------------------------------------------------------
(* The API.                                                                *)

\* issue_release_grant; nothing of the release plane is looked at.
IssueGrant(g) ==
    /\ grant[g] = "ABSENT"
    /\ grant' = [grant EXCEPT ![g] = "ISSUED"]
    /\ UNCHANGED <<job, accepted, planeVars, resumes>>

RevokeGrant(g) ==
    /\ grant[g] = "ISSUED"
    /\ grant' = [grant EXCEPT ![g] = "REVOKED"]
    /\ UNCHANGED <<job, accepted, planeVars, resumes>>

\* enqueue_release within the grant's window; the delivery state is not asked.
EnqueueRelease(g) ==
    /\ grant[g] = "ISSUED"
    /\ grant' = [grant EXCEPT ![g] = "CONSUMED"]
    /\ Lifecycle!Enqueue(Release(g))
    /\ UNCHANGED <<accepted, planeVars, resumes>>

\* enqueue_release_evaluation: the check, and the insertion after it.
AcceptEvaluation(j) ==
    /\ IsNext(j, "RELEASE_EVALUATE")
    /\ grant[j[1]] # "ABSENT"
    /\ delivery \in Active
    /\ accepted' = accepted \cup {j}
    /\ UNCHANGED <<job, grant, planeVars, resumes>>

EnqueueEvaluation(j) ==
    /\ j \in accepted
    /\ accepted' = accepted \ {j}
    /\ Lifecycle!Enqueue(j)
    /\ UNCHANGED <<grant, planeVars, resumes>>

\* enqueue_reconcile of a release job; each source and each operator make a
\* recovery of their own.
EnqueueRecovery(j) ==
    /\ IsNext(j, "RELEASE_RECOVERY")
    /\ \E source \in Jobs : /\ source[1] = j[1]
                            /\ Status(source) = "RECONCILE_REQUIRED"
    /\ Lifecycle!Enqueue(j)
    /\ UNCHANGED <<grant, accepted, planeVars, resumes>>

Cancel(j) ==
    /\ Lifecycle!Cancel(j)
    /\ UNCHANGED <<grant, accepted, planeVars, resumes>>

\* A resumed job has to answer for itself again.
Resume(j) ==
    /\ resumes < MaxResumes
    /\ Lifecycle!Resume(j)
    /\ resumes' = resumes + 1
    /\ alerted' = alerted \ {j}
    /\ UNCHANGED <<grant, accepted, run, delivery, armed, enabled, overspent>>

-----------------------------------------------------------------------------
(* process_next_job.                                                       *)

apiVars == <<grant, accepted, resumes>>

Enter(j, step, ok) == run' = [run EXCEPT ![j] = [step |-> step, ok |-> ok]]
Leave(j) == run' = [run EXCEPT ![j] = NoRun]

At(j, step) == run[j].step = step
Ok(j) == run[j].ok

FirstStep == [RELEASE |-> "arm",
              RELEASE_EVALUATE |-> "measure",
              RELEASE_RECOVERY |-> "pause"]

Claim(j) ==
    /\ Lifecycle!Start(j, {})
    /\ Enter(j, FirstStep[j[2]], FALSE)
    /\ UNCHANGED <<apiVars, delivery, armed, enabled, overspent, alerted>>

\* ProductionReleaseEngine.activate: preflight and arm_spend_cap, ...
Arm(j) ==
    /\ At(j, "arm")
    /\ armed' \in {armed, armed \cup {j[1]}}
    /\ Enter(j, "verify", FALSE) \/ Enter(j, "raised", FALSE)
    /\ UNCHANGED <<job, apiVars, delivery, enabled, overspent, alerted>>

\* Mutated: the receipt of the cap is taken for the armed cap.
VerifyReceiptOnly(j) ==
    /\ At(j, "verify")
    /\ Enter(j, "enable", FALSE) \/ Enter(j, "raised", FALSE)
    /\ UNCHANGED <<job, apiVars, delivery, armed, enabled, overspent, alerted>>

\* ... verify_armed, ...
Verify(j) ==
    /\ At(j, "verify")
    /\ \/ j[1] \in armed /\ Enter(j, "enable", FALSE)
       \/ Enter(j, "raised", FALSE)
    /\ UNCHANGED <<job, apiVars, delivery, armed, enabled, overspent, alerted>>

\* ... the enabling update, which may take effect and not be acknowledged, ...
Enable(j) ==
    /\ At(j, "enable")
    /\ \/ enabled' = j[1] /\ Enter(j, "readback", FALSE)
       \/ enabled' \in {enabled, j[1]} /\ Enter(j, "pause", FALSE)
    /\ UNCHANGED <<job, apiVars, delivery, armed, overspent, alerted>>

\* ... and the readback; any failure since the update pauses again.
Readback(j) ==
    /\ At(j, "readback")
    /\ \/ enabled # NoGrant /\ Enter(j, "activate", TRUE)
       \/ Enter(j, "pause", FALSE)
    /\ UNCHANGED <<job, apiVars, delivery, armed, enabled, overspent, alerted>>

\* Mutated: the overspend is written down and no more.
MeasureOnly(j) ==
    /\ At(j, "measure")
    /\ Enter(j, "finish", TRUE) \/ Enter(j, "raised", FALSE)
    /\ UNCHANGED <<job, apiVars, delivery, armed, enabled, overspent, alerted>>

\* evaluate_spend: a spend within the cap needs no more than its artifact.
Measure(j) ==
    /\ At(j, "measure")
    /\ \/ overspent /\ Enter(j, "pause", FALSE)
       \/ ~overspent /\ Enter(j, "finish", TRUE)
       \/ Enter(j, "raised", FALSE)
    /\ UNCHANGED <<job, apiVars, delivery, armed, enabled, overspent, alerted>>

\* pause_and_relock: the pausing update counts if every campaign is
\* acknowledged, ...
Pause(j) ==
    /\ At(j, "pause")
    /\ \/ enabled' = NoGrant /\ Enter(j, "relock", TRUE)
       \/ enabled' \in {enabled, NoGrant} /\ Enter(j, "relock", FALSE)
    /\ UNCHANGED <<job, apiVars, delivery, armed, overspent, alerted>>

\* Mutated: the relock answers for the pause as well.
RelockOnly(j) ==
    /\ At(j, "relock")
    /\ \E locked \in BOOLEAN :
         CASE j[2] = "RELEASE" -> Enter(j, "alert", FALSE)
           [] j[2] = "RELEASE_EVALUATE" -> Enter(j, "closing", locked)
           [] j[2] = "RELEASE_RECOVERY" -> Enter(j, "decide", locked)
    /\ UNCHANGED <<job, apiVars, delivery, armed, enabled, overspent, alerted>>

\* ... and the account is relocked in any case.  A release that had to pause
\* has failed, safely or not.
Relock(j) ==
    /\ At(j, "relock")
    /\ \E locked \in BOOLEAN :
         CASE j[2] = "RELEASE" -> Enter(j, "alert", FALSE)
           [] j[2] = "RELEASE_EVALUATE" -> Enter(j, "closing", Ok(j) /\ locked)
           [] j[2] = "RELEASE_RECOVERY" -> Enter(j, "decide", Ok(j) /\ locked)
    /\ UNCHANGED <<job, apiVars, delivery, armed, enabled, overspent, alerted>>

\* transition_delivery: a target the table refuses raises, nothing changes.
\* Leaving for CLOSING or CLOSED is an event the dispatcher alerts of.
MoveDelivery(j, target, next) ==
    IF DeliveryMayBecome(delivery, target)
    THEN /\ delivery' = target
         /\ alerted' = IF target \in DeliveryAlerts THEN alerted \cup {j}
                                                           ELSE alerted
         /\ Enter(j, next, Ok(j))
    ELSE /\ Enter(j, "raised", Ok(j))
         /\ UNCHANGED <<delivery, alerted>>

Activate(j) ==
    /\ At(j, "activate")
    /\ MoveDelivery(j, "FEED_LEARNING", "finish")
    /\ UNCHANGED <<job, apiVars, armed, enabled, overspent>>

\* _process_release_recovery reads the delivery state before it moves it.
Decide(j) ==
    /\ At(j, "decide")
    /\ Enter(j, CASE delivery \in Active -> "closing"
                  [] delivery = "NOT_RELEASED" /\ Ok(j) -> "close"
                  [] OTHER -> IF Ok(j) THEN "finish" ELSE "alert",
             Ok(j))
    /\ UNCHANGED <<job, apiVars, delivery, armed, enabled, overspent, alerted>>

Closing(j) ==
    /\ At(j, "closing")
    /\ MoveDelivery(j, "CLOSING",
                    CASE Ok(j) -> "close"
                      [] ~Ok(j) /\ j[2] = "RELEASE_EVALUATE" -> "finish"
                      [] OTHER -> "alert")
    /\ UNCHANGED <<job, apiVars, armed, enabled, overspent>>

Close(j) ==
    /\ At(j, "close")
    /\ MoveDelivery(j, "CLOSED", "finish")
    /\ UNCHANGED <<job, apiVars, armed, enabled, overspent>>

\* Mutated: the ALERT is left to the exception handler.
AlertNobody(j) ==
    /\ At(j, "alert")
    /\ Enter(j, "finish", Ok(j))
    /\ UNCHANGED <<job, apiVars, delivery, armed, enabled, overspent, alerted>>

Alert(j) ==
    /\ At(j, "alert")
    /\ alerted' = alerted \cup {j}
    /\ Enter(j, "finish", Ok(j))
    /\ UNCHANGED <<job, apiVars, delivery, armed, enabled, overspent>>

\* The verdict; without the lease it raises, and so does its handler.
Finish(j) ==
    /\ At(j, "finish")
    /\ \/ Lifecycle!End(j, IF Ok(j) THEN "SUCCEEDED" ELSE "FAILED")
       \/ Status(j) # "RUNNING" /\ UNCHANGED job
    /\ Leave(j)
    /\ UNCHANGED <<apiVars, delivery, armed, enabled, overspent, alerted>>

\* Mutated: the exception handler gives up on a job it may still report.
RaisedQuietly(j) ==
    /\ At(j, "raised")
    /\ Lifecycle!End(j, "RECONCILE_REQUIRED") \/ UNCHANGED job
    /\ Leave(j)
    /\ UNCHANGED <<apiVars, delivery, armed, enabled, overspent, alerted>>

\* The exception handler: hand the job to reconciliation, then alert.
Raised(j) ==
    /\ At(j, "raised")
    /\ \/ /\ Lifecycle!End(j, "RECONCILE_REQUIRED")
          /\ Enter(j, "alarm", FALSE)
       \/ /\ Status(j) # "RUNNING"
          /\ Leave(j)
          /\ UNCHANGED job
    /\ UNCHANGED <<apiVars, delivery, armed, enabled, overspent, alerted>>

Alarm(j) ==
    /\ At(j, "alarm")
    /\ alerted' = alerted \cup {j}
    /\ Leave(j)
    /\ UNCHANGED <<job, apiVars, delivery, armed, enabled, overspent>>

\* The store refuses a transaction: the exception handler takes over; refused
\* again, the row stays RUNNING and its live process keeps the lease.
Refused(j) ==
    /\ StoreMayFail
    /\ \/ /\ run[j].step \in {"activate", "decide", "closing", "close", "alert", "finish"}
          /\ Enter(j, "raised", Ok(j))
       \/ /\ At(j, "raised")
          /\ IF Status(j) = "RUNNING" THEN Enter(j, "stuck", FALSE) ELSE Leave(j)
       \/ /\ At(j, "alarm")
          /\ Leave(j)
    /\ UNCHANGED <<job, apiVars, delivery, armed, enabled, overspent, alerted>>

-----------------------------------------------------------------------------
(* The world.                                                              *)

Crash(j) ==
    /\ run[j].step \notin {"none", "dead"}
    /\ IF Status(j) = "RUNNING" THEN Enter(j, "dead", FALSE) ELSE Leave(j)
    /\ UNCHANGED <<job, apiVars, delivery, armed, enabled, overspent, alerted>>

\* The sweep of claim_job once the lease lapsed: nobody renews that of a dead
\* process, and a live one may stall.  It tells no one.
Sweep(j) ==
    /\ Status(j) = "RUNNING"
    /\ At(j, "dead") \/ MayStall
    /\ Lifecycle!Sweep({j})
    /\ IF run[j].step \in {"dead", "stuck"} THEN Leave(j) ELSE UNCHANGED run
    /\ UNCHANGED <<apiVars, delivery, armed, enabled, overspent, alerted>>

Overspend ==
    /\ enabled # NoGrant
    /\ ~overspent
    /\ overspent' = TRUE
    /\ UNCHANGED <<job, apiVars, run, delivery, armed, enabled, alerted>>

-----------------------------------------------------------------------------

RunStep(j) ==
    \/ Arm(j) \/ Verify(j) \/ Enable(j) \/ Readback(j) \/ Measure(j)
    \/ Pause(j) \/ Relock(j)
    \/ Activate(j) \/ Decide(j) \/ Closing(j) \/ Close(j)
    \/ Alert(j) \/ Finish(j) \/ Raised(j) \/ Alarm(j)

JobStep(j) ==
    \/ AcceptEvaluation(j) \/ EnqueueEvaluation(j) \/ EnqueueRecovery(j)
    \/ Cancel(j) \/ Resume(j)
    \/ Claim(j) \/ RunStep(j) \/ Refused(j) \/ Crash(j) \/ Sweep(j)

Next ==
    \/ \E g \in Grants : IssueGrant(g) \/ RevokeGrant(g) \/ EnqueueRelease(g)
    \/ \E j \in Jobs : JobStep(j)
    \/ Overspend

Spec == Init /\ [][Next]_vars

\* Workers keep polling: they claim what waits, finish their runs, and sweep
\* what a dead process left.  Nothing is assumed of releases and recoveries.
Fairness ==
    \A j \in Of("RELEASE_EVALUATE") : /\ WF_vars(Claim(j))
                                      /\ WF_vars(RunStep(j))
                                      /\ WF_vars(At(j, "dead") /\ Sweep(j))

FairSpec == Spec /\ Fairness

-----------------------------------------------------------------------------
(* Properties.                                                             *)

\* No campaign is enabled before the spend cap of the release that enables it
\* is armed (activate: "production campaigns cannot be enabled before the
\* spend cap is armed").
CapBeforeEnable == enabled # NoGrant => enabled \in armed

\* A release, an evaluation or a recovery that failed has told the operators:
\* its alert is in the outbox before its verdict is in the table, whichever
\* transaction is refused and whenever its process dies.
FailureIsAlerted ==
    \A j \in Jobs : Status(j) = "FAILED" => j \in alerted

\* Campaigns that run under a closed delivery were enabled by a worker that had
\* lost its job, and the job waits for reconciliation: unless another release
\* was sent too, which enqueue_release does not prevent.
ClosedIsPaused ==
    (delivery = "CLOSED" /\ enabled # NoGrant)
        => \/ Status(Release(enabled)) = "RECONCILE_REQUIRED"
           \/ \E g \in Grants \ {enabled} : Status(Release(g)) # "ABSENT"

\* However many releases are sent, at once or one after the other, at most one
\* passes for successful: a second activation, which the delivery state no
\* longer admits, is never reported as one (_process_release).
OneReleaseSucceeds ==
    \A g, h \in Grants :
        Status(Release(g)) = "SUCCEEDED" /\ Status(Release(h)) = "SUCCEEDED" => g = h

\* An evaluation of campaigns over their cap pauses them, or is surfaced:
\* alerted, to be reconciled, cancelled, or held by the store's refusals.
OverspendIsAnswered ==
    \A j \in Of("RELEASE_EVALUATE") :
        (overspent /\ Status(j) = "PENDING")
            ~> \/ enabled = NoGrant
               \/ j \in alerted
               \/ Status(j) \in {"CANCELLED", "RECONCILE_REQUIRED"}
               \/ At(j, "stuck")

=============================================================================
