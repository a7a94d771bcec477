--------------------------- MODULE Release_proofs ----------------------------
(***************************************************************************)
(* For any set of grants and any bounds: campaigns are enabled only under  *)
(* an armed spend cap, and a job that ended FAILED has alerted the         *)
(* operators, whatever runs, resumes, refusals and deaths come between.    *)
(*                                                                         *)
(* A run touches its own job only, so that one lemma covers its steps: it  *)
(* asks what the step enters.  The invariant says what the steps ahead     *)
(* rely on: a run that enables has an armed cap, a run that activates has  *)
(* succeeded, and one that will report a failure has alerted.              *)
(*                                                                         *)
(* At most one release is reported as successful, because the delivery     *)
(* leaves NOT_RELEASED once and an activation starts from there.           *)
(*                                                                         *)
(* While no other release was sent, what is closed is paused unless the    *)
(* release waits for reconciliation: ClosedInv says that the follow-ups    *)
(* begin when the release is over.                                         *)
(***************************************************************************)
EXTENDS Release, TLAPS

EnablesArmed == \A j \in Jobs : At(j, "enable") => j[1] \in armed

ActivatesReleased == \A j \in Jobs : At(j, "activate") => Ok(j)

FailsAlerted ==
    \A j \in Jobs : (Status(j) = "RUNNING" /\ At(j, "finish") /\ ~Ok(j))
                        => j \in alerted

AlarmsEnded == \A j \in Jobs : At(j, "alarm") => Status(j) # "RUNNING"

ReleaseInv == /\ TypeOK
              /\ CapBeforeEnable /\ EnablesArmed
              /\ FailureIsAlerted /\ ActivatesReleased /\ FailsAlerted /\ AlarmsEnded

Row == [status: JobStatus, attempt: 0 .. 1]

Run == [step: Steps, ok: BOOLEAN]

-----------------------------------------------------------------------------
(* The jobs.                                                               *)

\* A job is of a grant and of a kind.
LEMMA JobParts ==
    ASSUME NEW j \in Jobs
    PROVE  j[1] \in Grants /\ j[2] \in {"RELEASE"} \cup FollowUps
  BY DEF Jobs, Release, FollowUps

\* job' differs from job at j only, where it has the given status.
Changed(j, status) ==
    /\ job' \in [Jobs -> Row]
    /\ \A k \in Jobs \ {j} : job'[k] = job[k]
    /\ job'[j].status = status

LEMMA JobEnqueued ==
    ASSUME TypeOK, NEW j \in Jobs, Lifecycle!Enqueue(j)
    PROVE  Changed(j, "PENDING") /\ Status(j) = "ABSENT"
  BY DEF TypeOK, Lifecycle!Enqueue, Lifecycle!Waiting, Changed, Row, JobStatus, Status

\* Becomes changes the status and keeps the attempt.
LEMMA JobBecomes ==
    ASSUME TypeOK, NEW j \in Jobs, NEW s \in JobStatus, Lifecycle!Becomes(j, s)
    PROVE  Changed(j, s)
<1>1. job' = [job EXCEPT ![j] = [job[j] EXCEPT !.status = s]]
  BY DEF Lifecycle!Becomes
<1>2. job \in [Jobs -> Row] /\ job[j] \in Row
  BY DEF TypeOK, Row
<1>3. /\ [job[j] EXCEPT !.status = s] \in Row
      /\ [job[j] EXCEPT !.status = s].status = s
  BY <1>2 DEF Row
<1> QED BY <1>1, <1>2, <1>3 DEF Changed

LEMMA JobCancelled ==
    ASSUME TypeOK, NEW j \in Jobs, Lifecycle!Cancel(j)
    PROVE  Changed(j, "CANCELLED") /\ Status(j) = "PENDING"
<1>1. Lifecycle!Becomes(j, "CANCELLED") /\ job[j].status \in {"PENDING", "RETRY"}
  BY DEF Lifecycle!Cancel
<1>2. "CANCELLED" \in JobStatus /\ job[j].status # "RETRY"
  BY DEF JobStatus, TypeOK
<1> QED BY <1>1, <1>2, JobBecomes DEF Status

LEMMA JobResumed ==
    ASSUME TypeOK, NEW j \in Jobs, Lifecycle!Resume(j)
    PROVE  Changed(j, "PENDING") /\ Status(j) \in {"FAILED", "CANCELLED"}
  BY DEF TypeOK, Lifecycle!Resume, Lifecycle!Waiting, Changed, Row, JobStatus, Status

LEMMA JobEnded ==
    ASSUME TypeOK, NEW j \in Jobs, NEW s \in JobStatus, Lifecycle!End(j, s)
    PROVE  Changed(j, s) /\ Status(j) = "RUNNING"
<1>1. Lifecycle!Becomes(j, s) /\ job[j].status = "RUNNING"
  BY DEF Lifecycle!End
<1> QED BY <1>1, JobBecomes DEF Status

LEMMA JobSwept ==
    ASSUME TypeOK, NEW j \in Jobs, Lifecycle!Sweep({j})
    PROVE  Changed(j, "RECONCILE_REQUIRED")
<1>1. job' = [k \in Jobs |-> IF k = j THEN [job[k] EXCEPT !.status = "RECONCILE_REQUIRED"]
                                      ELSE job[k]]
  BY DEF Lifecycle!Sweep, Lifecycle!Lose
<1>2. job \in [Jobs -> Row] /\ job[j] \in Row
  BY DEF TypeOK, Row
<1>3. /\ [job[j] EXCEPT !.status = "RECONCILE_REQUIRED"] \in Row
      /\ [job[j] EXCEPT !.status = "RECONCILE_REQUIRED"].status = "RECONCILE_REQUIRED"
  BY <1>2 DEF Row, JobStatus
<1> QED BY <1>1, <1>2, <1>3 DEF Changed

LEMMA JobStarted ==
    ASSUME TypeOK, NEW j \in Jobs, Lifecycle!Start(j, {})
    PROVE  Changed(j, "RUNNING")
<1>1. /\ job[j].attempt < OneAttempt[j]
      /\ job' = [Lifecycle!Lose({}) EXCEPT ![j] =
                      [status |-> "RUNNING", attempt |-> job[j].attempt + 1]]
  BY DEF Lifecycle!Start, Lifecycle!MayStart
<1>2. job \in [Jobs -> Row] /\ job[j] \in Row
  BY DEF TypeOK, Row
<1>3. Lifecycle!Lose({}) = job
  BY <1>2 DEF Lifecycle!Lose
<1>4. [status |-> "RUNNING", attempt |-> job[j].attempt + 1] \in Row
  BY <1>1, <1>2 DEF Row, JobStatus, OneAttempt
<1> QED BY <1>1, <1>2, <1>3, <1>4 DEF Changed

-----------------------------------------------------------------------------
(* What a step of one job keeps.                                           *)

\* The run enters a step; the conditions are those of the invariant for job j.
LEMMA RunKeeps ==
    ASSUME ReleaseInv, NEW j \in Jobs, NEW step \in Steps, NEW ok \in BOOLEAN,
           Enter(j, step, ok),
           UNCHANGED <<job, apiVars, overspent>>,
           delivery' \in DeliveryState,
           armed \subseteq armed', armed' \subseteq Grants,
           alerted \subseteq alerted', alerted' \subseteq Jobs,
           \/ enabled' \in {enabled, NoGrant}
           \/ enabled' = j[1] /\ At(j, "enable"),
           step = "enable" => j[1] \in armed',
           step = "activate" => ok,
           step = "finish" /\ ~ok => j \in alerted' \/ Status(j) # "RUNNING",
           step \in {"none", "alarm"} => Status(j) # "RUNNING",
           step \in {"stuck", "dead"} => Status(j) = "RUNNING"
    PROVE  ReleaseInv'
<1>1. run' \in [Jobs -> Run] /\ \A k \in Jobs : k # j => run'[k] = run[k]
  BY DEF ReleaseInv, TypeOK, Run, Enter
<1>2. run'[j].step = step /\ run'[j].ok = ok
  BY DEF ReleaseInv, TypeOK, Run, Enter
<1>3. enabled' \in Grants \cup {NoGrant}
  BY JobParts DEF ReleaseInv, TypeOK
<1>4. TypeOK'
  BY <1>1, <1>2, <1>3 DEF ReleaseInv, TypeOK, Run, Status, apiVars
<1>5. CapBeforeEnable'
  BY DEF ReleaseInv, CapBeforeEnable, EnablesArmed
<1>6. EnablesArmed' /\ ActivatesReleased' /\ FailsAlerted' /\ AlarmsEnded'
  BY <1>1, <1>2 DEF ReleaseInv, EnablesArmed, ActivatesReleased, FailsAlerted,
                    AlarmsEnded, At, Ok, Status
<1>7. FailureIsAlerted'
  BY DEF ReleaseInv, FailureIsAlerted, Status
<1> QED BY <1>4, <1>5, <1>6, <1>7 DEF ReleaseInv

\* The row of a job changes, and its run enters a step.
LEMMA RowKeeps ==
    ASSUME ReleaseInv, NEW j \in Jobs, NEW s \in JobStatus, Changed(j, s),
           NEW step \in Steps, NEW ok \in BOOLEAN, Enter(j, step, ok),
           UNCHANGED <<delivery, armed, enabled, overspent>>,
           grant' \in [Grants -> {"ABSENT", "ISSUED", "CONSUMED", "REVOKED"}],
           accepted' \subseteq Of("RELEASE_EVALUATE"),
           resumes' \in 0 .. MaxResumes,
           alerted' \subseteq Jobs,
           \A k \in Jobs \ {j} : k \in alerted => k \in alerted',
           s = "FAILED" => j \in alerted',
           step = "enable" => j[1] \in armed,
           step = "activate" => ok,
           s = "RUNNING" => step \notin {"none", "finish", "alarm"},
           step \in {"stuck", "dead"} => s = "RUNNING"
    PROVE  ReleaseInv'
<1>1. run' \in [Jobs -> Run] /\ \A k \in Jobs : k # j => run'[k] = run[k]
  BY DEF ReleaseInv, TypeOK, Run, Enter
<1>2. run'[j].step = step /\ run'[j].ok = ok
  BY DEF ReleaseInv, TypeOK, Run, Enter
<1>3. TypeOK'
  BY <1>1, <1>2 DEF ReleaseInv, TypeOK, Run, Row, Status, Changed
<1>4. CapBeforeEnable' /\ EnablesArmed' /\ ActivatesReleased'
  BY <1>1, <1>2 DEF ReleaseInv, CapBeforeEnable, EnablesArmed, ActivatesReleased, At, Ok
<1>5. FailsAlerted' /\ FailureIsAlerted' /\ AlarmsEnded'
  BY <1>1, <1>2 DEF ReleaseInv, FailsAlerted, FailureIsAlerted, AlarmsEnded, At, Ok,
                    Status, Changed
<1> QED BY <1>3, <1>4, <1>5 DEF ReleaseInv

\* A step of the API leaves every run alone: the row it changes has no run
\* that goes on as if it owned it.
LEMMA ApiKeeps ==
    ASSUME ReleaseInv, NEW j \in Jobs, NEW s \in JobStatus \ {"RUNNING", "FAILED"},
           Changed(j, s), Status(j) # "RUNNING",
           UNCHANGED <<run, delivery, armed, enabled, overspent>>,
           grant' \in [Grants -> {"ABSENT", "ISSUED", "CONSUMED", "REVOKED"}],
           accepted' \subseteq Of("RELEASE_EVALUATE"),
           resumes' \in 0 .. MaxResumes,
           alerted' \subseteq Jobs,
           \A k \in Jobs \ {j} : k \in alerted => k \in alerted'
    PROVE  ReleaseInv'
<1>1. /\ run[j].step \in Steps /\ run[j].ok \in BOOLEAN
      /\ Enter(j, run[j].step, run[j].ok)
  BY DEF ReleaseInv, TypeOK, Enter
<1>2. /\ run[j].step = "enable" => j[1] \in armed
      /\ run[j].step = "activate" => run[j].ok
      /\ run[j].step \notin {"stuck", "dead"}
  BY DEF ReleaseInv, TypeOK, EnablesArmed, ActivatesReleased, At, Ok
<1> QED BY <1>1, <1>2, RowKeeps

\* Nothing but the bookkeeping of the API changes.
LEMMA BooksKeep ==
    ASSUME ReleaseInv,
           UNCHANGED <<job, run, delivery, armed, enabled, alerted, resumes>>,
           overspent' \in BOOLEAN,
           grant' \in [Grants -> {"ABSENT", "ISSUED", "CONSUMED", "REVOKED"}],
           accepted' \subseteq Of("RELEASE_EVALUATE")
    PROVE  ReleaseInv'
  BY DEF ReleaseInv, TypeOK, CapBeforeEnable, EnablesArmed, FailureIsAlerted,
         ActivatesReleased, FailsAlerted, AlarmsEnded, Status, At, Ok

-----------------------------------------------------------------------------
(* The steps.                                                              *)

LEMMA ReleaseInitInv == ASSUME ReleaseAssumption, Init PROVE ReleaseInv
<1>1. job = [j \in Jobs |-> [status |-> "ABSENT", attempt |-> 0]]
  BY DEF Init, Lifecycle!Init, Lifecycle!NotSent
<1>2. job \in [Jobs -> Row]
  BY <1>1 DEF Row, JobStatus
<1>3. run \in [Jobs -> Run] /\ \A j \in Jobs : run[j].step = "none"
  BY DEF Init, NoRun, Run, Steps
<1>4. resumes \in 0 .. MaxResumes
  BY DEF ReleaseAssumption, Init
<1>5. TypeOK
  BY <1>1, <1>2, <1>3, <1>4 DEF Init, TypeOK, Row, Run, DeliveryState, Status
<1> QED BY <1>1, <1>3, <1>5 DEF Init, ReleaseInv, CapBeforeEnable, EnablesArmed,
             FailureIsAlerted, ActivatesReleased, FailsAlerted, AlarmsEnded, Status, At, Ok

LEMMA GrantStepInv ==
    ASSUME ReleaseInv, NEW g \in Grants,
           IssueGrant(g) \/ RevokeGrant(g) \/ EnqueueRelease(g)
    PROVE  ReleaseInv'
<1>1. CASE IssueGrant(g) \/ RevokeGrant(g)
  BY <1>1, BooksKeep DEF IssueGrant, RevokeGrant, planeVars, ReleaseInv, TypeOK
<1>2. CASE EnqueueRelease(g)
  <2>1. Release(g) \in Jobs
    BY DEF Jobs
  <2>2. PICK j \in Jobs : j = Release(g)
    BY <2>1
  <2>3. Lifecycle!Enqueue(j)
    BY <1>2, <2>2 DEF EnqueueRelease
  <2>4. Changed(j, "PENDING") /\ Status(j) = "ABSENT"
    BY <2>3, JobEnqueued DEF ReleaseInv
  <2> QED BY <1>2, <2>4, ApiKeeps DEF EnqueueRelease, planeVars, ReleaseInv, TypeOK,
               JobStatus
<1> QED BY <1>1, <1>2

LEMMA ApiStepInv ==
    ASSUME ReleaseInv, NEW j \in Jobs,
           \/ AcceptEvaluation(j) \/ EnqueueEvaluation(j) \/ EnqueueRecovery(j)
           \/ Cancel(j) \/ Resume(j)
    PROVE  ReleaseInv'
<1>0. "PENDING" \in JobStatus \ {"RUNNING", "FAILED"}
      /\ "CANCELLED" \in JobStatus \ {"RUNNING", "FAILED"}
  BY DEF JobStatus
<1>1. CASE AcceptEvaluation(j)
  BY <1>1, BooksKeep DEF AcceptEvaluation, IsNext, planeVars, ReleaseInv, TypeOK
<1>2. CASE EnqueueEvaluation(j)
  <2>1. Changed(j, "PENDING") /\ Status(j) = "ABSENT"
    BY <1>2, JobEnqueued DEF EnqueueEvaluation, ReleaseInv
  <2> QED BY <1>0, <1>2, <2>1, ApiKeeps DEF EnqueueEvaluation, planeVars, ReleaseInv, TypeOK
<1>3. CASE EnqueueRecovery(j)
  <2>1. Changed(j, "PENDING") /\ Status(j) = "ABSENT"
    BY <1>3, JobEnqueued DEF EnqueueRecovery, ReleaseInv
  <2> QED BY <1>0, <1>3, <2>1, ApiKeeps DEF EnqueueRecovery, planeVars, ReleaseInv, TypeOK
<1>4. CASE Cancel(j)
  <2>1. Changed(j, "CANCELLED") /\ Status(j) = "PENDING"
    BY <1>4, JobCancelled DEF Cancel, ReleaseInv
  <2> QED BY <1>0, <1>4, <2>1, ApiKeeps DEF Cancel, planeVars, ReleaseInv, TypeOK
<1>5. CASE Resume(j)
  <2>1. Changed(j, "PENDING") /\ Status(j) \in {"FAILED", "CANCELLED"}
    BY <1>5, JobResumed DEF Resume, ReleaseInv
  <2>2. resumes' \in 0 .. MaxResumes
    BY <1>5, ReleaseAssumption DEF Resume, ReleaseInv, TypeOK, ReleaseAssumption
  <2> QED BY <1>0, <1>5, <2>1, <2>2, ApiKeeps DEF Resume, ReleaseInv, TypeOK
<1> QED BY <1>1, <1>2, <1>3, <1>4, <1>5

\* The requests to the platform.
LEMMA RequestInv ==
    ASSUME ReleaseInv, NEW j \in Jobs,
           \/ Arm(j) \/ Verify(j) \/ Enable(j) \/ Readback(j) \/ Measure(j)
           \/ Pause(j) \/ Relock(j)
    PROVE  ReleaseInv'
<1> USE DEF Steps
<1>0. /\ delivery \in DeliveryState /\ armed \subseteq Grants /\ alerted \subseteq Jobs
      /\ j[1] \in Grants
  BY JobParts DEF ReleaseInv, TypeOK
<1>1. CASE Arm(j)
  <2>1. PICK step \in {"verify", "raised"} : Enter(j, step, FALSE)
    BY <1>1 DEF Arm
  <2> QED BY <1>0, <1>1, <2>1, RunKeeps DEF Arm
<1>2. CASE Verify(j)
  <2>1. PICK step \in {"enable", "raised"} :
            Enter(j, step, FALSE) /\ (step = "enable" => j[1] \in armed)
    BY <1>2 DEF Verify
  <2> QED BY <1>0, <1>2, <2>1, RunKeeps DEF Verify
<1>3. CASE Enable(j)
  <2>1. PICK step \in {"readback", "pause"} : Enter(j, step, FALSE)
    BY <1>3 DEF Enable
  <2>2. enabled' \in {enabled, j[1]} /\ At(j, "enable")
    BY <1>3 DEF Enable
  <2> QED BY <1>0, <1>3, <2>1, <2>2, RunKeeps DEF Enable
<1>4. CASE Readback(j)
  <2>1. PICK step \in {"activate", "pause"} : Enter(j, step, step = "activate")
    BY <1>4 DEF Readback
  <2> QED BY <1>0, <1>4, <2>1, RunKeeps DEF Readback
<1>5. CASE Measure(j)
  <2>1. PICK step \in {"finish", "pause", "raised"} : Enter(j, step, step = "finish")
    BY <1>5 DEF Measure
  <2> QED BY <1>0, <1>5, <2>1, RunKeeps DEF Measure
<1>6. CASE Pause(j)
  <2>1. PICK ok \in BOOLEAN : Enter(j, "relock", ok)
    BY <1>6 DEF Pause
  <2> QED BY <1>0, <1>6, <2>1, RunKeeps DEF Pause
<1>7. CASE Relock(j)
  <2>1. Ok(j) \in BOOLEAN
    BY DEF ReleaseInv, TypeOK, Ok
  <2>2. \E step \in {"alert", "closing", "decide"}, ok \in BOOLEAN : Enter(j, step, ok)
    <3>1. PICK locked \in BOOLEAN :
             CASE j[2] = "RELEASE" -> Enter(j, "alert", FALSE)
               [] j[2] = "RELEASE_EVALUATE" -> Enter(j, "closing", Ok(j) /\ locked)
               [] j[2] = "RELEASE_RECOVERY" -> Enter(j, "decide", Ok(j) /\ locked)
      BY <1>7 DEF Relock
    <3>2. (Ok(j) /\ locked) \in BOOLEAN
      OBVIOUS
    <3> QED BY <3>1, <3>2, JobParts DEF FollowUps
  <2>3. PICK step \in {"alert", "closing", "decide"}, ok \in BOOLEAN : Enter(j, step, ok)
    BY <2>2
  <2> QED BY <1>0, <1>7, <2>3, RunKeeps DEF Relock
<1> QED BY <1>1, <1>2, <1>3, <1>4, <1>5, <1>6, <1>7

\* A move of the delivery surface; leaving for CLOSING or CLOSED alerts.
LEMMA MoveInv ==
    ASSUME ReleaseInv, NEW j \in Jobs, NEW target \in DeliveryState,
           NEW next \in {"finish", "close", "alert"},
           MoveDelivery(j, target, next),
           next = "finish" /\ ~Ok(j) => target \in DeliveryAlerts,
           UNCHANGED <<job, apiVars, armed, enabled, overspent>>
    PROVE  ReleaseInv'
<1> USE DEF Steps
<1>0. /\ delivery \in DeliveryState /\ armed \subseteq Grants /\ alerted \subseteq Jobs
      /\ Ok(j) \in BOOLEAN
  BY DEF ReleaseInv, TypeOK, Ok
<1>1. CASE DeliveryMayBecome(delivery, target)
  <2>1. /\ delivery' = target
        /\ alerted' = IF target \in DeliveryAlerts THEN alerted \cup {j} ELSE alerted
        /\ Enter(j, next, Ok(j))
    BY <1>1 DEF MoveDelivery
  <2> QED BY <1>0, <2>1, RunKeeps
<1>2. CASE ~DeliveryMayBecome(delivery, target)
  <2>1. UNCHANGED <<delivery, alerted>> /\ Enter(j, "raised", Ok(j))
    BY <1>2 DEF MoveDelivery
  <2> QED BY <1>0, <2>1, RunKeeps
<1> QED BY <1>1, <1>2

\* The transactions of a run.
LEMMA TransactionInv ==
    ASSUME ReleaseInv, NEW j \in Jobs,
           Activate(j) \/ Decide(j) \/ Closing(j) \/ Close(j) \/ Alert(j)
    PROVE  ReleaseInv'
<1> USE DEF Steps, DeliveryState
<1>0. /\ delivery \in DeliveryState /\ armed \subseteq Grants /\ alerted \subseteq Jobs
      /\ Ok(j) \in BOOLEAN
  BY DEF ReleaseInv, TypeOK, Ok
<1>1. CASE Activate(j)
  <2>1. Ok(j)
    BY <1>1 DEF Activate, ReleaseInv, ActivatesReleased
  <2> QED BY <1>1, <2>1, MoveInv DEF Activate
<1>2. CASE Decide(j)
  <2>1. \E step \in {"closing", "close", "finish", "alert"} :
            Enter(j, step, Ok(j)) /\ (step = "finish" => Ok(j))
    <3>1. Enter(j, CASE delivery \in Active -> "closing"
                     [] delivery = "NOT_RELEASED" /\ Ok(j) -> "close"
                     [] OTHER -> IF Ok(j) THEN "finish" ELSE "alert",
                Ok(j))
      BY <1>2 DEF Decide
    <3>2. CASE delivery \in Active
      BY <3>1, <3>2 DEF Active
    <3>3. CASE delivery = "NOT_RELEASED" /\ Ok(j)
      BY <3>1, <3>3 DEF Active
    <3>4. CASE delivery \notin Active /\ ~(delivery = "NOT_RELEASED" /\ Ok(j))
      BY <3>1, <3>4
    <3> QED BY <3>2, <3>3, <3>4
  <2>2. PICK step \in {"closing", "close", "finish", "alert"} :
            Enter(j, step, Ok(j)) /\ (step = "finish" => Ok(j))
    BY <2>1
  <2> QED BY <1>0, <1>2, <2>2, RunKeeps DEF Decide
<1>3. CASE Closing(j)
  <2>1. PICK next \in {"close", "finish", "alert"} : MoveDelivery(j, "CLOSING", next)
    BY <1>3 DEF Closing
  <2> QED BY <1>3, <2>1, MoveInv DEF Closing, DeliveryAlerts
<1>4. CASE Close(j)
  BY <1>4, MoveInv DEF Close, DeliveryAlerts
<1>5. CASE Alert(j)
  <2>1. Enter(j, "finish", Ok(j)) /\ alerted' = alerted \cup {j}
    BY <1>5 DEF Alert
  <2> QED BY <1>0, <1>5, <2>1, RunKeeps DEF Alert
<1> QED BY <1>1, <1>2, <1>3, <1>4, <1>5

\* The verdicts.
LEMMA FinishInv ==
    ASSUME ReleaseInv, NEW j \in Jobs, Finish(j) PROVE ReleaseInv'
<1> USE DEF Steps, apiVars
<1>0. /\ delivery \in DeliveryState /\ armed \subseteq Grants /\ alerted \subseteq Jobs
      /\ grant \in [Grants -> {"ABSENT", "ISSUED", "CONSUMED", "REVOKED"}]
      /\ accepted \subseteq Of("RELEASE_EVALUATE") /\ resumes \in 0 .. MaxResumes
  BY DEF ReleaseInv, TypeOK
<1>1. /\ Enter(j, "none", FALSE) /\ At(j, "finish")
      /\ UNCHANGED <<apiVars, delivery, armed, enabled, overspent, alerted>>
  BY DEF Finish, Leave, Enter, NoRun
<1>2. \/ \E s \in {"SUCCEEDED", "FAILED"} : Lifecycle!End(j, s) /\ (s = "FAILED" => ~Ok(j))
      \/ Status(j) # "RUNNING" /\ UNCHANGED job
  <2>1. CASE Ok(j)
    BY <2>1 DEF Finish
  <2>2. CASE ~Ok(j)
    BY <2>2 DEF Finish
  <2> QED BY <2>1, <2>2
<1>3. ASSUME NEW s \in {"SUCCEEDED", "FAILED"}, Lifecycle!End(j, s), s = "FAILED" => ~Ok(j)
      PROVE  ReleaseInv'
  <2>1. s \in JobStatus
    BY DEF JobStatus
  <2>2. Changed(j, s) /\ Status(j) = "RUNNING"
    BY <1>3, <2>1, JobEnded DEF ReleaseInv
  <2>3. s = "FAILED" => j \in alerted
    BY <1>1, <1>3, <2>2 DEF ReleaseInv, FailsAlerted
  <2> QED BY <1>0, <1>1, <2>1, <2>2, <2>3, RowKeeps
<1>4. CASE Status(j) # "RUNNING" /\ UNCHANGED job
  BY <1>0, <1>1, <1>4, RunKeeps
<1> QED BY <1>2, <1>3, <1>4

LEMMA HandlerInv ==
    ASSUME ReleaseInv, NEW j \in Jobs, Raised(j) \/ Alarm(j) PROVE ReleaseInv'
<1> USE DEF Steps, apiVars
<1>0. /\ delivery \in DeliveryState /\ armed \subseteq Grants /\ alerted \subseteq Jobs
      /\ grant \in [Grants -> {"ABSENT", "ISSUED", "CONSUMED", "REVOKED"}]
      /\ accepted \subseteq Of("RELEASE_EVALUATE") /\ resumes \in 0 .. MaxResumes
  BY DEF ReleaseInv, TypeOK
<1>1. Leave(j) => Enter(j, "none", FALSE)
  BY DEF Leave, Enter, NoRun
<1>2. CASE Lifecycle!End(j, "RECONCILE_REQUIRED") /\ Raised(j) /\ Enter(j, "alarm", FALSE)
  <2>1. "RECONCILE_REQUIRED" \in JobStatus
    BY DEF JobStatus
  <2>2. Changed(j, "RECONCILE_REQUIRED")
    BY <1>2, <2>1, JobEnded DEF ReleaseInv
  <2>3. UNCHANGED <<apiVars, delivery, armed, enabled, overspent, alerted>>
    BY <1>2 DEF Raised
  <2> QED BY <1>0, <1>2, <2>1, <2>2, <2>3, RowKeeps
<1>3. CASE Raised(j) /\ Status(j) # "RUNNING" /\ Leave(j) /\ UNCHANGED job
  <2>1. UNCHANGED <<apiVars, delivery, armed, enabled, overspent, alerted>>
    BY <1>3 DEF Raised
  <2> QED BY <1>0, <1>1, <1>3, <2>1, RunKeeps
<1>4. CASE Alarm(j)
  <2>1. Status(j) # "RUNNING"
    BY <1>4 DEF Alarm, ReleaseInv, AlarmsEnded
  <2>2. /\ Leave(j) /\ alerted' = alerted \cup {j}
        /\ UNCHANGED <<job, apiVars, delivery, armed, enabled, overspent>>
    BY <1>4 DEF Alarm
  <2> QED BY <1>0, <1>1, <2>1, <2>2, RunKeeps
<1> QED BY <1>2, <1>3, <1>4 DEF Raised

\* What the queue and the world do to a run.
LEMMA WorldInv ==
    ASSUME ReleaseInv, NEW j \in Jobs,
           Claim(j) \/ Refused(j) \/ Crash(j) \/ Sweep(j)
    PROVE  ReleaseInv'
<1> USE DEF Steps, apiVars
<1>0. /\ delivery \in DeliveryState /\ armed \subseteq Grants /\ alerted \subseteq Jobs
      /\ grant \in [Grants -> {"ABSENT", "ISSUED", "CONSUMED", "REVOKED"}]
      /\ accepted \subseteq Of("RELEASE_EVALUATE") /\ resumes \in 0 .. MaxResumes
      /\ Ok(j) \in BOOLEAN /\ run[j].step \in Steps
  BY DEF ReleaseInv, TypeOK, Ok
<1>1. Leave(j) => Enter(j, "none", FALSE)
  BY DEF Leave, Enter, NoRun
<1>2. "RUNNING" \in JobStatus /\ "RECONCILE_REQUIRED" \in JobStatus
  BY DEF JobStatus
<1>3. CASE Claim(j)
  <2>1. PICK step \in {"arm", "measure", "pause"} : Enter(j, step, FALSE)
    <3>1. FirstStep[j[2]] \in {"arm", "measure", "pause"}
      BY JobParts DEF FirstStep, FollowUps
    <3>2. Enter(j, FirstStep[j[2]], FALSE)
      BY <1>3 DEF Claim
    <3> QED BY <3>1, <3>2
  <2>2. Changed(j, "RUNNING")
    BY <1>3, JobStarted DEF Claim, ReleaseInv
  <2> QED BY <1>0, <1>2, <1>3, <2>1, <2>2, RowKeeps DEF Claim
<1>4. CASE Refused(j)
  <2>1. UNCHANGED <<job, apiVars, delivery, armed, enabled, overspent, alerted>>
    BY <1>4 DEF Refused
  <2>2. CASE Enter(j, "raised", Ok(j))
    BY <1>0, <2>1, <2>2, RunKeeps
  <2>3. CASE Status(j) = "RUNNING" /\ Enter(j, "stuck", FALSE)
    BY <1>0, <2>1, <2>3, RunKeeps
  <2>4. CASE Status(j) # "RUNNING" /\ Leave(j)
    BY <1>0, <1>1, <2>1, <2>4, RunKeeps
  <2>5. CASE At(j, "alarm") /\ Leave(j)
    BY <1>0, <1>1, <2>1, <2>5, RunKeeps DEF ReleaseInv, AlarmsEnded
  <2> QED BY <1>4, <2>2, <2>3, <2>4, <2>5 DEF Refused
<1>5. CASE Crash(j)
  <2>1. UNCHANGED <<job, apiVars, delivery, armed, enabled, overspent, alerted>>
    BY <1>5 DEF Crash
  <2>2. CASE Status(j) = "RUNNING"
    BY <1>0, <1>5, <2>1, <2>2, RunKeeps DEF Crash
  <2>3. CASE Status(j) # "RUNNING"
    BY <1>0, <1>1, <1>5, <2>1, <2>3, RunKeeps DEF Crash
  <2> QED BY <2>2, <2>3
<1>6. CASE Sweep(j)
  <2>1. Changed(j, "RECONCILE_REQUIRED")
    BY <1>6, JobSwept DEF Sweep, ReleaseInv
  <2>2. UNCHANGED <<apiVars, delivery, armed, enabled, overspent, alerted>>
    BY <1>6 DEF Sweep
  <2>3. CASE run[j].step \in {"dead", "stuck"}
    <3>1. Enter(j, "none", FALSE)
      BY <1>1, <1>6, <2>3 DEF Sweep
    <3> QED BY <1>0, <1>2, <2>1, <2>2, <3>1, RowKeeps
  <2>4. CASE run[j].step \notin {"dead", "stuck"}
    <3>1. Enter(j, run[j].step, run[j].ok)
      BY <1>6, <2>4 DEF Sweep, Enter, ReleaseInv, TypeOK
    <3>2. /\ run[j].step = "enable" => j[1] \in armed
          /\ run[j].step = "activate" => run[j].ok
      BY DEF ReleaseInv, EnablesArmed, ActivatesReleased, At, Ok
    <3> QED BY <1>0, <1>2, <2>1, <2>2, <2>4, <3>1, <3>2, RowKeeps DEF Ok
  <2> QED BY <2>3, <2>4
<1> QED BY <1>3, <1>4, <1>5, <1>6

LEMMA ReleaseNextInv == ASSUME ReleaseInv, [Next]_vars PROVE ReleaseInv'
<1>1. CASE \E g \in Grants : IssueGrant(g) \/ RevokeGrant(g) \/ EnqueueRelease(g)
  BY <1>1, GrantStepInv
<1>2. ASSUME NEW j \in Jobs, JobStep(j) PROVE ReleaseInv'
  BY <1>2, ApiStepInv, RequestInv, TransactionInv, FinishInv, HandlerInv, WorldInv
     DEF JobStep, RunStep
<1>3. CASE Overspend
  BY <1>3, BooksKeep DEF Overspend, apiVars, ReleaseInv, TypeOK
<1>4. CASE UNCHANGED vars
  BY <1>4, BooksKeep DEF vars, ReleaseInv, TypeOK
<1> QED BY <1>1, <1>2, <1>3, <1>4 DEF Next

-----------------------------------------------------------------------------

\* The release plane keeps its types and its invariant.
THEOREM ReleaseIsInv == Spec => []ReleaseInv
<1>1. Init => ReleaseInv
  BY ReleaseAssumption, ReleaseInitInv
<1>2. ReleaseInv /\ [Next]_vars => ReleaseInv'
  BY ReleaseNextInv
<1> QED BY <1>1, <1>2, PTL DEF Spec

\* The types, and that a job that is RUNNING has a run (process_next_job).
THEOREM ReleaseTypes == Spec => []TypeOK
  BY ReleaseIsInv, PTL DEF ReleaseInv

\* No campaign is enabled under a spend cap that is not armed (activate).
THEOREM CapArmed == Spec => []CapBeforeEnable
  BY ReleaseIsInv, PTL DEF ReleaseInv

\* A job that ended FAILED has alerted the operators (_process_release,
\* _process_release_evaluation, _process_release_recovery).
THEOREM FailedAlerted == Spec => []FailureIsAlerted
  BY ReleaseIsInv, PTL DEF ReleaseInv

-----------------------------------------------------------------------------
(* The only release that was sent.  Until its result is unknown, the       *)
(* follow-ups wait for it to be over, no run enables after that, and so a  *)
(* run that paused finds the campaigns paused when it closes the delivery. *)

Sole(g) == \A h \in Grants \ {g} : Status(Release(h)) = "ABSENT"

Uncertain(g) == Status(Release(g)) = "RECONCILE_REQUIRED"

RunsHaveRows ==
    \A j \in Jobs : At(j, "none") \/ Status(j) \in {"RUNNING", "RECONCILE_REQUIRED"}

Enabling == {"arm", "verify", "enable", "readback"}
Closes == {"decide", "closing", "close"}

StepsOfKind ==
    \A j \in Jobs : /\ run[j].step \in Enabling => j[2] = "RELEASE"
                    /\ run[j].step \in Closes => j[2] # "RELEASE"
                    /\ At(j, "close") => Ok(j)

PauseHolds ==
    \A j \in Jobs : (Ok(j) /\ run[j].step \in {"relock"} \cup Closes) => enabled = NoGrant

UnreleasedIsAlone(g) ==
    delivery = "NOT_RELEASED"
        => accepted = {} /\ \A j \in Jobs \ {Release(g)} : Status(j) = "ABSENT"

\* The run of j will not touch the platform or the delivery any more.
Over(j) == \/ run[j].step \in {"raised", "stuck", "dead"}
           \/ At(j, "finish") /\ Ok(j)

ReleasedIsOver(g) ==
    delivery # "NOT_RELEASED"
        => \/ Status(Release(g)) = "SUCCEEDED"
           \/ Status(Release(g)) = "RUNNING" /\ Over(Release(g))

Orderly(g) == /\ PauseHolds /\ UnreleasedIsAlone(g) /\ ReleasedIsOver(g)
              /\ delivery = "CLOSED" => enabled = NoGrant

ClosedInv == /\ RunsHaveRows /\ StepsOfKind
             /\ \A g \in Grants : Uncertain(g) \/ ~Sole(g) \/ Orderly(g)

LEMMA ReleaseOf ==
    ASSUME NEW j \in Jobs, j[2] = "RELEASE"
    PROVE  j[1] \in Grants /\ j = Release(j[1])
  BY DEF Jobs, Release, FollowUps

LEMMA OnlyRelease ==
    ASSUME NEW g \in Grants, NEW j \in Jobs
    PROVE  /\ Release(g) \in Jobs /\ Release(g)[2] = "RELEASE"
           /\ Sole(g) /\ j[2] = "RELEASE" /\ Status(j) # "ABSENT" => j = Release(g)
<1>1. Release(g) \in Jobs /\ Release(g)[2] = "RELEASE"
  BY DEF Jobs, Release
<1> QED BY <1>1, ReleaseOf DEF Sole

\* What a step into which j enters says of it, whoever takes it.
Fits(j, step, ok) ==
    /\ step \in Enabling => j[2] = "RELEASE"
    /\ step \in Closes => j[2] # "RELEASE"
    /\ step = "close" => ok

\* The run of j enters a step while the rows stay.
LEMMA RunStaysClosed ==
    ASSUME ReleaseInv, ClosedInv,
           NEW j \in Jobs, NEW step \in Steps, NEW ok \in BOOLEAN,
           Enter(j, step, ok), Fits(j, step, ok),
           ~At(j, "none"), UNCHANGED <<job, accepted>>,
           \/ delivery' = delivery
           \/ /\ \/ At(j, "activate") /\ delivery' = "FEED_LEARNING" /\ step = "finish" /\ ok
                 \/ At(j, "closing") /\ delivery' = "CLOSING"
                 \/ At(j, "close") /\ delivery' = "CLOSED"
              /\ DeliveryMayBecome(delivery, delivery'),
           enabled' \in {enabled, NoGrant} \/ At(j, "enable"),
           ok /\ step \in {"relock"} \cup Closes
               => \/ enabled' = NoGrant
                  \/ /\ Ok(j) /\ run[j].step \in {"relock"} \cup Closes
                     /\ enabled' = enabled,
           Status(j) = "RUNNING" /\ Over(j) => step \in {"raised", "stuck", "dead"}
    PROVE  ClosedInv'
<1>1. /\ \A k \in Jobs : k # j => run'[k] = run[k]
      /\ run'[j].step = step /\ run'[j].ok = ok
  BY DEF ReleaseInv, TypeOK, Enter
<1>2. RunsHaveRows'
  BY <1>1 DEF ClosedInv, RunsHaveRows, At, Status
<1>3. StepsOfKind'
  BY <1>1 DEF ClosedInv, StepsOfKind, Fits, At, Ok
<1>4. ASSUME NEW g \in Grants, ~Uncertain(g)', Sole(g)' PROVE Orderly(g)'
  <2> DEFINE R == Release(g)
  <2>1. ~Uncertain(g) /\ Sole(g) /\ Orderly(g) /\ R \in Jobs
    BY <1>4, OnlyRelease DEF ClosedInv, Uncertain, Sole, Status
  <2>2. j # R => Status(j) # "ABSENT" /\ delivery # "NOT_RELEASED" /\ j[2] # "RELEASE"
    <3>1. Status(j) # "ABSENT"
      BY DEF ClosedInv, RunsHaveRows
    <3> QED BY <2>1, <3>1, OnlyRelease DEF Orderly, UnreleasedIsAlone
  <2>3. Status(R) = "RUNNING" \/ j # R
    BY <2>1 DEF ClosedInv, RunsHaveRows, Uncertain
  <2>4. ASSUME delivery # "NOT_RELEASED" PROVE ~At(j, "enable") /\ (j = R => Over(j))
    <3>1. CASE j = R
      BY <2>1, <2>3, <2>4, <3>1, OnlyRelease DEF ClosedInv, RunsHaveRows, Orderly, ReleasedIsOver, Over, At
    <3>2. CASE j # R
      BY <2>2, <3>2 DEF ClosedInv, StepsOfKind, Enabling, At
    <3> QED BY <3>1, <3>2
  <2>5. delivery' # "NOT_RELEASED" \/ delivery' = delivery
    OBVIOUS
  <2>6. delivery = "CLOSED" => delivery' = "CLOSED"
    BY DEF DeliveryMayBecome, DeliveryTransitions
  <2>7. PauseHolds'
    <3> SUFFICES ASSUME NEW k \in Jobs, Ok(k)', run'[k].step \in {"relock"} \cup Closes
                 PROVE  enabled' = NoGrant
      BY DEF PauseHolds
    <3>1. CASE k = j
      BY <1>1, <2>1, <3>1 DEF Orderly, PauseHolds, Ok
    <3>2. CASE k # j
      <4>1. Ok(k) /\ run[k].step \in {"relock"} \cup Closes /\ enabled = NoGrant
        BY <1>1, <2>1, <3>2 DEF Orderly, PauseHolds, Ok
      <4>2. ~At(j, "enable")
        <5>1. At(j, "enable") => j = R /\ delivery = "NOT_RELEASED"
          BY <2>2, <2>4 DEF ClosedInv, StepsOfKind, Enabling, At
        <5>2. j = R /\ delivery = "NOT_RELEASED" => Status(k) = "ABSENT"
          BY <2>1, <3>2 DEF Orderly, UnreleasedIsAlone
        <5>3. Status(k) = "ABSENT" => At(k, "none")
          BY DEF ClosedInv, RunsHaveRows
        <5> QED BY <4>1, <5>1, <5>2, <5>3 DEF Closes, At
      <4> QED BY <4>1, <4>2
    <3> QED BY <3>1, <3>2
  <2>8. UnreleasedIsAlone(g)'
    BY <2>1, <2>5 DEF Orderly, UnreleasedIsAlone, Status
  <2>9. ReleasedIsOver(g)'
    <3>1. CASE delivery = "NOT_RELEASED" /\ delivery' # delivery
      <4>1. j = R
        BY <2>2, <3>1
      <4>2. ~At(j, "closing") /\ ~At(j, "close")
        BY <4>1, OnlyRelease DEF ClosedInv, StepsOfKind, Closes, At
      <4>3. step = "finish" /\ ok
        BY <3>1, <4>2
      <4> QED BY <1>1, <2>3, <4>1, <4>3 DEF ReleasedIsOver, Over, At, Ok, Status
    <3>2. CASE delivery # "NOT_RELEASED" /\ j = R
      <4>1. Status(j) = "RUNNING" /\ Over(j)
        BY <2>3, <2>4, <3>2
      <4> QED BY <1>1, <3>2, <4>1 DEF ReleasedIsOver, Over, Status
    <3>3. CASE delivery # "NOT_RELEASED" /\ j # R
      BY <1>1, <2>1, <3>3 DEF Orderly, ReleasedIsOver, Over, At, Ok, Status
    <3> QED BY <3>1, <3>2, <3>3, <2>5 DEF ReleasedIsOver
  <2>10. delivery' = "CLOSED" => enabled' = NoGrant
    <3>1. CASE delivery = "CLOSED"
      BY <2>1, <2>4, <3>1 DEF Orderly
    <3>2. CASE delivery # "CLOSED" /\ delivery' = "CLOSED"
      <4>1. At(j, "close") /\ ~At(j, "enable") /\ Ok(j)
        BY <3>2 DEF ClosedInv, StepsOfKind, At
      <4> QED BY <2>1, <4>1 DEF Orderly, PauseHolds, Closes, At
    <3> QED BY <3>1, <3>2
  <2> QED BY <2>7, <2>8, <2>9, <2>10 DEF Orderly
<1> QED BY <1>2, <1>3, <1>4 DEF ClosedInv

\* The row of j changes, and its run enters a step.
LEMMA RowStaysClosed ==
    ASSUME ReleaseInv, ClosedInv,
           NEW j \in Jobs, NEW s \in JobStatus \ {"ABSENT"}, Changed(j, s),
           NEW step \in Steps, NEW ok \in BOOLEAN,
           Enter(j, step, ok), Fits(j, step, ok),
           accepted' \subseteq accepted, UNCHANGED <<delivery, enabled>>,
           step # "none" => s \in {"RUNNING", "RECONCILE_REQUIRED"},
           ok /\ step \in {"relock"} \cup Closes
               => Ok(j) /\ run[j].step \in {"relock"} \cup Closes,
           Status(j) # "SUCCEEDED",
           Status(j) = "RECONCILE_REQUIRED" => s = "RECONCILE_REQUIRED",
           Status(j) = "RUNNING" /\ s # "RECONCILE_REQUIRED"
               => At(j, "finish") /\ (Ok(j) => s = "SUCCEEDED"),
           Status(j) = "ABSENT" /\ j[2] # "RELEASE"
               => j \in accepted \/ \E k \in Jobs : Status(k) = "RECONCILE_REQUIRED"
    PROVE  ClosedInv'
<1>1. /\ \A k \in Jobs : k # j => run'[k] = run[k]
      /\ run'[j].step = step /\ run'[j].ok = ok
  BY DEF ReleaseInv, TypeOK, Enter
<1>2. Status(j)' = s /\ \A k \in Jobs : k # j => Status(k)' = Status(k)
  BY DEF Changed, Status
<1>3. RunsHaveRows'
  BY <1>1, <1>2 DEF ClosedInv, RunsHaveRows, At
<1>4. StepsOfKind'
  BY <1>1 DEF ClosedInv, StepsOfKind, Fits, At, Ok
<1>5. ASSUME NEW g \in Grants, ~Uncertain(g)', Sole(g)' PROVE Orderly(g)'
  <2> DEFINE R == Release(g)
  <2>0. /\ R \in Jobs
        /\ \A h \in Grants \ {g} :
               Release(h) # j /\ Status(Release(h)) = "ABSENT"
    <3>1. \A h \in Grants : Release(h) \in Jobs
      BY OnlyRelease
    <3> QED BY <1>2, <1>5, <3>1 DEF Sole
  <2>1. ~Uncertain(g) /\ Sole(g) /\ Orderly(g) /\ R \in Jobs
        /\ (j[2] = "RELEASE" => j = R)
    <3>1. ~Uncertain(g)
      BY <1>2, <1>5, <2>0 DEF Uncertain
    <3>2. j[2] = "RELEASE" => j = R
      BY <2>0, ReleaseOf
    <3> QED BY <2>0, <3>1, <3>2 DEF ClosedInv, Sole
  <2>2. PauseHolds'
    BY <1>1, <2>1 DEF Orderly, PauseHolds, Ok
  <2>3. UnreleasedIsAlone(g)'
    <3> SUFFICES ASSUME delivery = "NOT_RELEASED"
                 PROVE  accepted' = {} /\ \A k \in Jobs \ {R} : Status(k)' = "ABSENT"
      BY DEF UnreleasedIsAlone
    <3>1. accepted = {} /\ \A k \in Jobs \ {R} : Status(k) = "ABSENT"
      BY <2>1 DEF Orderly, UnreleasedIsAlone
    <3>2. \A k \in Jobs : Status(k) # "RECONCILE_REQUIRED"
      BY <2>1, <3>1 DEF Uncertain
    <3>3. j = R
      BY <2>1, <3>1, <3>2
    <3> QED BY <1>2, <3>1, <3>3
  <2>4. ReleasedIsOver(g)'
    <3> SUFFICES ASSUME delivery # "NOT_RELEASED"
                 PROVE  \/ Status(R)' = "SUCCEEDED"
                        \/ Status(R)' = "RUNNING" /\ Over(R)'
      BY DEF ReleasedIsOver
    <3>1. Status(R) = "SUCCEEDED" \/ (Status(R) = "RUNNING" /\ Over(R))
      BY <2>1 DEF Orderly, ReleasedIsOver
    <3>2. CASE j # R
      BY <1>1, <1>2, <2>1, <3>1, <3>2 DEF Over, At, Ok
    <3>3. CASE j = R
      BY <1>2, <1>5, <3>1, <3>3 DEF Over, At, Uncertain
    <3> QED BY <3>2, <3>3
  <2> QED BY <2>1, <2>2, <2>3, <2>4 DEF Orderly
<1> QED BY <1>3, <1>4, <1>5 DEF ClosedInv

\* Neither rows nor runs, nor what they answer for, change.
LEMMA RestStaysClosed ==
    ASSUME ClosedInv, UNCHANGED <<job, run, delivery, enabled>>,
           \/ accepted' \subseteq accepted
           \/ delivery # "NOT_RELEASED"
    PROVE  ClosedInv'
  BY DEF ClosedInv, RunsHaveRows, StepsOfKind, Orderly, PauseHolds, UnreleasedIsAlone,
         ReleasedIsOver, Over, Uncertain, Sole, At, Ok, Status

LEMMA ClosedInit == ASSUME ReleaseAssumption, Init PROVE ClosedInv
<1>1. ReleaseInv
  BY ReleaseInitInv
<1>2. \A j \in Jobs : Status(j) = "ABSENT" /\ run[j] = NoRun
  BY DEF Init, Lifecycle!Init, Lifecycle!NotSent, Status
<1> QED BY <1>1, <1>2 DEF Init, NoRun, ClosedInv, RunsHaveRows, StepsOfKind, Orderly, PauseHolds,
           UnreleasedIsAlone, ReleasedIsOver, Enabling, Closes, At, Ok

\* What the API does.
LEMMA ApiStaysClosed ==
    ASSUME ReleaseInv, ClosedInv, NEW j \in Jobs,
           \/ j[2] = "RELEASE" /\ EnqueueRelease(j[1])
           \/ EnqueueEvaluation(j) \/ EnqueueRecovery(j) \/ Cancel(j) \/ Resume(j)
    PROVE  ClosedInv'
<1> DEFINE Source == j \in accepted \/ \E k \in Jobs : Status(k) = "RECONCILE_REQUIRED"
<1>1. \E s \in {"PENDING", "CANCELLED"} :
          /\ Changed(j, s) /\ Status(j) \in {"ABSENT", "PENDING", "FAILED", "CANCELLED"}
          /\ Status(j) = "ABSENT" /\ j[2] # "RELEASE" => Source
  <2>1. CASE j[2] = "RELEASE" /\ EnqueueRelease(j[1])
    <3>1. j = Release(j[1])
      BY <2>1, ReleaseOf
    <3>2. Lifecycle!Enqueue(j)
      BY <2>1, <3>1 DEF EnqueueRelease
    <3> QED BY <2>1, <3>2, JobEnqueued DEF ReleaseInv
  <2>2. CASE EnqueueEvaluation(j)
    BY <2>2, JobEnqueued DEF EnqueueEvaluation, ReleaseInv
  <2>3. CASE EnqueueRecovery(j)
    BY <2>3, JobEnqueued DEF EnqueueRecovery, ReleaseInv
  <2>4. CASE Cancel(j)
    BY <2>4, JobCancelled DEF Cancel, ReleaseInv
  <2>5. CASE Resume(j)
    BY <2>5, JobResumed DEF Resume, ReleaseInv
  <2> QED BY <2>1, <2>2, <2>3, <2>4, <2>5
<1>2. PICK s \in {"PENDING", "CANCELLED"} :
          /\ Changed(j, s) /\ Status(j) \in {"ABSENT", "PENDING", "FAILED", "CANCELLED"}
          /\ Status(j) = "ABSENT" /\ j[2] # "RELEASE" => Source
  BY <1>1
<1>3. UNCHANGED <<run, delivery, enabled>> /\ accepted' \subseteq accepted
  BY DEF EnqueueRelease, EnqueueEvaluation, EnqueueRecovery, Cancel, Resume, planeVars
<1>4. At(j, "none")
  BY <1>2 DEF ClosedInv, RunsHaveRows
<1>5. Enter(j, "none", run[j].ok) /\ run[j].ok \in BOOLEAN
  BY <1>3, <1>4 DEF Enter, ReleaseInv, TypeOK, At
<1>6. Fits(j, "none", run[j].ok) /\ s \in JobStatus /\ "none" \in Steps
  BY DEF Fits, Enabling, Closes, JobStatus, Steps
<1> QED BY <1>2, <1>3, <1>5, <1>6, RowStaysClosed DEF Closes

\* A step of a run that neither moves the delivery nor enables.
LEMMA QuietStaysClosed ==
    ASSUME ReleaseInv, ClosedInv,
           NEW j \in Jobs, NEW step \in Steps, NEW ok \in BOOLEAN,
           Enter(j, step, ok), Fits(j, step, ok), ~At(j, "none"),
           UNCHANGED <<job, accepted, delivery>>,
           enabled' \in {enabled, NoGrant},
           ok /\ step \in {"relock"} \cup Closes
               => \/ enabled' = NoGrant
                  \/ /\ Ok(j) /\ run[j].step \in {"relock"} \cup Closes
                     /\ enabled' = enabled,
           Status(j) = "RUNNING" /\ Over(j) => step \in {"raised", "stuck", "dead"}
    PROVE  ClosedInv'
  BY RunStaysClosed

\* The requests to the platform.
LEMMA RequestStaysClosed ==
    ASSUME ReleaseInv, ClosedInv, NEW j \in Jobs,
           \/ Arm(j) \/ Verify(j) \/ Enable(j) \/ Readback(j) \/ Measure(j)
           \/ Pause(j) \/ Relock(j)
    PROVE  ClosedInv'
<1> USE DEF Steps, Fits, Enabling, Closes, At
<1>0. UNCHANGED <<job, accepted, delivery>>
  BY DEF Arm, Verify, Enable, Readback, Measure, Pause, Relock, apiVars
<1>1. CASE Arm(j)
  <2>1. PICK step \in {"verify", "raised"} : Enter(j, step, FALSE)
    BY <1>1 DEF Arm
  <2> QED BY <1>0, <1>1, <2>1, QuietStaysClosed DEF Arm, Over, ClosedInv, StepsOfKind
<1>2. CASE Verify(j)
  <2>1. PICK step \in {"enable", "raised"} : Enter(j, step, FALSE)
    BY <1>2 DEF Verify
  <2> QED BY <1>0, <1>2, <2>1, QuietStaysClosed DEF Verify, Over, ClosedInv, StepsOfKind
<1>3. CASE Enable(j)
  <2>1. PICK step \in {"readback", "pause"} : Enter(j, step, FALSE)
    BY <1>3 DEF Enable
  <2>2. At(j, "enable")
    BY <1>3 DEF Enable
  <2> QED BY <1>0, <2>1, <2>2, RunStaysClosed DEF Over, ClosedInv, StepsOfKind
<1>4. CASE Readback(j)
  <2>1. PICK step \in {"activate", "pause"} : Enter(j, step, step = "activate")
    BY <1>4 DEF Readback
  <2> QED BY <1>0, <1>4, <2>1, QuietStaysClosed DEF Readback, Over
<1>5. CASE Measure(j)
  <2>1. PICK step \in {"finish", "pause", "raised"} : Enter(j, step, step = "finish")
    BY <1>5 DEF Measure
  <2> QED BY <1>0, <1>5, <2>1, QuietStaysClosed DEF Measure, Over
<1>6. CASE Pause(j)
  <2>1. PICK ok \in BOOLEAN : /\ Enter(j, "relock", ok)
                              /\ ok => enabled' = NoGrant
                              /\ enabled' \in {enabled, NoGrant}
    BY <1>6 DEF Pause
  <2> QED BY <1>0, <1>6, <2>1, QuietStaysClosed DEF Pause, Over
<1>7. CASE Relock(j)
  <2>1. Ok(j) \in BOOLEAN
    BY DEF ReleaseInv, TypeOK, Ok
  <2>2. \E step \in {"alert", "closing", "decide"}, ok \in BOOLEAN :
            /\ Enter(j, step, ok)
            /\ ok => Ok(j)
            /\ step # "alert" => j[2] # "RELEASE"
    <3>1. PICK locked \in BOOLEAN :
             CASE j[2] = "RELEASE" -> Enter(j, "alert", FALSE)
               [] j[2] = "RELEASE_EVALUATE" -> Enter(j, "closing", Ok(j) /\ locked)
               [] j[2] = "RELEASE_RECOVERY" -> Enter(j, "decide", Ok(j) /\ locked)
      BY <1>7 DEF Relock
    <3>2. (Ok(j) /\ locked) \in BOOLEAN
      OBVIOUS
    <3> QED BY <3>1, <3>2, JobParts DEF FollowUps
  <2>3. PICK step \in {"alert", "closing", "decide"}, ok \in BOOLEAN :
            /\ Enter(j, step, ok)
            /\ ok => Ok(j)
            /\ step # "alert" => j[2] # "RELEASE"
    BY <2>2
  <2> QED BY <1>0, <1>7, <2>3, QuietStaysClosed DEF Relock, Over
<1> QED BY <1>1, <1>2, <1>3, <1>4, <1>5, <1>6, <1>7

\* The transactions of a run.
LEMMA TransactionStaysClosed ==
    ASSUME ReleaseInv, ClosedInv, NEW j \in Jobs,
           Activate(j) \/ Decide(j) \/ Closing(j) \/ Close(j) \/ Alert(j)
    PROVE  ClosedInv'
<1> USE DEF Steps, Fits, Enabling, Closes, At
<1>0. /\ UNCHANGED <<job, accepted, enabled>> /\ Ok(j) \in BOOLEAN
  BY DEF Activate, Decide, Closing, Close, Alert, apiVars, ReleaseInv, TypeOK, Ok
<1>1. CASE Activate(j)
  <2>1. Ok(j) /\ run[j].step = "activate"
    BY <1>1 DEF Activate, ReleaseInv, ActivatesReleased
  <2>2. CASE DeliveryMayBecome(delivery, "FEED_LEARNING")
    <3>1. Enter(j, "finish", Ok(j)) /\ delivery' = "FEED_LEARNING"
      BY <1>1, <2>2 DEF Activate, MoveDelivery
    <3> QED BY <1>0, <2>1, <2>2, <3>1, RunStaysClosed DEF Over
  <2>3. CASE ~DeliveryMayBecome(delivery, "FEED_LEARNING")
    <3>1. Enter(j, "raised", Ok(j)) /\ delivery' = delivery
      BY <1>1, <2>3 DEF Activate, MoveDelivery
    <3> QED BY <1>0, <2>1, <3>1, QuietStaysClosed DEF Over
  <2> QED BY <2>2, <2>3
<1>2. CASE Decide(j)
  <2>1. \E step \in {"closing", "close", "finish", "alert"} :
            Enter(j, step, Ok(j)) /\ (step = "close" => Ok(j))
    <3>1. Enter(j, CASE delivery \in Active -> "closing"
                     [] delivery = "NOT_RELEASED" /\ Ok(j) -> "close"
                     [] OTHER -> IF Ok(j) THEN "finish" ELSE "alert",
                Ok(j))
      BY <1>2 DEF Decide
    <3>2. CASE delivery \in Active
      BY <3>1, <3>2 DEF Active
    <3>3. CASE delivery = "NOT_RELEASED" /\ Ok(j)
      BY <3>1, <3>3 DEF Active
    <3>4. CASE delivery \notin Active /\ ~(delivery = "NOT_RELEASED" /\ Ok(j))
      BY <3>1, <3>4
    <3> QED BY <3>2, <3>3, <3>4
  <2>2. PICK step \in {"closing", "close", "finish", "alert"} :
            Enter(j, step, Ok(j)) /\ (step = "close" => Ok(j))
    BY <2>1
  <2>3. run[j].step = "decide" /\ j[2] # "RELEASE" /\ delivery' = delivery
    BY <1>2 DEF Decide, ClosedInv, StepsOfKind
  <2> QED BY <1>0, <2>2, <2>3, QuietStaysClosed DEF Over
<1>3. CASE Closing(j)
  <2>1. \E next \in {"close", "finish", "alert"} :
            MoveDelivery(j, "CLOSING", next) /\ (next = "close" => Ok(j))
    BY <1>3 DEF Closing
  <2>2. PICK next \in {"close", "finish", "alert"} :
            MoveDelivery(j, "CLOSING", next) /\ (next = "close" => Ok(j))
    BY <2>1
  <2>3. run[j].step = "closing" /\ j[2] # "RELEASE"
    BY <1>3 DEF Closing, ClosedInv, StepsOfKind
  <2>4. CASE DeliveryMayBecome(delivery, "CLOSING")
    <3>1. Enter(j, next, Ok(j)) /\ delivery' = "CLOSING"
      BY <2>2, <2>4 DEF MoveDelivery
    <3> QED BY <1>0, <2>2, <2>3, <2>4, <3>1, RunStaysClosed DEF Over
  <2>5. CASE ~DeliveryMayBecome(delivery, "CLOSING")
    <3>1. Enter(j, "raised", Ok(j)) /\ delivery' = delivery
      BY <2>2, <2>5 DEF MoveDelivery
    <3> QED BY <1>0, <2>3, <3>1, QuietStaysClosed DEF Over
  <2> QED BY <2>4, <2>5
<1>4. CASE Close(j)
  <2>1. run[j].step = "close" /\ MoveDelivery(j, "CLOSED", "finish")
    BY <1>4 DEF Close
  <2>2. CASE DeliveryMayBecome(delivery, "CLOSED")
    <3>1. Enter(j, "finish", Ok(j)) /\ delivery' = "CLOSED"
      BY <2>1, <2>2 DEF MoveDelivery
    <3> QED BY <1>0, <2>1, <2>2, <3>1, RunStaysClosed DEF Over
  <2>3. CASE ~DeliveryMayBecome(delivery, "CLOSED")
    <3>1. Enter(j, "raised", Ok(j)) /\ delivery' = delivery
      BY <2>1, <2>3 DEF MoveDelivery
    <3> QED BY <1>0, <2>1, <3>1, QuietStaysClosed DEF Over
  <2> QED BY <2>2, <2>3
<1>5. CASE Alert(j)
  <2>1. run[j].step = "alert" /\ Enter(j, "finish", Ok(j)) /\ delivery' = delivery
    BY <1>5 DEF Alert
  <2> QED BY <1>0, <2>1, QuietStaysClosed DEF Over
<1> QED BY <1>1, <1>2, <1>3, <1>4, <1>5

\* The verdicts, and what the queue and the world do to a run.
LEMMA RowChangesStayClosed ==
    ASSUME ReleaseInv, ClosedInv, NEW j \in Jobs,
           Finish(j) \/ Raised(j) \/ Claim(j) \/ Sweep(j)
    PROVE  ClosedInv'
<1> USE DEF Steps, Fits, Enabling, Closes, At
<1>0. /\ UNCHANGED <<accepted, delivery, enabled>>
      /\ Ok(j) \in BOOLEAN /\ run[j].step \in Steps
      /\ Leave(j) => Enter(j, "none", FALSE)
      /\ {"RUNNING", "RECONCILE_REQUIRED", "SUCCEEDED", "FAILED"} \subseteq JobStatus
  BY DEF Finish, Raised, Claim, Sweep, apiVars, ReleaseInv, TypeOK, Ok, Leave, Enter,
         NoRun, JobStatus
<1>1. ASSUME Status(j) # "RUNNING", UNCHANGED job, Leave(j), run[j].step # "none"
      PROVE  ClosedInv'
  BY <1>0, <1>1, QuietStaysClosed
<1>2. CASE Finish(j) /\ ~(Status(j) # "RUNNING" /\ UNCHANGED job)
  <2>1. PICK s \in {"SUCCEEDED", "FAILED"} :
            Lifecycle!End(j, s) /\ (Ok(j) => s = "SUCCEEDED")
    BY <1>2 DEF Finish
  <2>2. Changed(j, s) /\ Status(j) = "RUNNING"
    BY <1>0, <2>1, JobEnded DEF ReleaseInv
  <2>3. Enter(j, "none", FALSE) /\ run[j].step = "finish"
    BY <1>0, <1>2 DEF Finish
  <2> QED BY <1>0, <2>1, <2>2, <2>3, RowStaysClosed
<1>3. CASE Raised(j) /\ ~(Status(j) # "RUNNING" /\ UNCHANGED job)
  <2>1. Changed(j, "RECONCILE_REQUIRED") /\ Status(j) = "RUNNING"
    BY <1>0, <1>3, JobEnded DEF ReleaseInv, Raised
  <2>2. Enter(j, "alarm", FALSE)
    BY <1>3 DEF Raised
  <2> QED BY <1>0, <2>1, <2>2, RowStaysClosed
<1>4. CASE Claim(j)
  <2>1. Changed(j, "RUNNING")
    BY <1>4, JobStarted DEF Claim, ReleaseInv
  <2>2. Status(j) = "PENDING"
    BY <1>4 DEF Claim, Lifecycle!Start, Lifecycle!MayStart, ReleaseInv, TypeOK, Status,
                JobStatus
  <2>3. FirstStep[j[2]] = IF j[2] = "RELEASE" THEN "arm"
                          ELSE IF j[2] = "RELEASE_EVALUATE" THEN "measure" ELSE "pause"
    BY JobParts DEF FirstStep, FollowUps
  <2>4. Enter(j, FirstStep[j[2]], FALSE)
    BY <1>4 DEF Claim
  <2> QED BY <1>0, <2>1, <2>2, <2>3, <2>4, RowStaysClosed
<1>5. CASE Sweep(j)
  <2>1. Changed(j, "RECONCILE_REQUIRED") /\ Status(j) = "RUNNING"
    BY <1>5, JobSwept DEF Sweep, ReleaseInv
  <2>2. CASE run[j].step \in {"dead", "stuck"}
    BY <1>0, <1>5, <2>1, <2>2, RowStaysClosed DEF Sweep
  <2>3. CASE run[j].step \notin {"dead", "stuck"}
    <3>1. Enter(j, run[j].step, Ok(j))
      BY <1>5, <2>3 DEF Sweep, Enter, ReleaseInv, TypeOK, Ok
    <3>2. Fits(j, run[j].step, Ok(j))
      BY DEF ClosedInv, StepsOfKind
    <3> QED BY <1>0, <2>1, <3>1, <3>2, RowStaysClosed
  <2> QED BY <2>2, <2>3
<1>6. CASE /\ Finish(j) \/ Raised(j)
           /\ Status(j) # "RUNNING" /\ UNCHANGED job
  BY <1>1, <1>6 DEF Finish, Raised, Lifecycle!End, Status
<1> QED BY <1>2, <1>3, <1>4, <1>5, <1>6

LEMMA FailureStaysClosed ==
    ASSUME ReleaseInv, ClosedInv, NEW j \in Jobs,
           Alarm(j) \/ Refused(j) \/ Crash(j)
    PROVE  ClosedInv'
<1> USE DEF Steps, Fits, Enabling, Closes, At
<1>0. /\ UNCHANGED <<job, accepted, delivery, enabled>>
      /\ Ok(j) \in BOOLEAN /\ run[j].step # "none"
      /\ Leave(j) => Enter(j, "none", FALSE)
  BY DEF Alarm, Refused, Crash, apiVars, ReleaseInv, TypeOK, Ok, Leave, Enter, NoRun
<1>1. CASE Enter(j, "raised", Ok(j)) \/ Enter(j, "stuck", FALSE) \/ Enter(j, "dead", FALSE)
  BY <1>0, <1>1, QuietStaysClosed
<1>2. CASE Leave(j) /\ (Status(j) # "RUNNING" \/ At(j, "alarm"))
  BY <1>0, <1>2, QuietStaysClosed DEF Over
<1> QED BY <1>1, <1>2 DEF Alarm, Refused, Crash

LEMMA ClosedNext == ASSUME ReleaseInv, ClosedInv, [Next]_vars PROVE ClosedInv'
<1>1. CASE \E g \in Grants : IssueGrant(g) \/ RevokeGrant(g)
  BY <1>1, RestStaysClosed DEF IssueGrant, RevokeGrant, planeVars
<1>2. ASSUME NEW g \in Grants, EnqueueRelease(g) PROVE ClosedInv'
  <2>1. PICK j \in Jobs : j = Release(g)
    BY DEF Jobs
  <2> QED BY <1>2, <2>1, ApiStaysClosed DEF Release
<1>3. ASSUME NEW j \in Jobs, AcceptEvaluation(j) PROVE ClosedInv'
  BY <1>3, RestStaysClosed DEF AcceptEvaluation, planeVars, Active
<1>4. ASSUME NEW j \in Jobs, JobStep(j), ~AcceptEvaluation(j) PROVE ClosedInv'
  BY <1>4, ApiStaysClosed, RequestStaysClosed, TransactionStaysClosed,
     RowChangesStayClosed, FailureStaysClosed DEF JobStep, RunStep
<1>5. CASE Overspend
  BY <1>5, RestStaysClosed DEF Overspend, apiVars
<1>6. CASE UNCHANGED vars
  BY <1>6, RestStaysClosed DEF vars
<1> QED BY <1>1, <1>2, <1>3, <1>4, <1>5, <1>6 DEF Next

\* Campaigns that run under a closed delivery belong to a release that waits
\* for reconciliation, or to one of several that were sent
\* (_process_release_recovery, transition_delivery): whatever leases lapse, a
\* worker whose job is not given up never enables what a follow-up of the only
\* release has paused and closed.
THEOREM ClosedPaused == Spec => []ClosedIsPaused
<1>1. Init => ReleaseInv /\ ClosedInv
  BY ReleaseAssumption, ReleaseInitInv, ClosedInit
<1>2. ReleaseInv /\ ClosedInv /\ [Next]_vars => (ReleaseInv /\ ClosedInv)'
  BY ReleaseNextInv, ClosedNext
<1>3. ReleaseInv /\ ClosedInv => ClosedIsPaused
  BY DEF ReleaseInv, TypeOK, ClosedInv, Orderly, Uncertain, Sole, ClosedIsPaused
<1> QED BY <1>1, <1>2, <1>3, PTL DEF Spec

-----------------------------------------------------------------------------
(* Several releases may be sent.  The delivery leaves NOT_RELEASED once,   *)
(* so that one of them activates it.                                       *)

\* The release has activated the delivery and will report it, or has.
Activated(j) == Status(j) = "SUCCEEDED" \/ (At(j, "finish") /\ Ok(j))

Elsewhere == {"measure", "decide", "closing", "close"}

\* A release reports a success only after its activation.
ReleaseSteps ==
    \A j \in Of("RELEASE") : /\ run[j].step \notin Elsewhere
                             /\ ~(At(j, "alert") /\ Ok(j))

OnceActivated ==
    /\ \A i, j \in Of("RELEASE") : Activated(i) /\ Activated(j) => i = j
    /\ delivery = "NOT_RELEASED" => \A j \in Of("RELEASE") : ~Activated(j)

OnceInv == ReleaseSteps /\ OnceActivated

\* A step of j keeps the invariant if j counts as activated only when it did, or
\* when the delivery leaves NOT_RELEASED now.
LEMMA StepKeepsOnce ==
    ASSUME ReleaseInv, OnceInv, NEW j \in Jobs,
           \A k \in Jobs \ {j} : run'[k] = run[k] /\ job'[k] = job[k],
           delivery' # delivery => delivery' # "NOT_RELEASED",
           j[2] = "RELEASE" =>
               /\ run'[j].step \notin Elsewhere
               /\ ~(run'[j].step = "alert" /\ run'[j].ok)
               /\ Activated(j)' => \/ Activated(j)
                                   \/ delivery = "NOT_RELEASED" /\ delivery' # delivery
    PROVE  OnceInv'
<1>1. \A k \in Of("RELEASE") \ {j} : Activated(k)' <=> Activated(k)
  BY DEF Of, Activated, Status, At, Ok
<1>2. ReleaseSteps'
  BY DEF OnceInv, ReleaseSteps, Of, At, Ok
<1>3. OnceActivated'
  BY <1>1 DEF OnceInv, OnceActivated, Of
<1> QED BY <1>2, <1>3 DEF OnceInv

\* What entering a step leaves as it was.
LEMMA EnterKeeps ==
    ASSUME ReleaseInv, NEW j \in Jobs, NEW step, NEW ok, Enter(j, step, ok)
    PROVE  /\ \A k \in Jobs \ {j} : run'[k] = run[k]
           /\ run'[j].step = step /\ run'[j].ok = ok
  BY DEF ReleaseInv, TypeOK, Enter

LEMMA RowsKept ==
    ASSUME ReleaseInv, NEW j \in Jobs, NEW s \in JobStatus, Changed(j, s)
    PROVE  (\A k \in Jobs \ {j} : job'[k] = job[k]) /\ Status(j)' = s
  BY DEF Changed, Status

\* The run goes on and the row stays: only an activation may end in a success.
LEMMA GoesOnOnce ==
    ASSUME ReleaseInv, OnceInv, NEW j \in Jobs, NEW step, NEW ok, Enter(j, step, ok),
           UNCHANGED job,
           delivery' # delivery => delivery' # "NOT_RELEASED",
           j[2] = "RELEASE" =>
               /\ step \notin Elsewhere
               /\ ~(step = "alert" /\ ok)
               /\ step = "finish" /\ ok =>
                      delivery = "NOT_RELEASED" /\ delivery' # delivery
    PROVE  OnceInv'
<1>1. /\ \A k \in Jobs \ {j} : run'[k] = run[k] /\ job'[k] = job[k]
      /\ run'[j].step = step /\ run'[j].ok = ok
  BY EnterKeeps
<1>2. Activated(j)' => Activated(j) \/ (step = "finish" /\ ok)
  BY <1>1 DEF Activated, Status, At, Ok
<1> QED BY <1>1, <1>2, StepKeepsOnce

LEMMA RunKeepsOnce ==
    ASSUME ReleaseInv, OnceInv, NEW j \in Jobs,
           \/ Arm(j) \/ Verify(j) \/ Enable(j) \/ Readback(j) \/ Measure(j)
           \/ Pause(j) \/ Relock(j) \/ Decide(j) \/ Alert(j) \/ Alarm(j)
           \/ Refused(j) \/ Crash(j)
    PROVE  OnceInv'
<1> USE DEF Elsewhere
<1>0. UNCHANGED job /\ delivery' = delivery
  BY DEF Arm, Verify, Enable, Readback, Measure, Pause, Relock, Decide, Alert, Alarm,
         Refused, Crash, apiVars
<1>1. ASSUME j[2] = "RELEASE"
      PROVE  /\ run[j].step \notin Elsewhere
             /\ ~(At(j, "alert") /\ Ok(j))
  BY <1>1 DEF OnceInv, ReleaseSteps, Of, At
<1>2. Leave(j) => Enter(j, "none", FALSE)
  BY DEF Leave, Enter, NoRun
<1>3. CASE \/ Arm(j) \/ Verify(j) \/ Enable(j) \/ Readback(j) \/ Pause(j)
           \/ Alarm(j) \/ Refused(j) \/ Crash(j)
  <2>1. \E step \in {"verify", "raised", "enable", "readback", "pause", "activate",
                     "relock", "none", "stuck", "dead"}, ok \in {TRUE, FALSE, Ok(j)} :
            Enter(j, step, ok)
    BY <1>2, <1>3 DEF Arm, Verify, Enable, Readback, Pause, Alarm, Refused, Crash
  <2> QED BY <1>0, <2>1, GoesOnOnce
<1>4. CASE Measure(j) \/ Decide(j)
  <2>1. j[2] # "RELEASE"
    BY <1>1, <1>4 DEF Measure, Decide, At
  <2>2. \E step, ok : Enter(j, step, ok)
    BY <1>4 DEF Measure, Decide
  <2> QED BY <1>0, <2>1, <2>2, GoesOnOnce
<1>5. CASE Relock(j)
  <2>1. CASE j[2] = "RELEASE"
    <3>1. Enter(j, "alert", FALSE)
      BY <1>5, <2>1 DEF Relock
    <3> QED BY <1>0, <3>1, GoesOnOnce
  <2>2. CASE j[2] # "RELEASE"
    <3>1. \E step, ok : Enter(j, step, ok)
      BY <1>5, <2>2, JobParts DEF Relock, FollowUps
    <3> QED BY <1>0, <2>2, <3>1, GoesOnOnce
  <2> QED BY <2>1, <2>2
<1>6. CASE Alert(j)
  <2>1. Enter(j, "finish", Ok(j)) /\ (j[2] = "RELEASE" => ~Ok(j))
    BY <1>1, <1>6 DEF Alert
  <2> QED BY <1>0, <2>1, GoesOnOnce
<1> QED BY <1>3, <1>4, <1>5, <1>6

LEMMA DeliveryKeepsOnce ==
    ASSUME ReleaseInv, OnceInv, NEW j \in Jobs, Activate(j) \/ Closing(j) \/ Close(j)
    PROVE  OnceInv'
<1>0. UNCHANGED job
  BY DEF Activate, Closing, Close
<1>1. CASE Activate(j)
  <2>1. CASE DeliveryMayBecome(delivery, "FEED_LEARNING")
    <3>1. Enter(j, "finish", Ok(j)) /\ delivery' = "FEED_LEARNING"
      BY <1>1, <2>1 DEF Activate, MoveDelivery
    <3>2. delivery = "NOT_RELEASED"
      BY <2>1 DEF DeliveryMayBecome, DeliveryTransitions, ReleaseInv, TypeOK, DeliveryState
    <3> QED BY <1>0, <3>1, <3>2, GoesOnOnce DEF Elsewhere
  <2>2. CASE ~DeliveryMayBecome(delivery, "FEED_LEARNING")
    <3>1. Enter(j, "raised", Ok(j)) /\ delivery' = delivery
      BY <1>1, <2>2 DEF Activate, MoveDelivery
    <3> QED BY <1>0, <3>1, GoesOnOnce DEF Elsewhere
  <2> QED BY <2>1, <2>2
<1>2. CASE Closing(j) \/ Close(j)
  <2>1. j[2] # "RELEASE"
    BY <1>2 DEF Closing, Close, At, OnceInv, ReleaseSteps, Of, Elsewhere
  <2>2. /\ \E step, ok : Enter(j, step, ok)
        /\ delivery' # delivery => delivery' # "NOT_RELEASED"
    BY <1>2 DEF Closing, Close, MoveDelivery
  <2> QED BY <1>0, <2>1, <2>2, GoesOnOnce
<1> QED BY <1>1, <1>2

\* A verdict, a claim or a sweep.
LEMMA RowKeepsOnce ==
    ASSUME ReleaseInv, OnceInv, NEW j \in Jobs,
           Finish(j) \/ Raised(j) \/ Claim(j) \/ Sweep(j)
    PROVE  OnceInv'
<1> USE DEF Elsewhere
<1>0. /\ delivery' = delivery /\ (Leave(j) => Enter(j, "none", FALSE))
      /\ {"RUNNING", "RECONCILE_REQUIRED", "SUCCEEDED", "FAILED"} \subseteq JobStatus
  BY DEF Finish, Raised, Claim, Sweep, apiVars, Leave, Enter, NoRun, JobStatus
<1>1. ASSUME NEW s \in JobStatus, Changed(j, s), NEW step, NEW ok, Enter(j, step, ok),
             s = "SUCCEEDED" => Activated(j), ~(step \in {"alert", "finish"} /\ ok),
             j[2] = "RELEASE" => step \notin Elsewhere
      PROVE  OnceInv'
  <2>1. /\ \A k \in Jobs \ {j} : run'[k] = run[k] /\ job'[k] = job[k]
        /\ run'[j].step = step /\ run'[j].ok = ok /\ Status(j)' = s
    BY <1>1, EnterKeeps, RowsKept
  <2>2. Activated(j)' => Activated(j)
    BY <1>1, <2>1 DEF Activated, At, Ok
  <2> QED BY <1>0, <1>1, <2>1, <2>2, StepKeepsOnce
<1>2. CASE Finish(j)
  <2>1. Enter(j, "none", FALSE) /\ At(j, "finish")
    BY <1>0, <1>2 DEF Finish
  <2>2. CASE UNCHANGED job
    BY <1>0, <2>1, <2>2, GoesOnOnce
  <2>3. CASE ~UNCHANGED job
    <3>1. PICK s \in {"SUCCEEDED", "FAILED"} :
              Lifecycle!End(j, s) /\ (s = "SUCCEEDED" => Ok(j))
      BY <1>2, <2>3 DEF Finish
    <3>2. Changed(j, s)
      BY <1>0, <3>1, JobEnded DEF ReleaseInv
    <3> QED BY <1>0, <1>1, <2>1, <3>1, <3>2 DEF Activated
  <2> QED BY <2>2, <2>3
<1>3. CASE Raised(j)
  <2>1. CASE UNCHANGED job
    <3>1. \E step \in {"alarm", "none"} : Enter(j, step, FALSE)
      BY <1>0, <1>3 DEF Raised
    <3> QED BY <1>0, <2>1, <3>1, GoesOnOnce
  <2>2. CASE ~UNCHANGED job
    <3>1. Changed(j, "RECONCILE_REQUIRED") /\ Enter(j, "alarm", FALSE)
      BY <1>0, <1>3, <2>2, JobEnded DEF ReleaseInv, Raised
    <3> QED BY <1>0, <1>1, <3>1
  <2> QED BY <2>1, <2>2
<1>4. CASE Claim(j)
  <2>1. Changed(j, "RUNNING") /\ Enter(j, FirstStep[j[2]], FALSE)
    BY <1>4, JobStarted DEF Claim, ReleaseInv
  <2>2. j[2] = "RELEASE" => FirstStep[j[2]] = "arm"
    BY DEF FirstStep
  <2> QED BY <1>0, <1>1, <2>1, <2>2
<1>5. CASE Sweep(j)
  <2>1. Changed(j, "RECONCILE_REQUIRED")
    BY <1>5, JobSwept DEF Sweep, ReleaseInv
  <2>2. CASE run[j].step \in {"dead", "stuck"}
    <3>1. Enter(j, "none", FALSE)
      BY <1>0, <1>5, <2>2 DEF Sweep
    <3> QED BY <1>0, <1>1, <2>1, <3>1
  <2>3. CASE run[j].step \notin {"dead", "stuck"}
    <3>1. run' = run
      BY <1>5, <2>3 DEF Sweep
    <3>2. (\A k \in Jobs \ {j} : job'[k] = job[k]) /\ Status(j)' = "RECONCILE_REQUIRED"
      BY <1>0, <2>1, RowsKept
    <3>3. Activated(j)' => Activated(j)
      BY <3>1, <3>2 DEF Activated, At, Ok
    <3>4. j[2] = "RELEASE" => /\ run'[j].step \notin Elsewhere
                              /\ ~(run'[j].step = "alert" /\ run'[j].ok)
      BY <3>1 DEF OnceInv, ReleaseSteps, Of, At, Ok
    <3> QED BY <1>0, <3>1, <3>2, <3>3, <3>4, StepKeepsOnce
  <2> QED BY <2>2, <2>3
<1> QED BY <1>2, <1>3, <1>4, <1>5

LEMMA ApiKeepsOnce ==
    ASSUME ReleaseInv, OnceInv, NEW j \in Jobs,
           \/ j[2] = "RELEASE" /\ EnqueueRelease(j[1])
           \/ AcceptEvaluation(j) \/ EnqueueEvaluation(j) \/ EnqueueRecovery(j)
           \/ Cancel(j) \/ Resume(j)
    PROVE  OnceInv'
<1>1. UNCHANGED <<run, delivery>>
  BY DEF EnqueueRelease, AcceptEvaluation, EnqueueEvaluation, EnqueueRecovery, Cancel,
         Resume, planeVars
<1>2. UNCHANGED job \/ Changed(j, "PENDING") \/ Changed(j, "CANCELLED")
  BY ReleaseOf, JobEnqueued, JobCancelled, JobResumed
     DEF EnqueueRelease, AcceptEvaluation, EnqueueEvaluation, EnqueueRecovery, Cancel,
         Resume, ReleaseInv
<1>3. /\ \A k \in Jobs \ {j} : job'[k] = job[k]
      /\ job'[j] = job[j] \/ Status(j)' \in {"PENDING", "CANCELLED"}
  BY <1>2, RowsKept DEF JobStatus
<1>4. Activated(j)' => Activated(j)
  BY <1>1, <1>3 DEF Activated, Status, At, Ok
<1>5. j[2] = "RELEASE" => /\ run'[j].step \notin Elsewhere
                          /\ ~(run'[j].step = "alert" /\ run'[j].ok)
  BY <1>1 DEF OnceInv, ReleaseSteps, Of, At, Ok
<1> QED BY <1>1, <1>3, <1>4, <1>5, StepKeepsOnce

LEMMA OnceNext == ASSUME ReleaseInv, OnceInv, [Next]_vars PROVE OnceInv'
<1>1. ASSUME UNCHANGED <<job, run, delivery>> PROVE OnceInv'
  BY <1>1 DEF OnceInv, ReleaseSteps, OnceActivated, Activated, Status, At, Ok
<1>2. CASE \E g \in Grants : IssueGrant(g) \/ RevokeGrant(g)
  BY <1>1, <1>2 DEF IssueGrant, RevokeGrant, planeVars
<1>3. ASSUME NEW g \in Grants, EnqueueRelease(g) PROVE OnceInv'
  <2>1. Release(g) \in Jobs /\ Release(g)[1] = g /\ Release(g)[2] = "RELEASE"
    BY DEF Jobs, Release
  <2> QED BY <1>3, <2>1, ApiKeepsOnce
<1>4. ASSUME NEW j \in Jobs, JobStep(j) PROVE OnceInv'
  BY <1>4, ApiKeepsOnce, RunKeepsOnce, DeliveryKeepsOnce, RowKeepsOnce DEF JobStep, RunStep
<1>5. CASE Overspend \/ UNCHANGED vars
  BY <1>1, <1>5 DEF Overspend, vars
<1> QED BY <1>2, <1>3, <1>4, <1>5 DEF Next

\* At most one release of a project is ever reported as successful, however
\* many grants are issued and whatever stalls, is refused, resumed or dies
\* (_process_release, transition_delivery).
THEOREM OneSucceeds == Spec => []OneReleaseSucceeds
<1>1. Init => ReleaseInv /\ OnceInv
  <2>1. ASSUME Init PROVE OnceInv
    <3>1. \A j \in Jobs : Status(j) = "ABSENT" /\ run[j] = NoRun
      BY <2>1 DEF Init, Lifecycle!Init, Lifecycle!NotSent, Status
    <3> QED BY <3>1 DEF OnceInv, ReleaseSteps, OnceActivated, Activated, NoRun, Of,
                        Elsewhere, At, Ok
  <2> QED BY <2>1, ReleaseAssumption, ReleaseInitInv
<1>2. ReleaseInv /\ OnceInv /\ [Next]_vars => (ReleaseInv /\ OnceInv)'
  BY ReleaseNextInv, OnceNext
<1>3. OnceInv => OneReleaseSucceeds
  <2>1. \A g \in Grants : Release(g) \in Of("RELEASE")
    BY DEF Of, Jobs, Release
  <2>2. \A g, h \in Grants : Release(g) = Release(h) => g = h
    BY DEF Release
  <2> QED BY <2>1, <2>2 DEF OnceInv, OnceActivated, Activated, OneReleaseSucceeds
<1> QED BY <1>1, <1>2, <1>3, PTL DEF Spec

=============================================================================
