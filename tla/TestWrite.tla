----------------------------- MODULE TestWrite ------------------------------
(***************************************************************************)
(* The write control plane of one confirmed project: approvers issue and   *)
(* revoke its grants, executors consume them, workers run the resulting    *)
(* external writes and their reconciliations on the job queue.  A TEST     *)
(* project executes a test write; a PRODUCTION project creates its paused  *)
(* campaigns by handlers of the same shape with other states.              *)
(*                                                                         *)
(* Every handler is split where the code ends a transaction, so that other *)
(* handlers, workers and crashes interleave there; what a handler read     *)
(* before stays in its local state.  The jobs are pairs <<g, n>>: the      *)
(* write of grant g (n = 0) and the RECONCILE job whose source is          *)
(* <<g, n - 1>>.  All grants authorise the same plan.                      *)
(***************************************************************************)
EXTENDS StateSurfaces, JobTable, EngineOutcomes

CONSTANTS Production,      \* is the project's advertiser a PRODUCTION one?
          Grants,          \* the grants approvers may issue
          Requests,        \* HTTP handlers running at once
          Workers, NoJob,  \* see JobQueue
          MaxReconciles,   \* bound: reconciliations of one write
          MaxResumes,      \* bound: operator resumes of one job
          StoreMayFail,    \* may a finishing transaction be refused?
          MayStall,        \* may the lease of a live process lapse?
          HandlersMayDie   \* may a handler die between two transactions?

ASSUME TestWriteAssumption ==
    /\ NoJob \notin Grants \X Nat
    /\ NoOwner \notin Workers
    /\ {MaxReconciles, MaxResumes} \subseteq Nat
    /\ {Production, StoreMayFail, MayStall, HandlersMayDie} \subseteq BOOLEAN

VARIABLES
    row, born, clock, work, alive, runs, resumes, verdict,  \* see JobQueue
    execution,  \* projects.execution_state
    grant,      \* the status of each grant
    expired,    \* the grants whose expires_at has passed
    request,    \* where each handler is: its step, its job, what it read
    op,         \* where each worker is in process_next_job
    campaigns,  \* the campaigns each grant's job created on the platform
    absent      \* history: grants whose write a reconciliation ruled out

queueVars == <<row, born, clock, work, alive, runs, resumes, verdict>>
vars == <<queueVars, execution, grant, expired, request, op, campaigns, absent>>

Jobs == Grants \X (0 .. MaxReconciles)
WriteKind == IF Production THEN "PRODUCTION_CREATE" ELSE "EXECUTE_TEST"
Kind == [j \in Jobs |-> IF j[2] = 0 THEN WriteKind ELSE "RECONCILE"]
Write(g) == <<g, 0>>

Queue == INSTANCE JobQueue

\* What a grant is to its approver: in force while it is ISSUED and has not
\* expired, and worth its write and the resumes of it once it is CONSUMED.
AuthorityOf(g) ==
    CASE grant[g] = "ABSENT" -> "none"
      [] grant[g] = "CONSUMED" -> "spent"
      [] grant[g] = "ISSUED" /\ g \notin expired -> "in force"
      [] OTHER -> "void"

Allowed(g) == IF grant[g] = "CONSUMED" THEN resumes[Write(g)] + 1 ELSE 0

Authority ==
    INSTANCE WriteAuthority WITH
        authority <- [g \in Grants |-> AuthorityOf(g)],
        allowed <- [g \in Grants |-> Allowed(g)],
        written <- campaigns

-----------------------------------------------------------------------------

GrantStatus == {"ABSENT", "ISSUED", "CONSUMED", "REVOKED"}

AtRest == [step |-> "rest", job |-> NoJob, seen |-> "NONE"]
Looping == [step |-> "loop", outcome |-> "RAISED"]

RequestSteps == {"rest", "issue", "authorize", "read", "reset", "consume",
                 "mark", "reconcile"}
OpSteps == {"loop", "engine", "settle", "finish", "raised", "salvage", "escalate"}

TypeOK ==
    /\ Queue!TypeOK
    /\ execution \in ExecutionState
    /\ grant \in [Grants -> GrantStatus]
    /\ expired \subseteq Grants
    /\ request \in [Requests -> [step: RequestSteps, job: Jobs \cup {NoJob},
                                 seen: ExecutionState]]
    /\ op \in [Workers -> [step: OpSteps, outcome: Outcomes]]
    /\ campaigns \in [Grants -> Nat]
    /\ absent \subseteq Grants

Init ==
    /\ Queue!Init
    /\ execution = "NONE"
    /\ grant = [g \in Grants |-> "ABSENT"]
    /\ expired = {}
    /\ request = [r \in Requests |-> AtRest]
    /\ op = [w \in Workers |-> Looping]
    /\ campaigns = [g \in Grants |-> 0]
    /\ absent = {}

-----------------------------------------------------------------------------
(* Transitions of the execution surface, each a transaction of its own.    *)

\* transition_execution: a target the table refuses raises, nothing changes.
TransitionExecution(target) ==
    execution' = IF MayBecome(execution, target) THEN target ELSE execution

Proceed(r, step, job, seen) ==
    request' = [request EXCEPT ![r] = [step |-> step, job |-> job, seen |-> seen]]

Return(r) == request' = [request EXCEPT ![r] = AtRest]

At(r, step) == request[r].step = step
About(r) == request[r].job[1]

-----------------------------------------------------------------------------
(* issue_execution_grant, issue_paused_create_grant: read the project,     *)
(* insert the grant, then settle by the execution state that was read at   *)
(* the start.                                                              *)

AcceptsGrant == {"NONE", "RECOVERY_REQUIRED"}
                    \cup IF Production THEN {} ELSE {"READBACK_VERIFIED"}

Authorized == IF Production THEN "PRODUCTION_CREATE_AUTHORIZED"
                            ELSE "TEST_WRITE_AUTHORIZED"

IssueRead(r) ==
    /\ At(r, "rest")
    /\ Proceed(r, "issue", NoJob, execution)
    /\ UNCHANGED <<queueVars, execution, grant, expired, op, campaigns, absent>>

IssueInsert(r, g) ==
    /\ At(r, "issue")
    /\ grant[g] = "ABSENT"
    /\ grant' = [grant EXCEPT ![g] = "ISSUED"]
    /\ Proceed(r, "authorize", Write(g), request[r].seen)
    /\ UNCHANGED <<queueVars, execution, expired, op, campaigns, absent>>

\* The UPDATE of store.revoke_grant, which only finds an ISSUED grant.
RevokeIfIssued(g) ==
    grant' = [grant EXCEPT ![g] = IF @ = "ISSUED" THEN "REVOKED" ELSE @]

IssueSettle(r) ==
    /\ At(r, "authorize")
    /\ \/ /\ request[r].seen \in AcceptsGrant
          /\ TransitionExecution(Authorized)
          /\ UNCHANGED grant
       \/ /\ request[r].seen \notin AcceptsGrant
          /\ RevokeIfIssued(About(r))
          /\ UNCHANGED execution
    /\ Return(r)
    /\ UNCHANGED <<queueVars, expired, op, campaigns, absent>>

-----------------------------------------------------------------------------
(* revoke_grant: update the grant, read the project, reset its state,      *)
(* which only a test write's authorisation is.                             *)

RevokeGrant(r, g) ==
    /\ At(r, "rest")
    /\ grant[g] = "ISSUED"
    /\ RevokeIfIssued(g)
    /\ Proceed(r, "read", Write(g), "NONE")
    /\ UNCHANGED <<queueVars, execution, expired, op, campaigns, absent>>

RevokeRead(r) ==
    /\ At(r, "read")
    /\ IF execution = "TEST_WRITE_AUTHORIZED"
       THEN Proceed(r, "reset", NoJob, execution)
       ELSE Return(r)
    /\ UNCHANGED <<queueVars, execution, grant, expired, op, campaigns, absent>>

RevokeReset(r) ==
    /\ At(r, "reset")
    /\ TransitionExecution("NONE")
    /\ Return(r)
    /\ UNCHANGED <<queueVars, grant, expired, op, campaigns, absent>>

-----------------------------------------------------------------------------
(* enqueue_test_execution, enqueue_production_create: read the project,    *)
(* consume the grant and insert the job in one transaction, then move the  *)
(* project on.                                                             *)

ExecuteRead(r, g) ==
    /\ At(r, "rest")
    /\ grant[g] # "ABSENT"
    /\ row[Write(g)].status = "ABSENT"
    /\ execution = Authorized
    /\ Proceed(r, "consume", Write(g), execution)
    /\ UNCHANGED <<queueVars, execution, grant, expired, op, campaigns, absent>>

\* Mutated: the transaction trusts the grant as its handler read it.
ConsumeUnchecked(r) ==
    /\ At(r, "consume")
    /\ \/ /\ row[Write(About(r))].status # "ABSENT"
          /\ Proceed(r, "mark", request[r].job, "NONE") \/ Return(r)
          /\ UNCHANGED <<queueVars, grant>>
       \/ /\ grant' = [grant EXCEPT ![About(r)] = "CONSUMED"]
          /\ Queue!Enqueue(Write(About(r)))
          /\ Proceed(r, "mark", request[r].job, "NONE")
    /\ UNCHANGED <<execution, expired, op, campaigns, absent>>

\* consume_grant_and_enqueue_job: a grant that is not ISSUED or has expired
\* is refused.  An existing job ends the handler if find_job saw it, but not
\* if only the consuming transaction did.
Consume(r) ==
    /\ At(r, "consume")
    /\ \/ /\ row[Write(About(r))].status # "ABSENT"
          /\ Proceed(r, "mark", request[r].job, "NONE") \/ Return(r)
          /\ UNCHANGED <<queueVars, grant>>
       \/ /\ row[Write(About(r))].status = "ABSENT"
          /\ grant[About(r)] # "ISSUED" \/ About(r) \in expired
          /\ Return(r)
          /\ UNCHANGED <<queueVars, grant>>
       \/ /\ grant[About(r)] = "ISSUED"
          /\ About(r) \notin expired
          /\ grant' = [grant EXCEPT ![About(r)] = "CONSUMED"]
          /\ Queue!Enqueue(Write(About(r)))
          /\ Proceed(r, "mark", request[r].job, "NONE")
    /\ UNCHANGED <<execution, expired, op, campaigns, absent>>

ExecuteMark(r) ==
    /\ At(r, "mark")
    /\ TransitionExecution("WRITE_IN_PROGRESS")
    /\ Return(r)
    /\ UNCHANGED <<queueVars, grant, expired, op, campaigns, absent>>

-----------------------------------------------------------------------------
(* enqueue_reconcile: the project is read first, the job is inserted last. *)

ReconcileRead(r, j) ==
    /\ At(r, "rest")
    /\ j[2] < MaxReconciles
    /\ row[j].status # "ABSENT"
    /\ execution = "RECONCILE_REQUIRED"
    /\ Proceed(r, "reconcile", j, execution)
    /\ UNCHANGED <<queueVars, execution, grant, expired, op, campaigns, absent>>

ReconcileOf(j) == <<j[1], j[2] + 1>>

ReconcileEnqueue(r) ==
    /\ At(r, "reconcile")
    /\ \/ /\ row[request[r].job].status = "RECONCILE_REQUIRED"
          /\ Queue!Enqueue(ReconcileOf(request[r].job))
       \/ /\ \/ row[request[r].job].status # "RECONCILE_REQUIRED"
             \/ row[ReconcileOf(request[r].job)].status # "ABSENT"
          /\ UNCHANGED queueVars
    /\ Return(r)
    /\ UNCHANGED <<execution, grant, expired, op, campaigns, absent>>

-----------------------------------------------------------------------------
(* process_next_job.                                                       *)

Enter(w, step, outcome) ==
    op' = [op EXCEPT ![w] = [step |-> step, outcome |-> outcome]]

Loop(w) == op' = [op EXCEPT ![w] = Looping]

Doing(w, step) == op[w].step = step
Job(w) == work[w].job
IsWrite(w) == work[w] # Queue!Idle /\ Job(w)[2] = 0

\* Mutated: the sweep changes the table only.
SweepTableOnly == UNCHANGED execution

\* The sweep of claim_job also moves a project out of WRITE_IN_PROGRESS.
SweepExecution ==
    execution' = IF /\ \E j \in Jobs : LeaseLapsed(row[j])
                    /\ execution = "WRITE_IN_PROGRESS"
                 THEN "RECONCILE_REQUIRED"
                 ELSE execution

Claim(w, j) ==
    /\ Doing(w, "loop")
    /\ Queue!Claim(w, j)
    /\ SweepExecution
    /\ Enter(w, "engine", "RAISED")
    /\ UNCHANGED <<grant, expired, request, campaigns, absent>>

Poll(w) ==
    /\ Doing(w, "loop")
    /\ Queue!Poll(w)
    /\ SweepExecution
    /\ UNCHANGED <<grant, expired, request, op, campaigns, absent>>

\* How many campaigns bear the plan's name: none, exactly one.
Missing == \A g \in Grants : campaigns[g] = 0
Unique == \E g \in Grants : /\ campaigns[g] = 1
                            /\ \A h \in Grants \ {g} : campaigns[h] = 0

AfterEngine(w, outcome) ==
    Enter(w, IF outcome = "RAISED" THEN "raised" ELSE "settle", outcome)

\* engine.execute: the create leaves the process and may or may not commit.
Create(w) ==
    /\ Doing(w, "engine")
    /\ IsWrite(w)
    /\ \E committed \in BOOLEAN :
        /\ campaigns' = [campaigns EXCEPT ![Job(w)[1]] =
                             IF committed THEN @ + 1 ELSE @]
        /\ \E outcome \in ExecuteOutcomes(committed) : AfterEngine(w, outcome)
    /\ UNCHANGED <<queueVars, execution, grant, expired, request, absent>>

\* engine.reconcile: looks the campaign up and never creates it.
Reconcile(w) ==
    /\ Doing(w, "engine")
    /\ ~IsWrite(w)
    /\ \E outcome \in ReconcileOutcomes(Missing, Unique) :
        /\ AfterEngine(w, outcome)
        /\ absent' = IF outcome = "RECONCILED_NOT_CREATED"
                     THEN absent \cup {Job(w)[1]} ELSE absent
    /\ UNCHANGED <<queueVars, execution, grant, expired, request, campaigns>>

\* Where verified paused campaigns take the project.
Verified == IF Production THEN "WAITING_RELEASE_AUTHORIZATION"
                          ELSE "READBACK_VERIFIED"

\* target_by_status of the handlers; the reconciliation that stays
\* indeterminate has no target.
WriteTarget ==
    [VERIFIED_PAUSED |-> Verified,
     RECONCILE_REQUIRED |-> "RECONCILE_REQUIRED",
     PAUSE_FAILED_EMERGENCY |-> "PAUSE_FAILED_EMERGENCY",
     READBACK_MISMATCH |-> "READBACK_MISMATCH",
     RELOCK_FAILED |-> "RELOCK_FAILED",
     FAILED_TERMINAL |-> "RECOVERY_REQUIRED",
     RECOVERY_REQUIRED |-> "RECOVERY_REQUIRED"]

ReconcileTarget ==
    [RECONCILED_VERIFIED_PAUSED |-> Verified,
     RECONCILED_NOT_CREATED |-> "RECOVERY_REQUIRED",
     PAUSE_FAILED_EMERGENCY |-> "RECOVERY_REQUIRED",
     READBACK_MISMATCH |-> "RECOVERY_REQUIRED",
     RELOCK_FAILED |-> "RELOCK_FAILED",
     RECOVERY_REQUIRED |-> "RECOVERY_REQUIRED"]

Target(w) == IF IsWrite(w) THEN WriteTarget[op[w].outcome]
                           ELSE ReconcileTarget[op[w].outcome]

Untargeted(w) == ~IsWrite(w) /\ op[w].outcome = "RECONCILE_REQUIRED"

\* record_execution_result and transition_execution, which raises if refused.
\* Neither looks at the lease.
Settle(w) ==
    /\ Doing(w, "settle")
    /\ \/ /\ Untargeted(w)
          /\ Enter(w, "finish", op[w].outcome)
          /\ UNCHANGED execution
       \/ /\ ~Untargeted(w)
          /\ TransitionExecution(Target(w))
          /\ Enter(w, IF MayBecome(execution, Target(w)) THEN "finish" ELSE "raised",
                   op[w].outcome)
    /\ UNCHANGED <<queueVars, grant, expired, request, campaigns, absent>>

JobVerdict(outcome) ==
    CASE outcome = "RECONCILE_REQUIRED" -> "RECONCILE_REQUIRED"
      [] outcome \in {"VERIFIED_PAUSED", "RECONCILED_VERIFIED_PAUSED",
                      "RECONCILED_NOT_CREATED"} -> "SUCCEEDED"
      [] OTHER -> "FAILED"

Finish(w) ==
    /\ Doing(w, "finish")
    /\ Queue!Report(w, JobVerdict(op[w].outcome))
    /\ Loop(w)
    /\ UNCHANGED <<execution, grant, expired, request, campaigns, absent>>

\* The store refuses a transaction of the run (busy database): the exception
\* handler takes over, or gives its salvage up.
Refused(w) ==
    /\ StoreMayFail
    /\ \/ /\ op[w].step \in {"settle", "finish"}
          /\ Enter(w, "raised", op[w].outcome)
       \/ /\ op[w].step \in {"salvage", "escalate"}
          /\ Loop(w)
    /\ UNCHANGED <<queueVars, execution, grant, expired, request, campaigns, absent>>

\* Mutated: the exception handler leaves the project to the job's verdict.
RaisedOnly(w) ==
    /\ Doing(w, "raised")
    /\ Queue!Report(w, "RECONCILE_REQUIRED")
    /\ Loop(w)
    /\ UNCHANGED <<execution, grant, expired, request, campaigns, absent>>

\* The exception handler; without the lease it raises before the salvage.
Raised(w) ==
    /\ Doing(w, "raised")
    /\ Queue!Report(w, "RECONCILE_REQUIRED")
    /\ IF OwnedBy(row[Job(w)], w) THEN Enter(w, "salvage", "RAISED") ELSE Loop(w)
    /\ UNCHANGED <<execution, grant, expired, request, campaigns, absent>>

RaisedRefused(w) ==
    /\ Doing(w, "raised")
    /\ Queue!ReportRefused(w)
    /\ Loop(w)
    /\ UNCHANGED <<execution, grant, expired, request, campaigns, absent>>

Salvage(w) ==
    /\ Doing(w, "salvage")
    /\ IF execution = "WRITE_IN_PROGRESS" THEN Enter(w, "escalate", "RAISED")
                                          ELSE Loop(w)
    /\ UNCHANGED <<queueVars, execution, grant, expired, request, campaigns, absent>>

Escalate(w) ==
    /\ Doing(w, "escalate")
    /\ TransitionExecution("RECONCILE_REQUIRED")
    /\ Loop(w)
    /\ UNCHANGED <<queueVars, grant, expired, request, campaigns, absent>>

-----------------------------------------------------------------------------
(* The world.                                                              *)

planeVars == <<execution, grant, expired, request, op, campaigns, absent>>

GrantExpires(g) ==
    /\ grant[g] = "ISSUED"
    /\ g \notin expired
    /\ expired' = expired \cup {g}
    /\ UNCHANGED <<queueVars, execution, grant, request, op, campaigns, absent>>

HandlerDies(r) ==
    /\ HandlersMayDie
    /\ ~At(r, "rest")
    /\ Return(r)
    /\ UNCHANGED <<queueVars, execution, grant, expired, op, campaigns, absent>>

Crash(w) ==
    /\ Queue!Crash(w)
    /\ Loop(w)
    /\ UNCHANGED <<execution, grant, expired, request, campaigns, absent>>

LeaseExpires(j) ==
    /\ MayStall \/ row[j].owner \notin alive
    /\ Queue!LeaseExpires(j)
    /\ UNCHANGED planeVars

Heartbeat(w) == Queue!Heartbeat(w) /\ UNCHANGED planeVars
Cancel(j) == Queue!Cancel(j) /\ UNCHANGED planeVars
Resume(j) == Queue!Resume(j) /\ UNCHANGED planeVars

-----------------------------------------------------------------------------

HandlerStep(r) ==
    \/ IssueRead(r) \/ IssueSettle(r)
    \/ RevokeRead(r) \/ RevokeReset(r)
    \/ Consume(r) \/ ExecuteMark(r)
    \/ ReconcileEnqueue(r)
    \/ \E g \in Grants : IssueInsert(r, g) \/ RevokeGrant(r, g) \/ ExecuteRead(r, g)
    \/ \E j \in Jobs : ReconcileRead(r, j)
    \/ HandlerDies(r)

RunStep(w) ==
    \/ Create(w) \/ Reconcile(w) \/ Settle(w) \/ Finish(w)
    \/ Raised(w) \/ Salvage(w) \/ Escalate(w)

WorkerStep(w) ==
    \/ (\E j \in Jobs : Claim(w, j)) \/ Poll(w) \/ RunStep(w)
    \/ Refused(w) \/ RaisedRefused(w) \/ Heartbeat(w) \/ Crash(w)

JobStep(j) == LeaseExpires(j) \/ Cancel(j) \/ Resume(j)

Next ==
    \/ \E r \in Requests : HandlerStep(r)
    \/ \E w \in Workers : WorkerStep(w)
    \/ \E j \in Jobs : JobStep(j)
    \/ \E g \in Grants : GrantExpires(g)

Spec == Init /\ [][Next]_vars

\* Workers keep polling and finish their runs, handlers finish theirs, and
\* nobody renews the lease of a dead process.
Fairness ==
    /\ \A w \in Workers : /\ WF_vars((\E j \in Jobs : Claim(w, j)) \/ Poll(w))
                          /\ WF_vars(RunStep(w))
    /\ \A r \in Requests : WF_vars(~At(r, "rest") /\ HandlerStep(r))
    /\ \A j \in Jobs : WF_vars(LeaseExpires(j) /\ row[j].owner \notin alive)

FairSpec == Spec /\ Fairness

-----------------------------------------------------------------------------
(* Properties.                                                             *)

\* The platform sees only writes that an approver's grant, in force when it was
\* consumed, and the operators' resumes allow: however issuing, revoking,
\* expiring, reading, consuming, claiming and creating interleave, a revoked or
\* expired grant is never spent, a spent one never revoked, and no campaign is
\* created under another (consume_grant_and_enqueue_job re-checks the grant in
\* the transaction that inserts the job).
AuthoritySpec == Authority!Spec

\* A grant creates once, and once more for every resume of its job.
WritesAreAuthorised ==
    \A g \in Grants : campaigns[g] <= resumes[Write(g)] + 1

\* A write that is being reconciled never runs again.
ReconciledNeverReplayed ==
    MaxReconciles > 0 => \A g \in Grants : row[ReconcileOf(Write(g))].status # "ABSENT"
                          => row[Write(g)].status = "RECONCILE_REQUIRED"

\* A worker inside engine.execute with the write of grant g.
InEngine(w, g) == Doing(w, "engine") /\ work[w] # Queue!Idle /\ Job(w) = Write(g)

\* What a reconciliation ruled out can come true only once, and only by the
\* create of a worker that has lost the job: engine.reconcile cannot see a
\* create of a stalled process that is still to be sent (service.py:966), but
\* no worker is handed the write again once its absence is on record, and no
\* write is reconciled while its worker still owns it.
LateWriteIsStale ==
    [][\A g \in absent : campaigns'[g] # campaigns[g] =>
          /\ campaigns'[g] = 1
          /\ \E w \in Workers : InEngine(w, g) /\ ~OwnedBy(row[Write(g)], w)]_vars

\* Every consumed grant is answered: its job ends, or is surfaced for
\* reconciliation, whichever processes die.
ConsumedIsAnswered ==
    \A g \in Grants :
        grant[g] = "CONSUMED"
            ~> row[Write(g)].status \in {"SUCCEEDED", "FAILED", "CANCELLED",
                                         "RECONCILE_REQUIRED"}

\* A project whose write was under way when its worker died leaves
\* WRITE_IN_PROGRESS.
AbandonedProjectIsSurfaced ==
    \A g \in Grants :
        (/\ execution = "WRITE_IN_PROGRESS"
         /\ row[Write(g)].status = "RUNNING"
         /\ row[Write(g)].owner \notin alive)
            ~> execution # "WRITE_IN_PROGRESS"

\* A row that the heartbeat of a live process keeps RUNNING although the process
\* does not work on it.
Unattended(w, j) == w \in alive /\ OwnedBy(row[j], w) /\ Job(w) # j

\* A row is left to the heartbeat only when the store refuses even the
\* transaction of the exception handler (heartbeat_worker_jobs renews every row
\* of the process, worker.py:70): no sweep, resume, late verdict or lost lease
\* leaves one behind.  And it stays so until its process dies or stalls, no
\* operator and no other worker ever frees it.
UnattendedByRefusal ==
    [][\A w \in Workers, j \in Jobs :
          /\ Unattended(w, j)' /\ ~Unattended(w, j) => RaisedRefused(w) /\ Job(w) = j
          /\ Unattended(w, j) /\ ~Unattended(w, j)'
                => w \notin alive' \/ row[j].lease = "lapsed"]_vars

\* A project in WRITE_IN_PROGRESS that nobody is about to move on: no write of it
\* is queued, each that runs has settled or was left by its process, and no
\* exception handler is on its way.  enqueue_reconcile refuses such a project.
Deserted ==
    /\ execution = "WRITE_IN_PROGRESS"
    /\ \A g \in Grants : row[Write(g)].status \notin {"PENDING", "RETRY"}
    /\ \A g \in Grants, w \in Workers :
           OwnedBy(row[Write(g)], w)
               => w \in alive /\ (Job(w) # Write(g) \/ Doing(w, "finish"))
    /\ \A w \in Workers : ~Doing(w, "salvage") /\ ~Doing(w, "escalate")

\* A project is deserted only by a handler that marks it after its write is over
\* (service.py:779), by the death or a refused transaction of the exception
\* handler between the job's verdict and the project's (service.py:283-308), by
\* the refusal of that verdict, or by an operator who cancels the write: no
\* verdict, sweep, lapse, resume or stale worker leaves it behind.
DesertedByMishap ==
    [][~Deserted /\ Deserted' =>
          \/ \E r \in Requests : ExecuteMark(r)
          \/ \E w \in Workers : /\ Doing(w, "salvage") \/ Doing(w, "escalate")
                                /\ Crash(w) \/ Refused(w)
          \/ \E w \in Workers : RaisedRefused(w)
          \/ \E j \in Jobs : Cancel(j)]_vars

-----------------------------------------------------------------------------
(* What the repository says of itself and the code does not keep.          *)

\* "unknown results enter an explicit reconcile flow" (README.md:21): a
\* reconciliation that verified its campaigns paused moves the project on.
ReconciliationMovesOn ==
    \A w \in Workers :
        (Doing(w, "raised") /\ op[w].outcome = "RECONCILED_VERIFIED_PAUSED")
            => execution # "RECONCILE_REQUIRED"

=============================================================================
