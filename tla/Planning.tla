------------------------------ MODULE Planning ------------------------------
(***************************************************************************)
(* The planning of one project: prepare requests become PREPARE jobs,      *)
(* whose runs compile a plan matrix and install its plans; approvers       *)
(* confirm the matrix and the plans they saw.  A SYNC_JUGUANG job stands   *)
(* for every other job of the project: its failure touches the project     *)
(* state too.                                                              *)
(*                                                                         *)
(* The jobs follow the lifecycle the queue promises (JobLifecycle); a run  *)
(* that lost its lease goes on until it reports.  An operator's resume is   *)
(* left out: it gives a job more attempts.  Each step of a run or of a      *)
(* handler is one transaction or one read.                                 *)
(***************************************************************************)
EXTENDS StateSurfaces, Naturals, Sequences, FiniteSets

CONSTANTS Prepares,      \* the prepare requests, each the input of one job
          Syncs,         \* other jobs of the project
          Plans,         \* the logical keys each request selects, {} when its
                         \* budget pays for none
          Attempts,      \* max_attempts of each job
          Workers,       \* worker_ids; a restarted process draws a new one
          Approvers,
          Nobody,        \* the owner of a job that nobody runs
          MaxJobs        \* bound: jobs sent

Jobs == Prepares \cup Syncs

ASSUME PlanningAssumption ==
    /\ Prepares \cap Syncs = {}
    /\ DOMAIN Plans = Prepares
    /\ Attempts \in [Jobs -> Nat \ {0}]
    /\ Nobody \notin Workers \cup Jobs
    /\ MaxJobs \in Nat

VARIABLES
    job,        \* the status and attempt of each job, see JobLifecycle
    owner,      \* lease_owner of each job
    request,    \* the prepare handler of each request
    project,    \* projects.project_state
    compiled,   \* how many matrices the runs of a job have compiled
    matrices,   \* the plan_matrix artifacts by created_at
    active,     \* the ACTIVE plan revisions, as pairs of key and revision
    confirmed,  \* the confirmation artifacts by created_at
    work,       \* the run of each worker, its last one when it has died
    alive,      \* the processes that have not died
    approval,   \* the confirm handler of each approver
    outrun,     \* history: plans were installed under another planning, or
                \* after a handler compared them
    unclosed,   \* history: a failed run left the project as it was
    stalled     \* history: a live process lost the lease of its job

queueVars == <<job, owner>>
planVars == <<project, compiled, matrices, active, outrun, unclosed>>
vars == <<queueVars, request, planVars, confirmed, work, alive, approval, stalled>>

Lifecycle == INSTANCE JobLifecycle WITH External <- {}

-----------------------------------------------------------------------------

Keys == UNION {Plans[p] : p \in Prepares}

\* planrev_...: every compilation draws new revision ids.
Revision == Prepares \X Nat

Idle == [job |-> Nobody, step |-> "none", revision |-> 0]

NotAsked == [step |-> "none", matrix |-> 0, objects |-> {}]

Steps == {"none", "begin", "revise", "chain", "compile", "install", "ready",
          "await", "budget", "sync", "finish", "raised", "peek", "close"}

\* The types; a leased job is RUNNING, and a plan has one active revision.
TypeOK ==
    /\ job \in [Jobs -> [status: {"ABSENT", "PENDING", "RUNNING", "SUCCEEDED",
                                  "RETRY", "FAILED", "CANCELLED"},
                         attempt: Nat]]
    /\ owner \in [Jobs -> Workers \cup {Nobody}]
    /\ request \in [Prepares -> {"none", "validate", "insert"}]
    /\ project \in ProjectState
    /\ compiled \in [Prepares -> Nat]
    /\ matrices \in Seq([job: Prepares, revision: Nat])
    /\ active \subseteq Keys \X Revision
    /\ confirmed \in Seq([matrix: Nat, objects: SUBSET (Keys \X Revision)])
    /\ work \in [Workers -> [job: Jobs \cup {Nobody}, step: Steps, revision: Nat]]
    /\ alive \subseteq Workers
    /\ approval \in [Approvers -> [step: {"none", "objects", "store", "move", "done"},
                                   matrix: Nat, objects: SUBSET (Keys \X Revision)]]
    /\ {outrun, unclosed, stalled} \subseteq BOOLEAN
    /\ \A j \in Jobs : job[j].status = "RUNNING" <=> owner[j] # Nobody
    /\ \A a, b \in active : a[1] = b[1] => a = b

Init ==
    /\ Lifecycle!Init
    /\ owner = [j \in Jobs |-> Nobody]
    /\ request = [p \in Prepares |-> "none"]
    /\ project = "DRAFT"
    /\ compiled = [p \in Prepares |-> 0]
    /\ matrices = <<>>
    /\ active = {}
    /\ confirmed = <<>>
    /\ work = [w \in Workers |-> Idle]
    /\ alive = Workers
    /\ approval = [a \in Approvers |-> NotAsked]
    /\ outrun = FALSE
    /\ unclosed = FALSE
    /\ stalled = FALSE

-----------------------------------------------------------------------------
(* enqueue_prepare.                                                        *)

Preparable == {"INPUT_VALIDATED", "ADVISORY_READY", "FAILED_CLOSED", "WAITING_BUDGET"}

Sent == {j \in Jobs : job[j].status # "ABSENT"} \cup {p \in Prepares : request[p] # "none"}

\* A known request is answered with its job; the project must be preparable.
AskPrepare(p) ==
    /\ request[p] = "none"
    /\ job[p].status = "ABSENT"
    /\ Cardinality(Sent) < MaxJobs
    /\ \/ project = "DRAFT" /\ request' = [request EXCEPT ![p] = "validate"]
       \/ project \in Preparable /\ request' = [request EXCEPT ![p] = "insert"]
    /\ UNCHANGED <<queueVars, planVars, confirmed, work, alive, approval, stalled>>

\* transition_project; a refused one ends the request.
ValidatePrepare(p) ==
    /\ request[p] = "validate"
    /\ IF ProjectMayBecome(project, "INPUT_VALIDATED")
       THEN /\ project' = "INPUT_VALIDATED"
            /\ request' = [request EXCEPT ![p] = "insert"]
       ELSE /\ request' = [request EXCEPT ![p] = "none"]
            /\ UNCHANGED project
    /\ UNCHANGED <<queueVars, compiled, matrices, active, outrun, unclosed, confirmed,
                   work, alive, approval, stalled>>

InsertPrepare(p) ==
    /\ request[p] = "insert"
    /\ request' = [request EXCEPT ![p] = "none"]
    /\ Lifecycle!Enqueue(p)
    /\ UNCHANGED <<owner, planVars, confirmed, work, alive, approval, stalled>>

EnqueueSync(s) ==
    /\ Cardinality(Sent) < MaxJobs
    /\ Lifecycle!Enqueue(s)
    /\ UNCHANGED <<owner, request, planVars, confirmed, work, alive, approval, stalled>>

Cancel(j) ==
    /\ Lifecycle!Cancel(j)
    /\ UNCHANGED <<owner, request, planVars, confirmed, work, alive, approval, stalled>>

-----------------------------------------------------------------------------
(* confirm.  An approver sends the matrix and the plans the project has, once: *)
(* the approvers bound the confirmations.                                  *)

apiVars == <<queueVars, request, planVars, work, alive, stalled>>

\* latest_artifact; artifacts are named by their rank.
CompareMatrix(a) ==
    /\ approval[a] = NotAsked
    /\ matrices # <<>>
    /\ approval' = [approval EXCEPT ![a] =
                        [step |-> "objects", matrix |-> Len(matrices), objects |-> {}]]
    /\ UNCHANGED <<apiVars, confirmed>>

\* Mutated: the plans are compared with those the matrix lists.
CompareListed(a) ==
    /\ approval[a].step = "objects"
    /\ LET m == matrices[approval[a].matrix] IN
         approval' = [approval EXCEPT
             ![a].step = "store",
             ![a].objects = Plans[m.job] \X {<<m.job, m.revision>>}]
    /\ UNCHANGED <<apiVars, confirmed>>

CompareObjects(a) ==
    /\ approval[a].step = "objects"
    /\ approval' = [approval EXCEPT ![a] =
                        [step |-> "store", matrix |-> @.matrix, objects |-> active]]
    /\ UNCHANGED <<apiVars, confirmed>>

\* put_artifact: INSERT OR IGNORE, the same request has the same artifact.
StoreConfirmation(a) ==
    /\ approval[a].step = "store"
    /\ LET c == [matrix |-> approval[a].matrix, objects |-> approval[a].objects] IN
         confirmed' = IF \E i \in DOMAIN confirmed : confirmed[i] = c
                      THEN confirmed
                      ELSE Append(confirmed, c)
    /\ approval' = [approval EXCEPT ![a].step = "move"]
    /\ UNCHANGED apiVars

MoveConfirmed(a) ==
    /\ approval[a].step = "move"
    /\ approval' = [approval EXCEPT ![a].step = "done"]
    /\ project' = IF ProjectMayBecome(project, "ADVISORY_READY") THEN "ADVISORY_READY"
                                                                ELSE project
    /\ UNCHANGED <<queueVars, request, compiled, matrices, active, outrun, unclosed,
                   confirmed, work, alive, stalled>>

-----------------------------------------------------------------------------
(* process_next_job.                                                       *)

deskVars == <<request, confirmed, alive, approval, stalled>>

At(w, step) == w \in alive /\ work[w].step = step

JobOf(w) == work[w].job

Goto(w, step) == work' = [work EXCEPT ![w].step = step]
Leave(w) == work' = [work EXCEPT ![w] = Idle]

\* claim_job; a RUNNING row may be claimed when its lease lapsed: its process
\* died, or lives and missed its heartbeats.
Claim(w, j) ==
    /\ w \in alive
    /\ work[w] = Idle
    /\ Lifecycle!Start(j, {})
    /\ owner' = [owner EXCEPT ![j] = w]
    /\ work' = [work EXCEPT ![w] = [Idle EXCEPT
                    !.job = j, !.step = IF j \in Prepares THEN "begin" ELSE "sync"]]
    /\ stalled' = (stalled \/ owner[j] \in alive)
    /\ UNCHANGED <<planVars, request, confirmed, alive, approval>>

\* _continue_prepare_after_validation
Begin(w) ==
    /\ At(w, "begin")
    /\ Goto(w, IF project \in {"ADVISORY_READY", "FAILED_CLOSED", "WAITING_BUDGET"}
               THEN "revise" ELSE "chain")
    /\ UNCHANGED <<queueVars, planVars, deskVars>>

\* transition_project within a run: a refused one raises.
MoveProject(w, step, target, next) ==
    /\ At(w, step)
    /\ IF ProjectMayBecome(project, target)
       THEN project' = target /\ unclosed' = FALSE /\ Goto(w, next)
       ELSE Goto(w, "raised") /\ UNCHANGED <<project, unclosed>>
    /\ UNCHANGED <<queueVars, compiled, matrices, active, outrun, deskVars>>

Revise(w) == MoveProject(w, "revise", "INPUT_VALIDATED", "chain")
Chain(w) == MoveProject(w, "chain", "THREE_CHAIN_READY", "compile")
Ready(w) == MoveProject(w, "ready", "MATRIX_READY", "await")
Await(w) == MoveProject(w, "await", "WAITING_CONFIRMATION", "finish")
WaitForBudget(w) == MoveProject(w, "budget", "WAITING_BUDGET", "finish")

\* The preview is compiled and put into plan_matrix: INSERT OR IGNORE, a
\* second run of the job does not replace the matrix of the first.
PutMatrix(p) ==
    matrices' = IF \E i \in DOMAIN matrices : matrices[i].job = p
                THEN matrices
                ELSE Append(matrices, [job |-> p, revision |-> compiled'[p]])

\* Mutated: the matrix is put on record after its plans.
CompileOnly(w) ==
    /\ At(w, "compile")
    /\ compiled' = [compiled EXCEPT ![JobOf(w)] = @ + 1]
    /\ work' = [work EXCEPT ![w].step = "install", ![w].revision = compiled'[JobOf(w)]]
    /\ UNCHANGED <<queueVars, project, matrices, active, outrun, unclosed, deskVars>>

Compile(w) ==
    /\ At(w, "compile")
    /\ compiled' = [compiled EXCEPT ![JobOf(w)] = @ + 1]
    /\ PutMatrix(JobOf(w))
    /\ work' = [work EXCEPT ![w] =
                    [job |-> JobOf(w),
                     step |-> IF Plans[JobOf(w)] = {} THEN "budget" ELSE "install",
                     revision |-> compiled'[JobOf(w)]]]
    /\ UNCHANGED <<queueVars, project, active, outrun, unclosed, deskVars>>

Installed(w) == Plans[JobOf(w)] \X {<<JobOf(w), work[w].revision>>}

Kept(w) == {a \in active : a[1] \notin Plans[JobOf(w)]}

\* Mutated: a plan that exists keeps its active revision beside the new one.
InstallBeside(w) ==
    /\ At(w, "install")
    /\ active' = active \cup Installed(w)
    /\ Goto(w, "ready")
    /\ UNCHANGED <<queueVars, project, compiled, matrices, outrun, unclosed, deskVars>>

\* replace_active_plan_revisions supersedes the revisions of its own keys
\* only, and looks at neither the lease nor the project state.
Install(w) ==
    /\ At(w, "install")
    /\ active' = Kept(w) \cup Installed(w)
    /\ outrun' = (outrun \/ project # "THREE_CHAIN_READY"
                         \/ \E a \in Approvers : approval[a].step \in {"store", "move"})
    /\ Goto(w, "ready")
    /\ UNCHANGED <<queueVars, project, compiled, matrices, unclosed, deskVars>>

PlanSteps == {"begin", "revise", "chain", "compile", "install", "ready", "await", "budget"}

\* Whatever a run does may raise: the project's configuration has changed, the
\* evidence does not suffice, a source cannot be read, or the store refuses a
\* transaction, that of the verdict included.
Fails(w) ==
    /\ w \in alive
    /\ work[w].step \in PlanSteps \cup {"sync", "finish"}
    /\ Goto(w, "raised")
    /\ UNCHANGED <<queueVars, planVars, deskVars>>

Sync(w) ==
    /\ At(w, "sync")
    /\ Goto(w, "finish")
    /\ UNCHANGED <<queueVars, planVars, deskVars>>

Owns(w) == owner[JobOf(w)] = w

\* complete_job; without the lease it raises.
Finish(w) ==
    /\ At(w, "finish")
    /\ \/ /\ Owns(w)
          /\ Lifecycle!End(JobOf(w), "SUCCEEDED")
          /\ owner' = [owner EXCEPT ![JobOf(w)] = Nobody]
          /\ Leave(w)
       \/ /\ ~Owns(w)
          /\ Goto(w, "raised")
          /\ UNCHANGED queueVars
    /\ UNCHANGED <<planVars, deskVars>>

\* fail_job; without the lease it raises too, and the handler is left.
Raised(w) ==
    /\ At(w, "raised")
    /\ \/ /\ Owns(w)
          /\ \E status \in {"RETRY", "FAILED"} : Lifecycle!End(JobOf(w), status)
          /\ owner' = [owner EXCEPT ![JobOf(w)] = Nobody]
          /\ Goto(w, "peek")
       \/ /\ ~Owns(w)
          /\ Leave(w)
          /\ UNCHANGED queueVars
    /\ UNCHANGED <<planVars, deskVars>>

\* Mutated: the handler closes what has no plans yet.
PeekUncompiled(w) ==
    /\ At(w, "peek")
    /\ IF project \in {"INPUT_VALIDATED", "MATRIX_READY", "WAITING_CONFIRMATION"}
       THEN Goto(w, "close")
       ELSE Leave(w)
    /\ UNCHANGED <<queueVars, planVars, deskVars>>

\* A planning that is not confirmed is closed, whichever job failed.
Peek(w) ==
    /\ At(w, "peek")
    /\ IF project \in {"INPUT_VALIDATED", "THREE_CHAIN_READY", "MATRIX_READY",
                       "WAITING_CONFIRMATION"}
       THEN Goto(w, "close")
       ELSE Leave(w)
    /\ UNCHANGED <<queueVars, planVars, deskVars>>

\* The transition may come late; if the table refuses it, its error is dropped.
Close(w) ==
    /\ At(w, "close")
    /\ project' = IF ProjectMayBecome(project, "FAILED_CLOSED") THEN "FAILED_CLOSED"
                                                               ELSE project
    /\ Leave(w)
    /\ UNCHANGED <<queueVars, compiled, matrices, active, outrun, unclosed, deskVars>>

\* The store refuses a transaction of the handler: a refused fail_job leaves
\* the handler, and its row to the heartbeats of the process; a refused read
\* or transition is dropped, and the project stays as it is.
Refused(w) ==
    /\ w \in alive
    /\ work[w].step \in {"raised", "peek", "close"}
    /\ Leave(w)
    /\ unclosed' = (unclosed \/ work[w].step # "raised")
    /\ UNCHANGED <<queueVars, project, compiled, matrices, active, outrun, deskVars>>

\* A process dies.  The last one stands for the container that is always
\* restarted.
Crash(w) ==
    /\ w \in alive
    /\ alive # {w}
    /\ alive' = alive \ {w}
    /\ unclosed' = (unclosed \/ work[w].step \in {"peek", "close"})
    /\ UNCHANGED <<queueVars, request, project, compiled, matrices, active, outrun,
                   confirmed, work, approval, stalled>>

-----------------------------------------------------------------------------

RunStep(w) ==
    \/ Begin(w) \/ Revise(w) \/ Chain(w) \/ Compile(w) \/ Install(w)
    \/ Ready(w) \/ Await(w) \/ WaitForBudget(w)
    \/ Sync(w) \/ Fails(w) \/ Finish(w) \/ Raised(w) \/ Peek(w) \/ Close(w)

Next ==
    \/ \E p \in Prepares : AskPrepare(p) \/ ValidatePrepare(p) \/ InsertPrepare(p)
    \/ \E s \in Syncs : EnqueueSync(s)
    \/ \E j \in Jobs : Cancel(j)
    \/ \E a \in Approvers : \/ CompareMatrix(a) \/ CompareObjects(a)
                            \/ StoreConfirmation(a) \/ MoveConfirmed(a)
    \/ \E w \in Workers : \/ \E j \in Jobs : Claim(w, j)
                          \/ RunStep(w) \/ Refused(w) \/ Crash(w)

Spec == Init /\ [][Next]_vars

\* A live process keeps polling, takes what waits or what a dead one left, and
\* every run goes on.  Nothing is assumed of clients, approvers and operators.
ClaimLeft(w, j) ==
    Claim(w, j) /\ (job[j].status = "RUNNING" => owner[j] \notin alive)

Fairness ==
    /\ \A j \in Jobs : WF_vars(\E w \in Workers : ClaimLeft(w, j))
    /\ \A w \in Workers : WF_vars(RunStep(w))

FairSpec == Spec /\ Fairness

-----------------------------------------------------------------------------
(* Properties.                                                             *)

\* A project that asks for confirmation, or is confirmed, has plans, and every
\* active plan was selected by a request whose matrix is on record.
PlansAreOnRecord ==
    /\ project \in {"MATRIX_READY", "WAITING_CONFIRMATION", "ADVISORY_READY"}
           => active # {}
    /\ \A a \in active : \E i \in DOMAIN matrices :
           matrices[i].job = a[2][1] /\ a[1] \in Plans[matrices[i].job]

\* The plans of a confirmed project are those its latest confirmation names,
\* unless a run installed plans outside its own planning or while a handler
\* was confirming (confirm: "confirmed objects do not match active plans").
ConfirmedIsActive ==
    (project = "ADVISORY_READY" /\ ~outrun)
        => /\ confirmed # <<>>
           /\ confirmed[Len(confirmed)].objects = active

Working == {"THREE_CHAIN_READY", "MATRIX_READY"}

\* A RUNNING row whose live owner has left it, a refused fail_job behind it:
\* the heartbeats of the process keep its lease.
Held(j) ==
    /\ job[j].status = "RUNNING"
    /\ owner[j] \in alive
    /\ work[owner[j]].job # j

\* A RUNNING row whose process died on its last attempt: nobody may claim it.
LastAttemptLost(j) ==
    /\ job[j].status = "RUNNING"
    /\ owner[j] \notin alive
    /\ job[j].attempt >= Attempts[j]

\* Nothing runs, no prepare waits for a process, and one of three things went
\* before: a failed run could not close the project, a verdict was refused, or
\* a process died on the last attempt.
Stranded ==
    /\ \A w \in alive : work[w] = Idle
    /\ \A p \in Prepares : \/ job[p].status \in {"ABSENT", "SUCCEEDED", "FAILED", "CANCELLED"}
                            \/ Held(p) \/ LastAttemptLost(p)
    /\ unclosed \/ \E p \in Prepares : Held(p) \/ LastAttemptLost(p)

\* A planning under way is finished or closed, though processes die, runs fail
\* anywhere and jobs are cancelled: but for the runs whose lease lapsed while
\* they lived, and for the plannings nobody will ever touch again, whose
\* failure the handler could not record (service.py: process_next_job).
PlanningMovesOn ==
    (project \in Working /\ ~stalled)
        ~> project \notin Working \/ stalled \/ Stranded

=============================================================================
