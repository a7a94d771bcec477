------------------------------ MODULE JobQueue ------------------------------
(***************************************************************************)
(* The durable job queue: the table "jobs", the DurableWorker processes    *)
(* that claim, run and finish its rows, and the operators who cancel and   *)
(* resume them.  What a job does while it runs is left to the modules of   *)
(* the control planes; here a run ends with any verdict its kind allows.   *)
(*                                                                         *)
(* Each action is one BEGIN IMMEDIATE transaction of the store, or an      *)
(* event of the world: time passing, a process dying, a transaction that   *)
(* SQLite refuses.                                                         *)
(***************************************************************************)
EXTENDS JobTable

CONSTANTS Jobs,         \* the (project, kind, input) triples a client may send
          Workers,      \* worker_ids; a restarted process draws a new one
          NoJob,        \* the job of an idle worker
          Kind,         \* the kind of each job
          MaxResumes,   \* bound: operator resumes of one job
          StoreMayFail  \* may a finishing transaction be refused (busy database)?

ASSUME JobQueueAssumption ==
    /\ Kind \in [Jobs -> JobKinds]
    /\ NoJob \notin Jobs
    /\ NoOwner \notin Workers
    /\ MaxResumes \in Nat
    /\ StoreMayFail \in BOOLEAN

VARIABLES
    row,      \* the table, one row per job
    born,     \* created_at as the rank of the insertion, 0 before it
    clock,    \* the last rank handed out
    work,     \* what each worker process is running, and as which claim
    alive,    \* the worker processes that have not died
    runs,     \* history: how often a job was handed to a worker
    resumes,  \* history: how often an operator resumed it
    verdict   \* history: the claim whose verdict the row carries

vars == <<row, born, clock, work, alive, runs, resumes, verdict>>

Lifecycle ==
    INSTANCE JobLifecycle WITH
        External <- {j \in Jobs : Kind[j] \in ExternalWriteKinds},
        Attempts <- [j \in Jobs |-> MaxAttempts(Kind[j])],
        job <- [j \in Jobs |-> [status |-> row[j].status, attempt |-> row[j].attempt]]

-----------------------------------------------------------------------------

Idle == [job |-> NoJob, run |-> 0]

Rows == [status: Statuses, attempt: Nat, owner: Workers \cup {NoOwner},
         lease: {"none", "live", "lapsed"}, due: BOOLEAN]

\* The types, and that a row is leased exactly while it is RUNNING.
TypeOK ==
    /\ row \in [Jobs -> Rows]
    /\ born \in [Jobs -> Nat]
    /\ clock \in Nat
    /\ work \in [Workers -> [job: Jobs, run: Nat] \cup {Idle}]
    /\ alive \subseteq Workers
    /\ runs \in [Jobs -> Nat]
    /\ resumes \in [Jobs -> Nat]
    /\ verdict \in [Jobs -> Nat]
    /\ \A j \in Jobs : /\ row[j].status = "RUNNING" <=> row[j].lease # "none"
                       /\ row[j].status = "RUNNING" <=> row[j].owner # NoOwner

Init ==
    /\ row = [j \in Jobs |-> NoRow]
    /\ born = [j \in Jobs |-> 0]
    /\ clock = 0
    /\ work = [w \in Workers |-> Idle]
    /\ alive = Workers
    /\ runs = [j \in Jobs |-> 0]
    /\ resumes = [j \in Jobs |-> 0]
    /\ verdict = [j \in Jobs |-> 0]

-----------------------------------------------------------------------------
(* The API.                                                                *)

\* INSERT OR IGNORE: sending a known input again changes nothing.
Enqueue(j) ==
    /\ row[j].status = "ABSENT"
    /\ row' = [row EXCEPT ![j] = Inserted]
    /\ clock' = clock + 1
    /\ born' = [born EXCEPT ![j] = clock']
    /\ UNCHANGED <<work, alive, runs, resumes, verdict>>

Cancel(j) ==
    /\ Cancellable(row[j])
    /\ row' = [row EXCEPT ![j] = CancelledRow(@)]
    /\ UNCHANGED <<born, clock, work, alive, runs, resumes, verdict>>

Resume(j) ==
    /\ resumes[j] < MaxResumes
    /\ Resumable(row[j])
    /\ row' = [row EXCEPT ![j] = Resumed(@)]
    /\ resumes' = [resumes EXCEPT ![j] = @ + 1]
    /\ UNCHANGED <<born, clock, work, alive, runs, verdict>>

-----------------------------------------------------------------------------
(* The worker loop.                                                        *)

SweptTable == [j \in Jobs |-> Swept(row[j], Kind[j])]

Candidates(table) == {j \in Jobs : Claimable(table[j], Kind[j])}

\* claim_job finds a row: the oldest candidate of the swept table.
Claim(w, j) ==
    /\ w \in alive
    /\ work[w] = Idle
    /\ j \in Candidates(SweptTable)
    /\ \A k \in Candidates(SweptTable) : born[j] <= born[k]
    /\ row' = [SweptTable EXCEPT ![j] = Claimed(@, w)]
    /\ runs' = [runs EXCEPT ![j] = @ + 1]
    /\ work' = [work EXCEPT ![w] = [job |-> j, run |-> runs'[j]]]
    /\ UNCHANGED <<born, clock, alive, resumes, verdict>>

\* claim_job returns None: only its sweep takes effect.
Poll(w) ==
    /\ w \in alive
    /\ work[w] = Idle
    /\ Candidates(SweptTable) = {}
    /\ row' = SweptTable
    /\ UNCHANGED <<born, clock, work, alive, runs, resumes, verdict>>

\* What process_next_job may report: a failing external write is closed or
\* handed to reconciliation, any other failing job goes through fail_job.
Verdicts(j) ==
    IF Kind[j] \in ExternalWriteKinds
    THEN {"SUCCEEDED", "FAILED", "RECONCILE_REQUIRED"}
    ELSE {"SUCCEEDED", FailureStatus(row[j], Kind[j])}

\* The update of _finish_job, which requires that the worker owns the lease.
\* Otherwise JOB_LEASE_LOST is raised, twice, and the table is left alone.
Verdict(w, j, status) ==
    IF OwnedBy(row[j], w)
    THEN /\ row' = [row EXCEPT ![j] = Finished(@, status)]
         /\ verdict' = [verdict EXCEPT ![j] = work[w].run]
    ELSE UNCHANGED <<row, verdict>>

\* Mutated: a handler may swallow its error and return without a verdict.
ReportOrReturn(w, status) ==
    /\ w \in alive
    /\ work[w] # Idle
    /\ status \in Verdicts(work[w].job)
    /\ Verdict(w, work[w].job, status) \/ UNCHANGED <<row, verdict>>
    /\ work' = [work EXCEPT ![w] = Idle]
    /\ UNCHANGED <<born, clock, alive, runs, resumes>>

\* A run ends and the worker goes back to its loop.
Report(w, status) ==
    /\ w \in alive
    /\ work[w] # Idle
    /\ status \in Verdicts(work[w].job)
    /\ Verdict(w, work[w].job, status)
    /\ work' = [work EXCEPT ![w] = Idle]
    /\ UNCHANGED <<born, clock, alive, runs, resumes>>

\* The finishing transaction and the one of its exception handler both fail:
\* the loop logs the error and goes on, the row stays RUNNING.
ReportRefused(w) ==
    /\ StoreMayFail
    /\ w \in alive
    /\ work[w] # Idle
    /\ work' = [work EXCEPT ![w] = Idle]
    /\ UNCHANGED <<row, born, clock, alive, runs, resumes, verdict>>

\* heartbeat_worker_jobs renews every RUNNING row of the worker, lapsed or not.
Heartbeat(w) ==
    /\ w \in alive
    /\ row' = [j \in Jobs |-> IF OwnedBy(row[j], w) THEN Renewed(row[j])
                                                    ELSE row[j]]
    /\ UNCHANGED <<born, clock, work, alive, runs, resumes, verdict>>

-----------------------------------------------------------------------------
(* The world.                                                              *)

\* 60 seconds without a heartbeat: the process is dead, or merely suspended.
LeaseExpires(j) ==
    /\ row[j].lease = "live"
    /\ row' = [row EXCEPT ![j].lease = "lapsed"]
    /\ UNCHANGED <<born, clock, work, alive, runs, resumes, verdict>>

DelayElapses(j) ==
    /\ row[j].status = "RETRY"
    /\ ~row[j].due
    /\ row' = [row EXCEPT ![j].due = TRUE]
    /\ UNCHANGED <<born, clock, work, alive, runs, resumes, verdict>>

\* A process dies in the middle of whatever it does.  The last one stands for
\* the container that is always restarted.
Crash(w) ==
    /\ w \in alive
    /\ alive # {w}
    /\ alive' = alive \ {w}
    /\ work' = [work EXCEPT ![w] = Idle]
    /\ UNCHANGED <<row, born, clock, runs, resumes, verdict>>

-----------------------------------------------------------------------------

JobStep(j) ==
    \/ Enqueue(j) \/ Cancel(j) \/ Resume(j)
    \/ LeaseExpires(j) \/ DelayElapses(j)

WorkerStep(w) ==
    \/ \E j \in Jobs : Claim(w, j)
    \/ \E status \in Statuses : Report(w, status)
    \/ Poll(w) \/ ReportRefused(w) \/ Heartbeat(w) \/ Crash(w)

Next == (\E j \in Jobs : JobStep(j)) \/ (\E w \in Workers : WorkerStep(w))

Spec == Init /\ [][Next]_vars

\* A live process keeps polling and every run ends; delays pass; nobody
\* renews the lease of a dead process.  Nothing is assumed of the operators,
\* of heartbeats, or of the lease of a process that lives.
Fairness ==
    /\ \A w \in Workers : /\ WF_vars((\E j \in Jobs : Claim(w, j)) \/ Poll(w))
                          /\ WF_vars(\E status \in Statuses : Report(w, status))
    /\ \A j \in Jobs : /\ WF_vars(DelayElapses(j))
                       /\ WF_vars(LeaseExpires(j) /\ row[j].owner \notin alive)

FairSpec == Spec /\ Fairness

-----------------------------------------------------------------------------
(* Properties.                                                             *)

\* Without its owners, leases and clocks the queue is the job lifecycle its
\* users rely on: nothing that lapses, dies or comes late moves a job in
\* another way.
LifecycleSpec == Lifecycle!Spec

\* No job runs more often than its max_attempts for the enqueue and again for
\* every resume of an operator; an external write (max_attempts 1) therefore
\* never runs twice without an operator asking for it, whatever leases lapse
\* and processes die (claim_job: "Never replay an indeterminate external
\* write after a worker lease expires").
RunsAreAuthorised ==
    \A j \in Jobs : runs[j] <= MaxAttempts(Kind[j]) * (resumes[j] + 1)

\* The verdict in a row is that of its latest run: a run that lost its lease
\* never decides for the run that replaced it, although finishing compares
\* the worker's name and no fencing token.
LatestRunDecides ==
    \A j \in Jobs : row[j].status \in {"SUCCEEDED", "FAILED", "RETRY"}
                        => verdict[j] = runs[j]

\* An external write whose process died is eventually surfaced to the
\* operators as RECONCILE_REQUIRED.
AbandonedWriteIsSurfaced ==
    \A j \in Jobs :
        (/\ Kind[j] \in ExternalWriteKinds
         /\ row[j].status = "RUNNING"
         /\ row[j].owner \notin alive)
            ~> row[j].status = "RECONCILE_REQUIRED"

\* Any other job whose process died is claimed again, while attempts remain.
AbandonedRunIsRetried ==
    \A j \in Jobs, w \in Workers :
        (/\ Kind[j] \notin ExternalWriteKinds
         /\ OwnedBy(row[j], w)
         /\ w \notin alive
         /\ row[j].attempt < MaxAttempts(Kind[j]))
            ~> row[j].owner # w

\* What a dead process leaves is picked up: what may have reached the platform
\* by the operators, the rest by another worker.
AbandonedIsPickedUp == AbandonedWriteIsSurfaced /\ AbandonedRunIsRetried

=============================================================================
