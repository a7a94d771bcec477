# Verification of seeding-plan-backend

This directory is a TLA+ model of the backend under `src/app/seeding`: the
modules, the TLC configurations that check them on small instances, and the
TLAPS proofs of the properties that matter most for every instance. All line
numbers refer to files of `src/app/seeding` unless a path says otherwise.

## 1. Inventory

The program prepares, authorises, executes and releases advertising campaigns
on an external platform (Juguang). Several API processes and several durable
workers share one SQLite database (`store.py`); each store method that writes
is one `BEGIN IMMEDIATE` transaction, and a service method is usually *several*
of them. Almost everything that can go wrong does so between two transactions.

| Component | State it keeps | Operations | What makes it correct | Model |
|---|---|---|---|---|
| Durable job queue (`store.py`, `worker.py`, `service.process_next_job`) | table `jobs`: status, attempt, lease owner and expiry, next_run_at | enqueue, claim (with its sweep of lapsed external writes), heartbeat, complete / fail / require reconcile, cancel, resume | an external write is never replayed after its lease lapses; no outdated run decides a row; what a dead worker leaves is picked up | `JobTable`, `JobQueue`; its promise: `JobLifecycle` |
| Test-write control plane (`service.py`, `store.py`) | `grants.status`, `projects.execution_state`, EXECUTE_TEST and RECONCILE jobs | issue, revoke, execute, run, reconcile | one grant, one write; a grant is spent only while it is in force; unknown results stay reconcilable; nothing is left behind but by named mishaps | `TestWrite`; what approvers rely on: `WriteAuthority` |
| Production create and release (`service.py`, `release.py`) | the same for PRODUCTION_CREATE; `delivery_state`, release grants, spend caps | paused create; issue and revoke a release grant, release, evaluate, recover | the cap is armed before anything is enabled; what fails is alerted; what is closed is paused; one release is reported as successful; an exceeded cap is answered | `TestWrite` (`Production = TRUE`), `Release` |
| Execution engine (`execution.py`) | campaigns on the platform, the account lock, `platform_objects` | execute, reconcile, readback | after any attempted create the account is locked or the receipt says it is not; VERIFIED_PAUSED only if every campaign is paused | `ExecutionEngine`, `EngineOutcomes` |
| State surfaces (`state.py`) | the three transition tables | validate a transition | the tables admit the transitions the services need | `StateSurfaces` |
| Planning (`service.py`, `store.py`) | `project_state`, artifacts, plan revisions | enqueue and run a prepare, sync, confirm, close what failed | active plans are on record; what is confirmed is what is active; a planning under way ends, or is one nobody can touch any more | `Planning` |
| Decision layer (`decision.py`, `algorithms.py`) | none between calls | overlap separation, pair ranking, budget capacity, dedupe, lane limits | selected audiences are apart, plans stay within the budget, no duplicate is bought | `PlanMatrix`, `Keywords`, `Decision` |
| Outbox and alerts (`store.py`, `alerts.py`) | table `outbox` | append, claim a batch, send, complete, fail | at-least-once delivery, no stale dispatcher completes another's claim | `Outbox` |
| Membership, migrations | `project_members`; `schema_migrations` | upsert, authorize; migrate | | not modelled |
| Juguang client, payload compiler, sources, contracts, auth, HTTP surface | none of their own | | | not modelled; their failures are inputs of the modules above |

How they interact: an API handler reads the project, writes a grant, an
artifact or a job, and moves a state surface, in separate transactions. A worker
polls `claim_job` and runs the job's handler, which compiles a matrix or calls
the execution or release engine (the external platform), then records the
result, moves the surface and finally finishes the job. A heartbeat thread of
the same process renews the leases of the worker. Outbox events are written
inside the transactions and delivered by whichever worker flushes them.

The hard behaviours are therefore interleavings of handlers and workers between
transactions; a process dying between two of them; a worker that is suspended,
loses its lease and goes on; an external request whose result is unknown;
operators who cancel and resume jobs; a busy database that refuses a
transaction. `PROJECT.json` lists them under `hazards` at the lines where they
bite, with the properties that would catch them, or the reason none does.

## 2. The modules

```
JobTable ── JobQueue ── implements ──> JobLifecycle
   │            ^                        ^      ^
   └─ TestWrite ┘ (uses its actions)     │      │
        │   └─ implements ──> WriteAuthority    │
        │                             Release  Planning
   EngineOutcomes <─ ExecutionEngine     │      │
                                       StateSurfaces ── Outbox
PlanMatrix, Keywords ── Decision
```

**`JobTable`** — one row of `jobs` and every SQL statement that rewrites it,
as operators (`Inserted`, `Swept`, `Claimable`, `Claimed`, `Renewed`,
`Finished`, `CancelledRow`, `Resumed`). Timestamps are only ever compared with
the current time, so `lease_expires_at` is *live* or *lapsed* and
`next_run_at` is *due* or not. `attempt` and `max_attempts` are kept as numbers.

**`JobQueue`** — the queue as a state machine. One action per transaction:
`Enqueue`, `Claim` and `Poll` (the two ends of `claim_job`, each including the
sweep), `Report` (any verdict of `process_next_job` through `_finish_job`,
including the loss of the lease, which leaves the row alone), `Heartbeat`,
`Cancel`, `Resume`; and one per event of the world: `LeaseExpires`,
`DelayElapses`, `Crash`, `ReportRefused` (the finishing transaction and the one
of its exception handler are both refused). `born` ranks rows by `created_at`,
so `Claim` takes the oldest candidate. What a job *does* is left open: a run
ends with any verdict its kind allows.

**`JobLifecycle`** — what the queue promises its users, without owners, leases,
clocks or delays: the status and the used attempts of each job, and how they
may change. `JobQueue` implements it (`LifecycleSpec`, model-checked and
proved); `Release` and `Planning` take its actions for every change of a job
instead of the table's, which keeps their state small enough to model what their
jobs do.

**`StateSurfaces`** — the three transition tables and their validation.

**`TestWrite`** — the write control plane of one confirmed project, composed
with the queue (`Queue == INSTANCE JobQueue`): every change of a row is one of
the queue's actions, so that it keeps to the queue by construction. `Production` chooses between a
TEST project (`issue_execution_grant`, `enqueue_test_execution`) and the paused
create of a PRODUCTION project (`issue_paused_create_grant`,
`enqueue_production_create`): handlers of the same shape with other states.
Every handler is split where the code ends a transaction; `request[r]` is where
handler *r* is and what it read before (`IssueRead`/`IssueInsert`/`IssueSettle`,
`RevokeGrant`/`RevokeRead`/`RevokeReset`, `ExecuteRead`/`Consume`/`ExecuteMark`,
`ReconcileRead`/`ReconcileEnqueue`). `op[w]` is where worker *w* is inside
`process_next_job`: the engine call (`Create`, `Reconcile`), recording and
moving the surface (`Settle`), the verdict (`Finish`), the exception handler
(`Raised`, `Salvage`, `Escalate`) and the transactions the store refuses
(`Refused`, `RaisedRefused`). The engine is reduced to what it may return and
whether the platform committed a campaign (`EngineOutcomes`).

**`WriteAuthority`** — what an approver relies on, without handlers, workers,
jobs or leases: a grant is issued, in force until it is void (revoked or
expired) or spent; a spent grant allows one write, and one more for every resume
of an operator; a campaign is created only under a spent grant, and no more of
them than it allows. `TestWrite` implements it (`AuthoritySpec`): `AuthorityOf`
maps a grant's row and its expiry to the authority, `Allowed` counts the
resumes.

**`EngineOutcomes`** — the contract between the two halves: the statuses the
engine returns for one plan, given what the platform holds. `TestWrite` assumes
it, `ExecutionEngine` is checked against it (`OutcomesAsAssumed`).

**`ExecutionEngine`** — `execute` and `reconcile` of `execution.py:89-468` over
a batch of plans, request by request. `call[c]` is one call of the engine:
where it is (`step`), the plan of the loop it is at, the status so far and the
plan receipts (`named`: campaigns with their ids, `verified`: those with
pause_verified). `platform`, `locked` and `object` (the `pause_state` column of
`platform_objects`) are what the calls share. `Begin` is the preflight of the
account lock, `PayloadChanged` the hash check at the head of the loop,
`Create`/`Discover`/`Inspect`/`Pause`/`Readback` the requests with every way
they fail, `Relock`/`Verify` the end of the call, `Record` the caller's
`record_execution_result`, `Die` the death of the process before any of them,
`Open` the operator who opens the account for the next write. What a request
does and what its answer says are separate choices: a lost or malformed answer
says nothing of whether the request took effect.

**`Release`** — the release plane of a PRODUCTION project whose paused
campaigns wait. Jobs are `<<grant, kind, n>>` with the lifecycle of
`JobLifecycle`; `run[j]` is the step of the job's run and whether it succeeded so
far. `Arm`, `Verify`, `Enable`, `Readback` are the requests of `activate`;
`Measure` is `evaluate_spend`; `Pause` and `Relock` are `pause_and_relock`, also
of the emergency path; `Activate`, `Decide`, `Closing`, `Close` are the
transitions of the three handlers (a refused one raises); `Alert`, `Finish`,
`Raised`, `Alarm`, `Refused` are the rest of `process_next_job`. `Crash` leaves
a dead run, `Sweep` is the lapse of its lease, or of that of a stalled process,
whose run then goes on. `enabled` remembers under which grant the campaigns were
enabled last; `Overspend` is the platform spending past the cap.

**`Planning`** — one project from the prepare request to the confirmation.
`AskPrepare`/`ValidatePrepare`/`InsertPrepare` are the transactions of
`enqueue_prepare`, `CompareMatrix`/`CompareObjects`/`StoreConfirmation`/
`MoveConfirmed` those of `confirm`. A run goes through `Begin`, `Revise`,
`Chain`, `Compile` (with the INSERT OR IGNORE of its matrix), `Install`
(`replace_active_plan_revisions`), `Ready`, `Await` or `WaitForBudget`, then
`Finish`. `Fails` is the exception of any of these steps, from the artifacts read
before the first transition to the verdict, refused transactions included. What
raises goes to `Raised` (`fail_job`), then to `Peek` and `Close`, the part of the
exception handler that closes a planning. `Refused` is the store refusing that
handler: a refused `fail_job` leaves it, with the row RUNNING under the
heartbeats of its process and nothing closed; a refused read or transition of
the closing is swallowed, and the project stays as it is (`unclosed` remembers
it). Several runs of one job, and runs of several jobs, overlap. Plan revisions
are named by the compilation that drew them. A SYNC_JUGUANG job stands for all
other jobs of the project.

**`PlanMatrix`**, **`Keywords`**, **`Decision`** — what a compilation decides.
`PlanMatrix` steps through `evaluate_audiences` comparison by comparison, then
selects the plans (`_eligible_pairs`, `uniform_budget_capacity`,
`_select_pairs`) in one step; inputs are chosen where the code first reads them.
`Keywords` steps through `evaluate_keywords`: the exact dedupe, one union for
each row of similarity evidence in any order, the semantic dedupe, the limit of
each lane. `Decision` puts them side by side. The state holds the facts the
properties need (`apart`, `alike`, `merged`) beside what the code holds.

**`Outbox`** — the table and its dispatchers. `AppendOutbox` is
`_append_outbox`, `Claim` takes the oldest due events as one batch,
`Skip`/`Send`/`SendFails` and `Complete`/`CompleteRaises`/`Fail`/`FailRaises`
are the loop of `flush`, `Abort` the exception that drops the rest of a batch.

**`MC*`** — the instances for TLC. **`*_proofs`** — the proofs;
`Keywords_proofs` has the lemmas on the union-find, and `Decision_proofs`, which
extends it, the theorems of the whole layer.

Definitions introduced by a comment "Mutated" are plausible bugs (a dropped
guard, a missing sweep); no run uses them. Each property is shown to depend on
the code by substituting one of them.

Abstractions to keep in mind:

- All grants of `TestWrite` authorise the same plan of one confirmed project; a
  reconciliation therefore sees the campaigns of every grant under one name, as
  the code does (it looks campaigns up by name). All grants of `Release` release
  the same campaigns, and its campaigns are enabled and paused together. The
  windows of a release grant are not told apart: a release is asked for within
  its window, and runs whenever a worker takes it.
- An expired grant is refused and stays ISSUED: the UPDATE to EXPIRED
  (`store.py:674`) is rolled back by the exception raised after it.
- The platform is immediately consistent: a committed campaign is listed.
- A refused transaction of an API handler is the same as the handler dying
  there, since nothing is retried; `HandlersMayDie` covers both.
- `DelayElapses` has no counterpart in `TestWrite`: external writes have one
  attempt and never go to RETRY.
- In `ExecutionEngine` a campaign stands for its unit and creativities, which
  are created, listed and paused with it; the three requests of a readback are
  one step, and so are `list_units` and `search_creativities`, which change
  nothing. An answer the engine *accepts* is true, except that a pause is only
  known to have worked once the readback shows it. A request of a dead process
  does not take effect later.
- The calls of one project are numbered in the order in which they begin; a call
  begins while an earlier one is unfinished only if `MayOverlap` (a worker that
  stalled and lost its lease).
- In `Release`, a transition to CLOSING or CLOSED counts as an alert, because
  `is_alert_event` makes it one; `Outbox` shows what becomes of alerts.
- In `Planning`, a confirmation repeats the project's current matrix and plans
  (any other is refused without effect). A run whose lease lapsed goes on until
  it reports. An operator's resume of a planning job is left out: it only gives
  attempts back.
- In `PlanMatrix`, audiences are numbered in ranking order; how floating-point
  scores rank them is left out, as are the gates on their population: any set of
  audiences may be the eligible one. In `Keywords`, heat 0 is a heat below the
  threshold, and whether a keyword gets a bid is any choice.

## 3. What the runs check

| Run | Instance | Shows |
|---|---|---|
| `JobQueue` | one external write, one PREPARE job, 2 workers, 1 resume each; transactions may be refused; fairness | `TypeOK`; `RunsAreAuthorised`: runs never exceed `max_attempts` per enqueue and resume; `LatestRunDecides`: although `_finish_job` compares the worker's name and no fencing token, an outdated run never decides a row; `LifecycleSpec`: the queue implements `JobLifecycle`; `AbandonedIsPickedUp`: what a dead worker leaves is taken up, a write by the operators and the rest by another worker |
| `TestWriteFaults` | TEST project, 1 grant, 2 handlers, 2 workers, 1 resume, 1 reconciliation; expiry and revocation, stalls, refused transactions, dying handlers | `TypeOK`; `AuthoritySpec`: the control plane implements `WriteAuthority`: a grant is spent only while it is in force, and nothing else lets a write through; `WritesAreAuthorised`: at most one create per grant and resume; `ReconciledNeverReplayed`; `LateWriteIsStale`: what a reconciliation ruled out comes true at most once, by a worker that lost the job; `UnattendedByRefusal`: only a refused exception handler leaves a row to the heartbeat, and only the end of that heartbeat frees it; `DesertedByMishap`: a project stays behind in WRITE_IN_PROGRESS only after one of five mishaps |
| `TestWriteLive` | PRODUCTION project (paused create), 1 grant, 1 handler, 2 workers, 1 resume; crashes, stalls, fairness | `ConsumedIsAnswered`; `AbandonedProjectIsSurfaced` |
| `EngineBatch` | an execution of 3 plans and a reconciliation that may overlap it, the second payload possibly changed | `TypeOK`; `VerifiedIsPaused`; `OneAtRisk`: however a batch stops, at most one of its campaigns is not paused; `RecordedIsPaused`: an object on record as VERIFIED_PAUSED is paused, in whatever order the receipts arrive; `ReturnsLocked`: every receipt comes with a locked account or says RELOCK_FAILED |
| `EngineReconcile` | 2 executions, then a reconciliation, 2 plans | `ReconciledIsSettled`: what a successful reconciliation reports is true of *every* campaign under the plans' names, whichever write made it; `OutcomesAsAssumed`: the contract `TestWrite` assumes |
| `Release` | 1 grant, 2 follow-ups, 1 resume; failing requests, refused transactions, stalls, crashes; fairness | `TypeOK`; `CapBeforeEnable`; `FailureIsAlerted`: no release job is FAILED before its alert is in the outbox; `ClosedIsPaused`: under CLOSED only a worker that had lost its job can have enabled campaigns, or another release was sent; `OverspendIsAnswered`: an evaluation over the cap ends in a pause, an alert or a job that waits for the operators |
| `Outbox` | an alert between two other events, 2 dispatchers, batches of 2; failing calls, lapsing leases, crashes; fairness | `TypeOK`; `PublishedIsSent`; `AgainIsTroubled`: dispatchers do not duplicate alerts unless a lease lapsed or a completion failed; `AlertIsPublished` |
| `Planning` | 2 prepare requests that share a plan, 2 approvers, 2 workers; one job has 2 attempts; stalls, failures, refused transactions, crashes | `TypeOK`: among the types, one active revision per plan; `PlansAreOnRecord`; `ConfirmedIsActive`: what the latest of several confirmations names is what is active, unless a run outran it |
| `PlanningLive` | 3 prepare requests (two share a plan, one budget pays for none) and a sync, of which 2 are sent; 2 workers; the same faults; fairness | `PlanningMovesOn`: a planning under way is finished or closed, or is stranded by a failure the handler could not record |
| `Decision` | 3 audiences of one mode and one of the other, 2 notes, scores, budgets below, at and above the first round; 5 keywords in 2 lanes, two with one text | `SelectedAreApart`, `RejectedForBetter`; `BudgetWellSpent`: within the budget, evenly, on the best audiences; `RootsAreGroups`: the union-find gives the connected groups in whatever order the evidence comes; `DuplicatesAreDropped`: no two keywords bought are duplicates, and none is dropped but for a preferred one |
| `EngineMalformed` | 1 plan, 1 call | violation, see below |
| `ProductionReconcile` | PRODUCTION project, 1 grant | violation, see below |

### Disagreements with what the repository says

- `EngineMalformed` — "Unknown results enter an explicit reconcile flow"
  (`src/README.md:21`), but only a transport error and an answer without ids do.
  An answer that does not validate is PLATFORM_SCHEMA_ERROR, which `execute`
  turns into FAILED_TERMINAL although the campaign may exist, running.
- `ProductionReconcile` — the same sentence. A reconciliation that verified the
  campaigns of a PRODUCTION project paused asks for
  WAITING_RELEASE_AUTHORIZATION (`service.py:979`), which the execution table
  does not admit from RECONCILE_REQUIRED (`state.py:134`). The transition
  raises, the job becomes RECONCILE_REQUIRED, and the next reconciliation meets
  the same fate: a paused create whose result was unknown is never released.

### Behaviours worth knowing

The model has these behaviours too. No text of the repository excludes them
clearly enough to be contradicted by a run, or the disagreement follows from
the code in one step.

*Queue and write control plane.*
- A worker that dies on a job's *last* attempt leaves the row RUNNING for ever:
  the claim requires `attempt < max_attempts` (`store.py:1092`), and RUNNING rows
  can be neither cancelled nor resumed. (An external write is swept instead.)
- `issue_execution_grant` decides on the state it read before the grant was
  inserted; when another approver issues or revokes in between, a grant stays
  ISSUED in a state that cannot consume it (`service.py:613`; the comment at
  `service.py:626` wants none left behind).
- Resuming a FAILED external write creates again under a grant that was already
  consumed (`store.py:1277`). `WritesAreAuthorised` counts resumes for this reason.
- The job's verdict and the project's transition are separate transactions, and
  so are the consumption of a grant and the mark WRITE_IN_PROGRESS. A worker that
  finishes before the handler marks the project (`service.py:779`), a death or a
  refused transaction of the exception handler between the two, the refusal of
  its first one, or the cancellation of the queued write (`store.py:1251`) leaves a
  project in WRITE_IN_PROGRESS that nobody moves. `enqueue_reconcile` refuses it
  (`service.py:864`). `DesertedByMishap` says that there is no sixth way; a
  resume of the job, where its status allows one, takes the project up again.
- A worker that stalls with its create unsent can send it after its lease lapsed
  and a reconciliation found nothing (`service.py:966`). Nothing in the code
  prevents it; `LateWriteIsStale` bounds it.
- When the store refuses the transaction of the exception handler too, the row
  stays RUNNING: `heartbeat_worker_jobs` renews every row of the process, worked
  on or not, and RUNNING rows can be neither cancelled nor resumed. It lasts until
  the process dies or stalls (`UnattendedByRefusal`; in `Planning`, `Held`).
- Revoking a PRODUCTION_CREATE grant leaves PRODUCTION_CREATE_AUTHORIZED, in which
  no new grant is accepted (`service.py:663`).

*Execution engine.*
- A reconciliation of a batch of which only some plans exist reports
  RECONCILED_VERIFIED_PAUSED, since one campaign found is enough
  (`ReconciledIsSettled` claims nothing of plans that have no campaign).
- A payload that no longer has its hash raises from inside the loop, after
  earlier creates and without a relock (`execution.py:103`); payload and hash are
  stored together, so only damaged storage reaches it, and `ReturnsLocked` speaks
  of calls that return.

*Release.*
- `enqueue_release` does not ask the delivery state (`service.py:1416`). With two
  release grants, a second release enables the campaigns of a CLOSED project, and
  the transition that follows is refused; `ClosedIsPaused` excepts a release
  beside which another one was sent. That at most one of them is reported as
  successful is the theorem `OneSucceeds`.
- A release whose pause failed (RELEASE_EMERGENCY) is FAILED and alerted, but a
  recovery is accepted of RECONCILE_REQUIRED jobs only (`service.py:838`).
- A recovery of a project in CLOSING pauses and relocks and leaves it in CLOSING
  (`service.py:1590`).
- The sweep that gives up a release job alerts nobody (`store.py:1047`);
  `FailureIsAlerted` is about FAILED jobs.
- A release runs whenever a worker takes it, also after its window
  (`service.py:1428`).

*Outbox.*
- A batch is claimed oldest first. Alerts that keep failing, as many as a batch
  holds, keep newer ones waiting (`alerts.py:90`); `AlertIsPublished` assumes that
  failures end.
- A process flushes after `process_next_job` has returned: not while it raises,
  and not while a long job runs (`worker.py:62`).

*Planning.*
- A slow or outdated run, or a second prepare, replaces plans after an approver
  compared them or after the project was confirmed (`outrun` in
  `ConfirmedIsActive`), and the grants never compare the confirmation with the
  active plans.
- A second run of a job keeps the first run's matrix (INSERT OR IGNORE,
  `service.py:2030`) and installs its own revisions.
- Plans that the new matrix drops stay ACTIVE (`store.py:457`).
- Any failing job closes a planning that waits for confirmation, a source sync
  too (`service.py:320`).
- A confirmation whose transition is refused remains the latest one
  (`service.py:2176`).
- In THREE_CHAIN_READY and MATRIX_READY no prepare is accepted, so a planning
  whose failure is not recorded stays there for good. It is not recorded when the
  store refuses `fail_job` (`service.py:294`) or the read or transition of the
  closing, whose error is swallowed (`service.py:319`), when the process dies
  between the two, or on the job's last attempt, or when the run had lost its
  lease, so that `fail_job` raises. `PlanningMovesOn` excepts exactly these:
  `Stranded`, by `unclosed`, `Held` and `LastAttemptLost`, and `stalled`.

*Decision layer.*
- SEARCH plans are not counted against the capacity (`service.py:1895`).
- The preferred keyword of a text may itself be below the heat threshold: it
  loses its place and that of its hotter duplicates (`decision.py:286`).
- `WARNING_ONLY` selects overlapping audiences and reports a risk.

**Bounds.** `MaxResumes` and `MaxReconciles` bound how often operators resume a
job and how long a chain of reconciliations grows; one resume and one
reconciliation already give every order of claim, lapse, verdict and resume.
Attempts are bounded by the code itself. Two handlers and two workers are
needed for every race listed above, and each of those races involves two actors.
Workers' names are never reused: a restarted process is another element of
`Workers`. The last worker does not crash: it stands for the container that is
always restarted (`restart: unless-stopped`). The runs of the control plane have one
grant, since a second one makes them too large to finish; the theorems of
section 4 hold for any number. Stalls, refused transactions and dying handlers are
checked with two handlers (`TestWriteFaults`), liveness with one, whose mark may
come late.

For the engine, three plans give a batch that stops with plans before and after
the one it stops at, and a reconciliation beside it the other party that pauses,
relocks and records; in `EngineReconcile` three calls are two writes, whose
campaigns share their names, and a reconciliation. `ReconciledIsSettled` and the
contract are claimed only without overlap: a stalled execution may still send
its create after a reconciliation found nothing. There is no liveness to check in the
engine: every request has a timeout, and what happens to a call whose process
dies is the queue's business.

For the release plane, one grant is released, as the theorems hold for any
number; `MaxFollowUps = 2` lets two evaluations race, an
evaluation race a recovery, and a recovery follow an evaluation; the resume
releases again. In `Outbox`, two of three events fit into a batch, so that a
batch may hold the alert behind another event or alone. In `Planning`, two requests and
two approvers let a second planning or a second confirmation come between any
two transactions of the first; in `PlanningLive`, which nobody confirms, `MaxJobs`
lets two jobs interfere, in every choice of two out of four. Two workers are one
that dies or stalls and one that takes over. In `Decision`, the four
audiences make a rejected one that would reject a third, the budgets 5, 11 and
26 with a cost of 3 for two notes leave none, one and (before the cap of 2) four
plans for each, and five keywords allow two merged groups that are merged again.

**Fairness.** Workers poll in an endless loop that catches every exception
(`worker.py:58-68`), so claiming or polling, and every step of a run, are
weakly fair; a handler runs to its end unless its process dies; delays pass;
the lease of a *dead* process lapses, since nobody renews it. Nothing is
assumed of operators, clients, approvers, heartbeats, crashes, refusals of the
store, or the leases of live processes; in `Planning`, a fair claim is one of a
row that waits or was left by a dead process (`ClaimLeft`). `TestWriteLive` has no refused transactions (a store that refuses
for ever is not answered by the code); in `Release` a job that the store's
refusals hold is one of the answers `OverspendIsAnswered` allows, and only
evaluations are fair. In `Outbox`, whoever is alive flushes, and the
disturbances (failing calls, leases that lapse under a flush) come to an end: no
dispatcher can deliver through a webhook that is down for ever.

## 4. What is proved

All theorems are proved for any sets of jobs, grants, handlers, workers,
dispatchers and so on, and any bounds, under the named assumption of each module
(`JobQueueAssumption`, `TestWriteAssumption`, `EngineAssumption`,
`ReleaseAssumption`, `OutboxAssumption`, `PlanningAssumption`,
`MatrixAssumption`, `KeywordsAssumption`): kinds are job kinds, null values are
not workers or jobs, bounds are numbers, switches are Boolean; audiences, notes,
scores and keywords are finitely many, there is a lane, and some heat is below
the threshold. Two theorems have a hypothesis of their own, where the code does
not keep the property without it: no stalled call of the engine comes back
(`EngineReconciledIsSettled`, `EngineOutcomesAsAssumed`), nor does a payload lose
its hash (the latter). The instances in which TLC checks these two properties
satisfy the same hypotheses.

Every invariant, action property and refinement that a passing run checks is
stated by a theorem.

The queue:

- `JobQueueTypes` — `TypeOK` of the queue is inductive as it stands, given that
  it says a row is leased and owned exactly while it is RUNNING.
- `JobQueueRunsAreAuthorised` — needs the strengthening that the attempts used
  in the current allowance plus those of earlier allowances bound the runs: a
  resume resets `attempt` to 0 but adds an allowance.
- `JobQueueLatestRunDecides` — a live worker that owns a RUNNING row and works
  on that job works on its latest run, because each claim writes the owner.
- `JobQueueIsLifecycle` — refinement: every step of the queue is one step of
  `JobLifecycle` on status and attempt, or leaves them alone. One `Claim` maps to
  a `Start` together with the writes its sweep gives up. `Release` and `Planning`
  change a job only by actions of the same lifecycle, so what they take for
  granted of a row is what the queue gives.
- `JobQueueAbandonedWaits` — an action property: an external write whose process
  died waits as it is until a sweep hands it to the operators. No late verdict,
  heartbeat, cancel or resume reaches it. That the sweep comes is
  `AbandonedIsPickedUp`, which only TLC checks.

The write control plane:

- The control plane keeps to the queue by construction; the lemma `UsesQueue`
  says so, so that the queue's theorems hold of writes (`JobFacts == INSTANCE
  JobQueue_proofs`). The invariant `HandlersOK` is needed to know that a handler
  inserts a job of the set `Jobs`.
- `TestWriteConsumedIsEnqueued` — `GrantsOK`: in addition, a worker only runs rows
  that exist.
- `TestWriteIsAuthority` — refinement of `WriteAuthority`. `StepsOfGrants` says what
  a step may do to grants, expiry, resumes and campaigns; `AuthorityOK` that
  no grant expires before it is issued and no write is resumed before its grant
  is consumed. A create maps to a write the grant still allows, because the
  queue's bound on runs and `WritesOnce` (next) say that creates lag behind.
- `TestWriteWritesAreAuthorised` — at most one create per grant and resume. The
  inductive invariant `WritesOnce` says that a worker inside the engine with a
  write either still owns its row or the row is RECONCILE_REQUIRED, that there
  is at most one such worker per write, and that creates lag behind runs while
  it is there; the queue's bound on runs does the rest.
- `TestWriteReconciledNeverReplayed` — RECONCILE_REQUIRED is a state of a row
  that no statement leaves, and only `enqueue_reconcile` inserts a reconciliation.
- `TestWriteTypes` — from the queue's types, `HandlersOK` and `GrantsOK`.
- `TestWriteLateWriteIsStale` — stalls included. A reconciliation runs only of a
  write that is RECONCILE_REQUIRED (`SourceSurfaced`), a status its row never
  leaves; so nobody enters the engine with a write that was ruled out
  (`AbsentIsSurfaced`), nobody owns its row, and by `WritesOnce` at most one
  worker is still inside.
- `TestWriteUnattendedByRefusal` — `OwnedStays`: while the owner lives and its lease is
  live, no step of anybody else takes its row away; `LeftByRefusal` and
  `RefusalEndsRun` go through the ends of a run.
- `TestWriteDesertedByMishap` — `DesertedBefore`: if a step leaves a project
  deserted that was not, it changed the surface, a write's row or a worker on
  its way; one case for each action that does. `SettlesOK`, that no answer of the
  engine maps to WRITE_IN_PROGRESS, is the invariant it needs.

The engine. These rest on two lemmas on what a step of one call may change: its
own well-formed record (`Moves`), and on the platform only its own new campaign
or the campaign it pauses (`PlatformStep`).

- `EngineTypes`, and `EngineReturnsLocked` from it: no step but `Open` unlocks,
  and `Open` needs every call to have ended.
- `EngineVerifiedIsPaused`, `EngineOneAtRisk` — the inductive invariant
  `BatchesOK` says that the campaigns of the plans before the current one are
  paused, those after it absent, and that the loop is left with VERIFIED_PAUSED
  only behind the last plan, paused. At most the current plan's can be running.
- `EngineRecordedIsPaused` — `RecordsOK`: a campaign in `verified` is paused, and
  nothing makes a paused campaign run again.
- `EngineReconciledIsSettled` — under `~MayOverlap`: `SettledOK` says what a
  reconciliation has settled of the plans behind it, `InTurn` that no other call
  is under way meanwhile.
- `EngineOutcomesAsAssumed` — the contract `EngineOutcomes`, on which `TestWrite`
  is built, under `~MayOverlap` and `Changed = {}` (payloads keep their hashes).
  `ReportsOK` relates the status a call will return to the campaigns it has made
  or found so far, for every point of the loop.

The release plane, for any number of grants:

- `ReleaseTypes`, `CapArmed`, `FailedAlerted` — invariant `ReleaseInv`: a run that
  is about to enable has an armed cap and caps are never disarmed; a run that
  activates has succeeded; one that will report a failure has alerted, and the
  handler's alarm comes after its verdict.
- `ClosedPaused` — `ClosedInv`: of a release beside which no other was sent
  (`Sole`), either it waits for reconciliation (`Uncertain`), or the plane is
  orderly: a follow-up that closes finds what it paused still paused
  (`PauseHolds`), follow-ups run only once the release is over
  (`UnreleasedIsAlone`, `ReleasedIsOver`), and what is closed is paused.
- `OneSucceeds` — however many releases are sent. `OnceInv`: a release reports a
  success only behind its activation (`ReleaseSteps`), and the delivery leaves
  NOT_RELEASED once (`OnceActivated`). No run has two releases beside everything
  else, so it is stated by the theorem only.

The outbox, for any log, dispatchers and batch size:

- `OutboxTypes`, `PublishedSent` — `FlushInv`: a flush that is about to complete
  an alert has sent it.
- `AgainTroubled` — `UntroubledInv`: an alert nothing happened to is in the batch
  of its owner only, and once it is sent nobody is about to send it.

Planning, for any requests, plans, attempts, workers and approvers:

- `PlanningTypes`; `PlansOnRecord` — `WorkInv`: a run that installs has put its
  request's matrix on record, and one that goes on has left active plans.
- `ConfirmedActive` — `FreshInv`: what a run installs has a revision that is
  neither active nor seen by an approver, so a replacement is never taken for
  what was confirmed; `ConfirmInv`: what a handler compared is still active while
  nobody outran it.
The decision layer, for any audiences, modes and verdicts:

- `SelectedApart`, `RejectedBetter` — `MatrixInv`: the audiences considered so far
  rank before those left, and the candidate is apart from all it was compared
  with.
- `BudgetSpent` — `PlansInv` says that the plans are what `SelectPairs` selects for
  each note; the rest is counting. `SelectPairs` takes the pairs of a note with fewer than
  k audiences ahead of them, which is where the loop of `_select_pairs` stops; the
  `Walk` lemmas show that these are k audiences, or all, and the best.

The keywords, for any words, texts, lanes, heats and evidence in any order:

- `RootsAreConnected` — `GroupsInv`: two keywords have one root if and only if the
  rows merged so far connect them. A union keeps this although it compresses
  two paths and rehangs a root.
- `DuplicatesDropped` — `RepsInv` and `WinnersInv`: what each deduplication kept is
  the preferred keyword of its text or its group.
- `DecisionTypes`.

`Root` and `Path` are recursive functions along parents. The induction theorems
of the library take an operator as a parameter, which the provers cannot
instantiate; but a parent is never larger than its child, and a set of numbers
has a least element (`LeastNumber`, from the well-foundedness of the subsets of
a finite set). So the lemmas take the least keyword for which the claim would
fail, and the function's recursion gives the contradiction.

Only model-checked: the liveness properties `AbandonedIsPickedUp`,
`ConsumedIsAnswered`, `AbandonedProjectIsSurfaced`, `OverspendIsAnswered`,
`AlertIsPublished` and `PlanningMovesOn`, since fairness and ENABLED are beyond the
prover; and the two runs that show a violation. No module uses RECURSIVE
operators.

Run a check with `tlc -config Release.cfg MCRelease`, a proof with
`tlapm Release_proofs.tla`.

## 5. Not modelled, and why

- *Juguang client, payload compiler, source layer, contracts and hashing*: wire
  formats and schemas without protocol state. Their failures (an exception before
  the create, a lost or malformed answer, missing evidence) are inputs of
  `ExecutionEngine`, `Release` and `Planning`. Hashes that the code compares are
  modelled by the identity of what is hashed.
- *Authentication and grant signatures, HTTP surface*: cryptography, role checks
  and routing in front of the handlers. A request that is refused there changes
  nothing.
- *Membership*: one row, written by one transaction after a check. A write
  that was admitted before a demotion is accepted; no text says when a demotion
  takes effect.
- *Migrations*: which statements of a script survive a crash is decided by
  `executescript` of the sqlite3 library.
- *Of planning*: an operator's resume of its jobs, the imports of source
  snapshots, SEARCH plans and their release gate.
- *Of the decision layer*: floating-point scores, quantiles, heat thresholds,
  overlap metrics and bids. TLA+ has no floating point; what is modelled is what
  is decided with them.
- Audit rows, and outbox rows other than alerts, which nothing reads back.
