-------------------------- MODULE TestWrite_proofs --------------------------
(* What holds of the test-write control plane for any set of grants, of    *)
(* handlers and of workers.                                                *)
EXTENDS TestWrite, TLAPS

(***************************************************************************)
(* What a handler remembers: the job it is about to insert is one of Jobs. *)
(***************************************************************************)

HandlersOK ==
    /\ request \in [Requests -> [step: RequestSteps, job: Jobs \cup {NoJob},
                                 seen: ExecutionState]]
    /\ execution \in ExecutionState
    /\ \A r \in Requests :
        /\ At(r, "authorize") => request[r].job \in {Write(g) : g \in Grants}
        /\ At(r, "consume") => request[r].job \in {Write(g) : g \in Grants}
        /\ At(r, "reconcile") => /\ request[r].job \in Jobs
                                 /\ request[r].job[2] < MaxReconciles

LEMMA WriteIsJob ==
    \A g \in Grants : /\ Write(g) \in Jobs
                      /\ Write(g)[1] = g
                      /\ Write(g)[2] = 0
BY TestWriteAssumption DEF Write, Jobs

LEMMA ReconcileIsJob ==
    ASSUME NEW j \in Jobs, j[2] < MaxReconciles
    PROVE  ReconcileOf(j) \in Jobs
<1>1. j[1] \in Grants /\ j[2] \in 0 .. MaxReconciles
  BY DEF Jobs
<1>2. j[2] + 1 \in 0 .. MaxReconciles
  BY <1>1, TestWriteAssumption
<1> QED  BY <1>1, <1>2 DEF Jobs, ReconcileOf

LEMMA ReconcileIsNoWrite ==
    ASSUME NEW j \in Jobs, NEW g \in Grants
    PROVE  ReconcileOf(j) # Write(g)
<1>1. j[2] \in Nat
  BY TestWriteAssumption DEF Jobs
<1> QED  BY <1>1 DEF ReconcileOf, Write

\* A transition stays inside the surface.
LEMMA TransitionsAreStates ==
    ASSUME execution \in ExecutionState, NEW target, TransitionExecution(target)
    PROVE  execution' \in ExecutionState
<1>1. CASE MayBecome(execution, target)
  <2>1. execution' = target
    BY <1>1 DEF TransitionExecution
  <2>2. \A s \in ExecutionState : ExecutionTransitions[s] \subseteq ExecutionState
    BY DEF ExecutionState, ExecutionTransitions
  <2> QED  BY <1>1, <2>1, <2>2 DEF MayBecome
<1>2. CASE ~MayBecome(execution, target)
  BY <1>2 DEF TransitionExecution
<1> QED  BY <1>1, <1>2

LEMMA AtRestIsTyped ==
    AtRest \in [step: RequestSteps, job: Jobs \cup {NoJob}, seen: ExecutionState]
BY DEF AtRest, RequestSteps, ExecutionState

LEMMA HandlersInit == Init => HandlersOK
<1> SUFFICES ASSUME Init
             PROVE  HandlersOK
  OBVIOUS
<1>1. request \in [Requests -> [step: RequestSteps, job: Jobs \cup {NoJob},
                                seen: ExecutionState]]
  BY AtRestIsTyped DEF Init
<1>2. execution \in ExecutionState
  BY DEF Init, ExecutionState
<1>3. \A r \in Requests : request[r].step = "rest"
  BY DEF Init, AtRest
<1> QED  BY <1>1, <1>2, <1>3 DEF HandlersOK, At

LEMMA HandlersStep == HandlersOK /\ [Next]_vars => HandlersOK'
<1> SUFFICES ASSUME HandlersOK, [Next]_vars
             PROVE  HandlersOK'
  OBVIOUS
<1> DEFINE Typed == [step: RequestSteps, job: Jobs \cup {NoJob}, seen: ExecutionState]
           Good(q) == /\ q \in Typed
                      /\ q.step \in {"authorize", "consume"}
                             => q.job \in {Write(g) : g \in Grants}
                      /\ q.step = "reconcile" => /\ q.job \in Jobs
                                                 /\ q.job[2] < MaxReconciles
<1>d. HandlersOK <=> /\ execution \in ExecutionState
                     /\ request \in [Requests -> Typed]
                     /\ \A r \in Requests : Good(request[r])
  BY DEF HandlersOK, At
<1>e. ASSUME /\ execution' \in ExecutionState
             /\ request' \in [Requests -> Typed]
             /\ \A r \in Requests : Good(request'[r])
      PROVE  HandlersOK'
  BY <1>e DEF HandlersOK, At
<1>r. Good(AtRest)
  BY AtRestIsTyped DEF AtRest
<1> HIDE DEF Typed
<1>g. \A q : Good(q) => q \in Typed
  OBVIOUS
<1> HIDE DEF Good
<1>w. ASSUME NEW r \in Requests, NEW q, Good(q),
             request' = [request EXCEPT ![r] = q], execution' \in ExecutionState
      PROVE  HandlersOK'
  BY <1>w, <1>d, <1>e, <1>g
<1>1. ASSUME NEW r \in Requests, HandlerStep(r)
      PROVE  HandlersOK'
  <2>1. CASE /\ request' = [request EXCEPT ![r] = AtRest]
             /\ execution' \in ExecutionState
    BY <2>1, <1>w, <1>r
  <2>2. CASE IssueRead(r)
    <3>1. Good([step |-> "issue", job |-> NoJob, seen |-> execution])
      BY <1>d DEF Good, Typed, RequestSteps
    <3> QED  BY <2>2, <3>1, <1>w, <1>d DEF IssueRead, Proceed
  <2>3. ASSUME NEW g \in Grants, IssueInsert(r, g)
        PROVE  HandlersOK'
    <3>1. request[r].seen \in ExecutionState
      BY <1>d DEF Good, Typed
    <3>2. Good([step |-> "authorize", job |-> Write(g), seen |-> request[r].seen])
      BY <3>1, WriteIsJob DEF Good, Typed, RequestSteps
    <3> QED  BY <2>3, <3>2, <1>w, <1>d DEF IssueInsert, Proceed
  <2>4. CASE IssueSettle(r)
    BY <2>1, <2>4, <1>d, TransitionsAreStates DEF IssueSettle, Return
  <2>5. ASSUME NEW g \in Grants, RevokeGrant(r, g)
        PROVE  HandlersOK'
    <3>1. Good([step |-> "read", job |-> Write(g), seen |-> "NONE"])
      BY WriteIsJob DEF Good, Typed, RequestSteps, ExecutionState
    <3> QED  BY <2>5, <3>1, <1>w, <1>d DEF RevokeGrant, Proceed
  <2>6. CASE RevokeRead(r)
    <3>1. Good([step |-> "reset", job |-> NoJob, seen |-> execution])
      BY <1>d DEF Good, Typed, RequestSteps
    <3> QED  BY <2>6, <3>1, <1>r, <1>w, <1>d DEF RevokeRead, Proceed, Return
  <2>7. CASE RevokeReset(r)
    BY <2>1, <2>7, <1>d, TransitionsAreStates DEF RevokeReset, Return
  <2>8. ASSUME NEW g \in Grants, ExecuteRead(r, g)
        PROVE  HandlersOK'
    <3>1. Good([step |-> "consume", job |-> Write(g), seen |-> execution])
      BY <1>d, WriteIsJob DEF Good, Typed, RequestSteps
    <3> QED  BY <2>8, <3>1, <1>w, <1>d DEF ExecuteRead, Proceed
  <2>9. CASE Consume(r)
    <3>1. request[r].job \in Jobs \cup {NoJob}
      BY <1>d DEF Good, Typed
    <3>2. Good([step |-> "mark", job |-> request[r].job, seen |-> "NONE"])
      BY <3>1 DEF Good, Typed, RequestSteps, ExecutionState
    <3> QED  BY <2>9, <3>2, <1>r, <1>w, <1>d DEF Consume, Proceed, Return
  <2>10. CASE ExecuteMark(r)
    BY <2>1, <2>10, <1>d, TransitionsAreStates DEF ExecuteMark, Return
  <2>11. ASSUME NEW j \in Jobs, ReconcileRead(r, j)
         PROVE  HandlersOK'
    <3>1. Good([step |-> "reconcile", job |-> j, seen |-> execution])
      BY <2>11, <1>d DEF Good, Typed, RequestSteps, ReconcileRead
    <3> QED  BY <2>11, <3>1, <1>w, <1>d DEF ReconcileRead, Proceed
  <2>12. CASE ReconcileEnqueue(r)
    BY <2>1, <2>12, <1>d DEF ReconcileEnqueue, Return
  <2>13. CASE HandlerDies(r)
    BY <2>1, <2>13, <1>d DEF HandlerDies, Return
  <2> QED  BY <1>1, <2>2, <2>3, <2>4, <2>5, <2>6, <2>7, <2>8, <2>9, <2>10, <2>11,
           <2>12, <2>13 DEF HandlerStep
<1>2. CASE request' = request /\ execution' \in ExecutionState
  BY <1>2, <1>d, <1>e
<1>3. ASSUME NEW w \in Workers, WorkerStep(w)
      PROVE  request' = request /\ execution' \in ExecutionState
  <2>1. SweepExecution => execution' \in ExecutionState
    BY <1>d DEF SweepExecution, ExecutionState
  <2> QED  BY <1>3, <2>1, <1>d, TransitionsAreStates
     DEF WorkerStep, RunStep, Claim, Poll, Create, Reconcile, Settle, Finish,
         Refused, Raised, RaisedRefused, Salvage, Escalate, Crash,
         Heartbeat, planeVars
<1>4. ASSUME NEW j \in Jobs, JobStep(j)
      PROVE  UNCHANGED <<request, execution>>
  BY <1>4 DEF JobStep, LeaseExpires, Cancel, Resume, planeVars
<1>5. ASSUME NEW g \in Grants, GrantExpires(g)
      PROVE  UNCHANGED <<request, execution>>
  BY <1>5 DEF GrantExpires
<1> QED  BY <1>1, <1>2, <1>3, <1>4, <1>5, <1>d DEF Next, vars

(***************************************************************************)
(* The control plane implements the job queue: every step is one of the    *)
(* queue's transactions or leaves the table alone.                         *)
(***************************************************************************)

LEMMA HandlersUseQueue ==
    ASSUME HandlersOK, NEW r \in Requests, HandlerStep(r)
    PROVE  (\E j \in Jobs : Queue!Enqueue(j)) \/ UNCHANGED queueVars
<1>1. CASE Consume(r)
  <2>1. PICK g \in Grants : At(r, "consume") => request[r].job = Write(g)
    BY <1>1 DEF HandlersOK, Consume
  <2>2. Write(About(r)) = Write(g) /\ Write(g) \in Jobs
    BY <1>1, <2>1, WriteIsJob DEF Consume, About
  <2> QED  BY <1>1, <2>2 DEF Consume
<1>2. CASE ReconcileEnqueue(r)
  <2>1. ReconcileOf(request[r].job) \in Jobs
    BY <1>2, ReconcileIsJob DEF HandlersOK, ReconcileEnqueue
  <2> QED  BY <1>2, <2>1 DEF ReconcileEnqueue
<1>3. CASE ~Consume(r) /\ ~ReconcileEnqueue(r)
  BY <1>3 DEF HandlerStep, IssueRead, IssueInsert, IssueSettle, RevokeGrant,
              RevokeRead, RevokeReset, ExecuteRead, ExecuteMark, ReconcileRead,
              HandlerDies
<1> QED  BY <1>1, <1>2, <1>3

LEMMA WorkersUseQueue ==
    ASSUME NEW w \in Workers, WorkerStep(w)
    PROVE  Queue!WorkerStep(w) \/ UNCHANGED queueVars
<1>1. ASSUME NEW j \in Jobs, Claim(w, j)
      PROVE  Queue!WorkerStep(w)
  BY <1>1 DEF Claim, Queue!WorkerStep
<1>2. CASE Poll(w)
  BY <1>2 DEF Poll, Queue!WorkerStep
<1>3. CASE Create(w) \/ Reconcile(w) \/ Settle(w) \/ Salvage(w) \/ Escalate(w)
           \/ Refused(w)
  BY <1>3 DEF Create, Reconcile, Settle, Salvage, Escalate, Refused
<1>4. CASE Finish(w)
  <2>1. JobVerdict(op[w].outcome) \in Queue!Statuses
    BY DEF JobVerdict, Queue!Statuses
  <2>2. Queue!Report(w, JobVerdict(op[w].outcome))
    BY <1>4 DEF Finish
  <2>3. \E status \in Queue!Statuses : Queue!Report(w, status)
    BY <2>1, <2>2, Zenon
  <2> QED  BY <2>3 DEF Queue!WorkerStep
<1>5. CASE Raised(w)
  <2>1. "RECONCILE_REQUIRED" \in Queue!Statuses
    BY DEF Queue!Statuses
  <2>2. Queue!Report(w, "RECONCILE_REQUIRED")
    BY <1>5 DEF Raised
  <2>3. \E status \in Queue!Statuses : Queue!Report(w, status)
    BY <2>1, <2>2, Zenon
  <2> QED  BY <2>3 DEF Queue!WorkerStep
<1>6. CASE RaisedRefused(w)
  BY <1>6 DEF RaisedRefused, Queue!WorkerStep
<1>7. CASE Heartbeat(w)
  BY <1>7 DEF Heartbeat, Queue!WorkerStep
<1>8. CASE Crash(w)
  BY <1>8 DEF Crash, Queue!WorkerStep
<1> QED  BY <1>1, <1>2, <1>3, <1>4, <1>5, <1>6, <1>7, <1>8 DEF WorkerStep, RunStep

LEMMA StepUsesQueue == HandlersOK /\ [Next]_vars => [Queue!Next]_queueVars
<1> SUFFICES ASSUME HandlersOK, [Next]_vars
             PROVE  Queue!Next \/ UNCHANGED queueVars
  OBVIOUS
<1>1. ASSUME NEW r \in Requests, HandlerStep(r)
      PROVE  Queue!Next \/ UNCHANGED queueVars
  BY <1>1, HandlersUseQueue DEF Queue!Next, Queue!JobStep
<1>2. ASSUME NEW w \in Workers, WorkerStep(w)
      PROVE  Queue!Next \/ UNCHANGED queueVars
  BY <1>2, WorkersUseQueue DEF Queue!Next
<1>3. ASSUME NEW j \in Jobs, JobStep(j)
      PROVE  Queue!Next
  BY <1>3 DEF JobStep, LeaseExpires, Cancel, Resume, Queue!Next, Queue!JobStep
<1>4. ASSUME NEW g \in Grants, GrantExpires(g)
      PROVE  UNCHANGED queueVars
  BY <1>4 DEF GrantExpires
<1> QED  BY <1>1, <1>2, <1>3, <1>4 DEF Next, vars

\* Every behaviour of the control plane is a behaviour of the job queue, so
\* all that holds of the queue holds of its jobs.
LEMMA UsesQueue == Spec => Queue!Spec
<1>1. Init => Queue!Init
  BY DEF Init
<1>2. HandlersOK /\ [Next]_vars => [Queue!Next]_(Queue!vars)
  BY StepUsesQueue DEF queueVars, Queue!vars
<1> QED  BY <1>1, <1>2, HandlersInit, HandlersStep, PTL DEF Spec, Queue!Spec

(***************************************************************************)
(* A grant is spent exactly when its job exists, and only spent grants     *)
(* reach the platform.                                                     *)
(***************************************************************************)

\* Consuming a grant and inserting its job are one step: no job runs without
\* its grant being spent, no spent grant is without its job.
ConsumedIsEnqueued ==
    \A g \in Grants : grant[g] = "CONSUMED" <=> row[Write(g)].status # "ABSENT"

\* Only spent grants have campaigns.
CampaignsAreSpent == \A g \in Grants : campaigns[g] > 0 => grant[g] = "CONSUMED"

\* A run is always the run of an inserted row.
RunsHaveRows ==
    \A w \in Workers : work[w] # Queue!Idle => row[work[w].job].status # "ABSENT"

GrantsOK ==
    /\ grant \in [Grants -> GrantStatus]
    /\ campaigns \in [Grants -> Nat]
    /\ RunsHaveRows
    /\ ConsumedIsEnqueued
    /\ CampaignsAreSpent

\* No statement of a worker removes a row or inserts one.
LEMMA StatementsKeepRows ==
    ASSUME Queue!TypeOK, NEW j \in Jobs
    PROVE  /\ Queue!Swept(row[j], Kind[j]).status = "ABSENT" <=> row[j].status = "ABSENT"
           /\ Queue!Claimable(Queue!Swept(row[j], Kind[j]), Kind[j])
                  => row[j].status # "ABSENT"
           /\ \A w : Queue!OwnedBy(row[j], w) => row[j].status # "ABSENT"
           /\ \A status : Queue!Finished(row[j], status).status = status
           /\ \A w : Queue!Claimed(Queue!Swept(row[j], Kind[j]), w).status = "RUNNING"
           /\ Queue!Renewed(row[j]).status = row[j].status
           /\ Queue!CancelledRow(row[j]).status = "CANCELLED"
           /\ Queue!Resumed(row[j]).status = "PENDING"
<1>1. row[j] \in Queue!Rows
  BY DEF Queue!TypeOK
<1>2. Queue!Swept(row[j], Kind[j]) \in Queue!Rows
  BY <1>1 DEF Queue!Swept, Queue!Rows, Queue!Statuses
<1>3. Queue!Swept(row[j], Kind[j]).status = "ABSENT" <=> row[j].status = "ABSENT"
  BY <1>1 DEF Queue!Swept, Queue!Rows, Queue!LeaseLapsed
<1>4. Queue!Claimable(Queue!Swept(row[j], Kind[j]), Kind[j])
          => row[j].status # "ABSENT"
  BY <1>3 DEF Queue!Claimable, Queue!LeaseLapsed
<1>5. \A w : Queue!Claimed(Queue!Swept(row[j], Kind[j]), w).status = "RUNNING"
  BY <1>2 DEF Queue!Claimed, Queue!Rows
<1>6. \A w : Queue!OwnedBy(row[j], w) => row[j].status # "ABSENT"
  BY DEF Queue!OwnedBy
<1>7. /\ \A status : Queue!Finished(row[j], status).status = status
      /\ Queue!Renewed(row[j]).status = row[j].status
      /\ Queue!CancelledRow(row[j]).status = "CANCELLED"
      /\ Queue!Resumed(row[j]).status = "PENDING"
  BY <1>1 DEF Queue!Finished, Queue!Renewed, Queue!CancelledRow, Queue!Resumed, Queue!Rows
<1> QED  BY <1>3, <1>4, <1>5, <1>6, <1>7

SameRows == \A j \in Jobs : row'[j].status = "ABSENT" <=> row[j].status = "ABSENT"

LEMMA WorkersKeepRows ==
    ASSUME Queue!TypeOK, RunsHaveRows, NEW w \in Workers,
           Queue!WorkerStep(w) \/ UNCHANGED queueVars
    PROVE  SameRows /\ RunsHaveRows'
<1>t. /\ row \in [Jobs -> Queue!Rows]
      /\ work \in [Workers -> [job: Jobs, run: Nat] \cup {Queue!Idle}]
  BY DEF Queue!TypeOK
<1>u. /\ \A j \in Jobs : Queue!SweptTable[j] = Queue!Swept(row[j], Kind[j])
      /\ Queue!SweptTable = [j \in Jobs |-> Queue!SweptTable[j]]
  BY DEF Queue!SweptTable
<1>r. ASSUME SameRows,
             \A v \in Workers : work'[v] # Queue!Idle => work'[v] = work[v]
      PROVE  RunsHaveRows'
  <2> SUFFICES ASSUME NEW v \in Workers, work'[v] # Queue!Idle
               PROVE  row'[work'[v].job].status # "ABSENT"
    BY DEF RunsHaveRows, Queue!Idle
  <2>1. work'[v] = work[v] /\ work[v].job \in Jobs
    BY <1>r, <1>t
  <2> QED  BY <2>1, <1>r DEF RunsHaveRows, SameRows
<1>1. ASSUME NEW j \in Jobs, Queue!Claim(w, j)
      PROVE  SameRows /\ RunsHaveRows'
  <2> DEFINE claimed == Queue!Claimed(Queue!Swept(row[j], Kind[j]), w)
  <2>1. /\ row' = [Queue!SweptTable EXCEPT ![j] = Queue!Claimed(@, w)]
        /\ Queue!Claimable(Queue!SweptTable[j], Kind[j])
        /\ work' = [work EXCEPT ![w] = [job |-> j, run |-> runs'[j]]]
    BY <1>1 DEF Queue!Claim, Queue!Candidates
  <2>2. /\ row'[j] = claimed
        /\ \A k \in Jobs \ {j} : row'[k] = Queue!Swept(row[k], Kind[k])
    BY <2>1, <1>u
  <2>3. claimed.status = "RUNNING" /\ row[j].status # "ABSENT"
    BY <2>1, <1>u, StatementsKeepRows
  <2>4. SameRows
    <3> SUFFICES ASSUME NEW k \in Jobs
                 PROVE  row'[k].status = "ABSENT" <=> row[k].status = "ABSENT"
      BY DEF SameRows
    <3> HIDE DEF claimed
    <3>1. CASE k = j
      BY <3>1, <2>2, <2>3
    <3>2. CASE k # j
      BY <3>2, <2>2, StatementsKeepRows
    <3> QED  BY <3>1, <3>2
  <2>5. RunsHaveRows'
    <3> SUFFICES ASSUME NEW v \in Workers, work'[v] # Queue!Idle
                 PROVE  row'[work'[v].job].status # "ABSENT"
      BY DEF RunsHaveRows, Queue!Idle
    <3>1. CASE v = w
      <4>1. work'[v].job = j
        BY <3>1, <2>1, <1>t
      <4> QED  BY <4>1, <2>2, <2>3
    <3>2. CASE v # w
      <4>1. work'[v] = work[v] /\ work[v].job \in Jobs
        BY <3>2, <2>1, <1>t
      <4> QED  BY <4>1, <2>4 DEF RunsHaveRows, SameRows
    <3> QED  BY <3>1, <3>2
  <2> QED  BY <2>4, <2>5
<1>2. CASE Queue!Poll(w)
  <2>1. row' = Queue!SweptTable /\ work' = work
    BY <1>2 DEF Queue!Poll
  <2>2. SameRows
    BY <2>1, <1>u, StatementsKeepRows DEF SameRows
  <2> QED  BY <2>1, <2>2, <1>r
<1>3. ASSUME NEW status, Queue!Report(w, status)
      PROVE  SameRows /\ RunsHaveRows'
  <2>1. /\ work[w] # Queue!Idle
        /\ work' = [work EXCEPT ![w] = Queue!Idle]
        /\ Queue!Verdict(w, work[w].job, status)
        /\ status \in Queue!Verdicts(work[w].job)
    BY <1>3 DEF Queue!Report
  <2>2. work[w].job \in Jobs /\ status # "ABSENT"
    BY <2>1, <1>t DEF Queue!Verdicts, Queue!FailureStatus
  <2>3. SameRows
    <3>1. CASE Queue!OwnedBy(row[work[w].job], w)
      <4>1. row' = [row EXCEPT ![work[w].job] = Queue!Finished(@, status)]
        BY <2>1, <3>1 DEF Queue!Verdict
      <4> QED  BY <4>1, <2>2, <3>1, <1>t, StatementsKeepRows DEF SameRows
    <3>2. CASE ~Queue!OwnedBy(row[work[w].job], w)
      BY <2>1, <3>2 DEF Queue!Verdict, SameRows
    <3> QED  BY <3>1, <3>2
  <2>4. \A v \in Workers : work'[v] # Queue!Idle => work'[v] = work[v]
    BY <2>1, <1>t
  <2> QED  BY <2>3, <2>4, <1>r
<1>4. CASE Queue!ReportRefused(w) \/ Queue!Crash(w)
  <2>1. row' = row /\ work' = [work EXCEPT ![w] = Queue!Idle]
    BY <1>4 DEF Queue!ReportRefused, Queue!Crash
  <2> QED  BY <2>1, <1>t, <1>r DEF SameRows
<1>5. CASE Queue!Heartbeat(w)
  <2>1. /\ row' = [j \in Jobs |-> IF Queue!OwnedBy(row[j], w)
                                  THEN Queue!Renewed(row[j]) ELSE row[j]]
        /\ work' = work
    BY <1>5 DEF Queue!Heartbeat
  <2>2. SameRows
    BY <2>1, StatementsKeepRows DEF SameRows
  <2> QED  BY <2>1, <2>2, <1>r
<1>6. CASE UNCHANGED queueVars
  BY <1>6, <1>r DEF queueVars, SameRows
<1> QED  BY <1>1, <1>2, <1>3, <1>4, <1>5, <1>6 DEF Queue!WorkerStep

LEMMA OperatorsKeepRows ==
    ASSUME Queue!TypeOK, RunsHaveRows, NEW j \in Jobs,
           \/ Queue!LeaseExpires(j) \/ Queue!Cancel(j) \/ Queue!Resume(j)
    PROVE  SameRows /\ RunsHaveRows'
<1>1. row \in [Jobs -> Queue!Rows] /\ work' = work
  BY DEF Queue!TypeOK, Queue!LeaseExpires, Queue!Cancel, Queue!Resume
<1>2. SameRows
  <2>1. CASE Queue!LeaseExpires(j)
    BY <2>1, <1>1 DEF Queue!LeaseExpires, Queue!Rows, SameRows
  <2>2. CASE Queue!Cancel(j)
    BY <2>2, <1>1, StatementsKeepRows DEF Queue!Cancel, Queue!Cancellable, SameRows
  <2>3. CASE Queue!Resume(j)
    BY <2>3, <1>1, StatementsKeepRows DEF Queue!Resume, Queue!Resumable, SameRows
  <2> QED  BY <2>1, <2>2, <2>3
<1>3. \A w \in Workers : work[w] # Queue!Idle => work[w].job \in Jobs
  BY DEF Queue!TypeOK
<1> QED  BY <1>1, <1>2, <1>3 DEF RunsHaveRows, SameRows, Queue!Idle

LEMMA GrantsInit == Init => GrantsOK
BY WriteIsJob DEF Init, Queue!Init, GrantsOK, GrantStatus, RunsHaveRows,
                  ConsumedIsEnqueued, CampaignsAreSpent, Queue!NoRow

\* A step that inserts no write and spends no grant.
LEMMA GrantsKept ==
    ASSUME GrantsOK, campaigns' = campaigns, RunsHaveRows',
           grant' \in [Grants -> GrantStatus],
           \A g \in Grants : grant'[g] = "CONSUMED" <=> grant[g] = "CONSUMED",
           \A g \in Grants : row'[Write(g)].status = "ABSENT"
                                 <=> row[Write(g)].status = "ABSENT"
    PROVE  GrantsOK'
<1>1. ConsumedIsEnqueued'
  BY DEF GrantsOK, ConsumedIsEnqueued, Write
<1>2. CampaignsAreSpent'
  BY DEF GrantsOK, CampaignsAreSpent
<1> QED  BY <1>1, <1>2 DEF GrantsOK

LEMMA EnqueueKeepsRuns ==
    ASSUME Queue!TypeOK, RunsHaveRows, NEW j \in Jobs, Queue!Enqueue(j)
    PROVE  /\ RunsHaveRows'
           /\ row'[j].status = "PENDING"
           /\ \A k \in Jobs \ {j} : row'[k] = row[k]
<1>1. /\ row \in [Jobs -> Queue!Rows]
      /\ \A w \in Workers : work[w] # Queue!Idle => work[w].job \in Jobs
  BY DEF Queue!TypeOK
<1>2. /\ row' = [row EXCEPT ![j] = Queue!Inserted]
      /\ Queue!Inserted.status = "PENDING"
      /\ work' = work
  BY DEF Queue!Enqueue, Queue!Inserted, Queue!NoRow
<1> HIDE DEF Queue!Inserted
<1>3. row'[j].status = "PENDING" /\ \A k \in Jobs \ {j} : row'[k] = row[k]
  BY <1>1, <1>2
<1>4. RunsHaveRows'
  BY <1>1, <1>2, <1>3 DEF RunsHaveRows, Queue!Idle
<1> QED  BY <1>3, <1>4

LEMMA GrantsStep ==
    ASSUME Queue!TypeOK, HandlersOK, GrantsOK, [Next]_vars
    PROVE  GrantsOK'
<1>t. /\ RunsHaveRows
      /\ grant \in [Grants -> GrantStatus]
      /\ campaigns \in [Grants -> Nat]
      /\ work \in [Workers -> [job: Jobs, run: Nat] \cup {Queue!Idle}]
  BY DEF GrantsOK, Queue!TypeOK
<1>q. ASSUME UNCHANGED queueVars
      PROVE  RunsHaveRows'
  BY <1>q, <1>t DEF queueVars, RunsHaveRows, Queue!Idle
<1>u. CASE UNCHANGED <<queueVars, grant, campaigns>>
  BY <1>u, <1>q, <1>t, GrantsKept DEF queueVars
<1>1. ASSUME NEW r \in Requests, HandlerStep(r)
      PROVE  GrantsOK'
  <2>1. CASE Consume(r)
    <3>1. PICK g \in Grants : About(r) = g
      <4>1. PICK g \in Grants : request[r].job = Write(g)
        BY <2>1 DEF HandlersOK, Consume
      <4> QED  BY <4>1, WriteIsJob DEF About
    <3>2. CASE UNCHANGED <<queueVars, grant>>
      BY <2>1, <3>2, <1>u DEF Consume
    <3>3. CASE /\ grant' = [grant EXCEPT ![g] = "CONSUMED"]
               /\ Queue!Enqueue(Write(g))
      <4>1. /\ RunsHaveRows'
            /\ row'[Write(g)].status = "PENDING"
            /\ \A h \in Grants \ {g} : row'[Write(h)] = row[Write(h)]
        <5>1. \A h \in Grants \ {g} : Write(h) \in Jobs \ {Write(g)}
          BY WriteIsJob
        <5> QED  BY <3>3, <1>t, <5>1, WriteIsJob, EnqueueKeepsRuns
      <4>2. grant'[g] = "CONSUMED" /\ \A h \in Grants \ {g} : grant'[h] = grant[h]
        BY <3>3, <1>t
      <4>3. ConsumedIsEnqueued'
        BY <4>1, <4>2 DEF GrantsOK, ConsumedIsEnqueued, Write
      <4>4. CampaignsAreSpent'
        BY <2>1, <4>2 DEF GrantsOK, CampaignsAreSpent, Consume
      <4>5. grant' \in [Grants -> GrantStatus] /\ campaigns' = campaigns
        BY <2>1, <3>3, <1>t DEF GrantStatus, Consume
      <4> QED  BY <4>1, <4>3, <4>4, <4>5, <1>t DEF GrantsOK
    <3> QED  BY <2>1, <3>1, <3>2, <3>3 DEF Consume
  <2>2. CASE ReconcileEnqueue(r)
    <3>1. request[r].job \in Jobs /\ ReconcileOf(request[r].job) \in Jobs
      BY <2>2, ReconcileIsJob DEF HandlersOK, ReconcileEnqueue
    <3>2. CASE Queue!Enqueue(ReconcileOf(request[r].job))
      <4>1. \A g \in Grants : Write(g) \in Jobs \ {ReconcileOf(request[r].job)}
        BY <3>1, WriteIsJob, ReconcileIsNoWrite
      <4>2. RunsHaveRows' /\ \A g \in Grants : row'[Write(g)] = row[Write(g)]
        BY <3>1, <3>2, <4>1, <1>t, EnqueueKeepsRuns
      <4> QED  BY <2>2, <4>2, <1>t, GrantsKept DEF ReconcileEnqueue
    <3>3. CASE UNCHANGED queueVars
      BY <2>2, <3>3, <1>u DEF ReconcileEnqueue
    <3> QED  BY <2>2, <3>2, <3>3 DEF ReconcileEnqueue
  <2>3. ASSUME NEW g \in Grants, UNCHANGED <<queueVars, campaigns>>,
               grant[g] # "CONSUMED",
               \E s \in {"ISSUED", "REVOKED"} : grant' = [grant EXCEPT ![g] = s]
        PROVE  GrantsOK'
    <3>1. /\ grant' \in [Grants -> GrantStatus]
          /\ \A h \in Grants : grant'[h] = "CONSUMED" <=> grant[h] = "CONSUMED"
      BY <2>3, <1>t DEF GrantStatus
    <3> QED  BY <2>3, <3>1, <1>q, GrantsKept DEF queueVars
  <2>4. ASSUME NEW g \in Grants, IssueInsert(r, g)
        PROVE  GrantsOK'
    BY <2>4, <2>3 DEF IssueInsert
  <2>5. CASE IssueSettle(r)
    <3>1. PICK g \in Grants : request[r].job = Write(g)
      BY <2>5 DEF HandlersOK, IssueSettle
    <3>2. About(r) = g
      BY <3>1, WriteIsJob DEF About
    <3>3. CASE grant[g] = "ISSUED" /\ RevokeIfIssued(g)
      BY <2>5, <3>3, <2>3 DEF IssueSettle, RevokeIfIssued
    <3>4. CASE grant[g] # "ISSUED" /\ RevokeIfIssued(g)
      <4>1. grant' = grant
        BY <3>4, <1>t DEF RevokeIfIssued
      <4> QED  BY <2>5, <4>1, <1>u DEF IssueSettle
    <3>5. CASE UNCHANGED grant
      BY <2>5, <3>5, <1>u DEF IssueSettle
    <3> QED  BY <2>5, <3>2, <3>3, <3>4, <3>5 DEF IssueSettle
  <2>6. ASSUME NEW g \in Grants, RevokeGrant(r, g)
        PROVE  GrantsOK'
    BY <2>6, <2>3 DEF RevokeGrant, RevokeIfIssued
  <2>7. ASSUME \/ IssueRead(r) \/ RevokeRead(r) \/ RevokeReset(r) \/ ExecuteMark(r)
               \/ \E g \in Grants : ExecuteRead(r, g)
               \/ \E j \in Jobs : ReconcileRead(r, j)
               \/ HandlerDies(r)
        PROVE  GrantsOK'
    BY <2>7, <1>u DEF IssueRead, RevokeRead, RevokeReset, ExecuteMark, ExecuteRead,
                      ReconcileRead, HandlerDies
  <2> QED  BY <1>1, <2>1, <2>2, <2>4, <2>5, <2>6, <2>7 DEF HandlerStep
<1>k. ASSUME UNCHANGED <<grant, campaigns>>, SameRows, RunsHaveRows'
      PROVE  GrantsOK'
  BY <1>k, <1>t, WriteIsJob, GrantsKept DEF SameRows
<1>2. ASSUME NEW w \in Workers, WorkerStep(w)
      PROVE  GrantsOK'
  <2>1. SameRows /\ RunsHaveRows'
    BY <1>2, <1>t, WorkersUseQueue, WorkersKeepRows
  <2>2. CASE Create(w)
    <3>1. work[w].job \in Jobs /\ work[w].job[2] = 0 /\ row[work[w].job].status # "ABSENT"
      BY <2>2, <1>t DEF Create, IsWrite, Job, RunsHaveRows
    <3>2. PICK g \in Grants : g = work[w].job[1] /\ work[w].job = Write(g)
      BY <3>1 DEF Jobs, Write
    <3>3. grant[g] = "CONSUMED" /\ grant' = grant
      BY <3>1, <3>2, <2>2 DEF GrantsOK, ConsumedIsEnqueued, Create
    <3>4. PICK n \in Nat : campaigns' = [campaigns EXCEPT ![g] = n]
      <4>1. campaigns[g] \in Nat /\ campaigns[g] + 1 \in Nat
        BY <1>t
      <4> QED  BY <2>2, <3>2, <4>1 DEF Create, Job
    <3>5. CampaignsAreSpent' /\ campaigns' \in [Grants -> Nat]
      BY <3>3, <3>4, <1>t DEF GrantsOK, CampaignsAreSpent
    <3>6. ConsumedIsEnqueued'
      BY <2>1, <3>3, WriteIsJob DEF GrantsOK, ConsumedIsEnqueued, SameRows, Write
    <3> QED  BY <2>1, <3>3, <3>5, <3>6, <1>t DEF GrantsOK
  <2>3. CASE ~Create(w)
    <3>1. UNCHANGED <<grant, campaigns>>
      BY <1>2, <2>3
         DEF WorkerStep, RunStep, Claim, Poll, Reconcile, Settle, Finish, Refused,
             Raised, RaisedRefused, Salvage, Escalate, Crash, Heartbeat, planeVars
    <3> QED  BY <2>1, <3>1, <1>k
  <2> QED  BY <2>2, <2>3
<1>3. ASSUME NEW j \in Jobs, JobStep(j)
      PROVE  GrantsOK'
  <2>1. Queue!LeaseExpires(j) \/ Queue!Cancel(j) \/ Queue!Resume(j)
    BY <1>3 DEF JobStep, LeaseExpires, Cancel, Resume
  <2>2. UNCHANGED <<grant, campaigns>>
    BY <1>3 DEF JobStep, LeaseExpires, Cancel, Resume, planeVars
  <2> QED  BY <2>1, <2>2, <1>t, <1>k, OperatorsKeepRows
<1>4. ASSUME NEW g \in Grants, GrantExpires(g)
      PROVE  GrantsOK'
  BY <1>4, <1>u DEF GrantExpires
<1>5. CASE UNCHANGED vars
  BY <1>5, <1>u DEF vars
<1> QED  BY <1>1, <1>2, <1>3, <1>4, <1>5 DEF Next

(***************************************************************************)
(* What the queue guarantees holds of the jobs of the control plane: the   *)
(* theorems of JobQueue_proofs, instantiated.                              *)
(***************************************************************************)

JobFacts == INSTANCE JobQueue_proofs

LEMMA QueueAssumptions == JobFacts!JobQueueAssumption
<1>1. Kind \in [Jobs -> JobFacts!JobKinds]
  BY DEF Kind, WriteKind, JobFacts!JobKinds, JobFacts!ExternalWriteKinds
<1>2. NoJob \notin Jobs
  BY TestWriteAssumption DEF Jobs
<1> QED  BY <1>1, <1>2, TestWriteAssumption

\* Queue and JobFacts are the same specification under two names.
LEMMA NextAgrees == Queue!Next <=> JobFacts!Next
BY
   DEF Queue!ExternalWriteKinds, JobFacts!ExternalWriteKinds,
       Queue!MaxAttempts, JobFacts!MaxAttempts, Queue!Statuses,
       JobFacts!Statuses, Queue!NoRow, JobFacts!NoRow, Queue!Inserted,
       JobFacts!Inserted, Queue!LeaseLapsed, JobFacts!LeaseLapsed,
       Queue!Claimable, JobFacts!Claimable, Queue!Swept, JobFacts!Swept,
       Queue!Claimed, JobFacts!Claimed, Queue!OwnedBy, JobFacts!OwnedBy,
       Queue!Renewed, JobFacts!Renewed, Queue!Finished, JobFacts!Finished,
       Queue!FailureStatus, JobFacts!FailureStatus, Queue!Cancellable,
       JobFacts!Cancellable, Queue!CancelledRow, JobFacts!CancelledRow,
       Queue!Resumable, JobFacts!Resumable, Queue!Resumed, JobFacts!Resumed,
       Queue!Idle, JobFacts!Idle, Queue!Rows, JobFacts!Rows, Queue!Enqueue,
       JobFacts!Enqueue, Queue!Cancel, JobFacts!Cancel, Queue!Resume,
       JobFacts!Resume, Queue!SweptTable, JobFacts!SweptTable,
       Queue!Candidates, JobFacts!Candidates, Queue!Claim, JobFacts!Claim,
       Queue!Poll, JobFacts!Poll, Queue!Verdicts, JobFacts!Verdicts,
       Queue!Verdict, JobFacts!Verdict, Queue!Report, JobFacts!Report,
       Queue!ReportRefused, JobFacts!ReportRefused, Queue!Heartbeat,
       JobFacts!Heartbeat, Queue!LeaseExpires, JobFacts!LeaseExpires,
       Queue!DelayElapses, JobFacts!DelayElapses, Queue!Crash,
       JobFacts!Crash, Queue!JobStep, JobFacts!JobStep, Queue!WorkerStep,
       JobFacts!WorkerStep, Queue!Next, JobFacts!Next

LEMMA QueueIsJobFacts == Queue!Spec <=> JobFacts!Spec
<1>1. Queue!Init <=> JobFacts!Init
  BY DEF Queue!Init, JobFacts!Init, Queue!Idle, JobFacts!Idle, Queue!NoRow, JobFacts!NoRow
<1>2. [Queue!Next]_(Queue!vars) <=> [JobFacts!Next]_(JobFacts!vars)
  BY NextAgrees DEF Queue!vars, JobFacts!vars
<1> QED  BY <1>1, <1>2, PTL DEF Queue!Spec, JobFacts!Spec

LEMMA QueueTypes == Spec => []Queue!TypeOK
<1>1. JobFacts!TypeOK => Queue!TypeOK
  BY DEF Queue!TypeOK, JobFacts!TypeOK, Queue!Rows, JobFacts!Rows,
         Queue!Statuses, JobFacts!Statuses, Queue!Idle, JobFacts!Idle
<1>2. JobFacts!Spec => []JobFacts!TypeOK
  BY QueueAssumptions, JobFacts!JobQueueTypes
<1> QED  BY <1>1, <1>2, UsesQueue, QueueIsJobFacts, PTL

LEMMA GrantsInvariant == Spec => []GrantsOK
<1>1. Queue!TypeOK /\ HandlersOK /\ GrantsOK /\ [Next]_vars => GrantsOK'
  BY GrantsStep
<1> QED  BY <1>1, QueueTypes, HandlersInit, HandlersStep, GrantsInit, PTL DEF Spec

\* Whatever handlers, workers and operators do, and wherever they die, a grant
\* is spent exactly when its job exists.
THEOREM TestWriteConsumedIsEnqueued == Spec => []ConsumedIsEnqueued
<1>1. GrantsOK => ConsumedIsEnqueued
  BY DEF GrantsOK
<1> QED  BY <1>1, GrantsInvariant, PTL

\* The job of a grant runs once for its enqueue and once for each resume.
THEOREM TestWriteRunsAreAuthorised ==
    Spec => [](\A g \in Grants : runs[Write(g)] <= resumes[Write(g)] + 1)
<1>1. JobFacts!Spec => []JobFacts!RunsAreAuthorised
  BY QueueAssumptions, JobFacts!JobQueueRunsAreAuthorised
<1>2. Queue!TypeOK /\ JobFacts!RunsAreAuthorised
          => \A g \in Grants : runs[Write(g)] <= resumes[Write(g)] + 1
  <2> SUFFICES ASSUME Queue!TypeOK, JobFacts!RunsAreAuthorised, NEW g \in Grants
               PROVE  runs[Write(g)] <= resumes[Write(g)] + 1
    OBVIOUS
  <2>1. Write(g) \in Jobs /\ Kind[Write(g)] \in {"EXECUTE_TEST", "PRODUCTION_CREATE"}
    BY WriteIsJob DEF Kind, WriteKind
  <2>2. JobFacts!MaxAttempts(Kind[Write(g)]) = 1
    BY <2>1 DEF JobFacts!MaxAttempts, JobFacts!ExternalWriteKinds
  <2>3. runs[Write(g)] <= 1 * (resumes[Write(g)] + 1)
    BY <2>1, <2>2 DEF JobFacts!RunsAreAuthorised
  <2>4. resumes[Write(g)] \in Nat
    BY <2>1 DEF Queue!TypeOK
  <2> QED  BY <2>3, <2>4
<1> QED  BY <1>1, <1>2, QueueTypes, UsesQueue, QueueIsJobFacts, PTL

(***************************************************************************)
(* A grant creates once, and once more for every resume of its job.  A     *)
(* worker inside the engine with a write either still holds its row or the *)
(* row waits for reconciliation, which no statement leaves; so nobody else *)
(* is handed the same write meanwhile, and each of its runs creates at     *)
(* most once.                                                              *)
(***************************************************************************)

Held(r, w) == Queue!OwnedBy(r, w) \/ r.status = "RECONCILE_REQUIRED"

OpType == [step: OpSteps, outcome: Outcomes]

RestIsIdle ==
    \A w \in Workers : op[w].step \in {"loop", "salvage", "escalate"}
                         <=> work[w] = Queue!Idle

WritesOnce ==
    /\ op \in [Workers -> OpType]
    /\ RestIsIdle
    /\ \A g \in Grants, w \in Workers : InEngine(w, g) => Held(row[Write(g)], w)
    /\ \A g \in Grants, v, w \in Workers : InEngine(v, g) /\ InEngine(w, g) => v = w
    /\ \A g \in Grants : campaigns[g] <= runs[Write(g)]
    /\ \A g \in Grants, w \in Workers : InEngine(w, g) => campaigns[g] < runs[Write(g)]

LEMMA LoopingIsTyped == Looping \in OpType
BY DEF Looping, OpType, OpSteps, Outcomes

LEMMA WritesOnceInit == Init => WritesOnce
<1> SUFFICES ASSUME Init
             PROVE  WritesOnce
  OBVIOUS
<1>1. op \in [Workers -> OpType]
  BY LoopingIsTyped DEF Init
<1>2. \A w \in Workers : work[w] = Queue!Idle /\ op[w].step = "loop"
  BY DEF Init, Queue!Init, Looping
<1>3. \A g \in Grants : campaigns[g] <= runs[Write(g)]
  BY WriteIsJob DEF Init, Queue!Init
<1> QED  BY <1>1, <1>2, <1>3 DEF WritesOnce, InEngine, RestIsIdle

(***************************************************************************)
(* A row that is held stays held.                                          *)
(***************************************************************************)

LEMMA WritesAreExternal ==
    ASSUME NEW g \in Grants
    PROVE  Kind[Write(g)] \in Queue!ExternalWriteKinds
BY WriteIsJob DEF Kind, WriteKind, Queue!ExternalWriteKinds

LEMMA HeldIsNotClaimed ==
    ASSUME Queue!TypeOK, NEW g \in Grants, NEW w, Held(row[Write(g)], w)
    PROVE  /\ Held(Queue!SweptTable[Write(g)], w)
           /\ Write(g) \notin Queue!Candidates(Queue!SweptTable)
<1>1. Write(g) \in Jobs /\ row[Write(g)] \in Queue!Rows
  BY WriteIsJob DEF Queue!TypeOK
<1>2. Queue!SweptTable[Write(g)] = Queue!Swept(row[Write(g)], Kind[Write(g)])
  BY <1>1 DEF Queue!SweptTable
<1>3. CASE Queue!LeaseLapsed(row[Write(g)])
  <2>1. Queue!SweptTable[Write(g)].status = "RECONCILE_REQUIRED"
    BY <1>1, <1>2, <1>3, WritesAreExternal DEF Queue!Swept, Queue!Rows
  <2> QED  BY <2>1 DEF Held, Queue!Candidates, Queue!Claimable, Queue!LeaseLapsed
<1>4. CASE ~Queue!LeaseLapsed(row[Write(g)])
  <2>1. Queue!SweptTable[Write(g)] = row[Write(g)]
    BY <1>2, <1>4 DEF Queue!Swept
  <2> QED  BY <2>1, <1>4 DEF Held, Queue!OwnedBy, Queue!Candidates, Queue!Claimable
<1> QED  BY <1>3, <1>4

LEMMA HeldStays ==
    ASSUME Queue!TypeOK, NEW g \in Grants, NEW w, Held(row[Write(g)], w),
           \/ \E j \in Jobs : \/ Queue!Enqueue(j) \/ Queue!Cancel(j) \/ Queue!Resume(j)
                              \/ Queue!LeaseExpires(j)
           \/ \E v \in Workers : \/ \E j \in Jobs : Queue!Claim(v, j)
                                 \/ v # w /\ \E status : Queue!Report(v, status)
                                 \/ Queue!Poll(v) \/ Queue!ReportRefused(v)
                                 \/ Queue!Heartbeat(v) \/ Queue!Crash(v)
           \/ UNCHANGED queueVars
    PROVE  Held(row'[Write(g)], w)
<1>t. /\ row \in [Jobs -> Queue!Rows] /\ Write(g) \in Jobs
      /\ row[Write(g)].status \in {"RUNNING", "RECONCILE_REQUIRED"}
  BY WriteIsJob DEF Queue!TypeOK, Held, Queue!OwnedBy
<1>1. ASSUME NEW j \in Jobs, Queue!Enqueue(j) \/ Queue!Cancel(j) \/ Queue!Resume(j)
      PROVE  row'[Write(g)] = row[Write(g)]
  <2>1. row[j].status \notin {"RUNNING", "RECONCILE_REQUIRED"}
    BY <1>1 DEF Queue!Enqueue, Queue!Cancel, Queue!Resume, Queue!Cancellable, Queue!Resumable
  <2>2. \E r : row' = [row EXCEPT ![j] = r]
    BY <1>1 DEF Queue!Enqueue, Queue!Cancel, Queue!Resume
  <2> QED  BY <1>t, <2>1, <2>2
<1>2. ASSUME NEW j \in Jobs, Queue!LeaseExpires(j)
      PROVE  Held(row'[Write(g)], w)
  BY <1>t, <1>2 DEF Queue!LeaseExpires, Held, Queue!OwnedBy, Queue!Rows
<1>3. ASSUME NEW v \in Workers, NEW j \in Jobs, Queue!Claim(v, j)
      PROVE  Held(row'[Write(g)], w)
  <2>1. j # Write(g)
    BY <1>3, HeldIsNotClaimed DEF Queue!Claim
  <2>2. row' = [Queue!SweptTable EXCEPT ![j] = Queue!Claimed(@, v)]
    BY <1>3 DEF Queue!Claim
  <2>3. row'[Write(g)] = Queue!SweptTable[Write(g)]
    BY <1>t, <2>1, <2>2 DEF Queue!SweptTable
  <2> QED  BY <2>3, HeldIsNotClaimed
<1>4. ASSUME NEW v \in Workers, Queue!Poll(v)
      PROVE  Held(row'[Write(g)], w)
  BY <1>4, HeldIsNotClaimed DEF Queue!Poll
<1>5. ASSUME NEW v \in Workers, v # w, NEW status, Queue!Report(v, status)
      PROVE  row'[Write(g)] = row[Write(g)]
  <2>1. ~Queue!OwnedBy(row[Write(g)], v)
    BY <1>5 DEF Held, Queue!OwnedBy
  <2>2. CASE Queue!OwnedBy(row[work[v].job], v)
    <3>1. \E r : row' = [row EXCEPT ![work[v].job] = r]
      BY <1>5, <2>2 DEF Queue!Report, Queue!Verdict
    <3> QED  BY <1>t, <2>1, <2>2, <3>1
  <2>3. CASE ~Queue!OwnedBy(row[work[v].job], v)
    BY <1>5, <2>3 DEF Queue!Report, Queue!Verdict
  <2> QED  BY <2>2, <2>3
<1>6. ASSUME NEW v \in Workers, Queue!Heartbeat(v)
      PROVE  Held(row'[Write(g)], w)
  <2>1. row'[Write(g)] \in {row[Write(g)], Queue!Renewed(row[Write(g)])}
    BY <1>t, <1>6 DEF Queue!Heartbeat
  <2> QED  BY <1>t, <2>1 DEF Queue!Renewed, Held, Queue!OwnedBy, Queue!Rows
<1>7. ASSUME \/ \E v \in Workers : Queue!ReportRefused(v) \/ Queue!Crash(v)
             \/ UNCHANGED queueVars
      PROVE  row' = row
  BY <1>7 DEF Queue!ReportRefused, Queue!Crash, queueVars
<1> QED  BY <1>1, <1>2, <1>3, <1>4, <1>5, <1>6, <1>7

(***************************************************************************)
(* The steps.                                                              *)
(***************************************************************************)

\* A step that sends nobody into the engine and lets nobody create.
LEMMA WritesOnceKept ==
    ASSUME WritesOnce, op' \in [Workers -> OpType], RestIsIdle',
           campaigns' = campaigns, runs' = runs,
           \A g \in Grants, w \in Workers :
               InEngine(w, g)' => InEngine(w, g) /\ Held(row'[Write(g)], w)
    PROVE  WritesOnce'
<1>1. \A g \in Grants, w \in Workers : InEngine(w, g)' => Held(row[Write(g)], w)'
  BY DEF Held, Queue!OwnedBy, Write
<1>2. \A g \in Grants, v, w \in Workers : InEngine(v, g)' /\ InEngine(w, g)' => v = w
  BY DEF WritesOnce
<1>3. \A g \in Grants : campaigns'[g] <= runs'[Write(g)]
  BY DEF WritesOnce
<1>4. \A g \in Grants, w \in Workers : InEngine(w, g)' => campaigns'[g] < runs'[Write(g)]
  BY DEF WritesOnce
<1> QED  BY <1>1, <1>2, <1>3, <1>4 DEF WritesOnce, Write

LEMMA OthersKeepWritesOnce ==
    ASSUME Queue!TypeOK, HandlersOK, WritesOnce,
           \/ \E r \in Requests : HandlerStep(r)
           \/ \E j \in Jobs : JobStep(j)
           \/ \E g \in Grants : GrantExpires(g)
           \/ \E w \in Workers : Poll(w) \/ Heartbeat(w)
           \/ UNCHANGED vars
    PROVE  WritesOnce'
<1>1. \/ \E j \in Jobs : \/ Queue!Enqueue(j) \/ Queue!Cancel(j) \/ Queue!Resume(j)
                         \/ Queue!LeaseExpires(j)
      \/ \E w \in Workers : Queue!Poll(w) \/ Queue!Heartbeat(w)
      \/ UNCHANGED queueVars
  BY HandlersUseQueue
     DEF JobStep, LeaseExpires, Cancel, Resume, GrantExpires, Poll, Heartbeat, vars
<1>2. UNCHANGED <<op, campaigns>>
  BY DEF HandlerStep, IssueRead, IssueInsert, IssueSettle, RevokeGrant, RevokeRead,
         RevokeReset, ExecuteRead, Consume, ExecuteMark, ReconcileRead, ReconcileEnqueue,
         HandlerDies, JobStep, LeaseExpires, Cancel, Resume, planeVars, GrantExpires,
         Poll, Heartbeat, vars
<1>3. UNCHANGED <<work, runs>>
  BY <1>1 DEF Queue!Enqueue, Queue!Cancel, Queue!Resume, Queue!LeaseExpires,
              Queue!Poll, Queue!Heartbeat, queueVars
<1>4. \A g \in Grants, w \in Workers : InEngine(w, g)' <=> InEngine(w, g)
  BY <1>2, <1>3 DEF InEngine, Doing, Job, Write, Queue!Idle
<1>5. \A g \in Grants, w \in Workers : InEngine(w, g) => Held(row'[Write(g)], w)
  BY <1>1, HeldStays DEF WritesOnce
<1>6. op' \in [Workers -> OpType] /\ RestIsIdle'
  BY <1>2, <1>3 DEF WritesOnce, RestIsIdle, Queue!Idle
<1> QED  BY <1>2, <1>3, <1>4, <1>5, <1>6, WritesOnceKept

\* A step of a worker that leaves it outside the engine.
LEMMA OutsideKeepsWritesOnce ==
    ASSUME Queue!TypeOK, WritesOnce, NEW w \in Workers, NEW o \in OpType,
           op' = [op EXCEPT ![w] = o], o.step # "engine",
           work' = work \/ work' = [work EXCEPT ![w] = Queue!Idle],
           o.step \in {"loop", "salvage", "escalate"} <=> work'[w] = Queue!Idle,
           campaigns' = campaigns, runs' = runs,
           \/ \E status : Queue!Report(w, status)
           \/ Queue!ReportRefused(w) \/ Queue!Crash(w)
           \/ UNCHANGED queueVars
    PROVE  WritesOnce'
<1>1. op \in [Workers -> OpType] /\ work \in [Workers -> [job: Jobs, run: Nat] \cup {Queue!Idle}]
  BY DEF WritesOnce, Queue!TypeOK
<1>2. \A v \in Workers \ {w} : op'[v] = op[v] /\ work'[v] = work[v]
  BY <1>1
<1>3. op'[w] = o
  BY <1>1
<1>4. \A g \in Grants, v \in Workers : InEngine(v, g)' => v # w /\ InEngine(v, g)
  BY <1>2, <1>3 DEF InEngine, Doing, Job, Write, Queue!Idle
<1>5. \A g \in Grants, v \in Workers : v # w /\ InEngine(v, g) => Held(row'[Write(g)], v)
  BY HeldStays DEF WritesOnce
<1>6. op' \in [Workers -> OpType]
  BY <1>1
<1>7. RestIsIdle'
  BY <1>2, <1>3 DEF WritesOnce, RestIsIdle, Queue!Idle
<1> QED  BY <1>4, <1>5, <1>6, <1>7, WritesOnceKept

LEMMA ClaimKeepsWritesOnce ==
    ASSUME Queue!TypeOK, GrantsOK, WritesOnce, NEW w \in Workers, NEW j \in Jobs,
           Claim(w, j)
    PROVE  WritesOnce'
<1>t. /\ op \in [Workers -> OpType]
      /\ campaigns \in [Grants -> Nat]
      /\ row \in [Jobs -> Queue!Rows]
      /\ runs \in [Jobs -> Nat]
      /\ work \in [Workers -> [job: Jobs, run: Nat] \cup {Queue!Idle}]
  BY DEF WritesOnce, GrantsOK, Queue!TypeOK
<1>1. /\ Queue!Claim(w, j)
      /\ op' = [op EXCEPT ![w] = [step |-> "engine", outcome |-> "RAISED"]]
      /\ campaigns' = campaigns
  BY DEF Claim, Enter
<1>2. /\ row' = [Queue!SweptTable EXCEPT ![j] = Queue!Claimed(@, w)]
      /\ runs' = [runs EXCEPT ![j] = @ + 1]
      /\ work' = [work EXCEPT ![w] = [job |-> j, run |-> runs'[j]]]
      /\ work[w] = Queue!Idle
      /\ j \in Queue!Candidates(Queue!SweptTable)
  BY <1>1 DEF Queue!Claim
<1>3. \A v \in Workers \ {w} : op'[v] = op[v] /\ work'[v] = work[v]
  BY <1>t, <1>1, <1>2
<1>4. work'[w].job = j /\ op'[w].step = "engine"
  BY <1>t, <1>1, <1>2
<1>5. \A g \in Grants, v \in Workers : InEngine(v, g) => Held(row[Write(g)], v) /\ v # w
  BY <1>2 DEF WritesOnce, InEngine
\* Nobody else is in the engine with the job that is handed out.
<1>6. \A g \in Grants, v \in Workers : InEngine(v, g) => j # Write(g)
  BY <1>2, <1>5, HeldIsNotClaimed
<1>7. \A g \in Grants, v \in Workers :
          InEngine(v, g)' => IF v = w THEN j = Write(g) ELSE InEngine(v, g)
  BY <1>3, <1>4 DEF InEngine, Doing, Job, Write, Queue!Idle
<1>8. \A g \in Grants, v \in Workers : InEngine(v, g)' => Held(row[Write(g)], v)'
  <2> SUFFICES ASSUME NEW g \in Grants, NEW v \in Workers, InEngine(v, g)'
               PROVE  Held(row'[Write(g)], v)
    BY DEF Held, Queue!OwnedBy, Write
  <2>1. CASE v = w
    <3>1. Queue!Swept(row[j], Kind[j]) \in Queue!Rows
      BY <1>t DEF Queue!Swept, Queue!Rows, Queue!Statuses
    <3>2. row'[j] = Queue!Claimed(Queue!Swept(row[j], Kind[j]), w)
      BY <1>2 DEF Queue!SweptTable
    <3>3. Queue!OwnedBy(row'[j], w)
      BY <3>1, <3>2 DEF Queue!Claimed, Queue!Rows, Queue!OwnedBy
    <3> QED  BY <2>1, <3>3, <1>7 DEF Held
  <2>2. CASE v # w
    BY <2>2, <1>1, <1>5, <1>7, HeldStays
  <2> QED  BY <2>1, <2>2
<1>9. \A g \in Grants, u, v \in Workers : InEngine(u, g)' /\ InEngine(v, g)' => u = v
  BY <1>6, <1>7 DEF WritesOnce
<1>10. \A g \in Grants : campaigns'[g] <= runs'[Write(g)]
  <2> SUFFICES ASSUME NEW g \in Grants
               PROVE  campaigns[g] <= runs'[Write(g)]
    BY <1>1
  <2>1. campaigns[g] <= runs[Write(g)] /\ Write(g) \in Jobs
    BY WriteIsJob DEF WritesOnce
  <2>2. runs'[Write(g)] \in {runs[Write(g)], runs[Write(g)] + 1}
    BY <2>1, <1>t, <1>2
  <2> QED  BY <2>1, <2>2, <1>t
<1>11. \A g \in Grants, v \in Workers : InEngine(v, g)' => campaigns'[g] < runs'[Write(g)]
  <2> SUFFICES ASSUME NEW g \in Grants, NEW v \in Workers, InEngine(v, g)'
               PROVE  campaigns[g] < runs'[Write(g)]
    BY <1>1
  <2>1. Write(g) \in Jobs /\ campaigns[g] <= runs[Write(g)]
    BY WriteIsJob DEF WritesOnce
  <2>2. CASE v = w
    <3>1. runs'[Write(g)] = runs[Write(g)] + 1
      BY <2>1, <2>2, <1>t, <1>2, <1>7
    <3> QED  BY <2>1, <3>1, <1>t
  <2>3. CASE v # w
    <3>1. InEngine(v, g) /\ j # Write(g)
      BY <2>3, <1>6, <1>7
    <3>2. campaigns[g] < runs[Write(g)]
      BY <3>1 DEF WritesOnce
    <3>3. runs'[Write(g)] = runs[Write(g)]
      BY <3>1, <2>1, <1>t, <1>2
    <3> QED  BY <3>2, <3>3
  <2> QED  BY <2>2, <2>3
<1>12. op' \in [Workers -> OpType]
  BY <1>t, <1>1 DEF OpType, OpSteps, Outcomes
<1>13. RestIsIdle'
  <2>1. work'[w] # Queue!Idle
    BY <1>4, TestWriteAssumption DEF Jobs, Queue!Idle
  <2> QED  BY <1>3, <1>4, <2>1 DEF WritesOnce, RestIsIdle, Queue!Idle
<1> QED  BY <1>8, <1>9, <1>10, <1>11, <1>12, <1>13 DEF WritesOnce, Write

LEMMA CreateKeepsWritesOnce ==
    ASSUME Queue!TypeOK, GrantsOK, WritesOnce, NEW w \in Workers, Create(w)
    PROVE  WritesOnce'
<1>t. /\ op \in [Workers -> OpType]
      /\ campaigns \in [Grants -> Nat]
      /\ runs \in [Jobs -> Nat]
      /\ work \in [Workers -> [job: Jobs, run: Nat] \cup {Queue!Idle}]
  BY DEF WritesOnce, GrantsOK, Queue!TypeOK
<1>1. PICK g \in Grants : InEngine(w, g)
  <2>1. work[w] # Queue!Idle /\ work[w].job \in Jobs /\ work[w].job[2] = 0
    BY <1>t DEF Create, IsWrite, Job
  <2> QED  BY <2>1 DEF Create, InEngine, Job, Jobs, Write
<1>2. PICK n \in {campaigns[g], campaigns[g] + 1} : campaigns' = [campaigns EXCEPT ![g] = n]
  BY <1>1, WriteIsJob DEF Create, InEngine
<1>3. PICK o \in OpType : o.step # "engine" /\ o.step # "loop" /\ o.step # "salvage"
                          /\ o.step # "escalate" /\ op' = [op EXCEPT ![w] = o]
  <2>1. \A committed \in BOOLEAN : ExecuteOutcomes(committed) \subseteq Outcomes
    BY DEF ExecuteOutcomes, Outcomes
  <2>2. PICK outcome \in Outcomes : AfterEngine(w, outcome)
    BY <2>1 DEF Create
  <2> DEFINE step == IF outcome = "RAISED" THEN "raised" ELSE "settle"
  <2>3. /\ [step |-> step, outcome |-> outcome] \in OpType
        /\ step \in {"raised", "settle"}
    BY DEF OpType, OpSteps
  <2>4. op' = [op EXCEPT ![w] = [step |-> step, outcome |-> outcome]]
    BY <2>2 DEF AfterEngine, Enter
  <2> QED  BY <2>3, <2>4
<1>4. UNCHANGED queueVars
  BY DEF Create
<1>5. \A h \in Grants, v \in Workers : InEngine(v, h)' => v # w /\ InEngine(v, h)
  BY <1>t, <1>3, <1>4 DEF InEngine, Doing, Job, Write, Queue!Idle, queueVars
<1>6. \A v \in Workers : ~InEngine(v, g)'
  BY <1>1, <1>5 DEF WritesOnce
<1>7. /\ campaigns[g] + 1 <= runs[Write(g)]
      /\ \A h \in Grants \ {g} : campaigns'[h] = campaigns[h]
      /\ campaigns'[g] = n
  BY <1>t, <1>1, <1>2, WriteIsJob DEF WritesOnce
<1>8. \A h \in Grants : campaigns'[h] <= runs'[Write(h)]
  BY <1>t, <1>4, <1>7, WriteIsJob DEF WritesOnce, queueVars
<1>9. \A h \in Grants, v \in Workers : InEngine(v, h)' => campaigns'[h] < runs'[Write(h)]
  BY <1>4, <1>5, <1>6, <1>7 DEF WritesOnce, queueVars
<1>10. \A h \in Grants, v \in Workers : InEngine(v, h)' => Held(row[Write(h)], v)'
  BY <1>4, <1>5 DEF WritesOnce, queueVars, Held, Queue!OwnedBy, Write
<1>11. op' \in [Workers -> OpType] /\ RestIsIdle'
  BY <1>t, <1>1, <1>3, <1>4 DEF WritesOnce, RestIsIdle, queueVars, Queue!Idle, InEngine
<1> QED  BY <1>5, <1>8, <1>9, <1>10, <1>11 DEF WritesOnce, Write

LEMMA WorkersKeepWritesOnce ==
    ASSUME Queue!TypeOK, HandlersOK, GrantsOK, WritesOnce,
           NEW w \in Workers, WorkerStep(w)
    PROVE  WritesOnce'
<1>t. /\ op \in [Workers -> OpType]
      /\ work \in [Workers -> [job: Jobs, run: Nat] \cup {Queue!Idle}]
      /\ op[w].outcome \in Outcomes
  BY DEF WritesOnce, Queue!TypeOK, OpType
<1>o. ASSUME NEW step \in OpSteps \ {"engine", "loop", "salvage", "escalate"},
             NEW outcome \in Outcomes, Enter(w, step, outcome),
             work[w] # Queue!Idle, UNCHANGED <<queueVars, campaigns>>
      PROVE  WritesOnce'
  <2> DEFINE o == [step |-> step, outcome |-> outcome]
  <2>1. /\ o \in OpType
        /\ o.step \notin {"engine", "loop", "salvage", "escalate"}
        /\ op' = [op EXCEPT ![w] = o]
    BY <1>o DEF OpType, Enter
  <2>2. /\ work' = work /\ runs' = runs /\ campaigns' = campaigns /\ UNCHANGED queueVars
        /\ work'[w] # Queue!Idle
    BY <1>o DEF queueVars
  <2> HIDE DEF o
  <2> QED  BY <2>1, <2>2, OutsideKeepsWritesOnce
<1>i. ASSUME NEW step \in {"loop", "salvage", "escalate"},
             op' = [op EXCEPT ![w] = [step |-> step, outcome |-> "RAISED"]],
             work'[w] = Queue!Idle,
             work' = work \/ work' = [work EXCEPT ![w] = Queue!Idle],
             UNCHANGED <<runs, campaigns>>,
             \/ \E status : Queue!Report(w, status)
             \/ Queue!ReportRefused(w) \/ Queue!Crash(w)
             \/ UNCHANGED queueVars
      PROVE  WritesOnce'
  <2> DEFINE o == [step |-> step, outcome |-> "RAISED"]
  <2>1. /\ o \in OpType /\ o.step # "engine" /\ op' = [op EXCEPT ![w] = o]
        /\ o.step \in {"loop", "salvage", "escalate"}
    BY <1>i DEF OpType, OpSteps, Outcomes
  <2> HIDE DEF o
  <2> QED  BY <2>1, <1>i, OutsideKeepsWritesOnce
<1>1. CASE Create(w)
  BY <1>1, CreateKeepsWritesOnce
<1>2. ASSUME NEW j \in Jobs, Claim(w, j)
      PROVE  WritesOnce'
  BY <1>2, ClaimKeepsWritesOnce
<1>3. CASE Poll(w) \/ Heartbeat(w)
  BY <1>3, OthersKeepWritesOnce
<1>4. CASE Reconcile(w)
  <2>1. ReconcileOutcomes(Missing, Unique) \subseteq Outcomes
    BY DEF ReconcileOutcomes, Outcomes
  <2>2. PICK outcome \in Outcomes : AfterEngine(w, outcome)
    BY <1>4, <2>1 DEF Reconcile
  <2>w. work[w] # Queue!Idle
    BY <1>4 DEF Reconcile, Doing, WritesOnce, RestIsIdle
  <2>3. CASE outcome = "RAISED"
    BY <1>4, <2>2, <2>3, <2>w, <1>o DEF Reconcile, AfterEngine, OpSteps
  <2>4. CASE outcome # "RAISED"
    BY <1>4, <2>2, <2>4, <2>w, <1>o DEF Reconcile, AfterEngine, OpSteps
  <2> QED  BY <2>3, <2>4
<1>5. CASE Settle(w) \/ (Refused(w) /\ op[w].step \in {"settle", "finish"})
  <2>1. \E step \in {"finish", "raised"} : Enter(w, step, op[w].outcome)
    BY <1>5 DEF Settle, Refused
  <2>2. work[w] # Queue!Idle
    BY <1>5 DEF Settle, Refused, Doing, WritesOnce, RestIsIdle
  <2> QED  BY <1>5, <2>1, <2>2, <1>t, <1>o DEF Settle, Refused, OpSteps
<1>6. CASE Finish(w) \/ Raised(w)
  <2>1. PICK status : Queue!Report(w, status)
    BY <1>6 DEF Finish, Raised
  <2>2. work' = [work EXCEPT ![w] = Queue!Idle] /\ runs' = runs
    BY <2>1 DEF Queue!Report
  <2>3. work'[w] = Queue!Idle
    BY <2>2, <1>t
  <2>4. /\ \E step \in {"loop", "salvage"} :
               op' = [op EXCEPT ![w] = [step |-> step, outcome |-> "RAISED"]]
        /\ campaigns' = campaigns
    BY <1>6 DEF Finish, Raised, Enter, Loop, Looping
  <2> QED  BY <2>1, <2>2, <2>3, <2>4, <1>i
<1>7. CASE RaisedRefused(w) \/ Crash(w)
  <2>1. Queue!ReportRefused(w) \/ Queue!Crash(w)
    BY <1>7 DEF RaisedRefused, Crash
  <2>2. work' = [work EXCEPT ![w] = Queue!Idle] /\ runs' = runs
    BY <2>1 DEF Queue!ReportRefused, Queue!Crash
  <2>3. work'[w] = Queue!Idle
    BY <2>2, <1>t
  <2>4. /\ op' = [op EXCEPT ![w] = [step |-> "loop", outcome |-> "RAISED"]]
        /\ campaigns' = campaigns
    BY <1>7 DEF RaisedRefused, Crash, Loop, Looping
  <2> QED  BY <2>1, <2>2, <2>3, <2>4, <1>i
<1>8. CASE \/ Salvage(w) \/ Escalate(w)
           \/ Refused(w) /\ op[w].step \in {"salvage", "escalate"}
  <2>1. work[w] = Queue!Idle
    BY <1>8 DEF Salvage, Escalate, Refused, Doing, WritesOnce, RestIsIdle
  <2>2. /\ \E step \in {"loop", "escalate"} :
               op' = [op EXCEPT ![w] = [step |-> step, outcome |-> "RAISED"]]
        /\ UNCHANGED <<queueVars, campaigns>>
    BY <1>8 DEF Salvage, Escalate, Refused, Enter, Loop, Looping
  <2>3. work' = work /\ runs' = runs /\ work'[w] = Queue!Idle
    BY <2>1, <2>2 DEF queueVars
  <2> QED  BY <2>2, <2>3, <1>i
<1> QED  BY <1>1, <1>2, <1>3, <1>4, <1>5, <1>6, <1>7, <1>8 DEF WorkerStep, RunStep, Refused

LEMMA WritesOnceStep ==
    Queue!TypeOK /\ HandlersOK /\ GrantsOK /\ WritesOnce /\ [Next]_vars => WritesOnce'
BY WorkersKeepWritesOnce, OthersKeepWritesOnce DEF Next

\* Whatever leases lapse, workers stall and die or transactions are refused,
\* the platform sees at most one create for a grant, and one more for every
\* time an operator resumed its job.
THEOREM TestWriteWritesAreAuthorised == Spec => []WritesAreAuthorised
<1> DEFINE Authorised == \A g \in Grants : runs[Write(g)] <= resumes[Write(g)] + 1
<1>1. Queue!TypeOK /\ GrantsOK /\ WritesOnce /\ Authorised => WritesAreAuthorised
  <2> SUFFICES ASSUME Queue!TypeOK, GrantsOK, WritesOnce, Authorised, NEW g \in Grants
               PROVE  campaigns[g] <= resumes[Write(g)] + 1
    BY DEF WritesAreAuthorised
  <2>1. /\ campaigns[g] \in Nat
        /\ runs[Write(g)] \in Nat
        /\ resumes[Write(g)] \in Nat
    BY WriteIsJob DEF Queue!TypeOK, GrantsOK
  <2>2. campaigns[g] <= runs[Write(g)] /\ runs[Write(g)] <= resumes[Write(g)] + 1
    BY DEF WritesOnce
  <2> QED  BY <2>1, <2>2
<1>2. Spec => []Authorised
  BY TestWriteRunsAreAuthorised
<1>3. Queue!TypeOK /\ HandlersOK /\ GrantsOK /\ [Next]_vars => HandlersOK'
  BY HandlersStep
<1> HIDE DEF Authorised
<1> QED  BY <1>1, <1>2, <1>3, QueueTypes, HandlersInit, GrantsInvariant,
            WritesOnceInit, WritesOnceStep, PTL DEF Spec

(***************************************************************************)
(* A write that is being reconciled stays out of the workers' hands.       *)
(***************************************************************************)

LEMMA ReconcileRequiredStays ==
    ASSUME Queue!TypeOK, NEW g \in Grants, row[Write(g)].status = "RECONCILE_REQUIRED",
           \/ \E j \in Jobs : \/ Queue!Enqueue(j) \/ Queue!Cancel(j) \/ Queue!Resume(j)
                              \/ Queue!LeaseExpires(j)
           \/ \E w \in Workers : Queue!WorkerStep(w)
           \/ UNCHANGED queueVars
    PROVE  row'[Write(g)].status = "RECONCILE_REQUIRED"
<1>t. row \in [Jobs -> Queue!Rows] /\ Write(g) \in Jobs /\ Held(row[Write(g)], NoOwner)
  BY WriteIsJob DEF Queue!TypeOK, Held
\* No worker has the name of the missing owner.
<1>n. \A w \in Workers : w # NoOwner
  BY TestWriteAssumption
<1>1. Held(row'[Write(g)], NoOwner)
  BY <1>t, <1>n, HeldStays DEF Queue!WorkerStep
<1>2. row'[Write(g)].status = "RUNNING" => row[Write(g)].status = "RUNNING"
  <2>1. ASSUME NEW w \in Workers, NEW j \in Jobs, Queue!Claim(w, j)
        PROVE  row'[Write(g)] = Queue!Swept(row[Write(g)], Kind[Write(g)])
    <3>1. j # Write(g)
      BY <2>1, <1>t, HeldIsNotClaimed DEF Queue!Claim
    <3>2. row' = [Queue!SweptTable EXCEPT ![j] = Queue!Claimed(@, w)]
      BY <2>1 DEF Queue!Claim
    <3> QED  BY <1>t, <3>1, <3>2 DEF Queue!SweptTable
  <2>2. ASSUME NEW w \in Workers, Queue!Poll(w)
        PROVE  row'[Write(g)] = Queue!Swept(row[Write(g)], Kind[Write(g)])
    BY <1>t, <2>2 DEF Queue!Poll, Queue!SweptTable
  <2>3. Queue!Swept(row[Write(g)], Kind[Write(g)]) = row[Write(g)]
    BY DEF Queue!Swept, Queue!LeaseLapsed
  <2>4. ASSUME NEW w \in Workers, NEW status, Queue!Report(w, status)
        PROVE  row'[Write(g)] = row[Write(g)]
    <3>1. CASE Queue!OwnedBy(row[work[w].job], w)
      <4>1. /\ \E r : row' = [row EXCEPT ![work[w].job] = r]
            /\ work[w].job # Write(g)
        BY <2>4, <3>1 DEF Queue!Report, Queue!Verdict, Queue!OwnedBy
      <4> QED  BY <1>t, <4>1
    <3>2. CASE ~Queue!OwnedBy(row[work[w].job], w)
      BY <2>4, <3>2 DEF Queue!Report, Queue!Verdict
    <3> QED  BY <3>1, <3>2
  <2>5. ASSUME NEW w \in Workers, Queue!Heartbeat(w)
        PROVE  row'[Write(g)] = row[Write(g)]
    BY <1>t, <2>5 DEF Queue!Heartbeat, Queue!OwnedBy
  <2>6. ASSUME NEW w \in Workers, Queue!ReportRefused(w) \/ Queue!Crash(w)
        PROVE  row' = row
    BY <2>6 DEF Queue!ReportRefused, Queue!Crash
  <2>7. ASSUME NEW j \in Jobs, Queue!Enqueue(j) \/ Queue!Cancel(j) \/ Queue!Resume(j)
        PROVE  row'[Write(g)] = row[Write(g)]
    <3>1. j # Write(g) /\ \E r : row' = [row EXCEPT ![j] = r]
      BY <2>7 DEF Queue!Enqueue, Queue!Cancel, Queue!Resume, Queue!Cancellable,
                  Queue!Resumable
    <3> QED  BY <1>t, <3>1
  <2>8. ASSUME NEW j \in Jobs, Queue!LeaseExpires(j)
        PROVE  row'[Write(g)].status = row[Write(g)].status
    BY <1>t, <2>8 DEF Queue!LeaseExpires, Queue!Rows
  <2> QED  BY <2>1, <2>2, <2>3, <2>4, <2>5, <2>6, <2>7, <2>8
           DEF Queue!WorkerStep, queueVars
<1> QED  BY <1>1, <1>2 DEF Held, Queue!OwnedBy

\* The queue's part of a step.
QueueStep ==
    \/ \E j \in Jobs : \/ Queue!Enqueue(j) \/ Queue!Cancel(j) \/ Queue!Resume(j)
                       \/ Queue!LeaseExpires(j)
    \/ \E w \in Workers : Queue!WorkerStep(w)
    \/ UNCHANGED queueVars

LEMMA StepIsQueueStep == ASSUME HandlersOK, [Next]_vars PROVE QueueStep
BY HandlersUseQueue, WorkersUseQueue
   DEF Next, JobStep, LeaseExpires, Cancel, Resume, GrantExpires, vars, QueueStep

\* Only enqueue_reconcile inserts the row of a reconciliation, and it looks at
\* the source job first: with the first one the write waits for good, and the
\* source of a later one is itself a reconciliation.
SourceSurfaced ==
    \A j \in Jobs : j[2] > 0 /\ row[j].status # "ABSENT"
                        => row[Write(j[1])].status = "RECONCILE_REQUIRED"

LEMMA SourceOfJob ==
    ASSUME NEW j \in Jobs
    PROVE  /\ j[1] \in Grants /\ j[2] \in Nat /\ Write(j[1]) \in Jobs
           /\ j[2] = 0 => j = Write(j[1])
           /\ ReconcileOf(j)[1] = j[1] /\ ReconcileOf(j)[2] > 0
BY TestWriteAssumption DEF Jobs, Write, ReconcileOf

LEMMA SourceSurfacedInit == Init => SourceSurfaced
BY DEF Init, Queue!Init, Queue!NoRow, SourceSurfaced

LEMMA SourceSurfacedStep ==
    ASSUME Queue!TypeOK, HandlersOK, GrantsOK, SourceSurfaced, [Next]_vars
    PROVE  SourceSurfaced'
<1> SUFFICES ASSUME NEW j \in Jobs, j[2] > 0, row'[j].status # "ABSENT"
             PROVE  row'[Write(j[1])].status = "RECONCILE_REQUIRED"
  BY DEF SourceSurfaced, Write
<1>t. /\ j[1] \in Grants /\ Write(j[1]) \in Jobs /\ RunsHaveRows
      /\ row[j].status # "ABSENT" => row[Write(j[1])].status = "RECONCILE_REQUIRED"
  BY SourceOfJob DEF SourceSurfaced, GrantsOK
<1>s. ASSUME row[Write(j[1])].status = "RECONCILE_REQUIRED"
      PROVE  row'[Write(j[1])].status = "RECONCILE_REQUIRED"
  BY <1>s, <1>t, StepIsQueueStep, ReconcileRequiredStays DEF QueueStep
<1>1. CASE row[j].status # "ABSENT"
  BY <1>1, <1>t, <1>s
<1>2. CASE row[j].status = "ABSENT"
  <2>1. ~SameRows
    BY <1>2 DEF SameRows
  <2>2. PICK r \in Requests : HandlerStep(r)
    <3>1. ASSUME NEW w \in Workers, WorkerStep(w)
          PROVE  SameRows
      BY <3>1, <1>t, WorkersUseQueue, WorkersKeepRows
    <3>2. ASSUME NEW k \in Jobs, JobStep(k)
          PROVE  SameRows
      BY <3>2, <1>t, OperatorsKeepRows DEF JobStep, LeaseExpires, Cancel, Resume
    <3>3. UNCHANGED queueVars => SameRows
      BY DEF queueVars, SameRows
    <3> QED  BY <2>1, <3>1, <3>2, <3>3 DEF Next, GrantExpires, vars
  <2>3. ASSUME NEW k \in Jobs, Queue!Enqueue(k)
        PROVE  k = j
    BY <1>2, <1>t, <2>3, EnqueueKeepsRuns
  <2>4. CASE Consume(r)
    <3>1. PICK h \in Grants : request[r].job = Write(h)
      BY <2>4 DEF HandlersOK, Consume
    <3>2. Write(About(r)) = Write(h) /\ Write(h) \in Jobs /\ Write(h)[2] = 0
      BY <3>1, WriteIsJob DEF About
    <3>3. ~Queue!Enqueue(Write(About(r)))
      BY <3>2, <2>3
    <3> QED  BY <2>1, <2>4, <3>3 DEF Consume, queueVars, SameRows
  <2>5. CASE ReconcileEnqueue(r)
    <3>1. request[r].job \in Jobs /\ ReconcileOf(request[r].job) \in Jobs
      BY <2>5, ReconcileIsJob DEF HandlersOK, ReconcileEnqueue
    <3>2. CASE UNCHANGED queueVars
      BY <2>1, <3>2 DEF queueVars, SameRows
    <3>3. CASE /\ row[request[r].job].status = "RECONCILE_REQUIRED"
               /\ Queue!Enqueue(ReconcileOf(request[r].job))
      <4>1. ReconcileOf(request[r].job) = j
        BY <2>3, <3>1, <3>3
      <4>2. /\ request[r].job[1] = j[1] /\ request[r].job[2] \in Nat
            /\ request[r].job[2] = 0 => request[r].job = Write(j[1])
        BY <3>1, <4>1, SourceOfJob
      <4>3. row[Write(j[1])].status = "RECONCILE_REQUIRED"
        BY <3>1, <3>3, <4>2 DEF SourceSurfaced
      <4> QED  BY <4>3, <1>s
    <3> QED  BY <2>5, <3>2, <3>3 DEF ReconcileEnqueue
  <2>6. CASE ~Consume(r) /\ ~ReconcileEnqueue(r)
    <3>1. UNCHANGED queueVars
      BY <2>2, <2>6 DEF HandlerStep, IssueRead, IssueInsert, IssueSettle, RevokeGrant,
            RevokeRead, RevokeReset, ExecuteRead, ExecuteMark, ReconcileRead, HandlerDies
    <3> QED  BY <2>1, <3>1 DEF queueVars, SameRows
  <2> QED  BY <2>4, <2>5, <2>6
<1> QED  BY <1>1, <1>2

LEMMA SourceIsSurfaced == Spec => []SourceSurfaced
<1>1. Queue!TypeOK /\ HandlersOK /\ GrantsOK /\ SourceSurfaced /\ [Next]_vars
          => SourceSurfaced'
  BY SourceSurfacedStep
<1> QED  BY <1>1, SourceSurfacedInit, QueueTypes, HandlersInit, HandlersStep,
            GrantsInvariant, PTL DEF Spec

\* Once a write has a reconciliation, its row waits for reconciliation for
\* good: no sweep, claim, verdict, cancel or resume moves it.
THEOREM TestWriteReconciledNeverReplayed == Spec => []ReconciledNeverReplayed
<1>1. SourceSurfaced => ReconciledNeverReplayed
  <2> SUFFICES ASSUME SourceSurfaced, MaxReconciles > 0, NEW g \in Grants,
                      row[ReconcileOf(Write(g))].status # "ABSENT"
               PROVE  row[Write(g)].status = "RECONCILE_REQUIRED"
    BY DEF ReconciledNeverReplayed
  <2>1. /\ Write(g) \in Jobs /\ Write(g)[1] = g /\ Write(g)[2] < MaxReconciles
    BY WriteIsJob, TestWriteAssumption
  <2>2. ReconcileOf(Write(g)) \in Jobs
    BY <2>1, ReconcileIsJob
  <2>3. ReconcileOf(Write(g))[1] = g /\ ReconcileOf(Write(g))[2] > 0
    BY <2>1, SourceOfJob
  <2> QED  BY <2>2, <2>3 DEF SourceSurfaced
<1> QED  BY <1>1, SourceIsSurfaced, PTL

(***************************************************************************)
(* The types of the whole plane.                                           *)
(***************************************************************************)

LEMMA WritesOnceInvariant == Spec => []WritesOnce
<1>1. Queue!TypeOK /\ HandlersOK /\ GrantsOK /\ [Next]_vars => HandlersOK'
  BY HandlersStep
<1> QED  BY <1>1, QueueTypes, HandlersInit, GrantsInvariant, WritesOnceInit,
            WritesOnceStep, PTL DEF Spec

HistoryOK == expired \subseteq Grants /\ absent \subseteq Grants

\* A reconciliation rules out the write of the job it runs.
LEMMA HistoryStep ==
    ASSUME Queue!TypeOK, WritesOnce, HistoryOK, [Next]_vars PROVE HistoryOK'
<1>1. ASSUME NEW w \in Workers, Reconcile(w) PROVE HistoryOK'
  <2>1. work[w] # Queue!Idle
    BY <1>1 DEF Reconcile, Doing, WritesOnce, RestIsIdle
  <2>2. Job(w)[1] \in Grants
    BY <2>1, SourceOfJob DEF Queue!TypeOK, Job
  <2> QED  BY <1>1, <2>2 DEF Reconcile, HistoryOK
<1>2. ASSUME NEW w \in Workers, WorkerStep(w), ~Reconcile(w) PROVE HistoryOK'
  BY <1>2 DEF WorkerStep, RunStep, Claim, Poll, Create, Settle, Finish, Raised, Salvage,
              Escalate, Refused, RaisedRefused, Heartbeat, Crash, planeVars, HistoryOK
<1>3. ASSUME NEW r \in Requests, HandlerStep(r) PROVE HistoryOK'
  BY <1>3 DEF HandlerStep, IssueRead, IssueInsert, IssueSettle, RevokeGrant, RevokeRead,
              RevokeReset, ExecuteRead, Consume, ExecuteMark, ReconcileRead,
              ReconcileEnqueue, HandlerDies, HistoryOK
<1>4. ASSUME NEW j \in Jobs, JobStep(j) PROVE HistoryOK'
  BY <1>4 DEF JobStep, LeaseExpires, Cancel, Resume, planeVars, HistoryOK
<1>5. ASSUME NEW g \in Grants, GrantExpires(g) PROVE HistoryOK'
  BY <1>5 DEF GrantExpires, HistoryOK
<1> QED  BY <1>1, <1>2, <1>3, <1>4, <1>5 DEF Next, vars, HistoryOK

LEMMA HistoryInvariant == Spec => []HistoryOK
<1>1. Init => HistoryOK
  BY DEF Init, HistoryOK
<1>2. Queue!TypeOK /\ WritesOnce /\ HistoryOK /\ [Next]_vars => HistoryOK'
  BY HistoryStep
<1> QED  BY <1>1, <1>2, QueueTypes, WritesOnceInvariant, PTL DEF Spec

\* The types of grants, handlers, workers and jobs.
THEOREM TestWriteTypes == Spec => []TypeOK
<1>1. Queue!TypeOK /\ HandlersOK /\ GrantsOK /\ WritesOnce /\ HistoryOK => TypeOK
  BY DEF HandlersOK, GrantsOK, WritesOnce, OpType, HistoryOK, TypeOK
<1> QED  BY <1>1, QueueTypes, HandlersInit, HandlersStep, GrantsInvariant,
            WritesOnceInvariant, HistoryInvariant, PTL DEF Spec

(***************************************************************************)
(* What a reconciliation ruled out.  The write waits for reconciliation    *)
(* for good, so nobody is handed it again; the one worker that may still   *)
(* be inside the engine with it creates at most once, and then is outside. *)
(***************************************************************************)

\* A worker is in the engine with a write because it claims it now, or was
\* there before and someone else moves, or its process renews its leases.
LEMMA EngineRunsGoOn ==
    ASSUME Queue!TypeOK, WritesOnce, NEW g \in Grants, NEW w \in Workers,
           NEW v \in Workers, WorkerStep(v), InEngine(w, g)'
    PROVE  \/ v = w /\ Claim(w, Write(g))
           \/ InEngine(w, g) /\ (v # w \/ Heartbeat(w))
<1>t. /\ op \in [Workers -> OpType]
      /\ work \in [Workers -> [job: Jobs, run: Nat] \cup {Queue!Idle}]
  BY DEF WritesOnce, Queue!TypeOK
<1>g. op'[w].step = "engine" /\ work'[w] # Queue!Idle /\ work'[w].job = Write(g)
  BY DEF InEngine, Doing, Job, Write, Queue!Idle
<1>s. ASSUME op'[w] = op[w], work'[w] = work[w] PROVE InEngine(w, g)
  BY <1>g, <1>s DEF InEngine, Doing, Job
<1>1. ASSUME NEW j \in Jobs, Claim(v, j) PROVE (v = w /\ j = Write(g)) \/ (v # w /\ InEngine(w, g))
  <2>1. /\ op' = [op EXCEPT ![v] = [step |-> "engine", outcome |-> "RAISED"]]
        /\ \E n : work' = [work EXCEPT ![v] = [job |-> j, run |-> n]]
    BY <1>1 DEF Claim, Enter, Queue!Claim
  <2> QED  BY <2>1, <1>t, <1>g, <1>s
<1>2. CASE Poll(v)
  <2>1. op' = op /\ work' = work /\ op[v].step = "loop"
    BY <1>2 DEF Poll, Queue!Poll, Doing
  <2> QED  BY <2>1, <1>g, <1>s
<1>3. CASE Heartbeat(v)
  <2>1. op' = op /\ work' = work
    BY <1>3 DEF Heartbeat, planeVars, Queue!Heartbeat
  <2> QED  BY <2>1, <1>3, <1>s
<1>4. CASE RunStep(v) \/ Refused(v) \/ RaisedRefused(v) \/ Crash(v)
  <2>1. /\ \E o : o.step # "engine" /\ op' = [op EXCEPT ![v] = o]
        /\ work' = work \/ work' = [work EXCEPT ![v] = Queue!Idle]
    <3>1. CASE Create(v) \/ Reconcile(v)
      <4>1. \E outcome : AfterEngine(v, outcome)
        BY <3>1 DEF Create, Reconcile
      <4> QED  BY <3>1, <4>1 DEF Create, Reconcile, AfterEngine, Enter, queueVars
    <3>2. CASE Settle(v)
      BY <3>2 DEF Settle, Enter, queueVars
    <3>3. CASE Finish(v)
      BY <3>3 DEF Finish, Loop, Looping, Queue!Report
    <3>4. CASE Raised(v)
      BY <3>4 DEF Raised, Enter, Loop, Looping, Queue!Report
    <3>5. CASE Salvage(v) \/ Escalate(v) \/ Refused(v)
      BY <3>5 DEF Salvage, Escalate, Refused, Enter, Loop, Looping, queueVars
    <3>6. CASE RaisedRefused(v) \/ Crash(v)
      BY <3>6 DEF RaisedRefused, Crash, Loop, Looping, Queue!ReportRefused, Queue!Crash
    <3> QED  BY <1>4, <3>1, <3>2, <3>3, <3>4, <3>5, <3>6 DEF RunStep
  <2> QED  BY <2>1, <1>t, <1>g, <1>s
<1> QED  BY <1>1, <1>2, <1>3, <1>4 DEF WorkerStep

\* Nobody enters the engine with a write that waits for reconciliation.
LEMMA SurfacedIsNotEntered ==
    ASSUME Queue!TypeOK, HandlersOK, WritesOnce, [Next]_vars, NEW g \in Grants,
           row[Write(g)].status = "RECONCILE_REQUIRED",
           NEW w \in Workers, InEngine(w, g)'
    PROVE  InEngine(w, g)
<1>1. ASSUME NEW v \in Workers, WorkerStep(v)
      PROVE  InEngine(w, g)
  <2>1. ~Claim(w, Write(g))
    <3>1. Held(row[Write(g)], w)
      BY DEF Held
    <3> QED  BY <3>1, HeldIsNotClaimed DEF Claim, Queue!Claim
  <2> QED  BY <1>1, <2>1, EngineRunsGoOn
<1>2. ASSUME \/ \E r \in Requests : HandlerStep(r)
             \/ \E j \in Jobs : JobStep(j)
             \/ \E h \in Grants : GrantExpires(h)
             \/ UNCHANGED vars
      PROVE  InEngine(w, g)
  <2>1. op' = op
    BY <1>2 DEF HandlerStep, IssueRead, IssueInsert, IssueSettle, RevokeGrant, RevokeRead,
         RevokeReset, ExecuteRead, Consume, ExecuteMark, ReconcileRead, ReconcileEnqueue,
         HandlerDies, JobStep, LeaseExpires, Cancel, Resume, planeVars, GrantExpires, vars
  <2>2. \/ \E j \in Jobs : \/ Queue!Enqueue(j) \/ Queue!Cancel(j) \/ Queue!Resume(j)
                           \/ Queue!LeaseExpires(j)
        \/ UNCHANGED queueVars
    BY <1>2, HandlersUseQueue
       DEF JobStep, LeaseExpires, Cancel, Resume, GrantExpires, vars
  <2>3. work' = work
    BY <2>2 DEF Queue!Enqueue, Queue!Cancel, Queue!Resume, Queue!LeaseExpires, queueVars
  <2> QED  BY <2>1, <2>3 DEF InEngine, Doing, Job, Write, Queue!Idle
<1> QED  BY <1>1, <1>2 DEF Next

AbsentIsSurfaced ==
    \A g \in absent :
        /\ row[Write(g)].status = "RECONCILE_REQUIRED"
        /\ \/ campaigns[g] = 0
           \/ campaigns[g] = 1 /\ \A w \in Workers : ~InEngine(w, g)

\* Only a create makes a campaign, by a worker that leaves the engine with it.
LEMMA CreateLeavesEngine ==
    ASSUME Queue!TypeOK, GrantsOK, WritesOnce, NEW w \in Workers, Create(w)
    PROVE  \E g \in Grants :
               /\ InEngine(w, g)
               /\ \E n \in {campaigns[g], campaigns[g] + 1} :
                      campaigns' = [campaigns EXCEPT ![g] = n]
               /\ ~InEngine(w, g)'
<1>t. /\ op \in [Workers -> OpType]
      /\ work \in [Workers -> [job: Jobs, run: Nat] \cup {Queue!Idle}]
  BY DEF WritesOnce, Queue!TypeOK
<1>1. work[w] # Queue!Idle /\ work[w].job \in Jobs /\ work[w].job[2] = 0
  BY <1>t DEF Create, IsWrite, Job
<1>2. PICK g \in Grants : InEngine(w, g) /\ Job(w)[1] = g
  BY <1>1, WriteIsJob DEF Create, InEngine, Job, Jobs, Write
<1>3. PICK n \in {campaigns[g], campaigns[g] + 1} : campaigns' = [campaigns EXCEPT ![g] = n]
  BY <1>2 DEF Create
<1>4. op'[w].step # "engine"
  BY <1>t DEF Create, AfterEngine, Enter
<1> QED  BY <1>2, <1>3, <1>4 DEF InEngine, Doing

\* A step that is no create leaves the campaigns, one that is no
\* reconciliation rules nothing out.
LEMMA CampaignsAreCreated ==
    ASSUME [Next]_vars
    PROVE  /\ (\A w \in Workers : ~Create(w)) => campaigns' = campaigns
           /\ (\A w \in Workers : ~Reconcile(w)) => absent' = absent
<1>1. ASSUME NEW w \in Workers, WorkerStep(w)
      PROVE  /\ ~Create(w) => campaigns' = campaigns
             /\ ~Reconcile(w) => absent' = absent
  BY <1>1 DEF WorkerStep, RunStep, Claim, Poll, Create, Reconcile, Settle, Finish, Raised,
              Salvage, Escalate, Refused, RaisedRefused, Heartbeat, Crash, planeVars
<1>2. ASSUME NEW r \in Requests, HandlerStep(r) PROVE UNCHANGED <<absent, campaigns>>
  BY <1>2 DEF HandlerStep, IssueRead, IssueInsert, IssueSettle, RevokeGrant, RevokeRead,
              RevokeReset, ExecuteRead, Consume, ExecuteMark, ReconcileRead,
              ReconcileEnqueue, HandlerDies
<1>3. ASSUME NEW j \in Jobs, JobStep(j) PROVE UNCHANGED <<absent, campaigns>>
  BY <1>3 DEF JobStep, LeaseExpires, Cancel, Resume, planeVars
<1>4. ASSUME NEW g \in Grants, GrantExpires(g) PROVE UNCHANGED <<absent, campaigns>>
  BY <1>4 DEF GrantExpires
<1> QED  BY <1>1, <1>2, <1>3, <1>4 DEF Next, vars

LEMMA AbsentIsSurfacedStep ==
    ASSUME Queue!TypeOK, HandlersOK, GrantsOK, WritesOnce, HistoryOK, SourceSurfaced,
           AbsentIsSurfaced, [Next]_vars
    PROVE  AbsentIsSurfaced'
<1>t. absent \subseteq Grants /\ campaigns \in [Grants -> Nat]
  BY DEF HistoryOK, GrantsOK
<1>s. \A g \in absent : row'[Write(g)].status = "RECONCILE_REQUIRED"
  BY <1>t, StepIsQueueStep, ReconcileRequiredStays DEF QueueStep, AbsentIsSurfaced
<1>e. \A g \in absent, w \in Workers : InEngine(w, g)' => InEngine(w, g)
  BY <1>t, SurfacedIsNotEntered DEF AbsentIsSurfaced
<1>g. AbsentIsSurfaced' <=>
          \A g \in absent' :
              /\ row'[Write(g)].status = "RECONCILE_REQUIRED"
              /\ \/ campaigns'[g] = 0
                 \/ campaigns'[g] = 1 /\ \A w \in Workers : ~InEngine(w, g)'
  BY DEF AbsentIsSurfaced, Write
<1>k. \A g \in absent : campaigns'[g] = campaigns[g] =>
          /\ row'[Write(g)].status = "RECONCILE_REQUIRED"
          /\ \/ campaigns'[g] = 0
             \/ campaigns'[g] = 1 /\ \A w \in Workers : ~InEngine(w, g)'
  BY <1>s, <1>e DEF AbsentIsSurfaced
<1>1. ASSUME NEW w \in Workers, Reconcile(w)
      PROVE  AbsentIsSurfaced'
  <2>1. work[w] # Queue!Idle /\ op[w].step = "engine"
    BY <1>1 DEF Reconcile, Doing, WritesOnce, RestIsIdle
  <2>2. Job(w) \in Jobs /\ Job(w)[2] # 0 /\ row[Job(w)].status # "ABSENT"
    BY <1>1, <2>1 DEF Reconcile, IsWrite, Queue!TypeOK, Job, GrantsOK, RunsHaveRows
  <2>3. Job(w)[1] \in Grants /\ row[Write(Job(w)[1])].status = "RECONCILE_REQUIRED"
    BY <2>2, SourceOfJob DEF SourceSurfaced
  <2>4. UNCHANGED <<row, campaigns>>
    BY <1>1 DEF Reconcile, queueVars
  <2>5. absent' \subseteq absent \cup {Job(w)[1]}
        /\ (absent' # absent => Missing)
    BY <1>1 DEF Reconcile, ReconcileOutcomes
  <2>6. CASE absent' = absent
    BY <2>4, <2>6, <1>g, <1>k
  <2>7. CASE Missing
    <3>1. absent' \subseteq Grants
      BY <2>3, <2>5, <1>t
    <3>2. \A g \in absent' : /\ row'[Write(g)].status = "RECONCILE_REQUIRED"
                            /\ campaigns'[g] = 0
      BY <2>3, <2>4, <2>5, <2>7, <3>1, <1>s DEF Missing
    <3> QED  BY <3>2, <1>g
  <2> QED  BY <2>5, <2>6, <2>7
<1>2. ASSUME NEW w \in Workers, Create(w)
      PROVE  AbsentIsSurfaced'
  <2>1. PICK h \in Grants :
            /\ InEngine(w, h)
            /\ \E n \in {campaigns[h], campaigns[h] + 1} :
                   campaigns' = [campaigns EXCEPT ![h] = n]
            /\ ~InEngine(w, h)'
    BY <1>2, CreateLeavesEngine
  <2>2. absent' = absent /\ \A g \in Grants \ {h} : campaigns'[g] = campaigns[g]
    BY <1>2, <2>1, <1>t DEF Create
  <2>3. h \in absent => /\ row'[Write(h)].status = "RECONCILE_REQUIRED"
                        /\ campaigns'[h] \in {0, 1}
                        /\ \A v \in Workers : ~InEngine(v, h)'
    <3> SUFFICES ASSUME h \in absent
                 PROVE  /\ row'[Write(h)].status = "RECONCILE_REQUIRED"
                        /\ campaigns'[h] \in {0, 1}
                        /\ \A v \in Workers : ~InEngine(v, h)'
      OBVIOUS
    <3>1. campaigns[h] = 0
      BY <2>1 DEF AbsentIsSurfaced
    <3>2. campaigns'[h] \in {0, 1}
      BY <2>1, <3>1, <1>t
    <3>3. \A v \in Workers : ~InEngine(v, h)'
      BY <2>1, <1>e DEF WritesOnce
    <3> QED  BY <3>2, <3>3, <1>s
  <2> QED  BY <2>2, <2>3, <1>g, <1>k, <1>t
<1>3. CASE \A w \in Workers : ~Create(w) /\ ~Reconcile(w)
  <2>1. UNCHANGED <<absent, campaigns>>
    BY <1>3, CampaignsAreCreated
  <2> QED  BY <2>1, <1>g, <1>k
<1> QED  BY <1>1, <1>2, <1>3

\* However leases lapse, processes stall and die and transactions are refused:
\* a write that a reconciliation ruled out appears at most once afterwards, by
\* the create of a worker that no longer owns its job.
THEOREM TestWriteLateWriteIsStale == Spec => LateWriteIsStale
<1> DEFINE Late ==
        \A g \in absent : campaigns'[g] # campaigns[g] =>
            /\ campaigns'[g] = 1
            /\ \E w \in Workers : InEngine(w, g) /\ ~OwnedBy(row[Write(g)], w)
<1>1. Init => AbsentIsSurfaced
  BY DEF Init, AbsentIsSurfaced
<1>2. Queue!TypeOK /\ HandlersOK /\ GrantsOK /\ WritesOnce /\ HistoryOK /\ SourceSurfaced
          /\ AbsentIsSurfaced /\ [Next]_vars => AbsentIsSurfaced'
  BY AbsentIsSurfacedStep
<1>3. ASSUME Queue!TypeOK, GrantsOK, WritesOnce, HistoryOK, AbsentIsSurfaced, [Next]_vars
      PROVE  Late
  <2> SUFFICES ASSUME NEW g \in absent, campaigns'[g] # campaigns[g]
               PROVE  /\ campaigns'[g] = 1
                      /\ \E w \in Workers : InEngine(w, g) /\ ~OwnedBy(row[Write(g)], w)
    OBVIOUS
  <2>t. absent \subseteq Grants /\ campaigns \in [Grants -> Nat]
    BY <1>3 DEF HistoryOK, GrantsOK
  <2>1. PICK w \in Workers : Create(w)
    BY <1>3, CampaignsAreCreated
  <2>2. PICK h \in Grants :
            /\ InEngine(w, h)
            /\ \E n \in {campaigns[h], campaigns[h] + 1} :
                   campaigns' = [campaigns EXCEPT ![h] = n]
    BY <1>3, <2>1, CreateLeavesEngine
  <2>3. g = h /\ campaigns'[g] = campaigns[g] + 1
    BY <2>2, <2>t
  <2>4. campaigns[g] = 0 /\ row[Write(g)].status = "RECONCILE_REQUIRED"
    BY <1>3, <2>2, <2>3 DEF AbsentIsSurfaced
  <2> QED  BY <2>2, <2>3, <2>4 DEF OwnedBy
<1>4. Late => [Late]_vars
  OBVIOUS
<1>5. LateWriteIsStale <=> [][Late]_vars
  BY DEF LateWriteIsStale
<1> HIDE DEF Late
<1> QED  BY <1>1, <1>2, <1>3, <1>4, <1>5, QueueTypes, HandlersInit, HandlersStep,
            GrantsInvariant, WritesOnceInvariant, HistoryInvariant, SourceIsSurfaced,
            PTL DEF Spec

(***************************************************************************)
(* Rows that only a heartbeat keeps alive.                                 *)
(***************************************************************************)

\* While its lease is live, no statement of another process and no finishing
\* transaction for another job touches a row.
LEMMA OwnedStays ==
    ASSUME Queue!TypeOK, QueueStep, NEW w \in Workers, NEW j \in Jobs,
           OwnedBy(row[j], w), row[j].lease # "lapsed", Job(w) # j, w \in alive'
    PROVE  OwnedBy(row'[j], w) /\ work'[w].job # j
<1>t. /\ row \in [Jobs -> Queue!Rows]
      /\ work \in [Workers -> [job: Jobs, run: Nat] \cup {Queue!Idle}]
      /\ row[j].status = "RUNNING" /\ row[j].owner = w
      /\ Queue!Idle.job # j
  BY TestWriteAssumption DEF Queue!TypeOK, OwnedBy, Queue!Idle, Jobs
<1>s. Queue!SweptTable[j] = row[j] /\ j \notin Queue!Candidates(Queue!SweptTable)
  BY <1>t DEF Queue!SweptTable, Queue!Swept, Queue!LeaseLapsed, Queue!Candidates,
              Queue!Claimable
<1>k. ASSUME row'[j] = row[j], work' = work PROVE OwnedBy(row'[j], w) /\ work'[w].job # j
  BY <1>k, <1>t DEF OwnedBy, Job
<1>1. ASSUME NEW k \in Jobs,
             Queue!Enqueue(k) \/ Queue!Cancel(k) \/ Queue!Resume(k)
      PROVE  row'[j] = row[j] /\ work' = work
  <2>1. k # j
    BY <1>1, <1>t DEF Queue!Enqueue, Queue!Cancel, Queue!Resume, Queue!Cancellable,
                      Queue!Resumable
  <2>2. (\E r : row' = [row EXCEPT ![k] = r]) /\ work' = work
    BY <1>1 DEF Queue!Enqueue, Queue!Cancel, Queue!Resume
  <2> QED  BY <2>1, <2>2, <1>t
<1>2. ASSUME NEW k \in Jobs, Queue!LeaseExpires(k)
      PROVE  OwnedBy(row'[j], w) /\ work' = work
  BY <1>2, <1>t DEF Queue!LeaseExpires, Queue!Rows, OwnedBy
<1>3. ASSUME NEW v \in Workers, NEW k \in Jobs, Queue!Claim(v, k)
      PROVE  row'[j] = row[j] /\ work'[w].job # j
  <2>1. k # j
    BY <1>3, <1>s DEF Queue!Claim
  <2>2. /\ row' = [Queue!SweptTable EXCEPT ![k] = Queue!Claimed(@, v)]
        /\ \E n : work' = [work EXCEPT ![v] = [job |-> k, run |-> n]]
    BY <1>3 DEF Queue!Claim
  <2>3. row'[j] = row[j]
    BY <2>1, <2>2, <1>s, <1>t DEF Queue!SweptTable
  <2>4. work'[w].job # j
    BY <2>1, <2>2, <1>t DEF Job
  <2> QED  BY <2>3, <2>4
<1>4. ASSUME NEW v \in Workers, Queue!Poll(v)
      PROVE  row'[j] = row[j] /\ work' = work
  BY <1>4, <1>s DEF Queue!Poll
<1>5. ASSUME NEW v \in Workers,
             (\E status : Queue!Report(v, status)) \/ Queue!ReportRefused(v) \/ Queue!Crash(v)
      PROVE  row'[j] = row[j] /\ work'[w].job # j
  <2>1. work' = [work EXCEPT ![v] = Queue!Idle]
    BY <1>5 DEF Queue!Report, Queue!ReportRefused, Queue!Crash
  <2>2. work'[w].job # j
    BY <2>1, <1>t DEF Job
  <2>3. CASE row' = row
    BY <2>2, <2>3
  <2>4. CASE row' # row
    <3>1. PICK status : Queue!Report(v, status)
      BY <1>5, <2>4 DEF Queue!ReportRefused, Queue!Crash
    <3>2. /\ Queue!OwnedBy(row[work[v].job], v)
          /\ \E r : row' = [row EXCEPT ![work[v].job] = r]
      BY <3>1, <2>4 DEF Queue!Report, Queue!Verdict
    <3>3. work[v].job # j
      BY <3>2, <1>t DEF Queue!OwnedBy, Job
    <3> QED  BY <2>2, <3>2, <3>3, <1>t
  <2> QED  BY <2>3, <2>4
<1>6. ASSUME NEW v \in Workers, Queue!Heartbeat(v)
      PROVE  OwnedBy(row'[j], w) /\ work' = work
  BY <1>6, <1>t DEF Queue!Heartbeat, Queue!Renewed, Queue!Rows, OwnedBy
<1>7. CASE UNCHANGED queueVars
  BY <1>7, <1>k DEF queueVars
<1> QED  BY <1>1, <1>2, <1>3, <1>4, <1>5, <1>6, <1>7, <1>k, <1>t
         DEF QueueStep, Queue!WorkerStep, OwnedBy, Job

\* A row comes to a process by its claim, and its run ends with a verdict, with
\* the process, or by a refused transaction.
LEMMA LeftByRefusal ==
    ASSUME Queue!TypeOK, QueueStep, NEW w \in Workers, NEW j \in Jobs,
           w \in alive', OwnedBy(row'[j], w), work'[w].job # j,
           ~(w \in alive /\ OwnedBy(row[j], w) /\ Job(w) # j)
    PROVE  Job(w) = j /\ Queue!ReportRefused(w)
<1>t. /\ row \in [Jobs -> Queue!Rows]
      /\ work \in [Workers -> [job: Jobs, run: Nat] \cup {Queue!Idle}]
      /\ \A k \in Jobs : row[k].status = "RUNNING" <=> row[k].owner # NoOwner
      /\ w # NoOwner
      /\ row'[j].status = "RUNNING" /\ row'[j].owner = w
      /\ Queue!Idle.job # j
  BY TestWriteAssumption DEF Queue!TypeOK, OwnedBy, Queue!Idle, Jobs
<1>s. Queue!SweptTable[j] = Queue!Swept(row[j], Kind[j])
  BY DEF Queue!SweptTable
\* Nobody comes back to life, and no statement but a claim names an owner.
<1>o. ASSUME \/ OwnedBy(row[j], w) \/ Queue!OwnedBy(row[j], w),
             alive' \subseteq alive, work'[w] = work[w]
      PROVE  FALSE
  BY <1>o DEF Job, OwnedBy, Queue!OwnedBy
<1>1. ASSUME NEW k \in Jobs,
             Queue!Enqueue(k) \/ Queue!Cancel(k) \/ Queue!Resume(k) \/ Queue!LeaseExpires(k)
      PROVE  FALSE
  <2>1. work' = work /\ alive' = alive
    BY <1>1 DEF Queue!Enqueue, Queue!Cancel, Queue!Resume, Queue!LeaseExpires
  <2>2. OwnedBy(row[j], w)
    <3>1. CASE k = j /\ ~Queue!LeaseExpires(k)
      <4>1. row'[j] \in {Queue!Inserted, Queue!CancelledRow(row[j]), Queue!Resumed(row[j])}
        BY <1>1, <3>1, <1>t DEF Queue!Enqueue, Queue!Cancel, Queue!Resume
      <4>2. row'[j].status # "RUNNING"
        BY <4>1, <1>t DEF Queue!Inserted, Queue!NoRow, Queue!CancelledRow, Queue!Resumed,
                          Queue!Rows
      <4> QED  BY <4>2, <1>t
    <3>2. CASE k # j \/ Queue!LeaseExpires(k)
      BY <1>1, <3>2, <1>t
         DEF Queue!Enqueue, Queue!Cancel, Queue!Resume, Queue!LeaseExpires, Queue!Rows,
             OwnedBy
    <3> QED  BY <3>1, <3>2
  <2> QED  BY <2>1, <2>2, <1>o
<1>2. ASSUME Queue!Swept(row[j], Kind[j]).status = "RUNNING",
             Queue!Swept(row[j], Kind[j]).owner = w
      PROVE  OwnedBy(row[j], w)
  BY <1>2, <1>t DEF Queue!Swept, Queue!Rows, OwnedBy
<1>3. ASSUME NEW v \in Workers, NEW k \in Jobs, Queue!Claim(v, k)
      PROVE  FALSE
  <2>1. /\ row' = [Queue!SweptTable EXCEPT ![k] = Queue!Claimed(@, v)]
        /\ \E n : work' = [work EXCEPT ![v] = [job |-> k, run |-> n]]
        /\ work[v] = Queue!Idle /\ alive' = alive
    BY <1>3 DEF Queue!Claim
  <2>2. CASE k = j
    <3>1. Queue!Swept(row[j], Kind[j]) \in Queue!Rows
      BY <1>t DEF Queue!Swept, Queue!Rows, Queue!Statuses
    <3>2. row'[j] = Queue!Claimed(Queue!Swept(row[j], Kind[j]), v)
      BY <2>1, <2>2, <1>s DEF Queue!SweptTable
    <3>3. v = w
      BY <3>1, <3>2, <1>t DEF Queue!Claimed, Queue!Rows
    <3> QED  BY <2>1, <2>2, <3>3, <1>t
  <2>3. CASE k # j
    <3>1. row'[j] = Queue!Swept(row[j], Kind[j])
      BY <2>1, <2>3, <1>s DEF Queue!SweptTable
    <3>2. OwnedBy(row[j], w)
      BY <3>1, <1>t, <1>2
    <3>3. w \in alive /\ Job(w) = j
      BY <3>2, <2>1
    <3>4. v # w /\ work'[w] = work[w]
      BY <3>3, <2>1, <1>t DEF Job
    <3> QED  BY <3>2, <3>4, <2>1, <1>o
  <2> QED  BY <2>2, <2>3
<1>4. ASSUME NEW v \in Workers, Queue!Poll(v)
      PROVE  FALSE
  <2>1. row' = Queue!SweptTable /\ work' = work /\ alive' = alive
    BY <1>4 DEF Queue!Poll
  <2> QED  BY <2>1, <1>s, <1>t, <1>2, <1>o
<1>5. ASSUME NEW v \in Workers, Queue!Heartbeat(v)
      PROVE  FALSE
  <2>1. /\ row'[j] \in {row[j], Queue!Renewed(row[j])}
        /\ work' = work /\ alive' = alive
    BY <1>5 DEF Queue!Heartbeat
  <2>2. OwnedBy(row[j], w)
    BY <2>1, <1>t DEF Queue!Renewed, Queue!Rows, OwnedBy
  <2> QED  BY <2>1, <2>2, <1>o
<1>6. ASSUME NEW v \in Workers, NEW status, Queue!Report(v, status)
      PROVE  FALSE
  <2>1. /\ work[v].job \in Jobs /\ work[v] # Queue!Idle
        /\ work' = [work EXCEPT ![v] = Queue!Idle] /\ alive' = alive
        /\ Queue!Verdict(v, work[v].job, status)
    BY <1>6, <1>t DEF Queue!Report
  <2>2. OwnedBy(row[j], w)
    <3>1. CASE Queue!OwnedBy(row[work[v].job], v)
      <4>1. row' = [row EXCEPT ![work[v].job] = Queue!Finished(@, status)]
        BY <2>1, <3>1 DEF Queue!Verdict
      <4>2. work[v].job # j
        BY <4>1, <1>t DEF Queue!Finished, Queue!Rows
      <4> QED  BY <4>1, <4>2, <1>t DEF OwnedBy
    <3>2. CASE ~Queue!OwnedBy(row[work[v].job], v)
      BY <2>1, <3>2, <1>t DEF Queue!Verdict, OwnedBy
    <3> QED  BY <3>1, <3>2
  <2>3. CASE v # w
    BY <2>1, <2>2, <2>3, <1>t, <1>o
  <2>4. CASE v = w
    <3>1. Queue!OwnedBy(row[j], w) /\ work[w].job = j
      BY <2>1, <2>2, <2>4 DEF OwnedBy, Queue!OwnedBy, Job
    <3>2. row' = [row EXCEPT ![j] = Queue!Finished(@, status)]
      BY <2>1, <2>4, <3>1 DEF Queue!Verdict
    <3> QED  BY <3>2, <1>t DEF Queue!Finished, Queue!Rows
  <2> QED  BY <2>3, <2>4
<1>7. ASSUME NEW v \in Workers, Queue!ReportRefused(v) \/ Queue!Crash(v)
      PROVE  Job(w) = j /\ Queue!ReportRefused(w)
  <2>1. /\ row' = row /\ alive' \subseteq alive
        /\ work' = [work EXCEPT ![v] = Queue!Idle]
        /\ Queue!Crash(v) => v \notin alive'
    BY <1>7 DEF Queue!ReportRefused, Queue!Crash
  <2>2. v = w
    BY <2>1, <1>t, <1>o DEF OwnedBy
  <2> QED  BY <1>7, <2>1, <2>2, <1>t DEF OwnedBy
<1>8. ~UNCHANGED queueVars
  BY <1>o, <1>t DEF queueVars, OwnedBy
<1> QED  BY <1>1, <1>3, <1>4, <1>5, <1>6, <1>7, <1>8 DEF QueueStep, Queue!WorkerStep

\* Of the steps that end a run, only a refused exception handler leaves the row.
LEMMA RefusalEndsRun ==
    ASSUME Queue!TypeOK, HandlersOK, WritesOnce, [Next]_vars, NEW w \in Workers,
           NEW j \in Jobs, Job(w) = j, Queue!ReportRefused(w),
           OwnedBy(row[j], w), OwnedBy(row'[j], w)
    PROVE  RaisedRefused(w)
<1>t. /\ row \in [Jobs -> Queue!Rows]
      /\ work \in [Workers -> [job: Jobs, run: Nat] \cup {Queue!Idle}]
      /\ op \in [Workers -> OpType]
      /\ work[w] # Queue!Idle /\ work'[w] = Queue!Idle
  BY DEF Queue!TypeOK, WritesOnce, Queue!ReportRefused
<1>1. PICK v \in Workers : WorkerStep(v)
  <2>1. ASSUME \/ \E r \in Requests : HandlerStep(r)
               \/ \E k \in Jobs : JobStep(k)
               \/ \E g \in Grants : GrantExpires(g)
               \/ UNCHANGED vars
        PROVE  work' = work
    <3>1. \/ \E k \in Jobs : \/ Queue!Enqueue(k) \/ Queue!Cancel(k) \/ Queue!Resume(k)
                             \/ Queue!LeaseExpires(k)
          \/ UNCHANGED queueVars
      BY <2>1, HandlersUseQueue
         DEF JobStep, LeaseExpires, Cancel, Resume, GrantExpires, vars
    <3> QED  BY <3>1 DEF Queue!Enqueue, Queue!Cancel, Queue!Resume, Queue!LeaseExpires,
                         queueVars
  <2> QED  BY <2>1, <1>t DEF Next
<1>2. w \in alive' /\ row' = row /\ work' # work
  BY <1>t DEF Queue!ReportRefused
<1>3. ASSUME NEW k \in Jobs, Claim(v, k) PROVE FALSE
  <2>1. work[v] = Queue!Idle /\ \E n : work' = [work EXCEPT ![v] = [job |-> k, run |-> n]]
    BY <1>3 DEF Claim, Queue!Claim
  <2> QED  BY <2>1, <1>t
<1>4. ASSUME NEW status, Queue!Report(v, status) PROVE FALSE
  <2>1. work' = [work EXCEPT ![v] = Queue!Idle] /\ Queue!Verdict(v, work[v].job, status)
    BY <1>4 DEF Queue!Report
  <2>2. v = w /\ Queue!OwnedBy(row[work[v].job], v) /\ work[v].job = j
    BY <2>1, <1>t DEF OwnedBy, Queue!OwnedBy, Job
  <2>3. row' = [row EXCEPT ![j] = Queue!Finished(@, status)]
    BY <2>1, <2>2 DEF Queue!Verdict
  <2>4. row'[j].owner = NoOwner
    BY <2>3, <1>t DEF Queue!Finished, Queue!Rows
  <2> QED  BY <2>4, TestWriteAssumption DEF OwnedBy
<1>5. ~Crash(v)
  <2>1. Crash(v) => v \notin alive' /\ work' = [work EXCEPT ![v] = Queue!Idle]
    BY DEF Crash, Queue!Crash
  <2> QED  BY <2>1, <1>2, <1>t
<1>6. CASE RaisedRefused(v)
  <2>1. work' = [work EXCEPT ![v] = Queue!Idle]
    BY <1>6 DEF RaisedRefused, Queue!ReportRefused
  <2> QED  BY <1>6, <2>1, <1>t
<1> QED  BY <1>1, <1>2, <1>3, <1>4, <1>5, <1>6
         DEF WorkerStep, RunStep, Poll, Queue!Poll, Create, Reconcile, Settle, Finish, Raised,
             Salvage, Escalate, Refused, Heartbeat, Queue!Heartbeat, queueVars

\* Whatever lapses, dies, stalls or is resumed: a row is left to the heartbeat
\* of a process that does not work on it only by a refused exception handler,
\* and only the death or a stall of that process frees it.
THEOREM TestWriteUnattendedByRefusal == Spec => UnattendedByRefusal
<1> DEFINE Step ==
        \A w \in Workers, j \in Jobs :
            /\ Unattended(w, j)' /\ ~Unattended(w, j) => RaisedRefused(w) /\ Job(w) = j
            /\ Unattended(w, j) /\ ~Unattended(w, j)'
                  => w \notin alive' \/ row[j].lease = "lapsed"
<1>1. ASSUME Queue!TypeOK, HandlersOK, WritesOnce, [Next]_vars
      PROVE  Step
  <2> SUFFICES ASSUME NEW w \in Workers, NEW j \in Jobs
               PROVE  /\ Unattended(w, j)' /\ ~Unattended(w, j)
                            => RaisedRefused(w) /\ Job(w) = j
                      /\ Unattended(w, j) /\ ~Unattended(w, j)'
                            => w \notin alive' \/ row[j].lease = "lapsed"
    OBVIOUS
  <2>q. QueueStep
    BY <1>1, StepIsQueueStep
  <2>d. Unattended(w, j)' <=> w \in alive' /\ OwnedBy(row'[j], w) /\ work'[w].job # j
    BY DEF Unattended, OwnedBy, Job
  <2>1. ASSUME Unattended(w, j)', ~Unattended(w, j)
        PROVE  RaisedRefused(w) /\ Job(w) = j
    <3>1. Job(w) = j /\ Queue!ReportRefused(w)
      BY <1>1, <2>1, <2>q, <2>d, LeftByRefusal DEF Unattended
    <3>2. OwnedBy(row[j], w) /\ OwnedBy(row'[j], w)
      BY <2>1, <2>d, <3>1 DEF Queue!ReportRefused, OwnedBy
    <3> QED  BY <1>1, <3>1, <3>2, RefusalEndsRun
  <2>2. ASSUME Unattended(w, j), ~Unattended(w, j)'
        PROVE  w \notin alive' \/ row[j].lease = "lapsed"
    BY <1>1, <2>2, <2>q, <2>d, OwnedStays DEF Unattended
  <2> QED  BY <2>1, <2>2
<1>2. UnattendedByRefusal <=> [][Step]_vars
  BY DEF UnattendedByRefusal
<1>3. Step => [Step]_vars
  OBVIOUS
<1> HIDE DEF Step
<1> QED  BY <1>1, <1>2, <1>3, QueueTypes, HandlersInit, HandlersStep, WritesOnceInvariant,
            PTL DEF Spec

(***************************************************************************)
(* Projects left in WRITE_IN_PROGRESS.  A step that leads to a deserted    *)
(* project, and is none of those that may desert it, has the project, the  *)
(* rows of the writes and the runs as they were: it was deserted before.   *)
(***************************************************************************)

Disturbed ==
    \/ \E r \in Requests : ExecuteMark(r)
    \/ \E w \in Workers : /\ Doing(w, "salvage") \/ Doing(w, "escalate")
                          /\ Crash(w) \/ Refused(w)
    \/ \E w \in Workers : RaisedRefused(w)
    \/ \E j \in Jobs : Cancel(j)

\* A run that may change its step without deserting the project.
Gone(w) ==
    /\ ~Doing(w, "salvage") /\ ~Doing(w, "escalate")
    /\ \A g \in Grants : OwnedBy(row[Write(g)], w) => Job(w) # Write(g) \/ Doing(w, "finish")

WriteKept(g) == /\ row'[Write(g)].status = row[Write(g)].status
                /\ row'[Write(g)].owner = row[Write(g)].owner

LEMMA DesertedBefore ==
    ASSUME Deserted', execution' = execution, alive' \subseteq alive,
           \A g \in Grants : WriteKept(g),
           \A w \in Workers : (op'[w] = op[w] /\ work'[w] = work[w]) \/ Gone(w)
    PROVE  Deserted
<1>1. execution = "WRITE_IN_PROGRESS"
  BY DEF Deserted
<1>2. \A g \in Grants : row[Write(g)].status \notin {"PENDING", "RETRY"}
  BY DEF Deserted, WriteKept
<1>3. ASSUME NEW g \in Grants, NEW w \in Workers, OwnedBy(row[Write(g)], w)
      PROVE  w \in alive /\ (Job(w) # Write(g) \/ Doing(w, "finish"))
  <2>1. OwnedBy(row'[Write(g)], w)
    BY <1>3 DEF OwnedBy, WriteKept
  <2>2. w \in alive' /\ (work'[w].job # Write(g) \/ op'[w].step = "finish")
    BY <2>1 DEF Deserted, Doing, Job, OwnedBy, Write
  <2> QED  BY <1>3, <2>2 DEF Gone, Doing, Job
<1>4. ASSUME NEW w \in Workers PROVE ~Doing(w, "salvage") /\ ~Doing(w, "escalate")
  BY DEF Deserted, Doing, Gone
<1> QED  BY <1>1, <1>2, <1>3, <1>4 DEF Deserted

LEMMA HandlersDesert ==
    ASSUME Queue!TypeOK, HandlersOK, NEW r \in Requests, HandlerStep(r), Deserted'
    PROVE  Deserted \/ Disturbed
<1> SUFFICES ASSUME ~ExecuteMark(r) PROVE Deserted
  BY DEF Disturbed
<1>t. row \in [Jobs -> Queue!Rows] /\ \A g \in Grants : Write(g) \in Jobs
  BY WriteIsJob DEF Queue!TypeOK
<1>1. op' = op /\ (execution' = execution \/ execution' \in {Authorized, "NONE"})
  BY DEF HandlerStep, IssueRead, IssueInsert, IssueSettle, RevokeGrant, RevokeRead,
         RevokeReset, ExecuteRead, Consume, ReconcileRead, ReconcileEnqueue, HandlerDies,
         TransitionExecution
<1>2. execution' = execution
  BY <1>1 DEF Deserted, Authorized
<1>3. CASE UNCHANGED queueVars
  BY <1>1, <1>2, <1>3, DesertedBefore DEF queueVars, WriteKept
<1>4. CASE \E j \in Jobs : Queue!Enqueue(j)
  <2>1. PICK j \in Jobs : Queue!Enqueue(j)
    BY <1>4
  <2>2. row' = [row EXCEPT ![j] = Queue!Inserted] /\ work' = work /\ alive' = alive
    BY <2>1 DEF Queue!Enqueue
  <2>3. ASSUME NEW g \in Grants PROVE Write(g) # j
    <3>1. row'[Write(g)].status # "PENDING"
      BY DEF Deserted, Write
    <3> QED  BY <3>1, <2>2, <1>t DEF Queue!Inserted, Queue!NoRow
  <2> QED  BY <1>1, <1>2, <2>2, <2>3, <1>t, DesertedBefore DEF WriteKept
<1> QED  BY <1>3, <1>4, HandlersUseQueue

\* What the engine answered has a target: none of them is WRITE_IN_PROGRESS.
SettlesOK ==
    \A w \in Workers : Doing(w, "settle") =>
        op[w].outcome \in IF IsWrite(w) THEN DOMAIN WriteTarget
                                        ELSE DOMAIN ReconcileTarget \cup {"RECONCILE_REQUIRED"}

LEMMA SettlesStep ==
    ASSUME Queue!TypeOK, HandlersOK, WritesOnce, SettlesOK, [Next]_vars
    PROVE  SettlesOK'
<1> SUFFICES ASSUME NEW w \in Workers, op'[w].step = "settle"
             PROVE  op'[w].outcome \in
                        IF IsWrite(w)' THEN DOMAIN WriteTarget
                        ELSE DOMAIN ReconcileTarget \cup {"RECONCILE_REQUIRED"}
  BY DEF SettlesOK, Doing, WriteTarget, ReconcileTarget, Verified
<1>t. /\ work \in [Workers -> [job: Jobs, run: Nat] \cup {Queue!Idle}]
      /\ op \in [Workers -> OpType]
  BY DEF Queue!TypeOK, WritesOnce
<1>k. ASSUME op'[w] = op[w], work'[w] = work[w]
      PROVE  op'[w].outcome \in
                 IF IsWrite(w)' THEN DOMAIN WriteTarget
                 ELSE DOMAIN ReconcileTarget \cup {"RECONCILE_REQUIRED"}
  BY <1>k DEF SettlesOK, Doing, IsWrite, Job, Queue!Idle
<1>1. CASE Create(w)
  <2>1. /\ IsWrite(w) /\ work' = work
        /\ \E committed \in BOOLEAN : \E outcome \in ExecuteOutcomes(committed) :
               AfterEngine(w, outcome)
    BY <1>1 DEF Create, queueVars
  <2>2. IsWrite(w)'
    BY <2>1 DEF IsWrite, Job, Queue!Idle
  <2>3. op'[w].outcome \in DOMAIN WriteTarget
    BY <2>1, <1>t DEF ExecuteOutcomes, AfterEngine, Enter, WriteTarget
  <2> QED  BY <2>2, <2>3
<1>2. CASE Reconcile(w)
  <2>1. /\ ~IsWrite(w) /\ work' = work
        /\ \E outcome \in ReconcileOutcomes(Missing, Unique) : AfterEngine(w, outcome)
    BY <1>2 DEF Reconcile, queueVars
  <2>2. ~IsWrite(w)'
    BY <2>1 DEF IsWrite, Job, Queue!Idle
  <2>3. op'[w].outcome \in DOMAIN ReconcileTarget \cup {"RECONCILE_REQUIRED"}
    BY <2>1, <1>t DEF ReconcileOutcomes, AfterEngine, Enter, ReconcileTarget
  <2> QED  BY <2>2, <2>3
<1>3. ASSUME NEW v \in Workers, WorkerStep(v), ~Create(w), ~Reconcile(w)
      PROVE  op'[w] = op[w] /\ work'[w] = work[w]
  <2>1. ASSUME NEW j \in Jobs, Claim(v, j) PROVE op'[w] = op[w] /\ work'[w] = work[w]
    BY <2>1, <1>t DEF Claim, Queue!Claim, Enter
  <2>2. CASE Create(v) \/ Reconcile(v)
    BY <2>2, <1>3, <1>t DEF Create, Reconcile, AfterEngine, Enter, queueVars
  <2>3. CASE Poll(v) \/ Heartbeat(v)
    BY <2>3 DEF Poll, Heartbeat, planeVars, Queue!Poll, Queue!Heartbeat
  <2>4. CASE Settle(v) \/ Salvage(v) \/ Escalate(v) \/ Refused(v)
    BY <2>4, <1>t DEF Settle, Salvage, Escalate, Refused, Enter, Loop, Looping, queueVars
  <2>5. CASE Finish(v) \/ Raised(v) \/ RaisedRefused(v) \/ Crash(v)
    BY <2>5, <1>t DEF Finish, Raised, RaisedRefused, Crash, Enter, Loop, Looping,
                      Queue!Report, Queue!ReportRefused, Queue!Crash
  <2> QED  BY <1>3, <2>1, <2>2, <2>3, <2>4, <2>5 DEF WorkerStep, RunStep
<1>4. CASE ~\E v \in Workers : WorkerStep(v)
  <2>1. op' = op
    BY <1>4 DEF Next, HandlerStep, IssueRead, IssueInsert, IssueSettle, RevokeGrant,
                RevokeRead, RevokeReset, ExecuteRead, Consume, ExecuteMark, ReconcileRead,
                ReconcileEnqueue, HandlerDies, JobStep, LeaseExpires, Cancel, Resume,
                GrantExpires, planeVars, vars
  <2>2. \/ \E k \in Jobs : \/ Queue!Enqueue(k) \/ Queue!Cancel(k) \/ Queue!Resume(k)
                           \/ Queue!LeaseExpires(k)
        \/ UNCHANGED queueVars
    BY <1>4, HandlersUseQueue
       DEF Next, JobStep, LeaseExpires, Cancel, Resume, GrantExpires, vars
  <2>3. work' = work
    BY <2>2 DEF Queue!Enqueue, Queue!Cancel, Queue!Resume, Queue!LeaseExpires, queueVars
  <2> QED  BY <2>1, <2>3, <1>k
<1> QED  BY <1>1, <1>2, <1>3, <1>4, <1>k

\* Polling sweeps: a write that is swept takes the project out of
\* WRITE_IN_PROGRESS, so that nothing was swept.
LEMMA SweepKeepsWrites ==
    ASSUME Queue!TypeOK, SweepExecution, execution' = "WRITE_IN_PROGRESS"
    PROVE  execution' = execution /\ Queue!SweptTable = row
<1>1. execution' = execution /\ \A j \in Jobs : ~LeaseLapsed(row[j])
  BY DEF SweepExecution
<1>2. \A j \in Jobs : Queue!Swept(row[j], Kind[j]) = row[j]
  BY <1>1 DEF Queue!Swept, Queue!LeaseLapsed, LeaseLapsed
<1> QED  BY <1>1, <1>2 DEF Queue!SweptTable, Queue!TypeOK

LEMMA RunsDesert ==
    ASSUME Queue!TypeOK, WritesOnce, SettlesOK, NEW w \in Workers, WorkerStep(w), Deserted'
    PROVE  Deserted \/ Disturbed
<1> SUFFICES ASSUME ~Disturbed PROVE Deserted
  OBVIOUS
<1>t. /\ row \in [Jobs -> Queue!Rows]
      /\ work \in [Workers -> [job: Jobs, run: Nat] \cup {Queue!Idle}]
      /\ op \in [Workers -> OpType]
      /\ \A g \in Grants : Write(g) \in Jobs /\ Queue!Idle.job # Write(g)
      /\ execution' = "WRITE_IN_PROGRESS"
  BY WriteIsJob, TestWriteAssumption DEF Queue!TypeOK, WritesOnce, Queue!Idle, Jobs, Deserted
<1>o. \A v \in Workers : op'[v].step \notin {"salvage", "escalate"}
  BY DEF Deserted, Doing
\* Whoever has no run may take a step of its own.
<1>i. ASSUME work[w] = Queue!Idle, Doing(w, "loop") PROVE Gone(w)
  BY <1>i, <1>t DEF Gone, Doing, Job
<1>1. ASSUME NEW j \in Jobs, Claim(w, j) PROVE Deserted
  <2>1. execution' = execution /\ Queue!SweptTable = row
    BY <1>1, <1>t, SweepKeepsWrites DEF Claim
  <2>2. /\ row' = [row EXCEPT ![j] = Queue!Claimed(@, w)] /\ alive' = alive
        /\ \E n : work' = [work EXCEPT ![w] = [job |-> j, run |-> n]]
        /\ work[w] = Queue!Idle
        /\ op' = [op EXCEPT ![w] = [step |-> "engine", outcome |-> "RAISED"]]
        /\ Doing(w, "loop")
    BY <1>1, <2>1 DEF Claim, Queue!Claim, Enter
  <2>3. ASSUME NEW g \in Grants PROVE Write(g) # j
    <3>1. OwnedBy(row'[Write(g)], w) => work'[w].job # Write(g) \/ op'[w].step = "finish"
      BY DEF Deserted, Doing, Job, OwnedBy, Write
    <3> QED  BY <3>1, <2>2, <1>t DEF OwnedBy, Queue!Claimed, Queue!Rows
  <2> QED  BY <2>1, <2>2, <2>3, <1>t, <1>i, DesertedBefore DEF WriteKept
<1>2. CASE Poll(w)
  <2>1. execution' = execution /\ row' = row /\ work' = work /\ alive' = alive /\ op' = op
    BY <1>2, <1>t, SweepKeepsWrites DEF Poll, Queue!Poll
  <2> QED  BY <2>1, DesertedBefore DEF WriteKept
<1>3. CASE Create(w) \/ Reconcile(w) \/ Refused(w)
  <2>1. /\ UNCHANGED queueVars /\ execution' = execution
        /\ \E step \in {"settle", "raised"} : \E outcome : Enter(w, step, outcome)
        /\ op[w].step \in {"engine", "settle", "finish"}
    BY <1>3 DEF Create, Reconcile, Refused, AfterEngine, Doing, Disturbed
  <2>2. op'[w].step \in {"settle", "raised"} /\ \A v \in Workers \ {w} : op'[v] = op[v]
    BY <2>1, <1>t DEF Enter
  <2>3. Gone(w)
    <3>1. ASSUME NEW g \in Grants, OwnedBy(row[Write(g)], w) PROVE Job(w) # Write(g)
      <4>1. OwnedBy(row'[Write(g)], w) => work'[w].job # Write(g) \/ op'[w].step = "finish"
        BY DEF Deserted, Doing, Job, OwnedBy, Write
      <4> QED  BY <4>1, <3>1, <2>1, <2>2 DEF queueVars, Job
    <3> QED  BY <3>1, <2>1 DEF Gone, Doing
  <2> QED  BY <2>1, <2>2, <2>3, DesertedBefore DEF queueVars, WriteKept
<1>4. CASE Settle(w)
  <2>1. /\ UNCHANGED queueVars
        /\ op[w].step = "settle"
        /\ \E step \in {"finish", "raised"} : Enter(w, step, op[w].outcome)
    BY <1>4 DEF Settle, Doing
  <2>2. \A v \in Workers \ {w} : op'[v] = op[v]
    BY <2>1, <1>t DEF Enter
  <2>3. /\ execution' = execution
        /\ op'[w].step = "finish" => ~IsWrite(w)
    <3>1. CASE Untargeted(w)
      BY <1>4, <3>1 DEF Settle, Untargeted
    <3>2. CASE ~Untargeted(w) /\ MayBecome(execution, Target(w))
      <4>1. execution' = Target(w)
        BY <1>4, <3>2 DEF Settle, TransitionExecution
      <4>2. Target(w) # "WRITE_IN_PROGRESS"
        BY <2>1, <3>2 DEF SettlesOK, Doing, Untargeted, Target, WriteTarget, ReconcileTarget,
                          Verified
      <4> QED  BY <4>1, <4>2, <1>t
    <3>3. CASE ~Untargeted(w) /\ ~MayBecome(execution, Target(w))
      BY <1>4, <3>3, <1>t DEF Settle, TransitionExecution, Enter
    <3> QED  BY <3>1, <3>2, <3>3
  <2>4. Gone(w)
    <3>1. ASSUME NEW g \in Grants, OwnedBy(row[Write(g)], w) PROVE Job(w) # Write(g)
      <4>1. OwnedBy(row'[Write(g)], w) => work'[w].job # Write(g) \/ op'[w].step = "finish"
        BY DEF Deserted, Doing, Job, OwnedBy, Write
      <4>2. ~IsWrite(w) => Job(w) # Write(g)
        <5>1. Write(g)[2] = 0 /\ (work[w] = Queue!Idle => Job(w) # Write(g))
          BY <1>t, WriteIsJob DEF Job
        <5> QED  BY <5>1 DEF IsWrite
      <4> QED  BY <4>1, <4>2, <3>1, <2>1, <2>3 DEF queueVars, Job
    <3> QED  BY <3>1, <2>1 DEF Gone, Doing
  <2> QED  BY <2>1, <2>2, <2>3, <2>4, DesertedBefore DEF queueVars, WriteKept
<1>5. CASE Finish(w) \/ Raised(w)
  <2>1. PICK status : Queue!Report(w, status)
    BY <1>5 DEF Finish, Raised
  <2>2. /\ execution' = execution /\ alive' = alive
        /\ work' = [work EXCEPT ![w] = Queue!Idle] /\ work[w].job \in Jobs
        /\ op[w].step \in {"finish", "raised"}
        /\ \A v \in Workers \ {w} : op'[v] = op[v]
    BY <1>5, <2>1, <1>t DEF Finish, Raised, Queue!Report, Doing, Loop, Enter
  <2>3. ASSUME OwnedBy(row[Job(w)], w) PROVE op[w].step = "finish"
    BY <1>5, <2>3, <1>o, <1>t DEF Finish, Raised, Doing, Enter
  <2>4. Gone(w)
    BY <2>2, <2>3 DEF Gone, Doing
  <2>5. CASE Queue!OwnedBy(row[work[w].job], w)
    <3>1. row' = [row EXCEPT ![work[w].job] = Queue!Finished(@, status)]
      BY <2>1, <2>5 DEF Queue!Report, Queue!Verdict
    <3>2. /\ OwnedBy(row[Job(w)], w) /\ op[w].step = "finish" /\ w \in alive
      BY <2>1, <2>3, <2>5 DEF OwnedBy, Queue!OwnedBy, Job, Queue!Report
    <3>3. ASSUME NEW g \in Grants
          PROVE  /\ row[Write(g)].status \notin {"PENDING", "RETRY"}
                 /\ \A v \in Workers : OwnedBy(row[Write(g)], v)
                      => v \in alive /\ (Job(v) # Write(g) \/ Doing(v, "finish"))
      <4>1. CASE Write(g) = Job(w)
        BY <3>2, <4>1 DEF OwnedBy, Doing
      <4>2. CASE Write(g) # Job(w)
        <5>1. row'[Write(g)] = row[Write(g)]
          BY <3>1, <4>2, <1>t DEF Job
        <5>2. row'[Write(g)].status \notin {"PENDING", "RETRY"}
          BY DEF Deserted, Write
        <5>3. ASSUME NEW v \in Workers, OwnedBy(row[Write(g)], v)
              PROVE  v \in alive /\ (Job(v) # Write(g) \/ Doing(v, "finish"))
          <6>1. v \in alive' /\ (work'[v].job # Write(g) \/ op'[v].step = "finish")
            BY <5>1, <5>3 DEF Deserted, Doing, Job, OwnedBy, Write
          <6>2. v # w => work'[v] = work[v] /\ op'[v] = op[v]
            <7>1. ASSUME v # w PROVE work'[v] = work[v]
              BY <7>1, <2>2, <1>t
            <7>2. ASSUME v # w PROVE op'[v] = op[v]
              BY <7>2, <2>2
            <7> QED  BY <7>1, <7>2
          <6> QED  BY <4>2, <6>1, <6>2, <2>2 DEF Job, Doing
        <5> QED  BY <5>1, <5>2, <5>3
      <4> QED  BY <4>1, <4>2
    <3>4. \A v \in Workers : ~Doing(v, "salvage") /\ ~Doing(v, "escalate")
      BY <2>2, <1>o DEF Doing
    <3> QED  BY <3>3, <3>4, <2>2, <1>t DEF Deserted
  <2>6. CASE ~Queue!OwnedBy(row[work[w].job], w)
    <3>1. row' = row
      BY <2>1, <2>6 DEF Queue!Report, Queue!Verdict
    <3> QED  BY <2>2, <2>4, <3>1, DesertedBefore DEF WriteKept
  <2> QED  BY <2>5, <2>6
<1>6. CASE Salvage(w)
  BY <1>6, <1>o, <1>t DEF Salvage, Enter
<1>7. CASE Escalate(w)
  <2>1. "RECONCILE_REQUIRED" \in ExecutionTransitions["WRITE_IN_PROGRESS"]
    BY DEF ExecutionTransitions
  <2> QED  BY <1>7, <2>1, <1>t DEF Escalate, TransitionExecution, MayBecome
<1>8. CASE Heartbeat(w)
  <2>1. /\ execution' = execution /\ alive' = alive /\ op' = op /\ work' = work
        /\ \A j \in Jobs : row'[j] \in {row[j], Queue!Renewed(row[j])}
    BY <1>8 DEF Heartbeat, planeVars, Queue!Heartbeat
  <2>2. \A g \in Grants : WriteKept(g)
    BY <2>1, <1>t DEF WriteKept, Queue!Renewed, Queue!Rows
  <2> QED  BY <2>1, <2>2, DesertedBefore
<1>9. CASE Crash(w)
  <2>1. /\ execution' = execution /\ row' = row
        /\ alive' \subseteq alive /\ w \notin alive'
        /\ \A v \in Workers \ {w} : op'[v] = op[v] /\ work'[v] = work[v]
    BY <1>9, <1>t DEF Crash, Queue!Crash, Loop, Looping
  <2>2. ASSUME NEW g \in Grants PROVE ~OwnedBy(row[Write(g)], w)
    <3>1. OwnedBy(row'[Write(g)], w) => w \in alive'
      BY DEF Deserted, OwnedBy, Write
    <3> QED  BY <3>1, <2>1
  <2>3. Gone(w)
    BY <1>9, <2>2 DEF Gone, Disturbed
  <2> QED  BY <2>1, <2>3, DesertedBefore DEF WriteKept
<1> QED  BY <1>1, <1>2, <1>3, <1>4, <1>5, <1>6, <1>7, <1>8, <1>9
         DEF WorkerStep, RunStep, Disturbed

\* However handlers, workers, sweeps and operators interleave: a project stays
\* behind in WRITE_IN_PROGRESS only after one of the five mishaps.
THEOREM TestWriteDesertedByMishap == Spec => DesertedByMishap
<1> DEFINE Step == ~Deserted /\ Deserted' => Disturbed
<1>1. ASSUME Queue!TypeOK, HandlersOK, WritesOnce, SettlesOK, [Next]_vars
      PROVE  Step
  <2> SUFFICES ASSUME Deserted' PROVE Deserted \/ Disturbed
    OBVIOUS
  <2>t. row \in [Jobs -> Queue!Rows] /\ \A g \in Grants : Write(g) \in Jobs
    BY <1>1, WriteIsJob DEF Queue!TypeOK
  <2>1. ASSUME NEW j \in Jobs, JobStep(j) PROVE Deserted \/ Disturbed
    <3>1. CASE Cancel(j)
      BY <3>1 DEF Disturbed
    <3>2. CASE LeaseExpires(j)
      <4>1. /\ UNCHANGED planeVars /\ work' = work /\ alive' = alive
            /\ row' = [row EXCEPT ![j].lease = "lapsed"]
        BY <3>2 DEF LeaseExpires, Queue!LeaseExpires
      <4>2. \A g \in Grants : WriteKept(g)
        BY <4>1, <2>t DEF WriteKept, Queue!Rows
      <4> QED  BY <4>1, <4>2, DesertedBefore DEF planeVars
    <3>3. CASE Resume(j)
      <4>1. /\ UNCHANGED planeVars /\ work' = work /\ alive' = alive
            /\ row' = [row EXCEPT ![j] = Queue!Resumed(@)]
        BY <3>3 DEF Resume, Queue!Resume
      <4>2. ASSUME NEW g \in Grants PROVE Write(g) # j
        <5>1. row'[Write(g)].status # "PENDING"
          BY DEF Deserted, Write
        <5> QED  BY <5>1, <4>1, <2>t DEF Queue!Resumed, Queue!Rows
      <4>3. \A g \in Grants : WriteKept(g)
        BY <4>1, <4>2, <2>t DEF WriteKept
      <4> QED  BY <4>1, <4>3, DesertedBefore DEF planeVars
    <3> QED  BY <2>1, <3>1, <3>2, <3>3 DEF JobStep
  <2>2. ASSUME NEW g \in Grants, GrantExpires(g) PROVE Deserted
    BY <2>2, DesertedBefore DEF GrantExpires, queueVars, WriteKept
  <2>3. CASE UNCHANGED vars
    BY <2>3, DesertedBefore DEF vars, queueVars, WriteKept
  <2> QED  BY <1>1, <2>1, <2>2, <2>3, HandlersDesert, RunsDesert DEF Next
<1>2. DesertedByMishap <=> [][Step]_vars
  BY DEF DesertedByMishap, Disturbed
<1>3. Step => [Step]_vars
  OBVIOUS
<1>4. Init => SettlesOK
  BY DEF Init, SettlesOK, Doing, Looping
<1> HIDE DEF Step
<1> QED  BY <1>1, <1>2, <1>3, <1>4, SettlesStep, QueueTypes, HandlersInit, HandlersStep,
            WritesOnceInvariant, PTL DEF Spec

(***************************************************************************)
(* What an approver relies on: the plane implements WriteAuthority.        *)
(***************************************************************************)

Same(g) == AuthorityOf(g)' = AuthorityOf(g) /\ Allowed(g)' = Allowed(g)

\* What a step does to the grants, their expiry, the resumes of their writes
\* and their campaigns: nothing, or one of these to one grant.
Issued(g) == /\ grant[g] = "ABSENT"
             /\ grant' = [grant EXCEPT ![g] = "ISSUED"]
             /\ UNCHANGED <<expired, resumes, campaigns>>

Revoked(g) == /\ grant[g] = "ISSUED"
              /\ grant' = [grant EXCEPT ![g] = "REVOKED"]
              /\ UNCHANGED <<expired, resumes, campaigns>>

Consumed(g) == /\ grant[g] = "ISSUED" /\ g \notin expired
               /\ grant' = [grant EXCEPT ![g] = "CONSUMED"]
               /\ UNCHANGED <<expired, resumes, campaigns>>

Expired(g) == /\ grant[g] = "ISSUED" /\ g \notin expired
              /\ expired' = expired \cup {g}
              /\ UNCHANGED <<grant, resumes, campaigns>>

Created(g) == /\ \E w \in Workers : InEngine(w, g)
              /\ campaigns' = [campaigns EXCEPT ![g] = @ + 1]
              /\ UNCHANGED <<grant, expired, resumes>>

ResumedJob(j) == /\ Queue!Resume(j)
                 /\ UNCHANGED <<grant, expired, campaigns>>

Untouched == UNCHANGED <<grant, expired, resumes, campaigns>>

LEMMA StepsOfGrants ==
    ASSUME Queue!TypeOK, HandlersOK, GrantsOK, WritesOnce, [Next]_vars
    PROVE  \/ Untouched
           \/ \E g \in Grants : \/ Issued(g) \/ Revoked(g) \/ Consumed(g) \/ Expired(g)
                                \/ Created(g)
           \/ \E j \in Jobs : ResumedJob(j)
<1>t. grant \in [Grants -> GrantStatus] /\ campaigns \in [Grants -> Nat]
  BY DEF GrantsOK
<1> DEFINE Goal == \/ Untouched
                   \/ \E g \in Grants : \/ Issued(g) \/ Revoked(g) \/ Consumed(g)
                                        \/ Expired(g) \/ Created(g)
                   \/ \E j \in Jobs : ResumedJob(j)
<1>e. ASSUME NEW j, Queue!Enqueue(j) PROVE resumes' = resumes
  BY <1>e DEF Queue!Enqueue
<1>r. ASSUME NEW g \in Grants, RevokeIfIssued(g), UNCHANGED <<expired, resumes, campaigns>>
      PROVE  Goal
  <2>1. CASE grant[g] = "ISSUED"
    BY <1>r, <2>1 DEF RevokeIfIssued, Revoked
  <2>2. CASE grant[g] # "ISSUED"
    <3>1. grant' = grant
      BY <1>r, <2>2, <1>t DEF RevokeIfIssued
    <3> QED  BY <1>r, <3>1 DEF Untouched
  <2> QED  BY <2>1, <2>2
<1>1. ASSUME NEW r \in Requests, HandlerStep(r)
      PROVE  Goal
  <2>1. CASE Consume(r)
    <3>1. PICK g \in Grants : About(r) = g
      <4>1. PICK g \in Grants : request[r].job = Write(g)
        BY <2>1 DEF HandlersOK, Consume
      <4> QED  BY <4>1, WriteIsJob DEF About
    <3>2. UNCHANGED <<expired, campaigns>>
      BY <2>1 DEF Consume
    <3>3. CASE UNCHANGED <<queueVars, grant>>
      BY <3>2, <3>3 DEF Untouched, queueVars
    <3>4. CASE /\ grant[g] = "ISSUED" /\ g \notin expired
               /\ grant' = [grant EXCEPT ![g] = "CONSUMED"]
               /\ Queue!Enqueue(Write(g))
      BY <3>2, <3>4, <1>e DEF Consumed
    <3> QED  BY <2>1, <3>1, <3>3, <3>4 DEF Consume
  <2>2. CASE ReconcileEnqueue(r)
    <3>1. resumes' = resumes
      BY <2>2, <1>e DEF ReconcileEnqueue, queueVars
    <3> QED  BY <2>2, <3>1 DEF ReconcileEnqueue, Untouched
  <2>3. ASSUME NEW g \in Grants, IssueInsert(r, g)
        PROVE  Goal
    BY <2>3 DEF IssueInsert, Issued, queueVars
  <2>4. CASE IssueSettle(r)
    <3>1. PICK g \in Grants : request[r].job = Write(g)
      BY <2>4 DEF HandlersOK, IssueSettle
    <3>2. About(r) = g
      BY <3>1, WriteIsJob DEF About
    <3> QED  BY <2>4, <3>2, <1>r DEF IssueSettle, Untouched, queueVars
  <2>5. ASSUME NEW g \in Grants, RevokeGrant(r, g)
        PROVE  Goal
    BY <2>5, <1>r DEF RevokeGrant, queueVars
  <2>6. ASSUME \/ IssueRead(r) \/ RevokeRead(r) \/ RevokeReset(r) \/ ExecuteMark(r)
               \/ \E g \in Grants : ExecuteRead(r, g)
               \/ \E j \in Jobs : ReconcileRead(r, j)
               \/ HandlerDies(r)
        PROVE  Untouched
    BY <2>6 DEF IssueRead, RevokeRead, RevokeReset, ExecuteMark, ExecuteRead,
                ReconcileRead, HandlerDies, Untouched, queueVars
  <2> QED  BY <1>1, <2>1, <2>2, <2>3, <2>4, <2>5, <2>6 DEF HandlerStep
<1>2. ASSUME NEW w \in Workers, WorkerStep(w)
      PROVE  Goal
  <2>1. resumes' = resumes
    BY <1>2, WorkersUseQueue
       DEF Queue!WorkerStep, Queue!Claim, Queue!Report, Queue!Poll, Queue!ReportRefused,
           Queue!Heartbeat, Queue!Crash, queueVars
  <2>2. UNCHANGED <<grant, expired>>
    BY <1>2 DEF WorkerStep, RunStep, Claim, Poll, Create, Reconcile, Settle, Finish, Refused,
                Raised, RaisedRefused, Salvage, Escalate, Crash, Heartbeat, planeVars
  <2>3. CASE Create(w)
    <3>1. PICK g \in Grants :
              /\ InEngine(w, g)
              /\ \E n \in {campaigns[g], campaigns[g] + 1} :
                     campaigns' = [campaigns EXCEPT ![g] = n]
      BY <2>3, CreateLeavesEngine
    <3>2. campaigns' = campaigns \/ campaigns' = [campaigns EXCEPT ![g] = @ + 1]
      BY <3>1, <1>t
    <3> QED  BY <2>1, <2>2, <3>1, <3>2 DEF Untouched, Created
  <2>4. CASE ~Create(w)
    <3>1. campaigns' = campaigns
      BY <1>2, <2>4
         DEF WorkerStep, RunStep, Claim, Poll, Reconcile, Settle, Finish, Refused,
             Raised, RaisedRefused, Salvage, Escalate, Crash, Heartbeat, planeVars
    <3> QED  BY <2>1, <2>2, <3>1 DEF Untouched
  <2> QED  BY <2>3, <2>4
<1>3. ASSUME NEW j \in Jobs, JobStep(j)
      PROVE  Goal
  <2>1. UNCHANGED <<grant, expired, campaigns>>
    BY <1>3 DEF JobStep, LeaseExpires, Cancel, Resume, planeVars
  <2>2. Queue!Resume(j) \/ resumes' = resumes
    BY <1>3 DEF JobStep, LeaseExpires, Cancel, Resume, Queue!LeaseExpires, Queue!Cancel
  <2> QED  BY <2>1, <2>2 DEF Untouched, ResumedJob
<1>4. ASSUME NEW g \in Grants, GrantExpires(g)
      PROVE  Goal
  BY <1>4 DEF GrantExpires, Expired, queueVars
<1>5. CASE UNCHANGED vars
  BY <1>5 DEF vars, queueVars, Untouched
<1> QED  BY <1>1, <1>2, <1>3, <1>4, <1>5 DEF Next

\* No grant expires before it is issued, and no write is resumed before its
\* grant is consumed.
AuthorityOK ==
    \A g \in Grants : /\ g \in expired => grant[g] # "ABSENT"
                      /\ grant[g] # "CONSUMED" => resumes[Write(g)] = 0

\* Only the row of a consumed grant is resumed.
LEMMA ResumeIsOfConsumed ==
    ASSUME Queue!TypeOK, GrantsOK, NEW j \in Jobs, Queue!Resume(j), NEW g \in Grants
    PROVE  IF j = Write(g)
           THEN grant[g] = "CONSUMED" /\ resumes'[Write(g)] = resumes[Write(g)] + 1
           ELSE resumes'[Write(g)] = resumes[Write(g)]
<1>1. /\ resumes \in [Jobs -> Nat] /\ Write(g) \in Jobs
      /\ resumes' = [resumes EXCEPT ![j] = @ + 1]
      /\ row[j].status # "ABSENT"
  BY WriteIsJob DEF Queue!TypeOK, Queue!Resume, Queue!Resumable
<1> QED  BY <1>1 DEF GrantsOK, ConsumedIsEnqueued

LEMMA AuthorityOKStep ==
    ASSUME Queue!TypeOK, HandlersOK, GrantsOK, WritesOnce, AuthorityOK, [Next]_vars
    PROVE  AuthorityOK'
<1>t. grant \in [Grants -> GrantStatus]
  BY DEF GrantsOK
<1>g. AuthorityOK' <=>
          \A g \in Grants : /\ g \in expired' => grant'[g] # "ABSENT"
                            /\ grant'[g] # "CONSUMED" => resumes'[Write(g)] = 0
  BY DEF AuthorityOK, Write
<1>1. ASSUME Untouched \/ \E g \in Grants : Created(g)
      PROVE  AuthorityOK'
  BY <1>1, <1>g DEF AuthorityOK, Untouched, Created
<1>2. ASSUME NEW g \in Grants, Issued(g) \/ Revoked(g) \/ Consumed(g)
      PROVE  AuthorityOK'
  BY <1>2, <1>g, <1>t DEF AuthorityOK, Issued, Revoked, Consumed
<1>3. ASSUME NEW g \in Grants, Expired(g)
      PROVE  AuthorityOK'
  BY <1>3, <1>g DEF AuthorityOK, Expired
<1>4. ASSUME NEW j \in Jobs, ResumedJob(j)
      PROVE  AuthorityOK'
  BY <1>4, <1>g, ResumeIsOfConsumed DEF AuthorityOK, ResumedJob
<1> QED  BY <1>1, <1>2, <1>3, <1>4, StepsOfGrants

\* Steps of one grant, and of none, as the abstract specification has them.
LEMMA AuthorityStep ==
    ASSUME Queue!TypeOK, HandlersOK, GrantsOK, WritesOnce, AuthorityOK, [Next]_vars,
           \A g \in Grants : runs[Write(g)] <= resumes[Write(g)] + 1
    PROVE  [Authority!Next]_(Authority!vars)
<1>t. /\ grant \in [Grants -> GrantStatus] /\ campaigns \in [Grants -> Nat]
      /\ \A g \in Grants : /\ runs[Write(g)] \in Nat /\ resumes[Write(g)] \in Nat
                           /\ AuthorityOf(g) \in {"none", "in force", "void", "spent"}
  BY WriteIsJob DEF GrantsOK, Queue!TypeOK, AuthorityOf
<1> DEFINE au == [g \in Grants |-> AuthorityOf(g)]
           al == [g \in Grants |-> Allowed(g)]
<1>d. /\ \A g \in Grants : AuthorityOf(g)' =
             CASE grant'[g] = "ABSENT" -> "none"
               [] grant'[g] = "CONSUMED" -> "spent"
               [] grant'[g] = "ISSUED" /\ g \notin expired' -> "in force"
               [] OTHER -> "void"
      /\ \A g \in Grants : Allowed(g)' =
             IF grant'[g] = "CONSUMED" THEN resumes'[Write(g)] + 1 ELSE 0
  BY DEF AuthorityOf, Allowed, Write
<1>o. ASSUME NEW g \in Grants, \A h \in Grants \ {g} : Same(h)
      PROVE  /\ au' = [au EXCEPT ![g] = AuthorityOf(g)']
             /\ al' = [al EXCEPT ![g] = Allowed(g)']
  BY <1>o DEF Same
<1>u. ASSUME \A g \in Grants : Same(g)
      PROVE  au' = au /\ al' = al
  BY <1>u DEF Same
<1>1. CASE Untouched
  <2>1. \A g \in Grants : Same(g)
    BY <1>1, <1>d DEF Same, Untouched, AuthorityOf, Allowed
  <2> QED  BY <1>1, <2>1, <1>u DEF Untouched, Authority!vars
<1>2. ASSUME NEW g \in Grants, Issued(g)
      PROVE  Authority!Next
  <2>1. \A h \in Grants \ {g} : Same(h)
    BY <1>2, <1>d, <1>t DEF Same, Issued, AuthorityOf, Allowed
  <2>2. /\ AuthorityOf(g) = "none" /\ AuthorityOf(g)' = "in force"
        /\ Allowed(g) = 0 /\ Allowed(g)' = 0
    BY <1>2, <1>d, <1>t DEF Issued, AuthorityOK, AuthorityOf, Allowed
  <2>3. Authority!Issue(g)
    BY <1>2, <2>1, <2>2, <1>o DEF Authority!Issue, Authority!Become, Issued
  <2> QED  BY <2>3 DEF Authority!Next
<1>3. ASSUME NEW g \in Grants, Revoked(g) \/ Expired(g)
      PROVE  Authority!Next \/ UNCHANGED Authority!vars
  <2>1. \A h \in Grants \ {g} : Same(h)
    BY <1>3, <1>d, <1>t DEF Same, Revoked, Expired, AuthorityOf, Allowed
  <2>2. AuthorityOf(g)' = "void" /\ Allowed(g) = 0 /\ Allowed(g)' = 0
        /\ campaigns' = campaigns
    BY <1>3, <1>d, <1>t DEF Revoked, Expired, Allowed
  <2>3. AuthorityOf(g) \in {"in force", "void"}
    BY <1>3 DEF Revoked, Expired, AuthorityOf
  <2>4. CASE AuthorityOf(g) = "in force"
    <3>1. Authority!Void(g)
      BY <2>1, <2>2, <2>4, <1>o DEF Authority!Void, Authority!Become
    <3> QED  BY <3>1 DEF Authority!Next
  <2>5. CASE AuthorityOf(g) = "void"
    <3>1. \A h \in Grants : Same(h)
      BY <2>1, <2>2, <2>5 DEF Same
    <3> QED  BY <2>2, <3>1, <1>u DEF Authority!vars
  <2> QED  BY <2>3, <2>4, <2>5
<1>4. ASSUME NEW g \in Grants, Consumed(g)
      PROVE  Authority!Next
  <2>1. \A h \in Grants \ {g} : Same(h)
    BY <1>4, <1>d, <1>t DEF Same, Consumed, AuthorityOf, Allowed
  <2>2. /\ AuthorityOf(g) = "in force" /\ AuthorityOf(g)' = "spent"
        /\ Allowed(g) = 0 /\ Allowed(g)' = Allowed(g) + 1
    BY <1>4, <1>d, <1>t DEF Consumed, AuthorityOK, AuthorityOf, Allowed
  <2>3. Authority!Spend(g)
    BY <1>4, <2>1, <2>2, <1>o
       DEF Authority!Spend, Authority!Become, Authority!AllowOne, Consumed
  <2> QED  BY <2>3 DEF Authority!Next
<1>5. ASSUME NEW g \in Grants, Created(g)
      PROVE  Authority!Next
  <2>1. \A h \in Grants : Same(h)
    BY <1>5, <1>d DEF Same, Created, AuthorityOf, Allowed
  <2>2. PICK w \in Workers : InEngine(w, g)
    BY <1>5 DEF Created
  <2>3. campaigns[g] < runs[Write(g)]
    BY <2>2 DEF WritesOnce
  <2>4. grant[g] = "CONSUMED"
    <3>1. row[Write(g)].status # "ABSENT"
      BY <2>2 DEF GrantsOK, RunsHaveRows, InEngine, Job
    <3> QED  BY <3>1 DEF GrantsOK, ConsumedIsEnqueued
  <2>5. AuthorityOf(g) = "spent" /\ campaigns[g] < Allowed(g)
    BY <2>3, <2>4, <1>t DEF AuthorityOf, Allowed
  <2>6. Authority!Write(g)
    BY <1>5, <2>1, <2>5, <1>u DEF Authority!Write, Created
  <2> QED  BY <2>6 DEF Authority!Next
<1>6. ASSUME NEW j \in Jobs, ResumedJob(j)
      PROVE  Authority!Next \/ UNCHANGED Authority!vars
  <2>1. \A g \in Grants : j # Write(g) => Same(g)
    BY <1>6, <1>d, ResumeIsOfConsumed DEF Same, ResumedJob, AuthorityOf, Allowed
  <2>2. CASE \A g \in Grants : j # Write(g)
    BY <1>6, <2>1, <2>2, <1>u DEF ResumedJob, Authority!vars
  <2>3. ASSUME NEW g \in Grants, j = Write(g)
        PROVE  Authority!Next
    <3>1. \A h \in Grants \ {g} : Same(h)
      BY <2>1, <2>3, WriteIsJob
    <3>2. grant[g] = "CONSUMED" /\ resumes'[Write(g)] = resumes[Write(g)] + 1
          /\ grant' = grant
      BY <1>6, <2>3, ResumeIsOfConsumed DEF ResumedJob
    <3>3. /\ AuthorityOf(g) = "spent" /\ AuthorityOf(g)' = "spent"
          /\ Allowed(g)' = Allowed(g) + 1
      BY <3>2, <1>d, <1>t DEF AuthorityOf, Allowed
    <3>4. au' = au
      BY <3>1, <3>3 DEF Same
    <3>5. Authority!AllowAgain(g)
      BY <1>6, <3>1, <3>3, <3>4, <1>o
         DEF Authority!AllowAgain, Authority!AllowOne, ResumedJob
    <3> QED  BY <3>5 DEF Authority!Next
  <2> QED  BY <2>2, <2>3
<1> QED  BY <1>1, <1>2, <1>3, <1>4, <1>5, <1>6, StepsOfGrants

\* However handlers, workers, operators and expiry interleave, the platform
\* sees a write only under a grant that was in force when it was consumed, and
\* no more of them than its approver and the operators allowed.
THEOREM TestWriteIsAuthority == Spec => AuthoritySpec
<1> DEFINE Authorised == \A g \in Grants : runs[Write(g)] <= resumes[Write(g)] + 1
<1>1. Init => AuthorityOK /\ Authority!Init
  BY WriteIsJob DEF Init, Queue!Init, AuthorityOK, Authority!Init, AuthorityOf, Allowed
<1>2. Queue!TypeOK /\ HandlersOK /\ GrantsOK /\ WritesOnce /\ AuthorityOK /\ [Next]_vars
          => AuthorityOK'
  BY AuthorityOKStep
<1>3. Queue!TypeOK /\ HandlersOK /\ GrantsOK /\ WritesOnce /\ AuthorityOK /\ Authorised
          /\ [Next]_vars => [Authority!Next]_(Authority!vars)
  BY AuthorityStep
<1>4. Spec => []Authorised
  BY TestWriteRunsAreAuthorised
<1> HIDE DEF Authorised
<1> QED  BY <1>1, <1>2, <1>3, <1>4, QueueTypes, HandlersInit, HandlersStep,
            GrantsInvariant, WritesOnceInvariant, PTL
         DEF Spec, AuthoritySpec, Authority!Spec

=============================================================================
