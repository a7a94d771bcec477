--------------------------- MODULE Planning_proofs ---------------------------
(***************************************************************************)
(* For any requests, plans, attempts, workers and approvers: the active    *)
(* plans of a project are on record, a project that asks for confirmation  *)
(* has some, and the plans of a confirmed one are those its latest         *)
(* confirmation names, unless a run installed others behind its back.      *)
(*                                                                         *)
(* That a confirmation of plans that were replaced is never taken for one  *)
(* of the active plans rests on their revisions: a run installs revisions  *)
(* nobody has seen, so the new plans are none that were ever confirmed.    *)
(***************************************************************************)
EXTENDS Planning, TLAPS

WorkRow == [job: Jobs \cup {Nobody}, step: Steps, revision: Nat]

QueueOK ==
    /\ job \in [Jobs -> [status: {"ABSENT", "PENDING", "RUNNING", "SUCCEEDED",
                                  "RETRY", "FAILED", "CANCELLED"},
                         attempt: Nat]]
    /\ owner \in [Jobs -> Workers \cup {Nobody}]
    /\ \A j \in Jobs : job[j].status = "RUNNING" <=> owner[j] # Nobody

OnRecord(p) == \E i \in DOMAIN matrices : matrices[i].job = p

\* What a run at each step knows.
WorkInv ==
    \A w \in Workers :
        /\ work[w].step # "none" => work[w].job \in Jobs
        /\ work[w].step \in PlanSteps => work[w].job \in Prepares
        /\ work[w].step = "install" =>
               /\ Plans[work[w].job] # {}
               /\ OnRecord(work[w].job)
               /\ work[w].revision <= compiled[work[w].job]
        /\ work[w].step \in {"ready", "await"} => active # {}

\* The plans that are active, or were seen by an approver.
Seen(a) ==
    \/ a \in active
    \/ \E i \in DOMAIN confirmed : a \in confirmed[i].objects
    \/ \E v \in Approvers : a \in approval[v].objects

\* What a run is about to install has a revision of its own.
FreshInv ==
    /\ \A a \in Keys \X Revision : Seen(a) => a[2][2] <= compiled[a[2][1]]
    /\ \A w \in Workers : work[w].step = "install" =>
           /\ \A a \in Keys \X Revision :
                  Seen(a) => a[2] # <<work[w].job, work[w].revision>>
           /\ \A v \in Workers \ {w} :
                  work[v].step = "install" /\ work[v].job = work[w].job
                      => work[v].revision # work[w].revision

LastIsActive ==
    confirmed # <<>> /\ confirmed[Len(confirmed)].objects = active

\* What a confirmation relies on while nobody outran it.
ConfirmInv ==
    ~outrun =>
        /\ \A v \in Approvers : approval[v].step \in {"store", "move"}
                                   => approval[v].objects = active
        /\ \A v \in Approvers : approval[v].step = "move" => LastIsActive
        /\ (\E i \in DOMAIN confirmed : confirmed[i].objects = active) => LastIsActive
        /\ project = "ADVISORY_READY" => LastIsActive

PlanInv == TypeOK /\ WorkInv /\ FreshInv /\ ConfirmInv /\ PlansAreOnRecord

-----------------------------------------------------------------------------
(* The queue.                                                              *)

LEMMA QueueChanges ==
    ASSUME QueueOK, NEW j \in Jobs,
           NEW s \in {"PENDING", "RUNNING", "SUCCEEDED", "RETRY", "FAILED", "CANCELLED"},
           NEW n \in Nat, NEW o \in Workers \cup {Nobody},
           job' = [job EXCEPT ![j] = [status |-> s, attempt |-> n]],
           owner' = [owner EXCEPT ![j] = o],
           s = "RUNNING" <=> o # Nobody
    PROVE  QueueOK'
  BY DEF QueueOK

LEMMA JobEnqueued ==
    ASSUME QueueOK, NEW j \in Jobs, Lifecycle!Enqueue(j), UNCHANGED owner
    PROVE  QueueOK'
<1>1. job' = [job EXCEPT ![j] = [status |-> "PENDING", attempt |-> 0]]
      /\ job[j].status = "ABSENT"
  BY DEF Lifecycle!Enqueue, Lifecycle!Waiting
<1> QED BY <1>1 DEF QueueOK

\* A job that gets a status keeps its attempts.
LEMMA JobBecomes ==
    ASSUME QueueOK, NEW j \in Jobs,
           NEW s \in {"SUCCEEDED", "RETRY", "FAILED", "CANCELLED"},
           Lifecycle!Becomes(j, s), owner' = [owner EXCEPT ![j] = Nobody]
    PROVE  QueueOK'
<1>1. job' = [job EXCEPT ![j] = [job[j] EXCEPT !.status = s]]
  BY DEF Lifecycle!Becomes
<1>2. [job[j] EXCEPT !.status = s] = [status |-> s, attempt |-> job[j].attempt]
      /\ job[j].attempt \in Nat
  BY DEF QueueOK
<1> QED BY <1>1, <1>2, QueueChanges

LEMMA JobCancelled ==
    ASSUME QueueOK, NEW j \in Jobs, Lifecycle!Cancel(j), UNCHANGED owner
    PROVE  QueueOK'
<1>1. Lifecycle!Becomes(j, "CANCELLED") /\ job[j].status \in {"PENDING", "RETRY"}
  BY DEF Lifecycle!Cancel
<1>2. owner' = [owner EXCEPT ![j] = Nobody]
  BY <1>1 DEF QueueOK
<1> QED BY <1>1, <1>2, JobBecomes

LEMMA JobStarted ==
    ASSUME PlanningAssumption, QueueOK, NEW j \in Jobs, NEW w \in Workers,
           Lifecycle!Start(j, {}), owner' = [owner EXCEPT ![j] = w]
    PROVE  QueueOK'
<1>1. job' = [Lifecycle!Lose({}) EXCEPT ![j] =
                  [status |-> "RUNNING", attempt |-> job[j].attempt + 1]]
  BY DEF Lifecycle!Start
<1>2. Lifecycle!Lose({}) = job
  BY DEF Lifecycle!Lose, QueueOK
<1>3. job[j].attempt + 1 \in Nat /\ w # Nobody
  BY DEF QueueOK, PlanningAssumption
<1> QED BY <1>1, <1>2, <1>3, QueueChanges

-----------------------------------------------------------------------------
(* A step of a run.                                                        *)

Moved(w, s) ==
    /\ work' \in [Workers -> WorkRow]
    /\ \A v \in Workers \ {w} : work'[v] = work[v]
    /\ work'[w].step = s

LEMMA GotoMoves ==
    ASSUME TypeOK, NEW w \in Workers, NEW s \in Steps, Goto(w, s)
    PROVE  Moved(w, s) /\ work'[w].job = work[w].job
<1>1. work' = [work EXCEPT ![w] = [work[w] EXCEPT !.step = s]]
  BY DEF Goto
<1>2. work \in [Workers -> WorkRow] /\ work[w] \in WorkRow
  BY DEF TypeOK, WorkRow
<1>3. /\ [work[w] EXCEPT !.step = s] \in WorkRow
      /\ [work[w] EXCEPT !.step = s].step = s
      /\ [work[w] EXCEPT !.step = s].job = work[w].job
  BY <1>2 DEF WorkRow
<1> QED BY <1>1, <1>2, <1>3 DEF Moved

LEMMA LeaveMoves ==
    ASSUME TypeOK, NEW w \in Workers, Leave(w)
    PROVE  Moved(w, "none")
  BY DEF TypeOK, WorkRow, Leave, Idle, Moved, Steps

\* What the run of w does to the project, if anything.
ProjectMoves ==
    \/ project' = project
    \/ /\ project' \in ProjectState \ {"ADVISORY_READY"}
       /\ ProjectMayBecome(project, project')
       /\ project' = "MATRIX_READY" => active # {}

\* Only from MATRIX_READY a project waits for confirmation, and only from
\* there it is confirmed.
LEMMA ProjectTable ==
    ASSUME NEW p \in ProjectState
    PROVE  /\ ProjectMayBecome(p, "WAITING_CONFIRMATION") => p = "MATRIX_READY"
           /\ ProjectMayBecome(p, "ADVISORY_READY") => p = "WAITING_CONFIRMATION"
  BY DEF ProjectState, ProjectMayBecome, ProjectTransitions

\* A step of a run that installs nothing.
LEMMA StepKeeps ==
    ASSUME PlanInv, NEW w \in Workers, NEW s \in Steps \ {"install"}, Moved(w, s),
           ProjectMoves, QueueOK',
           UNCHANGED <<request, compiled, matrices, active, outrun, confirmed, approval>>,
           alive' \subseteq Workers, {unclosed', stalled'} \subseteq BOOLEAN,
           s # "none" => work'[w].job \in Jobs,
           s \in PlanSteps => work'[w].job \in Prepares,
           s \in {"ready", "await"} => active # {}
    PROVE  PlanInv'
<1>1. project' \in ProjectState
  BY DEF ProjectMoves, PlanInv, TypeOK
<1>2. TypeOK'
  BY <1>1 DEF PlanInv, TypeOK, QueueOK, Moved, WorkRow
<1>3. WorkInv'
  BY DEF PlanInv, WorkInv, Moved, OnRecord
<1>4. FreshInv'
  <2>1. \A a : Seen(a)' <=> Seen(a)
    BY DEF Seen
  <2> QED BY <2>1 DEF PlanInv, FreshInv, Moved
<1>5. ConfirmInv'
  BY DEF PlanInv, ConfirmInv, LastIsActive, ProjectMoves
<1>6. PlansAreOnRecord'
  <2>1. project' = "WAITING_CONFIRMATION" /\ project' # project => project = "MATRIX_READY"
    BY ProjectTable DEF ProjectMoves, PlanInv, TypeOK
  <2> QED BY <2>1 DEF PlanInv, PlansAreOnRecord, ProjectMoves
<1> QED BY <1>2, <1>3, <1>4, <1>5, <1>6 DEF PlanInv

\* A run that only moves on.
LEMMA GotoKeeps ==
    ASSUME PlanInv, NEW w \in Workers, NEW s \in Steps \ {"install"}, Goto(w, s),
           ProjectMoves, QueueOK', UNCHANGED deskVars,
           UNCHANGED <<compiled, matrices, active, outrun>>, unclosed' \in BOOLEAN,
           work[w].step # "none",
           s \in PlanSteps => work[w].step \in PlanSteps,
           s \in {"ready", "await"} => active # {}
    PROVE  PlanInv'
<1>1. Moved(w, s) /\ work'[w].job = work[w].job
  BY GotoMoves DEF PlanInv
<1>2. /\ s # "none" => work'[w].job \in Jobs
      /\ s \in PlanSteps => work'[w].job \in Prepares
  BY <1>1 DEF PlanInv, WorkInv
<1> QED BY <1>1, <1>2, StepKeeps DEF deskVars, PlanInv, TypeOK

LEMMA LeaveKeeps ==
    ASSUME PlanInv, NEW w \in Workers, Leave(w), ProjectMoves, QueueOK',
           UNCHANGED deskVars, UNCHANGED <<compiled, matrices, active, outrun>>,
           unclosed' \in BOOLEAN
    PROVE  PlanInv'
<1>1. Moved(w, "none") /\ "none" \in Steps \ {"install"} /\ "none" \notin PlanSteps
  BY LeaveMoves DEF PlanInv, Steps, PlanSteps
<1> QED BY <1>1, StepKeeps DEF deskVars, PlanInv, TypeOK

-----------------------------------------------------------------------------
(* The prepare handler.                                                    *)

LEMMA PlanInitInv ==
    ASSUME PlanningAssumption, Init PROVE PlanInv
<1>1. job \in [Jobs -> [status: {"ABSENT", "PENDING", "RUNNING", "SUCCEEDED",
                               "RETRY", "FAILED", "CANCELLED"},
                      attempt: Nat]]
  BY DEF Init, Lifecycle!Init, Lifecycle!NotSent
<1>2. TypeOK
  <2>1. \A j \in Jobs : job[j].status = "ABSENT" /\ owner[j] = Nobody
    BY DEF Init, Lifecycle!Init, Lifecycle!NotSent
  <2>2. work \in [Workers -> [job: Jobs \cup {Nobody}, step: Steps, revision: Nat]]
    BY DEF Init, Idle, Steps
  <2>3. /\ matrices \in Seq([job: Prepares, revision: Nat])
        /\ confirmed \in Seq([matrix: Nat, objects: SUBSET (Keys \X Revision)])
    BY DEF Init
  <2>4. approval \in [Approvers -> [step: {"none", "objects", "store", "move", "done"},
                                   matrix: Nat, objects: SUBSET (Keys \X Revision)]]
    BY DEF Init, NotAsked
  <2> QED BY <1>1, <2>1, <2>2, <2>3, <2>4 DEF Init, TypeOK, ProjectState
<1>3. WorkInv
  BY DEF Init, WorkInv, Idle, PlanSteps
<1>4. FreshInv
  BY DEF Init, FreshInv, Seen, Idle, NotAsked
<1>5. ConfirmInv
  BY DEF Init, ConfirmInv, LastIsActive, NotAsked
<1>6. PlansAreOnRecord
  BY DEF Init, PlansAreOnRecord
<1> QED BY <1>2, <1>3, <1>4, <1>5, <1>6 DEF PlanInv

LEMMA DeskKeeps ==
    ASSUME PlanInv, request' \in [Prepares -> {"none", "validate", "insert"}],
           project' \in {project, "INPUT_VALIDATED"}, QueueOK',
           UNCHANGED <<compiled, matrices, active, outrun, unclosed, confirmed, work,
                       alive, approval, stalled>>
    PROVE  PlanInv'
<1>1. TypeOK'
  BY DEF PlanInv, TypeOK, QueueOK, ProjectState
<1>2. WorkInv'
  BY DEF PlanInv, WorkInv, OnRecord
<1>3. FreshInv'
  <2>1. \A a : Seen(a)' <=> Seen(a)
    BY DEF Seen
  <2> QED BY <2>1 DEF PlanInv, FreshInv
<1>4. ConfirmInv'
  BY DEF PlanInv, ConfirmInv, LastIsActive
<1>5. PlansAreOnRecord'
  BY DEF PlanInv, PlansAreOnRecord
<1> QED BY <1>1, <1>2, <1>3, <1>4, <1>5 DEF PlanInv

LEMMA QueueKept ==
    ASSUME PlanInv, UNCHANGED queueVars PROVE QueueOK'
  BY DEF PlanInv, TypeOK, QueueOK, queueVars

LEMMA AskPrepareInv ==
    ASSUME PlanInv, NEW p \in Prepares, AskPrepare(p) PROVE PlanInv'
<1>1. request' \in [Prepares -> {"none", "validate", "insert"}]
  BY DEF AskPrepare, PlanInv, TypeOK
<1> QED BY <1>1, QueueKept, DeskKeeps DEF AskPrepare, planVars

LEMMA ValidatePrepareInv ==
    ASSUME PlanInv, NEW p \in Prepares, ValidatePrepare(p) PROVE PlanInv'
<1>1. request' \in [Prepares -> {"none", "validate", "insert"}]
  BY DEF ValidatePrepare, PlanInv, TypeOK
<1>2. project' \in {project, "INPUT_VALIDATED"}
  BY DEF ValidatePrepare
<1> QED BY <1>1, <1>2, QueueKept, DeskKeeps DEF ValidatePrepare

LEMMA InsertPrepareInv ==
    ASSUME PlanInv, NEW p \in Prepares, InsertPrepare(p) PROVE PlanInv'
<1>1. request' \in [Prepares -> {"none", "validate", "insert"}]
  BY DEF InsertPrepare, PlanInv, TypeOK
<1>2. QueueOK'
  BY JobEnqueued DEF InsertPrepare, PlanInv, TypeOK, QueueOK, Jobs
<1> QED BY <1>1, <1>2, DeskKeeps DEF InsertPrepare, planVars

LEMMA EnqueueSyncInv ==
    ASSUME PlanInv, NEW s \in Syncs, EnqueueSync(s) PROVE PlanInv'
<1>1. QueueOK'
  BY JobEnqueued DEF EnqueueSync, PlanInv, TypeOK, QueueOK, Jobs
<1> QED BY <1>1, DeskKeeps DEF EnqueueSync, planVars, PlanInv, TypeOK

LEMMA CancelInv ==
    ASSUME PlanInv, NEW j \in Jobs, Cancel(j) PROVE PlanInv'
<1>1. QueueOK'
  BY JobCancelled DEF Cancel, PlanInv, TypeOK, QueueOK
<1> QED BY <1>1, DeskKeeps DEF Cancel, planVars, PlanInv, TypeOK

-----------------------------------------------------------------------------
(* The confirm handler.                                                    *)

ApprovalRow == [step: {"none", "objects", "store", "move", "done"},
                matrix: Nat, objects: SUBSET (Keys \X Revision)]

\* A handler that stores nothing has seen what was seen or is active.
LEMMA ApproverKeeps ==
    ASSUME PlanInv, NEW v \in Approvers, NEW r \in ApprovalRow,
           approval' = [approval EXCEPT ![v] = r],
           UNCHANGED <<queueVars, request, compiled, matrices, active, outrun, unclosed,
                       work, alive, stalled, confirmed>>,
           project' \in ProjectState,
           project' # project =>
               project' = "ADVISORY_READY" /\ active # {} /\ (~outrun => LastIsActive),
           r.objects \in {{}, active, approval[v].objects},
           ~outrun /\ r.step \in {"store", "move"} => r.objects = active,
           ~outrun /\ r.step = "move" => LastIsActive
    PROVE  PlanInv'
<1>1. TypeOK'
  BY DEF PlanInv, TypeOK, queueVars, ApprovalRow
<1>2. WorkInv'
  BY DEF PlanInv, WorkInv, OnRecord
<1>3. FreshInv'
  <2>1. \A a : Seen(a)' => Seen(a)
    BY DEF Seen, PlanInv, TypeOK
  <2> QED BY <2>1 DEF PlanInv, FreshInv
<1>4. ConfirmInv'
  BY DEF PlanInv, ConfirmInv, LastIsActive, TypeOK
<1>5. PlansAreOnRecord'
  BY DEF PlanInv, PlansAreOnRecord
<1> QED BY <1>1, <1>2, <1>3, <1>4, <1>5 DEF PlanInv

LEMMA CompareMatrixInv ==
    ASSUME PlanInv, NEW v \in Approvers, CompareMatrix(v) PROVE PlanInv'
<1> DEFINE r == [step |-> "objects", matrix |-> Len(matrices), objects |-> {}]
<1>1. approval' = [approval EXCEPT ![v] = r] /\ r \in ApprovalRow
  BY DEF CompareMatrix, ApprovalRow, PlanInv, TypeOK
<1>2. /\ UNCHANGED <<queueVars, request, compiled, matrices, active, outrun, unclosed,
                     work, alive, stalled, confirmed>>
      /\ UNCHANGED project
  BY DEF CompareMatrix, apiVars, planVars
<1>3. project \in ProjectState
  BY DEF PlanInv, TypeOK
<1> QED BY <1>1, <1>2, <1>3, ApproverKeeps

LEMMA CompareObjectsInv ==
    ASSUME PlanInv, NEW v \in Approvers, CompareObjects(v) PROVE PlanInv'
<1> DEFINE r == [step |-> "store", matrix |-> approval[v].matrix, objects |-> active]
<1>1. approval' = [approval EXCEPT ![v] = r] /\ r \in ApprovalRow
  BY DEF CompareObjects, ApprovalRow, PlanInv, TypeOK
<1>2. /\ UNCHANGED <<queueVars, request, compiled, matrices, active, outrun, unclosed,
                     work, alive, stalled, confirmed>>
      /\ UNCHANGED project
  BY DEF CompareObjects, apiVars, planVars
<1>3. project \in ProjectState
  BY DEF PlanInv, TypeOK
<1> QED BY <1>1, <1>2, <1>3, ApproverKeeps

LEMMA MoveConfirmedInv ==
    ASSUME PlanInv, NEW v \in Approvers, MoveConfirmed(v) PROVE PlanInv'
<1> DEFINE r == [approval[v] EXCEPT !.step = "done"]
<1>1. approval' = [approval EXCEPT ![v] = r] /\ r \in ApprovalRow
      /\ r.objects = approval[v].objects /\ r.step = "done"
  BY DEF MoveConfirmed, ApprovalRow, PlanInv, TypeOK
<1>2. UNCHANGED <<queueVars, request, compiled, matrices, active, outrun, unclosed,
                  work, alive, stalled, confirmed>>
  BY DEF MoveConfirmed
<1>3. project' \in ProjectState
  BY DEF MoveConfirmed, PlanInv, TypeOK, ProjectState
<1>4. project' # project =>
          project' = "ADVISORY_READY" /\ active # {} /\ (~outrun => LastIsActive)
  BY ProjectTable DEF MoveConfirmed, PlanInv, TypeOK, PlansAreOnRecord, ConfirmInv
<1> QED BY <1>1, <1>2, <1>3, <1>4, ApproverKeeps

LEMMA StoreConfirmationInv ==
    ASSUME PlanInv, NEW v \in Approvers, StoreConfirmation(v) PROVE PlanInv'
<1> DEFINE c == [matrix |-> approval[v].matrix, objects |-> approval[v].objects]
           r == [approval[v] EXCEPT !.step = "move"]
<1>1. /\ approval' = [approval EXCEPT ![v] = r] /\ r \in ApprovalRow
      /\ r.objects = approval[v].objects /\ r.step = "move"
  BY DEF StoreConfirmation, ApprovalRow, PlanInv, TypeOK
<1>2. UNCHANGED <<queueVars, request, project, compiled, matrices, active, outrun,
                  unclosed, work, alive, stalled>>
  BY DEF StoreConfirmation, apiVars, planVars
<1>3. confirmed' = IF \E i \in DOMAIN confirmed : confirmed[i] = c
                   THEN confirmed ELSE Append(confirmed, c)
  BY DEF StoreConfirmation
<1>4. /\ confirmed \in Seq([matrix: Nat, objects: SUBSET (Keys \X Revision)])
      /\ c \in [matrix: Nat, objects: SUBSET (Keys \X Revision)]
  BY DEF PlanInv, TypeOK
<1>5. \A i \in DOMAIN confirmed' :
          (i \in DOMAIN confirmed /\ confirmed'[i] = confirmed[i]) \/ confirmed'[i] = c
  BY <1>3, <1>4
<1>6. TypeOK'
  <2>1. confirmed' \in Seq([matrix: Nat, objects: SUBSET (Keys \X Revision)])
    <3> DEFINE S == [matrix: Nat, objects: SUBSET (Keys \X Revision)]
    <3>1. confirmed \in Seq(S) /\ c \in S
      BY <1>4
    <3> HIDE DEF S, c
    <3>2. Append(confirmed, c) \in Seq(S)
      BY <3>1
    <3> QED BY <1>3, <3>1, <3>2 DEF S
  <2>2. approval' \in [Approvers -> ApprovalRow]
    BY <1>1 DEF PlanInv, TypeOK, ApprovalRow
  <2> QED BY <1>2, <2>1, <2>2 DEF PlanInv, TypeOK, queueVars, ApprovalRow
<1>7. WorkInv'
  BY <1>2 DEF PlanInv, WorkInv, OnRecord
<1>8. FreshInv'
  <2>1. \A a : Seen(a)' => Seen(a)
    <3>1. \A u \in Approvers : approval'[u].objects = approval[u].objects
      BY <1>1 DEF PlanInv, TypeOK
    <3> QED BY <1>2, <1>5, <3>1 DEF Seen
  <2> QED BY <1>2, <2>1 DEF PlanInv, FreshInv
<1>9. ConfirmInv'
  <2> SUFFICES ASSUME ~outrun PROVE ConfirmInv'
    BY <1>2 DEF ConfirmInv
  <2>1. c.objects = active
    BY DEF StoreConfirmation, PlanInv, ConfirmInv
  <2>2. LastIsActive'
    <3>1. CASE \E i \in DOMAIN confirmed : confirmed[i] = c
      BY <3>1, <1>2, <1>3, <2>1 DEF PlanInv, ConfirmInv, LastIsActive
    <3>2. CASE ~\E i \in DOMAIN confirmed : confirmed[i] = c
      BY <3>2, <1>2, <1>3, <1>4, <2>1 DEF LastIsActive
    <3> QED BY <3>1, <3>2
  <2> QED BY <1>1, <1>2, <2>1, <2>2 DEF PlanInv, ConfirmInv, TypeOK
<1>10. PlansAreOnRecord'
  BY <1>2 DEF PlanInv, PlansAreOnRecord
<1> QED BY <1>6, <1>7, <1>8, <1>9, <1>10 DEF PlanInv

-----------------------------------------------------------------------------
(* The runs.                                                               *)

LEMMA ClaimInv ==
    ASSUME PlanningAssumption, PlanInv, NEW w \in Workers, NEW j \in Jobs, Claim(w, j)
    PROVE  PlanInv'
<1> DEFINE s == IF j \in Prepares THEN "begin" ELSE "sync"
           r == [Idle EXCEPT !.job = j, !.step = s]
<1>1. QueueOK'
  BY JobStarted DEF Claim, PlanInv, TypeOK, QueueOK
<1>2. work' = [work EXCEPT ![w] = r]
  BY DEF Claim
<1>3. r \in WorkRow /\ r.job = j /\ r.step = s /\ s \in Steps \ {"install", "ready", "await"}
  BY DEF Idle, WorkRow, Steps
<1>4. Moved(w, s) /\ work'[w].job = j
  BY <1>2, <1>3 DEF PlanInv, TypeOK, Moved, WorkRow
<1>5. s \in PlanSteps => j \in Prepares
  BY DEF PlanSteps
<1>6. /\ UNCHANGED <<request, compiled, matrices, active, outrun, confirmed, approval>>
      /\ ProjectMoves /\ alive' \subseteq Workers
      /\ {unclosed', stalled'} \subseteq BOOLEAN
  BY DEF Claim, planVars, ProjectMoves, PlanInv, TypeOK
<1> QED BY <1>1, <1>3, <1>4, <1>5, <1>6, StepKeeps

LEMMA BeginInv ==
    ASSUME PlanInv, NEW w \in Workers, Begin(w) PROVE PlanInv'
<1>1. PICK s \in {"revise", "chain"} : Goto(w, s)
  BY DEF Begin
<1>2. s \in Steps \ {"install"} /\ s \notin {"ready", "await"} /\ work[w].step = "begin"
  BY DEF Begin, At, Steps
<1>3. /\ QueueOK' /\ ProjectMoves /\ UNCHANGED <<compiled, matrices, active, outrun>>
      /\ unclosed' \in BOOLEAN
  BY QueueKept DEF Begin, planVars, ProjectMoves, PlanInv, TypeOK
<1> QED BY <1>1, <1>2, <1>3, GotoKeeps DEF Begin, PlanSteps

\* A run that moves the project, or finds that it may not.
LEMMA MoveProjectInv ==
    ASSUME PlanInv, NEW w \in Workers,
           NEW step \in PlanSteps, NEW target \in ProjectState \ {"ADVISORY_READY"},
           NEW next \in Steps \ {"install"}, MoveProject(w, step, target, next),
           next \in {"ready", "await"} \/ target = "MATRIX_READY" => step \in {"ready", "await"}
    PROVE  PlanInv'
<1>1. step # "none" /\ work[w].step = step /\ "raised" \in Steps \ {"install"}
      /\ "raised" \notin PlanSteps \cup {"ready", "await"}
  BY DEF PlanSteps, MoveProject, At, Steps
<1>2. step \in {"ready", "await"} => active # {}
  BY <1>1 DEF PlanInv, WorkInv
<1>3. ProjectMoves
  BY <1>2 DEF MoveProject, ProjectMoves
<1>4. /\ QueueOK' /\ UNCHANGED <<compiled, matrices, active, outrun>>
      /\ UNCHANGED deskVars /\ unclosed' \in BOOLEAN
  BY QueueKept DEF MoveProject, PlanInv, TypeOK
<1>5. Goto(w, next) \/ Goto(w, "raised")
  BY DEF MoveProject
<1> QED BY <1>1, <1>2, <1>3, <1>4, <1>5, GotoKeeps

LEMMA MovesInv ==
    ASSUME PlanInv, NEW w \in Workers,
           Revise(w) \/ Chain(w) \/ Ready(w) \/ Await(w) \/ WaitForBudget(w)
    PROVE  PlanInv'
<1>1. CASE Revise(w)
  BY <1>1, MoveProjectInv DEF Revise, PlanSteps, Steps, ProjectState
<1>2. CASE Chain(w)
  BY <1>2, MoveProjectInv DEF Chain, PlanSteps, Steps, ProjectState
<1>3. CASE Ready(w)
  BY <1>3, MoveProjectInv DEF Ready, PlanSteps, Steps, ProjectState
<1>4. CASE Await(w)
  BY <1>4, MoveProjectInv DEF Await, PlanSteps, Steps, ProjectState
<1>5. CASE WaitForBudget(w)
  BY <1>5, MoveProjectInv DEF WaitForBudget, PlanSteps, Steps, ProjectState
<1> QED BY <1>1, <1>2, <1>3, <1>4, <1>5

\* A compilation draws a revision nobody has seen, and its matrix is put on
\* record before its plans are installed.
LEMMA CompileInv ==
    ASSUME PlanInv, NEW w \in Workers, Compile(w) PROVE PlanInv'
<1> DEFINE p == JobOf(w)
           n == compiled[p] + 1
           s == IF Plans[p] = {} THEN "budget" ELSE "install"
           m == [job |-> p, revision |-> n]
           r == [job |-> p, step |-> s, revision |-> n]
<1>1. w \in alive /\ work[w].step = "compile" /\ p \in Prepares /\ n \in Nat
  BY DEF Compile, At, PlanInv, WorkInv, TypeOK, PlanSteps, JobOf
<1>2. compiled' = [compiled EXCEPT ![p] = n] /\ compiled'[p] = n
  BY <1>1 DEF Compile, PlanInv, TypeOK
<1>3. work' = [work EXCEPT ![w] = r]
  BY <1>2 DEF Compile
<1>4. matrices' = IF \E i \in DOMAIN matrices : matrices[i].job = p
                  THEN matrices ELSE Append(matrices, m)
  BY <1>2 DEF Compile, PutMatrix
<1>5. /\ UNCHANGED <<project, active, outrun, unclosed, confirmed, approval, request, alive, stalled>>
      /\ UNCHANGED queueVars
  BY DEF Compile, deskVars
<1>6. /\ matrices \in Seq([job: Prepares, revision: Nat])
      /\ m \in [job: Prepares, revision: Nat]
  BY <1>1 DEF PlanInv, TypeOK
<1>7. /\ matrices' \in Seq([job: Prepares, revision: Nat])
      /\ \E i \in DOMAIN matrices' : matrices'[i].job = p
      /\ \A i \in DOMAIN matrices : i \in DOMAIN matrices' /\ matrices'[i] = matrices[i]
  <2> HIDE DEF m
  <2>1. m.job = p
    BY DEF m
  <2>2. CASE \E i \in DOMAIN matrices : matrices[i].job = p
    BY <1>4, <1>6, <2>2
  <2>3. CASE ~\E i \in DOMAIN matrices : matrices[i].job = p
    <3>1. matrices' = Append(matrices, m)
      BY <1>4, <2>3
    <3>2. /\ matrices' \in Seq([job: Prepares, revision: Nat])
          /\ Len(matrices) + 1 \in DOMAIN matrices' /\ matrices'[Len(matrices) + 1] = m
      BY <1>6, <3>1
    <3>3. \A i \in DOMAIN matrices : i \in DOMAIN matrices' /\ matrices'[i] = matrices[i]
      BY <1>6, <3>1
    <3> QED BY <2>1, <3>2, <3>3
  <2> QED BY <2>2, <2>3
<1>9. r \in WorkRow /\ work' \in [Workers -> WorkRow] /\ work'[w] = r
      /\ \A v \in Workers \ {w} : work'[v] = work[v]
  BY <1>1, <1>3 DEF WorkRow, Steps, Jobs, PlanInv, TypeOK
<1>10. TypeOK'
  BY <1>1, <1>2, <1>5, <1>7, <1>9 DEF PlanInv, TypeOK, WorkRow, queueVars
<1>11. \A q \in Prepares : compiled[q] \in Nat /\ compiled'[q] \in Nat /\ compiled'[q] >= compiled[q]
  BY <1>1, <1>2 DEF PlanInv, TypeOK
<1>12. WorkInv'
  <2> SUFFICES ASSUME NEW v \in Workers
               PROVE  /\ work'[v].step # "none" => work'[v].job \in Jobs
                      /\ work'[v].step \in PlanSteps => work'[v].job \in Prepares
                      /\ work'[v].step = "install" =>
                             /\ Plans[work'[v].job] # {}
                             /\ \E i \in DOMAIN matrices' :
                                    matrices'[i].job = work'[v].job
                             /\ work'[v].revision <= compiled'[work'[v].job]
                      /\ work'[v].step \in {"ready", "await"} => active' # {}
    BY DEF WorkInv, OnRecord
  <2>1. CASE v = w
    <3>1. work'[v] = r /\ r.job = p /\ r.step = s /\ r.revision = n
      BY <1>9, <2>1
    <3>2. p \in Jobs /\ s \in {"budget", "install"} /\ (s = "install" => Plans[p] # {})
      BY <1>1 DEF Jobs
    <3>3. n <= compiled'[p]
      BY <1>1, <1>2
    <3> HIDE DEF p, n, s, r
    <3> QED BY <1>1, <1>7, <3>1, <3>2, <3>3
  <2>2. CASE v # w
    <3>1. work'[v] = work[v] /\ work[v] \in WorkRow
      BY <1>9, <2>2 DEF PlanInv, TypeOK, WorkRow
    <3>2. work[v].step = "install" => work[v].revision <= compiled'[work[v].job]
      BY <1>11, <3>1 DEF PlanInv, WorkInv, PlanSteps, WorkRow
    <3>3. OnRecord(work[v].job) =>
              \E i \in DOMAIN matrices' : matrices'[i].job = work[v].job
      BY <1>7 DEF OnRecord
    <3> QED BY <1>5, <3>1, <3>2, <3>3 DEF PlanInv, WorkInv
  <2> QED BY <2>1, <2>2
<1>13. FreshInv'
  <2>1. \A a : Seen(a)' <=> Seen(a)
    BY <1>5 DEF Seen
  <2>2. \A a \in Keys \X Revision : Seen(a) =>
            /\ a[2][2] <= compiled'[a[2][1]]
            /\ a[2] # <<p, n>>
    BY <1>1, <1>2, <1>11 DEF PlanInv, FreshInv, Revision
  <2>3. \A v \in Workers \ {w} : work[v].step = "install" /\ work[v].job = p
                                    => work[v].revision # n
    BY <1>1, <1>11 DEF PlanInv, WorkInv, TypeOK
  <2> QED BY <1>9, <2>1, <2>2, <2>3 DEF PlanInv, FreshInv
<1>14. ConfirmInv'
  BY <1>5 DEF PlanInv, ConfirmInv, LastIsActive
<1>15. PlansAreOnRecord'
  BY <1>5, <1>7 DEF PlanInv, PlansAreOnRecord
<1> QED BY <1>10, <1>12, <1>13, <1>14, <1>15 DEF PlanInv

\* The plans a run installs are none that were confirmed, so a confirmation
\* that is taken for theirs would have to come later.
LEMMA InstallInv ==
    ASSUME PlanningAssumption, PlanInv, NEW w \in Workers, Install(w) PROVE PlanInv'
<1>1. PICK p \in Prepares, n \in Nat :
          /\ work[w].job = p /\ work[w].revision = n /\ work[w].step = "install"
          /\ Plans[p] # {} /\ OnRecord(p) /\ n <= compiled[p]
  BY DEF Install, At, PlanInv, WorkInv, TypeOK, PlanSteps
<1> DEFINE new == Plans[p] \X {<<p, n>>}
           kept == {a \in active : a[1] \notin Plans[p]}
<1>2. active' = kept \cup new
  BY <1>1 DEF Install, Installed, Kept, JobOf
<1>3. new \subseteq Keys \X Revision
  BY <1>1 DEF PlanningAssumption, Keys, Revision
<1>4. active' # {} /\ \E a \in new : a \in active'
  <2>1. PICK k \in Plans[p] : <<k, <<p, n>>>> \in new
    BY <1>1
  <2> QED BY <1>2, <2>1
<1>5. Moved(w, "ready") /\ work'[w].job = p
  BY <1>1, GotoMoves DEF Install, PlanInv, Steps
<1>6. /\ UNCHANGED <<project, compiled, matrices, unclosed, confirmed, approval, request,
                    alive, stalled>>
      /\ UNCHANGED queueVars
  BY DEF Install, deskVars
<1>7. outrun' \in BOOLEAN
  BY DEF Install, PlanInv, TypeOK
<1>8. TypeOK'
  <2>1. active' \subseteq Keys \X Revision
    BY <1>2, <1>3 DEF PlanInv, TypeOK
  <2>2. \A a, b \in active' : a[1] = b[1] => a = b
    <3>1. \A a \in new : a[1] \in Plans[p] /\ a = <<a[1], <<p, n>>>>
      OBVIOUS
    <3>2. \A a \in kept : a \in active /\ a[1] \notin Plans[p]
      OBVIOUS
    <3> HIDE DEF new, kept
    <3>3. \A a, b \in active : a[1] = b[1] => a = b
      BY DEF PlanInv, TypeOK
    <3> QED BY <1>2, <3>1, <3>2, <3>3
  <2>3. {outrun', unclosed', stalled'} \subseteq BOOLEAN
    BY <1>6, <1>7 DEF PlanInv, TypeOK
  <2> QED BY <1>5, <1>6, <2>1, <2>2, <2>3 DEF PlanInv, TypeOK, Moved, WorkRow, queueVars
<1>9. WorkInv'
  BY <1>1, <1>4, <1>5, <1>6 DEF PlanInv, WorkInv, Moved, OnRecord, Jobs, PlanSteps
<1>10. FreshInv'
  <2>1. \A a : Seen(a)' => Seen(a) \/ a \in new
    BY <1>2, <1>6 DEF Seen
  <2>2. \A a \in new : a[2] = <<p, n>> /\ a[2][1] = p /\ a[2][2] = n
    OBVIOUS
  <2>3. \A v \in Workers \ {w} : work[v].step = "install" =>
            <<work[v].job, work[v].revision>> # <<p, n>>
    BY <1>1 DEF PlanInv, FreshInv
  <2>4. \A v \in Workers : work'[v].step = "install" => v # w /\ work'[v] = work[v]
    BY <1>5 DEF Moved
  <2> HIDE DEF new
  <2>5. \A a \in Keys \X Revision : Seen(a)' => a[2][2] <= compiled'[a[2][1]]
    BY <1>1, <1>6, <2>1, <2>2 DEF PlanInv, FreshInv
  <2>6. \A v \in Workers : work'[v].step = "install" =>
            /\ \A a \in Keys \X Revision :
                   Seen(a)' => a[2] # <<work'[v].job, work'[v].revision>>
            /\ \A u \in Workers \ {v} :
                   work'[u].step = "install" /\ work'[u].job = work'[v].job
                       => work'[u].revision # work'[v].revision
    BY <2>1, <2>2, <2>3, <2>4 DEF PlanInv, FreshInv
  <2> QED BY <2>5, <2>6 DEF FreshInv
<1>11. ConfirmInv'
  <2> SUFFICES ASSUME ~outrun' PROVE ConfirmInv'
    BY DEF ConfirmInv
  <2>1. project' = "THREE_CHAIN_READY"
    BY <1>6 DEF Install, PlanInv, TypeOK
  <2>2. \A v \in Approvers : approval'[v].step \notin {"store", "move"}
    BY <1>6 DEF Install, PlanInv, TypeOK
  <2>3. ASSUME NEW i \in DOMAIN confirmed', confirmed'[i].objects = active' PROVE FALSE
    <3>1. PICK a \in new : a \in confirmed[i].objects
      BY <1>4, <1>6, <2>3
    <3>2. a \in Keys \X Revision /\ Seen(a)
      BY <1>3, <1>6, <2>3, <3>1 DEF Seen
    <3> QED BY <1>1, <3>1, <3>2 DEF PlanInv, FreshInv
  <2> QED BY <2>1, <2>2, <2>3 DEF ConfirmInv
<1>12. PlansAreOnRecord'
  BY <1>1, <1>2, <1>4, <1>6 DEF PlanInv, PlansAreOnRecord, OnRecord
<1> QED BY <1>8, <1>9, <1>10, <1>11, <1>12 DEF PlanInv

\* The steps of a run that touch neither the queue nor the project.
LEMMA QuietInv ==
    ASSUME PlanInv, NEW w \in Workers, Fails(w) \/ Sync(w) \/ Peek(w) \/ Refused(w)
    PROVE  PlanInv'
<1>1. /\ QueueOK' /\ ProjectMoves /\ UNCHANGED <<compiled, matrices, active, outrun>>
      /\ UNCHANGED deskVars /\ unclosed' \in BOOLEAN
  BY QueueKept DEF Fails, Sync, Peek, Refused, planVars, ProjectMoves, PlanInv, TypeOK
<1>2. work[w].step # "none"
  BY DEF Fails, Sync, Peek, Refused, At, PlanSteps
<1>3. CASE Leave(w)
  BY <1>1, <1>3, LeaveKeeps
<1>4. CASE ~Leave(w)
  <2>1. PICK s \in {"raised", "finish", "close"} : Goto(w, s)
    BY <1>4 DEF Fails, Sync, Peek, Refused
  <2>2. s \in Steps \ {"install"} /\ s \notin PlanSteps /\ s \notin {"ready", "await"}
    BY DEF Steps, PlanSteps
  <2> QED BY <1>1, <1>2, <2>1, <2>2, GotoKeeps
<1> QED BY <1>3, <1>4

\* A run that tells the queue how its job ended.
LEMMA ReportsInv ==
    ASSUME PlanInv, NEW w \in Workers, Finish(w) \/ Raised(w)
    PROVE  PlanInv'
<1>1. /\ ProjectMoves /\ UNCHANGED <<compiled, matrices, active, outrun>>
      /\ UNCHANGED deskVars /\ work[w].step # "none" /\ unclosed' \in BOOLEAN
  BY DEF Finish, Raised, planVars, ProjectMoves, At, PlanInv, TypeOK
<1>2. PICK j \in Jobs : j = JobOf(w)
  BY <1>1 DEF PlanInv, WorkInv, JobOf
<1>3. QueueOK'
  <2>1. CASE UNCHANGED queueVars
    BY <2>1, QueueKept
  <2>2. CASE ~UNCHANGED queueVars
    <3>1. PICK s \in {"SUCCEEDED", "RETRY", "FAILED"} : Lifecycle!End(j, s)
      BY <1>2, <2>2 DEF Finish, Raised
    <3>2. Lifecycle!Becomes(j, s) /\ owner' = [owner EXCEPT ![j] = Nobody]
      BY <1>2, <2>2, <3>1 DEF Finish, Raised, Lifecycle!End
    <3> QED BY <3>2, JobBecomes DEF PlanInv, TypeOK, QueueOK
  <2> QED BY <2>1, <2>2
<1>4. CASE Leave(w)
  BY <1>1, <1>3, <1>4, LeaveKeeps
<1>5. CASE ~Leave(w)
  <2>1. PICK s \in {"raised", "peek"} : Goto(w, s)
    BY <1>5 DEF Finish, Raised
  <2>2. s \in Steps \ {"install"} /\ s \notin PlanSteps /\ s \notin {"ready", "await"}
    BY DEF Steps, PlanSteps
  <2> QED BY <1>1, <1>3, <2>1, <2>2, GotoKeeps
<1> QED BY <1>4, <1>5

LEMMA CloseInv ==
    ASSUME PlanInv, NEW w \in Workers, Close(w) PROVE PlanInv'
<1>1. ProjectMoves
  BY DEF Close, ProjectMoves, ProjectState
<1> QED BY <1>1, QueueKept, LeaveKeeps DEF Close, PlanInv, TypeOK

LEMMA CrashInv ==
    ASSUME PlanInv, NEW w \in Workers, Crash(w) PROVE PlanInv'
<1>1. TypeOK'
  BY DEF Crash, queueVars, PlanInv, TypeOK
<1>2. WorkInv' /\ PlansAreOnRecord'
  BY DEF Crash, PlanInv, WorkInv, OnRecord, PlansAreOnRecord
<1>3. FreshInv'
  <2>1. \A a : Seen(a)' <=> Seen(a)
    BY DEF Crash, Seen
  <2> QED BY <2>1 DEF Crash, PlanInv, FreshInv
<1>4. ConfirmInv'
  BY DEF Crash, PlanInv, ConfirmInv, LastIsActive
<1> QED BY <1>1, <1>2, <1>3, <1>4 DEF PlanInv

LEMMA PlanStutters ==
    ASSUME PlanInv, UNCHANGED vars PROVE PlanInv'
<1>1. QueueOK'
  BY QueueKept DEF vars
<1> QED BY <1>1, DeskKeeps DEF vars, planVars, PlanInv, TypeOK

-----------------------------------------------------------------------------

LEMMA PlanNextInv ==
    ASSUME PlanningAssumption, PlanInv, [Next]_vars PROVE PlanInv'
<1>1. CASE \E p \in Prepares : AskPrepare(p) \/ ValidatePrepare(p) \/ InsertPrepare(p)
  BY <1>1, AskPrepareInv, ValidatePrepareInv, InsertPrepareInv
<1>2. CASE \E s \in Syncs : EnqueueSync(s)
  BY <1>2, EnqueueSyncInv
<1>3. CASE \E j \in Jobs : Cancel(j)
  BY <1>3, CancelInv
<1>4. CASE \E a \in Approvers : \/ CompareMatrix(a) \/ CompareObjects(a)
                                \/ StoreConfirmation(a) \/ MoveConfirmed(a)
  BY <1>4, CompareMatrixInv, CompareObjectsInv, StoreConfirmationInv, MoveConfirmedInv
<1>5. CASE \E w \in Workers : \E j \in Jobs : Claim(w, j)
  BY <1>5, ClaimInv
<1>6. CASE \E w \in Workers : RunStep(w)
  BY <1>6, BeginInv, MovesInv, CompileInv, InstallInv, QuietInv, ReportsInv, CloseInv
     DEF RunStep
<1>7. CASE \E w \in Workers : Refused(w) \/ Crash(w)
  BY <1>7, QuietInv, CrashInv
<1>8. CASE UNCHANGED vars
  BY <1>8, PlanStutters
<1> QED BY <1>1, <1>2, <1>3, <1>4, <1>5, <1>6, <1>7, <1>8 DEF Next

\* Planning keeps its invariant, from which the theorems below follow.
THEOREM PlanningIsInv == Spec => []PlanInv
BY PlanInitInv, PlanNextInv, PlanningAssumption, PTL DEF Spec

\* The variables keep their types, a leased job runs, and no plan has two
\* active revisions.
THEOREM PlanningTypes == Spec => []TypeOK
<1>1. PlanInv => TypeOK
  BY DEF PlanInv
<1> QED BY <1>1, PlanningIsInv, PTL

\* No project asks for confirmation without plans, and no plan is active whose
\* matrix is not on record.
THEOREM PlansOnRecord == Spec => []PlansAreOnRecord
<1>1. PlanInv => PlansAreOnRecord
  BY DEF PlanInv
<1> QED BY <1>1, PlanningIsInv, PTL

\* What is confirmed last is active as long as the project is confirmed and
\* nobody outran the confirmation.
THEOREM ConfirmedActive == Spec => []ConfirmedIsActive
<1>1. PlanInv => ConfirmedIsActive
  BY DEF PlanInv, ConfirmInv, LastIsActive, ConfirmedIsActive
<1> QED BY <1>1, PlanningIsInv, PTL

=============================================================================
