-------------------------- MODULE JobQueue_proofs ---------------------------
(* What holds of the job queue for any set of jobs and of workers.         *)
EXTENDS JobQueue, TLAPS

(***************************************************************************)
(* Types.                                                                  *)
(***************************************************************************)

LEMMA MaxAttemptsIsOneOrThree ==
    \A kind : MaxAttempts(kind) \in {1, 3}
BY DEF MaxAttempts

\* What the statements of store.py keep of a well-formed row.
Leased(r) == /\ r \in Rows
             /\ r.status = "RUNNING" <=> r.lease # "none"
             /\ r.status = "RUNNING" <=> r.owner # NoOwner

LEMMA TypeOKByRow ==
    TypeOK <=> /\ row \in [Jobs -> Rows]
               /\ born \in [Jobs -> Nat]
               /\ clock \in Nat
               /\ work \in [Workers -> [job: Jobs, run: Nat] \cup {Idle}]
               /\ alive \subseteq Workers
               /\ runs \in [Jobs -> Nat]
               /\ resumes \in [Jobs -> Nat]
               /\ verdict \in [Jobs -> Nat]
               /\ \A j \in Jobs : Leased(row[j])
BY DEF TypeOK, Leased

LEMMA StatementsKeepLeased ==
    ASSUME NEW r, Leased(r)
    PROVE  /\ Leased(Inserted)
           /\ \A kind : Leased(Swept(r, kind))
           /\ \A w \in Workers : Leased(Claimed(r, w))
           /\ Leased([r EXCEPT !.due = TRUE])
           /\ Leased(Resumed(r)) \/ ~Resumable(r)
           /\ Leased(CancelledRow(r))
           /\ r.status = "RUNNING" => /\ Leased(Renewed(r))
                                      /\ Leased([r EXCEPT !.lease = "lapsed"])
           /\ \A status \in {"SUCCEEDED", "FAILED", "RETRY", "RECONCILE_REQUIRED"} :
                  Leased(Finished(r, status))
<1> USE JobQueueAssumption DEF Leased, Rows, Statuses
<1>1. Leased(Inserted)
  BY DEF Inserted, NoRow
<1>2. \A kind : Leased(Swept(r, kind))
  BY DEF Swept, LeaseLapsed
<1>3. \A w \in Workers : Leased(Claimed(r, w))
  <2> SUFFICES ASSUME NEW w \in Workers
               PROVE  Leased(Claimed(r, w))
    OBVIOUS
  <2> DEFINE next == r.attempt + 1
  <2>1. next \in Nat
    OBVIOUS
  <2>2. Claimed(r, w) = [r EXCEPT !.status = "RUNNING", !.attempt = next,
                                  !.owner = w, !.lease = "live"]
    BY DEF Claimed
  <2>3. w # NoOwner
    OBVIOUS
  <2>4. Claimed(r, w).status = "RUNNING" /\ Claimed(r, w).lease = "live"
        /\ Claimed(r, w).owner = w
    BY <2>2
  <2>5. Claimed(r, w) \in Rows
    <3> HIDE DEF next
    <3> QED  BY <2>1, <2>2
  <2> QED  BY <2>3, <2>4, <2>5
<1>4. Leased([r EXCEPT !.due = TRUE])
  OBVIOUS
<1>5. Leased(Resumed(r)) \/ ~Resumable(r)
  BY DEF Resumed, Resumable
<1>6. Leased(CancelledRow(r))
  BY DEF CancelledRow
<1>7. r.status = "RUNNING" => /\ Leased(Renewed(r))
                              /\ Leased([r EXCEPT !.lease = "lapsed"])
  BY DEF Renewed
<1>8. \A status \in {"SUCCEEDED", "FAILED", "RETRY", "RECONCILE_REQUIRED"} :
          Leased(Finished(r, status))
  BY DEF Finished
<1> QED  BY <1>1, <1>2, <1>3, <1>4, <1>5, <1>6, <1>7, <1>8

LEMMA TypeInit == Init => TypeOK
BY JobQueueAssumption DEF Init, TypeOK, Rows, Statuses, NoRow, Idle

LEMMA SweptTableIsLeased ==
    ASSUME TypeOK
    PROVE  /\ DOMAIN SweptTable = Jobs
           /\ SweptTable \in [Jobs -> Rows]
           /\ \A j \in Jobs : SweptTable[j] = Swept(row[j], Kind[j])
           /\ \A j \in Jobs : Leased(SweptTable[j])
<1>1. \A j \in Jobs : Leased(Swept(row[j], Kind[j]))
  BY TypeOKByRow, StatementsKeepLeased
<1>2. \A j \in Jobs : Swept(row[j], Kind[j]) \in Rows
  BY <1>1 DEF Leased
<1> QED  BY <1>1, <1>2 DEF SweptTable

LEMMA TypeStep == TypeOK /\ [Next]_vars => TypeOK'
<1> SUFFICES ASSUME TypeOK, [Next]_vars
             PROVE  TypeOK'
  OBVIOUS
<1>t. /\ row \in [Jobs -> Rows]
      /\ born \in [Jobs -> Nat]
      /\ clock \in Nat
      /\ work \in [Workers -> [job: Jobs, run: Nat] \cup {Idle}]
      /\ alive \subseteq Workers
      /\ runs \in [Jobs -> Nat]
      /\ resumes \in [Jobs -> Nat]
      /\ verdict \in [Jobs -> Nat]
      /\ \A j \in Jobs : Leased(row[j])
  BY TypeOKByRow
<1> DEFINE RowsOK == row' \in [Jobs -> Rows] /\ \A j \in Jobs : Leased(row'[j])
           RestOK == /\ born' \in [Jobs -> Nat]
                     /\ clock' \in Nat
                     /\ work' \in [Workers -> [job: Jobs, run: Nat] \cup {Idle}]
                     /\ alive' \subseteq Workers
                     /\ runs' \in [Jobs -> Nat]
                     /\ resumes' \in [Jobs -> Nat]
                     /\ verdict' \in [Jobs -> Nat]
<1>o. ASSUME NEW j \in Jobs, NEW r, Leased(r), row' = [row EXCEPT ![j] = r]
      PROVE  RowsOK
  BY <1>t, <1>o DEF Leased
<1>f. (RowsOK /\ RestOK) => TypeOK'
  BY DEF TypeOK, Leased
<1>1. ASSUME NEW j \in Jobs, JobStep(j)
      PROVE  RowsOK /\ RestOK
  <2>1. CASE Enqueue(j)
    <3>1. RowsOK
      BY <2>1, <1>t, <1>o, StatementsKeepLeased DEF Enqueue
    <3>2. clock' \in Nat /\ born' \in [Jobs -> Nat]
      BY <2>1, <1>t DEF Enqueue
    <3> QED  BY <2>1, <1>t, <3>1, <3>2 DEF Enqueue
  <2>2. CASE Cancel(j)
    BY <2>2, <1>t, <1>o, StatementsKeepLeased DEF Cancel
  <2>3. CASE Resume(j)
    <3>1. RowsOK
      BY <2>3, <1>t, <1>o, StatementsKeepLeased DEF Resume
    <3>2. resumes' \in [Jobs -> Nat]
      BY <2>3, <1>t DEF Resume
    <3> QED  BY <2>3, <1>t, <3>1, <3>2 DEF Resume
  <2>4. CASE LeaseExpires(j)
    <3>1. row[j].status = "RUNNING"
      BY <2>4, <1>t DEF Leased, LeaseExpires
    <3> QED  BY <3>1, <2>4, <1>t, <1>o, StatementsKeepLeased DEF LeaseExpires
  <2>5. CASE DelayElapses(j)
    BY <2>5, <1>t, <1>o, StatementsKeepLeased DEF DelayElapses
  <2> QED  BY <1>1, <2>1, <2>2, <2>3, <2>4, <2>5 DEF JobStep
<1>2. ASSUME NEW w \in Workers, WorkerStep(w)
      PROVE  RowsOK /\ RestOK
  <2>1. ASSUME NEW j \in Jobs, Claim(w, j)
        PROVE  RowsOK /\ RestOK
    <3>1. row' = [SweptTable EXCEPT ![j] = Claimed(SweptTable[j], w)]
      BY <2>1 DEF Claim
    <3>2. Leased(Claimed(SweptTable[j], w))
      BY SweptTableIsLeased, StatementsKeepLeased
    <3>3. RowsOK
      BY <3>1, <3>2, SweptTableIsLeased DEF Leased
    <3>4. runs' \in [Jobs -> Nat] /\ runs'[j] \in Nat
      BY <2>1, <1>t DEF Claim
    <3>5. work' \in [Workers -> [job: Jobs, run: Nat] \cup {Idle}]
      BY <2>1, <1>t, <3>4 DEF Claim
    <3> QED  BY <2>1, <1>t, <3>3, <3>4, <3>5 DEF Claim
  <2>2. CASE Poll(w)
    BY <2>2, <1>t, SweptTableIsLeased DEF Poll
  <2>3. ASSUME NEW status \in Statuses, Report(w, status)
        PROVE  RowsOK /\ RestOK
    <3>1. status \in Verdicts(work[w].job) /\ Verdict(w, work[w].job, status)
      BY <2>3 DEF Report
    <3>2. status \in {"SUCCEEDED", "FAILED", "RETRY", "RECONCILE_REQUIRED"}
      BY <3>1 DEF Verdicts, FailureStatus
    <3>3. work[w].job \in Jobs /\ work[w].run \in Nat
      BY <2>3, <1>t DEF Report, Idle
    <3>4. RowsOK /\ verdict' \in [Jobs -> Nat]
      <4>1. CASE OwnedBy(row[work[w].job], w)
        BY <4>1, <3>1, <3>2, <3>3, <1>t, <1>o, StatementsKeepLeased DEF Verdict
      <4>2. CASE ~OwnedBy(row[work[w].job], w)
        BY <4>2, <3>1, <1>t DEF Verdict
      <4> QED  BY <4>1, <4>2
    <3> QED  BY <2>3, <3>4, <1>t DEF Report
  <2>4. CASE ReportRefused(w)
    BY <2>4, <1>t DEF ReportRefused
  <2>5. CASE Heartbeat(w)
    <3>1. \A j \in Jobs : Leased(row'[j])
      BY <2>5, <1>t, StatementsKeepLeased DEF Heartbeat, OwnedBy
    <3>2. row' \in [Jobs -> Rows]
      BY <2>5, <3>1 DEF Heartbeat, Leased
    <3> QED  BY <2>5, <1>t, <3>1, <3>2 DEF Heartbeat
  <2>6. CASE Crash(w)
    BY <2>6, <1>t DEF Crash
  <2> QED  BY <1>2, <2>1, <2>2, <2>3, <2>4, <2>5, <2>6 DEF WorkerStep
<1>3. CASE UNCHANGED vars
  BY <1>3, <1>t, <1>f DEF vars
<1> QED  BY <1>1, <1>2, <1>3, <1>f DEF Next

\* Every state of the job queue is well typed, and a row carries a lease and
\* an owner exactly while it is RUNNING (the UPDATEs of store.py).
THEOREM JobQueueTypes == Spec => []TypeOK
<1>1. Init => TypeOK
  BY TypeInit
<1>2. TypeOK /\ [Next]_vars => TypeOK'
  BY TypeStep
<1> QED  BY <1>1, <1>2, PTL DEF Spec

(***************************************************************************)
(* How often a job runs.  The bound alone is not inductive: the attempts   *)
(* in the row account for the runs since the last resume.                  *)
(***************************************************************************)

RunsCounted ==
    \A j \in Jobs :
        /\ row[j].status = "ABSENT" => row[j].attempt = 0
        /\ row[j].attempt <= MaxAttempts(Kind[j])
        /\ runs[j] <= MaxAttempts(Kind[j]) * resumes[j] + row[j].attempt

\* No statement deletes a row.
Kept(r, s) == /\ s.attempt = r.attempt
              /\ s.status = "ABSENT" => r.status = "ABSENT"

\* The statements that claim nothing and resume nothing keep the attempts.
LEMMA AttemptsKept ==
    ASSUME NEW r, Leased(r)
    PROVE  /\ \A kind : Kept(r, Swept(r, kind))
           /\ Kept(r, CancelledRow(r))
           /\ Kept(r, Renewed(r))
           /\ \A status \in Statuses \ {"ABSENT"} : Kept(r, Finished(r, status))
BY DEF Leased, Rows, Kept, Swept, CancelledRow, Renewed, Finished

\* Claiming uses an attempt, resuming starts a new allowance of them.
LEMMA AttemptsUsed ==
    ASSUME NEW r, Leased(r)
    PROVE  /\ \A w : Claimed(r, w).attempt = r.attempt + 1
           /\ Resumed(r).attempt = 0
           /\ Inserted.attempt = 0
           /\ \A w : Claimed(r, w).status # "ABSENT"
           /\ \A kind : Claimable(r, kind) => r.attempt + 1 <= MaxAttempts(kind)
<1>1. \A w : Claimed(r, w).attempt = r.attempt + 1 /\ Claimed(r, w).status = "RUNNING"
  BY DEF Leased, Rows, Claimed
<1>2. Resumed(r).attempt = 0
  BY DEF Leased, Rows, Resumed
<1>3. Inserted.attempt = 0
  BY DEF Inserted, NoRow
<1>4. \A kind : Claimable(r, kind) => r.attempt + 1 <= MaxAttempts(kind)
  BY MaxAttemptsIsOneOrThree DEF Claimable, Leased, Rows
<1> QED  BY <1>1, <1>2, <1>3, <1>4

LEMMA AnotherAllowance ==
    ASSUME NEW max \in {1, 3}, NEW n \in Nat
    PROVE  max * (n + 1) = max * n + max
<1>1. CASE max = 1
  BY <1>1
<1>2. CASE max = 3
  BY <1>2
<1> QED  BY <1>1, <1>2

LEMMA RunsStep == TypeOK /\ RunsCounted /\ [Next]_vars => RunsCounted'
<1> SUFFICES ASSUME TypeOK, RunsCounted, [Next]_vars
             PROVE  RunsCounted'
  OBVIOUS
<1>t. /\ row \in [Jobs -> Rows]
      /\ runs \in [Jobs -> Nat]
      /\ resumes \in [Jobs -> Nat]
      /\ \A j \in Jobs : Leased(row[j])
  BY TypeOKByRow
<1>k. ASSUME /\ \A j \in Jobs : Kept(row[j], row'[j])
             /\ UNCHANGED <<runs, resumes>>
      PROVE  RunsCounted'
  BY <1>k DEF RunsCounted, Kept
<1>1. ASSUME NEW j \in Jobs, JobStep(j)
      PROVE  RunsCounted'
  <2>1. CASE Enqueue(j)
    <3>1. row[j].attempt = 0
      BY <2>1 DEF RunsCounted, Enqueue
    <3>2. Kept(row[j], row'[j])
      BY <2>1, <1>t, <3>1 DEF Enqueue, Inserted, NoRow, Kept
    <3>3. \A k \in Jobs \ {j} : row'[k] = row[k]
      BY <2>1, <1>t DEF Enqueue
    <3> QED  BY <2>1, <1>k, <3>2, <3>3 DEF Enqueue, Kept
  <2>2. CASE Cancel(j)
    BY <2>2, <1>t, <1>k, AttemptsKept DEF Cancel, Kept
  <2>3. CASE Resume(j)
    <3> DEFINE max == MaxAttempts(Kind[j])
    <3>1. max \in {1, 3}
      BY MaxAttemptsIsOneOrThree
    <3>2. /\ row'[j].attempt = 0
          /\ resumes'[j] = resumes[j] + 1
          /\ runs' = runs
      BY <2>3, <1>t, AttemptsUsed DEF Resume
    <3>3. max * (resumes[j] + 1) = max * resumes[j] + max
      BY <3>1, <1>t, AnotherAllowance
    <3>4. row[j].attempt <= max /\ runs[j] <= max * resumes[j] + row[j].attempt
      BY DEF RunsCounted
    <3>5. \A k \in Jobs \ {j} : row'[k] = row[k] /\ resumes'[k] = resumes[k]
      BY <2>3, <1>t DEF Resume
    <3>6. row[j].attempt \in Nat
      BY <1>t DEF Rows
    <3>7. max * resumes[j] \in Nat
      <4>1. CASE max = 1
        BY <4>1, <1>t
      <4>2. CASE max = 3
        BY <4>2, <1>t
      <4> QED  BY <3>1, <4>1, <4>2
    <3>8. runs[j] <= max * resumes[j] + max + 0 /\ 0 <= max
      <4> HIDE DEF max
      <4> DEFINE product == max * resumes[j]
      <4> HIDE DEF product
      <4> QED  BY <3>1, <3>4, <3>6, <3>7, <1>t DEF product
    <3> QED  BY <3>2, <3>3, <3>5, <3>8 DEF RunsCounted
  <2>4. CASE LeaseExpires(j)
    BY <2>4, <1>t, <1>k DEF LeaseExpires, Rows, Kept
  <2>5. CASE DelayElapses(j)
    BY <2>5, <1>t, <1>k DEF DelayElapses, Rows, Kept
  <2> QED  BY <1>1, <2>1, <2>2, <2>3, <2>4, <2>5 DEF JobStep
<1>2. ASSUME NEW w \in Workers, WorkerStep(w)
      PROVE  RunsCounted'
  <2>s. \A j \in Jobs : Kept(row[j], SweptTable[j])
    BY <1>t, AttemptsKept, SweptTableIsLeased
  <2>1. ASSUME NEW j \in Jobs, Claim(w, j)
        PROVE  RunsCounted'
    <3>1. Claimable(SweptTable[j], Kind[j])
      BY <2>1 DEF Claim, Candidates
    <3>2. /\ row'[j].attempt = row[j].attempt + 1
          /\ row'[j].status # "ABSENT"
          /\ runs'[j] = runs[j] + 1
          /\ resumes' = resumes
      BY <2>1, <2>s, <1>t, SweptTableIsLeased, AttemptsUsed DEF Claim, Kept
    <3>3. \A k \in Jobs \ {j} : /\ Kept(row[k], row'[k])
                                /\ runs'[k] = runs[k]
      BY <2>1, <2>s, <1>t, SweptTableIsLeased DEF Claim
    <3>4. row[j].attempt + 1 <= MaxAttempts(Kind[j])
      BY <3>1, <2>s, SweptTableIsLeased, AttemptsUsed DEF Kept
    <3>5. runs[j] + 1 <= MaxAttempts(Kind[j]) * resumes[j] + (row[j].attempt + 1)
      <4>1. MaxAttempts(Kind[j]) * resumes[j] \in Nat
        BY <1>t, MaxAttemptsIsOneOrThree
      <4>2. runs[j] \in Nat /\ row[j].attempt \in Nat
        BY <1>t DEF Rows
      <4> QED  BY <4>1, <4>2 DEF RunsCounted
    <3> QED  BY <3>2, <3>3, <3>4, <3>5 DEF RunsCounted, Kept
  <2>2. CASE Poll(w)
    BY <2>2, <2>s, <1>k DEF Poll
  <2>3. ASSUME NEW status \in Statuses, Report(w, status)
        PROVE  RunsCounted'
    <3>1. status \in Verdicts(work[w].job) /\ Verdict(w, work[w].job, status)
      BY <2>3 DEF Report
    <3>2. status \in Statuses \ {"ABSENT"}
      BY <3>1 DEF Verdicts, FailureStatus, Statuses
    <3> QED  BY <2>3, <3>1, <3>2, <1>t, <1>k, AttemptsKept DEF Report, Verdict, Kept
  <2>4. CASE ReportRefused(w)
    BY <2>4, <1>k DEF ReportRefused, Kept
  <2>5. CASE Heartbeat(w)
    BY <2>5, <1>t, <1>k, AttemptsKept DEF Heartbeat, Kept
  <2>6. CASE Crash(w)
    BY <2>6, <1>k DEF Crash, Kept
  <2> QED  BY <1>2, <2>1, <2>2, <2>3, <2>4, <2>5, <2>6 DEF WorkerStep
<1>3. CASE UNCHANGED vars
  BY <1>3, <1>k DEF vars, Kept
<1> QED  BY <1>1, <1>2, <1>3 DEF Next

LEMMA RunsCountedSuffices == TypeOK /\ RunsCounted => RunsAreAuthorised
<1> SUFFICES ASSUME TypeOK, RunsCounted, NEW j \in Jobs
             PROVE  runs[j] <= MaxAttempts(Kind[j]) * (resumes[j] + 1)
  BY DEF RunsAreAuthorised
<1> DEFINE max == MaxAttempts(Kind[j])
<1>1. /\ row[j].attempt \in Nat
      /\ runs[j] \in Nat
      /\ resumes[j] \in Nat
  BY DEF TypeOK, Rows
<1>2. row[j].attempt <= max /\ runs[j] <= max * resumes[j] + row[j].attempt
  BY DEF RunsCounted
<1>3. CASE max = 1
  BY <1>1, <1>2, <1>3
<1>4. CASE max = 3
  BY <1>1, <1>2, <1>4
<1> QED  BY <1>3, <1>4, MaxAttemptsIsOneOrThree

\* However leases lapse, processes die and transactions fail, no job runs
\* more often than its enqueue and the resumes of its operators allow.
THEOREM JobQueueRunsAreAuthorised == Spec => []RunsAreAuthorised
<1>1. Init => RunsCounted
  BY MaxAttemptsIsOneOrThree DEF Init, RunsCounted, NoRow
<1>2. TypeOK /\ RunsCounted /\ [Next]_vars => RunsCounted'
  BY RunsStep
<1>3. TypeOK /\ RunsCounted => RunsAreAuthorised
  BY RunsCountedSuffices
<1> QED  BY <1>1, <1>2, <1>3, JobQueueTypes, PTL DEF Spec

(***************************************************************************)
(* Which run decides.  There is no fencing token: what protects a row is   *)
(* that a worker runs one job at a time, so the owner of a RUNNING row, if *)
(* it runs that job at all, runs the row's latest claim.                   *)
(***************************************************************************)

OwnerRunsLatest ==
    \A j \in Jobs, w \in Workers :
        OwnedBy(row[j], w) /\ work[w].job = j => work[w].run = runs[j]

Decided == {"SUCCEEDED", "FAILED", "RETRY"}

\* s is a later version of the row r that no claim and no verdict touched.
Untouched(r, s) == /\ s.status \in Decided => r.status \in Decided
                   /\ \A w : OwnedBy(s, w) => OwnedBy(r, w)

LEMMA StatementsLeaveUntouched ==
    ASSUME NEW r, Leased(r)
    PROVE  /\ \A kind : Untouched(r, Swept(r, kind))
           /\ Untouched(r, CancelledRow(r))
           /\ Untouched(r, Renewed(r))
           /\ Untouched(r, Resumed(r))
           /\ Untouched(r, Inserted)
           /\ Untouched(r, [r EXCEPT !.due = TRUE])
           /\ Untouched(r, [r EXCEPT !.lease = "lapsed"])
BY DEF Leased, Rows, Untouched, Decided, OwnedBy, Swept, CancelledRow,
       Renewed, Resumed, Inserted, NoRow

LEMMA DecidesStep ==
    TypeOK /\ OwnerRunsLatest /\ LatestRunDecides /\ [Next]_vars
        => OwnerRunsLatest' /\ LatestRunDecides'
<1> SUFFICES ASSUME TypeOK, OwnerRunsLatest, LatestRunDecides, [Next]_vars
             PROVE  OwnerRunsLatest' /\ LatestRunDecides'
  OBVIOUS
<1>t. /\ row \in [Jobs -> Rows]
      /\ runs \in [Jobs -> Nat]
      /\ verdict \in [Jobs -> Nat]
      /\ work \in [Workers -> [job: Jobs, run: Nat] \cup {Idle}]
      /\ \A j \in Jobs : Leased(row[j])
  BY TypeOKByRow
<1>i. Idle.job \notin Jobs
  BY JobQueueAssumption DEF Idle
<1>u. ASSUME /\ \A j \in Jobs : Untouched(row[j], row'[j])
             /\ \A w \in Workers : work'[w] \in {work[w], Idle}
             /\ UNCHANGED <<runs, verdict>>
      PROVE  OwnerRunsLatest' /\ LatestRunDecides'
  <2>1. OwnerRunsLatest'
    BY <1>u, <1>i DEF OwnerRunsLatest, Untouched, OwnedBy
  <2>2. LatestRunDecides'
    BY <1>u DEF LatestRunDecides, Untouched, Decided
  <2> QED  BY <2>1, <2>2
<1>s. \A r : Untouched(r, r)
  BY DEF Untouched
<1>1. ASSUME NEW j \in Jobs, JobStep(j)
      PROVE  OwnerRunsLatest' /\ LatestRunDecides'
  <2>1. UNCHANGED <<work, runs, verdict>>
    BY <1>1 DEF JobStep, Enqueue, Cancel, Resume, LeaseExpires, DelayElapses
  <2>2. Untouched(row[j], row'[j])
    <3>1. \/ row'[j] = Inserted
          \/ row'[j] = CancelledRow(row[j])
          \/ row'[j] = Resumed(row[j])
          \/ row'[j] = [row[j] EXCEPT !.lease = "lapsed"]
          \/ row'[j] = [row[j] EXCEPT !.due = TRUE]
      BY <1>1, <1>t
         DEF JobStep, Enqueue, Cancel, Resume, LeaseExpires, DelayElapses
    <3> QED  BY <3>1, <1>t, StatementsLeaveUntouched
  <2>3. \A k \in Jobs \ {j} : row'[k] = row[k]
    BY <1>1, <1>t DEF JobStep, Enqueue, Cancel, Resume, LeaseExpires, DelayElapses
  <2> QED  BY <2>1, <2>2, <2>3, <1>u, <1>s
<1>2. ASSUME NEW w \in Workers, WorkerStep(w)
      PROVE  OwnerRunsLatest' /\ LatestRunDecides'
  <2>s. \A j \in Jobs : Untouched(row[j], SweptTable[j])
    <3>1. \A j \in Jobs : Untouched(row[j], Swept(row[j], Kind[j]))
      BY <1>t, StatementsLeaveUntouched
    <3> QED  BY <3>1, SweptTableIsLeased
  <2>1. ASSUME NEW j \in Jobs, Claim(w, j)
        PROVE  OwnerRunsLatest' /\ LatestRunDecides'
    <3>1. /\ row'[j] = Claimed(SweptTable[j], w)
          /\ \A k \in Jobs \ {j} : /\ row'[k] = SweptTable[k]
                                   /\ runs'[k] = runs[k]
          /\ work'[w] = [job |-> j, run |-> runs'[j]]
          /\ \A v \in Workers \ {w} : work'[v] = work[v]
          /\ verdict' = verdict
      BY <2>1, <1>t, SweptTableIsLeased DEF Claim
    <3>2. row'[j].status = "RUNNING" /\ row'[j].owner = w
      BY <3>1, SweptTableIsLeased DEF Rows, Claimed
    <3>3. OwnerRunsLatest'
      <4> SUFFICES ASSUME NEW k \in Jobs, NEW v \in Workers,
                          OwnedBy(row'[k], v), work'[v].job = k
                   PROVE  work'[v].run = runs'[k]
        BY DEF OwnerRunsLatest, OwnedBy
      <4>1. CASE k = j
        BY <4>1, <3>1, <3>2 DEF OwnedBy
      <4>2. CASE k # j
        <5>1. v # w
          BY <4>2, <3>1
        <5> QED  BY <4>2, <5>1, <3>1, <2>s DEF OwnerRunsLatest, Untouched
      <4> QED  BY <4>1, <4>2
    <3>4. LatestRunDecides'
      <4> SUFFICES ASSUME NEW k \in Jobs, row'[k].status \in Decided
                   PROVE  verdict'[k] = runs'[k]
        BY DEF LatestRunDecides, Decided
      <4>1. k # j
        BY <3>2 DEF Decided
      <4> QED  BY <4>1, <3>1, <2>s DEF LatestRunDecides, Untouched, Decided
    <3> QED  BY <3>3, <3>4
  <2>2. CASE Poll(w)
    BY <2>2, <2>s, <1>u DEF Poll
  <2>3. ASSUME NEW status \in Statuses, Report(w, status)
        PROVE  OwnerRunsLatest' /\ LatestRunDecides'
    <3> DEFINE j == work[w].job
    <3>1. status \in Verdicts(j) /\ Verdict(w, j, status)
      BY <2>3 DEF Report
    <3>2. j \in Jobs /\ runs' = runs
      BY <2>3, <1>t DEF Report
    <3>3. \A v \in Workers : work'[v] \in {work[v], Idle}
      BY <2>3, <1>t DEF Report
    <3>4. CASE OwnedBy(row[j], w)
      <4>1. /\ row'[j] = Finished(row[j], status)
            /\ verdict'[j] = runs[j]
            /\ \A k \in Jobs \ {j} : row'[k] = row[k] /\ verdict'[k] = verdict[k]
        BY <3>4, <3>1, <3>2, <1>t DEF Verdict, OwnerRunsLatest
      <4>2. \A v \in Workers : ~OwnedBy(row'[j], v)
        BY <4>1, <3>2, <1>t, JobQueueAssumption DEF Finished, OwnedBy, Rows
      <4>3. OwnerRunsLatest'
        BY <4>1, <4>2, <3>2, <3>3, <1>i DEF OwnerRunsLatest, OwnedBy
      <4>4. LatestRunDecides'
        BY <4>1, <3>2 DEF LatestRunDecides
      <4> QED  BY <4>3, <4>4
    <3>5. CASE ~OwnedBy(row[j], w)
      BY <3>5, <3>1, <3>2, <3>3, <1>u, <1>s DEF Verdict
    <3> QED  BY <3>4, <3>5
  <2>4. CASE ReportRefused(w)
    BY <2>4, <1>t, <1>u, <1>s DEF ReportRefused
  <2>5. CASE Heartbeat(w)
    BY <2>5, <1>t, <1>u, <1>s, StatementsLeaveUntouched DEF Heartbeat
  <2>6. CASE Crash(w)
    BY <2>6, <1>t, <1>u, <1>s DEF Crash
  <2> QED  BY <1>2, <2>1, <2>2, <2>3, <2>4, <2>5, <2>6 DEF WorkerStep
<1>3. CASE UNCHANGED vars
  BY <1>3, <1>u, <1>s DEF vars
<1> QED  BY <1>1, <1>2, <1>3 DEF Next

\* A run that lost its lease never decides for the run that replaced it: the
\* verdict in a row is that of the latest claim.
THEOREM JobQueueLatestRunDecides == Spec => []LatestRunDecides
<1>1. Init => OwnerRunsLatest /\ LatestRunDecides
  BY DEF Init, OwnerRunsLatest, LatestRunDecides, OwnedBy, NoRow
<1>2. TypeOK /\ (OwnerRunsLatest /\ LatestRunDecides) /\ [Next]_vars
          => (OwnerRunsLatest /\ LatestRunDecides)'
  BY DecidesStep
<1> QED  BY <1>1, <1>2, JobQueueTypes, PTL DEF Spec

(***************************************************************************)
(* The queue implements the lifecycle its users rely on.                   *)
(***************************************************************************)

\* What the lifecycle sees of the table.
Seen(r) == [status |-> r.status, attempt |-> r.attempt]
Shown == [j \in Jobs |-> [status |-> row[j].status, attempt |-> row[j].attempt]]

\* One statement on one row is one change of the lifecycle's job.
LEMMA ShownOfOne ==
    ASSUME NEW j \in Jobs, NEW r, DOMAIN row = Jobs, row' = [row EXCEPT ![j] = r]
    PROVE  Shown' = [Shown EXCEPT ![j] = Seen(r)]
BY DEF Shown, Seen

LEMMA ShownStep == TypeOK /\ [Next]_vars => [Lifecycle!Next]_Shown
<1> SUFFICES ASSUME TypeOK, [Next]_vars
             PROVE  Lifecycle!Next \/ Shown' = Shown
  OBVIOUS
<1>t. /\ row \in [Jobs -> Rows]
      /\ DOMAIN row = Jobs
      /\ Kind \in [Jobs -> JobKinds]
  BY JobQueueAssumption DEF TypeOK
<1>d. \A j \in Jobs : Shown[j] = Seen(row[j])
  BY DEF Shown, Seen
<1>l. \A r : Seen(r).status = r.status /\ Seen(r).attempt = r.attempt
  BY DEF Seen
<1> DEFINE Writes == {j \in Jobs : Kind[j] \in ExternalWriteKinds}
<1>1. ASSUME NEW j \in Jobs, JobStep(j)
      PROVE  Lifecycle!Next \/ Shown' = Shown
  <2>1. CASE Enqueue(j)
    <3>1. Shown' = [Shown EXCEPT ![j] = Seen(Inserted)]
      BY <2>1, <1>t, ShownOfOne DEF Enqueue
    <3>2. Lifecycle!Enqueue(j)
      BY <2>1, <3>1, <1>d, <1>l
         DEF Enqueue, Lifecycle!Enqueue, Lifecycle!Waiting, Shown, Seen, Inserted, NoRow
    <3> QED  BY <3>2 DEF Lifecycle!Next, Lifecycle!Step
  <2>2. CASE Cancel(j)
    <3>1. Shown' = [Shown EXCEPT ![j] = Seen(CancelledRow(row[j]))]
      BY <2>2, <1>t, ShownOfOne DEF Cancel
    <3>2. Seen(CancelledRow(row[j])) = [Seen(row[j]) EXCEPT !.status = "CANCELLED"]
      BY <1>t DEF Seen, CancelledRow, Rows
    <3>3. Lifecycle!Cancel(j)
      BY <2>2, <3>1, <3>2, <1>d, <1>l
         DEF Cancel, Cancellable, Lifecycle!Cancel, Lifecycle!Becomes, Shown, Seen
    <3> QED  BY <3>3 DEF Lifecycle!Next, Lifecycle!Step
  <2>3. CASE Resume(j)
    <3>1. Shown' = [Shown EXCEPT ![j] = Seen(Resumed(row[j]))]
      BY <2>3, <1>t, ShownOfOne DEF Resume
    <3>2. Seen(Resumed(row[j])) = [status |-> "PENDING", attempt |-> 0]
      BY <1>t DEF Seen, Resumed, Rows
    <3>3. Lifecycle!Resume(j)
      BY <2>3, <3>1, <3>2, <1>d, <1>l
         DEF Resume, Resumable, Lifecycle!Resume, Lifecycle!Waiting, Shown, Seen
    <3> QED  BY <3>3 DEF Lifecycle!Next, Lifecycle!Step
  <2>4. CASE LeaseExpires(j) \/ DelayElapses(j)
    <3>1. \A k \in Jobs : Seen(row'[k]) = Seen(row[k])
      BY <2>4, <1>t DEF LeaseExpires, DelayElapses, Rows, Seen
    <3> QED  BY <3>1 DEF Shown, Seen
  <2> QED  BY <1>1, <2>1, <2>2, <2>3, <2>4 DEF JobStep
<1>2. ASSUME NEW w \in Workers, WorkerStep(w)
      PROVE  Lifecycle!Next \/ Shown' = Shown
  <2> DEFINE lapsed == {j \in Writes : LeaseLapsed(row[j])}
             Given(j) == IF j \in lapsed
                         THEN [Seen(row[j]) EXCEPT !.status = "RECONCILE_REQUIRED"]
                         ELSE Seen(row[j])
  <2>s. \A j \in Jobs : Seen(SweptTable[j]) = Given(j)
    <3> SUFFICES ASSUME NEW j \in Jobs
                 PROVE  Seen(Swept(row[j], Kind[j])) = Given(j)
      BY SweptTableIsLeased
    <3> QED  BY <1>t DEF Swept, Seen, Rows
  <2>m. lapsed \in SUBSET Lifecycle!MayBeLost
    BY <1>d, <1>l DEF Lifecycle!MayBeLost, LeaseLapsed, Shown
  <2>g. Lifecycle!Lose(lapsed) = [j \in Jobs |-> Given(j)]
    BY DEF Lifecycle!Lose, Shown, Seen
  <2>1. ASSUME NEW j \in Jobs, Claim(w, j)
        PROVE  Lifecycle!Next
    <3>1. row' = [SweptTable EXCEPT ![j] = Claimed(SweptTable[j], w)]
      BY <2>1 DEF Claim
    <3>2. Claimable(SweptTable[j], Kind[j]) /\ SweptTable[j] \in Rows
      BY <2>1, SweptTableIsLeased DEF Claim, Candidates
    <3>3. Seen(Claimed(SweptTable[j], w))
              = [status |-> "RUNNING", attempt |-> SweptTable[j].attempt + 1]
      BY <3>2 DEF Claimed, Seen, Rows
    <3>4. SweptTable[j] = row[j]
      <4>1. SweptTable[j].status # "RECONCILE_REQUIRED"
        BY <3>2 DEF Claimable, LeaseLapsed
      <4>2. CASE LeaseLapsed(row[j]) /\ Kind[j] \in ExternalWriteKinds
        BY <4>1, <4>2, <1>t, SweptTableIsLeased DEF Swept, Rows
      <4>3. CASE ~(LeaseLapsed(row[j]) /\ Kind[j] \in ExternalWriteKinds)
        BY <4>3, SweptTableIsLeased DEF Swept
      <4> QED  BY <4>2, <4>3
    <3>5. Lifecycle!MayStart(j)
      <4>1. row[j].attempt < MaxAttempts(Kind[j])
        BY <3>2, <3>4 DEF Claimable
      <4>2. \/ row[j].status \in {"PENDING", "RETRY"}
            \/ Kind[j] \notin ExternalWriteKinds /\ row[j].status = "RUNNING"
        <5>1. CASE row[j].status \in {"PENDING", "RETRY"}
          BY <5>1
        <5>2. CASE LeaseLapsed(row[j])
          <6>1. Kind[j] \notin ExternalWriteKinds
            <7> SUFFICES ASSUME Kind[j] \in ExternalWriteKinds
                         PROVE  FALSE
              OBVIOUS
            <7>1. SweptTable[j].status = "RECONCILE_REQUIRED"
              BY <5>2, <1>t, SweptTableIsLeased DEF Swept, Rows
            <7> QED  BY <7>1, <3>2 DEF Claimable, LeaseLapsed
          <6> QED  BY <5>2, <6>1 DEF LeaseLapsed
        <5> QED  BY <3>2, <3>4, <5>1, <5>2 DEF Claimable
      <4> QED  BY <4>1, <4>2 DEF Lifecycle!MayStart
    <3>6. Shown' = [Lifecycle!Lose(lapsed) EXCEPT ![j] =
                        [status |-> "RUNNING", attempt |-> row[j].attempt + 1]]
      <4>1. /\ Seen(row'[j]) = [status |-> "RUNNING", attempt |-> row[j].attempt + 1]
            /\ \A k \in Jobs \ {j} : Seen(row'[k]) = Given(k)
        BY <3>1, <3>3, <3>4, <2>s, SweptTableIsLeased
      <4>2. Shown' = [k \in Jobs |-> Seen(row'[k])]
        BY DEF Shown, Seen
      <4>3. [[k \in Jobs |-> Given(k)] EXCEPT ![j] =
                    [status |-> "RUNNING", attempt |-> row[j].attempt + 1]]
              = [k \in Jobs |-> IF k = j
                    THEN [status |-> "RUNNING", attempt |-> row[j].attempt + 1]
                    ELSE Given(k)]
        OBVIOUS
      <4> HIDE DEF Given
      <4> QED  BY <4>1, <4>2, <4>3, <2>g
    <3>7. PICK lost \in SUBSET Lifecycle!MayBeLost : lost = lapsed
      BY <2>m
    <3>8. Lifecycle!Start(j, lost)
      BY <3>5, <3>6, <3>7, <2>m DEF Lifecycle!Start, Shown
    <3> QED  BY <3>8 DEF Lifecycle!Next
  <2>2. CASE Poll(w)
    <3>1. \A j \in Jobs : Seen(row'[j]) = Given(j)
      BY <2>2, <2>s DEF Poll
    <3>2. Shown' = Lifecycle!Lose(lapsed)
      <4>1. Shown' = [k \in Jobs |-> Seen(row'[k])]
        BY DEF Shown, Seen
      <4> HIDE DEF Given
      <4> QED  BY <3>1, <2>g, <4>1
    <3>3. PICK lost \in SUBSET Lifecycle!MayBeLost : lost = lapsed
      BY <2>m
    <3>4. Lifecycle!Sweep(lost)
      BY <3>2, <3>3, <2>m DEF Lifecycle!Sweep, Shown
    <3> QED  BY <3>4 DEF Lifecycle!Next
  <2>3. ASSUME NEW status \in Statuses, Report(w, status)
        PROVE  Lifecycle!Next \/ Shown' = Shown
    <3>0. PICK j \in Jobs : j = work[w].job
      BY <2>3 DEF Report, TypeOK
    <3>1. status \in Verdicts(j) /\ Verdict(w, j, status)
      BY <2>3, <3>0 DEF Report
    <3>2. CASE OwnedBy(row[j], w)
      <4>1. Shown' = [Shown EXCEPT ![j] = Seen(Finished(row[j], status))]
        BY <3>1, <3>2, <1>t, ShownOfOne DEF Verdict
      <4>2. Seen(Finished(row[j], status)) = [Seen(row[j]) EXCEPT !.status = status]
        BY <1>t, <3>1 DEF Seen, Finished, Rows
      <4>3. status \in Lifecycle!Verdicts(j)
        <5>1. row[j].attempt \in Nat /\ MaxAttempts(Kind[j]) \in Nat
          BY <1>t, <3>1, MaxAttemptsIsOneOrThree DEF Rows
        <5>2. CASE Kind[j] \in ExternalWriteKinds
          BY <5>2, <3>1 DEF Verdicts, Lifecycle!Verdicts
        <5>3. CASE Kind[j] \notin ExternalWriteKinds
          BY <5>1, <5>3, <3>1, <1>t DEF Verdicts, FailureStatus, Lifecycle!Verdicts
        <5> QED  BY <5>2, <5>3
      <4>4. row[j].status = "RUNNING"
        BY <3>2 DEF OwnedBy
      <4>5. Lifecycle!End(j, status)
        BY <3>1, <4>1, <4>2, <4>3, <4>4
           DEF Lifecycle!End, Lifecycle!Becomes, Shown, Seen
      <4>6. Lifecycle!Step(j)
        BY <4>3, <4>5 DEF Lifecycle!Step
      <4> QED  BY <4>6 DEF Lifecycle!Next
    <3>3. CASE ~OwnedBy(row[j], w)
      BY <3>1, <3>3 DEF Verdict, Shown
    <3> QED  BY <3>2, <3>3
  <2>4. CASE ReportRefused(w) \/ Crash(w)
    BY <2>4 DEF ReportRefused, Crash, Shown
  <2>5. CASE Heartbeat(w)
    <3>1. \A k \in Jobs : Seen(row'[k]) = Seen(row[k])
      BY <2>5, <1>t DEF Heartbeat, Renewed, Rows, Seen
    <3> QED  BY <3>1 DEF Shown, Seen
  <2> QED  BY <1>2, <2>1, <2>2, <2>3, <2>4, <2>5 DEF WorkerStep
<1>3. CASE UNCHANGED vars
  BY <1>3 DEF vars, Shown
<1> QED  BY <1>1, <1>2, <1>3 DEF Next

\* The queue implements the lifecycle: to those who only see statuses and
\* attempts, owners, leases, late verdicts and dying workers do not show.
THEOREM JobQueueIsLifecycle == Spec => LifecycleSpec
<1>1. Init => Lifecycle!Init
  BY DEF Init, Lifecycle!Init, Lifecycle!NotSent, NoRow
<1>2. TypeOK /\ [Next]_vars => [Lifecycle!Next]_Shown
  BY ShownStep
<1> QED  BY <1>1, <1>2, JobQueueTypes, PTL DEF Spec, LifecycleSpec, Lifecycle!Spec, Shown

(***************************************************************************)
(* What an abandoned write may become.                                     *)
(***************************************************************************)

\* An external write whose process died while it ran.
Abandoned(j) ==
    /\ Kind[j] \in ExternalWriteKinds
    /\ row[j].status = "RUNNING"
    /\ row[j].owner \notin alive

\* It waits as it is, or is handed to the operators.
WaitsOrSurfaces(j) ==
    \/ row'[j].status = "RECONCILE_REQUIRED"
    \/ /\ Abandoned(j)'
       /\ row'[j].owner = row[j].owner
       /\ row'[j].attempt = row[j].attempt

LEMMA AbandonedRowWaits ==
    ASSUME TypeOK, NEW j \in Jobs, Abandoned(j), alive' \subseteq alive,
           \/ row'[j] = row[j]
           \/ row'[j] = [row[j] EXCEPT !.lease = "lapsed"]
           \/ row'[j] = Swept(row[j], Kind[j])
    PROVE  WaitsOrSurfaces(j)
<1>1. row[j] \in Rows
  BY DEF TypeOK
<1>2. Swept(row[j], Kind[j]) = row[j] \/ Swept(row[j], Kind[j]).status = "RECONCILE_REQUIRED"
  BY <1>1 DEF Swept, Rows
<1> QED  BY <1>1, <1>2 DEF WaitsOrSurfaces, Abandoned, Rows

LEMMA AbandonedStep ==
    ASSUME TypeOK, [Next]_vars, NEW j \in Jobs, Abandoned(j)
    PROVE  WaitsOrSurfaces(j)
<1>t. /\ row[j] \in Rows /\ row \in [Jobs -> Rows]
      /\ row[j].status = "RUNNING" /\ row[j].owner \notin alive
      /\ Kind[j] \in ExternalWriteKinds
  BY DEF TypeOK, Abandoned
<1>1. ASSUME NEW k \in Jobs, JobStep(k)
      PROVE  WaitsOrSurfaces(j)
  <2>1. alive' = alive
    BY <1>1 DEF JobStep, Enqueue, Cancel, Resume, LeaseExpires, DelayElapses
  <2>2. CASE k # j
    <3>1. row'[j] = row[j]
      BY <1>1, <1>t, <2>2 DEF JobStep, Enqueue, Cancel, Resume, LeaseExpires, DelayElapses
    <3> QED  BY <2>1, <3>1, AbandonedRowWaits
  <2>3. CASE k = j
    <3>1. LeaseExpires(j)
      BY <1>1, <1>t, <2>3 DEF JobStep, Enqueue, Cancel, Resume, DelayElapses, Cancellable,
                              Resumable
    <3>2. row'[j] = [row[j] EXCEPT !.lease = "lapsed"]
      BY <1>t, <3>1 DEF LeaseExpires
    <3> QED  BY <2>1, <3>2, AbandonedRowWaits
  <2> QED  BY <2>2, <2>3
<1>2. ASSUME NEW w \in Workers, WorkerStep(w)
      PROVE  WaitsOrSurfaces(j)
  <2>1. ASSUME NEW k \in Jobs, Claim(w, k)
        PROVE  WaitsOrSurfaces(j)
    <3>1. SweptTable[j] = Swept(row[j], Kind[j]) /\ SweptTable \in [Jobs -> Rows]
      BY SweptTableIsLeased
    <3>2. j \notin Candidates(SweptTable)
      <4>1. ~Claimable(Swept(row[j], Kind[j]), Kind[j])
        BY <1>t DEF Swept, Claimable, LeaseLapsed, Rows
      <4> QED  BY <3>1, <4>1 DEF Candidates
    <3>3. row'[j] = SweptTable[j] /\ alive' = alive
      BY <2>1, <3>1, <3>2 DEF Claim
    <3> QED  BY <3>1, <3>3, AbandonedRowWaits
  <2>2. CASE Poll(w)
    <3>1. row'[j] = Swept(row[j], Kind[j]) /\ alive' = alive
      BY <2>2 DEF Poll, SweptTable
    <3> QED  BY <3>1, AbandonedRowWaits
  <2>3. ASSUME NEW status \in Statuses, Report(w, status)
        PROVE  WaitsOrSurfaces(j)
    <3>1. w \in alive /\ w # row[j].owner
      BY <1>t, <2>3 DEF Report
    <3>2. row'[j] = row[j] /\ alive' = alive
      BY <1>t, <2>3, <3>1 DEF Report, Verdict, OwnedBy
    <3> QED  BY <3>2, AbandonedRowWaits
  <2>4. CASE Heartbeat(w)
    <3>1. w \in alive /\ w # row[j].owner
      BY <1>t, <2>4 DEF Heartbeat
    <3>2. row'[j] = row[j] /\ alive' = alive
      BY <1>t, <2>4, <3>1 DEF Heartbeat, OwnedBy
    <3> QED  BY <3>2, AbandonedRowWaits
  <2>5. CASE ReportRefused(w) \/ Crash(w)
    <3>1. row' = row /\ alive' \subseteq alive
      BY <2>5 DEF ReportRefused, Crash
    <3> QED  BY <3>1, AbandonedRowWaits
  <2> QED  BY <1>2, <2>1, <2>2, <2>3, <2>4, <2>5 DEF WorkerStep
<1>3. CASE UNCHANGED vars
  BY <1>3, AbandonedRowWaits DEF vars
<1> QED  BY <1>1, <1>2, <1>3 DEF Next

\* An external write whose process died goes to the operators and nowhere
\* else: no worker claims it again, no late verdict or heartbeat reaches it,
\* and it can be neither cancelled nor resumed (claim_job: "Never replay an
\* indeterminate external write after a worker lease expires").  With the
\* fairness of the workers, this is the step by which it is surfaced.
THEOREM JobQueueAbandonedWaits ==
    Spec => [][\A j \in Jobs : Abandoned(j) => WaitsOrSurfaces(j)]_vars
<1>1. TypeOK /\ [Next]_vars => [\A j \in Jobs : Abandoned(j) => WaitsOrSurfaces(j)]_vars
  BY AbandonedStep
<1> QED  BY <1>1, JobQueueTypes, PTL DEF Spec

=============================================================================
