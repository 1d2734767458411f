------------------------ MODULE SalesImportQueueProofs ------------------------
(***************************************************************************)
(* Proofs about SalesImportQueue, for every set of imports, workers and    *)
(* tokens, every duration and every budget.                                *)
(*                                                                         *)
(* The first part is about ownership: leases, running attempts and what    *)
(* workers believe refer to one another (OwnershipInv).  The second part   *)
(* is about history: how often a job was tried, what is still left of its  *)
(* budget, how it fits its intake, and how long its lease is (HistoryInv). *)
(* The third part is the refinement: lease tokens stand for holdings, a    *)
(* worker holds the job whose row still carries its token, and each action *)
(* of the queue is an action of LeasedWork or a stutter.                   *)
(***************************************************************************)
EXTENDS SalesImportQueueRefinement, TLAPS

\* A retry is never scheduled before the failure: the delay is a duration.
LEMMA RetryDelayNat == \A n \in Nat : RetryDelay(n) \in Nat
  BY TimeAssumption DEF RetryDelay

\* Expiring attempts keeps every attempt row well typed.
LEMMA ExpireAttemptsType ==
  ASSUME TypeOK, NEW S
  PROVE  ExpireAttempts(S) \in [Tokens -> AttemptRow]
  BY DEF TypeOK, ExpireAttempts, AttemptRow, Outcomes

\* The rows written by the operations on jobs and attempts are well typed.
LEMMA RowTypes ==
  ASSUME NEW row \in JobRow
  PROVE  /\ ClearedLease(row) \in JobRow
         /\ \A status \in TerminalStatuses, error \in ErrorCodes :
               Finished(row, status, error) \in JobRow
         /\ \A until \in Nat : Waiting(row, until) \in JobRow
         /\ \A t \in Tokens, now \in Nat : LeasedTo(row, t, now) \in JobRow
  <1>1. ClearedLease(row) \in JobRow
    BY DEF ClearedLease, JobRow
  <1>2. ASSUME NEW status \in TerminalStatuses, NEW error \in ErrorCodes
        PROVE  Finished(row, status, error) \in JobRow
    BY <1>1 DEF Finished, JobRow, JobStatuses
  <1>3. ASSUME NEW until \in Nat PROVE Waiting(row, until) \in JobRow
    BY <1>1 DEF Waiting, JobRow, JobStatuses, ErrorCodes
  <1>4. ASSUME NEW t \in Tokens, NEW now \in Nat
        PROVE  LeasedTo(row, t, now) \in JobRow
    <2>1. row.attemptCount + 1 \in Nat /\ now + LeaseDuration \in Nat
      BY TimeAssumption DEF JobRow
    <2> QED BY <2>1 DEF LeasedTo, JobRow, JobStatuses, ErrorCodes
  <1> QED BY <1>1, <1>2, <1>3, <1>4

\* The attempt rows claims and completions write are well typed.
LEMMA AttemptTypes ==
  /\ \A i \in Imports, n \in Nat : NewAttempt(i, n) \in AttemptRow
  /\ \A row \in AttemptRow, status \in TerminalStatuses, phase \in Phases,
        conflict \in BOOLEAN :
        FinishedAttempt(row, status, phase, conflict) \in AttemptRow
  <1>1. \A i \in Imports, n \in Nat : NewAttempt(i, n) \in AttemptRow
    BY DEF NewAttempt, AttemptRow, Outcomes, Phases
  <1>2. ASSUME NEW row \in AttemptRow, NEW status \in TerminalStatuses,
               NEW phase \in Phases, NEW conflict \in BOOLEAN
        PROVE  FinishedAttempt(row, status, phase, conflict) \in AttemptRow
    <2>1. TerminalOutcome[status] \in Outcomes
      BY DEF TerminalOutcome, TerminalStatuses, Outcomes
    <2> QED BY <2>1 DEF FinishedAttempt, AttemptRow
  <1> QED BY <1>1, <1>2

\* complete_job is called with terminal statuses, from known phases.
LEMMA CompletionStatuses ==
  /\ DOMAIN CompletedFrom \subseteq TerminalStatuses
  /\ \A status \in DOMAIN CompletedFrom : CompletedFrom[status] \in Phases
  BY DEF CompletedFrom, TerminalStatuses, Phases

\* The job row enqueue_import leaves is well typed.
LEMMA EnqueuedType ==
  ASSUME TypeOK, NEW i \in Imports,
         NEW status \in {"receiving", "received", "failed"}
  PROVE  Enqueued(i, status) \in JobRow
  <1>1. DesiredStatus(i, status)
          \in {"waiting_file", "queued", "awaiting_parser", "failed"}
    BY DEF DesiredStatus
  <1>2. NoJob \in JobRow
    BY BudgetAssumption
    DEF NoJob, JobRow, JobStatuses, ErrorCodes
  <1>3. job[i] \in JobRow
    BY DEF TypeOK
  <1> QED
    BY <1>1, <1>2, <1>3
    DEF Enqueued, JobRow, JobStatuses, TerminalStatuses, ErrorCodes, TypeOK

-----------------------------------------------------------------------------
(***************************************************************************)
(* Type correctness.                                                       *)
(***************************************************************************)

\* complete_job and _finish_locked_job write well typed rows.
LEMMA FinishRowsType ==
  ASSUME TypeOK, NEW w \in Workers, NEW status \in TerminalStatuses,
         NEW phase \in Phases, NEW error \in ErrorCodes,
         NEW conflict \in BOOLEAN, FinishRows(w, status, phase, error, conflict)
  PROVE  /\ job' \in [Imports -> JobRow]
         /\ attempt' \in [Tokens -> AttemptRow]
         /\ worker' \in [Workers -> WorkerState]
  <1>1. job' \in [Imports -> JobRow]
    BY RowTypes DEF FinishRows, TypeOK
  <1>2. attempt' \in [Tokens -> AttemptRow]
    BY AttemptTypes DEF FinishRows, TypeOK
  <1>3. worker' \in [Workers -> WorkerState]
    BY DEF FinishRows, TypeOK, WorkerState, Idle
  <1> QED BY <1>1, <1>2, <1>3

\* The initial rows are well typed.
LEMMA TypeInit == Init => TypeOK
  <1> SUFFICES ASSUME Init PROVE TypeOK
    OBVIOUS
  <1>1. NoJob \in JobRow
    BY BudgetAssumption DEF NoJob, JobRow, JobStatuses, ErrorCodes
  <1>2. NoAttempt \in AttemptRow
    BY DEF NoAttempt, AttemptRow, Outcomes, Phases
  <1>3. Idle \in WorkerState
    BY DEF Idle, WorkerState
  <1> QED BY <1>1, <1>2, <1>3 DEF Init, TypeOK, IntakeStatuses

\* Every operation of the queue writes well typed rows.
LEMMA TypeStep == TypeOK /\ [Next]_vars => TypeOK'
  <1> SUFFICES ASSUME TypeOK, [Next]_vars PROVE TypeOK'
    OBVIOUS
  <1>1. CASE Tick
    BY <1>1 DEF Tick, TypeOK
  <1>2. ASSUME NEW i \in Imports, IntakeStep(i) PROVE TypeOK'
    <2>1. CASE ReceiveUpload(i)
      BY <2>1, EnqueuedType DEF ReceiveUpload, TypeOK, IntakeStatuses
    <2>2. CASE MarkReceived(i)
      BY <2>2, EnqueuedType DEF MarkReceived, TypeOK, IntakeStatuses
    <2>3. CASE MarkFailed(i)
      BY <2>3, EnqueuedType DEF MarkFailed, TypeOK, IntakeStatuses
    <2> QED BY <1>2, <2>1, <2>2, <2>3 DEF IntakeStep
  <1>3. ASSUME NEW i \in Imports, NEW additional \in 1..AttemptLimit,
               RequeueJob(i, additional)
        PROVE  TypeOK'
    <2> DEFINE new == additional + MaxOf(job[i].maxAttempts, job[i].attemptCount)
    <2>1. job[i] \in JobRow /\ ClearedLease(job[i]) \in JobRow /\ clock \in Nat
      BY RowTypes DEF TypeOK
    <2>2. new \in 1..AttemptLimit
      BY <1>3, <2>1, BudgetAssumption DEF RequeueJob, JobRow, MaxOf
    <2>3. Requeued(job[i], new) \in JobRow
      BY <2>1, <2>2 DEF Requeued, JobRow, JobStatuses, ErrorCodes
    <2> QED BY <1>3, <2>3 DEF RequeueJob, TypeOK
  <1>4. ASSUME NEW w \in Workers, ClaimStep(w) PROVE TypeOK'
    <2>0. worker[w] \in WorkerState /\ worker[w].now \in Nat
      BY DEF TypeOK, WorkerState
    <2>1. CASE StartClaim(w)
      BY <2>0, <2>1 DEF StartClaim, TypeOK, WorkerState
    <2>2. CASE MarkExhaustedBatch(w)
      <3>1. PICK batch \in SUBSET Exhausted(worker[w].now) :
               /\ attempt' = ExpireAttempts(batch)
               /\ job' = [i \in Imports |->
                    IF i \in batch
                    THEN Finished(job[i], "failed", "ATTEMPT_LIMIT_EXHAUSTED")
                    ELSE job[i]]
        BY <2>2 DEF MarkExhaustedBatch
      <3>2. job' \in [Imports -> JobRow]
        BY <3>1, RowTypes DEF TypeOK, TerminalStatuses, ErrorCodes
      <3>3. worker' \in [Workers -> WorkerState]
        BY <2>0, <2>2 DEF MarkExhaustedBatch, TypeOK, WorkerState
      <3> QED
        BY <2>2, <3>1, <3>2, <3>3, ExpireAttemptsType
        DEF MarkExhaustedBatch, TypeOK
    <2>3. CASE ClaimJob(w)
      <3>1. PICK i \in Claimable(worker[w].now), t \in Tokens :
               /\ attempt' = [ExpireAttempts({i}) EXCEPT ![t] =
                                NewAttempt(i, job[i].attemptCount + 1)]
               /\ job' = [job EXCEPT ![i] =
                            LeasedTo(job[i], t, worker[w].now)]
               /\ worker' = [worker EXCEPT ![w] =
                       [pc |-> "running", job |-> i, token |-> t, now |-> 0]]
        BY <2>3 DEF ClaimJob
      <3>2. i \in Imports /\ job[i].attemptCount + 1 \in Nat
        BY <3>1 DEF Claimable, TypeOK, JobRow
      <3>3. attempt' \in [Tokens -> AttemptRow]
        BY <3>1, <3>2, AttemptTypes, ExpireAttemptsType
      <3>4. job' \in [Imports -> JobRow]
        BY <2>0, <3>1, <3>2, RowTypes DEF TypeOK
      <3>5. worker' \in [Workers -> WorkerState]
        BY <3>1, <3>2 DEF TypeOK, WorkerState
      <3> QED BY <2>3, <3>3, <3>4, <3>5 DEF ClaimJob, TypeOK
    <2>4. CASE NothingToClaim(w)
      BY <2>4 DEF NothingToClaim, TypeOK, WorkerState, Idle
    <2> QED BY <1>4, <2>1, <2>2, <2>3, <2>4 DEF ClaimStep
  <1>5. ASSUME NEW w \in Workers, LeaseStep(w) PROVE TypeOK'
    <2>0. worker[w] \in WorkerState /\ worker[w].now \in Nat
      BY DEF TypeOK, WorkerState
    <2>1. CASE BeginCall(w)
      BY <2>0, <2>1 DEF BeginCall, TypeOK, WorkerState
    <2>2. CASE ClaimLost(w)
      BY <2>2 DEF ClaimLost, TypeOK, WorkerState, Idle
    <2>a. ASSUME Return(w) PROVE worker' \in [Workers -> WorkerState]
      BY <2>0, <2>a DEF Return, TypeOK, WorkerState
    <2>b. ASSUME job' = [job EXCEPT ![worker[w].job].leaseExpiresAt =
                                      worker[w].now + LeaseDuration]
          PROVE  job' \in [Imports -> JobRow]
      <3>1. worker[w].now + LeaseDuration \in Nat
        BY <2>0, TimeAssumption
      <3> QED BY ZenonT(60), <2>b, <3>1 DEF TypeOK, JobRow
    <2>c. ASSUME NEW phase \in Phases,
                 attempt' = [attempt EXCEPT ![worker[w].token].phase = phase]
          PROVE  attempt' \in [Tokens -> AttemptRow]
      BY <2>c DEF TypeOK, AttemptRow
    <2>3. CASE HeartbeatJob(w)
      BY <2>3, <2>a, <2>b DEF HeartbeatJob, RenewedLease, TypeOK
    <2>4. CASE AdvanceAttemptPhase(w)
      BY <2>4, <2>a, <2>c DEF AdvanceAttemptPhase, TypeOK, Phases
    <2>5. CASE RecordParseBatch(w)
      BY <2>5, <2>a, <2>b, <2>c
      DEF RecordParseBatch, RenewedLease, TypeOK, Phases
    <2>6. CASE ScheduleRetry(w)
      <3>1. ASSUME worker[w].job \in Imports
            PROVE  /\ job[worker[w].job] \in JobRow
                   /\ worker[w].now + RetryDelay(job[worker[w].job].attemptCount)
                        \in Nat
        BY <2>0, <3>1, RetryDelayNat DEF TypeOK, JobRow
      <3>4. job' \in [Imports -> JobRow]
        BY <2>6, <3>1, RowTypes
        DEF ScheduleRetry, TypeOK, TerminalStatuses, ErrorCodes
      <3>2. attempt' \in [Tokens -> AttemptRow]
        BY ZenonT(60), <2>6 DEF ScheduleRetry, TypeOK, AttemptRow, Outcomes
      <3>3. worker' \in [Workers -> WorkerState]
        BY <2>6 DEF ScheduleRetry, TypeOK, WorkerState, Idle
      <3> QED BY <2>6, <3>2, <3>3, <3>4 DEF ScheduleRetry, TypeOK
    <2>7. CASE \E status \in DOMAIN CompletedFrom : CompleteJob(w, status)
      BY <2>7, FinishRowsType, CompletionStatuses
      DEF CompleteJob, TypeOK, ErrorCodes
    <2>8. CASE CompleteStoredObjectFailure(w)
      BY <2>8, FinishRowsType
      DEF CompleteStoredObjectFailure, TypeOK, ErrorCodes, TerminalStatuses,
          IntakeStatuses, Phases
    <2> QED
      BY <1>5, <2>1, <2>2, <2>3, <2>4, <2>5, <2>6, <2>7, <2>8 DEF LeaseStep
  <1>6. ASSUME NEW w \in Workers, PublicationStep(w) PROVE TypeOK'
    <2>1. CASE LockForPublication(w)
      BY ZenonT(60), <2>1 DEF LockForPublication, TypeOK, WorkerState
    <2>2. CASE FinishPublished(w)
      BY <2>2, FinishRowsType
      DEF FinishPublished, TypeOK, ErrorCodes, TerminalStatuses, Phases
    <2>3. CASE \E conflict \in BOOLEAN :
                  FinishInvalid(w, conflict) \/ FinishConflicting(w, conflict)
      BY <2>3, FinishRowsType
      DEF FinishInvalid, FinishConflicting, TypeOK, ErrorCodes, TerminalStatuses,
          Phases
    <2>4. CASE RollbackPublication(w)
      BY ZenonT(60), <2>4 DEF RollbackPublication, Return, TypeOK, WorkerState
    <2> QED BY <1>6, <2>1, <2>2, <2>3, <2>4 DEF PublicationStep
  <1>7. ASSUME NEW w \in Workers, Crash(w) PROVE TypeOK'
    BY <1>7 DEF Crash, TypeOK, WorkerState, Idle
  <1>8. CASE UNCHANGED vars
    BY <1>8 DEF vars, TypeOK
  <1> QED
    BY <1>1, <1>2, <1>3, <1>4, <1>5, <1>6, <1>7, <1>8 DEF Next, WorkerStep

\* Every row and every worker record keeps its type in every reachable state.
THEOREM TypeCorrect == Spec => []TypeOK
  BY TypeInit, TypeStep, PTL DEF Spec

-----------------------------------------------------------------------------
(***************************************************************************)
(* Ownership: leases, running attempts and the claims of workers refer to  *)
(* one another one to one.                                                 *)
(***************************************************************************)

\* What expiring the attempts of some jobs does, once running attempts are
\* known to be leased: exactly the running attempts of those jobs end.
LEMMA ExpireEffect ==
  ASSUME OwnershipInv, NEW S \in SUBSET Imports, NEW t \in Tokens
  PROVE  /\ ExpireAttempts(S)[t].job = attempt[t].job
         /\ attempt[t].outcome = "running" /\ attempt[t].job \in S
              => ExpireAttempts(S)[t].outcome = "lease_expired"
         /\ ~(attempt[t].outcome = "running" /\ attempt[t].job \in S)
              => ExpireAttempts(S)[t] = attempt[t]
         /\ ExpireAttempts(S)[t].outcome = "unissued"
              <=> attempt[t].outcome = "unissued"
  <1>1. attempt[t] \in AttemptRow
    BY DEF OwnershipInv, TypeOK
  <1> QED
    BY <1>1 DEF ExpireAttempts, OwnershipInv, RunningAttemptsAreLeased, AttemptRow

\* Ending a held claim, as complete_job, schedule_retry and the publication do:
\* the lease is cleared, the attempt leaves "running", the worker is idle.
LEMMA EndOfClaim ==
  ASSUME OwnershipInv, TypeOK', NEW w \in Workers,
         worker[w].pc \in {"begun", "locked"},
         job[worker[w].job].status = "processing",
         job[worker[w].job].token = worker[w].token,
         \A i \in Imports \ {worker[w].job} : job'[i] = job[i],
         job'[worker[w].job].status # "processing",
         job'[worker[w].job].token = NoToken,
         \A t \in Tokens \ {worker[w].token} : attempt'[t] = attempt[t],
         attempt'[worker[w].token].job = attempt[worker[w].token].job,
         attempt'[worker[w].token].outcome \notin {"running", "unissued"},
         worker' = [worker EXCEPT ![w] = Idle],
         clock' = clock
  PROVE  OwnershipInv'
  <1> DEFINE i == worker[w].job
             t == worker[w].token
  <1>1. i \in Imports /\ t \in Tokens /\ attempt[t].job = i
    BY DEF OwnershipInv, ClaimsAreIssued
  <1>2. \A v \in Workers \ {w} : worker'[v] = worker[v] /\ worker[v].token # t
    BY <1>1, TokensAssumption DEF OwnershipInv, TokensNotShared, TypeOK
  <1>3. worker'[w] = Idle
    BY DEF OwnershipInv, TypeOK
  <1>4. ClaimsAreIssued'
    <2> SUFFICES ASSUME NEW v \in Workers
                 PROVE  (IF worker[v].pc \in {"running", "begun", "locked"}
                         THEN /\ worker[v].job \in Imports
                              /\ worker[v].token \in Tokens
                              /\ attempt[worker[v].token].job = worker[v].job
                              /\ attempt[worker[v].token].outcome # "unissued"
                         ELSE worker[v].job = NoImport
                              /\ worker[v].token = NoToken)'
      BY DEF ClaimsAreIssued
    <2>1. CASE v = w
      BY <1>3, <2>1 DEF Idle
    <2>2. CASE v # w
      BY <1>2, <2>2 DEF OwnershipInv, ClaimsAreIssued
    <2> QED BY <2>1, <2>2
  <1>5. RunningAttemptsAreLeased'
    BY <1>1 DEF OwnershipInv, RunningAttemptsAreLeased
  <1>6. LeasesAreRunning'
    BY <1>1 DEF OwnershipInv, LeasesAreRunning
  <1>7. TokensNotShared'
    BY <1>2, <1>3 DEF OwnershipInv, TokensNotShared, Idle
  <1>8. PublicationOwnsJob'
    <2> SUFFICES ASSUME NEW v \in Workers, worker'[v].pc = "locked"
                 PROVE  /\ job'[worker'[v].job].status = "processing"
                        /\ job'[worker'[v].job].token = worker'[v].token
      BY DEF PublicationOwnsJob
    <2>1. v # w
      BY <1>3 DEF Idle
    <2>2. worker[v].job \in Imports /\ worker[v].token # t
          /\ job[worker[v].job].token = worker[v].token
          /\ job[worker[v].job].status = "processing"
      BY <1>2, <2>1 DEF OwnershipInv, PublicationOwnsJob, ClaimsAreIssued
    <2> QED BY <1>2, <2>1, <2>2
  <1>9. \A v \in Workers : worker'[v].now <= clock'
    BY <1>2, <1>3 DEF OwnershipInv, TypeOK, Idle
  <1> QED BY <1>4, <1>5, <1>6, <1>7, <1>8, <1>9 DEF OwnershipInv

\* A change of one job that is processed neither before nor after the step, as
\* intake and requeue_job make it.
LEMMA UnleasedJobChange ==
  ASSUME OwnershipInv, TypeOK', UNCHANGED <<clock, attempt, worker>>,
         NEW i \in Imports,
         \A k \in Imports \ {i} : job'[k] = job[k],
         job[i].status # "processing",
         job'[i].status # "processing",
         job'[i].token = NoToken
  PROVE  OwnershipInv'
  <1>1. ClaimsAreIssued'
    BY DEF OwnershipInv, ClaimsAreIssued
  <1>2. RunningAttemptsAreLeased'
    BY DEF OwnershipInv, RunningAttemptsAreLeased
  <1>3. LeasesAreRunning'
    BY DEF OwnershipInv, LeasesAreRunning
  <1>4. TokensNotShared'
    BY DEF OwnershipInv, TokensNotShared
  <1>5. PublicationOwnsJob'
    BY DEF OwnershipInv, PublicationOwnsJob, ClaimsAreIssued
  <1> QED BY <1>1, <1>2, <1>3, <1>4, <1>5 DEF OwnershipInv

\* A call that renews the lease or moves the phase of the claim it is fenced
\* by, or none of the two, and returns to its worker.
LEMMA ClaimKept ==
  ASSUME OwnershipInv, TypeOK', NEW w \in Workers,
         worker[w].pc \in {"running", "begun", "locked"},
         worker'[w].pc \in {"running", "begun", "locked"},
         worker'[w].pc = "locked" =>
            /\ job[worker[w].job].status = "processing"
            /\ job[worker[w].job].token = worker[w].token,
         worker'[w].job = worker[w].job,
         worker'[w].token = worker[w].token,
         worker'[w].now <= clock,
         \A v \in Workers \ {w} : worker'[v] = worker[v],
         \A i \in Imports : /\ job'[i].status = job[i].status
                            /\ job'[i].token = job[i].token,
         \A t \in Tokens : /\ attempt'[t].job = attempt[t].job
                           /\ attempt'[t].outcome = attempt[t].outcome,
         clock' = clock
  PROVE  OwnershipInv'
  <1>1. ClaimsAreIssued'
    BY DEF OwnershipInv, ClaimsAreIssued
  <1>2. RunningAttemptsAreLeased'
    BY DEF OwnershipInv, RunningAttemptsAreLeased
  <1>3. LeasesAreRunning'
    BY DEF OwnershipInv, LeasesAreRunning
  <1>4. TokensNotShared'
    BY DEF OwnershipInv, TokensNotShared
  <1>5. PublicationOwnsJob'
    BY DEF OwnershipInv, PublicationOwnsJob, ClaimsAreIssued
  <1>6. \A v \in Workers : worker'[v].now <= clock'
    BY DEF OwnershipInv
  <1> QED BY <1>1, <1>2, <1>3, <1>4, <1>5, <1>6 DEF OwnershipInv

\* A worker that gives up or has no claim: the tables do not change.
LEMMA WorkerWithoutClaim ==
  ASSUME OwnershipInv, TypeOK', UNCHANGED <<clock, job, attempt>>,
         NEW w \in Workers,
         worker'[w].pc \in {"idle", "claiming", "swept"},
         worker'[w].job = NoImport,
         worker'[w].token = NoToken,
         worker'[w].now <= clock,
         \A v \in Workers \ {w} : worker'[v] = worker[v]
  PROVE  OwnershipInv'
  <1>1. ClaimsAreIssued'
    BY DEF OwnershipInv, ClaimsAreIssued
  <1>2. RunningAttemptsAreLeased'
    BY DEF OwnershipInv, RunningAttemptsAreLeased
  <1>3. LeasesAreRunning'
    BY DEF OwnershipInv, LeasesAreRunning
  <1>4. TokensNotShared'
    BY DEF OwnershipInv, TokensNotShared
  <1>5. PublicationOwnsJob'
    BY DEF OwnershipInv, PublicationOwnsJob
  <1>6. \A v \in Workers : worker'[v].now <= clock'
    BY DEF OwnershipInv
  <1> QED BY <1>1, <1>2, <1>3, <1>4, <1>5, <1>6 DEF OwnershipInv

\* The sweep of exhausted jobs: none of them is locked, so no publication
\* loses its job.
LEMMA SweepKeepsOwnership ==
  ASSUME OwnershipInv, TypeOK', NEW w \in Workers, MarkExhaustedBatch(w)
  PROVE  OwnershipInv'
  <1>1. PICK batch \in SUBSET Exhausted(worker[w].now) :
           /\ attempt' = ExpireAttempts(batch)
           /\ job' = [i \in Imports |->
                IF i \in batch
                THEN Finished(job[i], "failed", "ATTEMPT_LIMIT_EXHAUSTED")
                ELSE job[i]]
    BY DEF MarkExhaustedBatch
  <1>2. batch \in SUBSET Imports /\ \A i \in batch : ~RowLocked(i)
    BY DEF Exhausted
  <1>3. \A i \in Imports :
           IF i \in batch
           THEN job'[i].status # "processing" /\ job'[i].token = NoToken
           ELSE job'[i] = job[i]
    <2> SUFFICES ASSUME NEW i \in batch
                 PROVE  job'[i].status # "processing" /\ job'[i].token = NoToken
      BY <1>1
    <2>1. job[i] \in JobRow
      BY <1>2 DEF OwnershipInv, TypeOK
    <2> QED BY <1>1, <1>2, <2>1 DEF Finished, ClearedLease, JobRow
  <1>4. \A t \in Tokens :
           /\ attempt'[t].job = attempt[t].job
           /\ attempt'[t].outcome = "running"
                <=> attempt[t].outcome = "running" /\ attempt[t].job \notin batch
           /\ attempt'[t].outcome = "unissued" <=> attempt[t].outcome = "unissued"
    BY <1>1, <1>2, ExpireEffect
  <1>5. /\ clock' = clock
        /\ \A v \in Workers : /\ worker'[v].job = worker[v].job
                              /\ worker'[v].token = worker[v].token
                              /\ worker'[v].now = worker[v].now
                              /\ v # w => worker'[v].pc = worker[v].pc
        /\ worker[w].pc = "claiming" /\ worker'[w].pc = "swept"
    BY DEF MarkExhaustedBatch, OwnershipInv, TypeOK, WorkerState
  <1>6. ClaimsAreIssued'
    BY <1>4, <1>5 DEF OwnershipInv, ClaimsAreIssued
  <1>7. RunningAttemptsAreLeased'
    BY <1>3, <1>4 DEF OwnershipInv, RunningAttemptsAreLeased
  <1>8. LeasesAreRunning'
    BY <1>3, <1>4 DEF OwnershipInv, LeasesAreRunning
  <1>9. TokensNotShared'
    BY <1>5 DEF OwnershipInv, TokensNotShared
  <1>10. PublicationOwnsJob'
    <2> SUFFICES ASSUME NEW v \in Workers, worker'[v].pc = "locked"
                 PROVE  /\ job'[worker'[v].job].status = "processing"
                        /\ job'[worker'[v].job].token = worker'[v].token
      BY DEF PublicationOwnsJob
    <2>1. worker[v].pc = "locked" /\ worker[v].job \in Imports
      BY <1>5 DEF OwnershipInv, ClaimsAreIssued
    <2>2. worker[v].job \notin batch
      BY <1>2, <2>1 DEF RowLocked
    <2> QED BY <1>3, <1>5, <2>1, <2>2 DEF OwnershipInv, PublicationOwnsJob
  <1>11. \A v \in Workers : worker'[v].now <= clock'
    BY <1>5 DEF OwnershipInv
  <1> QED BY <1>6, <1>7, <1>8, <1>9, <1>10, <1>11 DEF OwnershipInv

\* A claim: the token is new, so no other worker has it, and the job is not
\* locked, so no publication loses it to the new claim.
LEMMA ClaimKeepsOwnership ==
  ASSUME OwnershipInv, TypeOK', NEW w \in Workers, ClaimJob(w)
  PROVE  OwnershipInv'
  <1>1. PICK i \in Claimable(worker[w].now), t \in Tokens :
           /\ attempt[t].outcome = "unissued"
           /\ attempt' = [ExpireAttempts({i}) EXCEPT ![t] =
                            NewAttempt(i, job[i].attemptCount + 1)]
           /\ job' = [job EXCEPT ![i] = LeasedTo(job[i], t, worker[w].now)]
           /\ worker' = [worker EXCEPT ![w] =
                   [pc |-> "running", job |-> i, token |-> t, now |-> 0]]
    BY DEF ClaimJob
  <1>2. i \in Imports /\ ~RowLocked(i) /\ clock' = clock /\ worker[w].pc = "swept"
    BY <1>1 DEF Claimable, ClaimJob
  <1>3. /\ job'[i].status = "processing" /\ job'[i].token = t
        /\ \A k \in Imports \ {i} : job'[k] = job[k]
    <2>1. job[i] \in JobRow
      BY <1>2 DEF OwnershipInv, TypeOK
    <2> QED BY <1>1, <1>2, <2>1 DEF OwnershipInv, TypeOK, LeasedTo, JobRow
  <1>4. /\ attempt'[t].job = i /\ attempt'[t].outcome = "running"
        /\ \A s \in Tokens \ {t} :
              /\ attempt'[s].job = attempt[s].job
              /\ attempt'[s].outcome = "running"
                   <=> attempt[s].outcome = "running" /\ attempt[s].job # i
              /\ attempt'[s].outcome = "unissued" <=> attempt[s].outcome = "unissued"
    BY <1>1, <1>2, ExpireEffect, ExpireAttemptsType
    DEF NewAttempt, OwnershipInv
  <1>5. /\ worker'[w] = [pc |-> "running", job |-> i, token |-> t, now |-> 0]
        /\ \A v \in Workers \ {w} : worker'[v] = worker[v]
    BY <1>1 DEF OwnershipInv, TypeOK
  <1>6. \A v \in Workers : worker[v].token # t
    BY <1>1, TokensAssumption DEF OwnershipInv, ClaimsAreIssued
  <1>7. ClaimsAreIssued'
    <2> SUFFICES ASSUME NEW v \in Workers
                 PROVE  IF worker'[v].pc \in {"running", "begun", "locked"}
                        THEN /\ worker'[v].job \in Imports
                             /\ worker'[v].token \in Tokens
                             /\ attempt'[worker'[v].token].job = worker'[v].job
                             /\ attempt'[worker'[v].token].outcome # "unissued"
                        ELSE worker'[v].job = NoImport /\ worker'[v].token = NoToken
      BY DEF ClaimsAreIssued
    <2>1. CASE v = w
      BY <1>2, <1>4, <1>5, <2>1
    <2>2. CASE v # w
      BY <1>4, <1>5, <1>6, <2>2 DEF OwnershipInv, ClaimsAreIssued
    <2> QED BY <2>1, <2>2
  <1>8. RunningAttemptsAreLeased'
    BY <1>2, <1>3, <1>4 DEF OwnershipInv, RunningAttemptsAreLeased
  <1>9. LeasesAreRunning'
    <2> SUFFICES ASSUME NEW k \in Imports
                 PROVE  IF job'[k].status = "processing"
                        THEN /\ job'[k].token \in Tokens
                             /\ attempt'[job'[k].token].job = k
                             /\ attempt'[job'[k].token].outcome = "running"
                        ELSE job'[k].token = NoToken
      BY DEF LeasesAreRunning
    <2>1. CASE k = i
      BY <1>3, <1>4, <2>1
    <2>2. CASE k # i
      <3>1. job'[k] = job[k]
        BY <1>3, <2>2
      <3>2. job[k].status = "processing" => job[k].token # t
        BY <1>1 DEF OwnershipInv, LeasesAreRunning
      <3> QED BY <1>4, <2>2, <3>1, <3>2 DEF OwnershipInv, LeasesAreRunning
    <2> QED BY <2>1, <2>2
  <1>10. TokensNotShared'
    BY <1>5, <1>6 DEF OwnershipInv, TokensNotShared
  <1>11. PublicationOwnsJob'
    <2> SUFFICES ASSUME NEW v \in Workers, worker'[v].pc = "locked"
                 PROVE  /\ job'[worker'[v].job].status = "processing"
                        /\ job'[worker'[v].job].token = worker'[v].token
      BY DEF PublicationOwnsJob
    <2>1. v # w /\ worker'[v] = worker[v] /\ worker[v].pc = "locked"
      BY <1>5
    <2>2. worker[v].job \in Imports \ {i}
      BY <1>2, <2>1 DEF RowLocked, OwnershipInv, ClaimsAreIssued
    <2> QED BY <1>3, <2>1, <2>2 DEF OwnershipInv, PublicationOwnsJob
  <1>12. \A v \in Workers : worker'[v].now <= clock'
    BY <1>2, <1>5 DEF OwnershipInv, TypeOK
  <1> QED BY <1>7, <1>8, <1>9, <1>10, <1>11, <1>12 DEF OwnershipInv

\* The rows a finished claim leaves are those EndOfClaim asks for.
LEMMA FinishRowsEndsClaim ==
  ASSUME OwnershipInv, TypeOK', NEW w \in Workers,
         worker[w].pc \in {"begun", "locked"},
         job[worker[w].job].status = "processing",
         job[worker[w].job].token = worker[w].token,
         NEW status \in TerminalStatuses, NEW phase, NEW error,
         NEW conflict \in BOOLEAN, FinishRows(w, status, phase, error, conflict),
         clock' = clock
  PROVE  OwnershipInv'
  <1> DEFINE i == worker[w].job
             t == worker[w].token
  <1>1. i \in Imports /\ t \in Tokens
    BY DEF OwnershipInv, ClaimsAreIssued
  <1>2. job[i] \in JobRow /\ attempt[t] \in AttemptRow
    BY <1>1 DEF OwnershipInv, TypeOK
  <1>3. /\ job'[i] = Finished(job[i], status, error)
        /\ \A k \in Imports \ {i} : job'[k] = job[k]
    BY <1>1 DEF FinishRows, OwnershipInv, TypeOK
  <1>4. job'[i].status # "processing" /\ job'[i].token = NoToken
    BY <1>2, <1>3 DEF Finished, ClearedLease, JobRow, TerminalStatuses
  <1>5. /\ attempt'[t] = FinishedAttempt(attempt[t], status, phase, conflict)
        /\ \A s \in Tokens \ {t} : attempt'[s] = attempt[s]
    BY <1>1 DEF FinishRows, OwnershipInv, TypeOK
  <1>6. /\ attempt'[t].job = attempt[t].job
        /\ attempt'[t].outcome \notin {"running", "unissued"}
    BY <1>2, <1>5
    DEF FinishedAttempt, AttemptRow, TerminalOutcome, TerminalStatuses
  <1>7. worker' = [worker EXCEPT ![w] = Idle]
    BY DEF FinishRows
  <1> QED BY <1>3, <1>4, <1>5, <1>6, <1>7, EndOfClaim

\* The initial state has no claims, leases or attempts.
LEMMA OwnershipInit == Init => OwnershipInv
  <1> SUFFICES ASSUME Init PROVE OwnershipInv
    OBVIOUS
  <1>1. TypeOK
    BY TypeInit
  <1>2. \A w \in Workers : worker[w] = Idle
    BY DEF Init
  <1>3. ClaimsAreIssued /\ TokensNotShared /\ PublicationOwnsJob
        /\ \A w \in Workers : worker[w].now <= clock
    BY <1>2
    DEF Idle, ClaimsAreIssued, TokensNotShared, PublicationOwnsJob, Init
  <1>4. RunningAttemptsAreLeased /\ LeasesAreRunning
    BY DEF Init, NoAttempt, NoJob, RunningAttemptsAreLeased, LeasesAreRunning
  <1> QED BY <1>1, <1>3, <1>4 DEF OwnershipInv

\* Every operation of the queue keeps leases, attempts and claims one to one.
LEMMA OwnershipStep == OwnershipInv /\ [Next]_vars => OwnershipInv'
  <1> SUFFICES ASSUME OwnershipInv, [Next]_vars PROVE OwnershipInv'
    OBVIOUS
  <1>a. TypeOK'
    BY TypeStep DEF OwnershipInv
  <1>1. CASE Tick
    BY <1>1, <1>a
    DEF Tick, OwnershipInv, TypeOK, ClaimsAreIssued, RunningAttemptsAreLeased,
        LeasesAreRunning, TokensNotShared, PublicationOwnsJob, WorkerState
  <1>2. ASSUME NEW i \in Imports, IntakeStep(i) PROVE OwnershipInv'
    <2>1. PICK status \in {"receiving", "received", "failed"} :
             job' = [job EXCEPT ![i] = Enqueued(i, status)]
      BY <1>2 DEF IntakeStep, ReceiveUpload, MarkReceived, MarkFailed
    <2>2. UNCHANGED <<clock, attempt, worker>>
      BY <1>2 DEF IntakeStep, ReceiveUpload, MarkReceived, MarkFailed
    <2>3. job[i] \in JobRow /\ NoJob \in JobRow
      BY BudgetAssumption
      DEF OwnershipInv, TypeOK, NoJob, JobRow, JobStatuses, ErrorCodes
    <2>4. DesiredStatus(i, status)
            \in {"waiting_file", "queued", "awaiting_parser", "failed"}
      BY DEF DesiredStatus
    <2>5. CASE job[i].status \in {"absent", "waiting_file"}
      <3>1. job[i].token = NoToken
        BY <2>5 DEF OwnershipInv, LeasesAreRunning
      <3>2. Enqueued(i, status).token = NoToken
        BY <2>3, <2>4, <2>5, <3>1 DEF Enqueued, NoJob, JobRow
      <3>3. Enqueued(i, status).status # "processing"
        BY <2>3, <2>4, <2>5 DEF Enqueued, NoJob, JobRow
      <3> QED BY <1>a, <2>1, <2>2, <2>5, <3>2, <3>3, UnleasedJobChange
              DEF OwnershipInv, TypeOK
    <2>6. CASE job[i].status \notin {"absent", "waiting_file"}
      <3>1. job' = job
        BY <2>1, <2>6 DEF Enqueued, OwnershipInv, TypeOK
      <3> QED
        BY <1>a, <2>2, <3>1
        DEF OwnershipInv, ClaimsAreIssued, RunningAttemptsAreLeased,
            LeasesAreRunning, TokensNotShared, PublicationOwnsJob
    <2> QED BY <2>5, <2>6
  <1>3. ASSUME NEW i \in Imports, NEW additional \in 1..AttemptLimit,
               RequeueJob(i, additional)
        PROVE  OwnershipInv'
    <2>1. PICK new : job' = [job EXCEPT ![i] = Requeued(job[i], new)]
      BY <1>3 DEF RequeueJob
    <2>2. job[i] \in JobRow /\ job[i].status # "processing"
      BY <1>3 DEF RequeueJob, Retryable, OwnershipInv, TypeOK
    <2>3. Requeued(job[i], new).status = "queued"
          /\ Requeued(job[i], new).token = NoToken
      BY <2>2 DEF Requeued, ClearedLease, JobRow
    <2> QED BY <1>3, <1>a, <2>1, <2>2, <2>3, UnleasedJobChange
            DEF RequeueJob, OwnershipInv, TypeOK
  <1>4. ASSUME NEW w \in Workers, ClaimStep(w) PROVE OwnershipInv'
    <2>0. worker[w].pc \in {"idle", "claiming", "swept"} =>
             worker[w].job = NoImport /\ worker[w].token = NoToken
      BY DEF OwnershipInv, ClaimsAreIssued
    <2>1. CASE StartClaim(w)
      <3>1. /\ worker'[w].pc = "claiming" /\ worker'[w].now = clock
            /\ worker'[w].job = NoImport /\ worker'[w].token = NoToken
            /\ \A v \in Workers \ {w} : worker'[v] = worker[v]
        BY <2>0, <2>1 DEF StartClaim, OwnershipInv, TypeOK, WorkerState
      <3> QED BY <1>a, <2>1, <3>1, WorkerWithoutClaim
              DEF StartClaim, OwnershipInv, TypeOK
    <2>2. CASE MarkExhaustedBatch(w)
      BY <1>a, <2>2, SweepKeepsOwnership
    <2>3. CASE ClaimJob(w)
      BY <1>a, <2>3, ClaimKeepsOwnership
    <2>4. CASE NothingToClaim(w)
      BY <1>a, <2>4, WorkerWithoutClaim
      DEF NothingToClaim, OwnershipInv, TypeOK, Idle
    <2> QED BY <1>4, <2>1, <2>2, <2>3, <2>4 DEF ClaimStep
  <1>5. ASSUME NEW w \in Workers, LeaseStep(w) PROVE OwnershipInv'
    <2>a. ASSUME Fenced(w)
          PROVE  /\ worker[w].pc = "begun"
                 /\ job[worker[w].job].status = "processing"
                 /\ job[worker[w].job].token = worker[w].token
                 /\ worker[w].job \in Imports /\ worker[w].token \in Tokens
      BY <2>a DEF Fenced, HoldsLiveClaim, OwnershipInv, ClaimsAreIssued
    <2>b. ASSUME Return(w)
          PROVE  /\ worker'[w].pc = "running" /\ worker'[w].now = 0
                 /\ worker'[w].job = worker[w].job
                 /\ worker'[w].token = worker[w].token
                 /\ \A v \in Workers \ {w} : worker'[v] = worker[v]
      BY <2>b DEF Return, OwnershipInv, TypeOK, WorkerState
    <2>c. 0 <= clock
      BY DEF OwnershipInv, TypeOK
    <2>d. ASSUME job' = [job EXCEPT ![worker[w].job].leaseExpiresAt =
                                      worker[w].now + LeaseDuration]
          PROVE  \A i \in Imports : /\ job'[i].status = job[i].status
                                    /\ job'[i].token = job[i].token
      BY <2>d DEF OwnershipInv, TypeOK, JobRow
    <2>e. ASSUME NEW phase,
                 attempt' = [attempt EXCEPT ![worker[w].token].phase = phase]
          PROVE  \A t \in Tokens : /\ attempt'[t].job = attempt[t].job
                                   /\ attempt'[t].outcome = attempt[t].outcome
      BY <2>e DEF OwnershipInv, TypeOK, AttemptRow
    <2>1. CASE BeginCall(w)
      <3>1. /\ worker'[w].pc = "begun" /\ worker'[w].now = clock
            /\ worker'[w].job = worker[w].job
            /\ worker'[w].token = worker[w].token
            /\ \A v \in Workers \ {w} : worker'[v] = worker[v]
        BY <2>1 DEF BeginCall, OwnershipInv, TypeOK, WorkerState
      <3> QED BY <1>a, <2>1, <3>1, ClaimKept DEF BeginCall, OwnershipInv, TypeOK
    <2>2. CASE ClaimLost(w)
      BY <1>a, <2>2, <2>c, WorkerWithoutClaim
      DEF ClaimLost, OwnershipInv, TypeOK, Idle
    <2>3. CASE HeartbeatJob(w)
      <3>1. /\ Fenced(w) /\ Return(w) /\ UNCHANGED <<clock, intake, attempt>>
            /\ \A i \in Imports : /\ job'[i].status = job[i].status
                                  /\ job'[i].token = job[i].token
        BY <2>3, <2>d DEF HeartbeatJob, RenewedLease
      <3> QED BY <1>a, <2>a, <2>b, <2>c, <3>1, ClaimKept
    <2>4. CASE AdvanceAttemptPhase(w)
      <3>1. /\ Fenced(w) /\ Return(w) /\ UNCHANGED <<clock, intake, job>>
            /\ \A t \in Tokens : /\ attempt'[t].job = attempt[t].job
                                 /\ attempt'[t].outcome = attempt[t].outcome
        BY <2>4, <2>e DEF AdvanceAttemptPhase
      <3> QED BY <1>a, <2>a, <2>b, <2>c, <3>1, ClaimKept
    <2>5. CASE RecordParseBatch(w)
      <3>1. Fenced(w) /\ Return(w) /\ UNCHANGED <<clock, intake>>
        BY <2>5 DEF RecordParseBatch
      <3>2. \A i \in Imports : /\ job'[i].status = job[i].status
                              /\ job'[i].token = job[i].token
        BY <2>5, <2>d DEF RecordParseBatch, RenewedLease
      <3>3. \A t \in Tokens : /\ attempt'[t].job = attempt[t].job
                             /\ attempt'[t].outcome = attempt[t].outcome
        BY <2>5, <2>e DEF RecordParseBatch
      <3> QED BY <1>a, <2>a, <2>b, <2>c, <3>1, <3>2, <3>3, ClaimKept
    <2>6. CASE ScheduleRetry(w)
      <3> DEFINE i == worker[w].job
                 t == worker[w].token
      <3>1. Fenced(w) /\ i \in Imports /\ t \in Tokens
        BY <2>6, <2>a DEF ScheduleRetry
      <3>2. job[i] \in JobRow /\ attempt[t] \in AttemptRow
        BY <3>1 DEF OwnershipInv, TypeOK
      <3>3. job'[i].status # "processing" /\ job'[i].token = NoToken
        BY <2>6, <3>1, <3>2
        DEF ScheduleRetry, Finished, Waiting, ClearedLease, OwnershipInv, TypeOK,
            JobRow
      <3>4. \A k \in Imports \ {i} : job'[k] = job[k]
        BY <2>6 DEF ScheduleRetry, OwnershipInv, TypeOK
      <3>5. /\ attempt'[t].job = attempt[t].job
            /\ attempt'[t].outcome = "retryable_failure"
            /\ \A s \in Tokens \ {t} : attempt'[s] = attempt[s]
        BY <2>6, <3>1, <3>2 DEF ScheduleRetry, OwnershipInv, TypeOK, AttemptRow
      <3> QED BY <1>a, <2>6, <2>a, <3>1, <3>3, <3>4, <3>5, EndOfClaim
              DEF ScheduleRetry
    <2>7. CASE \E status \in DOMAIN CompletedFrom : CompleteJob(w, status)
      BY <1>a, <2>7, <2>a, FinishRowsEndsClaim, CompletionStatuses DEF CompleteJob
    <2>8. CASE CompleteStoredObjectFailure(w)
      BY <1>a, <2>8, <2>a, FinishRowsEndsClaim
      DEF CompleteStoredObjectFailure, TerminalStatuses
    <2> QED
      BY <1>5, <2>1, <2>2, <2>3, <2>4, <2>5, <2>6, <2>7, <2>8 DEF LeaseStep
  <1>6. ASSUME NEW w \in Workers, PublicationStep(w) PROVE OwnershipInv'
    <2>a. worker[w].pc = "locked" =>
             /\ job[worker[w].job].status = "processing"
             /\ job[worker[w].job].token = worker[w].token
      BY DEF OwnershipInv, PublicationOwnsJob
    <2>b. 0 <= clock
      BY DEF OwnershipInv, TypeOK
    <2>1. CASE LockForPublication(w)
      <3>1. /\ worker'[w].pc = "locked" /\ worker'[w].now = 0
            /\ worker'[w].job = worker[w].job
            /\ worker'[w].token = worker[w].token
            /\ \A v \in Workers \ {w} : worker'[v] = worker[v]
        BY <2>1 DEF LockForPublication, OwnershipInv, TypeOK, WorkerState
      <3>2. /\ worker[w].pc = "begun"
            /\ job[worker[w].job].status = "processing"
            /\ job[worker[w].job].token = worker[w].token
            /\ UNCHANGED <<clock, job, attempt>>
        BY <2>1 DEF LockForPublication, Fenced, HoldsLiveClaim
      <3> QED BY <1>a, <2>b, <3>1, <3>2, ClaimKept
    <2>2. CASE FinishPublished(w)
      BY <1>a, <2>2, <2>a, FinishRowsEndsClaim
      DEF FinishPublished, TerminalStatuses
    <2>3. CASE \E conflict \in BOOLEAN :
                  FinishInvalid(w, conflict) \/ FinishConflicting(w, conflict)
      BY <1>a, <2>3, <2>a, FinishRowsEndsClaim
      DEF FinishInvalid, FinishConflicting, TerminalStatuses
    <2>4. CASE RollbackPublication(w)
      <3>1. /\ worker'[w].pc = "running" /\ worker'[w].now = 0
            /\ worker'[w].job = worker[w].job
            /\ worker'[w].token = worker[w].token
            /\ \A v \in Workers \ {w} : worker'[v] = worker[v]
        BY <2>4
        DEF RollbackPublication, Return, OwnershipInv, TypeOK, WorkerState
      <3> QED BY <1>a, <2>4, <2>b, <3>1, ClaimKept DEF RollbackPublication
    <2> QED BY <1>6, <2>1, <2>2, <2>3, <2>4 DEF PublicationStep
  <1>7. ASSUME NEW w \in Workers, Crash(w) PROVE OwnershipInv'
    <2>1. 0 <= clock
      BY DEF OwnershipInv, TypeOK
    <2> QED BY <1>7, <1>a, <2>1, WorkerWithoutClaim
            DEF Crash, OwnershipInv, TypeOK, Idle
  <1>8. CASE UNCHANGED vars
    BY <1>8, <1>a
    DEF vars, OwnershipInv, ClaimsAreIssued, RunningAttemptsAreLeased,
        LeasesAreRunning, TokensNotShared, PublicationOwnsJob
  <1> QED
    BY <1>1, <1>2, <1>3, <1>4, <1>5, <1>6, <1>7, <1>8 DEF Next, WorkerStep

\* Leases, running attempts and claims stay one to one in every reachable
\* state, and an open publication keeps its job.
THEOREM OwnershipInvariant == Spec => []OwnershipInv
  BY OwnershipInit, OwnershipStep, PTL DEF Spec

\* A job is processed exactly when one running attempt carries its token: the
\* SalesImportQueueStateError branches of the queue are unreachable.
THEOREM OneRunningAttempt == Spec => []RunningAttemptOwnsJob
  <1>1. OwnershipInv => RunningAttemptOwnsJob
    BY TokensAssumption
    DEF OwnershipInv, RunningAttemptsAreLeased, LeasesAreRunning,
        RunningAttemptOwnsJob, RunningAttempts
  <1> QED BY <1>1, OwnershipInvariant, PTL

\* A publication that passed its fence owns its job until it commits, whether
\* or not its lease runs out meanwhile.
THEOREM PublicationKeepsJob == Spec => []PublicationOwnsJob
  <1>1. OwnershipInv => PublicationOwnsJob
    BY DEF OwnershipInv
  <1> QED BY <1>1, OwnershipInvariant, PTL

\* No two workers ever present the same lease token.
THEOREM TokensAreExclusive == Spec => []TokensNotShared
  <1>1. OwnershipInv => TokensNotShared
    BY DEF OwnershipInv
  <1> QED BY <1>1, OwnershipInvariant, PTL

-----------------------------------------------------------------------------
(***************************************************************************)
(* What a step may never do.                                               *)
(***************************************************************************)

\* Only the worker itself moves its record.
LEMMA WorkersMoveAlone ==
  ASSUME TypeOK, NEW v \in Workers, NEW w \in Workers, v # w, WorkerStep(v)
  PROVE  worker'[w] = worker[w]
  BY DEF WorkerStep, ClaimStep, LeaseStep, PublicationStep, StartClaim,
         MarkExhaustedBatch, ClaimJob, NothingToClaim, BeginCall, ClaimLost,
         HeartbeatJob, AdvanceAttemptPhase, RecordParseBatch, ScheduleRetry,
         CompleteJob, CompleteStoredObjectFailure, LockForPublication,
         FinishPublished, FinishInvalid, FinishConflicting, RollbackPublication, Crash, Return,
         FinishRows, TypeOK

\* The fence: a worker whose token is no longer the token of its job changes no
\* row, whatever call it makes and whenever the call began.
THEOREM Fencing == Spec => StaleWorkerIsPowerless
  <1>1. ASSUME OwnershipInv, [Next]_vars, NEW w \in Workers,
               worker[w].token # NoToken,
               job[worker[w].job].token # worker[w].token,
               worker'[w] # worker[w]
        PROVE  UNCHANGED <<intake, job, attempt>>
    <2>1. WorkerStep(w)
      <3>1. worker' # worker
        BY <1>1
      <3>2. PICK v \in Workers : WorkerStep(v)
        BY <1>1, <3>1
        DEF Next, vars, Tick, IntakeStep, ReceiveUpload, MarkReceived,
            MarkFailed, RequeueJob
      <3> QED BY <1>1, <3>2, WorkersMoveAlone DEF OwnershipInv
    <2>2. worker[w].pc \in {"running", "begun", "locked"}
      BY <1>1 DEF OwnershipInv, ClaimsAreIssued
    <2>3. worker[w].pc # "locked"
      BY <1>1 DEF OwnershipInv, PublicationOwnsJob
    <2>4. ~Fenced(w)
      BY <1>1 DEF Fenced, HoldsLiveClaim
    <2>5. ~ClaimStep(w)
      BY <2>2 DEF ClaimStep, StartClaim, MarkExhaustedBatch, ClaimJob,
                  NothingToClaim
    <2>6. CASE LeaseStep(w)
      BY <2>4, <2>6
      DEF LeaseStep, BeginCall, ClaimLost, HeartbeatJob, AdvanceAttemptPhase,
          RecordParseBatch, ScheduleRetry, CompleteJob,
          CompleteStoredObjectFailure
    <2>7. CASE PublicationStep(w)
      BY <2>3, <2>4, <2>7
      DEF PublicationStep, LockForPublication, FinishPublished, FinishInvalid, FinishConflicting,
          RollbackPublication
    <2>8. CASE Crash(w)
      BY <2>8 DEF Crash
    <2> QED BY <2>1, <2>5, <2>6, <2>7, <2>8 DEF WorkerStep
  <1>2. OwnershipInv /\ [Next]_vars =>
          \A w \in Workers :
            /\ worker[w].token # NoToken
            /\ job[worker[w].job].token # worker[w].token
            /\ worker'[w] # worker[w]
            => UNCHANGED <<intake, job, attempt>>
    BY <1>1
  <1> QED BY <1>2, OwnershipInvariant, PTL DEF Spec, StaleWorkerIsPowerless

\* The attempt a worker may write to is a running one.
LEMMA FencedAttemptRuns ==
  ASSUME OwnershipInv, NEW w \in Workers, Fenced(w) \/ worker[w].pc = "locked"
  PROVE  /\ worker[w].token \in Tokens
         /\ attempt[worker[w].token].outcome = "running"
  BY DEF OwnershipInv, PublicationOwnsJob, LeasesAreRunning, ClaimsAreIssued,
         Fenced, HoldsLiveClaim

\* How one step of a worker can change an attempt row.
LEMMA AttemptChange ==
  ASSUME OwnershipInv, [Next]_vars, NEW t \in Tokens, attempt'[t] # attempt[t]
  PROVE  \/ attempt[t].outcome = "unissued" /\ \E w \in Workers : ClaimJob(w)
         \/ /\ attempt[t].outcome = "running"
            /\ attempt'[t].outcome # "unissued"
            /\ attempt'[t].job = attempt[t].job
            /\ attempt'[t].number = attempt[t].number
            /\ attempt'[t].outcome = "lease_expired" =>
                  /\ job[attempt[t].job].leaseExpiresAt <= clock
                  /\ ~RowLocked(attempt[t].job)
  <1>1. PICK w \in Workers : WorkerStep(w)
    BY DEF Next, vars, Tick, IntakeStep, ReceiveUpload, MarkReceived,
           MarkFailed, RequeueJob
  <1>2. attempt[t] \in AttemptRow
    BY DEF OwnershipInv, TypeOK
  <1>3. ASSUME NEW now, NEW S \in SUBSET Imports, now = worker[w].now,
               \A i \in S : Due(i, now) /\ ~RowLocked(i),
               attempt'[t] = ExpireAttempts(S)[t]
        PROVE  /\ attempt[t].outcome = "running"
               /\ attempt'[t].outcome # "unissued"
               /\ attempt'[t].job = attempt[t].job
               /\ attempt'[t].number = attempt[t].number
               /\ job[attempt[t].job].leaseExpiresAt <= clock
               /\ ~RowLocked(attempt[t].job)
    <2>1. /\ attempt[t].outcome = "running" /\ attempt[t].job \in S
          /\ attempt'[t].outcome # "unissued"
      BY <1>3, ExpireEffect
    <2>2. /\ attempt'[t].job = attempt[t].job
          /\ attempt'[t].number = attempt[t].number
      BY <1>2, <1>3 DEF ExpireAttempts, AttemptRow
    <2>3. job[attempt[t].job].leaseExpiresAt <= now
      BY <1>3, <2>1 DEF Due, OwnershipInv, RunningAttemptsAreLeased
    <2>4. /\ job[attempt[t].job].leaseExpiresAt \in Nat
          /\ now \in Nat /\ clock \in Nat /\ now <= clock
      BY <1>3, <2>1 DEF OwnershipInv, TypeOK, JobRow, WorkerState
    <2>5. ~RowLocked(attempt[t].job)
      BY <1>3, <2>1
    <2>6. job[attempt[t].job].leaseExpiresAt <= clock
      BY <2>3, <2>4
    <2> QED BY <2>1, <2>2, <2>5, <2>6
  <1>4. CASE MarkExhaustedBatch(w)
    <2>1. PICK batch \in SUBSET Exhausted(worker[w].now) :
             attempt' = ExpireAttempts(batch)
      BY <1>4 DEF MarkExhaustedBatch
    <2> QED BY <1>3, <2>1 DEF Exhausted
  <1>5. CASE ClaimJob(w)
    <2>1. PICK i \in Claimable(worker[w].now), s \in Tokens :
             /\ attempt[s].outcome = "unissued"
             /\ attempt' = [ExpireAttempts({i}) EXCEPT ![s] =
                              NewAttempt(i, job[i].attemptCount + 1)]
      BY <1>5 DEF ClaimJob
    <2>2. CASE t = s
      BY <1>5, <2>1, <2>2
    <2>3. CASE t # s
      <3>1. attempt'[t] = ExpireAttempts({i})[t]
        BY <2>1, <2>3, ExpireAttemptsType DEF OwnershipInv
      <3>2. {i} \in SUBSET Imports /\ \A k \in {i} : Due(k, worker[w].now)
                                                     /\ ~RowLocked(k)
        BY <2>1 DEF Claimable
      <3> QED BY <1>3, <3>1, <3>2
    <2> QED BY <2>2, <2>3
  <1>6. ASSUME NEW phase, attempt' = [attempt EXCEPT ![worker[w].token].phase = phase],
               Fenced(w)
        PROVE  /\ attempt[t].outcome = "running"
               /\ attempt'[t].job = attempt[t].job
               /\ attempt'[t].number = attempt[t].number
               /\ attempt'[t].outcome = "running"
    BY <1>2, <1>6, FencedAttemptRuns DEF AttemptRow, OwnershipInv, TypeOK
  <1>7. ASSUME NEW status \in TerminalStatuses, NEW phase, NEW error, NEW conflict,
               FinishRows(w, status, phase, error, conflict),
               Fenced(w) \/ worker[w].pc = "locked"
        PROVE  /\ attempt[t].outcome = "running"
               /\ attempt'[t].job = attempt[t].job
               /\ attempt'[t].number = attempt[t].number
               /\ attempt'[t].outcome \notin {"lease_expired", "unissued"}
    <2>1. t = worker[w].token /\ attempt[t].outcome = "running"
      BY <1>7, FencedAttemptRuns DEF FinishRows, OwnershipInv, TypeOK
    <2>2. attempt'[t] = FinishedAttempt(attempt[t], status, phase, conflict)
      BY <1>7, <2>1 DEF FinishRows, OwnershipInv, TypeOK
    <2> QED BY <1>2, <2>1, <2>2
            DEF FinishedAttempt, AttemptRow, TerminalOutcome, TerminalStatuses
  <1>8. CASE ScheduleRetry(w)
    <2>1. t = worker[w].token /\ attempt[t].outcome = "running"
      BY <1>8, FencedAttemptRuns DEF ScheduleRetry, OwnershipInv, TypeOK
    <2>2. attempt'[t] = [attempt[t] EXCEPT !.outcome = "retryable_failure"]
      BY <1>8, <2>1 DEF ScheduleRetry, OwnershipInv, TypeOK
    <2> QED BY <1>2, <2>1, <2>2 DEF AttemptRow
  <1>9. CASE \/ HeartbeatJob(w) \/ BeginCall(w) \/ ClaimLost(w) \/ Crash(w)
            \/ StartClaim(w) \/ NothingToClaim(w) \/ LockForPublication(w)
            \/ RollbackPublication(w)
    BY <1>9 DEF HeartbeatJob, BeginCall, ClaimLost, Crash, StartClaim,
                NothingToClaim, LockForPublication, RollbackPublication
  <1>10. CASE AdvanceAttemptPhase(w) \/ RecordParseBatch(w)
    BY <1>6, <1>10 DEF AdvanceAttemptPhase, RecordParseBatch
  <1>11. CASE \/ \E status \in DOMAIN CompletedFrom : CompleteJob(w, status)
             \/ CompleteStoredObjectFailure(w) \/ FinishPublished(w)
             \/ \E conflict \in BOOLEAN :
                    FinishInvalid(w, conflict) \/ FinishConflicting(w, conflict)
    BY <1>7, <1>11, CompletionStatuses
    DEF CompleteJob, CompleteStoredObjectFailure, FinishPublished,
        FinishInvalid, FinishConflicting, TerminalStatuses
  <1> QED
    BY <1>1, <1>4, <1>5, <1>8, <1>9, <1>10, <1>11
    DEF WorkerStep, ClaimStep, LeaseStep, PublicationStep

\* The attempt rows are an audit trail no operation of the queue rewrites.
THEOREM AuditTrail == Spec => HistoryIsImmutable
  <1>1. OwnershipInv /\ [Next]_vars =>
          \A t \in Tokens :
            /\ attempt[t].outcome \notin {"unissued", "running"} =>
                   attempt'[t] = attempt[t]
            /\ attempt[t].outcome = "running" =>
                   /\ attempt'[t].job = attempt[t].job
                   /\ attempt'[t].number = attempt[t].number
    BY AttemptChange
  <1> QED BY <1>1, OwnershipInvariant, PTL DEF Spec, HistoryIsImmutable

\* Work is only taken from a worker after its lease ran out and never in the
\* middle of a publication.
THEOREM NoTheft == Spec => LeaseTakenOnlyAfterExpiry
  <1>1. OwnershipInv /\ [Next]_vars =>
          \A t \in Tokens :
            attempt[t].outcome = "running" /\ attempt'[t].outcome = "lease_expired"
            => /\ job[attempt[t].job].leaseExpiresAt <= clock
               /\ ~RowLocked(attempt[t].job)
    BY AttemptChange
  <1> QED BY <1>1, OwnershipInvariant, PTL DEF Spec, LeaseTakenOnlyAfterExpiry

-----------------------------------------------------------------------------
(***************************************************************************)
(* What the rows of a job say about its past: attempts are numbered and    *)
(* paid for, waiting work can be done, intake and job agree, leases only   *)
(* grow while one worker keeps a job, and settled jobs stay as they are.   *)
(*                                                                         *)
(* A job row changes in seven ways.  JobChange lists them once; each proof *)
(* below then looks at one job and goes through that list.                 *)
(***************************************************************************)

\* The job is sent away by the sweep of a claim.
SweptBy(w, i) ==
    /\ worker[w].pc = "claiming"
    /\ i \in Exhausted(worker[w].now)
    /\ job'[i] = Finished(job[i], "failed", "ATTEMPT_LIMIT_EXHAUSTED")

\* The job is leased to a new attempt.
ClaimedBy(w, i) ==
    /\ ClaimJob(w)
    /\ i \in Claimable(worker[w].now)
    /\ \E t \in Tokens :
         /\ attempt[t].outcome = "unissued"
         /\ attempt' = [ExpireAttempts({i}) EXCEPT ![t] =
                          NewAttempt(i, job[i].attemptCount + 1)]
         /\ job'[i] = LeasedTo(job[i], t, worker[w].now)

\* The worker that holds the job extends its lease.
RenewedBy(w, i) ==
    /\ worker[w].job = i
    /\ Fenced(w)
    /\ job'[i] = [job[i] EXCEPT !.leaseExpiresAt = RenewedLease(w)]

\* The worker that holds the job gives it back.
PostponedBy(w, i) ==
    /\ worker[w].job = i
    /\ Fenced(w)
    /\ ~BudgetSpent(job[i])
    /\ job'[i] = Waiting(job[i], worker[w].now + RetryDelay(job[i].attemptCount))

\* The worker that holds the job ends it.
EndedBy(w, i) ==
    /\ worker[w].job = i
    /\ Fenced(w) \/ worker[w].pc = "locked"
    /\ \E status \in TerminalStatuses, error \in ErrorCodes :
         /\ job'[i] = Finished(job[i], status, error)
         /\ \/ intake'[i] = intake[i]
            \/ intake[i] = "received" /\ intake'[i] = "failed" /\ status = "failed"

\* Every change of a job or of its intake row is one of these.
LEMMA JobChange ==
  ASSUME OwnershipInv, [Next]_vars, NEW i \in Imports,
         job'[i] # job[i] \/ intake'[i] # intake[i]
  PROVE  \/ IntakeStep(i)
         \/ \E additional \in 1..AttemptLimit : RequeueJob(i, additional)
         \/ \E w \in Workers : /\ SweptBy(w, i) \/ ClaimedBy(w, i)
                                 \/ RenewedBy(w, i) \/ PostponedBy(w, i)
                              /\ UNCHANGED <<clock, intake>>
         \/ \E w \in Workers : EndedBy(w, i) /\ UNCHANGED clock
  <1>1. ~ UNCHANGED vars /\ ~Tick
    BY DEF vars, Tick
  <1>2. ASSUME NEW k \in Imports, IntakeStep(k)
        PROVE  IntakeStep(i)
    <2>1. k = i
      BY <1>2 DEF IntakeStep, ReceiveUpload, MarkReceived, MarkFailed, OwnershipInv, TypeOK
    <2> QED BY <1>2, <2>1
  <1>3. ASSUME NEW k \in Imports, NEW additional \in 1..AttemptLimit,
               RequeueJob(k, additional)
        PROVE  RequeueJob(i, additional)
    <2>1. k = i
      BY <1>3 DEF RequeueJob, OwnershipInv, TypeOK
    <2> QED BY <1>3, <2>1
  <1>4. ASSUME NEW w \in Workers, WorkerStep(w)
        PROVE  \/ /\ SweptBy(w, i) \/ ClaimedBy(w, i)
                     \/ RenewedBy(w, i) \/ PostponedBy(w, i)
                  /\ UNCHANGED <<clock, intake>>
               \/ EndedBy(w, i) /\ UNCHANGED clock
    <2>1. ~ UNCHANGED <<intake, job>>
      OBVIOUS
    <2>2. CASE MarkExhaustedBatch(w)
      <3>1. PICK batch \in SUBSET Exhausted(worker[w].now) :
               job' = [k \in Imports |->
                  IF k \in batch
                  THEN Finished(job[k], "failed", "ATTEMPT_LIMIT_EXHAUSTED")
                  ELSE job[k]]
        BY <2>2 DEF MarkExhaustedBatch
      <3>2. i \in batch
        BY <2>2, <3>1 DEF MarkExhaustedBatch
      <3> QED BY <2>2, <3>1, <3>2 DEF MarkExhaustedBatch, SweptBy
    <2>3. CASE ClaimJob(w)
      <3>1. PICK k \in Claimable(worker[w].now), t \in Tokens :
               /\ attempt[t].outcome = "unissued"
               /\ attempt' = [ExpireAttempts({k}) EXCEPT ![t] =
                                NewAttempt(k, job[k].attemptCount + 1)]
               /\ job' = [job EXCEPT ![k] = LeasedTo(job[k], t, worker[w].now)]
        BY <2>3 DEF ClaimJob
      <3>2. k = i
        BY <2>3, <3>1 DEF ClaimJob, OwnershipInv, TypeOK
      <3>3. job'[i] = LeasedTo(job[i], t, worker[w].now)
        BY <3>1, <3>2 DEF OwnershipInv, TypeOK
      <3>4. UNCHANGED <<clock, intake>>
        BY <2>3 DEF ClaimJob
      <3> QED BY <2>3, <3>1, <3>2, <3>3, <3>4 DEF ClaimedBy
    <2>4. CASE HeartbeatJob(w) \/ RecordParseBatch(w)
      <3>1. worker[w].job = i
        BY <2>4 DEF HeartbeatJob, RecordParseBatch, OwnershipInv, TypeOK
      <3> QED BY <2>4, <3>1
              DEF HeartbeatJob, RecordParseBatch, RenewedBy, OwnershipInv, TypeOK
    <2>5. CASE ScheduleRetry(w)
      <3>1. worker[w].job = i
        BY <2>5 DEF ScheduleRetry, OwnershipInv, TypeOK
      <3>2. CASE BudgetSpent(job[i])
        <4>1. job'[i] = Finished(job[i], "failed", "other")
          BY <2>5, <3>1, <3>2 DEF ScheduleRetry, OwnershipInv, TypeOK
        <4> QED BY <2>5, <3>1, <4>1
                DEF ScheduleRetry, EndedBy, TerminalStatuses, ErrorCodes
      <3>3. CASE ~BudgetSpent(job[i])
        BY <2>5, <3>1, <3>3 DEF ScheduleRetry, PostponedBy, OwnershipInv, TypeOK
      <3> QED BY <3>2, <3>3
    <2>6. ASSUME NEW status \in TerminalStatuses, NEW phase, NEW error \in ErrorCodes,
                 NEW conflict, FinishRows(w, status, phase, error, conflict),
                 Fenced(w) \/ worker[w].pc = "locked", UNCHANGED clock,
                 \/ UNCHANGED intake
                 \/ /\ intake[worker[w].job] = "received" /\ status = "failed"
                    /\ intake' = [intake EXCEPT ![worker[w].job] = "failed"]
          PROVE  EndedBy(w, i) /\ UNCHANGED clock
      <3>1. worker[w].job = i
        BY <2>6 DEF FinishRows, OwnershipInv, TypeOK
      <3>2. job'[i] = Finished(job[i], status, error)
        BY <2>6, <3>1 DEF FinishRows, OwnershipInv, TypeOK
      <3> QED BY <2>6, <3>1, <3>2 DEF EndedBy, OwnershipInv, TypeOK
    <2>7. CASE \E status \in DOMAIN CompletedFrom : CompleteJob(w, status)
      BY <2>6, <2>7, CompletionStatuses DEF CompleteJob, ErrorCodes
    <2>8. CASE CompleteStoredObjectFailure(w)
      BY <2>6, <2>8 DEF CompleteStoredObjectFailure, TerminalStatuses, ErrorCodes
    <2>9. CASE FinishPublished(w)
      BY <2>6, <2>9 DEF FinishPublished, TerminalStatuses, ErrorCodes
    <2>10. CASE \E conflict \in BOOLEAN :
                   FinishInvalid(w, conflict) \/ FinishConflicting(w, conflict)
      BY <2>6, <2>10 DEF FinishInvalid, FinishConflicting, TerminalStatuses, ErrorCodes
    <2>11. ~ (\/ StartClaim(w) \/ NothingToClaim(w) \/ BeginCall(w) \/ ClaimLost(w)
              \/ AdvanceAttemptPhase(w) \/ LockForPublication(w)
              \/ RollbackPublication(w) \/ Crash(w))
      BY <2>1 DEF StartClaim, NothingToClaim, BeginCall, ClaimLost, AdvanceAttemptPhase,
                  LockForPublication, RollbackPublication, Crash
    <2> QED
      BY <1>4, <2>2, <2>3, <2>4, <2>5, <2>7, <2>8, <2>9, <2>10, <2>11
      DEF WorkerStep, ClaimStep, LeaseStep, PublicationStep
  <1> QED
    BY <1>1, <1>2, <1>3, <1>4 DEF Next

-----------------------------------------------------------------------------
(***************************************************************************)
(* The inductive invariant.                                                *)
(***************************************************************************)

UnissuedTokensAreFree ==
    \A t \in Tokens : attempt[t].outcome = "unissued" => attempt[t].job = NoImport

NewJobsAreUntried ==
    \A i \in Imports :
        /\ job[i].status = "absent" => job[i] = NoJob
        /\ job[i].status \in {"absent", "waiting_file", "awaiting_parser"} =>
               job[i].attemptCount = 0

\* No lease reaches further than the latest renewal could have taken it.
LeasesFollowClocks ==
    /\ \A i \in Imports : job[i].leaseExpiresAt <= clock + LeaseDuration
    /\ \A w \in Workers :
         worker[w].pc = "begun" /\ job[worker[w].job].token = worker[w].token =>
             job[worker[w].job].leaseExpiresAt <= worker[w].now + LeaseDuration

HistoryInv ==
    /\ OwnershipInv
    /\ UnissuedTokensAreFree
    /\ NewJobsAreUntried
    /\ AttemptHistory
    /\ WaitingWorkHasBudget
    /\ IntakeAgreesWithJob
    /\ LeasesFollowClocks

\* A retry waits for the longest delay at most.
LEMMA RetryDelayBounded ==
  \A n \in Nat : RetryDelay(n) \in Nat /\ RetryDelay(n) <= RetryMaxDelay
  BY TimeAssumption DEF RetryDelay

\* What intake does to the rows of one import.
LEMMA IntakeEffect ==
  ASSUME HistoryInv, NEW i \in Imports, IntakeStep(i)
  PROVE  /\ UNCHANGED <<clock, attempt, worker>>
         /\ \/ /\ intake[i] = "absent" /\ intake'[i] = "receiving"
               /\ job[i].status = "absent"
               /\ job'[i].status = "waiting_file"
            \/ /\ intake[i] = "receiving" /\ intake'[i] = "received"
               /\ job[i].status = "waiting_file"
               /\ job'[i].status = IF i \in CsvImports THEN "queued"
                                                       ELSE "awaiting_parser"
            \/ /\ intake[i] = "receiving" /\ intake'[i] = "failed"
               /\ job[i].status = "waiting_file"
               /\ job'[i].status = "failed"
         /\ job'[i].attemptCount = job[i].attemptCount
         /\ job'[i].maxAttempts = job[i].maxAttempts
         /\ job'[i].maxAttempts \in Nat /\ job'[i].maxAttempts > 0
         /\ job'[i].maxAttempts >= job[i].attemptCount
         /\ job'[i].leaseExpiresAt = job[i].leaseExpiresAt
         /\ job'[i].availableAt \in {clock, job[i].availableAt}
         /\ job'[i].status = "queued" => job'[i].availableAt = clock
  <1>1. job[i] \in JobRow /\ NoJob \in JobRow /\ clock \in Nat
    BY BudgetAssumption
    DEF HistoryInv, OwnershipInv, TypeOK, NoJob, JobRow, JobStatuses, ErrorCodes
  <1>2. /\ job[i].attemptCount = 0 \/ job[i].status \notin {"absent", "waiting_file"}
        /\ job[i].status = "absent" => job[i] = NoJob
    BY DEF HistoryInv, NewJobsAreUntried
  <1>3. /\ intake[i] = "absent" <=> job[i].status = "absent"
        /\ intake[i] = "receiving" <=> job[i].status = "waiting_file"
    BY DEF HistoryInv, IntakeAgreesWithJob
  <1>4. CASE ReceiveUpload(i)
    <2>1. job'[i] = [NoJob EXCEPT !.status = "waiting_file", !.availableAt = clock,
                                  !.finished = FALSE]
      BY <1>3, <1>4
      DEF ReceiveUpload, Enqueued, DesiredStatus, HistoryInv, OwnershipInv, TypeOK
    <2>2. /\ job'[i].status = "waiting_file" /\ job'[i].availableAt = clock
          /\ job'[i].attemptCount = 0 /\ job'[i].leaseExpiresAt = 0
          /\ job'[i].maxAttempts = DefaultMaxAttempts
      BY <2>1 DEF NoJob
    <2>3. /\ intake[i] = "absent" /\ intake'[i] = "receiving"
          /\ UNCHANGED <<clock, attempt, worker>>
      BY <1>4 DEF ReceiveUpload, HistoryInv, OwnershipInv, TypeOK
    <2>4. job[i] = NoJob
      BY <1>2, <1>3, <2>3
    <2>5. /\ job[i].attemptCount = 0 /\ job[i].leaseExpiresAt = 0
          /\ job[i].maxAttempts = DefaultMaxAttempts
      <3>1. /\ NoJob.attemptCount = 0 /\ NoJob.leaseExpiresAt = 0
            /\ NoJob.maxAttempts = DefaultMaxAttempts
        BY DEF NoJob
      <3> QED BY <2>4, <3>1
    <2>6. DefaultMaxAttempts \in Nat \ {0}
      BY BudgetAssumption
    <2> QED BY <1>3, <2>2, <2>3, <2>5, <2>6
  <1>5. CASE MarkReceived(i)
    <2>1. job'[i] = [job[i] EXCEPT
                       !.status = IF i \in CsvImports THEN "queued"
                                                      ELSE "awaiting_parser",
                       !.availableAt = clock]
      BY <1>3, <1>5
      DEF MarkReceived, Enqueued, DesiredStatus, HistoryInv, OwnershipInv, TypeOK
    <2>2. /\ job'[i].status = IF i \in CsvImports THEN "queued" ELSE "awaiting_parser"
          /\ job'[i].availableAt = clock
          /\ job'[i].attemptCount = job[i].attemptCount
          /\ job'[i].maxAttempts = job[i].maxAttempts
          /\ job'[i].leaseExpiresAt = job[i].leaseExpiresAt
      BY <1>1, <2>1 DEF JobRow
    <2>3. /\ intake[i] = "receiving" /\ intake'[i] = "received"
          /\ UNCHANGED <<clock, attempt, worker>>
      BY <1>5 DEF MarkReceived, HistoryInv, OwnershipInv, TypeOK
    <2>4. job[i].attemptCount = 0 /\ job[i].maxAttempts \in Nat \ {0}
      BY <1>1, <1>2, <1>3, <2>3 DEF JobRow
    <2> QED BY <1>3, <2>2, <2>3, <2>4
  <1>6. CASE MarkFailed(i)
    <2>1. job'[i] = [job[i] EXCEPT !.status = "failed", !.finished = TRUE,
                                   !.error = "INTAKE_STORAGE_FAILED"]
      BY <1>3, <1>6
      DEF MarkFailed, Enqueued, DesiredStatus, HistoryInv, OwnershipInv, TypeOK
    <2>2. /\ job'[i].status = "failed"
          /\ job'[i].availableAt = job[i].availableAt
          /\ job'[i].attemptCount = job[i].attemptCount
          /\ job'[i].maxAttempts = job[i].maxAttempts
          /\ job'[i].leaseExpiresAt = job[i].leaseExpiresAt
      BY <1>1, <2>1 DEF JobRow
    <2>3. /\ intake[i] = "receiving" /\ intake'[i] = "failed"
          /\ UNCHANGED <<clock, attempt, worker>>
      BY <1>6 DEF MarkFailed, HistoryInv, OwnershipInv, TypeOK
    <2>4. job[i].attemptCount = 0 /\ job[i].maxAttempts \in Nat \ {0}
      BY <1>1, <1>2, <1>3, <2>3 DEF JobRow
    <2> QED BY <1>3, <2>2, <2>3, <2>4
  <1> QED BY <1>4, <1>5, <1>6 DEF IntakeStep

\* What requeue_job does to the row of one import.
LEMMA RequeueEffect ==
  ASSUME HistoryInv, NEW i \in Imports, NEW additional \in 1..AttemptLimit,
         RequeueJob(i, additional)
  PROVE  /\ UNCHANGED <<clock, intake, attempt, worker>>
         /\ Retryable(i)
         /\ job'[i].status = "queued" /\ job'[i].token = NoToken
         /\ job'[i].availableAt = clock /\ job'[i].leaseExpiresAt = 0
         /\ job'[i].attemptCount = job[i].attemptCount
         /\ job'[i].maxAttempts \in Nat
         /\ job'[i].maxAttempts > job[i].attemptCount
         /\ job'[i].maxAttempts > job[i].maxAttempts
  <1> DEFINE new == additional + MaxOf(job[i].maxAttempts, job[i].attemptCount)
  <1>1. job[i] \in JobRow /\ additional \in Nat /\ additional > 0
    BY BudgetAssumption DEF HistoryInv, OwnershipInv, TypeOK
  <1>2. new \in Nat /\ new > job[i].attemptCount /\ new > job[i].maxAttempts
    BY <1>1, BudgetAssumption DEF MaxOf, JobRow
  <1>3. job'[i] = Requeued(job[i], new)
    BY DEF RequeueJob, HistoryInv, OwnershipInv, TypeOK
  <1> QED BY <1>1, <1>2, <1>3
          DEF RequeueJob, Requeued, ClearedLease, JobRow, HistoryInv, OwnershipInv, TypeOK

\* What a worker does to the row of one import.
LEMMA WorkerEffect ==
  ASSUME HistoryInv, NEW i \in Imports, NEW w \in Workers
  PROVE  /\ SweptBy(w, i) =>
              /\ job[i].status = "processing"
              /\ job'[i].status = "failed" /\ job'[i].token = NoToken
              /\ job'[i].leaseExpiresAt = 0
              /\ job'[i].attemptCount = job[i].attemptCount
              /\ job'[i].maxAttempts = job[i].maxAttempts
         /\ ClaimedBy(w, i) =>
              /\ job[i].status \in {"queued", "retry_wait", "processing"}
              /\ job'[i].status = "processing" /\ job'[i].token \in Tokens
              /\ job'[i].token # job[i].token
              /\ job'[i].leaseExpiresAt = worker[w].now + LeaseDuration
              /\ job'[i].attemptCount = job[i].attemptCount + 1
              /\ job'[i].maxAttempts = job[i].maxAttempts
              /\ job'[i].attemptCount <= job'[i].maxAttempts
         /\ RenewedBy(w, i) =>
              /\ job[i].status = "processing" /\ job'[i].status = "processing"
              /\ job[i].token = worker[w].token /\ job'[i].token = job[i].token
              /\ job'[i].leaseExpiresAt = worker[w].now + LeaseDuration
              /\ job'[i].attemptCount = job[i].attemptCount
              /\ job'[i].maxAttempts = job[i].maxAttempts
         /\ PostponedBy(w, i) =>
              /\ job[i].status = "processing"
              /\ job'[i].status = "retry_wait" /\ job'[i].token = NoToken
              /\ job'[i].leaseExpiresAt = 0
              /\ job'[i].availableAt <= clock + RetryMaxDelay
              /\ job'[i].attemptCount = job[i].attemptCount
              /\ job'[i].maxAttempts = job[i].maxAttempts
              /\ job'[i].attemptCount < job'[i].maxAttempts
         /\ EndedBy(w, i) =>
              /\ job[i].status = "processing"
              /\ job'[i].status \in TerminalStatuses /\ job'[i].token = NoToken
              /\ job'[i].leaseExpiresAt = 0
              /\ job'[i].attemptCount = job[i].attemptCount
              /\ job'[i].maxAttempts = job[i].maxAttempts
              /\ intake'[i] # intake[i] =>
                   /\ intake[i] = "received" /\ intake'[i] = "failed"
                   /\ job'[i].status = "failed"
  <1>1. /\ job[i] \in JobRow /\ worker[w] \in WorkerState /\ clock \in Nat
        /\ worker[w].now <= clock
    BY DEF HistoryInv, OwnershipInv, TypeOK
  <1>2. ASSUME SweptBy(w, i)
        PROVE  /\ job[i].status = "processing"
               /\ job'[i].status = "failed" /\ job'[i].token = NoToken
               /\ job'[i].leaseExpiresAt = 0
               /\ job'[i].attemptCount = job[i].attemptCount
               /\ job'[i].maxAttempts = job[i].maxAttempts
    <2>1. job[i].status = "processing"
      BY <1>1, <1>2
      DEF SweptBy, Exhausted, Due, BudgetSpent, HistoryInv, WaitingWorkHasBudget, JobRow
    <2> QED BY <1>1, <1>2, <2>1 DEF SweptBy, Finished, ClearedLease, JobRow
  <1>3. ASSUME ClaimedBy(w, i)
        PROVE  /\ job[i].status \in {"queued", "retry_wait", "processing"}
               /\ job'[i].status = "processing" /\ job'[i].token \in Tokens
               /\ job'[i].token # job[i].token
               /\ job'[i].leaseExpiresAt = worker[w].now + LeaseDuration
               /\ job'[i].attemptCount = job[i].attemptCount + 1
               /\ job'[i].maxAttempts = job[i].maxAttempts
               /\ job'[i].attemptCount <= job'[i].maxAttempts
    <2>1. PICK t \in Tokens : /\ attempt[t].outcome = "unissued"
                              /\ job'[i] = LeasedTo(job[i], t, worker[w].now)
      BY <1>3 DEF ClaimedBy
    <2>2. t # job[i].token
      BY <2>1, TokensAssumption DEF HistoryInv, OwnershipInv, LeasesAreRunning
    <2>3. /\ job[i].status \in {"queued", "retry_wait", "processing"}
          /\ ~BudgetSpent(job[i])
      BY <1>3 DEF ClaimedBy, Claimable, Due
    <2>4. job[i].attemptCount + 1 <= job[i].maxAttempts
      BY <1>1, <2>3, BudgetAssumption DEF BudgetSpent, JobRow
    <2> QED BY <1>1, <2>1, <2>2, <2>3, <2>4 DEF LeasedTo, JobRow
  <1>4. ASSUME RenewedBy(w, i)
        PROVE  /\ job[i].status = "processing" /\ job'[i].status = "processing"
               /\ job[i].token = worker[w].token /\ job'[i].token = job[i].token
               /\ job'[i].leaseExpiresAt = worker[w].now + LeaseDuration
               /\ job'[i].attemptCount = job[i].attemptCount
               /\ job'[i].maxAttempts = job[i].maxAttempts
    BY <1>1, <1>4 DEF RenewedBy, RenewedLease, Fenced, HoldsLiveClaim, JobRow
  <1>5. ASSUME PostponedBy(w, i)
        PROVE  /\ job[i].status = "processing"
               /\ job'[i].status = "retry_wait" /\ job'[i].token = NoToken
               /\ job'[i].leaseExpiresAt = 0
               /\ job'[i].availableAt <= clock + RetryMaxDelay
               /\ job'[i].attemptCount = job[i].attemptCount
               /\ job'[i].maxAttempts = job[i].maxAttempts
               /\ job'[i].attemptCount < job'[i].maxAttempts
    <2>1. /\ RetryDelay(job[i].attemptCount) \in Nat
          /\ RetryDelay(job[i].attemptCount) <= RetryMaxDelay
      BY <1>1, RetryDelayBounded DEF JobRow
    <2>2. worker[w].now + RetryDelay(job[i].attemptCount) <= clock + RetryMaxDelay
      BY <1>1, <2>1, TimeAssumption DEF WorkerState
    <2> QED BY <1>1, <1>5, <2>2
            DEF PostponedBy, Waiting, ClearedLease, BudgetSpent, JobRow, Fenced,
                HoldsLiveClaim
  <1>6. ASSUME EndedBy(w, i)
        PROVE  /\ job[i].status = "processing"
               /\ job'[i].status \in TerminalStatuses /\ job'[i].token = NoToken
               /\ job'[i].leaseExpiresAt = 0
               /\ job'[i].attemptCount = job[i].attemptCount
               /\ job'[i].maxAttempts = job[i].maxAttempts
               /\ intake'[i] # intake[i] =>
                    /\ intake[i] = "received" /\ intake'[i] = "failed"
                    /\ job'[i].status = "failed"
    <2>1. job[i].status = "processing"
      BY <1>6
      DEF EndedBy, Fenced, HoldsLiveClaim, HistoryInv, OwnershipInv, PublicationOwnsJob
    <2> QED BY <1>1, <1>6, <2>1 DEF EndedBy, Finished, ClearedLease, JobRow
  <1> QED BY <1>2, <1>3, <1>4, <1>5, <1>6

-----------------------------------------------------------------------------
(***************************************************************************)
(* The invariant is inductive.                                             *)
(***************************************************************************)

\* A claim issues one token, for the one job it leases.
LEMMA ClaimIssuesOne ==
  ASSUME HistoryInv, NEW w \in Workers, ClaimJob(w)
  PROVE  \E i \in Imports, t \in Tokens :
           /\ ClaimedBy(w, i)
           /\ \A k \in Imports \ {i} : job'[k] = job[k]
           /\ attempt[t].outcome = "unissued"
           /\ attempt'[t].outcome = "running"
           /\ attempt'[t].job = i
           /\ attempt'[t].number = job[i].attemptCount + 1
           /\ \A s \in Tokens \ {t} :
                /\ attempt'[s].job = attempt[s].job
                /\ attempt'[s].number = attempt[s].number
                /\ attempt'[s].outcome = "unissued" <=> attempt[s].outcome = "unissued"
  <1>1. PICK i \in Claimable(worker[w].now), t \in Tokens :
           /\ attempt[t].outcome = "unissued"
           /\ attempt' = [ExpireAttempts({i}) EXCEPT ![t] =
                            NewAttempt(i, job[i].attemptCount + 1)]
           /\ job' = [job EXCEPT ![i] = LeasedTo(job[i], t, worker[w].now)]
    BY DEF ClaimJob
  <1>2. i \in Imports
    BY DEF Claimable
  <1>3. /\ ClaimedBy(w, i)
        /\ \A k \in Imports \ {i} : job'[k] = job[k]
    BY <1>1, <1>2 DEF ClaimedBy, HistoryInv, OwnershipInv, TypeOK
  <1>4. ExpireAttempts({i}) \in [Tokens -> AttemptRow]
    BY ExpireAttemptsType DEF HistoryInv, OwnershipInv
  <1>5. attempt'[t] = NewAttempt(i, job[i].attemptCount + 1)
    BY <1>1, <1>4
  <1>6. ASSUME NEW s \in Tokens \ {t}
        PROVE  /\ attempt'[s].job = attempt[s].job
               /\ attempt'[s].number = attempt[s].number
               /\ attempt'[s].outcome = "unissued" <=> attempt[s].outcome = "unissued"
    <2>1. attempt'[s] = ExpireAttempts({i})[s] /\ attempt[s] \in AttemptRow
      BY <1>1, <1>4 DEF HistoryInv, OwnershipInv, TypeOK
    <2>2. ExpireAttempts({i})[s].number = attempt[s].number
      BY <2>1 DEF ExpireAttempts, AttemptRow
    <2>3. {i} \in SUBSET Imports
      BY <1>2
    <2>4. /\ ExpireAttempts({i})[s].job = attempt[s].job
          /\ ExpireAttempts({i})[s].outcome = "unissued" <=> attempt[s].outcome = "unissued"
      BY <2>3, ExpireEffect DEF HistoryInv
    <2> QED BY <2>1, <2>2, <2>4
  <1>7. /\ attempt'[t].outcome = "running"
        /\ attempt'[t].job = i
        /\ attempt'[t].number = job[i].attemptCount + 1
    BY <1>5 DEF NewAttempt
  <1> WITNESS i \in Imports, t \in Tokens
  <1> QED BY <1>1, <1>3, <1>6, <1>7

\* Every other step keeps the identity of the attempts.
LEMMA OthersIssueNone ==
  ASSUME HistoryInv, [Next]_vars, ~ \E w \in Workers : ClaimJob(w), NEW t \in Tokens
  PROVE  /\ attempt'[t].job = attempt[t].job
         /\ attempt'[t].number = attempt[t].number
         /\ attempt'[t].outcome = "unissued" <=> attempt[t].outcome = "unissued"
  BY AttemptChange DEF HistoryInv

\* No step changes how often a job was tried, but a claim of that job, or lets
\* a job be tried more often than it may be.
LEMMA CountsFollowClaims ==
  ASSUME HistoryInv, [Next]_vars, NEW i \in Imports
  PROVE  /\ \/ \E w \in Workers : ClaimedBy(w, i)
            \/ job'[i].attemptCount = job[i].attemptCount
         /\ job'[i].attemptCount <= job'[i].maxAttempts
  <1>1. job[i].attemptCount <= job[i].maxAttempts
    BY DEF HistoryInv, AttemptHistory
  <1>2. job[i].attemptCount \in Nat /\ job[i].maxAttempts \in Nat
    BY BudgetAssumption DEF HistoryInv, OwnershipInv, TypeOK, JobRow
  <1>3. CASE job'[i] = job[i] /\ intake'[i] = intake[i]
    BY <1>1, <1>3
  <1>4. CASE IntakeStep(i)
    BY <1>4, IntakeEffect
  <1>5. ASSUME NEW additional \in 1..AttemptLimit, RequeueJob(i, additional)
        PROVE  /\ job'[i].attemptCount = job[i].attemptCount
               /\ job'[i].attemptCount <= job'[i].maxAttempts
    BY <1>2, <1>5, RequeueEffect
  <1>6. ASSUME NEW w \in Workers,
               \/ SweptBy(w, i) \/ RenewedBy(w, i) \/ PostponedBy(w, i) \/ EndedBy(w, i)
        PROVE  /\ job'[i].attemptCount = job[i].attemptCount
               /\ job'[i].attemptCount <= job'[i].maxAttempts
    BY <1>1, <1>6, WorkerEffect
  <1>7. ASSUME NEW w \in Workers, ClaimedBy(w, i)
        PROVE  job'[i].attemptCount <= job'[i].maxAttempts
    BY <1>7, WorkerEffect
  <1> QED BY <1>3, <1>4, <1>5, <1>6, <1>7, JobChange DEF HistoryInv

\* Attempts stay numbered 1..attempt_count.
LEMMA AttemptHistoryStep ==
  ASSUME HistoryInv, [Next]_vars
  PROVE  AttemptHistory' /\ UnissuedTokensAreFree'
  <1> DEFINE Mine(k) == {t \in Tokens : attempt[t].job = k}
             Numbers(k) == {attempt[t].number : t \in Mine(k)}
  <1>1. \A k \in Imports :
           /\ Numbers(k) = 1..job[k].attemptCount
           /\ \A s, t \in Mine(k) : attempt[s].number = attempt[t].number => s = t
    BY DEF HistoryInv, AttemptHistory
  <1>2. \A k \in Imports : job[k].attemptCount \in Nat /\ k # NoImport
    BY ImportsAssumption DEF HistoryInv, OwnershipInv, TypeOK, JobRow
  <1>3. \A k \in Imports : job'[k].attemptCount <= job'[k].maxAttempts
    BY CountsFollowClaims
  <1>4. CASE \E w \in Workers : ClaimJob(w)
    <2>1. PICK w \in Workers : ClaimJob(w)
      BY <1>4
    <2>2. PICK i \in Imports, t \in Tokens :
             /\ ClaimedBy(w, i)
             /\ \A k \in Imports \ {i} : job'[k] = job[k]
             /\ attempt[t].outcome = "unissued"
             /\ attempt'[t].outcome = "running"
             /\ attempt'[t].job = i
             /\ attempt'[t].number = job[i].attemptCount + 1
             /\ \A s \in Tokens \ {t} :
                  /\ attempt'[s].job = attempt[s].job
                  /\ attempt'[s].number = attempt[s].number
                  /\ attempt'[s].outcome = "unissued" <=> attempt[s].outcome = "unissued"
      BY <2>1, ClaimIssuesOne
    <2>3. attempt[t].job = NoImport
      BY <2>2 DEF HistoryInv, UnissuedTokensAreFree
    <2>4. job'[i].attemptCount = job[i].attemptCount + 1
      BY <2>2, WorkerEffect
    <2>5. ASSUME NEW k \in Imports \ {i}
          PROVE  /\ Numbers(k)' = 1..job'[k].attemptCount
                 /\ \A r, s \in Mine(k)' : attempt'[r].number = attempt'[s].number => r = s
      <3>1. Mine(k)' = Mine(k) /\ t \notin Mine(k)
        BY <1>2, <2>2, <2>3
      <3>2. \A s \in Mine(k) : attempt'[s].number = attempt[s].number
        BY <2>2, <3>1
      <3>3. Numbers(k)' = Numbers(k)
        BY <3>1, <3>2
      <3> QED BY <1>1, <2>2, <3>1, <3>2, <3>3
    <2>6. /\ Numbers(i)' = 1..job'[i].attemptCount
          /\ \A r, s \in Mine(i)' : attempt'[r].number = attempt'[s].number => r = s
      <3>1. Mine(i)' = Mine(i) \cup {t} /\ t \notin Mine(i)
        BY <1>2, <2>2, <2>3
      <3>2. \A s \in Mine(i) : /\ attempt'[s].number = attempt[s].number
                               /\ attempt[s].number \in 1..job[i].attemptCount
        BY <1>1, <2>2, <3>1
      <3>3. Numbers(i)' = Numbers(i) \cup {job[i].attemptCount + 1}
        BY <2>2, <3>1, <3>2
      <3>4. Numbers(i)' = 1..job'[i].attemptCount
        <4> HIDE DEF Numbers
        <4>1. \A n \in Nat : (1..n) \cup {n + 1} = 1..(n + 1)
          OBVIOUS
        <4> QED BY <1>1, <1>2, <2>4, <3>3, <4>1
      <3>5. \A s \in Mine(i) : attempt'[s].number # attempt'[t].number
        BY <1>2, <2>2, <3>2
      <3> QED BY <1>1, <3>1, <3>2, <3>4, <3>5
    <2>7. AttemptHistory'
      BY <1>3, <2>5, <2>6 DEF AttemptHistory
    <2>8. UnissuedTokensAreFree'
      BY <2>2 DEF HistoryInv, UnissuedTokensAreFree
    <2> QED BY <2>7, <2>8
  <1>5. CASE ~ \E w \in Workers : ClaimJob(w)
    <2>1. \A t \in Tokens :
             /\ attempt'[t].job = attempt[t].job
             /\ attempt'[t].number = attempt[t].number
             /\ attempt'[t].outcome = "unissued" <=> attempt[t].outcome = "unissued"
      BY <1>5, OthersIssueNone
    <2>2. \A k \in Imports : job'[k].attemptCount = job[k].attemptCount
      BY <1>5, CountsFollowClaims DEF ClaimedBy
    <2>3. ASSUME NEW k \in Imports
          PROVE  Mine(k)' = Mine(k) /\ Numbers(k)' = Numbers(k)
      BY <2>1
    <2>4. AttemptHistory'
      BY <1>1, <1>3, <2>1, <2>2, <2>3 DEF AttemptHistory
    <2>5. UnissuedTokensAreFree'
      BY <2>1 DEF HistoryInv, UnissuedTokensAreFree
    <2> QED BY <2>4, <2>5
  <1> QED BY <1>4, <1>5

\* A worker is in a call that it has just begun, or was already in.
LEMMA CallsBegin ==
  ASSUME TypeOK, [Next]_vars, NEW w \in Workers, worker'[w].pc = "begun"
  PROVE  worker'[w] = worker[w] \/ BeginCall(w)
  <1>1. CASE \E v \in Workers : WorkerStep(v)
    <2>1. PICK v \in Workers : WorkerStep(v)
      BY <1>1
    <2>2. CASE v # w
      BY <2>1, <2>2, WorkersMoveAlone
    <2>3. CASE v = w
      <3>0. worker \in [Workers -> WorkerState]
        BY DEF TypeOK
      <3>a. ASSUME worker' = [worker EXCEPT ![w] = Idle] PROVE FALSE
        BY <3>a, <3>0 DEF Idle
      <3>b. ASSUME Return(w) PROVE FALSE
        BY <3>b, <3>0 DEF Return, WorkerState
      <3>1. CASE ClaimStep(w)
        <4>1. ~StartClaim(w)
          BY <3>0 DEF StartClaim, WorkerState
        <4>2. ~MarkExhaustedBatch(w)
          BY <3>0 DEF MarkExhaustedBatch, WorkerState
        <4>3. ASSUME ClaimJob(w) PROVE FALSE
          <5>1. PICK i, t : worker' = [worker EXCEPT ![w] =
                               [pc |-> "running", job |-> i, token |-> t, now |-> 0]]
            BY <4>3 DEF ClaimJob
          <5>2. worker'[w].pc = "running"
            BY <3>0, <5>1
          <5> QED BY <5>2
        <4> QED BY <3>a, <3>1, <4>1, <4>2, <4>3 DEF ClaimStep, NothingToClaim
      <3>2. CASE LeaseStep(w)
        BY <3>a, <3>b, <3>2
        DEF LeaseStep, ClaimLost, HeartbeatJob, AdvanceAttemptPhase, RecordParseBatch,
            ScheduleRetry, CompleteJob, CompleteStoredObjectFailure, FinishRows
      <3>3. CASE PublicationStep(w)
        <4>1. ~LockForPublication(w)
          BY <3>0 DEF LockForPublication, WorkerState
        <4> QED BY <3>a, <3>b, <3>3, <4>1
                DEF PublicationStep, FinishPublished, FinishInvalid, FinishConflicting,
                    RollbackPublication, FinishRows
      <3>4. CASE Crash(w)
        BY <3>a, <3>4 DEF Crash
      <3> QED BY <2>1, <2>3, <3>1, <3>2, <3>3, <3>4 DEF WorkerStep
    <2> QED BY <2>2, <2>3
  <1>2. CASE ~ \E v \in Workers : WorkerStep(v)
    BY <1>2 DEF Next, vars, Tick, IntakeStep, ReceiveUpload, MarkReceived, MarkFailed,
                RequeueJob
  <1> QED BY <1>1, <1>2

\* The clock never goes back.
LEMMA ClockStep ==
  ASSUME TypeOK, [Next]_vars
  PROVE  clock \in Nat /\ clock' \in Nat /\ clock <= clock'
  <1>1. clock' = clock \/ clock' = clock + 1
    BY DEF Next, vars, Tick, IntakeStep, ReceiveUpload, MarkReceived, MarkFailed,
           RequeueJob, WorkerStep, ClaimStep, LeaseStep, PublicationStep, StartClaim,
           MarkExhaustedBatch, ClaimJob, NothingToClaim, BeginCall, ClaimLost,
           HeartbeatJob, AdvanceAttemptPhase, RecordParseBatch, ScheduleRetry,
           CompleteJob, CompleteStoredObjectFailure, LockForPublication,
           FinishPublished, FinishInvalid, FinishConflicting, RollbackPublication, Crash
  <1> QED BY <1>1 DEF TypeOK

\* Intake and job stay in agreement, new jobs untried and waiting jobs affordable.
LEMMA RowsStep ==
  ASSUME HistoryInv, [Next]_vars
  PROVE  IntakeAgreesWithJob' /\ NewJobsAreUntried' /\ WaitingWorkHasBudget'
  <1> DEFINE Agrees(i) ==
               /\ intake[i] = "absent" <=> job[i].status = "absent"
               /\ intake[i] = "receiving" <=> job[i].status = "waiting_file"
               /\ intake[i] = "failed" => job[i].status = "failed"
               /\ job[i].status = "awaiting_parser" => i \notin CsvImports
               /\ job[i].status \in {"queued", "processing", "retry_wait", "published"} =>
                      i \in CsvImports
             Untried(i) ==
               /\ job[i].status = "absent" => job[i] = NoJob
               /\ job[i].status \in {"absent", "waiting_file", "awaiting_parser"} =>
                      job[i].attemptCount = 0
             Affordable(i) ==
               job[i].status \in {"queued", "retry_wait"} =>
                   /\ job[i].attemptCount < job[i].maxAttempts
                   /\ job[i].availableAt <= clock + RetryMaxDelay
             Good(i) == Agrees(i) /\ Untried(i) /\ Affordable(i)
  <1>1. \A i \in Imports : Good(i)
    BY DEF HistoryInv, IntakeAgreesWithJob, NewJobsAreUntried, WaitingWorkHasBudget
  <1>2. clock \in Nat /\ clock' \in Nat /\ clock <= clock'
    BY ClockStep DEF HistoryInv, OwnershipInv
  <1>3. ASSUME NEW i \in Imports PROVE Good(i)'
    <2>0. job[i] \in JobRow
      BY DEF HistoryInv, OwnershipInv, TypeOK
    <2>1. CASE job'[i] = job[i] /\ intake'[i] = intake[i]
      BY <1>1, <1>2, <2>0, <2>1, TimeAssumption DEF JobRow
    <2>2. CASE IntakeStep(i)
      <3>1. UNCHANGED clock
        BY <2>2, IntakeEffect
      <3>2. Agrees(i)'
        BY <2>2, IntakeEffect
      <3>3. job'[i].attemptCount = 0
        BY <1>1, <2>2, IntakeEffect
      <3>4. Affordable(i)'
        BY <1>2, <2>2, <3>1, <3>3, IntakeEffect, TimeAssumption
      <3>5. job'[i].status # "absent"
        BY <2>2, IntakeEffect
      <3> QED BY <3>2, <3>3, <3>4, <3>5
    <2>3. ASSUME NEW additional \in 1..AttemptLimit, RequeueJob(i, additional)
          PROVE  Good(i)'
      <3>1. /\ Retryable(i) /\ UNCHANGED <<clock, intake>>
            /\ job'[i].status = "queued" /\ job'[i].availableAt = clock
            /\ job'[i].attemptCount < job'[i].maxAttempts
        BY <2>3, RequeueEffect
      <3>2. Agrees(i)'
        BY <3>1 DEF Retryable
      <3>3. Affordable(i)'
        BY <1>2, <3>1, TimeAssumption
      <3> QED BY <3>1, <3>2, <3>3
    <2>4. ASSUME NEW w \in Workers, UNCHANGED <<clock, intake>>,
                 SweptBy(w, i) \/ ClaimedBy(w, i) \/ RenewedBy(w, i) \/ PostponedBy(w, i)
          PROVE  Good(i)'
      <3>1. /\ job[i].status \in {"queued", "retry_wait", "processing"}
            /\ job'[i].status \in {"processing", "retry_wait", "failed"}
            /\ job'[i].status = "retry_wait" =>
                 /\ job'[i].attemptCount < job'[i].maxAttempts
                 /\ job'[i].availableAt <= clock + RetryMaxDelay
        BY <2>4, WorkerEffect
      <3> QED BY <1>1, <2>4, <3>1
    <2>5. ASSUME NEW w \in Workers, UNCHANGED clock, EndedBy(w, i)
          PROVE  Good(i)'
      <3>1. /\ job[i].status = "processing"
            /\ job'[i].status \in TerminalStatuses
            /\ intake'[i] # intake[i] =>
                 /\ intake[i] = "received" /\ intake'[i] = "failed"
                 /\ job'[i].status = "failed"
        BY <2>5, WorkerEffect
      <3> QED BY <1>1, <3>1 DEF TerminalStatuses
    <2> QED BY <2>1, <2>2, <2>3, <2>4, <2>5, JobChange DEF HistoryInv
  <1> QED BY <1>3 DEF IntakeAgreesWithJob, NewJobsAreUntried, WaitingWorkHasBudget

\* Leases stay within reach of the clock, and of the time their own worker read.
LEMMA LeasesStep ==
  ASSUME HistoryInv, [Next]_vars
  PROVE  LeasesFollowClocks'
  <1>1. OwnershipInv' /\ TypeOK /\ TypeOK'
    BY OwnershipStep DEF HistoryInv, OwnershipInv
  <1>2. /\ clock \in Nat /\ clock' \in Nat /\ clock <= clock'
        /\ LeaseDuration \in Nat
        /\ \A w \in Workers : worker[w].now \in Nat /\ worker[w].now <= clock
    BY <1>1, ClockStep, TimeAssumption DEF HistoryInv, OwnershipInv, TypeOK, WorkerState
  <1>3. ASSUME NEW i \in Imports, job'[i] # job[i]
        PROVE  \/ job'[i].leaseExpiresAt = 0
               \/ job'[i].leaseExpiresAt = job[i].leaseExpiresAt
                  /\ job'[i].status # "processing"
               \/ \E w \in Workers :
                    /\ ClaimedBy(w, i) \/ RenewedBy(w, i)
                    /\ job'[i].leaseExpiresAt = worker[w].now + LeaseDuration
    <2>1. CASE IntakeStep(i)
      BY <2>1, IntakeEffect
    <2>2. ASSUME NEW additional \in 1..AttemptLimit, RequeueJob(i, additional)
          PROVE  job'[i].leaseExpiresAt = 0
      BY <2>2, RequeueEffect
    <2>3. ASSUME NEW w \in Workers,
                 SweptBy(w, i) \/ PostponedBy(w, i) \/ EndedBy(w, i)
          PROVE  job'[i].leaseExpiresAt = 0
      BY <2>3, WorkerEffect
    <2>4. ASSUME NEW w \in Workers, ClaimedBy(w, i) \/ RenewedBy(w, i)
          PROVE  job'[i].leaseExpiresAt = worker[w].now + LeaseDuration
      BY <2>4, WorkerEffect
    <2> QED BY <1>3, <2>1, <2>2, <2>3, <2>4, JobChange DEF HistoryInv
  <1>4. ASSUME NEW i \in Imports
        PROVE  job'[i].leaseExpiresAt <= clock' + LeaseDuration
    <2>1. job[i].leaseExpiresAt \in Nat /\ job[i].leaseExpiresAt <= clock + LeaseDuration
      BY <1>1 DEF HistoryInv, LeasesFollowClocks, TypeOK, JobRow
    <2> QED BY <1>2, <1>3, <2>1
  <1>5. ASSUME NEW w \in Workers, worker'[w].pc = "begun",
               job'[worker'[w].job].token = worker'[w].token
        PROVE  job'[worker'[w].job].leaseExpiresAt <= worker'[w].now + LeaseDuration
    <2> DEFINE i == worker'[w].job
    <2>1. /\ i \in Imports /\ worker'[w].token \in Tokens
          /\ job'[i].token # NoToken /\ job'[i].status = "processing"
      BY <1>1, <1>5, TokensAssumption DEF OwnershipInv, ClaimsAreIssued, LeasesAreRunning
    <2>2. CASE BeginCall(w)
      <3>1. job' = job /\ worker'[w].now = clock
        BY <1>1, <2>2 DEF BeginCall, TypeOK, WorkerState
      <3> QED BY <2>1, <3>1 DEF HistoryInv, LeasesFollowClocks
    <2>3. CASE worker'[w] = worker[w] /\ job'[i] = job[i]
      BY <1>5, <2>1, <2>3 DEF HistoryInv, LeasesFollowClocks
    <2>4. CASE worker'[w] = worker[w] /\ job'[i] # job[i]
      <3>1. CASE job'[i].leaseExpiresAt = 0
        BY <1>2, <2>4, <3>1
      <3>2. ASSUME NEW v \in Workers, ClaimedBy(v, i)
            PROVE  FALSE
        <4>1. PICK t \in Tokens : /\ attempt[t].outcome = "unissued"
                                  /\ job'[i] = LeasedTo(job[i], t, worker[v].now)
          BY <3>2 DEF ClaimedBy
        <4>2. job[i] \in JobRow
          BY <1>1, <2>1 DEF TypeOK
        <4>3. worker[w].token = t
          BY <1>5, <2>4, <4>1, <4>2 DEF LeasedTo, JobRow
        <4> QED BY <1>5, <2>4, <4>1, <4>3 DEF HistoryInv, OwnershipInv, ClaimsAreIssued
      <3>3. ASSUME NEW v \in Workers, RenewedBy(v, i)
            PROVE  v = w
        <4>1. job'[i].token = worker[v].token
          BY <2>1, <3>3, WorkerEffect
        <4> QED BY <1>5, <2>1, <2>4, <4>1, TokensAssumption
                DEF HistoryInv, OwnershipInv, TokensNotShared
      <3>4. /\ worker'[w].now = worker[w].now /\ worker[w].now + LeaseDuration \in Nat
        BY <1>2, <2>4
      <3> QED BY <1>3, <2>1, <2>4, <3>1, <3>2, <3>3, <3>4
    <2> QED BY <1>1, <1>5, <2>2, <2>3, <2>4, CallsBegin
  <1> QED BY <1>4, <1>5 DEF LeasesFollowClocks

LEMMA HistoryInit == Init => HistoryInv
  <1> SUFFICES ASSUME Init PROVE HistoryInv
    OBVIOUS
  <1>1. OwnershipInv
    BY OwnershipInit
  <1>2. UnissuedTokensAreFree /\ NewJobsAreUntried
    BY DEF Init, NoAttempt, NoJob, UnissuedTokensAreFree, NewJobsAreUntried
  <1>3. AttemptHistory
    <2>1. \A i \in Imports : {t \in Tokens : attempt[t].job = i} = {}
      BY ImportsAssumption DEF Init, NoAttempt
    <2>2. \A i \in Imports : job[i].attemptCount = 0 /\ 0 <= job[i].maxAttempts
      <3>1. \A i \in Imports : job[i] = NoJob
        BY DEF Init
      <3>2. NoJob.attemptCount = 0 /\ NoJob.maxAttempts = DefaultMaxAttempts
        BY DEF NoJob
      <3> QED BY <3>1, <3>2, BudgetAssumption
    <2>3. 1..0 = {}
      OBVIOUS
    <2> QED BY <2>1, <2>2, <2>3 DEF AttemptHistory
  <1>4. WaitingWorkHasBudget /\ IntakeAgreesWithJob
    BY DEF Init, NoJob, WaitingWorkHasBudget, IntakeAgreesWithJob
  <1>5. LeasesFollowClocks
    <2>1. \A i \in Imports : job[i].leaseExpiresAt = 0
      BY DEF Init, NoJob
    <2>2. \A w \in Workers : worker[w].pc = "idle"
      BY DEF Init, Idle
    <2>3. 0 <= clock + LeaseDuration
      BY TimeAssumption DEF Init
    <2> QED BY <2>1, <2>2, <2>3 DEF LeasesFollowClocks
  <1> QED BY <1>1, <1>2, <1>3, <1>4, <1>5 DEF HistoryInv

LEMMA HistoryStep == HistoryInv /\ [Next]_vars => HistoryInv'
  BY OwnershipStep, AttemptHistoryStep, RowsStep, LeasesStep DEF HistoryInv

\* The inductive invariant of this module.
THEOREM HistoryInvariant == Spec => []HistoryInv
  BY HistoryInit, HistoryStep, PTL DEF Spec

-----------------------------------------------------------------------------
(***************************************************************************)
(* What follows.                                                           *)
(***************************************************************************)

\* attempt_count counts the attempts of a job, one by one, within its budget,
\* whatever is claimed, lost, swept and requeued.
THEOREM AttemptsAreNumbered == Spec => []AttemptHistory
  <1>1. HistoryInv => AttemptHistory
    BY DEF HistoryInv
  <1> QED BY <1>1, HistoryInvariant, PTL

\* Waiting work has an attempt left and is due within the longest delay, so the
\* sweep of claim_next_job never fails a job nobody worked on.
THEOREM WaitingWorkCanBeDone == Spec => []WaitingWorkHasBudget
  <1>1. HistoryInv => WaitingWorkHasBudget
    BY DEF HistoryInv
  <1> QED BY <1>1, HistoryInvariant, PTL

\* Uploads, reconcilers, operators and workers keep intake and job rows in step.
THEOREM IntakeAndJobAgree == Spec => []IntakeAgreesWithJob
  <1>1. HistoryInv => IntakeAgreesWithJob
    BY DEF HistoryInv
  <1> QED BY <1>1, HistoryInvariant, PTL

\* A renewal never takes time away, although it uses a time that was read before
\* it waited for the row.
THEOREM LeasesOnlyGrow == Spec => LeaseNeverShrinks
  <1>1. ASSUME HistoryInv, [Next]_vars, NEW i \in Imports,
               job[i].status = "processing", job'[i].token = job[i].token
        PROVE  job'[i].leaseExpiresAt >= job[i].leaseExpiresAt
    <2>1. job[i] \in JobRow /\ job[i].token # NoToken
      BY <1>1, TokensAssumption DEF HistoryInv, OwnershipInv, TypeOK, LeasesAreRunning
    <2>2. CASE job'[i] = job[i]
      BY <2>1, <2>2 DEF JobRow
    <2>3. CASE IntakeStep(i)
      BY <1>1, <2>3, IntakeEffect
    <2>4. ASSUME NEW additional \in 1..AttemptLimit
          PROVE  ~RequeueJob(i, additional)
      BY <1>1, <2>1, RequeueEffect
    <2>5. ASSUME NEW w \in Workers
          PROVE  ~ (SweptBy(w, i) \/ ClaimedBy(w, i) \/ PostponedBy(w, i) \/ EndedBy(w, i))
      BY <1>1, <2>1, WorkerEffect
    <2>6. ASSUME NEW w \in Workers, RenewedBy(w, i)
          PROVE  job'[i].leaseExpiresAt >= job[i].leaseExpiresAt
      <3>1. /\ worker[w].pc = "begun" /\ worker[w].job = i
            /\ job[worker[w].job].token = worker[w].token
        BY <2>6 DEF RenewedBy, Fenced, HoldsLiveClaim
      <3>2. job[i].leaseExpiresAt <= worker[w].now + LeaseDuration
        BY <1>1, <3>1 DEF HistoryInv, LeasesFollowClocks
      <3>3. job'[i].leaseExpiresAt = worker[w].now + LeaseDuration
        BY <1>1, <2>6, WorkerEffect
      <3>4. worker[w].now + LeaseDuration \in Nat
        BY <1>1, TimeAssumption DEF HistoryInv, OwnershipInv, TypeOK, WorkerState
      <3> QED BY <2>1, <3>2, <3>3, <3>4 DEF JobRow
    <2> QED BY <1>1, <2>2, <2>3, <2>4, <2>5, <2>6, JobChange DEF HistoryInv
  <1>2. HistoryInv /\ [Next]_vars =>
          \A i \in Imports :
            job[i].status = "processing" /\ job'[i].token = job[i].token
            => job'[i].leaseExpiresAt >= job[i].leaseExpiresAt
    BY <1>1
  <1> QED BY <1>2, HistoryInvariant, PTL DEF Spec, LeaseNeverShrinks

\* No upload, reconciler, operator or late worker touches a settled import.
THEOREM SettledStays == Spec => SettledForever
  <1>1. ASSUME HistoryInv, [Next]_vars, NEW i \in Imports, Settled(i)
        PROVE  job'[i] = job[i] /\ intake'[i] = intake[i]
    <2>1. /\ intake[i] = "failed" => job[i].status = "failed"
          /\ intake[i] = "absent" <=> job[i].status = "absent"
          /\ intake[i] = "receiving" <=> job[i].status = "waiting_file"
      BY <1>1 DEF HistoryInv, IntakeAgreesWithJob
    <2>2. job[i].status \in {"published", "failed", "rejected"}
      BY <1>1, <2>1 DEF Settled
    <2>3. ~IntakeStep(i)
      BY <1>1, <2>2, IntakeEffect
    <2>4. ASSUME NEW additional \in 1..AttemptLimit
          PROVE  ~RequeueJob(i, additional)
      BY <1>1, <2>1 DEF RequeueJob, Retryable, Settled
    <2>5. ASSUME NEW w \in Workers
          PROVE  ~ (\/ SweptBy(w, i) \/ ClaimedBy(w, i) \/ RenewedBy(w, i)
                    \/ PostponedBy(w, i) \/ EndedBy(w, i))
      BY <1>1, <2>2, WorkerEffect
    <2> QED BY <1>1, <2>3, <2>4, <2>5, JobChange DEF HistoryInv
  <1>2. HistoryInv /\ [Next]_vars =>
          \A i \in Imports : Settled(i) => job'[i] = job[i] /\ intake'[i] = intake[i]
    BY <1>1
  <1> QED BY <1>2, HistoryInvariant, PTL DEF Spec, SettledForever

-----------------------------------------------------------------------------
(***************************************************************************)
(* Holders and locks.                                                      *)
(***************************************************************************)

\* The holder of a job is the one worker that carries its token, if any.
HoldersKnown ==
    \A i \in Imports :
        /\ Holder(i) \in Workers \cup {Nobody}
        /\ \A w \in Workers : Holder(i) = w <=> Holds(w, i)

\* A worker holds no job but its own, and the one it publishes it holds alone.
HoldersOwn ==
    \A w \in Workers :
        /\ \A i \in Imports :
             Holds(w, i) => /\ worker[w].job = i
                            /\ job[i].status = "processing"
        /\ worker[w].pc = "locked" =>
             /\ worker[w].job \in Imports
             /\ Holds(w, worker[w].job)
             /\ \A v \in Workers \ {w} :
                  ~(worker[v].pc = "locked" /\ worker[v].job = worker[w].job)

LEMMA HoldersAreKnown == OwnershipInv => HoldersKnown
  <1> SUFFICES ASSUME OwnershipInv, NEW i \in Imports
               PROVE  /\ Holder(i) \in Workers \cup {Nobody}
                      /\ \A w \in Workers : Holder(i) = w <=> Holds(w, i)
    BY DEF HoldersKnown
  <1>1. \A v, w \in Workers : Holds(v, i) /\ Holds(w, i) => v = w
    BY DEF OwnershipInv, TokensNotShared, Holds
  <1>2. CASE \E w \in Workers : Holds(w, i)
    <2>1. PICK w \in Workers : Holds(w, i)
      BY <1>2
    <2>2. Holder(i) \in Workers /\ Holds(Holder(i), i)
      BY <1>2 DEF Holder
    <2> QED BY <1>1, <2>1, <2>2
  <1>3. CASE ~ \E w \in Workers : Holds(w, i)
    BY <1>3, NobodyAssumption DEF Holder
  <1> QED BY <1>2, <1>3

LEMMA HoldersOwnJobs == OwnershipInv => HoldersOwn
  <1> SUFFICES ASSUME OwnershipInv, NEW w \in Workers
               PROVE  /\ \A i \in Imports :
                           Holds(w, i) => /\ worker[w].job = i
                                          /\ job[i].status = "processing"
                      /\ worker[w].pc = "locked" =>
                           /\ worker[w].job \in Imports
                           /\ Holds(w, worker[w].job)
                           /\ \A v \in Workers \ {w} :
                                ~(worker[v].pc = "locked" /\ worker[v].job = worker[w].job)
    BY DEF HoldersOwn
  <1>1. ASSUME NEW i \in Imports, Holds(w, i)
        PROVE  worker[w].job = i /\ job[i].status = "processing"
    <2>1. job[i].status = "processing" /\ attempt[job[i].token].job = i
      BY <1>1 DEF OwnershipInv, LeasesAreRunning, Holds
    <2>2. attempt[worker[w].token].job = worker[w].job
      BY <1>1 DEF OwnershipInv, ClaimsAreIssued, Holds
    <2> QED BY <1>1, <2>1, <2>2 DEF Holds
  <1>2. \A v \in Workers : worker[v].pc = "locked" =>
          /\ worker[v].job \in Imports
          /\ worker[v].token # NoToken
          /\ job[worker[v].job].token = worker[v].token
    BY TokensAssumption DEF OwnershipInv, ClaimsAreIssued, PublicationOwnsJob
  <1>3. worker[w].pc = "locked" =>
          /\ worker[w].job \in Imports
          /\ Holds(w, worker[w].job)
          /\ \A v \in Workers \ {w} :
               ~(worker[v].pc = "locked" /\ worker[v].job = worker[w].job)
    BY <1>2 DEF OwnershipInv, TokensNotShared, Holds
  <1> QED BY <1>1, <1>3

\* Nobody holds a job without a token.
LEMMA NobodyHolds ==
  ASSUME HoldersKnown, NEW i \in Imports, job[i].token = NoToken
  PROVE  Holder(i) = Nobody
  BY NobodyAssumption DEF HoldersKnown, Holds

-----------------------------------------------------------------------------
(***************************************************************************)
(* Abstract steps, import by import.                                       *)
(***************************************************************************)

\* What LeasedWork sees of an import stays the same.
Same(i) ==
    /\ ItemState(i)' = ItemState(i)
    /\ Holder(i)' = Holder(i)
    /\ RowLocked(i)' <=> RowLocked(i)
    /\ job'[i].attemptCount = job[i].attemptCount
    /\ job'[i].maxAttempts = job[i].maxAttempts

LEMMA Stutter ==
  ASSUME \A i \in Imports : Same(i)
  PROVE  UNCHANGED Work!absVars
  BY DEF Work!absVars, Same

LEMMA AdmitOrRelease ==
  ASSUME NEW i \in Imports, \A k \in Imports \ {i} : Same(k),
         \/ ItemState(i) = "none" /\ ItemState(i)' = "waiting"
         \/ ItemState(i) = "waiting" /\ ItemState(i)' \in {"open", "failed"},
         Holder(i)' = Holder(i), RowLocked(i)' <=> RowLocked(i),
         job'[i].attemptCount = job[i].attemptCount,
         job'[i].maxAttempts = job[i].maxAttempts
  PROVE  Work!Admit(i) \/ Work!Release(i)
  BY DEF Work!Admit, Work!Release, Same

LEMMA Reopened ==
  ASSUME NEW i \in Imports, \A k \in Imports \ {i} : Same(k),
         ItemState(i) = "failed", ItemState(i)' = "open",
         Holder(i)' = Holder(i), RowLocked(i)' <=> RowLocked(i),
         job'[i].attemptCount = job[i].attemptCount,
         job'[i].maxAttempts \in Nat,
         job'[i].maxAttempts > job[i].maxAttempts,
         job'[i].maxAttempts > job[i].attemptCount
  PROVE  Work!Reopen(i)
  BY DEF Work!Reopen, Same

LEMMA Taken ==
  ASSUME NEW w \in Workers, NEW i \in Imports, \A k \in Imports \ {i} : Same(k),
         ItemState(i) \in {"open", "held"}, ItemState(i)' = "held",
         ~RowLocked(i), ~RowLocked(i)',
         job[i].attemptCount < job[i].maxAttempts,
         \A k \in Imports : Holder(k) # w, Holder(i)' = w,
         job'[i].attemptCount = job[i].attemptCount + 1,
         job'[i].maxAttempts = job[i].maxAttempts
  PROVE  Work!Take(w, i)
  BY DEF Work!Take, Same

LEMMA SealedOrUnsealed ==
  ASSUME NEW w \in Workers, NEW i \in Imports, \A k \in Imports \ {i} : Same(k),
         Holder(i) = w, Holder(i)' = w, ItemState(i)' = ItemState(i),
         job'[i].attemptCount = job[i].attemptCount,
         job'[i].maxAttempts = job[i].maxAttempts
  PROVE  Work!Seal(w, i) \/ Work!Unseal(w, i)
  <1>1. CASE RowLocked(i)'
    BY <1>1 DEF Work!Seal, Same
  <1>2. CASE ~RowLocked(i)'
    BY <1>2 DEF Work!Unseal, Same
  <1> QED BY <1>1, <1>2

LEMMA Answered ==
  ASSUME NEW w \in Workers, NEW i \in Imports, \A k \in Imports \ {i} : Same(k),
         Holder(i) = w, Holder(i)' = Nobody, ~RowLocked(i)',
         ItemState(i)' \in {"open", "failed", "published"},
         ItemState(i)' = "open" => job[i].attemptCount < job[i].maxAttempts,
         ItemState(i)' = "published" => RowLocked(i),
         job'[i].attemptCount = job[i].attemptCount,
         job'[i].maxAttempts = job[i].maxAttempts
  PROVE  Work!Answer(w, i)
  BY DEF Work!Answer, Same

LEMMA Abandoned ==
  ASSUME NEW w \in Workers, NEW i \in Imports, \A k \in Imports \ {i} : Same(k),
         Holder(i) = w, Holder(i)' = Nobody, ~RowLocked(i)',
         ItemState(i)' = ItemState(i),
         job'[i].attemptCount = job[i].attemptCount,
         job'[i].maxAttempts = job[i].maxAttempts
  PROVE  Work!Abandon(w, i)
  BY DEF Work!Abandon, Same

LEMMA GivenUp ==
  ASSUME NEW S \in SUBSET Imports, \A k \in Imports \ S : Same(k),
         \A i \in S :
           /\ ItemState(i) = "held" /\ ItemState(i)' = "failed"
           /\ ~RowLocked(i) /\ ~RowLocked(i)' /\ Holder(i)' = Nobody
           /\ job[i].attemptCount = job[i].maxAttempts
           /\ job'[i].attemptCount = job[i].attemptCount
           /\ job'[i].maxAttempts = job[i].maxAttempts
  PROVE  Work!GiveUp(S)
  BY DEF Work!GiveUp, Same


-----------------------------------------------------------------------------
(***************************************************************************)
(* From rows to abstract steps.                                            *)
(***************************************************************************)

\* Everything known before and after a step.
Known ==
    /\ HistoryInv /\ HistoryInv'
    /\ HoldersKnown /\ HoldersKnown'
    /\ HoldersOwn /\ HoldersOwn'

\* An import whose row is left alone keeps its holder and its lock if every
\* worker keeps what it has of them.
LEMMA SameRow ==
  ASSUME HoldersKnown, HoldersKnown', NEW i \in Imports,
         job'[i].status = job[i].status, job'[i].token = job[i].token,
         job'[i].attemptCount = job[i].attemptCount,
         job'[i].maxAttempts = job[i].maxAttempts,
         \A v \in Workers : Holds(v, i)' <=> Holds(v, i),
         RowLocked(i)' <=> RowLocked(i)
  PROVE  Same(i)
  <1>1. ItemState(i)' = ItemState(i)
    BY DEF ItemState
  <1>2. Holder(i)' = Holder(i)
    BY NobodyAssumption DEF HoldersKnown
  <1> QED BY <1>1, <1>2 DEF Same

\* A step that moves no token of a worker and no publication.
LEMMA WorkersKeepJobs ==
  ASSUME NEW i \in Imports,
         \A v \in Workers : /\ worker'[v].token = worker[v].token
                            /\ worker'[v].job = worker[v].job
                            /\ worker'[v].pc = "locked" <=> worker[v].pc = "locked"
  PROVE  /\ job'[i].token = job[i].token =>
               \A v \in Workers : Holds(v, i)' <=> Holds(v, i)
         /\ RowLocked(i)' <=> RowLocked(i)
  BY DEF Holds, RowLocked

\* Intake and operators only touch jobs nobody holds.
LEMMA IntakeRefines ==
  ASSUME Known, NEW i \in Imports,
         \/ IntakeStep(i)
         \/ \E additional \in 1..AttemptLimit : RequeueJob(i, additional)
  PROVE  Work!AbsNext \/ UNCHANGED Work!absVars
  <1>1. UNCHANGED <<attempt, worker>>
    BY DEF IntakeStep, ReceiveUpload, MarkReceived, MarkFailed, RequeueJob
  <1>2. \A k \in Imports : /\ job'[k].token = job[k].token =>
                                \A v \in Workers : Holds(v, k)' <=> Holds(v, k)
                           /\ RowLocked(k)' <=> RowLocked(k)
    BY <1>1, WorkersKeepJobs
  <1>3. \A k \in Imports \ {i} : job'[k] = job[k]
    BY DEF IntakeStep, ReceiveUpload, MarkReceived, MarkFailed, RequeueJob,
           Known, HistoryInv, OwnershipInv, TypeOK
  <1>4. \A k \in Imports \ {i} : Same(k)
    BY <1>2, <1>3, SameRow DEF Known
  <1>5. \A k \in Imports : job[k].status # "processing" => Holder(k) = Nobody
    BY NobodyHolds DEF Known, HistoryInv, OwnershipInv, LeasesAreRunning
  <1>6. job'[i].status # "processing" => Holder(i)' = Nobody
    <2>1. (\A k \in Imports : job[k].status # "processing" => Holder(k) = Nobody)'
      BY NobodyAssumption
      DEF Known, HistoryInv, OwnershipInv, LeasesAreRunning, HoldersKnown, Holds
    <2> QED BY <2>1
  <1>7. CASE IntakeStep(i)
    <2>1. /\ \/ job[i].status = "absent" /\ job'[i].status = "waiting_file"
             \/ /\ job[i].status = "waiting_file"
                /\ job'[i].status \in {"queued", "awaiting_parser", "failed"}
          /\ job'[i].attemptCount = job[i].attemptCount
          /\ job'[i].maxAttempts = job[i].maxAttempts
      BY <1>7, IntakeEffect DEF Known
    <2>2. Holder(i) = Nobody /\ Holder(i)' = Nobody
      BY <1>5, <1>6, <2>1
    <2>3. CASE job'[i].status = "awaiting_parser"
      <3>1. job[i].status = "waiting_file"
        BY <2>1, <2>3
      <3>2. ItemState(i)' = ItemState(i)
        BY <2>3, <3>1 DEF ItemState
      <3> QED BY <1>2, <1>4, <2>1, <2>2, <3>2, Stutter DEF Same
    <2>4. CASE job'[i].status # "awaiting_parser"
      <3>1. \/ ItemState(i) = "none" /\ ItemState(i)' = "waiting"
            \/ ItemState(i) = "waiting" /\ ItemState(i)' \in {"open", "failed"}
        BY <2>1, <2>4 DEF ItemState
      <3>2. Work!Admit(i) \/ Work!Release(i)
        BY <1>2, <1>4, <2>1, <2>2, <3>1, AdmitOrRelease
      <3> QED BY <3>2 DEF Work!AbsNext
    <2> QED BY <2>3, <2>4
  <1>8. ASSUME NEW additional \in 1..AttemptLimit, RequeueJob(i, additional)
        PROVE  Work!AbsNext
    <2>1. /\ job[i].status \in {"failed", "rejected"} /\ job'[i].status = "queued"
          /\ job'[i].attemptCount = job[i].attemptCount
          /\ job'[i].maxAttempts \in Nat
          /\ job'[i].maxAttempts > job[i].attemptCount
          /\ job'[i].maxAttempts > job[i].maxAttempts
      BY <1>8, RequeueEffect DEF Known, Retryable
    <2>2. Holder(i) = Nobody /\ Holder(i)' = Nobody
      BY <1>5, <1>6, <2>1
    <2>3. ItemState(i) = "failed" /\ ItemState(i)' = "open"
      BY <2>1 DEF ItemState
    <2>4. Work!Reopen(i)
      BY <1>2, <1>4, <2>1, <2>2, <2>3, Reopened
    <2> QED BY <2>4 DEF Work!AbsNext
  <1> QED BY <1>7, <1>8


\* A step that leaves a worker with its claim leaves the view as it is, but for
\* the lock on its own job.
LEMMA ClaimStays ==
  ASSUME Known, NEW w \in Workers, WorkerStep(w),
         worker'[w].token = worker[w].token, worker'[w].job = worker[w].job,
         \A k \in Imports : /\ job'[k].status = job[k].status
                            /\ job'[k].token = job[k].token
                            /\ job'[k].attemptCount = job[k].attemptCount
                            /\ job'[k].maxAttempts = job[k].maxAttempts
  PROVE  /\ \A k \in Imports \ {worker[w].job} : Same(k)
         /\ (worker'[w].pc = "locked" <=> worker[w].pc = "locked") =>
               \A k \in Imports : Same(k)
  <1>1. \A v \in Workers \ {w} : worker'[v] = worker[v]
    BY WorkersMoveAlone DEF Known, HistoryInv, OwnershipInv
  <1>2. \A k \in Imports, v \in Workers : Holds(v, k)' <=> Holds(v, k)
    BY <1>1 DEF Holds
  <1>3. \A k \in Imports \ {worker[w].job} : RowLocked(k)' <=> RowLocked(k)
    BY <1>1 DEF RowLocked
  <1>4. (worker'[w].pc = "locked" <=> worker[w].pc = "locked") =>
            \A k \in Imports : RowLocked(k)' <=> RowLocked(k)
    BY <1>1 DEF RowLocked
  <1> QED BY <1>2, <1>3, <1>4, SameRow DEF Known

\* The steps of a worker that LeasedWork does not see.
LEMMA HiddenStep ==
  ASSUME Known, NEW w \in Workers, WorkerStep(w),
         \/ StartClaim(w) \/ NothingToClaim(w) \/ BeginCall(w)
         \/ HeartbeatJob(w) \/ AdvanceAttemptPhase(w) \/ RecordParseBatch(w)
  PROVE  UNCHANGED Work!absVars
  <1>1. /\ worker \in [Workers -> WorkerState]
        /\ job \in [Imports -> JobRow]
    BY DEF Known, HistoryInv, OwnershipInv, TypeOK
  <1>2. \A k \in Imports : /\ job'[k].status = job[k].status
                           /\ job'[k].token = job[k].token
                           /\ job'[k].attemptCount = job[k].attemptCount
                           /\ job'[k].maxAttempts = job[k].maxAttempts
    <2>1. CASE UNCHANGED job
      BY <2>1
    <2>2. CASE job' = [job EXCEPT ![worker[w].job].leaseExpiresAt = RenewedLease(w)]
      BY <1>1, <2>2 DEF JobRow
    <2> QED BY <2>1, <2>2
            DEF StartClaim, NothingToClaim, BeginCall, HeartbeatJob,
                AdvanceAttemptPhase, RecordParseBatch
  <1>3. worker[w].pc = "swept" => worker[w].job = NoImport /\ worker[w].token = NoToken
    BY DEF Known, HistoryInv, OwnershipInv, ClaimsAreIssued
  <1>4. /\ worker'[w].token = worker[w].token /\ worker'[w].job = worker[w].job
        /\ worker[w].pc # "locked" /\ worker'[w].pc # "locked"
    BY <1>1, <1>3
    DEF StartClaim, NothingToClaim, BeginCall, HeartbeatJob, AdvanceAttemptPhase,
        RecordParseBatch, Return, Fenced, WorkerState, Idle
  <1> QED BY <1>2, <1>4, ClaimStays, Stutter

\* A publication locks its job and, if the database fails, unlocks it.
LEMMA PublicationLockRefines ==
  ASSUME Known, NEW w \in Workers, WorkerStep(w),
         LockForPublication(w) \/ RollbackPublication(w)
  PROVE  Work!AbsNext
  <1>1. worker \in [Workers -> WorkerState]
    BY DEF Known, HistoryInv, OwnershipInv, TypeOK
  <1>2. /\ worker'[w].token = worker[w].token /\ worker'[w].job = worker[w].job
        /\ UNCHANGED job
    BY <1>1 DEF LockForPublication, RollbackPublication, Return, WorkerState
  <1>3. PICK i \in Imports : i = worker[w].job
    BY DEF LockForPublication, RollbackPublication, Fenced,
           Known, HistoryInv, OwnershipInv, ClaimsAreIssued
  <1>4. Holds(w, i)
    <2>1. worker[w].token # NoToken
      BY TokensAssumption
      DEF LockForPublication, RollbackPublication, Fenced,
          Known, HistoryInv, OwnershipInv, ClaimsAreIssued
    <2>2. job[i].token = worker[w].token
      BY <1>3 DEF LockForPublication, RollbackPublication, Fenced, HoldsLiveClaim,
                  Known, HistoryInv, OwnershipInv, PublicationOwnsJob
    <2> QED BY <2>1, <2>2 DEF Holds
  <1>5. Holds(w, i)'
    BY <1>2, <1>4 DEF Holds
  <1>6. \A k \in Imports \ {i} : Same(k)
    BY <1>2, <1>3, ClaimStays
  <1>7. Holder(i) = w /\ Holder(i)' = w
    BY <1>4, <1>5 DEF Known, HoldersKnown
  <1>8. ItemState(i)' = ItemState(i)
    BY <1>2 DEF ItemState
  <1>9. Work!Seal(w, i) \/ Work!Unseal(w, i)
    BY <1>2, <1>6, <1>7, <1>8, SealedOrUnsealed
  <1> QED BY <1>9 DEF Work!AbsNext

\* A step that ends the claim of a worker is only seen on its own job, which
\* nobody locks any more.
LEMMA ClaimDropped ==
  ASSUME Known, NEW w \in Workers, WorkerStep(w),
         worker' = [worker EXCEPT ![w] = Idle],
         \A k \in Imports \ {worker[w].job} : job'[k] = job[k]
  PROVE  /\ \A k \in Imports \ {worker[w].job} : Same(k)
         /\ \A k \in Imports : Holds(w, k) => ~RowLocked(k)'
  <1>1. /\ \A v \in Workers \ {w} : worker'[v] = worker[v]
        /\ worker'[w].pc = "idle" /\ worker'[w].token = NoToken
    BY DEF Idle, Known, HistoryInv, OwnershipInv, TypeOK
  <1>2. ASSUME NEW k \in Imports, k # worker[w].job
        PROVE  Same(k)
    <2>1. job'[k] = job[k]
      BY <1>2
    <2>2. ~Holds(w, k)
      BY <1>2 DEF Known, HoldersOwn
    <2>3. \A v \in Workers : Holds(v, k)' <=> Holds(v, k)
      BY <1>1, <2>1, <2>2 DEF Holds
    <2>4. RowLocked(k)' <=> RowLocked(k)
      BY <1>1, <1>2 DEF RowLocked
    <2> QED BY <2>1, <2>3, <2>4, SameRow DEF Known
  <1>3. ASSUME NEW k \in Imports, Holds(w, k), RowLocked(k)'
        PROVE  FALSE
    <2>1. PICK v \in Workers \ {w} : worker[v].pc = "locked" /\ worker[v].job = k
      BY <1>1, <1>3 DEF RowLocked
    <2>2. Holds(v, k)
      BY <2>1 DEF Known, HoldersOwn
    <2>3. Holder(k) = v /\ Holder(k) = w
      BY <1>3, <2>2 DEF Known, HoldersKnown
    <2> QED BY <2>1, <2>3
  <1> QED BY <1>2, <1>3

\* A worker that loses its claim or dies gives up the job, if it still held one.
LEMMA AbandonRefines ==
  ASSUME Known, NEW w \in Workers, WorkerStep(w), ClaimLost(w) \/ Crash(w)
  PROVE  Work!AbsNext \/ UNCHANGED Work!absVars
  <1>1. worker' = [worker EXCEPT ![w] = Idle] /\ UNCHANGED job
    BY DEF ClaimLost, Crash
  <1>2. \A v \in Workers \ {w} : worker'[v] = worker[v]
    BY <1>1
  <1>3. /\ worker'[w].pc = "idle" /\ worker'[w].token = NoToken
    BY <1>1 DEF Idle, Known, HistoryInv, OwnershipInv, TypeOK
  <1>4. CASE \E i \in Imports : Holds(w, i)
    <2>1. PICK i \in Imports : Holds(w, i)
      BY <1>4
    <2>2. worker[w].job = i
      BY <2>1 DEF Known, HoldersOwn
    <2>3. (\A k \in Imports \ {i} : Same(k)) /\ ~RowLocked(i)'
      BY <1>1, <2>1, <2>2, ClaimDropped
    <2>4. Holder(i) = w
      BY <2>1 DEF Known, HoldersKnown
    <2>5. \A v \in Workers : ~Holds(v, i)'
      <3>1. \A v \in Workers \ {w} : ~Holds(v, i)
        BY <2>4 DEF Known, HoldersKnown
      <3> QED BY <1>1, <1>2, <1>3, <3>1 DEF Holds
    <2>6. Holder(i)' = Nobody
      BY <2>5 DEF Known, HoldersKnown
    <2>7. ItemState(i)' = ItemState(i)
      BY <1>1 DEF ItemState
    <2>8. Work!Abandon(w, i)
      BY <1>1, <2>3, <2>4, <2>6, <2>7, Abandoned
    <2> QED BY <2>8 DEF Work!AbsNext
  <1>5. CASE ~ \E i \in Imports : Holds(w, i)
    <2>1. worker[w].pc # "locked"
      BY <1>5 DEF Known, HoldersOwn
    <2>2. \A k \in Imports : RowLocked(k)' <=> RowLocked(k)
      BY <1>2, <1>3, <2>1 DEF RowLocked
    <2>3. \A k \in Imports, v \in Workers : Holds(v, k)' <=> Holds(v, k)
      BY <1>1, <1>2, <1>3, <1>5 DEF Holds
    <2>4. \A k \in Imports : Same(k)
      BY <1>1, <2>2, <2>3, SameRow DEF Known
    <2> QED BY <2>4, Stutter
  <1> QED BY <1>4, <1>5


\* A worker that answers for its job: the row is free again and says how it went.
LEMMA AnswerRefines ==
  ASSUME Known, NEW w \in Workers, WorkerStep(w),
         Fenced(w) \/ worker[w].pc = "locked",
         worker' = [worker EXCEPT ![w] = Idle],
         NEW i \in Imports, worker[w].job = i,
         \A k \in Imports \ {i} : job'[k] = job[k],
         job'[i].token = NoToken,
         job'[i].attemptCount = job[i].attemptCount,
         job'[i].maxAttempts = job[i].maxAttempts,
         \/ job'[i].status \in {"failed", "rejected", "cancelled"}
         \/ job'[i].status = "published" /\ worker[w].pc = "locked"
         \/ job'[i].status = "retry_wait" /\ job[i].attemptCount < job[i].maxAttempts
  PROVE  Work!AbsNext
  <1>1. Holds(w, i)
    <2>1. worker[w].token # NoToken
      BY TokensAssumption DEF Fenced, Known, HistoryInv, OwnershipInv, ClaimsAreIssued
    <2>2. job[i].token = worker[w].token
      BY DEF Fenced, HoldsLiveClaim, Known, HistoryInv, OwnershipInv, PublicationOwnsJob
    <2> QED BY <2>1, <2>2 DEF Holds
  <1>2. Holder(i) = w
    BY <1>1 DEF Known, HoldersKnown
  <1>3. (\A k \in Imports \ {i} : Same(k)) /\ ~RowLocked(i)'
    BY <1>1, ClaimDropped
  <1>4. Holder(i)' = Nobody
    <2>1. \A v \in Workers : ~Holds(v, i)'
      BY DEF Holds
    <2> QED BY <2>1 DEF Known, HoldersKnown
  <1>5. /\ ItemState(i)' \in {"open", "failed", "published"}
        /\ ItemState(i)' = "open" => job[i].attemptCount < job[i].maxAttempts
        /\ ItemState(i)' = "published" => worker[w].pc = "locked"
    BY DEF ItemState
  <1>6. worker[w].pc = "locked" => RowLocked(i)
    BY DEF RowLocked
  <1>7. Work!Answer(w, i)
    BY <1>2, <1>3, <1>4, <1>5, <1>6, Answered
  <1> QED BY <1>7 DEF Work!AbsNext

\* complete_job, schedule_retry and the ends of a publication all answer.
LEMMA EndRefines ==
  ASSUME Known, NEW w \in Workers, WorkerStep(w),
         \/ ScheduleRetry(w)
         \/ \E status \in DOMAIN CompletedFrom : CompleteJob(w, status)
         \/ CompleteStoredObjectFailure(w)
         \/ FinishPublished(w)
         \/ \E conflict \in BOOLEAN : FinishInvalid(w, conflict)
         \/ \E conflict \in BOOLEAN : FinishConflicting(w, conflict)
  PROVE  Work!AbsNext
  <1>1. /\ job \in [Imports -> JobRow]
        /\ \A k \in Imports : job[k] \in JobRow
    BY DEF Known, HistoryInv, OwnershipInv, TypeOK
  <1>2. Fenced(w) \/ worker[w].pc = "locked"
    BY DEF ScheduleRetry, CompleteJob, CompleteStoredObjectFailure, FinishPublished,
           FinishInvalid, FinishConflicting
  <1>3. PICK i \in Imports : i = worker[w].job
    BY <1>2 DEF Fenced, Known, HistoryInv, OwnershipInv, ClaimsAreIssued
  <1>4. ASSUME NEW status \in {"failed", "rejected", "published"}, NEW error,
               job' = [job EXCEPT ![i] = Finished(job[i], status, error)]
        PROVE  /\ \A k \in Imports \ {i} : job'[k] = job[k]
               /\ job'[i].status = status /\ job'[i].token = NoToken
               /\ job'[i].attemptCount = job[i].attemptCount
               /\ job'[i].maxAttempts = job[i].maxAttempts
    <2>1. job'[i] = Finished(job[i], status, error)
      BY <1>1, <1>4
    <2>2. /\ job'[i].status = status /\ job'[i].token = NoToken
          /\ job'[i].attemptCount = job[i].attemptCount
          /\ job'[i].maxAttempts = job[i].maxAttempts
      BY <1>1, <2>1 DEF Finished, ClearedLease, JobRow
    <2> QED BY <1>1, <1>4, <2>2
  <1>5. CASE ScheduleRetry(w)
    <2>1. worker' = [worker EXCEPT ![w] = Idle]
      BY <1>5 DEF ScheduleRetry
    <2>2. CASE BudgetSpent(job[i])
      <3>1. job' = [job EXCEPT ![i] = Finished(job[i], "failed", "other")]
        BY <1>3, <1>5, <2>2 DEF ScheduleRetry
      <3>2. /\ \A k \in Imports \ {i} : job'[k] = job[k]
            /\ job'[i].status = "failed" /\ job'[i].token = NoToken
            /\ job'[i].attemptCount = job[i].attemptCount
            /\ job'[i].maxAttempts = job[i].maxAttempts
        BY <1>4, <3>1
      <3> QED BY <1>2, <1>3, <2>1, <3>2, AnswerRefines
    <2>3. CASE ~BudgetSpent(job[i])
      <3> DEFINE until == worker[w].now + RetryDelay(job[i].attemptCount)
      <3>1. job' = [job EXCEPT ![i] = Waiting(job[i], until)]
        BY <1>3, <1>5, <2>3 DEF ScheduleRetry
      <3> HIDE DEF until
      <3>2. /\ \A k \in Imports \ {i} : job'[k] = job[k]
            /\ job'[i] = Waiting(job[i], until)
        BY <1>1, <3>1
      <3>3. /\ job'[i].status = "retry_wait" /\ job'[i].token = NoToken
            /\ job'[i].attemptCount = job[i].attemptCount
            /\ job'[i].maxAttempts = job[i].maxAttempts
        BY <1>1, <3>2 DEF Waiting, ClearedLease, JobRow
      <3>4. job[i].attemptCount < job[i].maxAttempts
        BY <1>1, <2>3, BudgetAssumption DEF BudgetSpent, JobRow
      <3> QED BY <1>2, <1>3, <2>1, <3>2, <3>3, <3>4, AnswerRefines
    <2> QED BY <2>2, <2>3
  <1>6. ASSUME NEW status \in {"failed", "rejected", "published"}, NEW phase, NEW error,
               NEW conflict, FinishRows(w, status, phase, error, conflict),
               status = "published" => worker[w].pc = "locked"
        PROVE  Work!AbsNext
    <2>1. /\ worker' = [worker EXCEPT ![w] = Idle]
          /\ job' = [job EXCEPT ![i] = Finished(job[i], status, error)]
      BY <1>3, <1>6 DEF FinishRows
    <2>2. /\ \A k \in Imports \ {i} : job'[k] = job[k]
          /\ job'[i].status = status /\ job'[i].token = NoToken
          /\ job'[i].attemptCount = job[i].attemptCount
          /\ job'[i].maxAttempts = job[i].maxAttempts
      BY <1>4, <2>1
    <2> QED BY ZenonT(60), <1>2, <1>3, <1>6, <2>1, <2>2, AnswerRefines
  <1>7. ASSUME NEW status \in DOMAIN CompletedFrom, CompleteJob(w, status)
        PROVE  Work!AbsNext
    <2>1. status \in {"failed", "rejected"}
      BY DEF CompletedFrom
    <2> QED BY <1>6, <1>7, <2>1 DEF CompleteJob
  <1>8. CASE CompleteStoredObjectFailure(w)
    BY <1>6, <1>8 DEF CompleteStoredObjectFailure
  <1>9. CASE FinishPublished(w)
    BY <1>6, <1>9 DEF FinishPublished
  <1>10. ASSUME NEW conflict \in BOOLEAN,
                FinishInvalid(w, conflict) \/ FinishConflicting(w, conflict)
         PROVE  Work!AbsNext
    BY <1>6, <1>10 DEF FinishInvalid, FinishConflicting
  <1> QED BY <1>5, <1>7, <1>8, <1>9, <1>10


\* The sweep of claim_next_job gives up jobs whose last lease ran out, as many as
\* it takes in one transaction.
LEMMA SweepRefines ==
  ASSUME Known, NEW w \in Workers, WorkerStep(w), MarkExhaustedBatch(w)
  PROVE  Work!AbsNext
  <1>1. PICK batch \in SUBSET Exhausted(worker[w].now) :
           job' = [i \in Imports |->
              IF i \in batch
              THEN Finished(job[i], "failed", "ATTEMPT_LIMIT_EXHAUSTED")
              ELSE job[i]]
    BY DEF MarkExhaustedBatch
  <1>2. batch \in SUBSET Imports
    BY DEF Exhausted
  <1>3. \A v \in Workers : /\ worker'[v].token = worker[v].token
                           /\ worker'[v].job = worker[v].job
                           /\ worker'[v].pc = "locked" <=> worker[v].pc = "locked"
    BY DEF MarkExhaustedBatch, Known, HistoryInv, OwnershipInv, TypeOK, WorkerState
  <1>4. \A k \in Imports : /\ job'[k].token = job[k].token =>
                                \A v \in Workers : Holds(v, k)' <=> Holds(v, k)
                           /\ RowLocked(k)' <=> RowLocked(k)
    BY <1>3, WorkersKeepJobs
  <1>5. \A k \in Imports \ batch : Same(k)
    BY <1>1, <1>4, SameRow DEF Known
  <1>6. ASSUME NEW i \in batch
        PROVE  /\ ItemState(i) = "held" /\ ItemState(i)' = "failed"
               /\ ~RowLocked(i) /\ ~RowLocked(i)' /\ Holder(i)' = Nobody
               /\ job[i].attemptCount = job[i].maxAttempts
               /\ job'[i].attemptCount = job[i].attemptCount
               /\ job'[i].maxAttempts = job[i].maxAttempts
    <2>1. i \in Imports /\ i \in Exhausted(worker[w].now)
      BY <1>2
    <2>2. SweptBy(w, i)
      BY <1>1, <2>1 DEF SweptBy, MarkExhaustedBatch
    <2>3. /\ job[i].status = "processing"
          /\ job'[i].status = "failed" /\ job'[i].token = NoToken
          /\ job'[i].attemptCount = job[i].attemptCount
          /\ job'[i].maxAttempts = job[i].maxAttempts
      BY <2>1, <2>2, WorkerEffect DEF Known
    <2>4. ItemState(i) = "held" /\ ItemState(i)' = "failed"
      BY <2>3 DEF ItemState
    <2>5. ~RowLocked(i) /\ ~RowLocked(i)'
      BY <1>4, <2>1 DEF Exhausted
    <2>6. \A v \in Workers : ~Holds(v, i)'
      BY <2>3 DEF Holds
    <2>7. Holder(i)' = Nobody
      BY <2>1, <2>6 DEF Known, HoldersKnown
    <2>8. job[i].attemptCount = job[i].maxAttempts
      <3>1. job[i].attemptCount <= job[i].maxAttempts
        BY <2>1 DEF Known, HistoryInv, AttemptHistory
      <3>2. job[i].attemptCount >= job[i].maxAttempts
        BY <2>1 DEF Exhausted, BudgetSpent
      <3>3. job[i].attemptCount \in Nat /\ job[i].maxAttempts \in Nat
        BY <2>1, BudgetAssumption DEF Known, HistoryInv, OwnershipInv, TypeOK, JobRow
      <3> QED BY <3>1, <3>2, <3>3
    <2> QED BY <2>3, <2>4, <2>5, <2>7, <2>8
  <1>7. Work!GiveUp(batch)
    BY <1>2, <1>5, <1>6, GivenUp
  <1> QED BY <1>2, <1>7 DEF Work!AbsNext

\* A claim takes a job nobody publishes and that may still be tried, from the
\* queue or from a holder whose lease ran out.
LEMMA ClaimRefines ==
  ASSUME Known, NEW w \in Workers, WorkerStep(w), ClaimJob(w)
  PROVE  Work!AbsNext
  <1>1. PICK i \in Imports, t \in Tokens :
           /\ i \in Claimable(worker[w].now)
           /\ attempt[t].outcome = "unissued"
           /\ attempt' = [ExpireAttempts({i}) EXCEPT ![t] =
                            NewAttempt(i, job[i].attemptCount + 1)]
           /\ job' = [job EXCEPT ![i] = LeasedTo(job[i], t, worker[w].now)]
           /\ worker' = [worker EXCEPT ![w] =
                   [pc |-> "running", job |-> i, token |-> t, now |-> 0]]
    BY DEF ClaimJob, Claimable
  <1>2. /\ \A v \in Workers \ {w} : worker'[v] = worker[v]
        /\ worker'[w].pc = "running" /\ worker'[w].token = t
        /\ \A k \in Imports \ {i} : job'[k] = job[k]
        /\ job'[i] = LeasedTo(job[i], t, worker[w].now)
        /\ job[i] \in JobRow
    BY <1>1 DEF Known, HistoryInv, OwnershipInv, TypeOK
  <1>3. /\ job'[i].status = "processing" /\ job'[i].token = t
        /\ job'[i].attemptCount = job[i].attemptCount + 1
        /\ job'[i].maxAttempts = job[i].maxAttempts
    BY <1>2 DEF LeasedTo, JobRow
  <1>4. worker[w].pc = "swept" /\ worker[w].token = NoToken
    BY DEF ClaimJob, Known, HistoryInv, OwnershipInv, ClaimsAreIssued
  <1>5. \A k \in Imports : RowLocked(k)' <=> RowLocked(k)
    BY <1>2, <1>4 DEF RowLocked
  <1>6. t # NoToken /\ \A k \in Imports : job[k].token # t
    BY <1>1, TokensAssumption DEF Known, HistoryInv, OwnershipInv, LeasesAreRunning
  <1>7. \A k \in Imports \ {i} : Same(k)
    <2>1. \A k \in Imports \ {i}, v \in Workers : Holds(v, k)' <=> Holds(v, k)
      BY <1>2, <1>4, <1>6 DEF Holds
    <2> QED BY <1>2, <1>5, <2>1, SameRow DEF Known
  <1>8. \A k \in Imports : Holder(k) # w
    BY <1>4 DEF Known, HoldersKnown, Holds
  <1>9. Holder(i)' = w
    <2>1. Holds(w, i)'
      BY <1>2, <1>3, <1>6 DEF Holds
    <2> QED BY <2>1 DEF Known, HoldersKnown
  <1>10. ~RowLocked(i) /\ job[i].attemptCount < job[i].maxAttempts
    <2>1. job[i].attemptCount \in Nat /\ job[i].maxAttempts \in Nat
      BY <1>2, BudgetAssumption DEF JobRow
    <2> QED BY <1>1, <2>1 DEF Claimable, BudgetSpent
  <1>11. ItemState(i) \in {"open", "held"} /\ ItemState(i)' = "held"
    BY <1>1, <1>3 DEF ItemState, Claimable, Due
  <1>12. Work!Take(w, i)
    BY <1>3, <1>5, <1>7, <1>8, <1>9, <1>10, <1>11, Taken
  <1> QED BY <1>12 DEF Work!AbsNext

-----------------------------------------------------------------------------
(***************************************************************************)
(* The queue implements LeasedWork.                                        *)
(***************************************************************************)

LEMMA RefinementInit == Init => Work!AbsInit
  <1> SUFFICES ASSUME Init
               PROVE  Work!AbsInit
    OBVIOUS
  <1>1. \A i \in Imports : /\ job[i].status = "absent" /\ job[i].token = NoToken
                           /\ job[i].attemptCount = 0
                           /\ job[i].maxAttempts = DefaultMaxAttempts
    BY DEF Init, NoJob
  <1>2. \A w \in Workers : worker[w].pc = "idle"
    BY DEF Init, Idle
  <1>3. \A i \in Imports : /\ ItemState(i) = "none" /\ ~RowLocked(i)
                           /\ Holder(i) = Nobody
    BY <1>1, <1>2 DEF ItemState, RowLocked, Holder, Holds
  <1>4. \A i \in Imports : job[i].maxAttempts \in Nat
    BY <1>1, BudgetAssumption
  <1> QED BY <1>1, <1>3, <1>4 DEF Work!AbsInit

LEMMA RefinementStep == Known /\ [Next]_vars => [Work!AbsNext]_Work!absVars
  <1> SUFFICES ASSUME Known, [Next]_vars
               PROVE  Work!AbsNext \/ UNCHANGED Work!absVars
    OBVIOUS
  <1>1. CASE UNCHANGED vars \/ Tick
    <2>1. UNCHANGED <<job, worker>>
      BY <1>1 DEF vars, Tick
    <2>2. \A k \in Imports : /\ \A v \in Workers : Holds(v, k)' <=> Holds(v, k)
                             /\ RowLocked(k)' <=> RowLocked(k)
      BY <2>1 DEF Holds, RowLocked
    <2>3. \A k \in Imports : Same(k)
      BY <2>1, <2>2, SameRow DEF Known
    <2> QED BY <2>3, Stutter
  <1>2. ASSUME NEW i \in Imports,
               \/ IntakeStep(i)
               \/ \E additional \in 1..AttemptLimit : RequeueJob(i, additional)
        PROVE  Work!AbsNext \/ UNCHANGED Work!absVars
    BY <1>2, IntakeRefines
  <1>3. ASSUME NEW w \in Workers, WorkerStep(w)
        PROVE  Work!AbsNext \/ UNCHANGED Work!absVars
    <2>1. CASE ClaimStep(w)
      BY <1>3, <2>1, HiddenStep, SweepRefines, ClaimRefines DEF ClaimStep
    <2>2. CASE LeaseStep(w)
      BY <1>3, <2>2, HiddenStep, AbandonRefines, EndRefines DEF LeaseStep
    <2>3. CASE PublicationStep(w)
      BY <1>3, <2>3, PublicationLockRefines, EndRefines DEF PublicationStep
    <2>4. CASE Crash(w)
      BY <1>3, <2>4, AbandonRefines
    <2> QED BY <1>3, <2>1, <2>2, <2>3, <2>4 DEF WorkerStep
  <1> QED BY <1>1, <1>2, <1>3 DEF Next

\* Every behaviour of the queue is one of LeasedWork: whatever the clocks, stale
\* tokens and open transactions, one worker at a time holds a job, only its holder
\* ends it, a publication is never displaced, and each claim costs an attempt.
THEOREM QueueImplementsLeasedWork == Spec => ImplementsLeasedWork
  <1>1. HistoryInv => HoldersKnown /\ HoldersOwn
    BY HoldersAreKnown, HoldersOwnJobs DEF HistoryInv
  <1>2. HistoryInv /\ HistoryInv' /\ HoldersKnown /\ HoldersKnown' /\ HoldersOwn
          /\ HoldersOwn' /\ [Next]_vars => [Work!AbsNext]_Work!absVars
    BY RefinementStep DEF Known
  <1> QED BY <1>1, <1>2, RefinementInit, HistoryInvariant, PTL
          DEF Spec, ImplementsLeasedWork, Work!AbsSpec
=============================================================================
