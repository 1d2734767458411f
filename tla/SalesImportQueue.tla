-------------------------- MODULE SalesImportQueue --------------------------
(***************************************************************************)
(* The durable work queue of sales_imports/queue.py: one job row for each  *)
(* uploaded file, one attempt row for each lease of a job, and any number  *)
(* of worker processes that claim, renew and finish leases through short   *)
(* PostgreSQL transactions.                                                *)
(*                                                                         *)
(* Every transaction of the queue reads CURRENT_TIMESTAMP, which is the    *)
(* time the transaction STARTED, and only then waits for the row lock of   *)
(* its job.  A worker therefore acts in two steps: it captures `now`, and  *)
(* later, when the clock and the tables may have moved, it runs the body   *)
(* of the transaction with the captured value.  The body is one step since *)
(* it holds the row lock from its first statement to its commit.  Only the *)
(* publication transaction, which holds that lock for as long as it takes  *)
(* to validate and insert a file, is split again (pc = "locked").          *)
(*                                                                         *)
(* Row counters, diagnostics (worker names, messages, heartbeat_at) and    *)
(* the contents of files are left to the modules that need them.           *)
(***************************************************************************)
EXTENDS Integers, FiniteSets

CONSTANTS
    Imports,             \* primary keys of intake rows, also of their jobs
    CsvImports,          \* the imports whose file_format is "csv"
    Workers,             \* worker processes
    Tokens,              \* lease tokens uuid4() can return, never one twice
    NoToken,             \* lease_token IS NULL
    NoImport,            \* a worker, or a token, that has no job
    DefaultMaxAttempts,  \* max_attempts of a new job (5)
    AttemptLimit,        \* the largest max_attempts the column holds (32767)
    LeaseDuration,       \* DEFAULT_LEASE_DURATION
    RetryBaseDelay,      \* DEFAULT_RETRY_BASE_DELAY
    RetryMaxDelay,       \* DEFAULT_RETRY_MAX_DELAY
    CleanupBatchSize,    \* EXHAUSTED_CLEANUP_BATCH_SIZE
    MaxClock             \* bound: the clock stops here

\* created_at and pk break ties between jobs, so jobs are numbers in that order.
ASSUME ImportsAssumption ==
    /\ Imports \subseteq Nat
    /\ CsvImports \subseteq Imports
    /\ NoImport \notin Imports

ASSUME TokensAssumption == NoToken \notin Tokens

ASSUME BudgetAssumption ==
    /\ AttemptLimit \in Nat
    /\ DefaultMaxAttempts \in 1..AttemptLimit

\* _validate_duration: every duration is positive.
ASSUME TimeAssumption ==
    /\ LeaseDuration \in Nat \ {0}
    /\ RetryBaseDelay \in Nat \ {0}
    /\ RetryMaxDelay \in Nat \ {0}
    /\ CleanupBatchSize \in Nat \ {0}
    /\ MaxClock \in Nat

VARIABLES
    clock,     \* PostgreSQL's clock
    intake,    \* status of each SalesImport row
    job,       \* the SalesImportJob row of each import
    attempt,   \* the SalesImportAttempt row that carries each token
    worker     \* what each worker process is doing

vars == <<clock, intake, job, attempt, worker>>

IntakeStatuses == {"absent", "receiving", "received", "failed"}

TerminalStatuses == {"published", "rejected", "failed", "cancelled"}

JobStatuses ==
    {"absent", "waiting_file", "awaiting_parser", "queued", "processing",
     "retry_wait"} \cup TerminalStatuses

\* "other" stands for every code no part of the queue compares with.
ErrorCodes ==
    {"", "INTAKE_STORAGE_FAILED", "ATTEMPT_LIMIT_EXHAUSTED",
     "SOURCE_RECORD_CONFLICT", "other"}

Phases == {"claimed", "download", "parse", "validate", "publish", "complete"}

\* "unissued" is the token no attempt carries yet.
Outcomes ==
    {"unissued", "running", "published", "rejected", "retryable_failure",
     "permanent_failure", "lease_expired", "cancelled"}

\* _TERMINAL_OUTCOMES: the outcome an attempt gets with its job's last status.
TerminalOutcome ==
    [s \in TerminalStatuses |-> IF s = "failed" THEN "permanent_failure" ELSE s]

NoJob ==
    [status |-> "absent", availableAt |-> 0, attemptCount |-> 0,
     maxAttempts |-> DefaultMaxAttempts, token |-> NoToken,
     leaseExpiresAt |-> 0, finished |-> FALSE, error |-> ""]

\* conflict: an issue row with code SOURCE_RECORD_CONFLICT is stored for it.
NoAttempt ==
    [job |-> NoImport, number |-> 0, outcome |-> "unissued",
     phase |-> "claimed", conflict |-> FALSE]

Idle == [pc |-> "idle", job |-> NoImport, token |-> NoToken, now |-> 0]

-----------------------------------------------------------------------------
(***************************************************************************)
(* Rows, locks and clocks.                                                 *)
(***************************************************************************)

MinOf(a, b) == IF a <= b THEN a ELSE b

MaxOf(a, b) == IF a >= b THEN a ELSE b

\* min(base * 2^(n-1), maximum), which retry_delay reaches by capped doubling.
RetryDelay(n) ==
    LET uncapped == RetryBaseDelay * 2^(n - 1)
    IN  IF uncapped \in 1..RetryMaxDelay THEN uncapped ELSE RetryMaxDelay

\* Mutant: the publication does not lock the job row.
NeverLocked(i) == FALSE

\* The job row is locked by a publication transaction that is still open.
RowLocked(i) == \E w \in Workers : worker[w].pc = "locked" /\ worker[w].job = i

RunningAttempts(i) ==
    {t \in Tokens : attempt[t].job = i /\ attempt[t].outcome = "running"}

\* Mutant: the lease of a job being processed is not looked at.
DueWhileLeased(i, now) ==
    \/ job[i].status \in {"queued", "retry_wait"} /\ job[i].availableAt <= now
    \/ job[i].status = "processing"

\* Mutant: only waiting jobs are looked for.
DueWhileWaiting(i, now) ==
    job[i].status \in {"queued", "retry_wait"} /\ job[i].availableAt <= now

\* What both halves of claim_next_job look for: waiting work whose time has
\* come, or a lease that ran out.
Due(i, now) ==
    \/ job[i].status \in {"queued", "retry_wait"} /\ job[i].availableAt <= now
    \/ job[i].status = "processing" /\ job[i].leaseExpiresAt <= now

\* Mutant: the limit itself still counts as an attempt left.
BudgetExceeded(row) == row.attemptCount > row.maxAttempts

BudgetSpent(row) == row.attemptCount >= row.maxAttempts

\* skip_locked: both queries pass over the rows other transactions hold.
Exhausted(now) ==
    {i \in Imports : ~RowLocked(i) /\ Due(i, now) /\ BudgetSpent(job[i])}

Claimable(now) ==
    {i \in Imports : ~RowLocked(i) /\ Due(i, now) /\ ~BudgetSpent(job[i])}

\* order_by("available_at", "created_at", "pk")
Precedes(i, k) ==
    \/ job[i].availableAt < job[k].availableAt
    \/ job[i].availableAt = job[k].availableAt /\ i <= k

\* _clear_job_lease
ClearedLease(row) == [row EXCEPT !.token = NoToken, !.leaseExpiresAt = 0]

\* The row of a job that reached a terminal status.
Finished(row, status, error) ==
    [ClearedLease(row) EXCEPT !.status = status, !.finished = TRUE,
                              !.error = error]

\* Mutant: the attempt of an expired lease is left running.
ExpireNothing(S) == attempt

\* _finish_expired_attempt for every job of S that is being processed.  Its
\* "updated != 1" branch is dead as long as RunningAttemptOwnsJob holds.
ExpireAttempts(S) ==
    [t \in Tokens |->
        IF /\ attempt[t].outcome = "running"
           /\ attempt[t].job \in S
           /\ job[attempt[t].job].status = "processing"
           /\ job[attempt[t].job].token = t
        THEN [attempt[t] EXCEPT !.outcome = "lease_expired"]
        ELSE attempt[t]]

\* Mutant: any live lease of the job passes the fence.
JobIsLeased(w) ==
    LET row == job[worker[w].job]
    IN  row.status = "processing" /\ row.leaseExpiresAt > worker[w].now

\* _locked_live_claim: the row the worker locks still carries its token, and
\* the lease was alive when the worker's transaction started.
HoldsLiveClaim(w) ==
    LET row == job[worker[w].job]
    IN  /\ row.status = "processing"
        /\ row.token = worker[w].token
        /\ row.leaseExpiresAt > worker[w].now

-----------------------------------------------------------------------------
Init ==
    /\ clock = 0
    /\ intake = [i \in Imports |-> "absent"]
    /\ job = [i \in Imports |-> NoJob]
    /\ attempt = [t \in Tokens |-> NoAttempt]
    /\ worker = [w \in Workers |-> Idle]

Tick ==
    /\ clock < MaxClock
    /\ clock' = clock + 1
    /\ UNCHANGED <<intake, job, attempt, worker>>

-----------------------------------------------------------------------------
(***************************************************************************)
(* Intake.  enqueue_import always runs in the transaction that changes the *)
(* status of the intake row, so it sees the new status.                    *)
(***************************************************************************)

\* The status enqueue_import wants for the job of an intake with this status.
DesiredStatus(i, status) ==
    CASE status = "receiving" -> "waiting_file"
      [] status = "received"  -> IF i \in CsvImports THEN "queued"
                                                     ELSE "awaiting_parser"
      [] status = "failed"    -> "failed"

\* The job row after enqueue_import; a job that left waiting_file is kept.
Enqueued(i, status) ==
    LET desired == DesiredStatus(i, status)
        row     == job[i]
    IN  CASE row.status = "absent" ->
                 [NoJob EXCEPT !.status = desired, !.availableAt = clock,
                               !.finished = (desired = "failed")]
          [] /\ row.status = "waiting_file"
             /\ desired \in {"queued", "awaiting_parser"} ->
                 [row EXCEPT !.status = desired, !.availableAt = clock]
          [] row.status = "waiting_file" /\ desired = "failed" ->
                 [row EXCEPT !.status = "failed", !.finished = TRUE,
                             !.error = "INTAKE_STORAGE_FAILED"]
          [] OTHER -> row

\* receive_sales_import: the RECEIVING row and its job, in one transaction.
ReceiveUpload(i) ==
    /\ intake[i] = "absent"
    /\ intake' = [intake EXCEPT ![i] = "receiving"]
    /\ job' = [job EXCEPT ![i] = Enqueued(i, "receiving")]
    /\ UNCHANGED <<clock, attempt, worker>>

\* mark_received and enqueue_import, by the upload or by the reconciler.
MarkReceived(i) ==
    /\ intake[i] = "receiving"
    /\ intake' = [intake EXCEPT ![i] = "received"]
    /\ job' = [job EXCEPT ![i] = Enqueued(i, "received")]
    /\ UNCHANGED <<clock, attempt, worker>>

\* mark_failed and enqueue_import, by the reconciler.
MarkFailed(i) ==
    /\ intake[i] = "receiving"
    /\ intake' = [intake EXCEPT ![i] = "failed"]
    /\ job' = [job EXCEPT ![i] = Enqueued(i, "failed")]
    /\ UNCHANGED <<clock, attempt, worker>>

\* An issue row of any attempt of the job names an immutable conflict.
HasConflictIssue(i) ==
    \E t \in Tokens : attempt[t].job = i /\ attempt[t].conflict

\* Mutant: only the error code of the job is looked at, not its issues.
RetryableByErrorCode(i) ==
    /\ job[i].status \in {"failed", "rejected"}
    /\ intake[i] = "received"
    /\ i \in CsvImports
    /\ ~(job[i].status = "rejected" /\ job[i].error = "SOURCE_RECORD_CONFLICT")

\* What requeue_job requires of a job and its intake.
Retryable(i) ==
    /\ job[i].status \in {"failed", "rejected"}
    /\ intake[i] = "received"
    /\ i \in CsvImports
    /\ ~ /\ job[i].status = "rejected"
         /\ job[i].error = "SOURCE_RECORD_CONFLICT" \/ HasConflictIssue(i)

\* Mutant: the limit is checked before the new attempt is added.
RequeuedPastLimit(row, maxAttempts) ==
    [ClearedLease(row) EXCEPT !.status = "queued", !.availableAt = clock,
                              !.maxAttempts = maxAttempts + 1,
                              !.finished = FALSE, !.error = ""]

\* Mutant: a retry starts to count from the beginning.
RequeuedFromScratch(row, maxAttempts) ==
    [ClearedLease(row) EXCEPT !.status = "queued", !.availableAt = clock,
                              !.attemptCount = 0, !.maxAttempts = maxAttempts,
                              !.finished = FALSE, !.error = ""]

\* The row of a job an operator sends back, with a larger budget.
Requeued(row, maxAttempts) ==
    [ClearedLease(row) EXCEPT !.status = "queued", !.availableAt = clock,
                              !.maxAttempts = maxAttempts, !.finished = FALSE,
                              !.error = ""]

\* requeue_job, by the operator's retry_sales_import command.
RequeueJob(i, additional) ==
    LET new == additional + MaxOf(job[i].maxAttempts, job[i].attemptCount)
    IN  /\ ~RowLocked(i)
        /\ Retryable(i)
        /\ new <= AttemptLimit
        /\ job' = [job EXCEPT ![i] = Requeued(job[i], new)]
        /\ UNCHANGED <<clock, intake, attempt, worker>>

-----------------------------------------------------------------------------
(***************************************************************************)
(* claim_next_job: capture the time, sweep exhausted jobs in a transaction *)
(* of its own, then claim one job in another.                              *)
(***************************************************************************)

StartClaim(w) ==
    /\ worker[w].pc = "idle"
    /\ worker' = [worker EXCEPT ![w].pc = "claiming", ![w].now = clock]
    /\ UNCHANGED <<clock, intake, job, attempt>>

\* _mark_exhausted_batch: the first jobs in order, at most a batch of them.
MarkExhaustedBatch(w) ==
    LET all == Exhausted(worker[w].now) IN
    /\ worker[w].pc = "claiming"
    /\ \E batch \in SUBSET all :
         /\ Cardinality(batch) = MinOf(CleanupBatchSize, Cardinality(all))
         /\ \A i \in batch, k \in all \ batch : Precedes(i, k)
         /\ attempt' = ExpireAttempts(batch)
         /\ job' = [i \in Imports |->
                      IF i \in batch
                      THEN Finished(job[i], "failed", "ATTEMPT_LIMIT_EXHAUSTED")
                      ELSE job[i]]
    /\ worker' = [worker EXCEPT ![w].pc = "swept"]
    /\ UNCHANGED <<clock, intake>>

\* The attempt row a claim creates, and the job row it leaves.
NewAttempt(i, n) ==
    [job |-> i, number |-> n, outcome |-> "running", phase |-> "claimed",
     conflict |-> FALSE]

LeasedTo(row, t, now) ==
    [row EXCEPT !.status = "processing", !.attemptCount = row.attemptCount + 1,
                !.token = t, !.leaseExpiresAt = now + LeaseDuration,
                !.finished = FALSE, !.error = ""]

\* The second transaction of claim_next_job.
ClaimJob(w) ==
    LET now == worker[w].now IN
    /\ worker[w].pc = "swept"
    /\ \E i \in Claimable(now), t \in Tokens :
         /\ \A k \in Claimable(now) : Precedes(i, k)
         /\ attempt[t].outcome = "unissued"
         /\ attempt' = [ExpireAttempts({i}) EXCEPT ![t] =
                          NewAttempt(i, job[i].attemptCount + 1)]
         /\ job' = [job EXCEPT ![i] = LeasedTo(job[i], t, now)]
         /\ worker' = [worker EXCEPT ![w] =
                         [pc |-> "running", job |-> i, token |-> t, now |-> 0]]
    /\ UNCHANGED <<clock, intake>>

NothingToClaim(w) ==
    /\ worker[w].pc = "swept"
    /\ Claimable(worker[w].now) = {}
    /\ worker' = [worker EXCEPT ![w] = Idle]
    /\ UNCHANGED <<clock, intake, job, attempt>>

-----------------------------------------------------------------------------
(***************************************************************************)
(* The calls process_claim makes while its worker holds a claim: each      *)
(* starts a transaction (BeginCall), then runs its body or finds that the  *)
(* claim is no longer its own (ClaimLost).  Only its own worker writes the *)
(* phase of an attempt, so the phase also tells how far process_claim has  *)
(* come and which calls may follow.                                        *)
(***************************************************************************)

BeginCall(w) ==
    /\ worker[w].pc = "running"
    /\ worker' = [worker EXCEPT ![w].pc = "begun", ![w].now = clock]
    /\ UNCHANGED <<clock, intake, job, attempt>>

\* SalesImportClaimLost ends the worker's command.
ClaimLost(w) ==
    /\ worker[w].pc = "begun"
    /\ ~HoldsLiveClaim(w)
    /\ worker' = [worker EXCEPT ![w] = Idle]
    /\ UNCHANGED <<clock, intake, job, attempt>>

Fenced(w) == worker[w].pc = "begun" /\ HoldsLiveClaim(w)

PhaseOf(w) == attempt[worker[w].token].phase

\* The call returned and the worker goes on with its claim.
Return(w) == worker' = [worker EXCEPT ![w].pc = "running", ![w].now = 0]

\* Mutant: a renewal asks for less than the claim did.
ShorterLease(w) == worker[w].now + LeaseDuration - 1

RenewedLease(w) == worker[w].now + LeaseDuration

\* heartbeat_job
HeartbeatJob(w) ==
    /\ Fenced(w)
    /\ job' = [job EXCEPT ![worker[w].job].leaseExpiresAt = RenewedLease(w)]
    /\ Return(w)
    /\ UNCHANGED <<clock, intake, attempt>>

\* advance_attempt_phase: process_claim calls it once and first, with DOWNLOAD.
AdvanceAttemptPhase(w) ==
    /\ Fenced(w)
    /\ PhaseOf(w) = "claimed"
    /\ attempt' = [attempt EXCEPT ![worker[w].token].phase = "download"]
    /\ Return(w)
    /\ UNCHANGED <<clock, intake, job>>

\* processing._record_parse_batch: rows and issues, the phase, a new lease.
RecordParseBatch(w) ==
    /\ Fenced(w)
    /\ PhaseOf(w) \in {"download", "parse"}
    /\ job' = [job EXCEPT ![worker[w].job].leaseExpiresAt = RenewedLease(w)]
    /\ attempt' = [attempt EXCEPT ![worker[w].token].phase = "parse"]
    /\ Return(w)
    /\ UNCHANGED <<clock, intake>>

\* The row of a job that waits for its next attempt.
Waiting(row, until) ==
    [ClearedLease(row) EXCEPT !.status = "retry_wait", !.availableAt = until,
                              !.finished = FALSE, !.error = "other"]

\* schedule_retry
ScheduleRetry(w) ==
    LET i   == worker[w].job
        row == job[i]
    IN  /\ Fenced(w)
        /\ attempt' = [attempt EXCEPT ![worker[w].token].outcome =
                                        "retryable_failure"]
        /\ job' = [job EXCEPT ![i] =
                     IF BudgetSpent(row)
                     THEN Finished(row, "failed", "other")
                     ELSE Waiting(row, worker[w].now
                                         + RetryDelay(row.attemptCount))]
        /\ worker' = [worker EXCEPT ![w] = Idle]
        /\ UNCHANGED <<clock, intake>>

FinishedAttempt(row, status, phase, conflict) ==
    [row EXCEPT !.outcome = TerminalOutcome[status], !.phase = phase,
                !.conflict = row.conflict \/ conflict]

\* The two rows after complete_job or _finish_locked_job.
FinishRows(w, status, phase, error, conflict) ==
    LET i == worker[w].job
        t == worker[w].token
    IN  /\ job' = [job EXCEPT ![i] = Finished(job[i], status, error)]
        /\ attempt' = [attempt EXCEPT ![t] =
                         FinishedAttempt(attempt[t], status, phase, conflict)]
        /\ worker' = [worker EXCEPT ![w] = Idle]

\* The statuses process_claim passes to complete_job, each with the phase it is
\* in by then: storage trouble while downloading, or a file the parser refused.
CompletedFrom == [failed |-> "download", rejected |-> "parse"]

\* complete_job
CompleteJob(w, status) ==
    /\ Fenced(w)
    /\ PhaseOf(w) = CompletedFrom[status]
    /\ FinishRows(w, status, PhaseOf(w), "other", FALSE)
    /\ UNCHANGED <<clock, intake>>

\* Mutant: the file has failed and its job is rejected, not failed.
RejectStoredObjectFailure(w) ==
    /\ Fenced(w)
    /\ PhaseOf(w) = "download"
    /\ intake[worker[w].job] = "received"
    /\ intake' = [intake EXCEPT ![worker[w].job] = "failed"]
    /\ FinishRows(w, "rejected", "download", "other", FALSE)
    /\ UNCHANGED clock

\* _complete_stored_object_failure: the intake row fails with the claim.
CompleteStoredObjectFailure(w) ==
    /\ Fenced(w)
    /\ PhaseOf(w) = "download"
    /\ intake[worker[w].job] = "received"
    /\ intake' = [intake EXCEPT ![worker[w].job] = "failed"]
    /\ FinishRows(w, "failed", "download", "other", FALSE)
    /\ UNCHANGED clock

-----------------------------------------------------------------------------
(***************************************************************************)
(* The publication transaction: _publish_once fences itself once and then  *)
(* keeps the row lock, however long it runs, until it commits.             *)
(***************************************************************************)

LockForPublication(w) ==
    /\ Fenced(w)
    /\ PhaseOf(w) = "parse"
    /\ worker' = [worker EXCEPT ![w].pc = "locked", ![w].now = 0]
    /\ UNCHANGED <<clock, intake, job, attempt>>

FinishPublished(w) ==
    /\ worker[w].pc = "locked"
    /\ FinishRows(w, "published", "complete", "", FALSE)
    /\ UNCHANGED <<clock, intake>>

\* Database-backed validation found issues.  A conflict with a published fact is
\* one of them, and is stored unless the issue limit was reached before it.
FinishInvalid(w, conflict) ==
    /\ worker[w].pc = "locked"
    /\ FinishRows(w, "rejected", "validate", "other", conflict)
    /\ UNCHANGED <<clock, intake>>

\* _PublicationRejected: the conflict shows up while facts are linked.
FinishConflicting(w, conflict) ==
    /\ worker[w].pc = "locked"
    /\ FinishRows(w, "rejected", "publish", "SOURCE_RECORD_CONFLICT", conflict)
    /\ UNCHANGED <<clock, intake>>

\* A database error undoes the transaction and the worker handles it.
RollbackPublication(w) ==
    /\ worker[w].pc = "locked"
    /\ Return(w)
    /\ UNCHANGED <<clock, intake, job, attempt>>

\* The process dies or its command ends; PostgreSQL rolls back and unlocks.
Crash(w) ==
    /\ worker[w].pc # "idle"
    /\ worker' = [worker EXCEPT ![w] = Idle]
    /\ UNCHANGED <<clock, intake, job, attempt>>

-----------------------------------------------------------------------------
IntakeStep(i) ==
    \/ ReceiveUpload(i)
    \/ MarkReceived(i)
    \/ MarkFailed(i)

ClaimStep(w) ==
    \/ StartClaim(w)
    \/ MarkExhaustedBatch(w)
    \/ ClaimJob(w)
    \/ NothingToClaim(w)

LeaseStep(w) ==
    \/ BeginCall(w)
    \/ ClaimLost(w)
    \/ HeartbeatJob(w)
    \/ AdvanceAttemptPhase(w)
    \/ RecordParseBatch(w)
    \/ ScheduleRetry(w)
    \/ \E status \in DOMAIN CompletedFrom : CompleteJob(w, status)
    \/ CompleteStoredObjectFailure(w)

PublicationStep(w) ==
    \/ LockForPublication(w)
    \/ FinishPublished(w)
    \/ \E conflict \in BOOLEAN : FinishInvalid(w, conflict)
    \/ \E conflict \in BOOLEAN : FinishConflicting(w, conflict)
    \/ RollbackPublication(w)

WorkerStep(w) ==
    \/ ClaimStep(w)
    \/ LeaseStep(w)
    \/ PublicationStep(w)
    \/ Crash(w)

Next ==
    \/ Tick
    \/ \E i \in Imports : IntakeStep(i)
    \/ \E i \in Imports, additional \in 1..AttemptLimit : RequeueJob(i, additional)
    \/ \E w \in Workers : WorkerStep(w)

Spec == Init /\ [][Next]_vars

-----------------------------------------------------------------------------
(***************************************************************************)
(* What the queue promises.                                                *)
(***************************************************************************)

JobRow ==
    [status : JobStatuses, availableAt : Nat, attemptCount : Nat,
     maxAttempts : 1..AttemptLimit, token : Tokens \cup {NoToken},
     leaseExpiresAt : Nat, finished : BOOLEAN, error : ErrorCodes]

AttemptRow ==
    [job : Imports \cup {NoImport}, number : Nat, outcome : Outcomes,
     phase : Phases, conflict : BOOLEAN]

WorkerState ==
    [pc : {"idle", "claiming", "swept", "running", "begun", "locked"},
     job : Imports \cup {NoImport}, token : Tokens \cup {NoToken}, now : Nat]

\* Every row and every worker record has its type.
TypeOK ==
    /\ clock \in Nat
    /\ intake \in [Imports -> IntakeStatuses]
    /\ job \in [Imports -> JobRow]
    /\ attempt \in [Tokens -> AttemptRow]
    /\ worker \in [Workers -> WorkerState]

\* A job is being processed exactly when one running attempt carries its lease
\* token, and no other job has a running attempt.  This is what makes the
\* SalesImportQueueStateError branches of _finish_expired_attempt and
\* _locked_live_claim unreachable.
RunningAttemptOwnsJob ==
    \A i \in Imports :
        RunningAttempts(i) =
            IF job[i].status = "processing" THEN {job[i].token} ELSE {}

\* attempt_count counts the attempt rows: they are numbered 1..attempt_count,
\* none skipped, none twice, and never exceed the budget of the job.
AttemptHistory ==
    \A i \in Imports :
        LET mine == {t \in Tokens : attempt[t].job = i}
        IN  /\ {attempt[t].number : t \in mine} = 1..job[i].attemptCount
            /\ \A s, t \in mine : attempt[s].number = attempt[t].number => s = t
            /\ job[i].attemptCount <= job[i].maxAttempts

\* Work that waits for a worker always has an attempt left, so the sweep of
\* claim_next_job only ever fails jobs whose last lease expired, and it is due
\* within the longest delay, however often it was tried before.
WaitingWorkHasBudget ==
    \A i \in Imports :
        job[i].status \in {"queued", "retry_wait"} =>
            /\ job[i].attemptCount < job[i].maxAttempts
            /\ job[i].availableAt <= clock + RetryMaxDelay

\* Intake row and job row agree although they are changed by uploads,
\* reconcilers, operators and workers: only a received CSV is ever worked on,
\* and a file that failed has a failed job.
IntakeAgreesWithJob ==
    \A i \in Imports :
        /\ intake[i] = "absent" <=> job[i].status = "absent"
        /\ intake[i] = "receiving" <=> job[i].status = "waiting_file"
        /\ intake[i] = "failed" => job[i].status = "failed"
        /\ job[i].status = "awaiting_parser" => i \notin CsvImports
        /\ job[i].status \in {"queued", "processing", "retry_wait", "published"} =>
               i \in CsvImports

\* A publication that passed its fence still owns its job at commit, even if
\* the lease ran out while it was open: its row lock keeps everyone else off.
PublicationOwnsJob ==
    \A w \in Workers :
        worker[w].pc = "locked" =>
            /\ job[worker[w].job].status = "processing"
            /\ job[worker[w].job].token = worker[w].token

\* No two workers ever present the same lease token.
TokensNotShared ==
    \A v, w \in Workers :
        worker[v].token = worker[w].token /\ worker[v].token # NoToken => v = w

\* What every step preserves and what makes the fence sound: leases, attempts
\* and the claims workers hold refer to one another, one to one.
ClaimsAreIssued ==
    \A w \in Workers :
        IF worker[w].pc \in {"running", "begun", "locked"}
        THEN /\ worker[w].job \in Imports
             /\ worker[w].token \in Tokens
             /\ attempt[worker[w].token].job = worker[w].job
             /\ attempt[worker[w].token].outcome # "unissued"
        ELSE worker[w].job = NoImport /\ worker[w].token = NoToken

RunningAttemptsAreLeased ==
    \A t \in Tokens :
        attempt[t].outcome = "running" =>
            /\ attempt[t].job \in Imports
            /\ job[attempt[t].job].status = "processing"
            /\ job[attempt[t].job].token = t

LeasesAreRunning ==
    \A i \in Imports :
        IF job[i].status = "processing"
        THEN /\ job[i].token \in Tokens
             /\ attempt[job[i].token].job = i
             /\ attempt[job[i].token].outcome = "running"
        ELSE job[i].token = NoToken

OwnershipInv ==
    /\ TypeOK
    /\ ClaimsAreIssued
    /\ RunningAttemptsAreLeased
    /\ LeasesAreRunning
    /\ TokensNotShared
    /\ PublicationOwnsJob
    /\ \A w \in Workers : worker[w].now <= clock

\* A worker whose lease was replaced or ended cannot change any row.
StaleWorkerIsPowerless ==
    [][\A w \in Workers :
         /\ worker[w].token # NoToken
         /\ job[worker[w].job].token # worker[w].token
         /\ worker'[w] # worker[w]
         => UNCHANGED <<intake, job, attempt>>]_vars

\* A running attempt is only taken from its worker when its lease has run out
\* and its job is not in the middle of a publication.
LeaseTakenOnlyAfterExpiry ==
    [][\A t \in Tokens :
         attempt[t].outcome = "running" /\ attempt'[t].outcome = "lease_expired"
         => /\ job[attempt[t].job].leaseExpiresAt <= clock
            /\ ~RowLocked(attempt[t].job)]_vars

\* While one worker keeps a job, its lease is only ever extended, although
\* each renewal uses a time that was read before it waited for the row.
LeaseNeverShrinks ==
    [][\A i \in Imports :
         job[i].status = "processing" /\ job'[i].token = job[i].token
         => job'[i].leaseExpiresAt >= job[i].leaseExpiresAt]_vars

\* Attempt rows are an audit trail: identity never changes, a finished attempt
\* never changes at all (the trigger sales_imports_protect_attempt_audit would
\* abort the transaction).
HistoryIsImmutable ==
    [][\A t \in Tokens :
         /\ attempt[t].outcome \notin {"unissued", "running"} =>
                attempt'[t] = attempt[t]
         /\ attempt[t].outcome = "running" =>
                /\ attempt'[t].job = attempt[t].job
                /\ attempt'[t].number = attempt[t].number]_vars

\* Nothing ever happens again to a published job, to the job of a failed file,
\* or to one rejected for a stored source-record conflict.
Settled(i) ==
    \/ job[i].status = "published"
    \/ intake[i] = "failed"
    \/ /\ job[i].status = "rejected"
       /\ job[i].error = "SOURCE_RECORD_CONFLICT" \/ HasConflictIssue(i)

SettledForever ==
    [][\A i \in Imports :
         Settled(i) => job'[i] = job[i] /\ intake'[i] = intake[i]]_vars
=============================================================================
