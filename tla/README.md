# Pharma-Intel: TLA+ models

Pharma-Intel is a Django and PostgreSQL application that receives sales files,
stores the originals in S3, and turns their rows into immutable sales facts.
What is hard about it is the asynchronous part: uploads, a reconciler, operators
and any number of worker processes change the same rows through short
transactions, and every one of them may be slow, die, or act on what it read
some time ago. The models here are about that part. They are written from the
Python source; paths below are relative to the repository.

## 1. The system

| Part | State | Operations | Correct when |
| --- | --- | --- | --- |
| Queue (`sales_imports/queue.py`, `models.py`) | one `SalesImportJob` per file, one `SalesImportAttempt` per lease | enqueue, claim (with a sweep of exhausted jobs), heartbeat, phase, retry, complete, requeue | one live worker per job; a worker that lost its lease changes nothing; attempts are counted and never rewritten; every job is settled |
| Processing (`sales_imports/processing.py`) | staged rows, issues, sales facts, the session lock of each source system | stage batches, wait for the lock, validate and publish in one `REPEATABLE READ` transaction, unlock | a file is published as a whole or not at all; source records are unique; links, counters and issues tell the truth |
| Intake (`sales_imports/services.py`, `reconcile_sales_imports.py`, `backfill_sales_import_kms.py`) | one `SalesImport` per upload: receiving, received, failed; the object version and KMS key it records | receive, confirm, fail, add a missing key | intake and job agree whoever decides first; one active import per file; what is recorded is what was uploaded, and is never replaced; every upload is decided |
| Object storage client (`sales_imports/storage.py`) | none (S3 keeps the bytes) | store, verify, discover a key, open a version | an answer that was lost or late never makes a wrong version the recorded one |
| CSV contract (`sales_imports/contracts.py`) | row count and ids seen of one file | validate the header and each row | what passes can be stored; rows keep the numbers of their lines; no row is lost |
| Sales facts (`business_data/models.py`) | `SalesTransaction` rows, immutable | insert (only by workers: the admin is read-only) | one fact per source record, made of valid columns |
| Reporting calendar (`business_data/calendar.py`, `populate_calendar.py`, SQL in its migrations) | `CalendarDate` rows | populate whole years | Python and SQL derive the same rows; each run's report is true |
| Master data (`master_data/`) | identities with a level or an `is_active`, dated assignments between them | create, end, switch off | one parent, territory, primary per day; parents stand above children; history is kept |
| Upload UI, admin lists, accounts, settings, templates, scripts, Terraform | configuration | forms, lists | no protocol |

How they interact. An upload commits an intake row and its job in one
transaction, calls S3 outside any transaction, and confirms both in another. The
reconciler may decide the same intake meanwhile. Workers poll: `claim_next_job`
takes one due job with `FOR UPDATE SKIP LOCKED`, gives it a fresh lease token and
an expiry, and `process_claim` presents the token with every further call
(`_locked_live_claim`, the fence). The publication transaction is the only long
one; it holds the row lock of its job, under a session-level advisory lock that
serializes the imports of one source system. Operators send finished jobs back
(`requeue_job`). Administrators edit master data and populate the calendar in
transactions of their own; a publication sees what was committed when its
snapshot was taken.

The hazards these parts are exposed to are listed in `PROJECT.json`, each at its
line and with the properties that would catch it.

## 2. Modules

### SalesImportQueue — leases, attempts, budget

State: `clock` (PostgreSQL's), `intake` (status of each upload), `job` (job rows),
`attempt` (attempt rows, by lease token), `worker` (what each process is doing).

* Every queue transaction reads `CURRENT_TIMESTAMP`, the time it *started*, and
  then waits for a row lock. A worker's call is therefore two steps: `BeginCall`
  (or `StartClaim`) captures `now`; the body runs later, when `clock` and the rows
  may have moved. The body is one step because it holds the row lock from its
  first statement to its commit.
* `claim_next_job` is three steps, as in the code: capture the time,
  `MarkExhaustedBatch` in a transaction of its own, `ClaimJob` (or
  `NothingToClaim`) in another, both with the captured time.
* `HoldsLiveClaim` is the fence. `HeartbeatJob`, `AdvanceAttemptPhase`,
  `RecordParseBatch`, `ScheduleRetry`, `CompleteJob` and
  `CompleteStoredObjectFailure` are the fenced calls; `ClaimLost` is the exception
  they raise otherwise. The phase stored in the attempt tells which of them
  `process_claim` may still make.
* `LockForPublication` opens the publication transaction (`pc = "locked"`), which
  ends in `FinishPublished`, `FinishInvalid`, `FinishConflicting` or
  `RollbackPublication`. `RowLocked` is what `SKIP LOCKED` passes over.
* `Crash` returns a worker to idle from anywhere; its lease stays behind. `Return`
  ends a successful call.
* `Enqueued` is `enqueue_import`, always inside the transaction that changes the
  intake (`ReceiveUpload`, `MarkReceived`, `MarkFailed`); `RequeueJob` is the
  operator's retry.

Left out: row counters and diagnostics (worker names, messages, `heartbeat_at`),
which the queue never reads to decide anything, and `cancelled`, which no code
outside the tests assigns.

### LeasedWork and SalesImportQueueRefinement — what the queue promises

`LeasedWork` is the abstract specification, without tokens, rows or clocks: items
of work are held by at most one worker; only the holder answers; an item may be
taken from its holder at any time except while it is sealed for publication; each
holding costs one attempt of a budget; what is published stays published.
`SalesImportQueueRefinement` maps the queue onto it (`ItemState`, `Holder`; sealed
= row locked) and states `ImplementsLeasedWork`. `SalesImportPublicationRefinement`
does the same for the next module, which begins with jobs that intake has released
(`Released`): there the holder is the worker whose attempt is the one of the row.

### SalesImportQueueLive — liveness

The same actions, plus `Elapse`, with which time passes for ever: the clock stands
still and all stored times move into the past instead, which the queue cannot
tell apart since it only compares times.

### SalesImportPublication and IssueCollector — from rows to facts

State: the `file` of each job, `pooled` (below), `facts`, master data that is `missing` at the
moment, `job`, `staged` rows, `issues`, the sessions that are `holders` of each
source lock, `worker`, and one history variable (`conflicted`, which no action
reads).

Claims are those of `LeasedWork`: a job may be taken from its worker at any time
unless an open publication locks its row, and every call is fenced by its attempt
(`Owns`). That the real queue behaves so is what `ImplementsLeasedWork` says, so
leases and clocks need not appear here again; that publication adds nothing to it
is what `ImplementsLeasedWork` of `SalesImportPublicationRefinement` says.

* `StageChunk`, `StageRest`, `RejectFile`: `_stage_csv` with `_record_parse_batch`
  for every full chunk and for the rest.
* `AcquireSourceLock` ... `UnlockSource`: `_source_session_lock`.
* `BeginPublication` takes the snapshot, `ValidateChunk` and `LinkChunk` work
  through the staged rows chunk by chunk, `FinishInvalid` and `FinishPublished`
  commit. What a transaction wrote is in `worker[w].tx` until then. An insert waits
  for another open transaction with the same key (`InsertWaits`), and is refused
  once that committed (`InsertRefused`), which `UniqueViolation` answers with one
  repetition.
* `RetryableError`, `ScheduleRetry`, `ClaimLost`, `Crash`: how it goes wrong.
* `pooled` is chosen at the start: under a transaction pooler, which
  `docs/sales-import-processing.md:98` rules out, session locks exclude nobody.
  Source records must stay unique all the same.
* `NewFacts` and `NewLinks` are what one chunk of the linking loop inserts and links.
* `IssueCollector` holds the operators of `_IssueCollector`: `Added` is what its calls
  of `add` for all issues of one row leave behind, counted with the set of places
  that hold a fresh issue (`Fresh`) and the order of those places (`InOrder`) in
  place of a loop.

A row is `[id, value, ref, clean]`: its key, all that `_fact_matches` compares, the
master data it depends on, and whether it satisfies the CSV contract.

### SalesRowsContract and SalesImportFile — from bytes to staged rows

`SalesRowsContract` has the rules of one row as operators, in the order of the
code: `RowIssues` (the validator), `DatabaseIssues` (dimensions and existing
facts) and `StorableRow` (what the column types and CHECK constraints accept). A
cell is what the rules see of its text: its length and whether it has control
characters, or the sign, digits and places of a decimal.

`SalesImportFile` reads one file with them. State: `header`, `pc`, `line`,
`rowCount`, `seen`, `progress`, `collector`, `pending`, and what is in the database:
`staged`, `issues`, `job`. The file is not chosen in advance; at each line
`ReadBlank`, `ReadRagged`, `ReadRecord`, `ReadBroken` or `EndOfFile` may follow, and
a record takes one or two physical lines. Of the header the model keeps which of
the checks of `validate_sales_headers` fail and how long the names are that the
message lists (`HeaderMessage`): `RejectHeader` stores a message that fits its column,
`HeaderRefused`, `ScheduleRetry` and `ClaimAgain` are what comes of one that does not.
Every other message has a text of the code's own, of at most `Wording`
characters. `Yield` and `EndWithError` are the body
and the handlers of the loop of `_stage_csv`, `RecordBatch` what
`_record_parse_batch` stores. `ValidateRow`, `FinishInvalid`, `FinishPublished` and
`RejectFile` are the database's part of the attempt, with any answer of the
database for each row; rows are validated one by one, and a row that `EndsChunk`
stores the issues of its chunk. Other workers are the business of
`SalesImportPublication`, whose rows are only `clean` or not.

### SalesImportIntake and SalesImportIntakeRefinement — from upload to stored original

State: `row` (intake rows with status, file, key, version, failure code), `job`
(status and error), `bucket` (the object versions under each import's key), `late`
(writes whose client gave up), and what each `request`, `reconciler` run and
`operator` remembers between two transactions.

* `Submit`, `EnqueueExisting`, `Create`, `CreateRefused`, `LookAgain`: the duplicate
  lookup, which holds no lock, the unique index, and the second lookup.
* `PutLands`, `PutAnswered`, `PutFails`, `VerifySucceeds`, `VerifyFails`: `store`.
  boto3 may store the bytes more than once; a failed call may still land later
  (`LateWriteLands`).
* `Confirm`, `ConfirmRefused`, `Respond`, `RequestDies`: the second transaction, or
  the RuntimeError when somebody else decided the import.
* `StartRun` reads the batch of a reconciler run; `Inspect` asks S3 about the newest
  version, `Defer` is an answer that decides nothing, `Reconcile` and
  `ReconcileRefused` are the transaction that follows.
* `StartBackfill`, `Discover`, `RecordKey`, `BackfillFails`: the backfill of rows of
  the older release (`Legacy`), which `Init` puts into the tables.
* `WorkerPublishes`, `WorkerFails`, `WorkerRefusesObject`, `Requeue` stand for all of
  `SalesImportQueue` that happens to a job after it was queued. `ForeignWrite` and
  `VersionVanishes` are what other clients of the bucket may do.

`ValidObject` is `_validate_stored_object`: `good` stands for the bytes, the size and
the metadata, which are those of one import or are not; the key is compared. The
grace period is no clock: an upload of any age may be in a batch, unless
`GraceCoversUploads` says that none outlives the grace period.

`SalesImportIntakeRefinement` maps the rows onto those of `SalesImportQueue` and
states `ImplementsQueueIntake`: the one-step intake actions that the queue assumes
are all that ever happens to them. In the queue the format belongs to the import
from the start, here to the file that is uploaded; so the queue is instantiated with
a set of CSV imports as a parameter (`Queue(Csv)`), and a step must be an intake
action for every such set that agrees with the files known so far (`Formats`).

### LockOrder — who waits for whom

State: the `task` of each connection, the locks it has still to take (`todo`), the
jobs its claim may still look at (`ahead`), and the `holder` of each lock. Every
transaction of the pipeline is a set of locks (`Program`) taken in an order
(`Position`): intake before job before attempt, but for `claim_next_job` and
`requeue_job`, whose `select_related` locks the job and then the joined intake.
Claim and sweep pass over what is locked (`Skips`, `PassOver`), a claim keeping the
job lock it has already taken when only the intake was locked (`LookFurther`).
The source lock is polled without row locks and with a deadline (`GiveUp`).
`Victim` is PostgreSQL ending a deadlock, `Abort` any other failure. What the
transactions do under their locks is left to the other modules.

### ReportingCalendar — one row, derived twice

A date is its ordinal; `DaysBefore` is the table of days before a month that both
calendars share. `PythonRow` is `build_calendar_date` with Python's ISO weeks
(the year of a week's Thursday), `SqlRow` the trigger with PostgreSQL's (weeks
counted from the fourth of January), `Accepted` the CHECK constraints and
`Representable` the range of Python dates. State: the committed `calendar` and each
`command`, which goes through `Start`, `Lock`, `Populate` (one batch), `Verify` and
`Commit`, or is aborted. `ON CONFLICT DO NOTHING` waits for another transaction's
row (`BatchWaits`).

### MasterDataAssignments — dated assignments

State: `assigned` (the committed assignments of all five kinds), `level` and `active`
of the participants, the `session` of each administrator, and a `publication`. A
form checks its input against what is committed (`SubmitNew`, `SubmitEdit`), later
the statement runs (`Write`: wait for conflicting transactions, read the levels,
apply the exclusion constraints) and later still it commits. `SaveRecord` saves an
identity, with its activation and, for a territory, its level. `BeginPublication`
takes a snapshot, `LookUp` answers for a whole chunk with the one query of
`_effective_assignment_ids`, whose result is `Loaded`.

An assignment has no id: while a territory or pair has one assignment per day, its
relation and first day identify it (`Identity`), and the forms leave both alone.

## 3. Runs

| Run | Instance | Shows |
| --- | --- | --- |
| `queue_leases` | 1 job, 2 workers, 3 leases, budget 2 to 3, lease 2, clock 0..4 | all safety and action properties of the queue |
| `queue_liveness` | 1 job, a supervised and an abandoned worker, 2 leases | every upload settles |
| `queue_refinement` | 3 jobs (one XLSX), 2 workers, 2 leases, batch of 1 | the queue implements `LeasedWork`, with several due jobs, `SKIP LOCKED`, the sweep and a file that is no CSV |
| `publication` | 2 imports of one source, one with 1 row, the other with 1 or 2 or refused by the contract, 2 workers, budget 1 to 2, one row per chunk, 3 issues, with and without a pooler | whole files, serialized, counted and linked right; without a lock, source records are still unique and links right; publication implements `LeasedWork` |
| `conflict_beyond_the_limit` | 2 imports of one source, a conflict in the second row of one, 2 issues | finding 1 (violation) |
| `intake` | 1 old import of either of 2 files and 1 new one, 2 web processes, 1 reconciler, 2 versions per key, no grace | answers are true; every upload of this release is decided |
| `intake_legacy` | 1 old and 1 new import, 2 files (one XLSX), 2 keys, 2 operators, grace covers uploads | keys recorded once and right; jobs agree with the intake; no stored upload refused; the intake does what `SalesImportQueue` assumes, for both formats |
| `legacy_upload_stuck` | 1 old import, 1 web process, 1 operator | finding 2 (violation) |
| `row_contract` | all headers with names of 974 to 977 characters, files of up to 3 records on 5 lines, 41 different records, 7 answers of the database, chunks of 2, 3 rows, 3 issues, 2 attempts | no write but that of an over-long header is refused; no row is lost; issues are stored or announced |
| `calendar` | 2 executions, 10 ranges of years (two refused for a year, one for its order, one for its length), batches of 200 days | a valid run never fails; reports are true |
| `master_data` | 2 administrators, 2 territories, 5 relations of 3 kinds, 2 days and ongoing, 2 assignments | constraints, levels, history and lookups |
| `lock_order` | 2 workers, 1 client, 2 imports of one source | deadlocks need `requeue_job`; every transaction ends |

Why the bounds are enough. The fence needs two workers and a job that is leased
again after its lease ran out: two leases for a theft, a third for what the thief
leaves. `MaxClock = 4` with leases of 2 lets a lease be taken, renewed with a stale
time, run out and be replaced. A budget of 2 that an operator can raise to 3 covers
a retry, exhaustion, a requeue and the limit. Two claims of a two-row file with one
row per chunk cover a publication that fails half way, two publications in any
order, an insert that waits and one that is refused. An import of the older
release and a new one let a file be refused and uploaded again, or, with two files,
stand in one batch of the reconciler; two versions under a key are a repeated or
late write, or a foreign one above or below it. In `intake` the users submit one of
the files only (`Submitted`), and neither is CSV: what workers do after the decision
touches neither of its properties and is in `intake_legacy`, as the operators are.
`Tokens` bounds the claims of a run, `MaxVersions` the writes under a key,
`Imports` the uploads, `MaxClock` the clock, `AttemptLimit` the budget: each is a
guard of the model. Workers are symmetric wherever no liveness property is checked,
and so are tokens.

Three records are one full batch of two and a rest, one row more than the row
limit allows, and more issues than the issue limit. The cells of `AllRecords` lie
on both sides of every limit of the contract, one column at a time, since no rule
but the sign rule, which is varied in pairs, looks at two columns. Two
executions of `populate_calendar` for the same or overlapping years are a race;
the years are the first, the last, leap and common ones, centuries of both kinds,
and 2020, which has 53 ISO weeks. Two territories are enough for an
assignment whose level changes before it commits, two days for periods that touch,
overlap or contain one another. `Switched` and `MaxAssignments` bound what is switched
off and stored. In `lock_order` a circle of two waiting processes with a third one
beside it is the smallest deadlock and the smallest starvation; the theorem covers
any number. `MaxLine` bounds the file, `BatchSize` is smaller than the code's 1000 so
that a year takes two batches.

The deadlock check is off in `row_contract`, where a finished attempt has nothing
left to do, and in `calendar`, where every execution ends. In the other runs idle
workers can always poll and administrators always save.

### Fairness

`LiveSpec` assumes what the deployment documents ask for
(`docs/sales-import-processing.md`, "Operation"):

* the reconciler is scheduled again and again and decides each upload
  (`ReconcilerRuns`; S3 answers in the end);
* the `Reliable` workers are restarted by a supervisor and do not die between the
  two claiming transactions every single time (`ReliableWorkersClaim`); other
  workers need not run at all;
* an attempt of any worker that keeps running ends, since its file, its rows and
  the wait for the source lock are bounded (`AttemptsEnd`; strong fairness, since a
  crash or a lost claim may interrupt it), and a publication commits or breaks;
* a call that read the clock runs or dies (`CallsRun`): a worker may hang between
  calls, holding its lease, but not for ever inside a database call;
* time passes (`TimePasses`).

`LiveSpec` of `SalesImportIntake` spells out the first of these: runs of the
reconciler start again and again, their cutoff reaches every row in the end since
rows grow older (`StartRun` with the last import), and it does not happen for ever
that a run dies, or finds S3 away, exactly when the turn of one import comes, or of
an older one in the same batch (`ReconcilerReaches`, strong fairness for each import
and each one served before it). `LiveSpec` asks it only for imports of this release;
`AssistedSpec`, of the violation run only, asks it for all, and adds operators who try
the backfill again and again.

`LiveSpec` of `LockOrder`: a lock that is released again and again is granted in
the end, since PostgreSQL queues those who wait (strong fairness of `Acquire`); a
transaction that has its locks goes on, and a poll reaches its deadline. Nothing is
asked of PostgreSQL's deadlock detection: `TransactionsEnd` says that without
`requeue_job` it is not needed.

Otherwise no fairness is assumed of operators, of uploads, or of a worker between
two calls.

## 4. Proofs

The theorems hold for every value of the constants that the ASSUMEs of the
modules admit, and TLC evaluates those on every run. Nothing else is taken on
trust. Each proof has the same outline: an inductive invariant, checked by TLC on
the instances above before it was proved; one step per action that it is kept; then
the properties as its consequences.

### Queue: `SalesImportQueueProofs`

| Theorem | Statement |
| --- | --- |
| `TypeCorrect` | `Spec => []TypeOK` |
| `OwnershipInvariant` | `Spec => []OwnershipInv`, inductive |
| `OneRunningAttempt` | `Spec => []RunningAttemptOwnsJob` |
| `PublicationKeepsJob` | `Spec => []PublicationOwnsJob` |
| `TokensAreExclusive` | `Spec => []TokensNotShared` |
| `Fencing` | `Spec => StaleWorkerIsPowerless` |
| `AuditTrail` | `Spec => HistoryIsImmutable` |
| `NoTheft` | `Spec => LeaseTakenOnlyAfterExpiry` |
| `HistoryInvariant` | `Spec => []HistoryInv`, inductive |
| `AttemptsAreNumbered` | `Spec => []AttemptHistory` |
| `WaitingWorkCanBeDone` | `Spec => []WaitingWorkHasBudget` |
| `IntakeAndJobAgree` | `Spec => []IntakeAgreesWithJob` |
| `LeasesOnlyGrow` | `Spec => LeaseNeverShrinks` |
| `SettledStays` | `Spec => SettledForever` |

`RunningAttemptOwnsJob` is not inductive: a step that finishes an
attempt must know that the token a worker presents is that of the row, that no
other attempt of the job is running, and that a lease is only replaced when no
publication is open. `OwnershipInv` adds this: what a worker believes refers to an
attempt that was issued (`ClaimsAreIssued`), running attempts and leased jobs refer
to one another (`RunningAttemptsAreLeased`, `LeasesAreRunning`), no two workers
carry one token, an open publication owns its job, and no captured time lies in
the future, which is why a lease that ran out by a captured time really has. Small
lemmas first state what each operator that builds a row does to it.

`HistoryInv` is about what the rows have gone through. To number attempts without
gaps one must know that an unissued token names no job (`UnissuedTokensAreFree`) and
that a job that never waited for a worker was never tried (`NewJobsAreUntried`). A
heartbeat writes an expiry that was computed from a time captured earlier; that it
shortens no lease needs `LeasesFollowClocks`: while a worker's token is that of the
row, nobody has leased the job from a later time than the worker's own. The
actions are first sorted by what they do to one job (`SweptBy`, `ClaimedBy`,
`RenewedBy`, `PostponedBy`, `EndedBy`, the operator and the intake), so that each
property has a handful of cases and not one per action.

Assumed: tokens are never issued twice (`uuid4`), `NoToken` and `NoImport` are no
token and no import, durations are positive, the first budget is within the column's
range.

The same module proves `QueueImplementsLeasedWork`
(`Spec => ImplementsLeasedWork`). A worker holds the job whose row still carries its
token. `HoldersKnown` says that `Holder` names exactly that worker, or nobody, and
`HoldersOwn` that a worker which has its row locked is the holder; both follow from
`HistoryInv`. Then the initial states map to initial states, and each action
maps to an action of `LeasedWork` or to a stutter. The sweep of a batch of exhausted
jobs is one step of `LeasedWork`, which lets any set of items be taken at once.

### Publication: `SalesImportPublicationProofs`

| Theorem | Statement |
| --- | --- |
| `PublicationInvariant` | `Spec => []PublicationInv`, inductive |
| `TypeCorrect` | `Spec => []TypeOK` |
| `FactsHaveOneKey` | `Spec => []SourceRecordsUnique` |
| `PublicationIsAtomic` | `Spec => []PublishedAsAWhole` |
| `CountersAreExact` | `Spec => []CountsAddUp` |
| `LinksAreTrue` | `Spec => []LinksAreRight` |
| `ConflictBranchIsDead` | `Spec => []LinkingNeverConflicts` |
| `SessionLocksSerialize` | `Spec => []PublicationsSerialized` |
| `LocksFollowUse` | `Spec => []LocksAreInUse` |
| `EvidenceStaysSealed` | `Spec => EvidenceIsSealed` |
| `ConflictsAreFinal` | `EveryDetailFits => (Spec => ConflictsStayRejected)` |
| `PublicationImplementsLeasedWork` | `Spec => ImplementsLeasedWork` |

The constants are any imports, files, sources, workers, chunk size, budget and issue
limit. The invariant has four layers.

* Whose claim it is: a busy worker carries an attempt of a job that was begun
  (`ClaimsAreKnown`), no two carry the same one (`ClaimsAreApart`), and an open
  transaction owns its job (`TransactionsOwn`).
* What a transaction has written: only rows of its own import and source
  (`TransactionsBelong`), no fact with a key that is committed or that another open
  transaction has inserted (`InsertsApart`, from `InsertWaits` and `InsertRefused`).
  `SourceRecordsUnique` needs no more, and so holds without working session locks.
* What it has seen: with session locks one session holds a source, and its
  snapshot has every committed fact of that source (`SessionsApart`,
  `SnapshotsAreCurrent`). Hence no insert is ever refused.
* How far it has come: staged rows are the clean rows before the next one
  (`StagingProgress`), validated rows do not conflict with the snapshot as long as no
  issue was counted (`HasValidated`), and each linked row has its fact
  (`HasLinked`). A transaction that reaches its commit has therefore linked
  every row, which is the all or nothing of `PublishedAsAWhole` and the
  arithmetic of `CountsAddUp`.

`ConflictsStayRejected` is a promise of the documents that the code keeps only while
no issue is cut off. `EveryDetailFits` says that no file has more rows than issues
may be stored in detail; finding 1 is what happens without it. The proof
follows the issue of a conflicting row from the validation of its chunk
(`ReportingProgress`) to the commit of the rejection (`ConflictsAreStored`): while all
details fit, the collector keeps every issue it is given (`KeepsAll`), stored issues
are never removed, and only `requeue_job` moves a rejected job.

`PublicationImplementsLeasedWork` closes the circle: publication assumes of claims
what `LeasedWork` says, and does not itself go beyond it. The holder of a job is the
worker that carries its attempt; by `ClaimsAreApart` there is at most one
(`HoldersKnown`), by `TransactionsOwn` a transaction is its holder's (`OnePublishes`),
and attempts stay within the budget (`BudgetsKept`). A step of a worker changes the
state of a job only as its holder (`Answer`), or leaves it as it was and keeps the
claim (`Seal`, `Unseal`), drops it (`Abandon`), or had none any more, which nobody
sees (`WorkerRefines`).

`LinkingNeverConflicts` says that the code that rejects a conflict while linking is
never reached: the snapshot does not change between validation and linking, and
what the transaction itself inserted has the keys of earlier rows of the file,
which are distinct. Assumed: every import has a source; the ids of valid rows are distinct
within a file (the contract refuses others); a file has a row unless it is refused.

### File: `SalesImportFileProofs`

| Theorem | Statement |
| --- | --- |
| `FileInvariant` | `Spec => []FileInv`, inductive |
| `RefusedOnlyForTheHeader` | `Spec => []OnlyLongHeadersAreRefused` |
| `NoRowIsLost` | `Spec => []WholeFileIsStaged` |
| `EveryIssueAccountedFor` | `MaxIssues > 1 => (Spec => []IssuesAccountedFor)` |

They hold for files of any length, any chunk size and any limits; only the cells of a
record come from the set `Records`, whatever that is, of which `RecordsAssumption`
says what the contract's reader guarantees (lengths are numbers, three letters are
three characters). `FileInv` has one part per phase of an attempt (`Reading`, `Rejecting`,
`Validating`, `Finished`) and rests on four ideas.

* A row's number is that of its line, and the reader never goes back. So the numbers
  staged, pending and in the issues are at most `line` and grow, no two rows share
  a number, and the issues of a new row differ from all earlier ones. With the
  issues of one row differing in column and code (`RowIssuesOfRow`,
  `DatabaseIssuesOfRow`), that is `sales_issue_identity_unique`.
* A row without issues satisfies the constraints of its table (`ParsedIsStorable`): each
  check of the contract is at least as strict as that of the database.
* A message is stored only if it fits, and only a header makes one too long
  (`MessageInv`). The header is the first thing an attempt reads and stays the same, so
  an attempt that was refused had read nothing else, and so will the next one.
* What the collector counted is what was stored and what it keeps: `details` is the
  number of both, and it is truncated only if `total` exceeds `details`. `Adding`,
  `Draining` and `Persisting` say so for each operation of the collector, and the
  summary, if any, is stored last and once.

The hypothesis of the last theorem is needed: with a limit of one the summary takes the place
of the one detail and still says that one was stored (section 5).

### Intake: `SalesImportIntakeProofs`

| Theorem | Statement |
| --- | --- |
| `IntakeInvariant` | `Spec => []IntakeInv`, inductive |
| `EvidenceIsTrue` | `Spec => []EvidenceIsGenuine` |
| `JobFollowsIntake` | `Spec => []JobAgreesWithIntake` |
| `UsersAreToldTheTruth` | `Spec => []AnswersAreTrue` |
| `EvidenceStaysSealed` | `Spec => EvidenceIsSealed` |
| `NothingUploadedIsRefused` | `GraceCoversUploads => (Spec => []RefusedOnlyWithoutFile)` |

Nobody holds a lock while S3 is asked, so every process acts on what it found
earlier. `IntakeInv` says what it may still rely on: a version that was verified is
still a genuine one of its import (`RequestOK`, `RunOK`, `OperatorOK`), a row that names
a version names a genuine one (`RowOK`), the job follows the row (`JobOK`). It is kept
because rows and objects only grow, whoever changes them (`Grows`): a decision, a
version and a key are set once, objects are added and may vanish but never change.
With `Grows` each action has only its own process to look after.

`RefusedOnlyWithoutFile` needs the grace period: only if no upload outlives it may the
reconciler conclude from a missing object that nothing will come. The theorem
has that as its hypothesis, as the run `intake_legacy` has it as a constant; without
it the code makes no such promise. `Latest`, the newest version under a key, is the
maximum of a finite set; that there is one is proved by well-ordering
(`WellFoundedInduction`), since the induction theorems over finite sets cannot be
used here.

`SalesImportIntakeRefinementProofs` proves `IntakeImplementsQueueIntake`
(`Spec => ImplementsQueueIntake`): each transaction that decides an upload is one of
`ReceiveUpload`, `MarkReceived` and `MarkFailed` of `SalesImportQueue`, or a step of a
worker or an operator on a job that was queued, and every other step changes neither
statuses nor jobs. Files may be CSV or XLSX in any number; a step is shown to be
an intake action of the queue whatever formats the imports have that do not exist yet.

### Calendar: `ReportingCalendarProofs`

| Theorem | Statement |
| --- | --- |
| `RowsAgree` | `SqlRow(o) = PythonRow(o)` for every date `o` |
| `CalendarInvariant` | `Spec => []CalendarInv`, inductive |
| `VerificationSucceeds` | `Spec => []VerificationNeverFails` |
| `ReportsAreTrue` | `Spec => []RunsTellTheTruth` |

`RowsAgree` is arithmetic about all dates and not the years of the run. A date lies
in one year only, in one month of it and in one ISO week. Python finds the ISO
year as that of the week's Thursday, the trigger as the year whose first week (that
of the fourth of January) is the last to begin before the date; both are the one
year `y` with `FirstWeek(y) <= o < FirstWeek(y + 1)`. `CalendarInv` says that the lock
admits one execution at a time, that an open execution has inserted exactly the
missing dates up to its next batch, and that each date is counted by one execution
(`EachDateCreatedOnce`), from which both properties follow.

### Locks: `LockOrderProofs`

`DeadlocksNeedRequeue` (`Spec => []DeadlockNeedsRequeue`) holds for
every set of workers, clients, imports and sources. Its invariant says that an
idle process holds nothing, that an attempt is locked only under and after its job,
and that in every transaction but a claim and a sweep the locks held come before
those still wanted in the order of `Position`. In a circle
without `requeue_job` nobody waits for a claim's rows (claims skip all but the
attempt of a job they hold alone), so that everybody in it waits in the one
order intake, job, attempt: whoever waits for the last kind of lock in the circle
would have to be waited for by somebody that holds a later one.

### Master data: `MasterDataProofs`

| Theorem | Statement |
| --- | --- |
| `AssignmentsExclusive` | `Spec => []OneAssignmentPerDay` |
| `LevelsFitForever` | `Spec => []HierarchyDescends` |
| `AssignmentsAreHistory` | `Spec => HistoryKept` |
| `LookupsAreRight` | `Spec => []LookupsAgree` |

For every set of administrators, participants, relations and days.
`OneAssignmentPerDay` is not inductive: two administrators may both have passed
their forms. The invariant adds what is written and not yet committed: it excludes
neither a committed assignment, other than the one it replaces, nor what another
open transaction has written. `HierarchyDescends` needs that levels fit written
rows as well, and that levels never change, which is where the trigger of
migration 0007 comes in. `LookupsAgree` is about one query for the whole span of
a chunk: whatever its first and last day are, it loads every assignment that holds
on some day of the chunk, and the test of each row's own day does the rest.

### Only model-checked

Liveness (`EveryImportSettles`, `EveryUploadIsDecided` and `TransactionsEnd`, of the
runs `queue_liveness`, `intake` and `lock_order`), because fairness and ENABLED are out
of the prover's reach. Every other property that a passing run checks is proved.

## 5. Findings

1. *A conflict beyond the issue limit can be requeued.*
   `docs/sales-import-processing.md:59-60` says that immutable source-record
   conflicts cannot be requeued. `requeue_job` (`queue.py:299`) looks for a stored
   issue with that code; when earlier issues have used up
   `SALES_IMPORT_MAX_ISSUES`, the conflict is counted but not stored, and
   `_publish_once` sets the error code `VALIDATION_REJECTED`. The retry does no
   harm to facts (`PublishedAsAWhole` holds), it is only accepted where it should
   not be.
2. *An upload of the older release may never be decided.*
   `docs/sales-import-intake.md:93-96` says that the reconciler recovers the S3
   version of an older `receiving` row, records a missing or invalid object, or
   leaves a transient AWS error for later. A row of the older release has no KMS key:
   `verify` raises `KMSProvenanceError` (`storage.py:206`) before it asks S3, the
   reconciler counts that as deferred (`reconcile_sales_imports.py:71`), and the
   backfill fails for such a row each time. The row stays `receiving`, and since
   `receiving` is an active status the same file is refused as a duplicate. The run
   reports one such execution; an object that another client replaced and one that
   never arrived are the same case.

A third defect shows in a run that passes, since its property names the exception.
`docs/sales-import-intake.md:37-38` says that missing, duplicate, or unknown
headers are rejected. `_stage_csv` stores the text of the error as it is
(`processing.py:346`), and `validate_sales_headers` lists every duplicate or unknown
name in it (`contracts.py:124-142`). When the names do not fit the 1000 characters of
`SalesImportIssue.message` (`models.py:943`), the insert of the issue fails.
`process_claim` takes the error for a transient one of the database, the file is
retried until its attempts are used up, and the job fails with
`DATABASE_RETRYABLE`: it is never rejected, and no issue tells the user why.
`OnlyLongHeadersAreRefused` says that this is the only way a write about a file is
refused; in `row_contract` the action `ScheduleRetry` ends such files as `failed`.

Two things of note that contradict no document. With `SALES_IMPORT_MAX_ISSUES = 1`
the summary says that one detail was stored and takes its place
(`processing.py:189-195`). And `requeue_job` can be part of a deadlock with the intake
or with a worker that reports an unusable object, because `select_related` makes
it lock the job before the intake (`queue.py:278-283`); PostgreSQL then ends one of
the transactions, which is an error of the operator's command or an attempt that
is retried.

## 6. Not modelled, and why

The S3 protocol below the outcomes that `SalesImportIntake` distinguishes
(multipart uploads, retries inside boto3); the texts of issues but for their
length; quoting and decoding of CSV text, case
folding and trimming of codes; names and labels of calendar rows; the container
checks of an upload (`validation.py`: zip and text sniffing of one file, no state);
the rules that keep codes of identities unique; deletion and identity triggers of
rows that no code deletes; `save()` and `clean()` of `SalesTransaction`, which imports
bypass with `bulk_create`; retry delays beyond their closed form. The user
interface, accounts, settings, demo data, scripts, templates and infrastructure
have no protocol of their own.

PostgreSQL's deadlock detection is modelled in `LockOrder` only; elsewhere it is one
of the errors that may strike anywhere.

## 7. Plan

The database triggers of `0008_processing_audit_guards.py` as guards of
`SalesImportPublication`, with the property that none of them ever refuses.
