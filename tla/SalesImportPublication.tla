----------------------- MODULE SalesImportPublication -----------------------
(***************************************************************************)
(* sales_imports/processing.py: how the rows of a file become sales facts. *)
(* A worker stages the rows of its attempt in batches, waits for the       *)
(* session lock of the source system, and then validates and inserts the   *)
(* whole file in one REPEATABLE READ transaction, chunk by chunk.          *)
(*                                                                         *)
(* Claims are those of LeasedWork, which SalesImportQueue implements: a    *)
(* job is taken from its worker at any time unless its row is locked by an *)
(* open publication, and every call of a worker is fenced by its attempt.  *)
(* A row carries an id, a value for all that _fact_matches compares, a ref *)
(* for the calendar, master-data and assignment rows it depends on, and    *)
(* whether it satisfies the CSV contract.                                  *)
(***************************************************************************)
EXTENDS IssueCollector

CONSTANTS
    Jobs, Workers, Sources, Refs,
    NoJob,          \* a worker between two claims
    SourceOf,       \* the source_system of each job
    Files,          \* for each job, the files it may be about
    ChunkSize,      \* SALES_IMPORT_DB_BATCH_SIZE
    StartAttempts,  \* max_attempts of a new job
    AttemptLimit    \* bound: operators extend the budget up to here

\* A file without data rows is refused with a file-level error, and a row that
\* repeats the id of an earlier one violates the contract.
ASSUME PublicationAssumption ==
    /\ NoJob \notin Jobs
    /\ SourceOf \in [Jobs -> Sources]
    /\ \A j \in Jobs : \A f \in Files[j] :
         /\ Len(f.rows) \in Nat
         /\ f.broken \/ f.rows # <<>>
         /\ \A m, n \in 1..Len(f.rows) :
              /\ f.rows[m].clean /\ f.rows[n].clean
              /\ f.rows[m].id = f.rows[n].id
              => m = n
    /\ ChunkSize \in Nat \ {0}
    /\ AttemptLimit \in Nat
    /\ StartAttempts \in 1..AttemptLimit

VARIABLES
    file,        \* the stored CSV of each job; it never changes
    pooled,      \* a pooler breaks the session advisory locks; it never changes
    facts,       \* the SalesTransaction rows
    missing,     \* the references master data lacks at the moment
    job,         \* the job rows
    staged,      \* the SalesImportStagedRow rows of every attempt
    issues,      \* the SalesImportIssue rows of every attempt
    holders,     \* the sessions that hold the lock of each source
    worker,      \* what each worker is doing
    conflicted   \* history: jobs once rejected for a source-record conflict

vars == <<file, pooled, facts, missing, job, staged, issues, holders, worker,
          conflicted>>

\* What a publication transaction reads, and what it has written so far.
NoTx ==
    [facts |-> {}, missing |-> {}, issues |-> {}, inserted |-> {}, linked |-> {}]

Idle ==
    [pc |-> "idle", job |-> NoJob, attempt |-> 0, next |-> 1, retried |-> FALSE,
     collector |-> NewCollector, tx |-> NoTx]

NewJob ==
    [status |-> "open", attempt |-> 0, budget |-> StartAttempts, error |-> "",
     inserted |-> 0, reused |-> 0, issueCount |-> 0]

Init ==
    /\ file \in {f \in [Jobs -> UNION {Files[j] : j \in Jobs}] :
                    \A j \in Jobs : f[j] \in Files[j]}
    /\ pooled \in BOOLEAN
    /\ facts = {}
    /\ missing \in SUBSET Refs
    /\ job = [j \in Jobs |-> NewJob]
    /\ staged = {}
    /\ issues = {}
    /\ holders = [s \in Sources |-> {}]
    /\ worker = [w \in Workers |-> Idle]
    /\ conflicted = {}

-----------------------------------------------------------------------------
(***************************************************************************)
(* Claims, seen from the rows.                                             *)
(***************************************************************************)

InTransaction(w) ==
    worker[w].pc \in {"validating", "invalid", "linking", "linked"}

RowLocked(j) == \E w \in Workers : worker[w].job = j /\ InTransaction(w)

\* Mutant: any claim of the job passes the fence.
JobIsHeld(w) == job[worker[w].job].status = "held"

Owns(w) ==
    LET row == job[worker[w].job]
    IN  row.status = "held" /\ row.attempt = worker[w].attempt

At(w, pc) == worker[w].pc = pc

Fenced(w, pc) == At(w, pc) /\ Owns(w)

BudgetLeft(j) == job[j].attempt < job[j].budget

\* A claim, of waiting work or of a job whose lease ran out.
Claim(w, j) ==
    /\ At(w, "idle")
    /\ job[j].status \in {"open", "held"}
    /\ ~RowLocked(j)
    /\ BudgetLeft(j)
    /\ job' = [job EXCEPT ![j] =
                 [NewJob EXCEPT !.status = "held", !.budget = job[j].budget,
                                !.attempt = job[j].attempt + 1]]
    /\ worker' = [worker EXCEPT ![w] =
                    [Idle EXCEPT !.pc = "staging", !.job = j,
                                 !.attempt = job[j].attempt + 1]]
    /\ UNCHANGED <<file, pooled, facts, missing, staged, issues, holders, conflicted>>

\* The sweep of claim_next_job fails a job whose last lease ran out.
MarkExhausted(j) ==
    /\ job[j].status = "held"
    /\ ~RowLocked(j)
    /\ ~BudgetLeft(j)
    /\ job' = [job EXCEPT ![j].status = "failed",
                          ![j].error = "ATTEMPT_LIMIT_EXHAUSTED"]
    /\ UNCHANGED <<file, pooled, facts, missing, staged, issues, holders, worker, conflicted>>

\* Mutant: only the error code of the job is looked at, not its issues.
HasConflictError(j) == job[j].error = "SOURCE_RECORD_CONFLICT"

HasConflictIssue(j) ==
    \E i \in issues : i.job = j /\ i.issue.code = "SOURCE_RECORD_CONFLICT"

\* requeue_job
RequeueJob(j) ==
    /\ job[j].status \in {"failed", "rejected"}
    /\ ~(job[j].status = "rejected" /\ HasConflictIssue(j))
    /\ job[j].budget < AttemptLimit
    /\ job' = [job EXCEPT ![j] =
                 [NewJob EXCEPT !.attempt = job[j].attempt,
                                !.budget = job[j].budget + 1]]
    /\ UNCHANGED <<file, pooled, facts, missing, staged, issues, holders, worker, conflicted>>

\* Administrators add calendar dates, products and assignments, or end them.
EditMasterData(r) ==
    /\ missing' = IF r \in missing THEN missing \ {r} ELSE missing \cup {r}
    /\ UNCHANGED <<file, pooled, facts, job, staged, issues, holders, worker, conflicted>>

-----------------------------------------------------------------------------
(***************************************************************************)
(* Staging: _stage_csv and _record_parse_batch.                            *)
(***************************************************************************)

Rows(w) == file[worker[w].job].rows

\* The issues among the rows from first on, given a code or "" for each.
IssuesOf(first, codes) ==
    LET hits == InOrder({k \in 1..Len(codes) : codes[k] # ""})
    IN  [n \in DOMAIN hits |->
            Issue(first + hits[n] - 1, "__row__", codes[hits[n]])]

\* Issue rows that carry the attempt of w.
IssueRows(w, found) ==
    {[job |-> worker[w].job, attempt |-> worker[w].attempt, issue |-> found[k]] :
        k \in 1..Len(found)}

\* Staged rows of w for those rows of its file that satisfy the contract.
StagedRows(w, first, last) ==
    {[job |-> worker[w].job, attempt |-> worker[w].attempt, number |-> n,
      outcome |-> "staged"] : n \in {k \in first..last : Rows(w)[k].clean}}

ContractIssues(w, first, last) ==
    IssuesOf(first, [k \in 1..(last + 1 - first) |->
                       IF Rows(w)[first + k - 1].clean THEN "" ELSE "CONTRACT"])

\* _record_parse_batch for one full chunk.
StageChunk(w) ==
    LET first     == worker[w].next
        last      == first + ChunkSize - 1
        collector == Added(worker[w].collector, ContractIssues(w, first, last))
    IN  /\ Fenced(w, "staging")
        /\ last <= Len(Rows(w))
        /\ staged' = staged \cup StagedRows(w, first, last)
        /\ issues' = issues \cup IssueRows(w, collector.kept)
        /\ job' = [job EXCEPT ![worker[w].job].issueCount = collector.total]
        /\ worker' = [worker EXCEPT ![w].next = last + 1,
                                    ![w].collector = Drained(collector)]
        /\ UNCHANGED <<file, pooled, facts, missing, holders, conflicted>>

\* The last batch: the rows that are left, and the error that ended the file.
StageRest(w) ==
    LET first     == worker[w].next
        last      == Len(Rows(w))
        error     == IF file[worker[w].job].broken
                     THEN <<FileIssue("FILE")>>
                     ELSE <<>>
        collector == Added(worker[w].collector,
                           ContractIssues(w, first, last) \o error)
    IN  /\ Fenced(w, "staging")
        /\ first + ChunkSize - 1 > last
        /\ staged' = staged \cup StagedRows(w, first, last)
        /\ issues' = issues \cup IssueRows(w, Persisted(collector))
        /\ job' = [job EXCEPT ![worker[w].job].issueCount = collector.total]
        /\ worker' = [worker EXCEPT ![w].pc = "staged",
                                    ![w].collector = Drained(collector)]
        /\ UNCHANGED <<file, pooled, facts, missing, holders, conflicted>>

\* complete_job, for a file the contract rejects.
RejectFile(w) ==
    /\ Fenced(w, "staged")
    /\ worker[w].collector.total > 0
    /\ job' = [job EXCEPT ![worker[w].job].status = "rejected",
                          ![worker[w].job].error = "CONTRACT_REJECTED"]
    /\ worker' = [worker EXCEPT ![w] = Idle]
    /\ UNCHANGED <<file, pooled, facts, missing, staged, issues, holders, conflicted>>

-----------------------------------------------------------------------------
(***************************************************************************)
(* Publication: _source_session_lock, _publish_staged_rows, _publish_once. *)
(***************************************************************************)

Source(w) == SourceOf[worker[w].job]

\* Mutant: the session keeps the lock.
KeptLock(w) == holders

\* The session lock is given up, or its connection closed.
Unlocked(w) == [s \in Sources |-> holders[s] \ {w}]

\* Mutant: the answer of pg_try_advisory_lock is not looked at.
AssumeSourceLock(w) ==
    /\ At(w, "staged")
    /\ worker[w].collector.total = 0
    /\ holders' = [holders EXCEPT ![Source(w)] = @ \cup {w}]
    /\ worker' = [worker EXCEPT ![w].pc = "locked"]
    /\ UNCHANGED <<file, pooled, facts, missing, job, staged, issues, conflicted>>

\* pg_try_advisory_lock, polled until it succeeds.
AcquireSourceLock(w) ==
    /\ At(w, "staged")
    /\ worker[w].collector.total = 0
    /\ ~pooled => holders[Source(w)] = {}
    /\ holders' = [holders EXCEPT ![Source(w)] = @ \cup {w}]
    /\ worker' = [worker EXCEPT ![w].pc = "locked"]
    /\ UNCHANGED <<file, pooled, facts, missing, job, staged, issues, conflicted>>

\* The transaction begins: its snapshot, the fence and the job's row lock.
BeginPublication(w) ==
    /\ Fenced(w, "locked")
    /\ worker' = [worker EXCEPT
                    ![w].pc = "validating", ![w].next = 1,
                    ![w].collector = NewCollector,
                    ![w].tx = [NoTx EXCEPT !.facts = facts, !.missing = missing]]
    /\ UNCHANGED <<file, pooled, facts, missing, job, staged, issues, holders, conflicted>>

\* The rows this attempt staged, of which a publication takes a chunk at a time.
StagedNumbers(w) ==
    {r.number : r \in {t \in staged : /\ t.job = worker[w].job
                                      /\ t.attempt = worker[w].attempt}}

LastOfChunk(w) ==
    LET last == worker[w].next + ChunkSize - 1
    IN  IF last < Len(Rows(w)) THEN last ELSE Len(Rows(w))

\* Mutant: the loop stops one row early.
IsNearlyLastChunk(w) == LastOfChunk(w) + 1 >= Len(Rows(w))

IsLastChunk(w) == LastOfChunk(w) = Len(Rows(w))

Chunk(w) == StagedNumbers(w) \cap (worker[w].next .. LastOfChunk(w))

\* Mutant: READ COMMITTED, every statement sees what was committed before it.
CommittedFacts(w) == facts \cup worker[w].tx.inserted

\* REPEATABLE READ: the snapshot, and the transaction's own inserts.
VisibleFacts(w) == worker[w].tx.facts \cup worker[w].tx.inserted

\* Facts with the idempotency key of a row.
FactsOf(w, row, S) == {f \in S : f.source = Source(w) /\ f.id = row.id}

\* Mutant: a fact with the key is taken for the row without a comparison.
NothingConflicts(w, row, S) == FALSE

\* not _fact_matches, for a fact that exists.
Conflicts(w, row, S) == \E f \in FactsOf(w, row, S) : f.value # row.value

\* A row is checked against the facts only when nothing else is wrong with it.
DatabaseIssue(w, row) ==
    IF row.ref \in worker[w].tx.missing THEN "MASTER_DATA"
    ELSE IF Conflicts(w, row, VisibleFacts(w)) THEN "SOURCE_RECORD_CONFLICT"
    ELSE ""

\* _resolve_and_validate_chunk and the issues it leaves for storing.
ValidateChunk(w) ==
    LET first     == worker[w].next
        codes     == [k \in 1..(LastOfChunk(w) + 1 - first) |->
                        IF first + k - 1 \in Chunk(w)
                        THEN DatabaseIssue(w, Rows(w)[first + k - 1]) ELSE ""]
        found     == IssuesOf(first, codes)
        collector == Added(worker[w].collector, found)
    IN  /\ At(w, "validating")
        /\ worker' = [worker EXCEPT
                        ![w].next = IF IsLastChunk(w) THEN 1 ELSE LastOfChunk(w) + 1,
                        ![w].pc = CASE ~IsLastChunk(w) -> "validating"
                                    [] IsLastChunk(w) /\ collector.total > 0 -> "invalid"
                                    [] OTHER -> "linking",
                        ![w].collector = Drained(collector),
                        ![w].tx.issues = @ \cup IssueRows(w, collector.kept)]
        /\ UNCHANGED <<file, pooled, facts, missing, job, staged, issues, holders, conflicted>>

\* Validation found issues: they are stored and the file is rejected.
FinishInvalid(w) ==
    LET j == worker[w].job
        c == worker[w].collector
    IN  /\ At(w, "invalid")
        /\ issues' = issues \cup worker[w].tx.issues
                            \cup IssueRows(w, Persisted(Drained(c)))
        /\ job' = [job EXCEPT ![j].status = "rejected",
                              ![j].error = "VALIDATION_REJECTED",
                              ![j].issueCount = c.total]
        /\ worker' = [worker EXCEPT ![w].pc = "unlocking", ![w].tx = NoTx]
        /\ conflicted' =
             IF \E n \in StagedNumbers(w) :
                  DatabaseIssue(w, Rows(w)[n]) = "SOURCE_RECORD_CONFLICT"
             THEN conflicted \cup {j} ELSE conflicted
        /\ UNCHANGED <<file, pooled, facts, missing, staged, holders>>

\* The rows of the chunk that have no fact in the snapshot.
NewNumbers(w) ==
    {n \in Chunk(w) : FactsOf(w, Rows(w)[n], VisibleFacts(w)) = {}}

FactOf(w, row) ==
    [source |-> Source(w), id |-> row.id, value |-> row.value,
     ref |-> row.ref, job |-> worker[w].job]

\* The facts the chunk adds, and what its staged rows learn about their facts.
NewFacts(w) == {FactOf(w, Rows(w)[n]) : n \in NewNumbers(w)}

NewLinks(w) ==
    {[number |-> n,
      outcome |-> IF n \in NewNumbers(w) THEN "published" ELSE "reused"] :
        n \in Chunk(w)}

\* PostgreSQL makes an insert wait while another open transaction has inserted
\* the same key, and refuses it once such a transaction has committed.
InsertWaits(w) ==
    \E n \in NewNumbers(w), v \in Workers \ {w} :
        FactsOf(w, Rows(w)[n], worker[v].tx.inserted) # {}

\* Mutant: there is no unique constraint.
NothingRefused(w) == FALSE

InsertRefused(w) ==
    \E n \in NewNumbers(w) : FactsOf(w, Rows(w)[n], facts) # {}

\* _link_or_insert_chunk.  Its conflict branch is dead, since validation has
\* looked at the same rows in the same snapshot (LinkingNeverConflicts).
LinkChunk(w) ==
    /\ At(w, "linking")
    /\ ~InsertWaits(w)
    /\ ~InsertRefused(w)
    /\ worker' = [worker EXCEPT
         ![w].next = LastOfChunk(w) + 1,
         ![w].pc = IF IsLastChunk(w) THEN "linked" ELSE "linking",
         ![w].tx.inserted = @ \cup NewFacts(w),
         ![w].tx.linked = @ \cup NewLinks(w)]
    /\ UNCHANGED <<file, pooled, facts, missing, job, staged, issues, holders, conflicted>>

\* business_data_sales_source_unique: the first time, publish once more.
UniqueViolation(w) ==
    /\ At(w, "linking")
    /\ InsertRefused(w)
    /\ worker' = [worker EXCEPT
                    ![w].pc = IF worker[w].retried THEN "retrying" ELSE "locked",
                    ![w].retried = TRUE, ![w].next = 1, ![w].tx = NoTx]
    /\ holders' = IF worker[w].retried THEN Unlocked(w) ELSE holders
    /\ UNCHANGED <<file, pooled, facts, missing, job, staged, issues, conflicted>>

\* Mutant: the update reaches the rows of every attempt of the job.
LinkedRowsOfJob(w) ==
    {IF r.job = worker[w].job /\ \E l \in worker[w].tx.linked : l.number = r.number
     THEN [r EXCEPT !.outcome =
             (CHOOSE l \in worker[w].tx.linked : l.number = r.number).outcome]
     ELSE r : r \in staged}

\* The staged rows of w with the outcomes its transaction gave them.
LinkedRows(w) ==
    {IF /\ r.job = worker[w].job
        /\ r.attempt = worker[w].attempt
        /\ \E l \in worker[w].tx.linked : l.number = r.number
     THEN [r EXCEPT !.outcome =
             (CHOOSE l \in worker[w].tx.linked : l.number = r.number).outcome]
     ELSE r : r \in staged}

\* Facts, links, counters and the job's result commit together.
FinishPublished(w) ==
    LET j  == worker[w].job
        tx == worker[w].tx
    IN  /\ At(w, "linked")
        /\ facts' = facts \cup tx.inserted
        /\ staged' = LinkedRows(w)
        /\ job' = [job EXCEPT
             ![j].status = "published", ![j].error = "", ![j].issueCount = 0,
             ![j].inserted = Cardinality(tx.inserted),
             ![j].reused = Cardinality({l \in tx.linked : l.outcome = "reused"})]
        /\ worker' = [worker EXCEPT ![w].pc = "unlocking", ![w].tx = NoTx]
        /\ UNCHANGED <<file, pooled, missing, issues, holders, conflicted>>

\* pg_advisory_unlock, or the connection is closed: both after the commit.
UnlockSource(w) ==
    /\ At(w, "unlocking")
    /\ holders' = Unlocked(w)
    /\ worker' = [worker EXCEPT ![w] = Idle]
    /\ UNCHANGED <<file, pooled, facts, missing, job, staged, issues, conflicted>>

-----------------------------------------------------------------------------
(***************************************************************************)
(* Failures.                                                               *)
(***************************************************************************)

\* A lost connection, a deadlock, the end of the wait for the source lock, a
\* failed download: the transaction is undone and the source lock given up.
RetryableError(w) ==
    /\ worker[w].pc \in {"staging", "staged", "locked"} \/ InTransaction(w)
    /\ worker' = [worker EXCEPT ![w].pc = "retrying", ![w].tx = NoTx]
    /\ holders' = Unlocked(w)
    /\ UNCHANGED <<file, pooled, facts, missing, job, staged, issues, conflicted>>

\* schedule_retry
ScheduleRetry(w) ==
    /\ Fenced(w, "retrying")
    /\ job' = [job EXCEPT
         ![worker[w].job].status =
             IF BudgetLeft(worker[w].job) THEN "open" ELSE "failed",
         ![worker[w].job].error = "DATABASE_RETRYABLE"]
    /\ worker' = [worker EXCEPT ![w] = Idle]
    /\ UNCHANGED <<file, pooled, facts, missing, staged, issues, holders, conflicted>>

\* A fenced call finds another claim, or none.
ClaimLost(w) ==
    /\ worker[w].pc \in {"staging", "staged", "locked", "retrying"}
    /\ ~Owns(w)
    /\ holders' = Unlocked(w)
    /\ worker' = [worker EXCEPT ![w] = Idle]
    /\ UNCHANGED <<file, pooled, facts, missing, job, staged, issues, conflicted>>

\* The process dies; PostgreSQL undoes its transaction and ends its session.
Crash(w) ==
    /\ worker[w].pc # "idle"
    /\ holders' = Unlocked(w)
    /\ worker' = [worker EXCEPT ![w] = Idle]
    /\ UNCHANGED <<file, pooled, facts, missing, job, staged, issues, conflicted>>

-----------------------------------------------------------------------------
QueueStep(j) == MarkExhausted(j) \/ RequeueJob(j) \/ \E w \in Workers : Claim(w, j)

StagingStep(w) == StageChunk(w) \/ StageRest(w) \/ RejectFile(w)

PublicationStep(w) ==
    \/ AcquireSourceLock(w)
    \/ BeginPublication(w)
    \/ ValidateChunk(w)
    \/ FinishInvalid(w)
    \/ LinkChunk(w)
    \/ UniqueViolation(w)
    \/ FinishPublished(w)
    \/ UnlockSource(w)

FailureStep(w) ==
    RetryableError(w) \/ ScheduleRetry(w) \/ ClaimLost(w) \/ Crash(w)

Next ==
    \/ \E j \in Jobs : QueueStep(j)
    \/ \E w \in Workers : StagingStep(w) \/ PublicationStep(w) \/ FailureStep(w)
    \/ \E r \in Refs : EditMasterData(r)

Spec == Init /\ [][Next]_vars

-----------------------------------------------------------------------------
(***************************************************************************)
(* What publication promises.                                              *)
(***************************************************************************)

\* All or nothing: a file published as a whole has each of its rows among the
\* facts, with the values of the file, and no other file has left any fact.
PublishedAsAWhole ==
    \A j \in Jobs :
        IF job[j].status = "published"
        THEN \A n \in 1..Len(file[j].rows) : \E f \in facts :
                 /\ f.source = SourceOf[j]
                 /\ f.id = file[j].rows[n].id
                 /\ f.value = file[j].rows[n].value
        ELSE \A f \in facts : f.job # j

\* (source_system, source_record_id) is the key of a fact.
SourceRecordsUnique ==
    \A f, g \in facts : f.source = g.source /\ f.id = g.id => f = g

\* The counters of a published job account for each row of its file once, and
\* each fact is counted as inserted by the file that brought it.
CountsAddUp ==
    \A j \in Jobs :
        job[j].status = "published" =>
            /\ job[j].inserted = Cardinality({f \in facts : f.job = j})
            /\ job[j].inserted + job[j].reused = Len(file[j].rows)

\* The links of a published attempt are complete and right: "published" rows
\* made their fact, "reused" rows found that of another file.  The rows of every
\* other attempt stay as they were staged.
LinksAreRight ==
    \A r \in staged :
        LET row == file[r.job].rows[r.number]
            own == \E f \in facts : /\ f.job = r.job
                                    /\ f.source = SourceOf[r.job]
                                    /\ f.id = row.id
        IN  IF job[r.job].status = "published" /\ r.attempt = job[r.job].attempt
            THEN r.outcome = IF own THEN "published" ELSE "reused"
            ELSE r.outcome = "staged"

\* What validation accepted cannot conflict when it is linked: both read one
\* snapshot.  The _PublicationRejected branches of the code are never reached.
LinkingNeverConflicts ==
    \A w \in Workers :
        At(w, "linking") =>
            \A n \in StagedNumbers(w) : ~Conflicts(w, Rows(w)[n], VisibleFacts(w))

\* Real session locks serialize the publications of a source, each in a snapshot
\* taken after the one before it ended, so that no insert is ever refused.
PublicationsSerialized ==
    ~pooled =>
        /\ \A s \in Sources : Cardinality(holders[s]) <= 1
        /\ \A w \in Workers : ~worker[w].retried

\* No session keeps a lock its worker has no use for, whatever went wrong.
LocksAreInUse ==
    \A w \in Workers, s \in Sources :
        w \in holders[s] <=>
            /\ worker[w].pc \in {"locked", "unlocking"} \/ InTransaction(w)
            /\ Source(w) = s

\* The staged rows and issues of an attempt that is over never change: a worker
\* that lost its claim adds nothing to the evidence of another attempt.
EvidenceIsSealed ==
    [][\A j \in Jobs, n \in 1..AttemptLimit :
         n < job[j].attempt \/ (n = job[j].attempt /\ job[j].status # "held") =>
             /\ {r \in staged' : r.job = j /\ r.attempt = n} =
                    {r \in staged : r.job = j /\ r.attempt = n}
             /\ {i \in issues' : i.job = j /\ i.attempt = n} =
                    {i \in issues : i.job = j /\ i.attempt = n}]_<<staged, issues>>

\* "Immutable source-record conflicts cannot be requeued because the submitted
\* bytes disagree with an existing fact."
ConflictsStayRejected ==
    [][\A j \in conflicted :
         job[j].status = "rejected" => job'[j].status = "rejected"]_vars
=============================================================================
