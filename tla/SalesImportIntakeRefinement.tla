-------------------- MODULE SalesImportIntakeRefinement --------------------
(***************************************************************************)
(* The intake actions of SalesImportQueue, which decide an upload and its  *)
(* job in one step at any time, are what uploads, reconcilers and          *)
(* backfills together do.                                                  *)
(***************************************************************************)
EXTENDS SalesImportIntake

\* The job row that SalesImportQueue has for it, when the clock stands still.
JobRow(i) ==
    [status |-> job[i].status, availableAt |-> 0, attemptCount |-> 0,
     maxAttempts |-> 5, token |-> 0, leaseExpiresAt |-> 0,
     finished |-> job[i].status \in {"published", "failed"},
     error |-> job[i].error]

IntakeStatus == [i \in Imports |-> row[i].status]

\* The queue, if those are the imports of CSV files.
Queue(Csv) == INSTANCE SalesImportQueue WITH
    CsvImports         <- Csv,
    Workers            <- {},
    Tokens             <- {},
    NoToken            <- 0,
    NoImport           <- 0,
    DefaultMaxAttempts <- 5,
    AttemptLimit       <- 32767,
    LeaseDuration      <- 1,
    RetryBaseDelay     <- 1,
    RetryMaxDelay      <- 1,
    CleanupBatchSize   <- 1,
    MaxClock           <- 0,
    clock              <- 0,
    intake             <- IntakeStatus,
    job                <- [i \in Imports |-> JobRow(i)],
    attempt            <- <<>>,
    worker             <- <<>>

\* SalesImportQueue knows from the start which imports are CSV; here an import gets
\* its format with its row.
Formats(Csv) ==
    \A i \in Imports : row[i].status # "absent" => (i \in Csv <=> row[i].file \in CsvFiles)

QueueIntakeStep(Csv) ==
    \E i \in Imports : \/ Queue(Csv)!ReceiveUpload(i)
                       \/ Queue(Csv)!MarkReceived(i)
                       \/ Queue(Csv)!MarkFailed(i)

\* A step of the queue's intake for every choice of the formats that the rows agree with.
IntakeStep == \A Csv \in SUBSET Imports : Formats(Csv)' => QueueIntakeStep(Csv)

\* Whatever happens between the transactions of uploads, reconciler runs and
\* backfills, for CSV and for XLSX files, the intake and job rows of this release
\* start as those of SalesImportQueue do, and the statuses and jobs of all rows are
\* only ever changed by its intake actions, or by a worker.
ImplementsQueueIntake ==
    /\ \A i \in Imports \ Legacy :
           IntakeStatus[i] = "absent" /\ JobRow(i) = Queue(Imports)!NoJob
    /\ [][IntakeStep \/ \E i \in Imports : WorkerStep(i)]_<<IntakeStatus, job>>
=============================================================================
