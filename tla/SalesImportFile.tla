--------------------------- MODULE SalesImportFile ---------------------------
(***************************************************************************)
(* The attempts of one job at its file, row by row: iter_sales_rows_v1_csv *)
(* reads the CSV, _stage_csv stages its rows and stores its issues batch   *)
(* by batch, and _publish_once checks the staged rows against the database *)
(* and finishes the job with its counters.                                 *)
(*                                                                         *)
(* The file and the database are chosen as they are read: any line may     *)
(* follow, and any answer of the database.  The first line stays: what is  *)
(* wrong with it is found again by every attempt.  Other workers, other    *)
(* failures and the facts are in SalesImportPublication; here the rows     *)
(* have their cells, their line numbers and their issues.                  *)
(***************************************************************************)
EXTENDS SalesRowsContract

CONSTANTS
    Headers,     \* first lines: [present, repeated, missing, unknown, names]; names
                 \* is the length of the repeated, or else the unknown, names joined
    Records,     \* the cells of the records a file may contain
    Findings,    \* what the database may know of a row
    ChunkSize,   \* SALES_IMPORT_DB_BATCH_SIZE
    MaxRows,     \* SALES_IMPORT_MAX_ROWS
    MaxAttempts, \* max_attempts of the job
    MaxLine      \* bound: physical lines of a file

ASSUME FileAssumption ==
    /\ ChunkSize \in Nat \ {0}
    /\ MaxRows \in Nat \ {0}
    /\ MaxAttempts \in Nat \ {0}
    /\ MaxLine \in Nat

ASSUME HeadersAssumption == \A h \in Headers : h.names \in Nat

\* The shape of a cell: form, lengths and signs are what they are called, and
\* three letters are three characters.
ASSUME RecordsAssumption ==
    \A cells \in Records :
        /\ \A cell \in {cells.id, cells.product, cells.territory, cells.hospital,
                        cells.rep, cells.currency} : cell.length \in Nat
        /\ cells.currency.letters => cells.currency.length = CurrencyLength
        /\ cells.date.form \in {"blank", "malformed", "iso"}
        /\ \A cell \in {cells.quantity, cells.revenue} :
             /\ cell.form \in {"blank", "overlong", "malformed", "number"}
             /\ cell.sign \in {-1, 0, 1}
             /\ cell.digits \in Nat
             /\ cell.places \in Nat

VARIABLES
    header,      \* the first line of the file
    pc,          \* what the worker does next
    line,        \* reader.line_num
    rowCount,    \* validator.row_count
    seen,        \* validator._source_record_ids
    progress,    \* _Progress, or the counters of the publication
    collector,   \* the _IssueCollector
    pending,     \* pending_rows of _stage_csv
    staged,      \* the SalesImportStagedRow rows of the attempt
    issues,      \* its SalesImportIssue rows, in the order they were stored
    job          \* the counters, status and attempt_count of the job row

vars == <<header, pc, line, rowCount, seen, progress, collector, pending, staged,
          issues, job>>

NoRows == [total |-> 0, valid |-> 0, invalid |-> 0, reused |-> 0]

NewJob ==
    [status |-> "processing", attempts |-> 1, total |-> 0, valid |-> 0,
     invalid |-> 0, issueCount |-> 0, inserted |-> 0, reused |-> 0]

Init ==
    /\ header \in Headers
    /\ pc = "header"
    /\ line = 0
    /\ rowCount = 0
    /\ seen = {}
    /\ progress = NoRows
    /\ collector = NewCollector
    /\ pending = <<>>
    /\ staged = <<>>
    /\ issues = <<>>
    /\ job = NewJob

-----------------------------------------------------------------------------
(***************************************************************************)
(* Reading and staging.                                                    *)
(***************************************************************************)

\* _record_parse_batch, with what it is given to store.
RecordBatch(rows, found, counts, total) ==
    /\ staged' = staged \o rows
    /\ issues' = issues \o found
    /\ pending' = <<>>
    /\ job' = [job EXCEPT !.total = counts.total, !.valid = counts.valid,
                          !.invalid = counts.invalid, !.issueCount = total]

\* Mutant: the rows read since the last full batch are forgotten.
RecordLastBatchOnly(c) ==
    RecordBatch(<<>>, Persisted(c), progress, c.total)

\* The batch after the last row, or after the error that ended the file.
RecordRest(c) == RecordBatch(pending, Persisted(c), progress, c.total)

\* SalesFileContractError or UnicodeDecodeError: the file is rejected as a whole.
EndWithError(code) ==
    LET c == Added(collector, <<FileIssue(code)>>)
    IN  /\ RecordRest(c)
        /\ collector' = Drained(c)
        /\ pc' = "rejecting"
        /\ UNCHANGED progress

\* validate_sales_headers, in the order of its checks.
HeaderError(h) ==
    IF ~h.present THEN "FILE_NO_DATA_ROWS"
    ELSE IF h.repeated THEN "SCHEMA_DUPLICATE_COLUMN"
    ELSE IF h.missing THEN "SCHEMA_MISSING_COLUMN"
    ELSE IF h.unknown THEN "SCHEMA_UNKNOWN_COLUMN"
    ELSE ""

\* SalesImportIssue.message holds that many characters.
MessageLength == 1000

\* Bound: no other text that is stored as a message is longer; the longest names
\* all nine columns as missing.
Wording == 200

\* "Duplicate sales columns: ..." and "Unknown sales columns: ...", with every name.
HeaderMessage(h) ==
    CASE HeaderError(h) = "SCHEMA_DUPLICATE_COLUMN" -> 26 + h.names
      [] HeaderError(h) = "SCHEMA_UNKNOWN_COLUMN"   -> 24 + h.names
      [] OTHER                                      -> Wording

MessageFits(h) == HeaderMessage(h) <= MessageLength

ReadHeader ==
    /\ pc = "header"
    /\ HeaderError(header) = ""
    /\ pc' = "reading"
    /\ line' = 1
    /\ UNCHANGED <<header, rowCount, seen, progress, collector, pending, staged,
                   issues, job>>

RejectHeader ==
    /\ pc = "header"
    /\ HeaderError(header) # ""
    /\ MessageFits(header)
    /\ EndWithError(HeaderError(header))
    /\ UNCHANGED <<header, line, rowCount, seen>>

\* Nothing shortens the message: the insert of the issue fails with a DataError, and
\* its batch is rolled back.
HeaderRefused ==
    /\ pc = "header"
    /\ ~MessageFits(header)
    /\ pc' = "refused"
    /\ UNCHANGED <<header, line, rowCount, seen, progress, collector, pending,
                   staged, issues, job>>

\* process_claim takes the DataError for a failure of the database: schedule_retry
\* with DATABASE_RETRYABLE.
ScheduleRetry ==
    /\ pc = "refused"
    /\ IF job.attempts < MaxAttempts
       THEN pc' = "waiting" /\ job' = [job EXCEPT !.status = "retry_wait"]
       ELSE pc' = "finished" /\ job' = [job EXCEPT !.status = "failed"]
    /\ UNCHANGED <<header, line, rowCount, seen, progress, collector, pending,
                   staged, issues>>

\* claim_next_job: another attempt has its own rows and issues, and the counters of
\* the job are reset.
ClaimAgain ==
    /\ pc = "waiting"
    /\ pc' = "header"
    /\ line' = 0
    /\ rowCount' = 0
    /\ seen' = {}
    /\ progress' = NoRows
    /\ collector' = NewCollector
    /\ pending' = <<>>
    /\ staged' = <<>>
    /\ issues' = <<>>
    /\ job' = [NewJob EXCEPT !.attempts = job.attempts + 1]
    /\ UNCHANGED header

\* The reader takes one record of that many lines.
Reads(height) ==
    /\ pc = "reading"
    /\ line + height <= MaxLine
    /\ line' = line + height

\* The number of a record is that of its first line, and the header has line 1.
RowNumber == line + 1

\* Empty lines and rows of empty cells are passed over, but have their numbers.
ReadBlank(height) ==
    /\ Reads(height)
    /\ UNCHANGED <<header, pc, rowCount, seen, progress, collector, pending,
                   staged, issues, job>>

\* What _stage_csv does with one result: found are its issues, rows the valid row.
Yield(rows, found) ==
    LET c      == Added(collector, found)
        counts == [progress EXCEPT !.total = @ + 1,
                                   !.valid = @ + Len(rows),
                                   !.invalid = @ + 1 - Len(rows)]
    IN  /\ progress' = counts
        /\ IF counts.total % ChunkSize = 0
           THEN /\ RecordBatch(pending \o rows, c.kept, counts, c.total)
                /\ collector' = Drained(c)
           ELSE /\ pending' = pending \o rows
                /\ collector' = c
                /\ UNCHANGED <<staged, issues, job>>
        /\ UNCHANGED pc

\* note_row raises when the row it counts is one too many.
WithinLimit == rowCount + 1 <= MaxRows

\* A row with too few or too many cells.
ReadRagged(height) ==
    /\ Reads(height)
    /\ rowCount' = rowCount + 1
    /\ IF WithinLimit
       THEN Yield(<<>>, <<Issue(RowNumber, "__row__", "ROW_COLUMN_COUNT_MISMATCH")>>)
       ELSE EndWithError("FILE_ROW_LIMIT_EXCEEDED")
    /\ UNCHANGED <<header, seen>>

\* An id counts as used even when its row has other issues.
SeenWith(cells) == IF Blank(cells.id) THEN seen ELSE seen \cup {cells.id.value}

ReadRecord(cells, height) ==
    LET found == RowIssues(RowNumber, cells, seen)
        row   == [number |-> RowNumber, cells |-> cells]
    IN  /\ Reads(height)
        /\ rowCount' = rowCount + 1
        /\ IF WithinLimit
           THEN /\ Yield(IF found = <<>> THEN <<row>> ELSE <<>>, found)
                /\ seen' = SeenWith(cells)
           ELSE EndWithError("FILE_ROW_LIMIT_EXCEEDED") /\ UNCHANGED seen
        /\ UNCHANGED header

\* Bad quoting or bytes that are no UTF-8.  The text is decoded ahead of the
\* reader, so that the latter may end a file at any row before the bad bytes.
ReadBroken(code) ==
    /\ pc \in {"header", "reading"}
    /\ code \in {"CSV_MALFORMED", "FILE_ENCODING_INVALID"}
    /\ pc = "header" => header.present
    /\ EndWithError(code)
    /\ UNCHANGED <<header, line, rowCount, seen>>

EndOfFile ==
    /\ pc = "reading"
    /\ IF rowCount = 0
       THEN EndWithError("FILE_NO_DATA_ROWS")
       ELSE /\ RecordRest(collector)
            /\ collector' = IF progress.invalid > 0 THEN Drained(collector)
                                                    ELSE NewCollector
            /\ pc' = IF progress.invalid > 0 THEN "rejecting" ELSE "validating"
            /\ progress' = IF progress.invalid > 0 THEN progress ELSE NoRows
    /\ UNCHANGED <<header, line, rowCount, seen>>

\* complete_job with progress.counts().
RejectFile ==
    /\ pc = "rejecting"
    /\ pc' = "finished"
    /\ job' = [job EXCEPT !.status = "rejected", !.total = progress.total,
                          !.valid = progress.valid, !.invalid = progress.invalid,
                          !.issueCount = collector.total]
    /\ UNCHANGED <<header, line, rowCount, seen, progress, collector, pending,
                   staged, issues>>

-----------------------------------------------------------------------------
(***************************************************************************)
(* _publish_once.  Its writes commit together; nobody looks in between.    *)
(***************************************************************************)

\* The rows are read in chunks, the last of which may be shorter.
EndsChunk(n) == n % ChunkSize = 0 \/ n = Len(staged)

\* _resolve_and_validate_chunk, row by row: found is what the chunk's queries say of
\* the row, progress.total the number of rows before it.  A row is invalid when
\* it adds to the count of issues.  A chunk's issues are stored before the next.
ValidateRow(found) ==
    LET n       == progress.total + 1
        c       == Added(collector, DatabaseIssues(staged[n].number, staged[n].cells, found))
        invalid == c.total > collector.total
        reused  == ~invalid /\ found.fact = "same"
    IN  /\ pc = "validating"
        /\ progress.total < Len(staged)
        /\ progress' = [progress EXCEPT !.total = n,
                                        !.invalid = @ + (IF invalid THEN 1 ELSE 0),
                                        !.reused = @ + (IF reused THEN 1 ELSE 0)]
        /\ IF EndsChunk(n)
           THEN issues' = issues \o c.kept /\ collector' = Drained(c)
           ELSE collector' = c /\ UNCHANGED issues
        /\ UNCHANGED <<header, pc, line, rowCount, seen, pending, staged, job>>

FinishInvalid ==
    /\ pc = "validating"
    /\ progress.total = Len(staged)
    /\ collector.total > 0
    /\ pc' = "finished"
    /\ issues' = issues \o Persisted(collector)
    /\ job' = [job EXCEPT !.status = "rejected", !.total = Len(staged),
                          !.valid = Len(staged) - progress.invalid,
                          !.invalid = progress.invalid,
                          !.issueCount = collector.total]
    /\ UNCHANGED <<header, line, rowCount, seen, progress, collector, pending, staged>>

\* _link_or_insert_chunk for every chunk, and the counters of the whole file.
FinishPublished ==
    /\ pc = "validating"
    /\ progress.total = Len(staged)
    /\ collector.total = 0
    /\ pc' = "finished"
    /\ job' = [job EXCEPT !.status = "published", !.total = Len(staged),
                          !.valid = Len(staged), !.invalid = 0, !.issueCount = 0,
                          !.inserted = Len(staged) - progress.reused,
                          !.reused = progress.reused]
    /\ UNCHANGED <<header, line, rowCount, seen, progress, collector, pending,
                   staged, issues>>

-----------------------------------------------------------------------------
Heights == {1, 2}

Next ==
    \/ ReadHeader
    \/ RejectHeader
    \/ HeaderRefused
    \/ ScheduleRetry
    \/ ClaimAgain
    \/ \E height \in Heights :
         \/ ReadBlank(height)
         \/ ReadRagged(height)
         \/ \E cells \in Records : ReadRecord(cells, height)
    \/ \E code \in {"CSV_MALFORMED", "FILE_ENCODING_INVALID"} : ReadBroken(code)
    \/ EndOfFile
    \/ RejectFile
    \/ \E found \in Findings : ValidateRow(found)
    \/ FinishInvalid
    \/ FinishPublished

Spec == Init /\ [][Next]_vars

-----------------------------------------------------------------------------
(***************************************************************************)
(* What the row contract and its counters promise.                         *)
(***************************************************************************)

\* The rows of an attempt satisfy the constraints of their table.
StagedRowsStorable ==
    /\ \A k \in 1..Len(staged) : staged[k].number >= 2 /\ StorableRow(staged[k].cells)
    /\ \A j, k \in 1..Len(staged) :
         \/ staged[j].number = staged[k].number
         \/ staged[j].cells.id.value = staged[k].cells.id.value
         => j = k

\* Its issues satisfy sales_issue_identity_unique, and have the number of a row or none.
IssuesIdentified ==
    /\ \A k \in 1..Len(issues) : issues[k].row = 0 \/ issues[k].row >= 2
    /\ \A j, k \in 1..Len(issues) :
         /\ issues[j].row = issues[k].row
         /\ issues[j].column = issues[k].column
         /\ issues[j].code = issues[k].code
         => j = k

\* The length of the message stored with an issue.
MessageOf(issue) ==
    IF issue = FileIssue(HeaderError(header)) THEN HeaderMessage(header) ELSE Wording

MessagesStorable == \A k \in 1..Len(issues) : MessageOf(issues[k]) \in 1..MessageLength

\* And the counters of the job, in every batch (sales_job_counts_valid,
\* sales_job_publish_counts_valid, sales_job_rejection_has_issue).
CountersStorable ==
    /\ job.total = job.valid + job.invalid
    /\ job.issueCount >= job.invalid
    /\ job.status = "rejected" => job.issueCount > 0
    /\ IF job.status = "published"
       THEN /\ job.invalid = 0 /\ job.issueCount = 0
            /\ job.valid = job.inserted + job.reused
       ELSE job.inserted = 0 /\ job.reused = 0

RefusedForItsHeader ==
    pc \in {"refused", "waiting"} \/ job.status \in {"retry_wait", "failed"} =>
        /\ HeaderError(header) \in {"SCHEMA_DUPLICATE_COLUMN", "SCHEMA_UNKNOWN_COLUMN"}
        /\ ~MessageFits(header)

\* A refused write looks like a failure of the database: the worker retries the same
\* file until its attempts are used up, and names nothing that is wrong with it.
\* The database refuses no write about a file but one: the issue of a header whose
\* repeated or unknown names are too long to be listed.  All that is stored of the
\* rows, issues and counters, of whatever cells, satisfies the tables.
OnlyLongHeadersAreRefused ==
    /\ StagedRowsStorable
    /\ IssuesIdentified
    /\ MessagesStorable
    /\ CountersStorable
    /\ RefusedForItsHeader

\* A file that is validated or published has each of its rows staged, under the
\* number of its line, and at least one: no file is published in part.
WholeFileIsStaged ==
    pc = "validating" \/ job.status = "published" =>
        /\ staged # <<>>
        /\ Len(staged) = rowCount
        /\ \A k \in 1..Len(staged) - 1 : staged[k].number < staged[k + 1].number
        /\ staged[Len(staged)].number <= line

Summaries == {k \in 1..Len(issues) : issues[k].code = "ISSUE_LIMIT_REACHED"}

Details == (1..Len(issues)) \ Summaries

\* "The job still retains the full issue count and a summary says when details
\* were truncated": a rejected job has all its issues stored, or at most as many
\* as it may, and then the one summary states how many of them are details.
IssuesAccountedFor ==
    job.status = "rejected" =>
        \/ Summaries = {} /\ Cardinality(Details) = job.issueCount
        \/ \E k \in 1..Len(issues) :
              /\ Summaries = {k}
              /\ issues[k].stated = Cardinality(Details)
              /\ Cardinality(Details) < job.issueCount
              /\ Len(issues) <= MaxIssues
=============================================================================
