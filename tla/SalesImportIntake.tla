------------------------- MODULE SalesImportIntake -------------------------
(***************************************************************************)
(* How an uploaded file becomes a stored original: receive_sales_import    *)
(* commits an intake row, calls S3 outside any transaction, and confirms   *)
(* the row in another transaction.  Uploads may die or lose the answer of  *)
(* S3 anywhere, so reconcile_sales_imports decides what was left over from *)
(* what it finds in the bucket, and backfill_sales_import_kms adds to rows *)
(* of an older release the encryption key they lack.                       *)
(*                                                                         *)
(* A file is the source system and the SHA-256 of an upload, all that the  *)
(* duplicate rule compares.  A transaction that decides an intake locks    *)
(* its row until it commits, and enqueue_import runs inside it, so each is *)
(* one step.  Reads of S3 are strongly consistent; a write whose client    *)
(* gave up may still land (`late`).                                        *)
(***************************************************************************)
EXTENDS Integers, Sequences, FiniteSets, FiniteSetsExt

CONSTANTS
    Imports,       \* primary keys, numbered in the order of created_at
    Legacy,        \* the first of them: rows older than KMS provenance
    Files,         \* what can be uploaded: a source system and a SHA-256
    Submitted,     \* bound: the files that users submit from now on; the others
                   \* are those of rows of the older release
    CsvFiles,      \* the files whose format is "csv"
    NoFile,        \* an import nobody created
    Keys,          \* ARNs of KMS keys; processes may be configured differently
    NoKey,         \* storage_kms_key_arn IS NULL
    Requests,      \* web processes
    Reconcilers,   \* runs of reconcile_sales_imports that may overlap
    Operators,     \* people who run backfill_sales_import_kms
    GraceCoversUploads,  \* no upload takes longer than the grace period
    MaxVersions    \* bound: versions under one object key

ASSUME ImportsAssumption ==
    /\ IsFiniteSet(Imports)
    /\ Imports = 1..Cardinality(Imports)
    /\ Legacy = 1..Cardinality(Legacy)
    /\ Legacy \subseteq Imports

ASSUME ValuesAssumption ==
    /\ Submitted \subseteq Files
    /\ CsvFiles \subseteq Files
    /\ NoFile \notin Files
    /\ NoKey \notin Keys
    /\ GraceCoversUploads \in BOOLEAN
    /\ MaxVersions \in Nat \ {0}

VARIABLES
    row,          \* the SalesImport rows
    job,          \* status and error of the SalesImportJob rows
    bucket,       \* the object versions under the key of each import
    late,         \* imports with a write S3 may still carry out
    request,      \* what each web process is doing
    reconciler,   \* what each run of the reconciler is doing
    operator      \* what each run of the backfill is doing

vars == <<row, job, bucket, late, request, reconciler, operator>>

Statuses == {"absent", "receiving", "received", "failed"}

FailureCodes == {"", "object_missing", "verification_failed"}

\* What workers do to a job between queued and its end is SalesImportQueue.
JobStatuses ==
    {"absent", "waiting_file", "awaiting_parser", "queued", "published", "failed"}

\* version 0 is the empty storage_version_id.
NoRow == [status |-> "absent", file |-> NoFile, key |-> NoKey, version |-> 0,
          code |-> ""]

NoJob == [status |-> "absent", error |-> ""]

\* good: the bytes and the metadata are those of the import.
Version(good, key) == [good |-> good, key |-> key, here |-> TRUE]

\* import 0 is none; version is the last one this request saw land.
NoRequest == [pc |-> "idle", file |-> NoFile, key |-> NoKey, import |-> 0,
              version |-> 0]

\* keyless: the imports of the batch that were read without a key.
NoRun == [batch |-> {}, keyless |-> {}, verdict |-> "none", version |-> 0]

\* wanted: the version recorded in the row that was read.
NoBackfill == [import |-> 0, wanted |-> 0, key |-> NoKey, version |-> 0]

-----------------------------------------------------------------------------
(***************************************************************************)
(* Rows and objects.                                                       *)
(***************************************************************************)

\* Both _existing_active_import and the unique index.
ActiveImports(f) ==
    {i \in Imports : row[i].file = f /\ row[i].status \in {"receiving", "received"}}

\* The version a read without VersionId finds, 0 for a 404.
Latest(i) ==
    LET found == {v \in DOMAIN bucket[i] : bucket[i][v].here}
    IN  IF found = {} THEN 0 ELSE Max(found)

\* Mutant: the metadata of the object is not compared with the row.
ReadableObject(i, v, key) == bucket[i][v].here /\ bucket[i][v].key = key

\* _validate_stored_object
ValidObject(i, v, key) ==
    /\ bucket[i][v].here
    /\ bucket[i][v].good
    /\ bucket[i][v].key = key

\* Mutant: every file has a parser.
DesiredForAnyFormat(i, status) ==
    CASE status = "receiving" -> "waiting_file"
      [] status = "received"  -> "queued"
      [] status = "failed"    -> "failed"

DesiredStatus(i, status) ==
    CASE status = "receiving" -> "waiting_file"
      [] status = "received"  -> IF row'[i].file \in CsvFiles
                                 THEN "queued" ELSE "awaiting_parser"
      [] status = "failed"    -> "failed"

\* Mutant: the job of an import that was submitted again starts anew.
EnqueuedAnew(i) == [NoJob EXCEPT !.status = DesiredStatus(i, row'[i].status)]

\* enqueue_import, for the status the intake row has at the end of the step.
Enqueued(i) ==
    LET desired == DesiredStatus(i, row'[i].status)
    IN  CASE job[i].status = "absent" -> [NoJob EXCEPT !.status = desired]
          [] job[i].status = "waiting_file" ->
                 [status |-> desired,
                  error  |-> IF desired = "failed" THEN "INTAKE_STORAGE_FAILED"
                                                   ELSE job[i].error]
          [] OTHER -> job[i]

Enqueue(i) == job' = [job EXCEPT ![i] = Enqueued(i)]

\* Mutant: the update is not restricted to rows that are still receiving.
AwaitsUnlessFailed(i) == row[i].status \in {"receiving", "received"}

\* The filter of both transitions; "updated != 1" raises RuntimeError.
AwaitsStorage(i) == row[i].status = "receiving"

\* mark_received and enqueue_import
MarkReceived(i, v) ==
    /\ AwaitsStorage(i)
    /\ row' = [row EXCEPT ![i].status = "received", ![i].version = v]
    /\ Enqueue(i)

\* mark_failed and enqueue_import
MarkFailed(i, code) ==
    /\ AwaitsStorage(i)
    /\ row' = [row EXCEPT ![i].status = "failed", ![i].code = code]
    /\ Enqueue(i)

\* A request still works on the upload of this import, or S3 may.
UploadUnderWay(i) ==
    \/ i \in late
    \/ \E q \in Requests :
           request[q].import = i /\ request[q].pc \in {"store", "verify", "confirm"}

-----------------------------------------------------------------------------
(***************************************************************************)
(* Rows of the older release: never a key, and the object was stored with  *)
(* some key, or, for an upload that was interrupted, maybe not at all.     *)
(***************************************************************************)
LegacyRow(f, status, code) ==
    [NoRow EXCEPT !.file = f, !.status = status, !.code = code,
                  !.version = IF status = "received" THEN 1 ELSE 0]

LegacyJob(r) ==
    CASE r.status = "receiving" -> [NoJob EXCEPT !.status = "waiting_file"]
      [] r.status = "received" ->
             [NoJob EXCEPT !.status = IF r.file \in CsvFiles
                                      THEN "queued" ELSE "awaiting_parser"]
      [] r.status = "failed" ->
             [status |-> "failed", error |-> "INTAKE_STORAGE_FAILED"]

LegacyRows ==
    UNION {{LegacyRow(f, "receiving", ""),
            LegacyRow(f, "received", ""),
            LegacyRow(f, "failed", "object_missing")} : f \in Files}

Init ==
    /\ \E old \in [Legacy -> LegacyRows] :
           /\ row = [i \in Imports |-> IF i \in Legacy THEN old[i] ELSE NoRow]
           /\ job = [i \in Imports |->
                         IF i \in Legacy THEN LegacyJob(old[i]) ELSE NoJob]
    /\ \A f \in Files : Cardinality(ActiveImports(f)) <= 1
    /\ \E stored \in [Imports -> {<<>>} \cup {<<Version(TRUE, k)>> : k \in Keys}] :
           /\ \A i \in Imports : /\ row[i].status = "received" => stored[i] # <<>>
                                 /\ row[i].status \in {"absent", "failed"}
                                        => stored[i] = <<>>
           /\ bucket = stored
    /\ late = {}
    /\ request = [q \in Requests |-> NoRequest]
    /\ reconciler = [r \in Reconcilers |-> NoRun]
    /\ operator = [o \in Operators |-> NoBackfill]

-----------------------------------------------------------------------------
(***************************************************************************)
(* receive_sales_import, in a web process q.                               *)
(***************************************************************************)

Goes(q, pc) == request' = [request EXCEPT ![q].pc = pc]

\* The first look for a duplicate, by a process configured with key k.
Submit(q, f, k) ==
    /\ request[q].pc = "idle"
    /\ request' = [request EXCEPT ![q] =
           IF ActiveImports(f) = {}
           THEN [NoRequest EXCEPT !.pc = "create", !.file = f, !.key = k]
           ELSE [NoRequest EXCEPT !.pc = "enqueue", !.file = f, !.key = k,
                                  !.import = Min(ActiveImports(f))]]
    /\ UNCHANGED <<row, job, bucket, late, reconciler, operator>>

\* enqueue_import(existing), whatever the status of that import is by now.
EnqueueExisting(q) ==
    /\ request[q].pc = "enqueue"
    /\ Goes(q, "duplicate")
    /\ UNCHANGED <<row, bucket, late, reconciler, operator>>
    /\ Enqueue(request[q].import)

\* The new row and its job, in one transaction.
Create(q, i) ==
    /\ request[q].pc = "create"
    /\ ActiveImports(request[q].file) = {}
    /\ row[i].status = "absent"
    /\ \A k \in 1..(i - 1) : row[k].status # "absent"
    /\ row' = [row EXCEPT ![i] = [NoRow EXCEPT !.status = "receiving",
                                               !.file = request[q].file,
                                               !.key = request[q].key]]
    /\ Enqueue(i)
    /\ request' = [request EXCEPT ![q].pc = "store", ![q].import = i]
    /\ UNCHANGED <<bucket, late, reconciler, operator>>

\* The unique index refuses the row: IntegrityError.
CreateRefused(q) ==
    /\ request[q].pc = "create"
    /\ ActiveImports(request[q].file) # {}
    /\ Goes(q, "again")
    /\ UNCHANGED <<row, job, bucket, late, reconciler, operator>>

\* The second look for the duplicate, which may be gone: the error is raised.
LookAgain(q) ==
    LET found == ActiveImports(request[q].file)
    IN  /\ request[q].pc = "again"
        /\ request' = IF found = {}
                      THEN [request EXCEPT ![q].pc = "error"]
                      ELSE [request EXCEPT ![q].pc = "duplicate",
                                           ![q].import = Min(found)]
        /\ UNCHANGED <<row, job, bucket, late, reconciler, operator>>

\* S3 stores the bytes.  boto3 repeats a call whose answer was lost, so this
\* may happen more than once before the request goes on.
PutLands(q) ==
    LET i == request[q].import
    IN  /\ request[q].pc = "store"
        /\ Len(bucket[i]) < MaxVersions
        /\ bucket' = [bucket EXCEPT ![i] = Append(@, Version(TRUE, request[q].key))]
        /\ request' = [request EXCEPT ![q].version = Len(bucket[i]) + 1]
        /\ UNCHANGED <<row, job, late, reconciler, operator>>

PutAnswered(q) ==
    /\ request[q].pc = "store"
    /\ request[q].version # 0
    /\ Goes(q, "verify")
    /\ UNCHANGED <<row, job, bucket, late, reconciler, operator>>

\* put_object raised, or its answer lacked a version or the checksum.
PutFails(q) ==
    /\ request[q].pc = "store"
    /\ Goes(q, "awaiting")
    /\ late' \in {late, late \cup {request[q].import}}
    /\ UNCHANGED <<row, job, bucket, reconciler, operator>>

\* verify, of the exact version that was stored.
VerifySucceeds(q) ==
    /\ request[q].pc = "verify"
    /\ ValidObject(request[q].import, request[q].version, request[q].key)
    /\ Goes(q, "confirm")
    /\ UNCHANGED <<row, job, bucket, late, reconciler, operator>>

VerifyFails(q) ==
    /\ request[q].pc = "verify"
    /\ Goes(q, "awaiting")
    /\ UNCHANGED <<row, job, bucket, late, reconciler, operator>>

Confirm(q) ==
    /\ request[q].pc = "confirm"
    /\ MarkReceived(request[q].import, request[q].version)
    /\ Goes(q, "stored")
    /\ UNCHANGED <<bucket, late, reconciler, operator>>

\* RuntimeError: somebody else decided the import.
ConfirmRefused(q) ==
    /\ request[q].pc = "confirm"
    /\ ~AwaitsStorage(request[q].import)
    /\ Goes(q, "error")
    /\ UNCHANGED <<row, job, bucket, late, reconciler, operator>>

Answers == {"stored", "duplicate", "awaiting", "error"}

\* The view shows the answer.
Respond(q) ==
    /\ request[q].pc \in Answers
    /\ request' = [request EXCEPT ![q] = NoRequest]
    /\ UNCHANGED <<row, job, bucket, late, reconciler, operator>>

\* The web process dies; S3 may still carry out what it was sent.
RequestDies(q) ==
    /\ request[q].pc \notin {"idle"} \cup Answers
    /\ late' \in {late} \cup IF request[q].pc = "store"
                             THEN {late \cup {request[q].import}} ELSE {}
    /\ request' = [request EXCEPT ![q] = NoRequest]
    /\ UNCHANGED <<row, job, bucket, reconciler, operator>>

-----------------------------------------------------------------------------
(***************************************************************************)
(* reconcile_sales_imports.  A run reads its rows once, through a cursor,  *)
(* and then asks S3 about one after the other.                             *)
(***************************************************************************)

\* Mutant: imports without an object are passed over.
ReceivingWithObject == {i \in Imports : row[i].status = "receiving" /\ Latest(i) # 0}

Receiving == {i \in Imports : row[i].status = "receiving"}

\* All receiving rows that are older than some cutoff.
StartRun(r, cutoff) ==
    LET batch == {i \in Receiving : i <= cutoff}
    IN  /\ reconciler[r] = NoRun
        /\ batch # {}
        /\ GraceCoversUploads => \A i \in batch : ~UploadUnderWay(i)
        /\ reconciler' = [reconciler EXCEPT ![r] =
               [NoRun EXCEPT !.batch = batch,
                             !.keyless = {i \in batch : row[i].key = NoKey}]]
        /\ UNCHANGED <<row, job, bucket, late, request, operator>>

\* Mutant: the key the process is configured with is expected.
VerdictForConfiguredKey(i, key) ==
    CASE Latest(i) = 0 -> "object_missing"
      [] Latest(i) # 0 /\ ValidObject(i, Latest(i), CHOOSE k \in Keys : TRUE) ->
             "stored"
      [] OTHER -> "verification_failed"

\* What verify makes of the newest version and the recorded key.
Verdict(i, key) ==
    CASE Latest(i) = 0 -> "object_missing"
      [] Latest(i) # 0 /\ ValidObject(i, Latest(i), key) -> "stored"
      [] OTHER -> "verification_failed"

\* S3 answers the question about the oldest import of the batch.
Inspect(r) ==
    LET i == Min(reconciler[r].batch)
    IN  /\ reconciler[r].batch # {}
        /\ reconciler[r].verdict = "none"
        /\ i \notin reconciler[r].keyless
        /\ reconciler' = [reconciler EXCEPT ![r].verdict = Verdict(i, row[i].key),
                                            ![r].version = Latest(i)]
        /\ UNCHANGED <<row, job, bucket, late, request, operator>>

\* The run is through with the oldest import of its batch.
Passed(run) ==
    LET rest == run.batch \ {Min(run.batch)}
    IN  IF rest = {} THEN NoRun
        ELSE [NoRun EXCEPT !.batch = rest, !.keyless = run.keyless \cap rest]

Passes(r) == reconciler' = [reconciler EXCEPT ![r] = Passed(@)]

\* S3 cannot be asked, or the row has no key to compare with.
Defer(r) ==
    /\ reconciler[r].batch # {}
    /\ reconciler[r].verdict = "none"
    /\ Passes(r)
    /\ UNCHANGED <<row, job, bucket, late, request, operator>>

Reconcile(r) ==
    LET i == Min(reconciler[r].batch)
    IN  /\ reconciler[r].verdict # "none"
        /\ IF reconciler[r].verdict = "stored"
           THEN MarkReceived(i, reconciler[r].version)
           ELSE MarkFailed(i, reconciler[r].verdict)
        /\ Passes(r)
        /\ UNCHANGED <<bucket, late, request, operator>>

\* RuntimeError: the upload, or another run, decided the import meanwhile.
ReconcileRefused(r) ==
    /\ reconciler[r].verdict # "none"
    /\ ~AwaitsStorage(Min(reconciler[r].batch))
    /\ Passes(r)
    /\ UNCHANGED <<row, job, bucket, late, request, operator>>

RunDies(r) ==
    /\ reconciler[r] # NoRun
    /\ reconciler' = [reconciler EXCEPT ![r] = NoRun]
    /\ UNCHANGED <<row, job, bucket, late, request, operator>>

-----------------------------------------------------------------------------
(***************************************************************************)
(* backfill_sales_import_kms                                               *)
(***************************************************************************)

\* What both the command and record_legacy_kms_key_arn require of the row.
LacksKey(i) ==
    /\ row[i].key = NoKey
    /\ \/ row[i].status = "receiving" /\ row[i].version = 0
       \/ row[i].status \in {"received", "failed"} /\ row[i].version # 0

StartBackfill(o, i) ==
    /\ operator[o] = NoBackfill
    /\ LacksKey(i)
    /\ operator' = [operator EXCEPT ![o] =
           [NoBackfill EXCEPT !.import = i, !.wanted = row[i].version]]
    /\ UNCHANGED <<row, job, bucket, late, request, reconciler>>

\* discover_kms_provenance: the recorded version, or else the newest one.
Discover(o) ==
    LET i == operator[o].import
        v == IF operator[o].wanted # 0 THEN operator[o].wanted ELSE Latest(i)
    IN  /\ i # 0
        /\ operator[o].version = 0
        /\ v # 0
        /\ ValidObject(i, v, bucket[i][v].key)
        /\ operator' = [operator EXCEPT ![o].key = bucket[i][v].key,
                                        ![o].version = v]
        /\ UNCHANGED <<row, job, bucket, late, request, reconciler>>

\* Mutant: the row is not read again, and whether it lacks a key is not checked.
RecordKeyAsRead(o) ==
    LET i == operator[o].import
        received == [row[i] EXCEPT !.key = operator[o].key, !.status = "received",
                                   !.version = operator[o].version]
    IN  /\ operator[o].version # 0
        /\ IF operator[o].wanted = 0
           THEN row' = [row EXCEPT ![i] = received] /\ Enqueue(i)
           ELSE row' = [row EXCEPT ![i].key = operator[o].key] /\ UNCHANGED job
        /\ operator' = [operator EXCEPT ![o] = NoBackfill]
        /\ UNCHANGED <<bucket, late, request, reconciler>>

\* record_legacy_kms_key_arn, and mark_received for an interrupted upload.
RecordKey(o) ==
    LET i == operator[o].import
        received == [row[i] EXCEPT !.key = operator[o].key, !.status = "received",
                                   !.version = operator[o].version]
    IN  /\ operator[o].version # 0
        /\ LacksKey(i)
        /\ IF row[i].status = "receiving"
           THEN row' = [row EXCEPT ![i] = received] /\ Enqueue(i)
           ELSE row' = [row EXCEPT ![i].key = operator[o].key] /\ UNCHANGED job
        /\ operator' = [operator EXCEPT ![o] = NoBackfill]
        /\ UNCHANGED <<bucket, late, request, reconciler>>

\* CommandError: not found, not valid, S3 is away, or the row changed.
BackfillFails(o) ==
    /\ operator[o] # NoBackfill
    /\ operator' = [operator EXCEPT ![o] = NoBackfill]
    /\ UNCHANGED <<row, job, bucket, late, request, reconciler>>

-----------------------------------------------------------------------------
(***************************************************************************)
(* Workers, for all that SalesImportQueue has in between, and S3 itself.   *)
(***************************************************************************)

Queued(i) == job[i].status = "queued"

\* The exact recorded version was downloaded and its rows were published.
WorkerPublishes(i) ==
    /\ Queued(i)
    /\ row[i].key # NoKey
    /\ ValidObject(i, row[i].version, row[i].key)
    /\ job' = [job EXCEPT ![i].status = "published"]
    /\ UNCHANGED <<row, bucket, late, request, reconciler, operator>>

\* Any failure that says nothing about the object, a missing key among them.
WorkerFails(i) ==
    /\ Queued(i)
    /\ job' = [job EXCEPT ![i] = [status |-> "failed", error |-> "other"]]
    /\ UNCHANGED <<row, bucket, late, request, reconciler, operator>>

\* _complete_stored_object_failure: mark_stored_object_failed and complete_job.
WorkerRefusesObject(i) ==
    /\ Queued(i)
    /\ row[i].key # NoKey
    /\ ~ValidObject(i, row[i].version, row[i].key)
    /\ row[i].status = "received"
    /\ job' = [job EXCEPT ![i] = [status |-> "failed", error |-> "other"]]
    /\ row' = [row EXCEPT ![i].status = "failed", ![i].code = "object_missing"]
    /\ UNCHANGED <<bucket, late, request, reconciler, operator>>

\* requeue_job
Requeue(i) ==
    /\ job[i].status = "failed"
    /\ row[i].status = "received"
    /\ row[i].file \in CsvFiles
    /\ job' = [job EXCEPT ![i] = [status |-> "queued", error |-> ""]]
    /\ UNCHANGED <<row, bucket, late, request, reconciler, operator>>

LateWriteLands(i) ==
    /\ i \in late
    /\ Len(bucket[i]) < MaxVersions
    /\ bucket' = [bucket EXCEPT ![i] = Append(@, Version(TRUE, row[i].key))]
    /\ late' = late \ {i}
    /\ UNCHANGED <<row, job, request, reconciler, operator>>

LateWriteIsLost(i) ==
    /\ i \in late
    /\ late' = late \ {i}
    /\ UNCHANGED <<row, job, bucket, request, reconciler, operator>>

\* Another client of the bucket writes under the same key, at most once.
ForeignWrite(i, k) ==
    /\ row[i].status # "absent"
    /\ Len(bucket[i]) < MaxVersions
    /\ \A v \in DOMAIN bucket[i] : bucket[i][v].good
    /\ bucket' = [bucket EXCEPT ![i] = Append(@, Version(FALSE, k))]
    /\ UNCHANGED <<row, job, late, request, reconciler, operator>>

\* A recorded version is deleted, which the application never does.
VersionVanishes(i) ==
    /\ row[i].version # 0
    /\ bucket[i][row[i].version].here
    /\ bucket' = [bucket EXCEPT ![i][row[i].version].here = FALSE]
    /\ UNCHANGED <<row, job, late, request, reconciler, operator>>

-----------------------------------------------------------------------------
RequestStep(q) ==
    \/ \E f \in Submitted, k \in Keys : Submit(q, f, k)
    \/ EnqueueExisting(q)
    \/ \E i \in Imports : Create(q, i)
    \/ CreateRefused(q)
    \/ LookAgain(q)
    \/ PutLands(q)
    \/ PutAnswered(q)
    \/ PutFails(q)
    \/ VerifySucceeds(q)
    \/ VerifyFails(q)
    \/ Confirm(q)
    \/ ConfirmRefused(q)
    \/ Respond(q)
    \/ RequestDies(q)

RunGoesOn(r) ==
    \/ Inspect(r)
    \/ Defer(r)
    \/ Reconcile(r)
    \/ ReconcileRefused(r)
    \/ RunDies(r)

ReconcilerStep(r) ==
    \/ \E cutoff \in Imports : StartRun(r, cutoff)
    \/ RunGoesOn(r)

OperatorStep(o) ==
    \/ \E i \in Imports : StartBackfill(o, i)
    \/ Discover(o)
    \/ RecordKey(o)
    \/ BackfillFails(o)

WorkerStep(i) ==
    \/ WorkerPublishes(i)
    \/ WorkerFails(i)
    \/ WorkerRefusesObject(i)
    \/ Requeue(i)

StorageStep(i) ==
    \/ LateWriteLands(i)
    \/ LateWriteIsLost(i)
    \/ \E k \in Keys : ForeignWrite(i, k)
    \/ VersionVanishes(i)

Next ==
    \/ \E q \in Requests : RequestStep(q)
    \/ \E r \in Reconcilers : ReconcilerStep(r)
    \/ \E o \in Operators : OperatorStep(o)
    \/ \E i \in Imports : WorkerStep(i) \/ StorageStep(i)

Spec == Init /\ [][Next]_vars

-----------------------------------------------------------------------------
(***************************************************************************)
(* Safety.                                                                 *)
(***************************************************************************)

\* The version an import records is one its own upload wrote, with the bytes, the
\* metadata and the key the row names: workers that read exactly this version read
\* what was uploaded, whoever confirmed it, however often S3 stored it, and
\* whoever else wrote under the same key.
EvidenceIsGenuine ==
    \A i \in Imports :
        row[i].version # 0 =>
            /\ row[i].version \in DOMAIN bucket[i]
            /\ bucket[i][row[i].version].good
            /\ row[i].key \in {NoKey, bucket[i][row[i].version].key}

\* The job always says what the intake says, whoever decided the upload: it waits
\* exactly as long as the file is awaited, reaches the workers or the parser queue
\* when the file is stored, and has failed when there is nothing to process.
JobAgreesWithIntake ==
    \A i \in Imports :
        /\ row[i].status = "absent" <=> job[i].status = "absent"
        /\ row[i].status = "receiving" <=> job[i].status = "waiting_file"
        /\ row[i].status = "failed" => job[i].status = "failed"
        /\ row[i].status = "failed" /\ row[i].version = 0
               <=> job[i].error = "INTAKE_STORAGE_FAILED"
        /\ job[i].status = "awaiting_parser" => row[i].file \notin CsvFiles
        /\ job[i].status = "queued" => row[i].file \in CsvFiles

\* What the user reads stays true: "stored" is said of an import that records the
\* very version this upload wrote, and "already submitted" of an import of the
\* same file and source, even after it was decided by somebody else.
AnswersAreTrue ==
    \A q \in Requests :
        LET i == request[q].import
        IN  /\ request[q].pc = "stored" =>
                   /\ row[i].version = request[q].version
                   /\ row[i].key = request[q].key
            /\ request[q].pc \in {"stored", "duplicate", "awaiting"} =>
                   row[i].file = request[q].file

\* With a grace period that covers every upload, an import is failed before it was
\* received only if the newest object under its key really is not its own file:
\* uploads with a key that is no longer configured are recovered like any other.
RefusedOnlyWithoutFile ==
    \A i \in Imports \ Legacy :
        row[i].status = "failed" /\ row[i].version = 0 =>
            \/ Latest(i) = 0
            \/ ~bucket[i][Latest(i)].good
            \/ bucket[i][Latest(i)].key # row[i].key

\* An intake is decided once.  Later only a failure of the very version it recorded
\* and the missing key of an old row are added: the version, the key and the reason
\* that were recorded are never replaced, in whatever order late transactions of
\* uploads, reconciler runs, backfills and workers arrive.
EvidenceIsSealed ==
    [][\A i \in Imports :
           /\ row[i].status = "received" => row'[i].status \in {"received", "failed"}
           /\ row[i].status = "failed" =>
                  row'[i] = [row[i] EXCEPT !.key = row'[i].key]
           /\ row[i].version # 0 => row'[i].version = row[i].version
           /\ row[i].key # NoKey => row'[i].key = row[i].key]_vars

-----------------------------------------------------------------------------
(***************************************************************************)
(* Liveness.  The reconciler is scheduled again and again, and not every   *)
(* run of it dies, or finds S3 away, when the turn of an import comes.     *)
(***************************************************************************)

\* It is the turn of import j in a run that import i awaits.
Serves(r, i, j) == i \in reconciler[r].batch /\ Min(reconciler[r].batch) = j

\* A run goes on or dies; time passes, so that again and again a new run looks at every
\* row; and for none of the imports it is to reach do all runs die, or lack S3, at its
\* turn or at that of an older one.
ReconcilerReaches(imports) ==
    /\ \A r \in Reconcilers :
           /\ WF_vars(RunGoesOn(r))
           /\ SF_vars(StartRun(r, Cardinality(Imports)))
    /\ \A i \in imports : \A j \in 1..i :
           /\ SF_vars(\E r \in Reconcilers : Serves(r, i, j) /\ Inspect(r))
           /\ SF_vars(\E r \in Reconcilers :
                  Serves(r, i, j) /\ (Reconcile(r) \/ ReconcileRefused(r)))
           /\ SF_vars(\E r \in Reconcilers :
                  Serves(r, i, j) /\ j \in reconciler[r].keyless /\ Defer(r))

\* Every row without a key is looked at by an operator, again and again.
BackfillAttempted ==
    \A i \in Imports :
        /\ SF_vars(\E o \in Operators : StartBackfill(o, i))
        /\ SF_vars(\E o \in Operators : operator[o].import = i /\ Discover(o))
        /\ SF_vars(\E o \in Operators : operator[o].import = i /\ RecordKey(o))
        /\ SF_vars(\E o \in Operators : operator[o].import = i /\ BackfillFails(o))

LiveSpec == Spec /\ ReconcilerReaches(Imports \ Legacy)

AssistedSpec == Spec /\ ReconcilerReaches(Imports) /\ BackfillAttempted

Awaited(i) == row[i].status = "receiving"

\* An upload that died, or never learned what S3 did, is decided: no import of this
\* release stays in receiving, where its file could not be uploaded again.
EveryUploadIsDecided ==
    \A i \in Imports \ Legacy : Awaited(i) ~> ~Awaited(i)

\* docs/sales-import-intake.md says of the reconciliation command that it checks
\* older rows and either recovers their S3 version, records a missing/invalid
\* object, or leaves a transient AWS error for a later retry.  So a row whose
\* reads S3 answers does not stay in receiving, rows of the older release included.
EveryAnsweredRowIsDecided ==
    \A i \in Imports : Awaited(i) ~> ~Awaited(i)
=============================================================================
