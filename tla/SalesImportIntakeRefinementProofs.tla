------------------- MODULE SalesImportIntakeRefinementProofs -------------------
(***************************************************************************)
(* The intake implements the intake actions of SalesImportQueue, step by   *)
(* step: a transaction that decides an upload is one of them, a step of a  *)
(* worker is left to the queue, and every other step changes neither the   *)
(* status of an intake nor a job.                                          *)
(***************************************************************************)
EXTENDS SalesImportIntakeRefinement, SalesImportIntakeProofs

Jobs == [i \in Imports |-> JobRow(i)]

LEMMA StatusChange ==
  ASSUME NEW i \in Imports, NEW s, row'[i].status = s,
         \A k \in Imports \ {i} : row'[k] = row[k]
  PROVE  IntakeStatus' = [IntakeStatus EXCEPT ![i] = s]
  BY DEF IntakeStatus

LEMMA JobsChange ==
  ASSUME NEW i \in Imports, NEW new, JobRow(i)' = new,
         \A k \in Imports \ {i} : job'[k] = job[k]
  PROVE  Jobs' = [Jobs EXCEPT ![i] = new]
  <1>1. ASSUME NEW k \in Imports, k # i
        PROVE  JobRow(k)' = JobRow(k)
    BY <1>1 DEF JobRow
  <1>2. \A k \in Imports : JobRow(k)' = IF k = i THEN new ELSE JobRow(k)
    BY <1>1
  <1> QED BY <1>2 DEF Jobs

\* A job row of the queue, as far as the intake knows it.
QueueRow(status, finished, error) ==
    [status |-> status, availableAt |-> 0, attemptCount |-> 0, maxAttempts |-> 5,
     token |-> 0, leaseExpiresAt |-> 0, finished |-> finished, error |-> error]

LEMMA RowOfJob ==
  ASSUME NEW i \in Imports
  PROVE  JobRow(i) = QueueRow(job[i].status, job[i].status \in {"published", "failed"},
                              job[i].error)
  BY DEF JobRow, QueueRow

LEMMA RowOfNextJob ==
  ASSUME NEW i \in Imports
  PROVE  JobRow(i)' = QueueRow(job'[i].status, job'[i].status \in {"published", "failed"},
                               job'[i].error)
  BY DEF JobRow, QueueRow

\* enqueue_import does to the job what the queue says it does.
LEMMA EnqueueAgrees ==
  ASSUME IntakeInv, NEW i \in Imports, NEW s \in {"receiving", "received", "failed"},
         NEW Csv \in SUBSET Imports, Formats(Csv)', row'[i].status = s, row'[i].file \in Files, Enqueue(i),
         \/ job[i].status = "absent" /\ s = "receiving"
         \/ job[i].status = "waiting_file" /\ s # "receiving"
  PROVE  JobRow(i)' = Queue(Csv)!Enqueued(i, s)
  <1> DEFINE new     == Enqueued(i)
             desired == DesiredStatus(i, row'[i].status)
             wanted  == Queue(Csv)!DesiredStatus(i, s)
  <1>1. job[i] \in Job /\ job' = [job EXCEPT ![i] = new] /\ TypeOK
    BY DEF IntakeInv, TypeOK, Enqueue
  <1>2. job'[i] = new
    BY <1>1 DEF TypeOK
  <1>3. /\ desired = wanted
        /\ s = "receiving" => wanted = "waiting_file"
        /\ s = "received" => wanted \in {"queued", "awaiting_parser"}
        /\ s = "failed" => wanted = "failed"
    BY DEF Formats, DesiredStatus, Queue!DesiredStatus
  <1>4. CASE job[i].status = "absent"
    <2>1. new = [NoJob EXCEPT !.status = "waiting_file"]
      BY <1>3, <1>4 DEF Enqueued
    <2>2. new.status = "waiting_file" /\ new.error = ""
      BY <2>1 DEF NoJob
    <2> HIDE DEF new
    <2>3. JobRow(i)' = QueueRow("waiting_file", FALSE, "")
      <3> DEFINE finished == job'[i].status \in {"published", "failed"}
      <3>1. job'[i].status = "waiting_file" /\ job'[i].error = ""
        BY <1>2, <2>2
      <3>2. finished = FALSE
        <4>1. ~finished
          BY <3>1
        <4> QED BY <4>1
      <3>3. JobRow(i)' = QueueRow(job'[i].status, finished, job'[i].error)
        BY RowOfNextJob
      <3> HIDE DEF finished
      <3> QED BY <3>1, <3>2, <3>3
    <2>4. Queue(Csv)!Enqueued(i, s) = [Queue(Csv)!NoJob EXCEPT !.status = wanted, !.availableAt = 0,
             !.finished = (wanted = "failed")]
      BY <1>4, RowOfJob DEF Queue!Enqueued, JobRow
    <2>5. wanted = "waiting_file" /\ (wanted = "failed") = FALSE
      BY <1>3, <1>4
    <2> HIDE DEF wanted
    <2>6. Queue(Csv)!Enqueued(i, s) = QueueRow("waiting_file", FALSE, "")
      <3> DEFINE finished == wanted = "failed"
      <3>1. Queue(Csv)!Enqueued(i, s) = [Queue(Csv)!NoJob EXCEPT !.status = wanted, !.availableAt = 0,
               !.finished = finished]
        BY <2>4
      <3>2. finished = FALSE
        BY <2>5
      <3> HIDE DEF finished
      <3> QED BY <2>5, <3>1, <3>2 DEF Queue!NoJob, QueueRow
    <2> QED BY <2>3, <2>6
  <1>5. CASE job[i].status = "waiting_file"
    <2> DEFINE error == IF s = "failed" THEN "INTAKE_STORAGE_FAILED" ELSE job[i].error
    <2>1. new = [status |-> desired, error |-> error]
      BY <1>3, <1>5 DEF Enqueued
    <2>2. new.status = wanted /\ new.error = error
      BY <1>3, <2>1
    <2> HIDE DEF new
    <2> DEFINE finished == s = "failed"
    <2>3. JobRow(i)' = QueueRow(wanted, finished, error)
      <3> DEFINE done == job'[i].status \in {"published", "failed"}
      <3>1. done = finished
        BY <1>2, <1>3, <1>5, <2>2
      <3>2. JobRow(i)' = QueueRow(job'[i].status, done, job'[i].error)
        BY RowOfNextJob
      <3> HIDE DEF done, finished
      <3> QED BY <1>2, <2>2, <3>1, <3>2
    <2>4. JobRow(i) = QueueRow("waiting_file", FALSE, job[i].error)
      <3> DEFINE done == job[i].status \in {"published", "failed"}
      <3>1. done = FALSE
        BY <1>5
      <3>2. JobRow(i) = QueueRow(job[i].status, done, job[i].error)
        BY RowOfJob
      <3> HIDE DEF done
      <3> QED BY <1>5, <3>1, <3>2
    <2> DEFINE jobs == [k \in Imports |-> JobRow(k)]
    <2>5. PICK r : r = jobs[i]
      OBVIOUS
    <2>6. r = QueueRow("waiting_file", FALSE, job[i].error)
      BY <2>4, <2>5
    <2>7. r.status = "waiting_file"
      BY <2>6 DEF QueueRow
    <2>8. PICK next : next = Queue(Csv)!Enqueued(i, s)
      OBVIOUS
    <2>9. next = IF wanted = "failed"
                 THEN [r EXCEPT !.status = "failed", !.finished = TRUE,
                                !.error = "INTAKE_STORAGE_FAILED"]
                 ELSE [r EXCEPT !.status = wanted, !.availableAt = 0]
      <3>1. wanted \in {"queued", "awaiting_parser", "failed"}
        BY <1>3, <1>5
      <3> HIDE DEF jobs
      <3> QED BY <2>5, <2>7, <2>8, <3>1 DEF Queue!Enqueued, jobs
    <2>10. next = QueueRow(wanted, finished, error)
      <3>1. CASE s = "failed"
        <4>1. wanted = "failed" /\ error = "INTAKE_STORAGE_FAILED"
          BY <1>3, <3>1
        <4>2. finished = TRUE
          BY <3>1
        <4>3. next = [r EXCEPT !.status = "failed", !.finished = TRUE,
                               !.error = "INTAKE_STORAGE_FAILED"]
          BY <2>9, <4>1
        <4> HIDE DEF wanted, finished, error
        <4> QED BY <2>6, <4>1, <4>2, <4>3 DEF QueueRow
      <3>2. CASE s # "failed"
        <4>1. wanted # "failed" /\ error = job[i].error
          BY <1>3, <1>5, <3>2
        <4>2. finished = FALSE
          <5>1. ~finished
            BY <3>2
          <5> QED BY <5>1
        <4>3. next = [r EXCEPT !.status = wanted, !.availableAt = 0]
          BY <2>9, <4>1
        <4> HIDE DEF wanted, finished, error
        <4> QED BY <2>6, <4>1, <4>2, <4>3 DEF QueueRow
      <3> QED BY <3>1, <3>2
    <2> QED BY <2>3, <2>8, <2>10
  <1> QED BY <1>4, <1>5

\* So a transaction that decides an import is the intake action of the queue for it.
LEMMA DecisionRefines ==
  ASSUME IntakeInv, NEW i \in Imports, Enqueue(i), row[i].status # "absent" => row[i].file \in Files,
         row'[i].file \in Files,
         \/ row[i].status = "absent" /\ row'[i].status = "receiving"
         \/ row[i].status = "receiving" /\ row'[i].status \in {"received", "failed"},
         \A k \in Imports \ {i} : row'[k] = row[k]
  PROVE  IntakeStep
  <1> SUFFICES ASSUME NEW Csv \in SUBSET Imports, Formats(Csv)'
               PROVE  QueueIntakeStep(Csv)
    BY DEF IntakeStep
  <1>1. TypeOK /\ JobOK(i)
    BY DEF IntakeInv
  <1>2. PICK s \in {"receiving", "received", "failed"} : s = row'[i].status
    OBVIOUS
  <1>3. \/ job[i].status = "absent" /\ s = "receiving"
        \/ job[i].status = "waiting_file" /\ s # "receiving"
    BY <1>1, <1>2 DEF JobOK
  <1>4. JobRow(i)' = Queue(Csv)!Enqueued(i, s)
    BY <1>2, <1>3, EnqueueAgrees
  <1>5. \A k \in Imports \ {i} : job'[k] = job[k]
    BY <1>1 DEF Enqueue, TypeOK
  <1> DEFINE new == Queue(Csv)!Enqueued(i, s)
  <1>6. JobRow(i)' = new
    BY <1>4
  <1> HIDE DEF new
  <1>7. Jobs' = [Jobs EXCEPT ![i] = new]
    BY <1>5, <1>6, JobsChange
  <1>8. IntakeStatus' = [IntakeStatus EXCEPT ![i] = s] /\ IntakeStatus[i] = row[i].status
    BY <1>2, StatusChange DEF IntakeStatus
  <1>9. Jobs' = [Jobs EXCEPT ![i] = Queue(Csv)!Enqueued(i, s)]
    BY <1>7 DEF new
  <1>10. CASE s = "receiving"
    BY <1>2, <1>8, <1>9, <1>10 DEF QueueIntakeStep, Queue!ReceiveUpload, Jobs
  <1>11. CASE s = "received"
    BY <1>2, <1>8, <1>9, <1>11 DEF QueueIntakeStep, Queue!MarkReceived, Jobs
  <1>12. CASE s = "failed"
    BY <1>2, <1>8, <1>9, <1>12 DEF QueueIntakeStep, Queue!MarkFailed, Jobs
  <1> QED BY <1>10, <1>11, <1>12

-----------------------------------------------------------------------------
(***************************************************************************)
(* Step by step.                                                           *)
(***************************************************************************)

\* A row is written under the status it ends with, and the file stays what it was.
LEMMA CreateRefines ==
  ASSUME IntakeInv, NEW q \in Requests, NEW i \in Imports, Create(q, i)
  PROVE  IntakeStep
  <1> DEFINE new == [NoRow EXCEPT !.status = "receiving", !.file = request[q].file,
                                  !.key = request[q].key]
  <1>1. /\ TypeOK /\ RequestOK(q) /\ request[q].pc = "create" /\ Enqueue(i)
        /\ row[i].status = "absent" /\ row' = [row EXCEPT ![i] = new]
    BY DEF IntakeInv, Create
  <1>2. new.status = "receiving" /\ new.file = request[q].file
    BY DEF NoRow
  <1> HIDE DEF new
  <1>3. row'[i] = new /\ \A k \in Imports \ {i} : row'[k] = row[k]
    BY <1>1 DEF TypeOK
  <1>4. request[q].file \in Files
    BY <1>1 DEF RequestOK
  <1> QED BY <1>1, <1>2, <1>3, <1>4, DecisionRefines

LEMMA MarkReceivedRefines ==
  ASSUME IntakeInv, NEW i \in Imports, NEW v, MarkReceived(i, v)
  PROVE  IntakeStep
  <1> DEFINE new == [row[i] EXCEPT !.status = "received", !.version = v]
  <1>1. /\ TypeOK /\ RowOK(i) /\ row[i] \in Row /\ Enqueue(i)
        /\ row[i].status = "receiving" /\ row' = [row EXCEPT ![i] = new]
    BY DEF IntakeInv, TypeOK, MarkReceived, AwaitsStorage
  <1>2. new.status = "received" /\ new.file = row[i].file
    BY <1>1 DEF Row
  <1> HIDE DEF new
  <1>3. row'[i] = new /\ \A k \in Imports \ {i} : row'[k] = row[k]
    BY <1>1 DEF TypeOK
  <1>4. row[i].file \in Files
    BY <1>1 DEF RowOK
  <1> QED BY <1>1, <1>2, <1>3, <1>4, DecisionRefines

LEMMA MarkFailedRefines ==
  ASSUME IntakeInv, NEW i \in Imports, NEW code, MarkFailed(i, code)
  PROVE  IntakeStep
  <1> DEFINE new == [row[i] EXCEPT !.status = "failed", !.code = code]
  <1>1. /\ TypeOK /\ RowOK(i) /\ row[i] \in Row /\ Enqueue(i)
        /\ row[i].status = "receiving" /\ row' = [row EXCEPT ![i] = new]
    BY DEF IntakeInv, TypeOK, MarkFailed, AwaitsStorage
  <1>2. new.status = "failed" /\ new.file = row[i].file
    BY <1>1 DEF Row
  <1> HIDE DEF new
  <1>3. row'[i] = new /\ \A k \in Imports \ {i} : row'[k] = row[k]
    BY <1>1 DEF TypeOK
  <1>4. row[i].file \in Files
    BY <1>1 DEF RowOK
  <1> QED BY <1>1, <1>2, <1>3, <1>4, DecisionRefines

LEMMA ReconcileRefines ==
  ASSUME IntakeInv, NEW r \in Reconcilers, Reconcile(r)
  PROVE  IntakeStep
  <1>1. TypeOK /\ RunOK(r) /\ reconciler[r].verdict # "none"
    BY DEF IntakeInv, Reconcile
  <1>2. PICK i \in Imports : i = Min(reconciler[r].batch)
    BY <1>1, OldestOfBatch DEF Run, RunOK, TypeOK
  <1>3. CASE reconciler[r].verdict = "stored"
    BY <1>2, <1>3, MarkReceivedRefines DEF Reconcile
  <1>4. CASE reconciler[r].verdict # "stored"
    BY <1>2, <1>4, MarkFailedRefines DEF Reconcile
  <1> QED BY <1>3, <1>4

\* A key is added to a decided row without a word to the queue; an interrupted
\* upload of the older release is received.
LEMMA RecordKeyRefines ==
  ASSUME IntakeInv, NEW o \in Operators, RecordKey(o)
  PROVE  IntakeStep \/ UNCHANGED <<IntakeStatus, job>>
  <1>1. TypeOK /\ OperatorOK(o) /\ operator[o].version # 0
    BY DEF IntakeInv, RecordKey
  <1>2. PICK i \in Imports : i = operator[o].import
    BY <1>1 DEF OperatorOK, Backfill, TypeOK
  <1>3. RowOK(i) /\ row[i] \in Row
    BY DEF IntakeInv, TypeOK
  <1>4. CASE row[i].status = "receiving"
    <2> DEFINE new == [row[i] EXCEPT !.key = operator[o].key, !.status = "received",
                                     !.version = operator[o].version]
    <2>1. row' = [row EXCEPT ![i] = new] /\ Enqueue(i)
      BY <1>2, <1>4 DEF RecordKey
    <2>2. new.status = "received" /\ new.file = row[i].file
      BY <1>3 DEF Row
    <2> HIDE DEF new
    <2>3. row'[i] = new /\ \A k \in Imports \ {i} : row'[k] = row[k]
      BY <1>1, <2>1 DEF TypeOK
    <2>4. row[i].file \in Files
      BY <1>3, <1>4 DEF RowOK
    <2>5. IntakeStep
      BY <1>4, <2>1, <2>2, <2>3, <2>4, DecisionRefines
    <2> QED BY <2>5
  <1>5. CASE row[i].status # "receiving"
    <2> DEFINE new == [row[i] EXCEPT !.key = operator[o].key]
    <2>1. row' = [row EXCEPT ![i] = new] /\ job' = job
      BY <1>2, <1>5 DEF RecordKey
    <2>2. new.status = row[i].status
      BY <1>3 DEF Row
    <2> HIDE DEF new
    <2>3. \A k \in Imports : row'[k].status = row[k].status
      BY <1>1, <2>1, <2>2 DEF TypeOK
    <2> QED BY <2>1, <2>3 DEF IntakeStatus
  <1> QED BY <1>4, <1>5

LEMMA EnqueueExistingRefines ==
  ASSUME IntakeInv, NEW q \in Requests, EnqueueExisting(q)
  PROVE  UNCHANGED <<IntakeStatus, job>>
  <1>1. TypeOK /\ RequestOK(q) /\ request[q].pc = "enqueue" /\ row' = row
    BY DEF IntakeInv, EnqueueExisting
  <1>2. PICK i \in Imports : i = request[q].import
    BY <1>1 DEF RequestOK, Holding
  <1>3. row[i].status # "absent"
    BY <1>1, <1>2 DEF RequestOK, Holding
  <1>4. job' = [job EXCEPT ![i] = Enqueued(i)] /\ Enqueued(i) = job[i]
    BY <1>1, <1>2, <1>3, NothingToEnqueue DEF EnqueueExisting, Enqueue
  <1>5. job' = job
    BY <1>1, <1>4 DEF TypeOK
  <1> QED BY <1>1, <1>5 DEF IntakeStatus

LEMMA ConfirmRefines ==
  ASSUME IntakeInv, NEW q \in Requests, Confirm(q)
  PROVE  IntakeStep
  <1>1. RequestOK(q) /\ request[q].pc = "confirm"
    BY DEF IntakeInv, Confirm
  <1>2. PICK i \in Imports : i = request[q].import
    BY <1>1 DEF RequestOK, Holding, Uploading
  <1> QED BY <1>2, MarkReceivedRefines DEF Confirm

LEMMA NextRefines ==
  ASSUME IntakeInv, [Next]_vars
  PROVE  \/ IntakeStep
         \/ \E i \in Imports : WorkerStep(i)
         \/ UNCHANGED <<IntakeStatus, job>>
  <1>1. CASE UNCHANGED <<row, job>>
    BY <1>1 DEF IntakeStatus
  <1>2. ASSUME NEW q \in Requests, RequestStep(q)
        PROVE  IntakeStep \/ UNCHANGED <<IntakeStatus, job>>
    <2>1. \/ EnqueueExisting(q)
          \/ \E i \in Imports : Create(q, i)
          \/ Confirm(q)
          \/ UNCHANGED <<row, job>>
      BY <1>2 DEF RequestStep, Submit, CreateRefused, LookAgain, PutLands, PutAnswered,
                  PutFails, VerifySucceeds, VerifyFails, ConfirmRefused, Respond, RequestDies
    <2> QED BY <1>1, <2>1, EnqueueExistingRefines, CreateRefines, ConfirmRefines
            DEF IntakeStatus
  <1>3. ASSUME NEW r \in Reconcilers, ReconcilerStep(r)
        PROVE  IntakeStep \/ UNCHANGED <<IntakeStatus, job>>
    <2>1. Reconcile(r) \/ UNCHANGED <<row, job>>
      BY <1>3 DEF ReconcilerStep, RunGoesOn, StartRun, Inspect, Defer, ReconcileRefused, RunDies
    <2> QED BY <2>1, ReconcileRefines DEF IntakeStatus
  <1>4. ASSUME NEW o \in Operators, OperatorStep(o)
        PROVE  IntakeStep \/ UNCHANGED <<IntakeStatus, job>>
    <2>1. RecordKey(o) \/ UNCHANGED <<row, job>>
      BY <1>4 DEF OperatorStep, StartBackfill, Discover, BackfillFails
    <2> QED BY <2>1, RecordKeyRefines DEF IntakeStatus
  <1>5. ASSUME NEW i \in Imports, StorageStep(i)
        PROVE  UNCHANGED <<row, job>>
    BY <1>5 DEF StorageStep, LateWriteLands, LateWriteIsLost, ForeignWrite, VersionVanishes
  <1>6. CASE UNCHANGED vars
    BY <1>1, <1>6 DEF vars
  <1> QED BY <1>1, <1>2, <1>3, <1>4, <1>5, <1>6 DEF Next

LEMMA IntakeStartsAbsent ==
  ASSUME Init, NEW i \in Imports \ Legacy
  PROVE  IntakeStatus[i] = "absent" /\ JobRow(i) = Queue(Imports)!NoJob
  <1>1. row[i] = NoRow /\ job[i] = NoJob
    BY DEF Init
  <1>2. row[i].status = "absent" /\ job[i].status = "absent" /\ job[i].error = ""
    <2>1. NoRow.status = "absent"
      BY DEF NoRow
    <2>2. NoJob.status = "absent" /\ NoJob.error = ""
      BY DEF NoJob
    <2> QED BY <1>1, <2>1, <2>2
  <1> DEFINE finished == job[i].status \in {"published", "failed"}
  <1>3. finished = FALSE
    <2>1. ~finished
      BY <1>2
    <2> QED BY <2>1
  <1>4. JobRow(i) = QueueRow(job[i].status, finished, job[i].error)
    BY RowOfJob
  <1> HIDE DEF finished
  <1> QED BY <1>2, <1>3, <1>4 DEF QueueRow, Queue!NoJob, IntakeStatus

\* Uploads of CSV and XLSX files, reconciler runs and backfills, in whatever order they
\* commit, do to the status of an import and to its job what one intake action of the
\* queue does, or nothing; all else that happens to a job is the work of a worker.
THEOREM IntakeImplementsQueueIntake == Spec => ImplementsQueueIntake
  <1>1. Init => \A i \in Imports \ Legacy :
                    IntakeStatus[i] = "absent" /\ JobRow(i) = Queue(Imports)!NoJob
    BY IntakeStartsAbsent
  <1>2. IntakeInv /\ [Next]_vars
          => [IntakeStep \/ \E i \in Imports : WorkerStep(i)]_<<IntakeStatus, job>>
    BY NextRefines
  <1>3. Spec => \A i \in Imports \ Legacy :
                    IntakeStatus[i] = "absent" /\ JobRow(i) = Queue(Imports)!NoJob
    BY <1>1 DEF Spec
  <1>4. Spec => [][IntakeStep \/ \E i \in Imports : WorkerStep(i)]_<<IntakeStatus, job>>
    BY <1>2, IntakeInvariant, PTL DEF Spec
  <1> QED BY <1>3, <1>4 DEF ImplementsQueueIntake
=============================================================================
