----------------------- MODULE SalesImportIntakeProofs -----------------------
(***************************************************************************)
(* Proofs about SalesImportIntake, for any number of imports, files, keys, *)
(* web processes, reconciler runs and operators.                           *)
(*                                                                         *)
(* The inductive invariant says what every process may rely on later: an   *)
(* object version it found to be that of the import still is, because rows *)
(* and objects only grow (Grows), whoever changes them in between.         *)
(***************************************************************************)
EXTENDS SalesImportIntake, FiniteSetTheorems, WellFoundedInduction, TLAPS

-----------------------------------------------------------------------------
(***************************************************************************)
(* The smallest and the largest of a set of numbers.                       *)
(***************************************************************************)

LEMMA SmallestNumber ==
  ASSUME NEW S, S \subseteq Nat, S # {}
  PROVE  /\ Min(S) \in S
         /\ \A x \in S : Min(S) <= x
  <1> DEFINE R == {ss \in Nat \X Nat : ss[1] < ss[2]}
  <1>1. IsWellFoundedOn(R, Nat)
    BY NatLessThanWellFounded DEF OpToRel
  <1>2. \A x, y \in Nat : y < x => <<y, x>> \in R
    OBVIOUS
  <1> HIDE DEF R
  <1>3. PICK x \in S : \A y \in S : <<y, x>> \notin R
    BY <1>1, WFMin
  <1>4. ASSUME NEW y \in S
        PROVE  x <= y
    <2>1. x \in Nat /\ y \in Nat
      OBVIOUS
    <2>2. ~(y < x)
      BY <1>2, <1>3, <2>1
    <2> QED BY <2>1, <2>2
  <1>5. \E z \in S : \A y \in S : z <= y
    BY <1>4
  <1> QED BY <1>5 DEF Min

LEMMA LargestNumber ==
  ASSUME NEW n \in Nat, NEW S, S \subseteq 1..n, S # {}
  PROVE  /\ Max(S) \in S
         /\ \A x \in S : Max(S) >= x
  <1> DEFINE T == {n - x : x \in S}
  <1>1. T \subseteq Nat /\ T # {}
    <2>1. \A x \in S : x \in 1..n
      OBVIOUS
    <2>2. \A x \in 1..n : n - x \in Nat
      OBVIOUS
    <2> QED BY <2>1, <2>2
  <1>2. Min(T) \in T /\ \A t \in T : Min(T) <= t
    <2> HIDE DEF T
    <2> QED BY <1>1, SmallestNumber
  <1>3. PICK x \in S : Min(T) = n - x
    BY <1>2
  <1>4. \A y \in S : n - x <= n - y
    BY <1>2, <1>3
  <1> HIDE DEF T
  <1>5. \A y \in S : x >= y
    BY <1>4
  <1>6. \E z \in S : \A y \in S : z >= y
    BY <1>5
  <1> QED BY <1>6 DEF Max

LEMMA ImportNumbers ==
  /\ Imports \subseteq Nat \ {0}
  /\ 0 \notin Imports
  /\ Legacy \subseteq Imports
  <1>1. Cardinality(Imports) \in Nat
    BY ImportsAssumption, FS_CardinalityType
  <1> QED BY <1>1, ImportsAssumption

-----------------------------------------------------------------------------
(***************************************************************************)
(* The inductive invariant.                                                *)
(***************************************************************************)

Row ==
    [status : Statuses, file : Files \cup {NoFile}, key : Keys \cup {NoKey},
     version : Nat, code : FailureCodes]

Job == [status : JobStatuses, error : {"", "INTAKE_STORAGE_FAILED", "other"}]

Object == [good : BOOLEAN, key : Keys, here : BOOLEAN]

Uploading == {"store", "verify", "confirm", "stored", "awaiting"}

Holding == Uploading \cup {"enqueue", "duplicate"}

Request ==
    [pc : Holding \cup {"idle", "create", "again", "error"}, file : Files \cup {NoFile},
     key : Keys \cup {NoKey}, import : Imports \cup {0}, version : Nat]

Run ==
    [batch : SUBSET Imports, keyless : SUBSET Imports,
     verdict : {"none", "stored", "object_missing", "verification_failed"}, version : Nat]

Backfill ==
    [import : Imports \cup {0}, wanted : Nat, key : Keys \cup {NoKey}, version : Nat]

TypeOK ==
    /\ row \in [Imports -> Row]
    /\ job \in [Imports -> Job]
    /\ bucket \in [Imports -> Seq(Object)]
    /\ late \subseteq Imports
    /\ request \in [Requests -> Request]
    /\ reconciler \in [Reconcilers -> Run]
    /\ operator \in [Operators -> Backfill]

\* Version v under the key of import i has the bytes and the metadata of the import
\* and is encrypted with this KMS key.
Genuine(i, v, key) ==
    /\ v \in 1..Len(bucket[i])
    /\ bucket[i][v].good
    /\ bucket[i][v].key = key

RowOK(i) ==
    /\ row[i].status = "absent" => row[i] = NoRow /\ i \notin Legacy
    /\ row[i].status # "absent" => row[i].file \in Files
    /\ row[i].status \in {"absent", "receiving"} => row[i].version = 0
    /\ row[i].status = "received" => row[i].version # 0
    /\ row[i].status # "absent" /\ row[i].key = NoKey => i \in Legacy
    /\ row[i].version # 0 =>
           \E key \in Keys : Genuine(i, row[i].version, key) /\ row[i].key \in {NoKey, key}

JobOK(i) ==
    /\ row[i].status = "absent" <=> job[i].status = "absent"
    /\ row[i].status = "receiving" <=> job[i].status = "waiting_file"
    /\ row[i].status = "failed" => job[i].status = "failed"
    /\ row[i].status = "failed" /\ row[i].version = 0
           <=> job[i].error = "INTAKE_STORAGE_FAILED"
    /\ job[i].status = "awaiting_parser" => row[i].file \notin CsvFiles
    /\ job[i].status = "queued" => row[i].file \in CsvFiles

\* What a web process may still rely on of the import it works on.
RequestOK(q) ==
    /\ request[q].pc # "idle" => request[q].file \in Files /\ request[q].key \in Keys
    /\ request[q].pc \notin Uploading \cup {"error"} => request[q].version = 0
    /\ request[q].pc \in Holding => request[q].import \in Imports
    /\ request[q].pc \in {"verify", "confirm", "stored"} => request[q].version # 0
    /\ \A i \in Imports :
         request[q].import = i =>
           /\ request[q].pc \in Holding =>
                row[i].status # "absent" /\ row[i].file = request[q].file
           /\ request[q].pc \in Uploading => row[i].key = request[q].key /\ i \notin Legacy
           /\ request[q].pc \in Uploading /\ request[q].version # 0 =>
                Genuine(i, request[q].version, request[q].key)
           /\ request[q].pc = "stored" => row[i].version = request[q].version

\* A run confirms only the oldest import of its batch, with the key its row has.
RunOK(r) ==
    /\ reconciler[r].verdict # "none" => reconciler[r].batch # {}
    /\ \A i \in reconciler[r].batch :
         /\ row[i].status # "absent"
         /\ i \notin reconciler[r].keyless => row[i].key # NoKey
         /\ i = Min(reconciler[r].batch) /\ reconciler[r].verdict # "none" =>
              i \notin reconciler[r].keyless
         /\ i = Min(reconciler[r].batch) /\ reconciler[r].verdict = "stored" =>
              reconciler[r].version # 0 /\ Genuine(i, reconciler[r].version, row[i].key)

\* An operator records the key of the version the row names or is going to name.
OperatorOK(o) ==
    /\ operator[o].import = 0 => operator[o].version = 0
    /\ \A i \in Imports :
         operator[o].import = i =>
           /\ row[i].status # "absent"
           /\ operator[o].wanted # 0 => operator[o].wanted = row[i].version
           /\ operator[o].wanted = 0 /\ row[i].key = NoKey => row[i].version = 0
           /\ operator[o].version # 0 =>
                /\ operator[o].key \in Keys
                /\ Genuine(i, operator[o].version, operator[o].key)
                /\ operator[o].wanted \in {0, operator[o].version}

LateOK(i) == row[i].status # "absent" /\ row[i].key # NoKey /\ i \notin Legacy

IntakeInv ==
    /\ TypeOK
    /\ \A i \in Imports : RowOK(i)
    /\ \A i \in Imports : JobOK(i)
    /\ \A i \in late : LateOK(i)
    /\ \A q \in Requests : RequestOK(q)
    /\ \A r \in Reconcilers : RunOK(r)
    /\ \A o \in Operators : OperatorOK(o)

\* Rows and objects only grow: what was recorded is never replaced, a version is
\* recorded together with its key, and what was decided stays decided.
Grows ==
    \A i \in Imports :
        /\ row[i].status # "absent" =>
               row'[i].status # "absent" /\ row'[i].file = row[i].file
        /\ row[i].status = "received" => row'[i].status \in {"received", "failed"}
        /\ row[i].status = "failed" =>
               /\ row'[i].status = "failed" /\ row'[i].code = row[i].code
               /\ row'[i].version = row[i].version
        /\ row[i].version # 0 => row'[i].version = row[i].version
        /\ row[i].version = 0 /\ row'[i].version # 0 => row'[i].key # NoKey
        /\ row[i].key # NoKey => row'[i].key = row[i].key
        /\ \A v \in 1..Len(bucket[i]) :
               /\ v \in 1..Len(bucket'[i])
               /\ bucket[i][v].good => bucket'[i][v].good
               /\ bucket'[i][v].key = bucket[i][v].key

\* What every step does.
Kept == IntakeInv' /\ Grows

-----------------------------------------------------------------------------
(***************************************************************************)
(* What growing rows and objects leave true.                               *)
(***************************************************************************)

LEMMA GenuineKept ==
  ASSUME Grows, NEW i \in Imports, NEW v, NEW key, Genuine(i, v, key)
  PROVE  Genuine(i, v, key)'
  BY DEF Grows, Genuine

LEMMA RowKept ==
  ASSUME Grows, NEW i \in Imports, row'[i] = row[i], RowOK(i)
  PROVE  RowOK(i)'
  BY GenuineKept DEF RowOK

LEMMA JobKept ==
  ASSUME NEW i \in Imports, row'[i] = row[i], job'[i] = job[i], JobOK(i)
  PROVE  JobOK(i)'
  BY DEF JobOK

LEMMA LateKept ==
  ASSUME Grows, NEW i \in Imports, LateOK(i)
  PROVE  LateOK(i)'
  BY DEF Grows, LateOK

LEMMA RequestKept ==
  ASSUME TypeOK, Grows, \A i \in Imports : RowOK(i),
         NEW q \in Requests, request'[q] = request[q], RequestOK(q)
  PROVE  RequestOK(q)'
  <1>1. ASSUME NEW i \in Imports, request[q].import = i
        PROVE  /\ request[q].pc \in Holding =>
                    row'[i].status # "absent" /\ row'[i].file = request[q].file
               /\ request[q].pc \in Uploading => row'[i].key = request[q].key /\ i \notin Legacy
               /\ request[q].pc \in Uploading /\ request[q].version # 0 =>
                    Genuine(i, request[q].version, request[q].key)'
               /\ request[q].pc = "stored" => row'[i].version = request[q].version
    <2>1. request[q].pc \in Holding =>
            row'[i].status # "absent" /\ row'[i].file = request[q].file
      BY <1>1 DEF Grows, RequestOK
    <2>2. request[q].pc \in Uploading => row'[i].key = request[q].key /\ i \notin Legacy
      BY <1>1, ValuesAssumption DEF Grows, RequestOK, Uploading
    <2>3. ASSUME request[q].pc \in Uploading, request[q].version # 0
          PROVE  Genuine(i, request[q].version, request[q].key)'
      <3> DEFINE v == request[q].version
                 key == request[q].key
      <3>1. Genuine(i, v, key)
        BY <1>1, <2>3 DEF RequestOK
      <3>2. v' = v /\ key' = key
        OBVIOUS
      <3> HIDE DEF v, key
      <3>3. \A a, k : Genuine(i, a, k) => Genuine(i, a, k)'
        BY GenuineKept
      <3> QED BY <3>1, <3>2, <3>3 DEF Genuine, v, key
    <2>4. request[q].pc = "stored" => row'[i].version = request[q].version
      BY <1>1 DEF Grows, RequestOK
    <2> QED BY <2>1, <2>2, <2>3, <2>4
  <1> QED BY <1>1 DEF RequestOK, Genuine

LEMMA RunKept ==
  ASSUME TypeOK, Grows, NEW r \in Reconcilers, reconciler'[r] = reconciler[r], RunOK(r)
  PROVE  RunOK(r)'
  <1>1. ASSUME NEW i \in reconciler[r].batch
        PROVE  /\ row'[i].status # "absent"
               /\ i \notin reconciler[r].keyless => row'[i].key # NoKey
               /\ (i = Min(reconciler[r].batch) /\ reconciler[r].verdict = "stored") =>
                    Genuine(i, reconciler[r].version, row[i].key)'
    <2>1. i \in Imports
      BY DEF TypeOK, Run
    <2>2. row'[i].status # "absent" /\ (i \notin reconciler[r].keyless => row'[i].key # NoKey)
      BY <2>1 DEF Grows, RunOK
    <2>3. ASSUME i = Min(reconciler[r].batch), reconciler[r].verdict = "stored"
          PROVE  Genuine(i, reconciler[r].version, row[i].key)'
      <3>1. Genuine(i, reconciler[r].version, row[i].key) /\ row[i].key # NoKey
        BY <2>3 DEF RunOK
      <3>2. row'[i].key = row[i].key
        BY <2>1, <3>1 DEF Grows
      <3> QED BY <2>1, <3>1, <3>2 DEF Genuine, Grows
    <2> QED BY <2>2, <2>3
  <1> QED BY <1>1 DEF RunOK, Genuine

LEMMA OperatorKept ==
  ASSUME TypeOK, Grows, NEW o \in Operators, operator'[o] = operator[o], OperatorOK(o)
  PROVE  OperatorOK(o)'
  <1>1. ASSUME NEW i \in Imports, operator[o].import = i
        PROVE  /\ row'[i].status # "absent"
               /\ operator[o].wanted # 0 => operator[o].wanted = row'[i].version
               /\ (operator[o].wanted = 0 /\ row'[i].key = NoKey) => row'[i].version = 0
               /\ operator[o].version # 0 =>
                    /\ operator[o].key \in Keys
                    /\ Genuine(i, operator[o].version, operator[o].key)'
                    /\ operator[o].wanted \in {0, operator[o].version}
    <2>1. row'[i].status # "absent"
      BY <1>1 DEF Grows, OperatorOK
    <2>2. operator[o].wanted # 0 => operator[o].wanted = row'[i].version
      BY <1>1 DEF Grows, OperatorOK
    <2>3. (operator[o].wanted = 0 /\ row'[i].key = NoKey) => row'[i].version = 0
      BY <1>1 DEF Grows, OperatorOK
    <2>4. operator[o].version # 0 =>
                    /\ operator[o].key \in Keys
                    /\ Genuine(i, operator[o].version, operator[o].key)'
                    /\ operator[o].wanted \in {0, operator[o].version}
      BY <1>1 DEF OperatorOK, Genuine, Grows
    <2> QED BY <2>1, <2>2, <2>3, <2>4
  <1> QED BY <1>1 DEF OperatorOK, Genuine

\* A step keeps the invariant if rows and objects grow and what it changes is right.
LEMMA StepKeeps ==
  ASSUME IntakeInv, TypeOK', Grows,
         \A i \in Imports : row'[i] = row[i] \/ RowOK(i)',
         \A i \in Imports : (row'[i] = row[i] /\ job'[i] = job[i]) \/ JobOK(i)',
         \A i \in late' : i \in late \/ LateOK(i)',
         \A q \in Requests : request'[q] = request[q] \/ RequestOK(q)',
         \A r \in Reconcilers : reconciler'[r] = reconciler[r] \/ RunOK(r)',
         \A o \in Operators : operator'[o] = operator[o] \/ OperatorOK(o)'
  PROVE  Kept
  <1>1. TypeOK
    BY DEF IntakeInv
  <1>2. ASSUME NEW i \in Imports PROVE RowOK(i)'
    BY RowKept DEF IntakeInv
  <1>3. ASSUME NEW i \in Imports PROVE JobOK(i)'
    BY JobKept DEF IntakeInv
  <1>4. ASSUME NEW i \in late' PROVE LateOK(i)'
    <2>1. late \subseteq Imports
      BY <1>1 DEF TypeOK
    <2>2. i \in late => LateOK(i)
      BY DEF IntakeInv
    <2> QED BY <2>1, <2>2, LateKept
  <1>5. ASSUME NEW q \in Requests PROVE RequestOK(q)'
    BY <1>1, RequestKept DEF IntakeInv
  <1>6. ASSUME NEW r \in Reconcilers PROVE RunOK(r)'
    BY <1>1, RunKept DEF IntakeInv
  <1>7. ASSUME NEW o \in Operators PROVE OperatorOK(o)'
    BY <1>1, OperatorKept DEF IntakeInv
  <1> QED BY <1>2, <1>3, <1>4, <1>5, <1>6, <1>7 DEF IntakeInv, Kept

LEMMA SameRowsGrow ==
  ASSUME row' = row, bucket' = bucket
  PROVE  Grows
  BY DEF Grows

-----------------------------------------------------------------------------
(***************************************************************************)
(* Steps of a web process that leave rows, jobs and objects alone.         *)
(***************************************************************************)

OwnRequest(q) == request' = [request EXCEPT ![q] = request'[q]]

OnlyRequest(q) ==
    OwnRequest(q) /\ UNCHANGED <<row, job, bucket, reconciler, operator>>

LEMMA RequestStepKeeps ==
  ASSUME IntakeInv, NEW q \in Requests, OnlyRequest(q), request'[q] \in Request,
         RequestOK(q)', late' \subseteq Imports, \A i \in late' : i \in late \/ LateOK(i)
  PROVE  Kept
  <1>1. TypeOK'
    BY DEF IntakeInv, TypeOK, OnlyRequest, OwnRequest
  <1>2. Grows
    BY SameRowsGrow DEF OnlyRequest
  <1>3. \A p \in Requests : request'[p] = request[p] \/ RequestOK(p)'
    BY DEF OnlyRequest, OwnRequest, IntakeInv, TypeOK
  <1>4. \A i \in late' : i \in late \/ LateOK(i)'
    BY DEF OnlyRequest, LateOK
  <1> QED BY <1>1, <1>2, <1>3, <1>4, StepKeeps DEF OnlyRequest

LEMMA GoesEffect ==
  ASSUME TypeOK, NEW q \in Requests, NEW pc \in {"duplicate", "again", "error", "verify",
         "awaiting", "confirm", "stored"}, Goes(q, pc)
  PROVE  /\ OwnRequest(q) /\ request'[q] \in Request
         /\ request'[q].pc = pc /\ request'[q].file = request[q].file
         /\ request'[q].key = request[q].key /\ request'[q].import = request[q].import
         /\ request'[q].version = request[q].version
  <1>1. request[q] \in Request
    BY DEF TypeOK
  <1>2. request' = [request EXCEPT ![q] = [request[q] EXCEPT !.pc = pc]]
    BY DEF Goes
  <1>3. request'[q] = [request[q] EXCEPT !.pc = pc]
    BY <1>2 DEF TypeOK
  <1>4. [request[q] EXCEPT !.pc = pc] \in Request
    BY <1>1 DEF Request, Holding, Uploading
  <1> QED BY <1>1, <1>2, <1>3, <1>4 DEF OwnRequest, Request

LEMMA ActiveImport ==
  ASSUME TypeOK, NEW f \in Files, ActiveImports(f) # {}
  PROVE  /\ Min(ActiveImports(f)) \in Imports
         /\ row[Min(ActiveImports(f))].file = f
         /\ row[Min(ActiveImports(f))].status # "absent"
  <1>1. ActiveImports(f) \subseteq Nat
    BY ImportNumbers DEF ActiveImports
  <1>2. Min(ActiveImports(f)) \in ActiveImports(f)
    BY <1>1, SmallestNumber
  <1> QED BY <1>2 DEF ActiveImports

LEMMA SubmitKeeps ==
  ASSUME IntakeInv, NEW q \in Requests, NEW f \in Submitted, NEW k \in Keys, Submit(q, f, k)
  PROVE  Kept
  <1>1. TypeOK /\ UNCHANGED <<row, job, bucket, late, reconciler, operator>>
    BY DEF IntakeInv, Submit
  <1>2. f \in Files
    BY ValuesAssumption
  <1>3. CASE ActiveImports(f) = {}
    <2> DEFINE new == [NoRequest EXCEPT !.pc = "create", !.file = f, !.key = k]
    <2>1. request' = [request EXCEPT ![q] = new]
      BY <1>3 DEF Submit
    <2>2. request'[q] = new /\ OwnRequest(q)
      BY <1>1, <2>1 DEF TypeOK, OwnRequest
    <2>3. /\ new \in Request /\ new.pc = "create" /\ new.file = f /\ new.key = k
          /\ new.version = 0
      BY <1>2 DEF NoRequest, Request
    <2> HIDE DEF new
    <2>4. RequestOK(q)'
      BY <1>2, <2>2, <2>3 DEF RequestOK, Holding, Uploading
    <2> QED BY <1>1, <2>2, <2>3, <2>4, RequestStepKeeps DEF OnlyRequest, TypeOK
  <1>4. CASE ActiveImports(f) # {}
    <2> DEFINE found == Min(ActiveImports(f))
               new   == [NoRequest EXCEPT !.pc = "enqueue", !.file = f, !.key = k,
                                          !.import = found]
    <2>1. request' = [request EXCEPT ![q] = new]
      BY <1>4 DEF Submit
    <2>2. found \in Imports /\ row[found].file = f /\ row[found].status # "absent"
      BY <1>1, <1>4, <1>2, ActiveImport
    <2> HIDE DEF found
    <2>3. request'[q] = new /\ OwnRequest(q)
      BY <1>1, <2>1 DEF TypeOK, OwnRequest
    <2>4. /\ new \in Request /\ new.pc = "enqueue" /\ new.file = f /\ new.key = k
          /\ new.version = 0 /\ new.import = found
      BY <1>2, <2>2 DEF NoRequest, Request, Holding
    <2> HIDE DEF new
    <2>5. RequestOK(q)'
      BY <1>1, <1>2, <2>2, <2>3, <2>4 DEF RequestOK, Holding, Uploading
    <2> QED BY <1>1, <2>3, <2>4, <2>5, RequestStepKeeps DEF OnlyRequest, TypeOK
  <1> QED BY <1>3, <1>4

\* The job of an import that exists already follows its row as it is.
LEMMA NothingToEnqueue ==
  ASSUME IntakeInv, NEW i \in Imports, row[i].status # "absent", row'[i] = row[i]
  PROVE  Enqueued(i) = job[i]
  <1>1. JobOK(i) /\ job[i] \in Job
    BY DEF IntakeInv, TypeOK
  <1>2. CASE job[i].status = "waiting_file"
    <2>1. row'[i].status = "receiving"
      BY <1>1, <1>2 DEF JobOK
    <2>2. Enqueued(i) = [status |-> "waiting_file", error |-> job[i].error]
      BY <1>2, <2>1 DEF Enqueued, DesiredStatus
    <2> QED BY <1>1, <1>2, <2>2 DEF Job
  <1>3. CASE job[i].status # "waiting_file"
    BY <1>1, <1>3 DEF JobOK, Enqueued
  <1> QED BY <1>2, <1>3

LEMMA EnqueueExistingKeeps ==
  ASSUME IntakeInv, NEW q \in Requests, EnqueueExisting(q)
  PROVE  Kept
  <1>1. TypeOK /\ RequestOK(q)
    BY DEF IntakeInv
  <1>2. /\ request[q].pc = "enqueue" /\ Goes(q, "duplicate")
        /\ UNCHANGED <<row, bucket, late, reconciler, operator>>
    BY DEF EnqueueExisting
  <1>3. PICK i \in Imports : i = request[q].import
    BY <1>1, <1>2 DEF RequestOK, Holding
  <1>4. row[i].status # "absent" /\ row[i].file = request[q].file
    BY <1>1, <1>2, <1>3 DEF RequestOK, Holding
  <1>5. job' = job
    <2>1. job' = [job EXCEPT ![i] = Enqueued(i)]
      BY <1>3 DEF EnqueueExisting, Enqueue
    <2>2. Enqueued(i) = job[i]
      BY <1>2, <1>4, NothingToEnqueue
    <2> QED BY <1>1, <2>1, <2>2 DEF TypeOK
  <1>6. RequestOK(q)'
    BY <1>1, <1>2, GoesEffect DEF RequestOK, Holding, Uploading
  <1> QED BY <1>1, <1>2, <1>5, <1>6, GoesEffect, RequestStepKeeps DEF OnlyRequest, TypeOK

LEMMA LookAgainKeeps ==
  ASSUME IntakeInv, NEW q \in Requests, LookAgain(q)
  PROVE  Kept
  <1>1. TypeOK /\ RequestOK(q) /\ UNCHANGED <<row, job, bucket, late, reconciler, operator>>
    BY DEF IntakeInv, LookAgain
  <1>2. request[q].pc = "again" /\ request[q] \in Request
    BY <1>1 DEF LookAgain, TypeOK
  <1>3. PICK f \in Files : f = request[q].file
    BY <1>1, <1>2 DEF RequestOK
  <1>4. CASE ActiveImports(f) = {}
    <2>1. Goes(q, "error")
      BY <1>3, <1>4 DEF LookAgain, Goes
    <2>2. RequestOK(q)'
      BY <1>1, <1>2, <2>1, GoesEffect DEF RequestOK, Holding, Uploading
    <2> QED BY <1>1, <2>1, <2>2, GoesEffect, RequestStepKeeps DEF OnlyRequest, TypeOK
  <1>5. CASE ActiveImports(f) # {}
    <2> DEFINE found == Min(ActiveImports(f))
               new   == [request[q] EXCEPT !.pc = "duplicate", !.import = found]
    <2>1. request' = [request EXCEPT ![q] = new]
      BY <1>3, <1>5 DEF LookAgain
    <2>2. found \in Imports /\ row[found].file = f /\ row[found].status # "absent"
      BY <1>1, <1>5, ActiveImport
    <2> HIDE DEF found
    <2>3. request'[q] = new /\ OwnRequest(q)
      BY <1>1, <2>1 DEF TypeOK, OwnRequest
    <2>4. /\ new \in Request /\ new.pc = "duplicate" /\ new.file = f
          /\ new.key = request[q].key
          /\ new.version = request[q].version /\ new.import = found
      BY <1>2, <1>3, <2>2 DEF Request, Holding
    <2> HIDE DEF new
    <2>5. RequestOK(q)'
      BY <1>1, <1>2, <2>2, <2>3, <2>4 DEF RequestOK, Holding, Uploading
    <2> QED BY <1>1, <2>3, <2>4, <2>5, RequestStepKeeps DEF OnlyRequest, TypeOK
  <1> QED BY <1>4, <1>5

\* The steps that only move a request on, or end it.
LEMMA GoingKeeps ==
  ASSUME IntakeInv, NEW q \in Requests,
         CreateRefused(q) \/ PutAnswered(q) \/ VerifySucceeds(q) \/ VerifyFails(q)
           \/ ConfirmRefused(q)
  PROVE  Kept
  <1>1. TypeOK /\ RequestOK(q) /\ request[q] \in Request
    BY DEF IntakeInv, TypeOK
  <1>2. UNCHANGED <<row, job, bucket, late, reconciler, operator>>
    BY DEF CreateRefused, PutAnswered, VerifySucceeds, VerifyFails, ConfirmRefused
  <1>3. ASSUME NEW pc \in {"duplicate", "again", "error", "verify", "awaiting", "confirm",
                           "stored"},
               Goes(q, pc), RequestOK(q)'
        PROVE  Kept
    BY <1>1, <1>2, <1>3, GoesEffect, RequestStepKeeps DEF OnlyRequest, TypeOK
  <1>4. CASE CreateRefused(q)
    <2>1. Goes(q, "again") /\ request[q].pc = "create"
      BY <1>4 DEF CreateRefused
    <2>2. RequestOK(q)'
      BY <1>1, <2>1, GoesEffect DEF RequestOK, Holding, Uploading
    <2> QED BY <1>3, <2>1, <2>2
  <1>5. CASE PutAnswered(q)
    <2>1. Goes(q, "verify") /\ request[q].pc = "store" /\ request[q].version # 0
      BY <1>5 DEF PutAnswered
    <2>2. RequestOK(q)'
      BY <1>1, <1>2, <2>1, GoesEffect DEF RequestOK, Holding, Uploading, Genuine
    <2> QED BY <1>3, <2>1, <2>2
  <1>6. CASE VerifySucceeds(q)
    <2>1. Goes(q, "confirm") /\ request[q].pc = "verify"
      BY <1>6 DEF VerifySucceeds
    <2>2. RequestOK(q)'
      BY <1>1, <1>2, <2>1, GoesEffect DEF RequestOK, Holding, Uploading, Genuine
    <2> QED BY <1>3, <2>1, <2>2
  <1>7. CASE VerifyFails(q)
    <2>1. Goes(q, "awaiting") /\ request[q].pc = "verify"
      BY <1>7 DEF VerifyFails
    <2>2. RequestOK(q)'
      BY <1>1, <1>2, <2>1, GoesEffect DEF RequestOK, Holding, Uploading, Genuine
    <2> QED BY <1>3, <2>1, <2>2
  <1>8. CASE ConfirmRefused(q)
    <2>1. Goes(q, "error") /\ request[q].pc = "confirm"
      BY <1>8 DEF ConfirmRefused
    <2>2. RequestOK(q)'
      BY <1>1, <2>1, GoesEffect DEF RequestOK, Holding, Uploading
    <2> QED BY <1>3, <2>1, <2>2
  <1> QED BY <1>4, <1>5, <1>6, <1>7, <1>8

\* A write S3 may still carry out belongs to an upload of this release.
LEMMA MayBeLate ==
  ASSUME IntakeInv, NEW q \in Requests, request[q].pc = "store",
         late' \in {late, late \cup {request[q].import}}
  PROVE  late' \subseteq Imports /\ \A i \in late' : i \in late \/ LateOK(i)
  <1>1. RequestOK(q) /\ late \subseteq Imports
    BY DEF IntakeInv, TypeOK
  <1>2. PICK i \in Imports : i = request[q].import
    BY <1>1 DEF RequestOK, Holding, Uploading
  <1>3. LateOK(i)
    BY <1>1, <1>2, ValuesAssumption DEF RequestOK, Holding, Uploading, LateOK
  <1> QED BY <1>1, <1>2, <1>3

LEMMA PutFailsKeeps ==
  ASSUME IntakeInv, NEW q \in Requests, PutFails(q)
  PROVE  Kept
  <1>1. TypeOK /\ RequestOK(q)
    BY DEF IntakeInv
  <1>2. /\ Goes(q, "awaiting") /\ request[q].pc = "store"
        /\ UNCHANGED <<row, job, bucket, reconciler, operator>>
        /\ late' \in {late, late \cup {request[q].import}}
    BY DEF PutFails
  <1>3. RequestOK(q)'
    BY <1>1, <1>2, GoesEffect DEF RequestOK, Holding, Uploading, Genuine
  <1>4. late' \subseteq Imports /\ \A i \in late' : i \in late \/ LateOK(i)
    BY <1>2, MayBeLate
  <1> QED BY <1>1, <1>2, <1>3, <1>4, GoesEffect, RequestStepKeeps DEF OnlyRequest

LEMMA RequestEnds ==
  ASSUME IntakeInv, NEW q \in Requests, Respond(q) \/ RequestDies(q)
  PROVE  Kept
  <1>1. TypeOK
    BY DEF IntakeInv
  <1>2. /\ request' = [request EXCEPT ![q] = NoRequest]
        /\ UNCHANGED <<row, job, bucket, reconciler, operator>>
    BY DEF Respond, RequestDies
  <1>3. request'[q] = NoRequest /\ OwnRequest(q)
    BY <1>1, <1>2 DEF TypeOK, OwnRequest
  <1>4. NoRequest \in Request
    BY DEF NoRequest, Request
  <1>5. RequestOK(q)'
    BY <1>3 DEF RequestOK, NoRequest, Holding, Uploading
  <1>6. late' \subseteq Imports /\ \A i \in late' : i \in late \/ LateOK(i)
    <2>1. CASE late' = late
      BY <1>1, <2>1 DEF TypeOK
    <2>2. CASE late' # late
      <3>1. request[q].pc = "store" /\ late' \in {late, late \cup {request[q].import}}
        BY <2>2 DEF Respond, RequestDies
      <3> QED BY <3>1, MayBeLate
    <2> QED BY <2>1, <2>2
  <1> QED BY <1>2, <1>3, <1>4, <1>5, <1>6, RequestStepKeeps DEF OnlyRequest

-----------------------------------------------------------------------------
(***************************************************************************)
(* Steps of a reconciler run that leave rows, jobs and objects alone.      *)
(***************************************************************************)

OwnRun(r) == reconciler' = [reconciler EXCEPT ![r] = reconciler'[r]]

OnlyRun(r) == OwnRun(r) /\ UNCHANGED <<row, job, bucket, late, request, operator>>

LEMMA RunStepKeeps ==
  ASSUME IntakeInv, NEW r \in Reconcilers, OnlyRun(r), reconciler'[r] \in Run, RunOK(r)'
  PROVE  Kept
  <1>1. TypeOK'
    BY DEF IntakeInv, TypeOK, OnlyRun, OwnRun
  <1>2. Grows
    BY SameRowsGrow DEF OnlyRun
  <1>3. \A s \in Reconcilers : reconciler'[s] = reconciler[s] \/ RunOK(s)'
    BY DEF OnlyRun, OwnRun, IntakeInv, TypeOK
  <1> QED BY <1>1, <1>2, <1>3, StepKeeps DEF OnlyRun

LEMMA NoRunOK ==
  ASSUME NEW r \in Reconcilers, reconciler'[r] = NoRun
  PROVE  reconciler'[r] \in Run /\ RunOK(r)'
  BY DEF NoRun, Run, RunOK

LEMMA StartRunKeeps ==
  ASSUME IntakeInv, NEW r \in Reconcilers, NEW cutoff \in Imports, StartRun(r, cutoff)
  PROVE  Kept
  <1> DEFINE batch == {i \in Receiving : i <= cutoff}
             blind == {i \in batch : row[i].key = NoKey}
             new   == [NoRun EXCEPT !.batch = batch, !.keyless = blind]
  <1>1. /\ TypeOK /\ reconciler' = [reconciler EXCEPT ![r] = new]
        /\ UNCHANGED <<row, job, bucket, late, request, operator>>
    BY DEF IntakeInv, StartRun
  <1>2. /\ batch \subseteq Imports /\ blind \subseteq Imports
        /\ \A i \in batch : row[i].status = "receiving"
        /\ \A i \in batch : i \notin blind => row[i].key # NoKey
    BY DEF Receiving
  <1> HIDE DEF batch, blind
  <1>3. /\ new \in Run /\ new.batch = batch /\ new.keyless = blind /\ new.verdict = "none"
    BY <1>2 DEF NoRun, Run
  <1> HIDE DEF new
  <1>4. reconciler'[r] = new /\ OwnRun(r)
    BY <1>1 DEF TypeOK, OwnRun
  <1>5. RunOK(r)'
    BY <1>1, <1>2, <1>3, <1>4 DEF RunOK
  <1> QED BY <1>1, <1>3, <1>4, <1>5, RunStepKeeps DEF OnlyRun

LEMMA OldestOfBatch ==
  ASSUME TypeOK, NEW r \in Reconcilers, reconciler[r].batch # {}
  PROVE  Min(reconciler[r].batch) \in reconciler[r].batch
  <1> DEFINE batch == reconciler[r].batch
  <1>1. batch \subseteq Nat /\ batch # {}
    BY ImportNumbers DEF TypeOK, Run
  <1> HIDE DEF batch
  <1>2. Min(batch) \in batch
    BY <1>1, SmallestNumber
  <1> QED BY <1>2 DEF batch

\* The newest version is one of those there are.
LEMMA LatestVersion ==
  ASSUME TypeOK, NEW i \in Imports
  PROVE  /\ Latest(i) \in Nat
         /\ Latest(i) # 0 => Latest(i) \in 1..Len(bucket[i]) /\ bucket[i][Latest(i)].here
         /\ \A v \in 1..Len(bucket[i]) : bucket[i][v].here => Latest(i) # 0 /\ v <= Latest(i)
  <1> DEFINE found == {v \in DOMAIN bucket[i] : bucket[i][v].here}
             n     == Len(bucket[i])
  <1>1. bucket[i] \in Seq(Object)
    BY DEF TypeOK
  <1>2. DOMAIN bucket[i] = 1..n /\ n \in Nat
    BY <1>1
  <1>3. found \subseteq 1..n /\ \A v \in found : bucket[i][v].here
    BY <1>2
  <1>4. Latest(i) = IF found = {} THEN 0 ELSE Max(found)
    BY DEF Latest
  <1>5. \A v \in 1..n : bucket[i][v].here => v \in found
    BY <1>2
  <1> HIDE DEF found, n
  <1>6. CASE found = {}
    BY <1>4, <1>5, <1>6 DEF n
  <1>7. CASE found # {}
    <2>1. Max(found) \in found /\ \A v \in found : Max(found) >= v
      BY <1>2, <1>3, <1>7, LargestNumber
    <2> DEFINE last == Max(found)
    <2>2. /\ Latest(i) = last /\ last \in found
          /\ \A v \in found : last >= v
      BY <1>4, <1>7, <2>1
    <2> HIDE DEF last
    <2>3. last \in 1..n /\ last # 0 /\ last \in Nat /\ bucket[i][last].here
      <3>1. last \in 1..n
        BY <1>3, <2>2
      <3>2. n \in Nat
        BY <1>2
      <3>3. bucket[i][last].here
        BY <1>3, <2>2
      <3> QED BY <3>1, <3>2, <3>3
    <2>4. \A v \in 1..n : bucket[i][v].here => v <= last
      BY <1>2, <1>5, <2>2, <2>3
    <2> QED BY <2>2, <2>3, <2>4 DEF n
  <1> QED BY <1>6, <1>7

LEMMA InspectKeeps ==
  ASSUME IntakeInv, NEW r \in Reconcilers, Inspect(r)
  PROVE  Kept
  <1>1. TypeOK /\ RunOK(r) /\ reconciler[r] \in Run
    BY DEF IntakeInv, TypeOK
  <1>2. /\ reconciler[r].batch # {}
        /\ UNCHANGED <<row, job, bucket, late, request, operator>>
    BY DEF Inspect
  <1>3. PICK i \in Imports : i = Min(reconciler[r].batch) /\ i \in reconciler[r].batch
    BY <1>1, <1>2, OldestOfBatch DEF Run
  <1> DEFINE v   == Latest(i)
             new == [reconciler[r] EXCEPT !.verdict = Verdict(i, row[i].key), !.version = v]
  <1>4. /\ i \notin reconciler[r].keyless
        /\ reconciler' = [reconciler EXCEPT ![r] = new]
    BY <1>3 DEF Inspect
  <1>5. v \in Nat /\ (v # 0 => v \in 1..Len(bucket[i]))
    BY <1>1, LatestVersion
  <1>6. /\ Verdict(i, row[i].key) \in {"stored", "object_missing", "verification_failed"}
        /\ Verdict(i, row[i].key) = "stored" => v # 0 /\ Genuine(i, v, row[i].key)
    BY <1>5 DEF Verdict, ValidObject, Genuine
  <1> HIDE DEF v
  <1>7. /\ new \in Run /\ new.batch = reconciler[r].batch
        /\ new.keyless = reconciler[r].keyless /\ new.verdict = Verdict(i, row[i].key)
        /\ new.version = v
    BY <1>1, <1>5, <1>6 DEF Run
  <1> HIDE DEF new
  <1>8. reconciler'[r] = new /\ OwnRun(r)
    BY <1>1, <1>4 DEF TypeOK, OwnRun
  <1>9. RunOK(r)'
    BY <1>1, <1>2, <1>3, <1>4, <1>6, <1>7, <1>8 DEF RunOK, Genuine
  <1> QED BY <1>2, <1>7, <1>8, <1>9, RunStepKeeps DEF OnlyRun

\* What is left of a run after its oldest import is as right as before.
LEMMA PassesEffect ==
  ASSUME TypeOK, Grows, NEW r \in Reconcilers, RunOK(r), Passes(r)
  PROVE  OwnRun(r) /\ reconciler'[r] \in Run /\ RunOK(r)'
  <1> DEFINE rest  == reconciler[r].batch \ {Min(reconciler[r].batch)}
             blind == reconciler[r].keyless \cap rest
             new   == [NoRun EXCEPT !.batch = rest, !.keyless = blind]
  <1>1. OwnRun(r) /\ reconciler'[r] = Passed(reconciler[r])
    BY DEF Passes, TypeOK, OwnRun
  <1>2. Passed(reconciler[r]) = IF rest = {} THEN NoRun ELSE new
    BY DEF Passed
  <1>3. CASE rest = {}
    BY <1>1, <1>2, <1>3, NoRunOK
  <1>4. CASE rest # {}
    <2>1. rest \subseteq Imports /\ rest \subseteq reconciler[r].batch
      BY DEF TypeOK, Run
    <2>2. \A i \in rest : row'[i].status # "absent" /\ (i \notin blind => row'[i].key # NoKey)
      BY <2>1 DEF RunOK, Grows
    <2>3. reconciler'[r] = new
      BY <1>1, <1>2, <1>4
    <2> HIDE DEF rest
    <2>4. blind \subseteq Imports
      BY <2>1
    <2> HIDE DEF blind
    <2>5. /\ new \in Run /\ new.batch = rest /\ new.keyless = blind /\ new.verdict = "none"
      BY <2>1, <2>4 DEF NoRun, Run
    <2> HIDE DEF new
    <2>6. RunOK(r)'
      BY <2>2, <2>3, <2>5 DEF RunOK
    <2> QED BY <1>1, <2>3, <2>5, <2>6
  <1> QED BY <1>3, <1>4

LEMMA PassingKeeps ==
  ASSUME IntakeInv, NEW r \in Reconcilers, Defer(r) \/ ReconcileRefused(r)
  PROVE  Kept
  <1>1. /\ TypeOK /\ RunOK(r) /\ Passes(r)
        /\ UNCHANGED <<row, job, bucket, late, request, operator>>
    BY DEF IntakeInv, Defer, ReconcileRefused
  <1> QED BY <1>1, SameRowsGrow, PassesEffect, RunStepKeeps DEF OnlyRun

LEMMA RunDiesKeeps ==
  ASSUME IntakeInv, NEW r \in Reconcilers, RunDies(r)
  PROVE  Kept
  <1>1. /\ reconciler'[r] = NoRun /\ OwnRun(r)
        /\ UNCHANGED <<row, job, bucket, late, request, operator>>
    BY DEF RunDies, IntakeInv, TypeOK, OwnRun
  <1> QED BY <1>1, NoRunOK, RunStepKeeps DEF OnlyRun

-----------------------------------------------------------------------------
(***************************************************************************)
(* Steps of a backfill that leave rows, jobs and objects alone.            *)
(***************************************************************************)

OwnOperator(o) == operator' = [operator EXCEPT ![o] = operator'[o]]

OnlyOperator(o) ==
    OwnOperator(o) /\ UNCHANGED <<row, job, bucket, late, request, reconciler>>

LEMMA OperatorStepKeeps ==
  ASSUME IntakeInv, NEW o \in Operators, OnlyOperator(o), operator'[o] \in Backfill,
         OperatorOK(o)'
  PROVE  Kept
  <1>1. TypeOK'
    BY DEF IntakeInv, TypeOK, OnlyOperator, OwnOperator
  <1>2. Grows
    BY SameRowsGrow DEF OnlyOperator
  <1>3. \A p \in Operators : operator'[p] = operator[p] \/ OperatorOK(p)'
    BY DEF OnlyOperator, OwnOperator, IntakeInv, TypeOK
  <1> QED BY <1>1, <1>2, <1>3, StepKeeps DEF OnlyOperator

LEMMA NoBackfillOK ==
  ASSUME NEW o \in Operators, operator'[o] = NoBackfill
  PROVE  operator'[o] \in Backfill /\ OperatorOK(o)'
  <1>1. NoBackfill \in Backfill
    BY DEF NoBackfill, Backfill
  <1>2. NoBackfill.import = 0 /\ NoBackfill.version = 0
    BY DEF NoBackfill
  <1>3. OperatorOK(o)'
    BY <1>2, ImportNumbers DEF OperatorOK
  <1> QED BY <1>1, <1>3

LEMMA BackfillFailsKeeps ==
  ASSUME IntakeInv, NEW o \in Operators, BackfillFails(o)
  PROVE  Kept
  <1>1. /\ operator'[o] = NoBackfill /\ OwnOperator(o)
        /\ UNCHANGED <<row, job, bucket, late, request, reconciler>>
    BY DEF BackfillFails, IntakeInv, TypeOK, OwnOperator
  <1> QED BY <1>1, NoBackfillOK, OperatorStepKeeps DEF OnlyOperator

LEMMA StartBackfillKeeps ==
  ASSUME IntakeInv, NEW o \in Operators, NEW i \in Imports, StartBackfill(o, i)
  PROVE  Kept
  <1> DEFINE wanted == row[i].version
             new    == [NoBackfill EXCEPT !.import = i, !.wanted = wanted]
  <1>1. /\ TypeOK /\ operator' = [operator EXCEPT ![o] = new] /\ row[i].status # "absent"
        /\ UNCHANGED <<row, job, bucket, late, request, reconciler>>
    BY DEF IntakeInv, StartBackfill, LacksKey
  <1>2. wanted \in Nat
    BY <1>1 DEF TypeOK, Row
  <1>3. wanted = row[i].version
    OBVIOUS
  <1> HIDE DEF wanted
  <1>4. new \in Backfill /\ new.import = i /\ new.wanted = wanted /\ new.version = 0
    BY <1>2 DEF NoBackfill, Backfill
  <1> HIDE DEF new
  <1>5. operator'[o] = new /\ OwnOperator(o)
    BY <1>1 DEF TypeOK, OwnOperator
  <1>6. OperatorOK(o)'
    BY <1>1, <1>3, <1>4, <1>5, ImportNumbers DEF OperatorOK
  <1> QED BY <1>1, <1>4, <1>5, <1>6, OperatorStepKeeps DEF OnlyOperator

LEMMA DiscoverKeeps ==
  ASSUME IntakeInv, NEW o \in Operators, Discover(o)
  PROVE  Kept
  <1>1. /\ TypeOK /\ OperatorOK(o) /\ operator[o] \in Backfill
        /\ UNCHANGED <<row, job, bucket, late, request, reconciler>>
    BY DEF IntakeInv, TypeOK, Discover
  <1>2. PICK i \in Imports : i = operator[o].import
    BY <1>1 DEF Discover, Backfill
  <1>3. RowOK(i)
    BY DEF IntakeInv
  <1> DEFINE v   == IF operator[o].wanted # 0 THEN operator[o].wanted ELSE Latest(i)
             key == bucket[i][v].key
             new == [operator[o] EXCEPT !.key = key, !.version = v]
  <1>4. v # 0 /\ ValidObject(i, v, key) /\ operator' = [operator EXCEPT ![o] = new]
    BY <1>2 DEF Discover
  <1>5. v \in 1..Len(bucket[i]) /\ operator[o].wanted \in {0, v}
    <2>1. CASE operator[o].wanted # 0
      BY <1>1, <1>2, <1>3, <2>1 DEF OperatorOK, RowOK, Genuine
    <2>2. CASE operator[o].wanted = 0
      <3>1. v = Latest(i)
        BY <2>2
      <3> QED BY <1>1, <1>4, <2>2, <3>1, LatestVersion
    <2> QED BY <2>1, <2>2
  <1> HIDE DEF v
  <1>6. Genuine(i, v, key) /\ key \in Keys
    <2>1. bucket[i] \in Seq(Object)
      BY <1>1 DEF TypeOK
    <2>2. bucket[i][v] \in Object
      BY <1>5, <2>1
    <2> QED BY <1>4, <1>5, <2>2 DEF Genuine, ValidObject, Object
  <1>7. v \in Nat
    BY <1>5
  <1> HIDE DEF key
  <1>8. /\ new \in Backfill /\ new.import = i /\ new.wanted = operator[o].wanted
        /\ new.key = key /\ new.version = v
    BY <1>1, <1>2, <1>6, <1>7 DEF Backfill
  <1> HIDE DEF new
  <1>9. operator'[o] = new /\ OwnOperator(o)
    BY <1>1, <1>4 DEF TypeOK, OwnOperator
  <1>10. OperatorOK(o)'
    BY <1>1, <1>2, <1>5, <1>6, <1>8, <1>9, ImportNumbers DEF OperatorOK, Genuine
  <1> QED BY <1>1, <1>8, <1>9, <1>10, OperatorStepKeeps DEF OnlyOperator

-----------------------------------------------------------------------------
(***************************************************************************)
(* Steps that write objects, or delete them.                               *)
(***************************************************************************)

LEMMA WritesGrow ==
  ASSUME TypeOK, NEW i \in Imports, NEW object \in Object, row' = row,
         bucket' = [bucket EXCEPT ![i] = Append(@, object)]
  PROVE  /\ bucket' \in [Imports -> Seq(Object)]
         /\ Len(bucket'[i]) = Len(bucket[i]) + 1
         /\ bucket'[i][Len(bucket[i]) + 1] = object
         /\ Grows
  <1>1. bucket \in [Imports -> Seq(Object)]
    BY DEF TypeOK
  <1>2. bucket[i] \in Seq(Object) /\ bucket'[i] = Append(bucket[i], object)
    BY <1>1
  <1>3. Append(bucket[i], object) \in Seq(Object)
    BY <1>2
  <1>4. bucket' \in [Imports -> Seq(Object)]
    BY <1>1, <1>2, <1>3
  <1>5. Len(bucket'[i]) = Len(bucket[i]) + 1 /\ bucket'[i][Len(bucket[i]) + 1] = object
    BY <1>2
  <1>6. \A k \in Imports \ {i} : bucket'[k] = bucket[k]
    BY <1>1
  <1>7. \A v \in 1..Len(bucket[i]) : v \in 1..Len(bucket'[i]) /\ bucket'[i][v] = bucket[i][v]
    BY <1>2
  <1>8. ASSUME NEW k \in Imports
        PROVE  \A v \in 1..Len(bucket[k]) :
                  v \in 1..Len(bucket'[k]) /\ bucket'[k][v] = bucket[k][v]
    BY <1>6, <1>7
  <1> QED BY <1>4, <1>5, <1>8 DEF Grows

LEMMA Objects ==
  ASSUME NEW good \in BOOLEAN, NEW key \in Keys
  PROVE  /\ Version(good, key) \in Object
         /\ Version(good, key).good = good
         /\ Version(good, key).key = key
  BY DEF Version, Object

LEMMA PutLandsKeeps ==
  ASSUME IntakeInv, NEW q \in Requests, PutLands(q)
  PROVE  Kept
  <1>1. /\ TypeOK /\ RequestOK(q) /\ request[q] \in Request /\ request[q].pc = "store"
        /\ UNCHANGED <<row, job, late, reconciler, operator>>
    BY DEF IntakeInv, TypeOK, PutLands
  <1>2. PICK i \in Imports : i = request[q].import
    BY <1>1 DEF RequestOK, Holding, Uploading
  <1>3. request[q].key \in Keys
    BY <1>1 DEF RequestOK
  <1> DEFINE v      == Len(bucket[i]) + 1
             object == Version(TRUE, request[q].key)
             new    == [request[q] EXCEPT !.version = v]
  <1>4. /\ bucket' = [bucket EXCEPT ![i] = Append(@, object)]
        /\ request' = [request EXCEPT ![q] = new]
    BY <1>2 DEF PutLands
  <1>5. object \in Object /\ object.good /\ object.key = request[q].key
    BY <1>3, Objects
  <1> HIDE DEF object
  <1>6. /\ bucket' \in [Imports -> Seq(Object)] /\ Grows
        /\ Len(bucket'[i]) = v /\ bucket'[i][v] = object
    BY <1>1, <1>4, <1>5, WritesGrow
  <1>7. v \in Nat /\ v \in 1..v
    BY <1>1 DEF TypeOK
  <1> HIDE DEF v
  <1>8. /\ new \in Request /\ new.pc = "store" /\ new.file = request[q].file
        /\ new.key = request[q].key /\ new.import = i /\ new.version = v
    BY <1>1, <1>2, <1>7 DEF Request
  <1> HIDE DEF new
  <1>9. request'[q] = new /\ OwnRequest(q)
    BY <1>1, <1>4 DEF TypeOK, OwnRequest
  <1>10. /\ row[i].status # "absent" /\ row[i].file = request[q].file
         /\ row[i].key = request[q].key /\ i \notin Legacy
    BY <1>1, <1>2 DEF RequestOK, Holding, Uploading
  <1>11. bucket'[i][v].good /\ bucket'[i][v].key = request[q].key /\ v \in 1..Len(bucket'[i])
    BY <1>5, <1>6, <1>7
  <1>12. request[q].file \in Files
    BY <1>1 DEF RequestOK
  <1>13. RequestOK(q)'
    BY <1>1, <1>3, <1>8, <1>9, <1>10, <1>11, <1>12 DEF RequestOK, Holding, Uploading, Genuine
  <1>14. TypeOK'
    BY <1>1, <1>6, <1>8, <1>9 DEF TypeOK, OwnRequest
  <1>15. \A p \in Requests : request'[p] = request[p] \/ RequestOK(p)'
    BY <1>1, <1>9, <1>13 DEF OwnRequest, TypeOK
  <1> QED BY <1>1, <1>6, <1>14, <1>15, StepKeeps

LEMMA LateWriteLandsKeeps ==
  ASSUME IntakeInv, NEW i \in Imports, LateWriteLands(i)
  PROVE  Kept
  <1> DEFINE object == Version(TRUE, row[i].key)
  <1>1. /\ TypeOK /\ i \in late /\ late' = late \ {i}
        /\ UNCHANGED <<row, job, request, reconciler, operator>>
        /\ bucket' = [bucket EXCEPT ![i] = Append(@, object)]
    BY DEF IntakeInv, LateWriteLands
  <1>2. row[i].key \in Keys
    BY <1>1 DEF IntakeInv, LateOK, TypeOK, Row
  <1>3. object \in Object
    BY <1>2, Objects
  <1> HIDE DEF object
  <1>4. bucket' \in [Imports -> Seq(Object)] /\ Grows
    BY <1>1, <1>3, WritesGrow
  <1>5. TypeOK'
    BY <1>1, <1>4 DEF TypeOK
  <1> QED BY <1>1, <1>4, <1>5, StepKeeps

LEMMA LateWriteIsLostKeeps ==
  ASSUME IntakeInv, NEW i \in Imports, LateWriteIsLost(i)
  PROVE  Kept
  <1>1. /\ late' = late \ {i}
        /\ UNCHANGED <<row, job, bucket, request, reconciler, operator>>
    BY DEF LateWriteIsLost
  <1>2. TypeOK'
    BY <1>1 DEF IntakeInv, TypeOK
  <1> QED BY <1>1, <1>2, SameRowsGrow, StepKeeps

LEMMA ForeignWriteKeeps ==
  ASSUME IntakeInv, NEW i \in Imports, NEW k \in Keys, ForeignWrite(i, k)
  PROVE  Kept
  <1> DEFINE object == Version(FALSE, k)
  <1>1. /\ TypeOK
        /\ UNCHANGED <<row, job, late, request, reconciler, operator>>
        /\ bucket' = [bucket EXCEPT ![i] = Append(@, object)]
    BY DEF IntakeInv, ForeignWrite
  <1>2. object \in Object
    BY Objects
  <1> HIDE DEF object
  <1>3. bucket' \in [Imports -> Seq(Object)] /\ Grows
    BY <1>1, <1>2, WritesGrow
  <1>4. TypeOK'
    BY <1>1, <1>3 DEF TypeOK
  <1> QED BY <1>1, <1>3, <1>4, StepKeeps

LEMMA VersionVanishesKeeps ==
  ASSUME IntakeInv, NEW i \in Imports, VersionVanishes(i)
  PROVE  Kept
  <1> DEFINE v    == row[i].version
             gone == [bucket[i][v] EXCEPT !.here = FALSE]
  <1>1. /\ TypeOK /\ RowOK(i) /\ bucket[i] \in Seq(Object) /\ v # 0
        /\ UNCHANGED <<row, job, late, request, reconciler, operator>>
        /\ bucket' = [bucket EXCEPT ![i] = [bucket[i] EXCEPT ![v] = gone]]
    BY DEF IntakeInv, TypeOK, VersionVanishes
  <1>2. v \in 1..Len(bucket[i])
    BY <1>1 DEF RowOK, Genuine
  <1> HIDE DEF v
  <1>3. bucket[i][v] \in Object
    BY <1>1, <1>2
  <1>4. gone \in Object /\ gone.good = bucket[i][v].good /\ gone.key = bucket[i][v].key
    BY <1>3 DEF Object
  <1> HIDE DEF gone
  <1> DEFINE objects == [bucket[i] EXCEPT ![v] = gone]
  <1>5. /\ objects \in Seq(Object) /\ Len(objects) = Len(bucket[i])
        /\ \A u \in 1..Len(bucket[i]) :
              objects[u].good = bucket[i][u].good /\ objects[u].key = bucket[i][u].key
    BY <1>1, <1>2, <1>4
  <1>6. bucket' = [bucket EXCEPT ![i] = objects]
    BY <1>1
  <1> HIDE DEF objects
  <1>7. bucket' \in [Imports -> Seq(Object)] /\ bucket'[i] = objects
    BY <1>1, <1>5, <1>6 DEF TypeOK
  <1>8. \A k \in Imports \ {i} : bucket'[k] = bucket[k]
    BY <1>1, <1>6 DEF TypeOK
  <1>9. ASSUME NEW k \in Imports, NEW u \in 1..Len(bucket[k])
        PROVE  /\ u \in 1..Len(bucket'[k])
               /\ bucket'[k][u].good = bucket[k][u].good
               /\ bucket'[k][u].key = bucket[k][u].key
    BY <1>5, <1>7, <1>8
  <1>10. Grows
    BY <1>1, <1>9 DEF Grows
  <1>11. TypeOK'
    BY <1>1, <1>7 DEF TypeOK
  <1> QED BY <1>1, <1>10, <1>11, StepKeeps

-----------------------------------------------------------------------------
(***************************************************************************)
(* Steps that decide an intake or finish a job.                            *)
(***************************************************************************)

\* The step changed the row and the job of this import only, and both are right.
Decided(i) ==
    /\ row' \in [Imports -> Row]
    /\ job' \in [Imports -> Job]
    /\ Grows
    /\ RowOK(i)'
    /\ JobOK(i)'
    /\ \A k \in Imports \ {i} : row'[k] = row[k] /\ job'[k] = job[k]

LEMMA DecidedKeeps ==
  ASSUME IntakeInv, NEW i \in Imports, Decided(i), bucket' = bucket, late' = late,
         request' \in [Requests -> Request],
         reconciler' \in [Reconcilers -> Run],
         operator' \in [Operators -> Backfill],
         \A q \in Requests : request'[q] = request[q] \/ RequestOK(q)',
         \A r \in Reconcilers : reconciler'[r] = reconciler[r] \/ RunOK(r)',
         \A o \in Operators : operator'[o] = operator[o] \/ OperatorOK(o)'
  PROVE  Kept
  <1>1. TypeOK'
    BY DEF IntakeInv, TypeOK, Decided
  <1>2. \A k \in Imports : row'[k] = row[k] \/ RowOK(k)'
    BY DEF Decided
  <1>3. \A k \in Imports : (row'[k] = row[k] /\ job'[k] = job[k]) \/ JobOK(k)'
    BY DEF Decided
  <1> QED BY <1>1, <1>2, <1>3, StepKeeps DEF Decided

LEMMA RowChange ==
  ASSUME TypeOK, NEW i \in Imports, NEW new \in Row, bucket' = bucket,
         row' = [row EXCEPT ![i] = new],
         row[i].status # "absent" => new.status # "absent" /\ new.file = row[i].file,
         row[i].status = "received" => new.status \in {"received", "failed"},
         row[i].status = "failed" =>
            new.status = "failed" /\ new.code = row[i].code /\ new.version = row[i].version,
         row[i].version # 0 => new.version = row[i].version,
         row[i].version = 0 /\ new.version # 0 => new.key # NoKey,
         row[i].key # NoKey => new.key = row[i].key
  PROVE  /\ row' \in [Imports -> Row] /\ row'[i] = new /\ Grows
         /\ \A k \in Imports \ {i} : row'[k] = row[k]
  BY DEF TypeOK, Grows

LEMMA JobChange ==
  ASSUME TypeOK, NEW i \in Imports, NEW new \in Job, job' = [job EXCEPT ![i] = new]
  PROVE  /\ job' \in [Imports -> Job] /\ job'[i] = new
         /\ \A k \in Imports \ {i} : job'[k] = job[k]
  BY DEF TypeOK

\* enqueue_import, for an intake that has just been decided.
LEMMA EnqueueDecided ==
  ASSUME TypeOK, NEW i \in Imports, JobOK(i), row[i].status = "receiving", Enqueue(i),
         row'[i].status \in {"received", "failed"},
         row'[i].status = "failed" <=> row'[i].version = 0
  PROVE  /\ job' \in [Imports -> Job] /\ JobOK(i)'
         /\ \A k \in Imports \ {i} : job'[k] = job[k]
  <1> DEFINE new == Enqueued(i)
  <1>1. job[i] \in Job /\ job[i].status = "waiting_file"
        /\ job[i].error # "INTAKE_STORAGE_FAILED"
    BY DEF TypeOK, JobOK
  <1>2. CASE row'[i].status = "received"
    <2> DEFINE wanted == IF row'[i].file \in CsvFiles THEN "queued" ELSE "awaiting_parser"
    <2>1. new = [status |-> wanted, error |-> job[i].error]
      BY <1>1, <1>2 DEF Enqueued, DesiredStatus
    <2>2. job' = [job EXCEPT ![i] = new]
      BY DEF Enqueue
    <2> HIDE DEF new
    <2>3. /\ wanted \in {"queued", "awaiting_parser"}
          /\ wanted = "queued" => row'[i].file \in CsvFiles
          /\ wanted = "awaiting_parser" => row'[i].file \notin CsvFiles
      OBVIOUS
    <2> HIDE DEF wanted
    <2>4. new \in Job /\ new.status = wanted /\ new.error = job[i].error
      BY <1>1, <2>1, <2>3 DEF Job, JobStatuses
    <2>5. JobOK(i)'
      BY <1>1, <1>2, <2>2, <2>3, <2>4, JobChange DEF JobOK
    <2> QED BY <2>2, <2>4, <2>5, JobChange
  <1>3. CASE row'[i].status = "failed"
    <2>1. new = [status |-> "failed", error |-> "INTAKE_STORAGE_FAILED"]
      BY <1>1, <1>3 DEF Enqueued, DesiredStatus
    <2>2. new \in Job /\ new.status = "failed" /\ new.error = "INTAKE_STORAGE_FAILED"
      BY <2>1 DEF Job, JobStatuses
    <2>3. job' = [job EXCEPT ![i] = new]
      BY DEF Enqueue
    <2> HIDE DEF new
    <2>4. JobOK(i)'
      BY <1>3, <2>2, <2>3, JobChange DEF JobOK
    <2> QED BY <2>2, <2>3, <2>4, JobChange
  <1> QED BY <1>2, <1>3

LEMMA MarkReceivedDecides ==
  ASSUME IntakeInv, NEW i \in Imports, NEW v \in Nat \ {0}, MarkReceived(i, v),
         bucket' = bucket, row[i].key # NoKey, Genuine(i, v, row[i].key)
  PROVE  Decided(i) /\ row'[i].version = v
  <1> DEFINE new == [row[i] EXCEPT !.status = "received", !.version = v]
  <1>1. /\ TypeOK /\ RowOK(i) /\ JobOK(i) /\ row[i] \in Row
        /\ row[i].status = "receiving" /\ Enqueue(i) /\ row' = [row EXCEPT ![i] = new]
    BY DEF IntakeInv, TypeOK, MarkReceived, AwaitsStorage
  <1>2. /\ new \in Row /\ new.status = "received" /\ new.version = v
        /\ new.file = row[i].file /\ new.key = row[i].key
    BY <1>1 DEF Row, Statuses
  <1> HIDE DEF new
  <1>3. row[i].version = 0 /\ row[i].file \in Files
    BY <1>1 DEF RowOK
  <1>4. /\ row' \in [Imports -> Row] /\ row'[i] = new /\ Grows
        /\ \A k \in Imports \ {i} : row'[k] = row[k]
    BY <1>1, <1>2, <1>3, RowChange
  <1>5. row[i].key \in Keys
    BY <1>1 DEF Row
  <1>6. RowOK(i)'
    BY <1>2, <1>3, <1>4, <1>5 DEF RowOK, Genuine
  <1>7. /\ job' \in [Imports -> Job] /\ JobOK(i)'
        /\ \A k \in Imports \ {i} : job'[k] = job[k]
    BY <1>1, <1>2, <1>4, EnqueueDecided
  <1> QED BY <1>2, <1>4, <1>6, <1>7 DEF Decided

LEMMA MarkFailedDecides ==
  ASSUME IntakeInv, NEW i \in Imports, NEW code \in FailureCodes, MarkFailed(i, code),
         bucket' = bucket
  PROVE  Decided(i)
  <1> DEFINE new == [row[i] EXCEPT !.status = "failed", !.code = code]
  <1>1. /\ TypeOK /\ RowOK(i) /\ JobOK(i) /\ row[i] \in Row
        /\ row[i].status = "receiving" /\ Enqueue(i) /\ row' = [row EXCEPT ![i] = new]
    BY DEF IntakeInv, TypeOK, MarkFailed, AwaitsStorage
  <1>2. /\ new \in Row /\ new.status = "failed" /\ new.version = row[i].version
        /\ new.file = row[i].file /\ new.key = row[i].key
    BY <1>1 DEF Row, Statuses
  <1> HIDE DEF new
  <1>3. row[i].version = 0 /\ row[i].file \in Files /\ (row[i].key = NoKey => i \in Legacy)
    BY <1>1 DEF RowOK
  <1>4. /\ row' \in [Imports -> Row] /\ row'[i] = new /\ Grows
        /\ \A k \in Imports \ {i} : row'[k] = row[k]
    BY <1>1, <1>2, <1>3, RowChange
  <1>5. RowOK(i)'
    BY <1>2, <1>3, <1>4 DEF RowOK
  <1>6. /\ job' \in [Imports -> Job] /\ JobOK(i)'
        /\ \A k \in Imports \ {i} : job'[k] = job[k]
    BY <1>1, <1>2, <1>3, <1>4, EnqueueDecided
  <1> QED BY <1>4, <1>5, <1>6 DEF Decided

LEMMA ConfirmKeeps ==
  ASSUME IntakeInv, NEW q \in Requests, Confirm(q)
  PROVE  Kept
  <1>1. /\ TypeOK /\ RequestOK(q) /\ request[q] \in Request /\ request[q].pc = "confirm"
        /\ Goes(q, "stored") /\ UNCHANGED <<bucket, late, reconciler, operator>>
    BY DEF IntakeInv, TypeOK, Confirm
  <1>2. PICK i \in Imports : i = request[q].import
    BY <1>1 DEF RequestOK, Holding, Uploading
  <1>3. PICK v \in Nat \ {0} : v = request[q].version
    BY <1>1 DEF RequestOK, Request
  <1>4. /\ Genuine(i, v, row[i].key) /\ row[i].key = request[q].key /\ i \notin Legacy
        /\ request[q].key # NoKey /\ request[q].key \in Keys
    BY <1>1, <1>2, <1>3, ValuesAssumption DEF RequestOK, Holding, Uploading
  <1>5. MarkReceived(i, v)
    BY <1>2, <1>3 DEF Confirm
  <1>6. Decided(i) /\ row'[i].version = v
    BY <1>1, <1>4, <1>5, MarkReceivedDecides
  <1>7. /\ row'[i].status # "absent" /\ row'[i].file = request[q].file
        /\ row'[i].key = request[q].key /\ request[q].file \in Files
    BY <1>1, <1>2, <1>4, <1>6 DEF RequestOK, Holding, Uploading, Decided, Grows
  <1>8. Genuine(i, v, request[q].key)
    BY <1>4
  <1>9. RequestOK(q)'
    <2>1. /\ request'[q].pc = "stored" /\ request'[q].file = request[q].file
          /\ request'[q].key = request[q].key /\ request'[q].import = i
          /\ request'[q].version = v
      BY <1>1, <1>2, <1>3, GoesEffect
    <2>2. /\ v \in 1..Len(bucket'[i]) /\ bucket'[i][v].good
          /\ bucket'[i][v].key = request[q].key
      BY <1>1, <1>8 DEF Genuine
    <2> QED BY <1>3, <1>4, <1>6, <1>7, <2>1, <2>2
            DEF RequestOK, Holding, Uploading, Genuine
  <1>10. \A p \in Requests : request'[p] = request[p] \/ RequestOK(p)'
    BY <1>1, <1>9, GoesEffect DEF OwnRequest, TypeOK
  <1>11. request' \in [Requests -> Request]
    BY <1>1, GoesEffect DEF OwnRequest, TypeOK
  <1> QED BY <1>1, <1>6, <1>10, <1>11, DecidedKeeps DEF TypeOK

LEMMA ReconcileKeeps ==
  ASSUME IntakeInv, NEW r \in Reconcilers, Reconcile(r)
  PROVE  Kept
  <1>1. /\ TypeOK /\ RunOK(r) /\ reconciler[r] \in Run /\ reconciler[r].verdict # "none"
        /\ Passes(r) /\ UNCHANGED <<bucket, late, request, operator>>
    BY DEF IntakeInv, TypeOK, Reconcile
  <1>2. PICK i \in Imports : i = Min(reconciler[r].batch) /\ i \in reconciler[r].batch
    BY <1>1, OldestOfBatch DEF Run, RunOK
  <1>3. Decided(i)
    <2>1. CASE reconciler[r].verdict = "stored"
      <3>1. PICK v \in Nat \ {0} : v = reconciler[r].version
        BY <1>1, <1>2, <2>1 DEF RunOK, Run
      <3>2. Genuine(i, v, row[i].key) /\ row[i].key # NoKey
        BY <1>1, <1>2, <2>1, <3>1 DEF RunOK
      <3>3. MarkReceived(i, v)
        BY <1>2, <2>1, <3>1 DEF Reconcile
      <3> QED BY <1>1, <3>2, <3>3, MarkReceivedDecides
    <2>2. CASE reconciler[r].verdict # "stored"
      <3>1. PICK code \in FailureCodes : code = reconciler[r].verdict
        BY <1>1, <2>2 DEF Run, FailureCodes
      <3>2. MarkFailed(i, code)
        BY <1>2, <2>2, <3>1 DEF Reconcile
      <3> QED BY <1>1, <3>2, MarkFailedDecides
    <2> QED BY <2>1, <2>2
  <1>4. OwnRun(r) /\ reconciler'[r] \in Run /\ RunOK(r)'
    BY <1>1, <1>3, PassesEffect DEF Decided
  <1>5. reconciler' \in [Reconcilers -> Run]
    BY <1>1, <1>4 DEF OwnRun, TypeOK
  <1>6. \A s \in Reconcilers : reconciler'[s] = reconciler[s] \/ RunOK(s)'
    BY <1>1, <1>4 DEF OwnRun, TypeOK
  <1> QED BY <1>1, <1>3, <1>5, <1>6, DecidedKeeps DEF TypeOK

LEMMA RecordKeyDecides ==
  ASSUME IntakeInv, NEW o \in Operators, NEW i \in Imports, i = operator[o].import,
         RecordKey(o)
  PROVE  Decided(i)
  <1>1. /\ TypeOK /\ RowOK(i) /\ JobOK(i) /\ OperatorOK(o)
        /\ operator[o] \in Backfill /\ row[i] \in Row /\ job[i] \in Job
    BY DEF IntakeInv, TypeOK
  <1>2. /\ operator[o].version # 0 /\ LacksKey(i) /\ bucket' = bucket
    BY DEF RecordKey
  <1> DEFINE v   == operator[o].version
             key == operator[o].key
  <1>3. /\ v \in Nat /\ v # 0 /\ key \in Keys /\ key # NoKey /\ Genuine(i, v, key)
        /\ row[i].status # "absent" /\ operator[o].wanted \in {0, v}
    BY <1>1, <1>2, ValuesAssumption DEF OperatorOK, Backfill
  <1>4. row[i].key = NoKey /\ row[i].file \in Files
    BY <1>1, <1>2, <1>3 DEF LacksKey, RowOK
  <1>5. CASE row[i].status = "receiving"
    <2> DEFINE new == [row[i] EXCEPT !.key = key, !.status = "received", !.version = v]
    <2>1. row' = [row EXCEPT ![i] = new] /\ Enqueue(i)
      BY <1>5 DEF RecordKey
    <2> HIDE DEF v, key
    <2>2. /\ new \in Row /\ new.status = "received" /\ new.version = v
          /\ new.file = row[i].file /\ new.key = key
      BY <1>1, <1>3 DEF Row, Statuses
    <2> HIDE DEF new
    <2>3. row[i].version = 0
      BY <1>1, <1>5 DEF RowOK
    <2>4. /\ row' \in [Imports -> Row] /\ row'[i] = new /\ Grows
          /\ \A k \in Imports \ {i} : row'[k] = row[k]
      BY <1>1, <1>2, <1>3, <1>4, <1>5, <2>1, <2>2, <2>3, RowChange
    <2>5. RowOK(i)'
      BY <1>2, <1>3, <1>4, <2>2, <2>4 DEF RowOK, Genuine
    <2>6. /\ job' \in [Imports -> Job] /\ JobOK(i)'
          /\ \A k \in Imports \ {i} : job'[k] = job[k]
      BY <1>1, <1>3, <1>5, <2>1, <2>2, <2>4, EnqueueDecided
    <2> QED BY <2>4, <2>5, <2>6 DEF Decided
  <1>6. CASE row[i].status # "receiving"
    <2> DEFINE new == [row[i] EXCEPT !.key = key]
    <2>1. row' = [row EXCEPT ![i] = new] /\ job' = job
      BY <1>6 DEF RecordKey
    <2>2. row[i].version # 0
      BY <1>2, <1>6 DEF LacksKey
    <2>3. row[i].version = v
      BY <1>1, <1>3, <1>4, <2>2 DEF OperatorOK
    <2> HIDE DEF v, key
    <2>4. /\ new \in Row /\ new.status = row[i].status /\ new.version = row[i].version
          /\ new.file = row[i].file /\ new.key = key /\ new.code = row[i].code
      BY <1>1, <1>3 DEF Row
    <2> HIDE DEF new
    <2>5. /\ row' \in [Imports -> Row] /\ row'[i] = new /\ Grows
          /\ \A k \in Imports \ {i} : row'[k] = row[k]
      BY <1>1, <1>2, <1>3, <1>4, <2>1, <2>2, <2>4, RowChange
    <2>6. RowOK(i)'
      BY SMTT(30), <1>1, <1>2, <1>3, <1>4, <1>6, <2>2, <2>3, <2>4, <2>5 DEF RowOK, Genuine
    <2>7. JobOK(i)'
      BY <1>1, <2>1, <2>4, <2>5 DEF JobOK
    <2> QED BY <1>1, <2>1, <2>5, <2>6, <2>7 DEF Decided, TypeOK
  <1> QED BY <1>5, <1>6

LEMMA RecordKeyKeeps ==
  ASSUME IntakeInv, NEW o \in Operators, RecordKey(o)
  PROVE  Kept
  <1>1. /\ TypeOK /\ OperatorOK(o) /\ operator[o] \in Backfill /\ operator[o].version # 0
        /\ operator' = [operator EXCEPT ![o] = NoBackfill]
        /\ UNCHANGED <<bucket, late, request, reconciler>>
    BY DEF IntakeInv, TypeOK, RecordKey
  <1>2. PICK i \in Imports : i = operator[o].import
    BY <1>1 DEF OperatorOK, Backfill
  <1>3. Decided(i)
    BY <1>2, RecordKeyDecides
  <1>4. operator'[o] = NoBackfill
    BY <1>1 DEF TypeOK
  <1>5. operator'[o] \in Backfill /\ OperatorOK(o)'
    BY <1>4, NoBackfillOK
  <1>6. /\ operator' \in [Operators -> Backfill]
        /\ \A p \in Operators : operator'[p] = operator[p] \/ OperatorOK(p)'
    BY <1>1, <1>4, <1>5 DEF TypeOK
  <1> QED BY <1>1, <1>3, <1>6, DecidedKeeps DEF TypeOK

LEMMA CreateKeeps ==
  ASSUME IntakeInv, NEW q \in Requests, NEW i \in Imports, Create(q, i)
  PROVE  Kept
  <1> DEFINE f   == request[q].file
             key == request[q].key
             new == [NoRow EXCEPT !.status = "receiving", !.file = f, !.key = key]
             going == [request[q] EXCEPT !.pc = "store", !.import = i]
  <1>1. /\ TypeOK /\ RequestOK(q) /\ RowOK(i) /\ JobOK(i) /\ request[q] \in Request
        /\ job[i] \in Job
    BY DEF IntakeInv, TypeOK
  <1>2. /\ request[q].pc = "create" /\ row[i].status = "absent"
        /\ row' = [row EXCEPT ![i] = new] /\ Enqueue(i)
        /\ request' = [request EXCEPT ![q] = going]
        /\ UNCHANGED <<bucket, late, reconciler, operator>>
    BY DEF Create
  <1>3. f \in Files /\ key \in Keys /\ key # NoKey /\ request[q].version = 0
    BY <1>1, <1>2, ValuesAssumption DEF RequestOK, Holding, Uploading
  <1>4. /\ going \in Request /\ going.pc = "store" /\ going.file = f /\ going.key = key
        /\ going.import = i /\ going.version = 0
    BY <1>1, <1>3 DEF Request, Holding, Uploading
  <1> HIDE DEF going, f, key
  <1>5. /\ new \in Row /\ new.status = "receiving" /\ new.file = f /\ new.key = key
        /\ new.version = 0
    BY <1>3 DEF NoRow, Row, Statuses, FailureCodes
  <1> HIDE DEF new
  <1>6. row[i].key = NoKey /\ row[i].version = 0 /\ i \notin Legacy
    <2>1. row[i] = NoRow /\ i \notin Legacy
      BY <1>1, <1>2 DEF RowOK
    <2>2. NoRow.key = NoKey /\ NoRow.version = 0
      BY DEF NoRow
    <2> QED BY <2>1, <2>2
  <1>7. /\ row' \in [Imports -> Row] /\ row'[i] = new /\ Grows
        /\ \A k \in Imports \ {i} : row'[k] = row[k]
    BY <1>1, <1>2, <1>5, <1>6, RowChange
  <1>8. RowOK(i)'
    BY <1>3, <1>5, <1>7 DEF RowOK
  <1> DEFINE added == Enqueued(i)
  <1>9. job[i].status = "absent"
    BY <1>1, <1>2 DEF JobOK
  <1>10. added = [NoJob EXCEPT !.status = "waiting_file"]
    BY <1>5, <1>7, <1>9 DEF Enqueued, DesiredStatus
  <1>11. job' = [job EXCEPT ![i] = added]
    BY <1>2 DEF Enqueue
  <1>12. added \in Job /\ added.status = "waiting_file" /\ added.error = ""
    BY <1>10 DEF NoJob, Job, JobStatuses
  <1> HIDE DEF added
  <1>13. /\ job' \in [Imports -> Job] /\ job'[i] = added
         /\ \A k \in Imports \ {i} : job'[k] = job[k]
    BY <1>1, <1>11, <1>12, JobChange
  <1>14. JobOK(i)'
    BY <1>5, <1>7, <1>12, <1>13 DEF JobOK
  <1>15. Decided(i)
    BY <1>7, <1>8, <1>13, <1>14 DEF Decided
  <1>16. request'[q] = going /\ OwnRequest(q) /\ request' \in [Requests -> Request]
    BY <1>1, <1>2, <1>4 DEF TypeOK, OwnRequest
  <1>17. RequestOK(q)'
    BY <1>3, <1>4, <1>5, <1>6, <1>7, <1>16 DEF RequestOK, Holding, Uploading
  <1>18. \A p \in Requests : request'[p] = request[p] \/ RequestOK(p)'
    BY <1>1, <1>16, <1>17 DEF OwnRequest, TypeOK
  <1> QED BY <1>1, <1>2, <1>15, <1>16, <1>18, DecidedKeeps DEF TypeOK

\* A worker step writes the job, and sometimes fails the row, of one import.
LEMMA WorkerStepKeeps ==
  ASSUME IntakeInv, NEW i \in Imports, WorkerStep(i)
  PROVE  Kept
  <1>1. TypeOK /\ RowOK(i) /\ JobOK(i) /\ row[i] \in Row /\ job[i] \in Job
    BY DEF IntakeInv, TypeOK
  <1>2. UNCHANGED <<bucket, late, request, reconciler, operator>>
    BY DEF WorkerStep, WorkerPublishes, WorkerFails, WorkerRefusesObject, Requeue
  <1>3. job[i].status = "queued" => row[i].status = "received" /\ row[i].file \in CsvFiles
    BY <1>1 DEF JobOK, Row, Statuses
  <1>4. ASSUME row' = row, NEW new \in Job, job' = [job EXCEPT ![i] = new],
               row[i].status = "received", new.error # "INTAKE_STORAGE_FAILED",
               new.status \in {"queued", "published", "failed"},
               new.status = "queued" => row[i].file \in CsvFiles
        PROVE  Decided(i)
    <2>1. /\ job' \in [Imports -> Job] /\ job'[i] = new
          /\ \A k \in Imports \ {i} : job'[k] = job[k]
      BY <1>1, <1>4, JobChange
    <2>2. Grows
      BY <1>2, <1>4, SameRowsGrow
    <2>3. RowOK(i)'
      BY <1>1, <1>4, <2>2, RowKept
    <2>4. JobOK(i)'
      BY <1>1, <1>4, <2>1 DEF JobOK
    <2> QED BY <1>1, <1>4, <2>1, <2>2, <2>3, <2>4 DEF Decided, TypeOK
  <1>5. CASE WorkerPublishes(i)
    <2> DEFINE new == [job[i] EXCEPT !.status = "published"]
    <2>1. row' = row /\ job' = [job EXCEPT ![i] = new] /\ job[i].status = "queued"
      BY <1>5 DEF WorkerPublishes, Queued
    <2>2. new \in Job /\ new.status = "published" /\ new.error = job[i].error
      BY <1>1 DEF Job, JobStatuses
    <2> HIDE DEF new
    <2>3. job[i].error # "INTAKE_STORAGE_FAILED"
      BY <1>1, <1>3, <2>1 DEF JobOK
    <2>4. Decided(i)
      BY <1>3, <1>4, <2>1, <2>2, <2>3
    <2> QED BY <1>1, <1>2, <2>4, DecidedKeeps DEF TypeOK
  <1>6. CASE WorkerFails(i)
    <2> DEFINE new == [status |-> "failed", error |-> "other"]
    <2>1. row' = row /\ job' = [job EXCEPT ![i] = new] /\ job[i].status = "queued"
      BY <1>6 DEF WorkerFails, Queued
    <2>2. new \in Job /\ new.status = "failed" /\ new.error = "other"
      BY DEF Job, JobStatuses
    <2> HIDE DEF new
    <2>3. Decided(i)
      BY <1>3, <1>4, <2>1, <2>2
    <2> QED BY <1>1, <1>2, <2>3, DecidedKeeps DEF TypeOK
  <1>7. CASE Requeue(i)
    <2> DEFINE new == [status |-> "queued", error |-> ""]
    <2>1. /\ row' = row /\ job' = [job EXCEPT ![i] = new] /\ row[i].status = "received"
          /\ row[i].file \in CsvFiles
      BY <1>7 DEF Requeue
    <2>2. new \in Job /\ new.status = "queued" /\ new.error = ""
      BY DEF Job, JobStatuses
    <2> HIDE DEF new
    <2>3. Decided(i)
      BY <1>4, <2>1, <2>2
    <2> QED BY <1>1, <1>2, <2>3, DecidedKeeps DEF TypeOK
  <1>8. CASE WorkerRefusesObject(i)
    <2> DEFINE new    == [status |-> "failed", error |-> "other"]
               failed == [row[i] EXCEPT !.status = "failed", !.code = "object_missing"]
    <2>1. /\ row' = [row EXCEPT ![i] = failed] /\ job' = [job EXCEPT ![i] = new]
          /\ row[i].status = "received"
      BY <1>8 DEF WorkerRefusesObject
    <2>2. new \in Job /\ new.status = "failed" /\ new.error = "other"
      BY DEF Job, JobStatuses
    <2>3. /\ failed \in Row /\ failed.status = "failed" /\ failed.version = row[i].version
          /\ failed.file = row[i].file /\ failed.key = row[i].key
      BY <1>1 DEF Row, Statuses, FailureCodes
    <2> HIDE DEF new, failed
    <2>4. /\ job' \in [Imports -> Job] /\ job'[i] = new
          /\ \A k \in Imports \ {i} : job'[k] = job[k]
      BY <1>1, <2>1, <2>2, JobChange
    <2>5. /\ row' \in [Imports -> Row] /\ row'[i] = failed /\ Grows
          /\ \A k \in Imports \ {i} : row'[k] = row[k]
      BY <1>1, <1>2, <2>1, <2>3, RowChange
    <2>6. row[i].version # 0 /\ row[i].file \in Files
      BY <1>1, <2>1 DEF RowOK
    <2>7. RowOK(i)'
      <3>1. PICK key \in Keys : Genuine(i, row[i].version, key) /\ row[i].key \in {NoKey, key}
        BY <1>1, <2>6 DEF RowOK
      <3>2. /\ row[i].version \in 1..Len(bucket'[i]) /\ bucket'[i][row[i].version].good
            /\ bucket'[i][row[i].version].key = key
        BY <1>2, <3>1 DEF Genuine
      <3>3. row[i].key = NoKey => i \in Legacy
        BY <1>1, <2>1 DEF RowOK
      <3> QED BY <2>3, <2>5, <2>6, <3>1, <3>2, <3>3 DEF RowOK, Genuine
    <2>8. JobOK(i)'
      BY <2>2, <2>3, <2>4, <2>5, <2>6 DEF JobOK
    <2>9. Decided(i)
      BY <2>4, <2>5, <2>7, <2>8 DEF Decided
    <2> QED BY <1>1, <1>2, <2>9, DecidedKeeps DEF TypeOK
  <1> QED BY <1>5, <1>6, <1>7, <1>8 DEF WorkerStep

-----------------------------------------------------------------------------
(***************************************************************************)
(* The invariant holds.                                                    *)
(***************************************************************************)

LEMMA LegacyRowFacts ==
  ASSUME NEW r \in LegacyRows
  PROVE  /\ r \in Row /\ r.status \in {"receiving", "received", "failed"}
         /\ r.file \in Files /\ r.key = NoKey
         /\ r.version = IF r.status = "received" THEN 1 ELSE 0
  <1>1. PICK f \in Files, s \in {"receiving", "received", "failed"},
             code \in {"", "object_missing"} : r = LegacyRow(f, s, code)
    BY DEF LegacyRows
  <1> DEFINE v == IF s = "received" THEN 1 ELSE 0
  <1>2. v \in Nat /\ v = IF s = "received" THEN 1 ELSE 0
    OBVIOUS
  <1>3. r = [NoRow EXCEPT !.file = f, !.status = s, !.code = code, !.version = v]
    BY <1>1 DEF LegacyRow
  <1> HIDE DEF v
  <1>4. r \in Row /\ r.status = s /\ r.file = f /\ r.key = NoKey /\ r.version = v
    BY <1>2, <1>3 DEF NoRow, Row, Statuses, FailureCodes
  <1> QED BY <1>2, <1>4

LEMMA LegacyJobFacts ==
  ASSUME NEW r, r.status \in {"receiving", "received", "failed"}
  PROVE  /\ LegacyJob(r) \in Job /\ LegacyJob(r).status # "absent"
         /\ r.status = "receiving" <=> LegacyJob(r).status = "waiting_file"
         /\ r.status = "failed" => LegacyJob(r).status = "failed"
         /\ r.status = "failed" <=> LegacyJob(r).error = "INTAKE_STORAGE_FAILED"
         /\ LegacyJob(r).status = "awaiting_parser" => r.file \notin CsvFiles
         /\ LegacyJob(r).status = "queued" => r.file \in CsvFiles
  <1>1. CASE r.status = "receiving"
    <2>1. LegacyJob(r) = [NoJob EXCEPT !.status = "waiting_file"]
      BY <1>1 DEF LegacyJob
    <2> QED BY <1>1, <2>1 DEF NoJob, Job, JobStatuses
  <1>2. CASE r.status = "received"
    <2> DEFINE wanted == IF r.file \in CsvFiles THEN "queued" ELSE "awaiting_parser"
    <2>1. LegacyJob(r) = [NoJob EXCEPT !.status = wanted]
      BY <1>2 DEF LegacyJob
    <2>2. /\ wanted \in {"queued", "awaiting_parser"}
          /\ wanted = "queued" => r.file \in CsvFiles
          /\ wanted = "awaiting_parser" => r.file \notin CsvFiles
      OBVIOUS
    <2> HIDE DEF wanted
    <2>3. LegacyJob(r) \in Job /\ LegacyJob(r).status = wanted /\ LegacyJob(r).error = ""
      BY <2>1, <2>2 DEF NoJob, Job, JobStatuses
    <2> QED BY <1>2, <2>2, <2>3
  <1>3. CASE r.status = "failed"
    <2>1. LegacyJob(r) = [status |-> "failed", error |-> "INTAKE_STORAGE_FAILED"]
      BY <1>3 DEF LegacyJob
    <2> QED BY <1>3, <2>1 DEF Job, JobStatuses
  <1> QED BY <1>1, <1>2, <1>3

LEMMA NoRowFacts ==
  /\ NoRow \in Row /\ NoRow.status = "absent" /\ NoRow.version = 0
  /\ NoJob \in Job /\ NoJob.status = "absent" /\ NoJob.error = ""
  BY DEF NoRow, NoJob, Row, Statuses, FailureCodes, Job, JobStatuses

LEMMA InitInv ==
  ASSUME Init
  PROVE  IntakeInv
  <1>1. PICK old \in [Legacy -> LegacyRows] :
          /\ row = [i \in Imports |-> IF i \in Legacy THEN old[i] ELSE NoRow]
          /\ job = [i \in Imports |-> IF i \in Legacy THEN LegacyJob(old[i]) ELSE NoJob]
    BY DEF Init
  <1>2. PICK stored \in [Imports -> {<<>>} \cup {<<Version(TRUE, k)>> : k \in Keys}] :
          /\ \A i \in Imports : row[i].status = "received" => stored[i] # <<>>
          /\ bucket = stored
    BY DEF Init
  <1>3. /\ late = {}
        /\ request = [q \in Requests |-> NoRequest]
        /\ reconciler = [r \in Reconcilers |-> NoRun]
        /\ operator = [o \in Operators |-> NoBackfill]
    BY DEF Init
  <1>4. ASSUME NEW i \in Imports
        PROVE  /\ i \in Legacy => row[i] = old[i] /\ job[i] = LegacyJob(old[i])
                                  /\ old[i] \in LegacyRows
               /\ i \notin Legacy => row[i] = NoRow /\ job[i] = NoJob
    BY <1>1
  <1>5. ASSUME NEW i \in Imports
        PROVE  row[i] \in Row /\ job[i] \in Job
    <2>1. CASE i \in Legacy
      BY <1>4, <2>1, LegacyRowFacts, LegacyJobFacts
    <2>2. CASE i \notin Legacy
      BY <1>4, <2>2, NoRowFacts
    <2> QED BY <2>1, <2>2
  <1>6. ASSUME NEW i \in Imports
        PROVE  JobOK(i)
    <2>1. CASE i \in Legacy
      <3> DEFINE r == old[i]
      <3>1. /\ row[i] = r /\ job[i] = LegacyJob(r)
            /\ r.status \in {"receiving", "received", "failed"}
            /\ r.version = IF r.status = "received" THEN 1 ELSE 0
        BY <1>4, <2>1, LegacyRowFacts
      <3> HIDE DEF r
      <3> QED BY <3>1, LegacyJobFacts DEF JobOK
    <2>2. CASE i \notin Legacy
      BY <1>4, <2>2, NoRowFacts DEF JobOK
    <2> QED BY <2>1, <2>2
  <1>7. ASSUME NEW i \in Imports
        PROVE  bucket[i] \in Seq(Object)
               /\ (row[i].status = "received" => \E key \in Keys : Genuine(i, 1, key))
    <2>1. CASE bucket[i] = <<>>
      BY <1>2, <2>1
    <2>2. CASE bucket[i] # <<>>
      <3>1. PICK k \in Keys : bucket[i] = <<Version(TRUE, k)>>
        BY <1>2, <2>2
      <3> DEFINE object == Version(TRUE, k)
      <3>2. object \in Object /\ object.good /\ object.key = k
        BY Objects
      <3>3. bucket[i] = <<object>>
        BY <3>1
      <3> HIDE DEF object
      <3>4. bucket[i] \in Seq(Object) /\ Len(bucket[i]) = 1 /\ bucket[i][1] = object
        BY <3>2, <3>3
      <3>5. Genuine(i, 1, k)
        BY <3>2, <3>4 DEF Genuine
      <3> QED BY <3>4, <3>5
    <2> QED BY <2>1, <2>2
  <1>8. ASSUME NEW i \in Imports
        PROVE  RowOK(i)
    <2>1. CASE i \in Legacy
      <3> DEFINE r == old[i]
      <3>1. /\ row[i] = r /\ r.status \in {"receiving", "received", "failed"}
            /\ r.file \in Files /\ r.key = NoKey
            /\ r.version = IF r.status = "received" THEN 1 ELSE 0
        BY <1>4, <2>1, LegacyRowFacts
      <3> HIDE DEF r
      <3> QED BY <1>7, <2>1, <3>1 DEF RowOK
    <2>2. CASE i \notin Legacy
      BY <1>4, <2>2, NoRowFacts DEF RowOK
    <2> QED BY <2>1, <2>2
  <1>9. /\ NoRequest \in Request /\ NoRequest.pc = "idle" /\ NoRequest.version = 0
        /\ NoRun \in Run /\ NoRun.batch = {} /\ NoRun.verdict = "none"
        /\ NoBackfill \in Backfill /\ NoBackfill.import = 0 /\ NoBackfill.version = 0
    BY DEF NoRequest, Request, NoRun, Run, NoBackfill, Backfill
  <1>10. row \in [Imports -> Row] /\ job \in [Imports -> Job] /\ bucket \in [Imports -> Seq(Object)]
    <2>1. row = [i \in Imports |-> row[i]] /\ job = [i \in Imports |-> job[i]]
          /\ bucket = [i \in Imports |-> bucket[i]]
      BY <1>1, <1>2
    <2> QED BY <1>5, <1>7, <2>1
  <1>11. TypeOK
    BY <1>3, <1>9, <1>10 DEF TypeOK
  <1>12. \A q \in Requests : RequestOK(q)
    BY <1>3, <1>9 DEF RequestOK, Holding, Uploading
  <1>13. \A r \in Reconcilers : RunOK(r)
    BY <1>3, <1>9 DEF RunOK
  <1>14. \A o \in Operators : OperatorOK(o)
    BY <1>3, <1>9, ImportNumbers DEF OperatorOK
  <1> QED BY <1>3, <1>6, <1>8, <1>11, <1>12, <1>13, <1>14 DEF IntakeInv

LEMMA NextKeeps ==
  ASSUME IntakeInv, [Next]_vars
  PROVE  Kept
  <1>1. ASSUME NEW q \in Requests, RequestStep(q)
        PROVE  Kept
    BY <1>1, SubmitKeeps, EnqueueExistingKeeps, CreateKeeps, LookAgainKeeps, PutLandsKeeps,
       GoingKeeps, PutFailsKeeps, ConfirmKeeps, RequestEnds DEF RequestStep
  <1>2. ASSUME NEW r \in Reconcilers, ReconcilerStep(r)
        PROVE  Kept
    BY <1>2, StartRunKeeps, InspectKeeps, PassingKeeps, ReconcileKeeps, RunDiesKeeps
       DEF ReconcilerStep, RunGoesOn
  <1>3. ASSUME NEW o \in Operators, OperatorStep(o)
        PROVE  Kept
    BY <1>3, StartBackfillKeeps, DiscoverKeeps, RecordKeyKeeps, BackfillFailsKeeps
       DEF OperatorStep
  <1>4. ASSUME NEW i \in Imports, StorageStep(i)
        PROVE  Kept
    BY <1>4, LateWriteLandsKeeps, LateWriteIsLostKeeps, ForeignWriteKeeps,
       VersionVanishesKeeps DEF StorageStep
  <1>5. CASE UNCHANGED vars
    <2>1. /\ row' = row /\ job' = job /\ bucket' = bucket /\ late' = late
          /\ request' = request /\ reconciler' = reconciler /\ operator' = operator
      BY <1>5 DEF vars
    <2>2. TypeOK'
      BY <2>1 DEF IntakeInv, TypeOK
    <2> QED BY <2>1, <2>2, SameRowsGrow, StepKeeps
  <1> QED BY <1>1, <1>2, <1>3, <1>4, <1>5, WorkerStepKeeps DEF Next

\* Every upload, reconciler run, backfill and worker keeps what the others rely on:
\* an object version found to be that of an import stays so until it is recorded.
THEOREM IntakeInvariant == Spec => []IntakeInv
  <1>1. Init => IntakeInv
    BY InitInv
  <1>2. IntakeInv /\ [Next]_vars => IntakeInv'
    BY NextKeeps DEF Kept
  <1> QED BY <1>1, <1>2, PTL DEF Spec

-----------------------------------------------------------------------------
(***************************************************************************)
(* What follows from it.                                                   *)
(***************************************************************************)

\* The version an import records has the bytes, the metadata and the key of its
\* upload, whoever confirmed it and whoever else wrote under its key.
THEOREM EvidenceIsTrue == Spec => []EvidenceIsGenuine
  <1>1. ASSUME IntakeInv
        PROVE  EvidenceIsGenuine
    <2>1. ASSUME NEW i \in Imports, row[i].version # 0
          PROVE  /\ row[i].version \in DOMAIN bucket[i]
                 /\ bucket[i][row[i].version].good
                 /\ row[i].key \in {NoKey, bucket[i][row[i].version].key}
      <3>1. RowOK(i) /\ bucket[i] \in Seq(Object)
        BY <1>1 DEF IntakeInv, TypeOK
      <3>2. PICK key \in Keys : Genuine(i, row[i].version, key) /\ row[i].key \in {NoKey, key}
        BY <2>1, <3>1 DEF RowOK
      <3> QED BY <3>1, <3>2 DEF Genuine
    <2> QED BY <2>1 DEF EvidenceIsGenuine
  <1> QED BY <1>1, IntakeInvariant, PTL

\* The job says what the intake says after every transaction that decides either.
THEOREM JobFollowsIntake == Spec => []JobAgreesWithIntake
  <1>1. IntakeInv => JobAgreesWithIntake
    BY DEF IntakeInv, JobOK, JobAgreesWithIntake
  <1> QED BY <1>1, IntakeInvariant, PTL

\* What a web process tells its user is still true when the user reads it.
THEOREM UsersAreToldTheTruth == Spec => []AnswersAreTrue
  <1>1. ASSUME IntakeInv
        PROVE  AnswersAreTrue
    <2>1. ASSUME NEW q \in Requests,
                 request[q].pc \in {"stored", "duplicate", "awaiting"}
          PROVE  /\ row[request[q].import].file = request[q].file
                 /\ request[q].pc = "stored" =>
                       /\ row[request[q].import].version = request[q].version
                       /\ row[request[q].import].key = request[q].key
      <3>1. RequestOK(q)
        BY <1>1 DEF IntakeInv
      <3>2. PICK i \in Imports : i = request[q].import
        BY <2>1, <3>1 DEF RequestOK, Holding, Uploading
      <3> QED BY <2>1, <3>1, <3>2 DEF RequestOK, Holding, Uploading
    <2> QED BY <2>1 DEF AnswersAreTrue
  <1> QED BY <1>1, IntakeInvariant, PTL

\* No transaction of an upload, a reconciler run, a backfill or a worker, however
\* late it comes, replaces what was decided and recorded about an import.
THEOREM EvidenceStaysSealed == Spec => EvidenceIsSealed
  <1>1. ASSUME IntakeInv, [Next]_vars
        PROVE  \A i \in Imports :
                  /\ row[i].status = "received" => row'[i].status \in {"received", "failed"}
                  /\ row[i].status = "failed" =>
                        row'[i] = [row[i] EXCEPT !.key = row'[i].key]
                  /\ row[i].version # 0 => row'[i].version = row[i].version
                  /\ row[i].key # NoKey => row'[i].key = row[i].key
    <2>1. Grows /\ IntakeInv'
      BY <1>1, NextKeeps DEF Kept
    <2>2. ASSUME NEW i \in Imports, row[i].status = "failed"
          PROVE  row'[i] = [row[i] EXCEPT !.key = row'[i].key]
      <3>1. row[i] \in Row /\ row'[i] \in Row
        BY <1>1, <2>1 DEF IntakeInv, TypeOK
      <3>2. /\ row'[i].status = row[i].status /\ row'[i].code = row[i].code
            /\ row'[i].version = row[i].version /\ row'[i].file = row[i].file
        BY <2>1, <2>2 DEF Grows
      <3> QED BY <3>1, <3>2 DEF Row
    <2> QED BY <2>1, <2>2 DEF Grows
  <1> QED BY <1>1, IntakeInvariant, PTL DEF Spec, EvidenceIsSealed

-----------------------------------------------------------------------------
(***************************************************************************)
(* With a grace period that covers every upload, a run never judges one    *)
(* that is under way, and what it finds missing or wrong stays so: of the  *)
(* writes that could still land none is of the import itself.              *)
(***************************************************************************)

\* The newest object under the key of the import is not its own file.
Unmatched(i) ==
    \/ Latest(i) = 0
    \/ ~bucket[i][Latest(i)].good
    \/ bucket[i][Latest(i)].key # row[i].key

Refused(i) == row[i].status = "failed" /\ row[i].version = 0

FoundWrong(r, i) ==
    /\ i \in reconciler[r].batch
    /\ i = Min(reconciler[r].batch)
    /\ reconciler[r].verdict \notin {"none", "stored"}
    /\ row[i].version = 0

RefusalInv ==
    /\ \A r \in Reconcilers : \A i \in reconciler[r].batch : ~UploadUnderWay(i)
    /\ \A i \in Imports \ Legacy : Refused(i) => ~UploadUnderWay(i) /\ Unmatched(i)
    /\ \A r \in Reconcilers, i \in Imports \ Legacy : FoundWrong(r, i) => Unmatched(i)

\* Only its own run changes what a run is doing.
LEMMA RunMoves ==
  ASSUME IntakeInv, Next, NEW r \in Reconcilers
  PROVE  \/ reconciler'[r] = reconciler[r]
         \/ Inspect(r)
         \/ /\ reconciler'[r].verdict = "none"
            /\ \/ reconciler'[r].batch \subseteq reconciler[r].batch
               \/ \E cutoff \in Imports : StartRun(r, cutoff)
  <1>1. reconciler \in [Reconcilers -> Run]
    BY DEF IntakeInv, TypeOK
  <1>2. CASE \E q \in Requests : RequestStep(q)
    BY <1>2 DEF RequestStep, Submit, EnqueueExisting, Create, CreateRefused, LookAgain,
       PutLands, PutAnswered, PutFails, VerifySucceeds, VerifyFails, Confirm,
       ConfirmRefused, Respond, RequestDies
  <1>3. CASE \E o \in Operators : OperatorStep(o)
    BY <1>3 DEF OperatorStep, StartBackfill, Discover, RecordKey, BackfillFails
  <1>4. CASE \E i \in Imports : WorkerStep(i) \/ StorageStep(i)
    BY <1>4 DEF WorkerStep, WorkerPublishes, WorkerFails, WorkerRefusesObject, Requeue,
       StorageStep, LateWriteLands, LateWriteIsLost, ForeignWrite, VersionVanishes
  <1>5. ASSUME NEW s \in Reconcilers, ReconcilerStep(s)
        PROVE  \/ reconciler'[r] = reconciler[r]
               \/ Inspect(r)
               \/ /\ reconciler'[r].verdict = "none"
                  /\ \/ reconciler'[r].batch \subseteq reconciler[r].batch
                     \/ \E cutoff \in Imports : StartRun(r, cutoff)
    <2>1. CASE r # s
      BY <1>1, <1>5, <2>1 DEF ReconcilerStep, RunGoesOn, StartRun, Inspect, Defer, Reconcile,
         ReconcileRefused, RunDies, Passes
    <2>2. CASE Inspect(s) /\ r = s
      BY <2>2
    <2>3. ASSUME NEW cutoff \in Imports, StartRun(s, cutoff), r = s
          PROVE  reconciler'[r].verdict = "none"
      BY <1>1, <2>3 DEF StartRun, NoRun
    <2>4. CASE r = s /\ reconciler'[s] = NoRun
      BY <2>4 DEF NoRun
    <2>5. CASE r = s /\ Passes(s)
      <3> DEFINE run == reconciler[s]
      <3>1. reconciler'[s] = Passed(run)
        BY <1>1, <2>5 DEF Passes
      <3> HIDE DEF run
      <3>2. Passed(run).verdict = "none" /\ Passed(run).batch \subseteq run.batch
        BY DEF Passed, NoRun
      <3> QED BY <2>5, <3>1, <3>2 DEF run
    <2>6. RunDies(s) => reconciler'[s] = NoRun
      BY <1>1 DEF RunDies
    <2> QED BY <1>5, <2>1, <2>2, <2>3, <2>4, <2>5, <2>6
            DEF ReconcilerStep, RunGoesOn, Defer, Reconcile, ReconcileRefused
  <1> QED BY <1>2, <1>3, <1>4, <1>5 DEF Next

\* An upload begins with the row of its import, and is over once and for all.
LEMMA UploadsBeginOnce ==
  ASSUME IntakeInv, Next, NEW i \in Imports, row[i].status # "absent", UploadUnderWay(i)'
  PROVE  UploadUnderWay(i)
  <1>0. TypeOK
    BY DEF IntakeInv
  <1>1. request \in [Requests -> Request] /\ late \subseteq Imports
    BY <1>0 DEF TypeOK
  <1> DEFINE Open(p) == request[p].import = i
                        /\ request[p].pc \in {"store", "verify", "confirm"}
  <1>2. UploadUnderWay(i) <=> i \in late \/ \E p \in Requests : Open(p)
    BY DEF UploadUnderWay
  <1>3. i \in late' \/ \E p \in Requests : Open(p)'
    BY DEF UploadUnderWay
  <1>4. ASSUME request' = request, late' \subseteq late
        PROVE  UploadUnderWay(i)
    BY <1>2, <1>3, <1>4
  <1>5. ASSUME NEW q \in Requests, RequestStep(q)
        PROVE  UploadUnderWay(i)
    <2>1. \A p \in Requests \ {q} : request'[p] = request[p]
      BY <1>1, <1>5 DEF RequestStep, Submit, EnqueueExisting, Create, CreateRefused,
         LookAgain, PutLands, PutAnswered, PutFails, VerifySucceeds, VerifyFails, Confirm,
         ConfirmRefused, Respond, RequestDies, Goes
    <2>2. i \in late' => i \in late \/ (request[q].pc = "store" /\ i = request[q].import)
      BY <1>5 DEF RequestStep, Submit, EnqueueExisting, Create, CreateRefused,
         LookAgain, PutLands, PutAnswered, PutFails, VerifySucceeds, VerifyFails, Confirm,
         ConfirmRefused, Respond, RequestDies, Goes
    <2>3. ASSUME Open(q)'
          PROVE  Open(q)
      <3>1. ASSUME NEW f \in Submitted, NEW k \in Keys, Submit(q, f, k)
            PROVE  FALSE
        BY <1>1, <2>3, <3>1 DEF Submit, NoRequest
      <3>2. ~(EnqueueExisting(q) \/ CreateRefused(q) \/ PutFails(q) \/ VerifyFails(q)
                \/ Confirm(q) \/ ConfirmRefused(q))
        <4>1. ASSUME NEW pc \in {"duplicate", "again", "error", "awaiting", "stored"},
                     Goes(q, pc)
              PROVE  FALSE
          BY <1>0, <2>3, <4>1, GoesEffect
        <4> QED BY <4>1 DEF EnqueueExisting, CreateRefused, PutFails, VerifyFails,
                Confirm, ConfirmRefused
      <3>3. ~(Respond(q) \/ RequestDies(q))
        BY <1>1, <2>3 DEF Respond, RequestDies, NoRequest
      <3>4. ~LookAgain(q)
        <4>1. ASSUME LookAgain(q)
              PROVE  request'[q].pc \in {"error", "duplicate"}
          <5> DEFINE found == Min(ActiveImports(request[q].file))
          <5>1. request[q] \in Request
            BY <1>1
          <5>2. \/ request' = [request EXCEPT ![q] = [request[q] EXCEPT !.pc = "error"]]
                \/ request' = [request EXCEPT ![q] =
                       [request[q] EXCEPT !.pc = "duplicate", !.import = found]]
            BY <4>1 DEF LookAgain
          <5> HIDE DEF found
          <5> QED BY <1>1, <5>1, <5>2 DEF Request
        <4> QED BY <2>3, <4>1
      <3>5. ASSUME NEW k \in Imports, Create(q, k)
            PROVE  FALSE
        BY <1>1, <2>3, <3>5 DEF Create
      <3>6. PutLands(q) \/ PutAnswered(q) \/ VerifySucceeds(q) => Open(q)
        <4>1. PutAnswered(q) \/ VerifySucceeds(q) => Open(q)
          BY <1>0, <2>3, GoesEffect DEF PutAnswered, VerifySucceeds
        <4>2. PutLands(q) => Open(q)
          <5> DEFINE v == Len(bucket[request[q].import]) + 1
          <5>1. request[q] \in Request
            BY <1>1
          <5>2. PutLands(q) => request[q].pc = "store"
                   /\ request' = [request EXCEPT ![q] = [request[q] EXCEPT !.version = v]]
            BY DEF PutLands
          <5> HIDE DEF v
          <5> QED BY <1>1, <2>3, <5>1, <5>2 DEF Request
        <4> QED BY <4>1, <4>2
      <3> QED BY <1>5, <3>1, <3>2, <3>3, <3>4, <3>5, <3>6 DEF RequestStep
    <2> QED BY <1>2, <1>3, <2>1, <2>2, <2>3
  <1>6. CASE \E r \in Reconcilers : ReconcilerStep(r)
    BY <1>4, <1>6 DEF ReconcilerStep, RunGoesOn, StartRun, Inspect, Defer, Reconcile,
       ReconcileRefused, RunDies
  <1>7. CASE \E o \in Operators : OperatorStep(o)
    BY <1>4, <1>7 DEF OperatorStep, StartBackfill, Discover, RecordKey, BackfillFails
  <1>8. CASE \E k \in Imports : WorkerStep(k) \/ StorageStep(k)
    BY <1>4, <1>8 DEF WorkerStep, WorkerPublishes, WorkerFails, WorkerRefusesObject,
       Requeue, StorageStep, LateWriteLands, LateWriteIsLost, ForeignWrite, VersionVanishes
  <1> QED BY <1>5, <1>6, <1>7, <1>8 DEF Next

\* Objects change only where an upload is under way, or by a write of somebody else,
\* or by the loss of a version that is recorded.
LEMMA ObjectMoves ==
  ASSUME IntakeInv, Next, NEW i \in Imports, ~UploadUnderWay(i)
  PROVE  \/ bucket'[i] = bucket[i]
         \/ row[i].version # 0
         \/ \E k \in Keys : bucket'[i] = Append(bucket[i], Version(FALSE, k))
  <1>1. bucket \in [Imports -> Seq(Object)]
    BY DEF IntakeInv, TypeOK
  <1>2. ASSUME NEW q \in Requests, RequestStep(q)
        PROVE  bucket'[i] = bucket[i]
    <2>1. CASE PutLands(q)
      <3>1. request[q].pc = "store" /\ request[q].import # i
        BY <2>1 DEF PutLands, UploadUnderWay
      <3> QED BY <1>1, <2>1, <3>1 DEF PutLands
    <2>2. CASE ~PutLands(q)
      BY <1>2, <2>2 DEF RequestStep, Submit, EnqueueExisting, Create, CreateRefused,
         LookAgain, PutAnswered, PutFails, VerifySucceeds, VerifyFails, Confirm,
         ConfirmRefused, Respond, RequestDies
    <2> QED BY <2>1, <2>2
  <1>3. CASE \E r \in Reconcilers : ReconcilerStep(r)
    BY <1>3 DEF ReconcilerStep, RunGoesOn, StartRun, Inspect, Defer, Reconcile, ReconcileRefused,
       RunDies
  <1>4. CASE \E o \in Operators : OperatorStep(o)
    BY <1>4 DEF OperatorStep, StartBackfill, Discover, RecordKey, BackfillFails
  <1>5. ASSUME NEW k \in Imports, WorkerStep(k)
        PROVE  bucket'[i] = bucket[i]
    BY <1>5 DEF WorkerStep, WorkerPublishes, WorkerFails, WorkerRefusesObject, Requeue
  <1>6. ASSUME NEW k \in Imports, StorageStep(k)
        PROVE  \/ bucket'[i] = bucket[i]
               \/ row[i].version # 0
               \/ \E key \in Keys : bucket'[i] = Append(bucket[i], Version(FALSE, key))
    <2>1. CASE LateWriteLands(k)
      <3>1. k # i
        BY <2>1 DEF LateWriteLands, UploadUnderWay
      <3> QED BY <1>1, <2>1, <3>1 DEF LateWriteLands
    <2>2. CASE LateWriteIsLost(k)
      BY <2>2 DEF LateWriteIsLost
    <2>3. ASSUME NEW key \in Keys, ForeignWrite(k, key)
          PROVE  bucket'[i] = bucket[i] \/ bucket'[i] = Append(bucket[i], Version(FALSE, key))
      BY <1>1, <2>3 DEF ForeignWrite
    <2>4. CASE VersionVanishes(k)
      <3>1. k = i => row[i].version # 0
        BY <2>4 DEF VersionVanishes
      <3>2. k # i => bucket'[i] = bucket[i]
        BY <1>1, <2>4 DEF VersionVanishes
      <3> QED BY <3>1, <3>2
    <2> QED BY <1>6, <2>1, <2>2, <2>3, <2>4 DEF StorageStep
  <1> QED BY <1>2, <1>3, <1>4, <1>5, <1>6 DEF Next

\* What no upload is going to put right stays wrong.
LEMMA UnmatchedKept ==
  ASSUME IntakeInv, Next, Kept, NEW i \in Imports \ Legacy, row[i].status # "absent",
         row[i].version = 0, ~UploadUnderWay(i), Unmatched(i)
  PROVE  Unmatched(i)'
  <1>1. TypeOK /\ RowOK(i)
    BY DEF IntakeInv
  <1>2. row'[i].key = row[i].key
    BY <1>1 DEF RowOK, Kept, Grows
  <1>3. CASE bucket'[i] = bucket[i]
    <2>1. Latest(i)' = Latest(i)
      BY <1>3 DEF Latest
    <2> QED BY <1>2, <1>3, <2>1 DEF Unmatched
  <1>4. ASSUME NEW k \in Keys, bucket'[i] = Append(bucket[i], Version(FALSE, k))
        PROVE  Unmatched(i)'
    <2> DEFINE object == Version(FALSE, k)
               found  == {v \in DOMAIN bucket'[i] : bucket'[i][v].here}
               n      == Len(bucket[i]) + 1
    <2>1. object \in Object /\ ~object.good /\ object.here
      BY Objects DEF Version
    <2>2. bucket[i] \in Seq(Object) /\ bucket'[i] = Append(bucket[i], object)
      BY <1>1, <1>4 DEF TypeOK
    <2> HIDE DEF object
    <2>3. n \in Nat /\ DOMAIN bucket'[i] = 1..n /\ n \in 1..n /\ bucket'[i][n] = object
      BY <2>1, <2>2
    <2>4. found \subseteq 1..n /\ n \in found
      BY <2>1, <2>3
    <2>5. Latest(i)' = Max(found)
      BY <2>4 DEF Latest
    <2> HIDE DEF found, n
    <2>6. Max(found) \in found /\ Max(found) >= n
      BY <2>3, <2>4, LargestNumber
    <2> DEFINE last == Max(found)
    <2>7. last \in 1..n /\ last >= n /\ Latest(i)' = last
      BY <2>4, <2>5, <2>6
    <2> HIDE DEF last
    <2>8. last = n
      BY <2>3, <2>7
    <2> QED BY <2>1, <2>3, <2>7, <2>8 DEF Unmatched
  <1> QED BY <1>3, <1>4, ObjectMoves

\* An import that was never received is only ever failed by a run.
LEMMA RunsRefuse ==
  ASSUME IntakeInv, Next, NEW i \in Imports, Refused(i)', ~Refused(i)
  PROVE  /\ row[i].status = "receiving" /\ row[i].version = 0
         /\ \E r \in Reconcilers : FoundWrong(r, i)
  <1>1. TypeOK /\ RowOK(i)
    BY DEF IntakeInv
  <1>2. row \in [Imports -> Row]
    BY <1>1 DEF TypeOK
  <1>3. row'[i] # row[i]
    BY DEF Refused
  <1>4. ASSUME NEW q \in Requests, RequestStep(q)
        PROVE  FALSE
    <2>1. ASSUME NEW k \in Imports, Create(q, k)
          PROVE  FALSE
      <3>1. k = i
        BY <1>2, <1>3, <2>1 DEF Create
      <3>2. row'[i].status = "receiving"
        BY <1>2, <2>1, <3>1 DEF Create, NoRow
      <3> QED BY <3>2 DEF Refused
    <2>2. ASSUME Confirm(q)
          PROVE  FALSE
      <3>1. RequestOK(q) /\ request[q].pc = "confirm"
        BY <2>2 DEF IntakeInv, Confirm
      <3>2. PICK k \in Imports : k = request[q].import
        BY <3>1 DEF RequestOK, Holding, Uploading
      <3> DEFINE v == request[q].version
      <3>3. row' = [row EXCEPT ![k] = [row[k] EXCEPT !.status = "received", !.version = v]]
        BY <2>2, <3>2 DEF Confirm, MarkReceived
      <3> HIDE DEF v
      <3>4. k = i
        BY <1>2, <1>3, <3>3
      <3>5. row'[i].status = "received"
        BY <1>2, <3>3, <3>4 DEF Row
      <3> QED BY <3>5 DEF Refused
    <2>3. ~Confirm(q) /\ (\A k \in Imports : ~Create(q, k)) => row' = row
      BY <1>4 DEF RequestStep, Submit, EnqueueExisting, CreateRefused, LookAgain,
         PutLands, PutAnswered, PutFails, VerifySucceeds, VerifyFails, ConfirmRefused,
         Respond, RequestDies
    <2> QED BY <1>3, <2>1, <2>2, <2>3
  <1>5. ASSUME NEW o \in Operators, OperatorStep(o)
        PROVE  FALSE
    <2>1. RecordKey(o)
      BY <1>3, <1>5 DEF OperatorStep, StartBackfill, Discover, BackfillFails
    <2>2. OperatorOK(o) /\ operator[o] \in Backfill /\ operator[o].version # 0
      BY <1>1, <2>1 DEF IntakeInv, TypeOK, RecordKey
    <2>3. PICK k \in Imports : k = operator[o].import
      BY <2>2 DEF OperatorOK, Backfill
    <2> DEFINE key == operator[o].key
               v   == operator[o].version
    <2>4. /\ LacksKey(k)
          /\ \/ row[k].status = "receiving"
                /\ row' = [row EXCEPT ![k] = [row[k] EXCEPT !.key = key,
                              !.status = "received", !.version = v]]
             \/ row[k].status # "receiving"
                /\ row' = [row EXCEPT ![k] = [row[k] EXCEPT !.key = key]]
      BY <2>1, <2>3 DEF RecordKey
    <2> HIDE DEF key, v
    <2>5. k = i
      BY <1>2, <1>3, <2>4
    <2>6. row'[i].status = "received" \/ row'[i].version # 0
      BY ZenonT(60), <1>2, <2>4, <2>5 DEF Row, LacksKey
    <2> QED BY <2>6 DEF Refused
  <1>6. ASSUME NEW k \in Imports, WorkerStep(k) \/ StorageStep(k)
        PROVE  FALSE
    <2>1. WorkerRefusesObject(k)
      BY <1>3, <1>6 DEF WorkerStep, WorkerPublishes, WorkerFails, Requeue, StorageStep,
         LateWriteLands, LateWriteIsLost, ForeignWrite, VersionVanishes
    <2>2. row[k].status = "received" /\ row' = [row EXCEPT ![k] =
             [row[k] EXCEPT !.status = "failed", !.code = "object_missing"]]
      BY <2>1 DEF WorkerRefusesObject
    <2>3. k = i
      BY <1>2, <1>3, <2>2
    <2>4. row'[i].version = row[i].version /\ row[i].version # 0
      BY <1>1, <1>2, <2>2, <2>3 DEF Row, RowOK
    <2> QED BY <2>4 DEF Refused
  <1>7. ASSUME NEW r \in Reconcilers, ReconcilerStep(r)
        PROVE  /\ row[i].status = "receiving" /\ row[i].version = 0
               /\ FoundWrong(r, i)
    <2>1. Reconcile(r)
      BY <1>3, <1>7 DEF ReconcilerStep, RunGoesOn, StartRun, Inspect, Defer, ReconcileRefused, RunDies
    <2>2. RunOK(r) /\ reconciler[r] \in Run /\ reconciler[r].verdict # "none"
      BY <1>1, <2>1 DEF IntakeInv, TypeOK, Reconcile
    <2>3. PICK k \in Imports : k = Min(reconciler[r].batch) /\ k \in reconciler[r].batch
      BY <1>1, <2>2, OldestOfBatch DEF RunOK, Run
    <2> DEFINE v == reconciler[r].version
    <2>4. CASE reconciler[r].verdict = "stored"
      <3>1. row' = [row EXCEPT ![k] = [row[k] EXCEPT !.status = "received", !.version = v]]
        BY <2>1, <2>3, <2>4 DEF Reconcile, MarkReceived
      <3> HIDE DEF v
      <3>2. k = i
        BY <1>2, <1>3, <3>1
      <3>3. row'[i].status = "received"
        BY <1>2, <3>1, <3>2 DEF Row
      <3> QED BY <3>3 DEF Refused
    <2>5. CASE reconciler[r].verdict # "stored"
      <3> DEFINE code == reconciler[r].verdict
      <3>1. /\ row' = [row EXCEPT ![k] = [row[k] EXCEPT !.status = "failed", !.code = code]]
            /\ row[k].status = "receiving"
        BY <2>1, <2>3, <2>5 DEF Reconcile, MarkFailed, AwaitsStorage
      <3> HIDE DEF code
      <3>2. k = i
        BY <1>2, <1>3, <3>1
      <3>3. row[i].version = 0
        BY <1>1, <3>1, <3>2 DEF RowOK
      <3> QED BY <2>2, <2>3, <2>5, <3>1, <3>2, <3>3 DEF FoundWrong
    <2> QED BY <2>4, <2>5
  <1> QED BY <1>4, <1>5, <1>6, <1>7 DEF Next

LEMMA InspectedRun ==
  ASSUME TypeOK, NEW r \in Reconcilers, Inspect(r)
  PROVE  /\ reconciler'[r].batch = reconciler[r].batch
         /\ \E i \in reconciler[r].batch :
               i = Min(reconciler[r].batch) /\ reconciler'[r].verdict = Verdict(i, row[i].key)
  <1>1. PICK i \in Imports : i = Min(reconciler[r].batch) /\ i \in reconciler[r].batch
    BY OldestOfBatch DEF Inspect, TypeOK, Run
  <1> DEFINE verdict == Verdict(i, row[i].key)
             v       == Latest(i)
             new     == [reconciler[r] EXCEPT !.verdict = verdict, !.version = v]
  <1>2. reconciler' = [reconciler EXCEPT ![r] = new]
    BY <1>1 DEF Inspect
  <1>3. verdict = Verdict(i, row[i].key)
    OBVIOUS
  <1> HIDE DEF verdict, v
  <1>4. new.verdict = verdict /\ new.batch = reconciler[r].batch
    BY DEF TypeOK, Run
  <1> HIDE DEF new
  <1>5. reconciler'[r] = new
    BY <1>2 DEF TypeOK
  <1> QED BY <1>1, <1>3, <1>4, <1>5

LEMMA RefusalKept ==
  ASSUME GraceCoversUploads, IntakeInv, Next, RefusalInv
  PROVE  RefusalInv'
  <1>1. Kept /\ TypeOK /\ Grows /\ IntakeInv'
    BY NextKeeps DEF IntakeInv, Kept
  <1>2. ASSUME NEW i \in Imports, row[i].status # "absent", ~UploadUnderWay(i)
        PROVE  ~UploadUnderWay(i)'
    BY <1>2, UploadsBeginOnce
  <1>3. ASSUME NEW r \in Reconcilers, NEW i \in reconciler[r].batch
        PROVE  i \in Imports /\ row[i].status # "absent" /\ ~UploadUnderWay(i)
    BY <1>1 DEF TypeOK, Run, IntakeInv, RunOK, RefusalInv
  <1>4. ASSUME NEW r \in Reconcilers, NEW i \in reconciler'[r].batch
        PROVE  ~UploadUnderWay(i)'
    <2>1. CASE i \in reconciler[r].batch
      BY <1>2, <1>3, <2>1
    <2>2. ASSUME NEW cutoff \in Imports, StartRun(r, cutoff)
          PROVE  ~UploadUnderWay(i)'
      <3> DEFINE batch == {k \in Receiving : k <= cutoff}
                 blind == {k \in batch : row[k].key = NoKey}
      <3>1. reconciler' = [reconciler EXCEPT ![r] =
                              [NoRun EXCEPT !.batch = batch, !.keyless = blind]]
        BY <2>2 DEF StartRun
      <3>2. \A k \in batch : ~UploadUnderWay(k)
        BY <2>2 DEF StartRun
      <3>3. request' = request /\ late' = late
        BY <2>2 DEF StartRun
      <3> HIDE DEF batch, blind
      <3>4. reconciler'[r].batch = batch
        BY <1>1, <3>1 DEF TypeOK, NoRun
      <3> QED BY <3>2, <3>3, <3>4 DEF UploadUnderWay
    <2>3. CASE Inspect(r)
      BY <1>1, <1>3, <2>1, <2>3, InspectedRun
    <2> QED BY <2>1, <2>2, <2>3, RunMoves
  <1>5. ASSUME NEW i \in Imports \ Legacy, Refused(i)'
        PROVE  ~UploadUnderWay(i)' /\ Unmatched(i)'
    <2>1. /\ row[i].status # "absent" /\ row[i].version = 0
          /\ ~UploadUnderWay(i) /\ Unmatched(i)
      <3>1. CASE Refused(i)
        BY <3>1 DEF RefusalInv, Refused
      <3>2. CASE ~Refused(i)
        <4>1. PICK r \in Reconcilers : FoundWrong(r, i)
          BY <1>5, <3>2, RunsRefuse
        <4> QED BY <1>3, <1>5, <3>2, <4>1, RunsRefuse DEF RefusalInv, FoundWrong
      <3> QED BY <3>1, <3>2
    <2> QED BY <1>1, <1>2, <2>1, UnmatchedKept
  <1>6. ASSUME NEW r \in Reconcilers, NEW i \in Imports \ Legacy, FoundWrong(r, i)'
        PROVE  Unmatched(i)'
    <2>1. /\ i \in reconciler'[r].batch /\ i = Min(reconciler[r].batch)'
          /\ reconciler'[r].verdict \notin {"none", "stored"} /\ row'[i].version = 0
      BY <1>6 DEF FoundWrong
    <2>2. CASE reconciler'[r] = reconciler[r]
      <3>1. i \in reconciler[r].batch /\ row[i].version = 0
        BY <1>1, <2>1, <2>2 DEF Grows
      <3>2. i = Min(reconciler[r].batch)
        BY <2>1, <2>2
      <3>3. Unmatched(i)
        BY <2>1, <2>2, <3>1, <3>2 DEF RefusalInv, FoundWrong
      <3> QED BY <1>1, <1>3, <3>1, <3>3, UnmatchedKept
    <2>3. CASE Inspect(r)
      <3>1. /\ Verdict(i, row[i].key) \notin {"none", "stored"}
            /\ UNCHANGED <<row, bucket>>
        <4>1. PICK k \in reconciler[r].batch :
                k = Min(reconciler[r].batch) /\ reconciler'[r].verdict = Verdict(k, row[k].key)
          BY <1>1, <2>3, InspectedRun
        <4>2. k = i
          BY <1>1, <2>1, <2>3, <4>1, InspectedRun
        <4> QED BY <2>1, <2>3, <4>1, <4>2 DEF Inspect
      <3>2. Unmatched(i)
        BY <1>1, <3>1, LatestVersion DEF Verdict, ValidObject, Unmatched
      <3>3. Latest(i)' = Latest(i)
        BY <3>1 DEF Latest
      <3> QED BY <3>1, <3>2, <3>3 DEF Unmatched
    <2> QED BY <2>1, <2>2, <2>3, RunMoves
  <1> QED BY <1>4, <1>5, <1>6 DEF RefusalInv

\* Where the grace period covers every upload, no import of this release is failed
\* before it was received while the newest object under its key is its own file.
THEOREM NothingUploadedIsRefused ==
  GraceCoversUploads => (Spec => []RefusedOnlyWithoutFile)
  <1> SUFFICES ASSUME GraceCoversUploads
               PROVE  Spec => []RefusedOnlyWithoutFile
    OBVIOUS
  <1>1. Init => RefusalInv
    <2>1. ASSUME Init
          PROVE  RefusalInv
      <3>1. PICK old \in [Legacy -> LegacyRows] :
              row = [i \in Imports |-> IF i \in Legacy THEN old[i] ELSE NoRow]
        BY <2>1 DEF Init
      <3>2. reconciler = [r \in Reconcilers |-> NoRun]
        BY <2>1 DEF Init
      <3>3. \A r \in Reconcilers : reconciler[r].batch = {} /\ reconciler[r].verdict = "none"
        BY <3>2 DEF NoRun
      <3>4. \A i \in Imports \ Legacy : row[i].status = "absent"
        BY <3>1, NoRowFacts
      <3> QED BY <3>3, <3>4 DEF RefusalInv, Refused, FoundWrong
    <2> QED BY <2>1
  <1>2. ASSUME IntakeInv, [Next]_vars, RefusalInv
        PROVE  RefusalInv'
    <2>1. CASE Next
      BY <1>2, <2>1, RefusalKept
    <2>2. CASE UNCHANGED vars
      BY ZenonT(60), <1>2, <2>2 DEF vars, RefusalInv, Refused, FoundWrong, Unmatched, UploadUnderWay,
         Latest
    <2> QED BY <1>2, <2>1, <2>2
  <1>3. RefusalInv => RefusedOnlyWithoutFile
    BY DEF RefusalInv, Refused, Unmatched, RefusedOnlyWithoutFile
  <1> QED BY <1>1, <1>2, <1>3, IntakeInvariant, PTL DEF Spec
=============================================================================
