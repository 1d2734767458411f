--------------------- MODULE SalesImportPublicationProofs ---------------------
(***************************************************************************)
(* Publication, for any number of workers, files, chunks and crashes.      *)
(*                                                                         *)
(* The invariant follows a file from its claim to its commit: whose rows   *)
(* are whose, who may hold which lock, what an open transaction has seen   *)
(* and written, and how far it has come.                                   *)
(***************************************************************************)
EXTENDS SalesImportPublicationRefinement, FiniteSetTheorems, TLAPS

-----------------------------------------------------------------------------
(***************************************************************************)
(* Records.                                                                *)
(***************************************************************************)

CollectorShape(c) == DOMAIN c = DOMAIN NewCollector /\ c.total \in Nat

Phases ==
    {"idle", "staging", "staged", "locked", "validating", "invalid", "linking",
     "linked", "unlocking", "retrying"}

\* The records have their fields, and those the proofs count with their types.
TypeOK ==
    /\ \A j \in Jobs : file[j] \in Files[j]
    /\ DOMAIN job = Jobs
    /\ \A j \in Jobs :
         /\ DOMAIN job[j] = DOMAIN NewJob
         /\ job[j].status \in {"open", "held", "failed", "rejected", "published"}
         /\ job[j].attempt \in Nat
    /\ holders \in [Sources -> SUBSET Workers]
    /\ DOMAIN worker = Workers
    /\ \A w \in Workers :
         /\ DOMAIN worker[w] = DOMAIN Idle
         /\ worker[w].pc \in Phases
         /\ worker[w].next \in Nat \ {0}
         /\ CollectorShape(worker[w].collector)
         /\ worker[w].collector.pending = {}
         /\ DOMAIN worker[w].tx = DOMAIN NoTx

-----------------------------------------------------------------------------
(***************************************************************************)
(* The invariant.                                                          *)
(***************************************************************************)

Busy(w) == worker[w].pc # "idle"

\* A worker works on an attempt that was issued, and on no one else's.
ClaimsAreKnown ==
    \A w \in Workers :
        IF Busy(w)
        THEN worker[w].job \in Jobs /\ worker[w].attempt \in 1..job[worker[w].job].attempt
        ELSE worker[w] = Idle

ClaimsAreApart ==
    \A v, w \in Workers :
        /\ Busy(v) /\ Busy(w) /\ worker[v].job = worker[w].job
        /\ worker[v].attempt = worker[w].attempt
        => v = w

TransactionsOwn == \A w \in Workers : InTransaction(w) => Owns(w)

\* Real session locks exclude one another.
SessionsApart ==
    ~pooled =>
        /\ \A s \in Sources : \A v, w \in holders[s] : v = w
        /\ \A w \in Workers : ~worker[w].retried

\* What a transaction wrote is about its own attempt; outside one there is none.
Belongs(w) ==
    LET tx == worker[w].tx IN
    /\ ~InTransaction(w) => tx = NoTx
    /\ worker[w].pc \in {"validating", "invalid"} => tx.inserted = {} /\ tx.linked = {}
    /\ tx.facts \subseteq facts
    /\ \A f \in tx.inserted : f.source = Source(w) /\ f.job = worker[w].job
    /\ \A i \in tx.issues : i.job = worker[w].job /\ i.attempt = worker[w].attempt

TransactionsBelong == \A w \in Workers : Belongs(w)

SameKey(f, g) == f.source = g.source /\ f.id = g.id

\* Open transactions insert keys that no other one and no committed fact has.
InsertsApart ==
    /\ \A v, w \in Workers : \A f \in worker[v].tx.inserted, g \in worker[w].tx.inserted :
         SameKey(f, g) => v = w /\ f = g
    /\ \A w \in Workers : \A f \in worker[w].tx.inserted, g \in facts : ~SameKey(f, g)

\* With session locks, a snapshot has all there is about its source.
SnapshotsAreCurrent ==
    ~pooled =>
        \A w \in Workers : InTransaction(w) =>
            \A f \in facts : f.source = Source(w) => f \in worker[w].tx.facts

\* Staged rows belong to an attempt and satisfy the contract.
StagedRowKnown(r) ==
    /\ r.job \in Jobs
    /\ r.attempt \in 1..job[r.job].attempt
    /\ r.number \in 1..Len(file[r.job].rows)
    /\ file[r.job].rows[r.number].clean
    /\ DOMAIN r = {"job", "attempt", "number", "outcome"}

StagedRowsKnown == \A r \in staged : StagedRowKnown(r)

\* The rows of w that satisfy the contract, up to the last one.
CleanNumbers(w, last) == {n \in 1..last : Rows(w)[n].clean}

AllClean(w, last) == \A n \in 1..last : Rows(w)[n].clean

\* What a worker has staged so far, and what its issue count says of the rest.
HasStaged(w) ==
    /\ worker[w].pc = "staging" =>
         /\ worker[w].next <= Len(Rows(w)) + 1
         /\ StagedNumbers(w) = CleanNumbers(w, worker[w].next - 1)
         /\ worker[w].collector.total = 0 => AllClean(w, worker[w].next - 1)
    /\ worker[w].pc = "staged" =>
         /\ StagedNumbers(w) = CleanNumbers(w, Len(Rows(w)))
         /\ worker[w].collector.total = 0 => AllClean(w, Len(Rows(w)))
    /\ worker[w].pc = "locked" \/ InTransaction(w) =>
         /\ StagedNumbers(w) = 1..Len(Rows(w))
         /\ AllClean(w, Len(Rows(w)))

StagingProgress == \A w \in Workers : HasStaged(w)

NoConflictUpTo(w, last) ==
    \A n \in 1..last : ~Conflicts(w, Rows(w)[n], VisibleFacts(w))

\* The row made its fact itself.
MadeFact(w, n) == \E f \in worker[w].tx.inserted : f.id = Rows(w)[n].id

\* What a transaction has validated and linked so far.
HasValidated(w) ==
    worker[w].pc = "validating" =>
        /\ worker[w].next <= Len(Rows(w)) + 1
        /\ worker[w].collector.total = 0 => NoConflictUpTo(w, worker[w].next - 1)

LinkOf(w, n) ==
    [number |-> n, outcome |-> IF MadeFact(w, n) THEN "published" ELSE "reused"]

HasLinked(w) ==
    worker[w].pc \in {"linking", "linked"} =>
        /\ NoConflictUpTo(w, Len(Rows(w)))
        /\ worker[w].next <= Len(Rows(w)) + 1
        /\ worker[w].pc = "linked" => worker[w].next = Len(Rows(w)) + 1
        /\ \A n \in 1..(worker[w].next - 1) : FactsOf(w, Rows(w)[n], VisibleFacts(w)) # {}
        /\ \A f \in worker[w].tx.inserted :
               \E n \in 1..(worker[w].next - 1) : f = FactOf(w, Rows(w)[n])
        /\ worker[w].tx.linked = {LinkOf(w, n) : n \in 1..(worker[w].next - 1)}

PublicationProgress == \A w \in Workers : HasValidated(w) /\ HasLinked(w)

-----------------------------------------------------------------------------
(***************************************************************************)
(* The collector, between two drains.                                      *)
(***************************************************************************)

\* A drained collector keeps its total and has nothing pending.
LEMMA DrainedCollector ==
  ASSUME NEW c, CollectorShape(c)
  PROVE  /\ CollectorShape(Drained(c))
         /\ Drained(c).pending = {} /\ Drained(c).total = c.total
  BY DEF Drained, CollectorShape, NewCollector

\* The total of a collector that was drained is zero exactly as long as nothing
\* was found, however little of it is kept.
LEMMA AddedTotal ==
  ASSUME NEW c, CollectorShape(c), c.pending = {},
         NEW found, Len(found) \in Nat
  PROVE  /\ CollectorShape(Drained(Added(c, found)))
         /\ Drained(Added(c, found)).pending = {}
         /\ Drained(Added(c, found)).total = Added(c, found).total
         /\ Added(c, found).total = 0 <=> c.total = 0 /\ Len(found) = 0
  <1> DEFINE fresh == Fresh(c, found)
             count == Cardinality(fresh)
             a     == Added(c, found)
  <1>1. IsFiniteSet(fresh)
    <2>1. IsFiniteSet(1..Len(found)) /\ fresh \subseteq 1..Len(found)
      BY FS_Interval DEF Fresh
    <2> QED BY <2>1, FS_Subset
  <1>2. count \in Nat /\ (count = 0 <=> fresh = {})
    BY <1>1, FS_CardinalityType, FS_EmptySet
  <1>3. fresh = {} <=> Len(found) = 0
    <2>1. Len(found) > 0 => 1 \in fresh
      BY DEF Fresh
    <2>2. Len(found) = 0 => fresh = {}
      BY DEF Fresh
    <2> QED BY <2>1, <2>2
  <1>4. a.total = c.total + count /\ DOMAIN a = DOMAIN c
    BY DEF CollectorShape, NewCollector, Added
  <1> HIDE DEF a, count
  <1>5. CollectorShape(a)
    BY <1>2, <1>4 DEF CollectorShape
  <1>6. /\ CollectorShape(Drained(a))
        /\ Drained(a).total = a.total /\ Drained(a).pending = {}
    BY <1>5, DrainedCollector
  <1>7. a.total = 0 <=> c.total = 0 /\ Len(found) = 0
    BY <1>2, <1>3, <1>4 DEF CollectorShape
  <1> QED BY <1>6, <1>7 DEF a

\* There are as many issues as codes that name one.
LEMMA IssuesOfLength ==
  ASSUME NEW first, NEW codes, Len(codes) \in Nat
  PROVE  \E n, S :
           /\ n \in Nat
           /\ IssuesOf(first, codes) \in Seq(S) /\ Len(IssuesOf(first, codes)) = n
           /\ n = 0 <=> \A k \in 1..Len(codes) : codes[k] = ""
  <1> DEFINE places == {k \in 1..Len(codes) : codes[k] # ""}
             n      == Cardinality(places)
             one(k) == Issue(first + InOrder(places)[k] - 1, "__row__",
                             codes[InOrder(places)[k]])
             all    == [k \in 1..n |-> one(k)]
             S      == {one(k) : k \in 1..n}
  <1>1. IsFiniteSet(places)
    <2>1. IsFiniteSet(1..Len(codes))
      BY FS_Interval
    <2>2. places \subseteq 1..Len(codes)
      OBVIOUS
    <2> QED BY <2>1, <2>2, FS_Subset
  <1>2. n \in Nat /\ (n = 0 <=> places = {})
    BY <1>1, FS_CardinalityType, FS_EmptySet
  <1>3. places = {} <=> \A k \in 1..Len(codes) : codes[k] = ""
    OBVIOUS
  <1>4. DOMAIN InOrder(places) = 1..n
    BY DEF InOrder
  <1>5. IssuesOf(first, codes) = all
    BY <1>4 DEF IssuesOf
  <1>6. all \in Seq(S) /\ Len(all) = n
    <2> HIDE DEF n, one
    <2>1. n \in Nat
      BY <1>2
    <2>2. \A k \in 1..n : one(k) \in S
      OBVIOUS
    <2> HIDE DEF S
    <2> QED BY <2>1, <2>2
  <1> QED BY <1>2, <1>3, <1>5, <1>6

-----------------------------------------------------------------------------
(***************************************************************************)
(* What the steps of a worker do to the records.                           *)
(***************************************************************************)

\* The other workers stay as they are.
OwnStep(w) ==
    /\ DOMAIN worker' = Workers
    /\ \A v \in Workers \ {w} : worker'[v] = worker[v]
    /\ UNCHANGED <<file, pooled>>

\* The claim stays with its worker.
SameClaim(w) ==
    /\ OwnStep(w)
    /\ worker'[w].job = worker[w].job
    /\ worker'[w].attempt = worker[w].attempt
    /\ DOMAIN worker'[w] = DOMAIN Idle

\* A job row keeps its fields, its attempt and, until its claim ends, its status.
SameJobs(w) ==
    /\ DOMAIN job' = DOMAIN job
    /\ \A j \in Jobs \ {worker[w].job} : job'[j] = job[j]
    /\ worker[w].job \in Jobs =>
         /\ DOMAIN job'[worker[w].job] = DOMAIN NewJob
         /\ job'[worker[w].job].attempt = job[worker[w].job].attempt
         /\ job'[worker[w].job].budget = job[worker[w].job].budget

\* The worker ends its claim.
DropsClaim(w) == OwnStep(w) /\ worker'[w] = Idle

LEMMA StageChunkEffect ==
  ASSUME TypeOK, NEW w \in Workers, StageChunk(w)
  PROVE  LET first     == worker[w].next
             last      == first + ChunkSize - 1
             collector == Added(worker[w].collector, ContractIssues(w, first, last))
         IN  /\ SameClaim(w) /\ SameJobs(w) /\ Owns(w)
             /\ UNCHANGED <<facts, missing, holders, conflicted>>
             /\ staged' = staged \cup StagedRows(w, first, last)
             /\ issues' = issues \cup IssueRows(w, collector.kept)
             /\ worker[w].job \in Jobs =>
                  job'[worker[w].job].status = job[worker[w].job].status
             /\ worker[w].pc = "staging" /\ worker'[w].pc = "staging"
             /\ last <= Len(Rows(w))
             /\ worker'[w].next = last + 1
             /\ worker'[w].retried = worker[w].retried
             /\ worker'[w].collector = Drained(collector)
             /\ worker'[w].tx = worker[w].tx
  <1> DEFINE first     == worker[w].next
             last      == first + ChunkSize - 1
             collector == Added(worker[w].collector, ContractIssues(w, first, last))
  <1>1. /\ worker' = [worker EXCEPT ![w].next = last + 1,
                                    ![w].collector = Drained(collector)]
        /\ job' = [job EXCEPT ![worker[w].job].issueCount = collector.total]
        /\ staged' = staged \cup StagedRows(w, first, last)
        /\ issues' = issues \cup IssueRows(w, collector.kept)
        /\ UNCHANGED <<file, pooled, facts, missing, holders, conflicted>>
        /\ worker[w].pc = "staging" /\ Owns(w) /\ last <= Len(Rows(w))
    BY DEF StageChunk, Fenced, At
  <1> HIDE DEF collector, first, last
  <1>2. /\ SameClaim(w) /\ worker'[w].pc = "staging"
        /\ worker'[w].next = last + 1
        /\ worker'[w].retried = worker[w].retried
        /\ worker'[w].collector = Drained(collector)
        /\ worker'[w].tx = worker[w].tx
    BY <1>1 DEF TypeOK, SameClaim, OwnStep, Idle
  <1>3. /\ SameJobs(w)
        /\ worker[w].job \in Jobs =>
             job'[worker[w].job].status = job[worker[w].job].status
    BY <1>1 DEF TypeOK, SameJobs, NewJob
  <1> QED BY <1>1, <1>2, <1>3 DEF collector, first, last

LEMMA StageRestEffect ==
  ASSUME TypeOK, NEW w \in Workers, StageRest(w)
  PROVE  LET first     == worker[w].next
             last      == Len(Rows(w))
             error     == IF file[worker[w].job].broken
                          THEN <<FileIssue("FILE")>>
                          ELSE <<>>
             collector == Added(worker[w].collector,
                                ContractIssues(w, first, last) \o error)
         IN  /\ SameClaim(w) /\ SameJobs(w) /\ Owns(w)
             /\ UNCHANGED <<facts, missing, holders, conflicted>>
             /\ staged' = staged \cup StagedRows(w, first, last)
             /\ issues' = issues \cup IssueRows(w, Persisted(collector))
             /\ worker[w].job \in Jobs =>
                  job'[worker[w].job].status = job[worker[w].job].status
             /\ worker[w].pc = "staging" /\ worker'[w].pc = "staged"
             /\ worker'[w].next = worker[w].next
             /\ worker'[w].retried = worker[w].retried
             /\ worker'[w].collector = Drained(collector)
             /\ worker'[w].tx = worker[w].tx
  <1> DEFINE first     == worker[w].next
             last      == Len(Rows(w))
             error     == IF file[worker[w].job].broken
                          THEN <<FileIssue("FILE")>>
                          ELSE <<>>
             collector == Added(worker[w].collector,
                                ContractIssues(w, first, last) \o error)
  <1>1. /\ worker' = [worker EXCEPT ![w].pc = "staged",
                                    ![w].collector = Drained(collector)]
        /\ job' = [job EXCEPT ![worker[w].job].issueCount = collector.total]
        /\ staged' = staged \cup StagedRows(w, first, last)
        /\ issues' = issues \cup IssueRows(w, Persisted(collector))
        /\ UNCHANGED <<file, pooled, facts, missing, holders, conflicted>>
        /\ worker[w].pc = "staging" /\ Owns(w)
    BY DEF StageRest, Fenced, At
  <1> HIDE DEF collector, first, last, error
  <1>2. /\ SameClaim(w) /\ worker'[w].pc = "staged"
        /\ worker'[w].next = worker[w].next
        /\ worker'[w].retried = worker[w].retried
        /\ worker'[w].collector = Drained(collector)
        /\ worker'[w].tx = worker[w].tx
    BY <1>1 DEF TypeOK, SameClaim, OwnStep, Idle
  <1>3. /\ SameJobs(w)
        /\ worker[w].job \in Jobs =>
             job'[worker[w].job].status = job[worker[w].job].status
    BY <1>1 DEF TypeOK, SameJobs, NewJob
  <1> QED BY <1>1, <1>2, <1>3 DEF collector, first, last, error

LEMMA RejectFileEffect ==
  ASSUME TypeOK, NEW w \in Workers, RejectFile(w)
  PROVE  /\ DropsClaim(w) /\ SameJobs(w) /\ Owns(w)
         /\ UNCHANGED <<facts, missing, staged, issues, holders, conflicted>>
         /\ worker[w].pc = "staged"
         /\ worker[w].job \in Jobs => job'[worker[w].job].status = "rejected"
  BY DEF RejectFile, Fenced, At, TypeOK, DropsClaim, OwnStep, SameJobs, NewJob

LEMMA AcquireSourceLockEffect ==
  ASSUME TypeOK, NEW w \in Workers, AcquireSourceLock(w)
  PROVE  /\ SameClaim(w)
         /\ UNCHANGED <<facts, missing, job, staged, issues, conflicted>>
         /\ holders' = [holders EXCEPT ![Source(w)] = @ \cup {w}]
         /\ worker[w].pc = "staged" /\ worker'[w].pc = "locked"
         /\ worker[w].collector.total = 0
         /\ ~pooled => holders[Source(w)] = {}
         /\ worker'[w].next = worker[w].next
         /\ worker'[w].retried = worker[w].retried
         /\ worker'[w].collector = worker[w].collector
         /\ worker'[w].tx = worker[w].tx
  BY DEF AcquireSourceLock, At, TypeOK, SameClaim, OwnStep, Idle

LEMMA BeginPublicationEffect ==
  ASSUME TypeOK, NEW w \in Workers, BeginPublication(w)
  PROVE  /\ SameClaim(w) /\ Owns(w)
         /\ UNCHANGED <<facts, missing, job, staged, issues, holders, conflicted>>
         /\ worker[w].pc = "locked" /\ worker'[w].pc = "validating"
         /\ worker'[w].next = 1
         /\ worker'[w].retried = worker[w].retried
         /\ worker'[w].collector = NewCollector
         /\ worker'[w].tx = [NoTx EXCEPT !.facts = facts, !.missing = missing]
  BY DEF BeginPublication, Fenced, At, TypeOK, SameClaim, OwnStep, Idle

LEMMA ValidateChunkEffect ==
  ASSUME TypeOK, NEW w \in Workers, ValidateChunk(w)
  PROVE  LET first     == worker[w].next
             codes     == [k \in 1..(LastOfChunk(w) + 1 - first) |->
                             IF first + k - 1 \in Chunk(w)
                             THEN DatabaseIssue(w, Rows(w)[first + k - 1]) ELSE ""]
             collector == Added(worker[w].collector, IssuesOf(first, codes))
         IN  /\ SameClaim(w)
             /\ UNCHANGED <<facts, missing, job, staged, issues, holders, conflicted>>
             /\ worker[w].pc = "validating"
             /\ worker'[w].pc = CASE ~IsLastChunk(w) -> "validating"
                                  [] IsLastChunk(w) /\ collector.total > 0 -> "invalid"
                                  [] OTHER -> "linking"
             /\ worker'[w].next = IF IsLastChunk(w) THEN 1 ELSE LastOfChunk(w) + 1
             /\ worker'[w].retried = worker[w].retried
             /\ worker'[w].collector = Drained(collector)
             /\ worker'[w].tx = [worker[w].tx EXCEPT
                                   !.issues = @ \cup IssueRows(w, collector.kept)]
  <1> DEFINE first     == worker[w].next
             codes     == [k \in 1..(LastOfChunk(w) + 1 - first) |->
                             IF first + k - 1 \in Chunk(w)
                             THEN DatabaseIssue(w, Rows(w)[first + k - 1]) ELSE ""]
             collector == Added(worker[w].collector, IssuesOf(first, codes))
             pc        == CASE ~IsLastChunk(w) -> "validating"
                            [] IsLastChunk(w) /\ collector.total > 0 -> "invalid"
                            [] OTHER -> "linking"
             next      == IF IsLastChunk(w) THEN 1 ELSE LastOfChunk(w) + 1
  <1>1. /\ worker[w].pc = "validating"
        /\ worker' = [worker EXCEPT
                        ![w].next = next, ![w].pc = pc,
                        ![w].collector = Drained(collector),
                        ![w].tx.issues = @ \cup IssueRows(w, collector.kept)]
        /\ UNCHANGED <<file, pooled, facts, missing, job, staged, issues, holders, conflicted>>
    BY DEF ValidateChunk, At
  <1> HIDE DEF collector, pc, next
  <1>2. /\ SameClaim(w) /\ worker'[w].pc = pc /\ worker'[w].next = next
        /\ worker'[w].retried = worker[w].retried
        /\ worker'[w].collector = Drained(collector)
        /\ worker'[w].tx = [worker[w].tx EXCEPT
                              !.issues = @ \cup IssueRows(w, collector.kept)]
    BY <1>1 DEF TypeOK, SameClaim, OwnStep, Idle
  <1> QED BY <1>1, <1>2 DEF collector, pc, next

LEMMA FinishInvalidEffect ==
  ASSUME TypeOK, NEW w \in Workers, FinishInvalid(w)
  PROVE  /\ SameClaim(w) /\ SameJobs(w)
         /\ UNCHANGED <<facts, missing, staged, holders>>
         /\ issues' = issues \cup worker[w].tx.issues
                       \cup IssueRows(w, Persisted(Drained(worker[w].collector)))
         /\ worker[w].pc = "invalid" /\ worker'[w].pc = "unlocking"
         /\ worker[w].job \in Jobs => job'[worker[w].job].status = "rejected"
         /\ worker'[w].next = worker[w].next
         /\ worker'[w].retried = worker[w].retried
         /\ worker'[w].collector = worker[w].collector
         /\ worker'[w].tx = NoTx
  BY DEF FinishInvalid, At, TypeOK, SameClaim, OwnStep, SameJobs, Idle, NewJob

LEMMA LinkChunkEffect ==
  ASSUME TypeOK, NEW w \in Workers, LinkChunk(w)
  PROVE  /\ SameClaim(w)
         /\ UNCHANGED <<facts, missing, job, staged, issues, holders, conflicted>>
         /\ worker[w].pc = "linking"
         /\ ~InsertWaits(w) /\ ~InsertRefused(w)
         /\ worker'[w].pc = IF IsLastChunk(w) THEN "linked" ELSE "linking"
         /\ worker'[w].next = LastOfChunk(w) + 1
         /\ worker'[w].retried = worker[w].retried
         /\ worker'[w].collector = worker[w].collector
         /\ worker'[w].tx = [worker[w].tx EXCEPT !.inserted = @ \cup NewFacts(w),
                                                 !.linked = @ \cup NewLinks(w)]
  BY DEF LinkChunk, At, TypeOK, SameClaim, OwnStep, Idle, NoTx

LEMMA UniqueViolationEffect ==
  ASSUME TypeOK, NEW w \in Workers, UniqueViolation(w)
  PROVE  /\ SameClaim(w)
         /\ UNCHANGED <<facts, missing, job, staged, issues, conflicted>>
         /\ worker[w].pc = "linking" /\ InsertRefused(w)
         /\ worker'[w].pc = IF worker[w].retried THEN "retrying" ELSE "locked"
         /\ holders' = IF worker[w].retried THEN Unlocked(w) ELSE holders
         /\ worker'[w].next = 1
         /\ worker'[w].retried = TRUE
         /\ worker'[w].collector = worker[w].collector
         /\ worker'[w].tx = NoTx
  BY DEF UniqueViolation, At, TypeOK, SameClaim, OwnStep, Idle

LEMMA FinishPublishedEffect ==
  ASSUME TypeOK, NEW w \in Workers, FinishPublished(w)
  PROVE  /\ SameClaim(w) /\ SameJobs(w)
         /\ UNCHANGED <<missing, issues, holders, conflicted>>
         /\ facts' = facts \cup worker[w].tx.inserted
         /\ staged' = LinkedRows(w)
         /\ worker[w].pc = "linked" /\ worker'[w].pc = "unlocking"
         /\ worker[w].job \in Jobs =>
              /\ job'[worker[w].job].status = "published"
              /\ job'[worker[w].job].inserted = Cardinality(worker[w].tx.inserted)
              /\ job'[worker[w].job].reused =
                   Cardinality({l \in worker[w].tx.linked : l.outcome = "reused"})
         /\ worker'[w].next = worker[w].next
         /\ worker'[w].retried = worker[w].retried
         /\ worker'[w].collector = worker[w].collector
         /\ worker'[w].tx = NoTx
  <1> DEFINE inserted == Cardinality(worker[w].tx.inserted)
             reused   == Cardinality({l \in worker[w].tx.linked : l.outcome = "reused"})
  <1>1. /\ worker[w].pc = "linked"
        /\ facts' = facts \cup worker[w].tx.inserted
        /\ staged' = LinkedRows(w)
        /\ job' = [job EXCEPT
             ![worker[w].job].status = "published", ![worker[w].job].error = "",
             ![worker[w].job].issueCount = 0, ![worker[w].job].inserted = inserted,
             ![worker[w].job].reused = reused]
        /\ worker' = [worker EXCEPT ![w].pc = "unlocking", ![w].tx = NoTx]
        /\ UNCHANGED <<file, pooled, missing, issues, holders, conflicted>>
    BY DEF FinishPublished, At
  <1> HIDE DEF inserted, reused
  <1>2. /\ SameClaim(w) /\ worker'[w].pc = "unlocking" /\ worker'[w].tx = NoTx
        /\ worker'[w].next = worker[w].next
        /\ worker'[w].retried = worker[w].retried
        /\ worker'[w].collector = worker[w].collector
    BY ZenonT(60), <1>1 DEF TypeOK, SameClaim, OwnStep, Idle
  <1>3. /\ SameJobs(w)
        /\ worker[w].job \in Jobs =>
              /\ job'[worker[w].job].status = "published"
              /\ job'[worker[w].job].inserted = inserted
              /\ job'[worker[w].job].reused = reused
    BY ZenonT(60), <1>1 DEF TypeOK, SameJobs, NewJob
  <1> QED BY <1>1, <1>2, <1>3 DEF inserted, reused

LEMMA RetryableErrorEffect ==
  ASSUME TypeOK, NEW w \in Workers, RetryableError(w)
  PROVE  /\ SameClaim(w)
         /\ UNCHANGED <<facts, missing, job, staged, issues, conflicted>>
         /\ holders' = Unlocked(w)
         /\ worker[w].pc # "idle" /\ worker'[w].pc = "retrying"
         /\ worker'[w].next = worker[w].next
         /\ worker'[w].retried = worker[w].retried
         /\ worker'[w].collector = worker[w].collector
         /\ worker'[w].tx = NoTx
  BY DEF RetryableError, InTransaction, TypeOK, SameClaim, OwnStep, Idle

LEMMA ScheduleRetryEffect ==
  ASSUME TypeOK, NEW w \in Workers, ScheduleRetry(w)
  PROVE  /\ DropsClaim(w) /\ SameJobs(w) /\ Owns(w)
         /\ UNCHANGED <<facts, missing, staged, issues, holders, conflicted>>
         /\ worker[w].pc = "retrying"
         /\ worker[w].job \in Jobs => job'[worker[w].job].status \in {"open", "failed"}
  BY DEF ScheduleRetry, Fenced, At, TypeOK, DropsClaim, OwnStep, SameJobs, NewJob

\* Every other end of a claim leaves the rows alone and gives up the source lock.
LEMMA EndOfWorkEffect ==
  ASSUME TypeOK, NEW w \in Workers, UnlockSource(w) \/ ClaimLost(w) \/ Crash(w)
  PROVE  /\ DropsClaim(w)
         /\ UNCHANGED <<facts, missing, job, staged, issues, conflicted>>
         /\ holders' = Unlocked(w)
  BY DEF UnlockSource, ClaimLost, Crash, TypeOK, DropsClaim, OwnStep

LEMMA ClaimEffect ==
  ASSUME TypeOK, NEW w \in Workers, NEW j \in Jobs, Claim(w, j)
  PROVE  /\ OwnStep(w)
         /\ UNCHANGED <<facts, missing, staged, issues, holders, conflicted>>
         /\ ~Busy(w) /\ ~RowLocked(j)
         /\ job[j].status \in {"open", "held"}
         /\ DOMAIN job' = Jobs /\ \A i \in Jobs \ {j} : job'[i] = job[i]
         /\ DOMAIN job'[j] = DOMAIN NewJob
         /\ job'[j].status = "held" /\ job'[j].attempt = job[j].attempt + 1
         /\ worker'[w] = [Idle EXCEPT !.pc = "staging", !.job = j,
                                      !.attempt = job[j].attempt + 1]
  <1>1. /\ job' = [job EXCEPT ![j] =
                     [NewJob EXCEPT !.status = "held", !.budget = job[j].budget,
                                    !.attempt = job[j].attempt + 1]]
        /\ worker' = [worker EXCEPT ![w] =
                        [Idle EXCEPT !.pc = "staging", !.job = j,
                                     !.attempt = job[j].attempt + 1]]
    BY DEF Claim
  <1>2. /\ DOMAIN job' = Jobs /\ \A i \in Jobs \ {j} : job'[i] = job[i]
        /\ DOMAIN job'[j] = DOMAIN NewJob
        /\ job'[j].status = "held" /\ job'[j].attempt = job[j].attempt + 1
    BY <1>1 DEF TypeOK, NewJob
  <1>3. /\ OwnStep(w)
        /\ worker'[w] = [Idle EXCEPT !.pc = "staging", !.job = j,
                                     !.attempt = job[j].attempt + 1]
    BY <1>1 DEF TypeOK, OwnStep, Claim
  <1> QED BY <1>2, <1>3 DEF Claim, At, Busy

\* An operator or the sweep moves a job that is no transaction's.
OperatorStep(j) ==
    /\ UNCHANGED <<file, pooled, facts, staged, issues, holders, worker, conflicted>>
    /\ ~RowLocked(j) \/ job[j].status # "held"
    /\ DOMAIN job' = Jobs /\ \A i \in Jobs \ {j} : job'[i] = job[i]
    /\ DOMAIN job'[j] = DOMAIN NewJob
    /\ job'[j].attempt = job[j].attempt
    /\ job[j].status \in {"held", "failed", "rejected"}
    /\ job'[j].status \in {"open", "failed"}

LEMMA OperatorEffect ==
  ASSUME TypeOK, NEW j \in Jobs, MarkExhausted(j) \/ RequeueJob(j)
  PROVE  OperatorStep(j)
  <1>1. CASE MarkExhausted(j)
    BY <1>1 DEF MarkExhausted, TypeOK, NewJob, OperatorStep
  <1>2. CASE RequeueJob(j)
    <2>1. job' = [job EXCEPT ![j] =
                    [NewJob EXCEPT !.attempt = job[j].attempt,
                                   !.budget = job[j].budget + 1]]
      BY <1>2 DEF RequeueJob
    <2>2. /\ DOMAIN job' = Jobs /\ \A i \in Jobs \ {j} : job'[i] = job[i]
          /\ DOMAIN job'[j] = DOMAIN NewJob
          /\ job'[j].attempt = job[j].attempt /\ job'[j].status = "open"
      BY <2>1 DEF TypeOK, NewJob
    <2> QED BY <1>2, <2>2 DEF RequeueJob, OperatorStep
  <1> QED BY <1>1, <1>2

-----------------------------------------------------------------------------
(***************************************************************************)
(* What all steps of a worker have in common.                              *)
(***************************************************************************)

\* The fields of the worker keep their types.
WorkerTyped(w) ==
    /\ DOMAIN worker[w] = DOMAIN Idle
    /\ worker[w].pc \in Phases
    /\ worker[w].next \in Nat \ {0}
    /\ CollectorShape(worker[w].collector)
    /\ worker[w].collector.pending = {}
    /\ DOMAIN worker[w].tx = DOMAIN NoTx

\* A step within a claim, or that ends it.  Only who owns the claim, or has an
\* open transaction on it, decides what becomes of the job.
Advances(w) ==
    /\ Busy(w)
    /\ SameJobs(w)
    /\ WorkerTyped(w)'
    /\ DropsClaim(w) \/ (SameClaim(w) /\ Busy(w)')
    /\ worker[w].job \in Jobs =>
         /\ job'[worker[w].job].status # job[worker[w].job].status =>
              /\ Owns(w) \/ InTransaction(w)
              /\ ~InTransaction(w)'
              /\ job'[worker[w].job].status \in {"open", "failed", "rejected", "published"}
         /\ InTransaction(w)' => InTransaction(w) \/ Owns(w)
    /\ holders' \in [Sources -> SUBSET Workers]

LEMMA SameJobsUnchanged ==
  ASSUME TypeOK, NEW w \in Workers, UNCHANGED job
  PROVE  SameJobs(w)
  BY DEF TypeOK, SameJobs

LEMMA IdleTyped ==
  ASSUME NEW w, worker[w] = Idle
  PROVE  WorkerTyped(w) /\ ~InTransaction(w) /\ ~Busy(w)
  BY DEF WorkerTyped, Idle, NoTx, NewCollector, CollectorShape, Phases, InTransaction,
         Busy

LEMMA UnlockedTyped ==
  ASSUME TypeOK, NEW w
  PROVE  Unlocked(w) \in [Sources -> SUBSET Workers]
  BY DEF TypeOK, Unlocked

LEMMA RowsTyped ==
  ASSUME TypeOK, NEW w \in Workers, worker[w].job \in Jobs
  PROVE  /\ Len(Rows(w)) \in Nat
         /\ \A m, n \in 1..Len(Rows(w)) :
              /\ Rows(w)[m].clean /\ Rows(w)[n].clean
              /\ Rows(w)[m].id = Rows(w)[n].id
              => m = n
         /\ ~file[worker[w].job].broken => Len(Rows(w)) # 0
  <1>1. PICK j \in Jobs : j = worker[w].job
    OBVIOUS
  <1>2. file[j] \in Files[j] /\ Rows(w) = file[j].rows
    BY <1>1 DEF TypeOK, Rows
  <1>3. /\ Len(file[j].rows) \in Nat
        /\ file[j].broken \/ file[j].rows # <<>>
    BY <1>2, PublicationAssumption
  <1>4. \A m, n \in 1..Len(file[j].rows) :
              /\ file[j].rows[m].clean /\ file[j].rows[n].clean
              /\ file[j].rows[m].id = file[j].rows[n].id
              => m = n
    BY <1>2, PublicationAssumption
  <1> QED BY SMTT(30), <1>1, <1>2, <1>3, <1>4

LEMMA LastOfChunkTyped ==
  ASSUME TypeOK, NEW w \in Workers, worker[w].job \in Jobs
  PROVE  /\ LastOfChunk(w) \in Nat
         /\ LastOfChunk(w) <= Len(Rows(w))
         /\ LastOfChunk(w) < Len(Rows(w)) => LastOfChunk(w) >= worker[w].next
         /\ ChunkSize \in Nat \ {0}
  BY RowsTyped, PublicationAssumption DEF LastOfChunk, TypeOK

LEMMA TableOfLength ==
  ASSUME NEW n \in Nat, NEW table, table = [k \in 1..n |-> table[k]]
  PROVE  Len(table) = n
  OBVIOUS

\* A table has a length, also when there is nothing to put into it.
LEMMA TableLength ==
  ASSUME NEW first \in Nat, NEW last \in Nat, NEW table
  PROVE  table = [k \in 1..(last + 1 - first) |-> table[k]]
         => Len(table) \in Nat /\ 1..Len(table) = 1..(last + 1 - first)
  <1>1. PICK n \in Nat : 1..n = 1..(last + 1 - first)
    <2> DEFINE n == IF last + 1 - first < 0 THEN 0 ELSE last + 1 - first
    <2>1. n \in Nat /\ 1..n = 1..(last + 1 - first)
      OBVIOUS
    <2> HIDE DEF n
    <2> QED BY <2>1
  <1> QED BY <1>1, TableOfLength

LEMMA WorkerAdvances ==
  ASSUME TypeOK, ClaimsAreKnown, NEW w \in Workers,
         StagingStep(w) \/ PublicationStep(w) \/ FailureStep(w)
  PROVE  Advances(w)
  <1> USE DEF Busy
  <1>0. /\ Busy(w) => worker[w].job \in Jobs
        /\ DOMAIN worker[w] = DOMAIN Idle /\ WorkerTyped(w)
        /\ holders \in [Sources -> SUBSET Workers]
    BY DEF ClaimsAreKnown, TypeOK, WorkerTyped
  <1>1. CASE StageChunk(w)
    <2> DEFINE first == worker[w].next
               last  == first + ChunkSize - 1
               found == ContractIssues(w, first, last)
               c     == Added(worker[w].collector, found)
    <2>1. /\ SameClaim(w) /\ SameJobs(w) /\ Owns(w) /\ UNCHANGED holders
          /\ worker[w].pc = "staging" /\ worker'[w].pc = "staging"
          /\ job'[worker[w].job].status = job[worker[w].job].status
          /\ worker'[w].next = last + 1 /\ worker'[w].tx = worker[w].tx
          /\ worker'[w].collector = Drained(c)
      BY <1>0, <1>1, StageChunkEffect
    <2>2. Len(found) \in Nat
      <3> DEFINE codes == [k \in 1..(last + 1 - first) |->
                             IF Rows(w)[first + k - 1].clean THEN "" ELSE "CONTRACT"]
      <3>1. Len(codes) \in Nat
        <4>1. last \in Nat /\ first \in Nat
          BY <1>0, PublicationAssumption DEF WorkerTyped
        <4>2. codes = [k \in 1..(last + 1 - first) |-> codes[k]]
          OBVIOUS
        <4> HIDE DEF first, last, codes
        <4> QED BY <4>1, <4>2, TableLength
      <3> HIDE DEF codes
      <3>2. Len(IssuesOf(first, codes)) \in Nat
        BY <3>1, IssuesOfLength
      <3> QED BY <3>2 DEF codes, ContractIssues
    <2> HIDE DEF found
    <2>3. CollectorShape(Drained(c)) /\ Drained(c).pending = {}
      BY <1>0, <2>2, AddedTotal DEF WorkerTyped
    <2>4. last + 1 \in Nat \ {0}
      BY <1>0, PublicationAssumption DEF WorkerTyped
    <2> HIDE DEF c, last, first
    <2>5. WorkerTyped(w)'
      BY <1>0, <2>1, <2>3, <2>4 DEF WorkerTyped, SameClaim
    <2> QED BY <1>0, <2>1, <2>5 DEF Advances, InTransaction
  <1>2. CASE StageRest(w)
    <2> DEFINE first == worker[w].next
               last  == Len(Rows(w))
               error == IF file[worker[w].job].broken THEN <<FileIssue("FILE")>> ELSE <<>>
               part  == ContractIssues(w, first, last)
               found == part \o error
               c     == Added(worker[w].collector, found)
    <2>1. /\ SameClaim(w) /\ SameJobs(w) /\ Owns(w) /\ UNCHANGED holders
          /\ worker[w].pc = "staging" /\ worker'[w].pc = "staged"
          /\ job'[worker[w].job].status = job[worker[w].job].status
          /\ worker'[w].next = worker[w].next /\ worker'[w].tx = worker[w].tx
          /\ worker'[w].collector = Drained(c)
      BY <1>0, <1>2, StageRestEffect
    <2>2. Len(found) \in Nat
      <3> DEFINE codes == [k \in 1..(last + 1 - first) |->
                             IF Rows(w)[first + k - 1].clean THEN "" ELSE "CONTRACT"]
      <3>1. Len(codes) \in Nat
        <4>1. last \in Nat /\ first \in Nat
          BY <1>0, <2>1, RowsTyped DEF WorkerTyped
        <4>2. codes = [k \in 1..(last + 1 - first) |-> codes[k]]
          OBVIOUS
        <4> HIDE DEF first, last, codes
        <4> QED BY <4>1, <4>2, TableLength
      <3> HIDE DEF codes
      <3>2. PICK n, S : IssuesOf(first, codes) \in Seq(S)
        BY <3>1, IssuesOfLength
      <3>3. part \in Seq(S)
        BY <3>2 DEF codes, ContractIssues
      <3>4. error \in Seq({FileIssue("FILE")})
        <4>1. <<>> \in Seq({FileIssue("FILE")})
          OBVIOUS
        <4>2. <<FileIssue("FILE")>> \in Seq({FileIssue("FILE")})
          OBVIOUS
        <4> QED BY <4>1, <4>2
      <3> HIDE DEF part, error
      <3>5. part \in Seq(S \cup {FileIssue("FILE")}) /\ error \in Seq(S \cup {FileIssue("FILE")})
        BY <3>3, <3>4
      <3> QED BY <3>5
    <2> HIDE DEF found
    <2>3. CollectorShape(Drained(c)) /\ Drained(c).pending = {}
      BY <1>0, <2>2, AddedTotal DEF WorkerTyped
    <2> HIDE DEF c, last, first
    <2>5. WorkerTyped(w)'
      BY <1>0, <2>1, <2>3 DEF WorkerTyped, SameClaim, Phases
    <2> QED BY <1>0, <2>1, <2>5 DEF Advances, InTransaction
  <1>3. CASE RejectFile(w)
    <2>1. /\ DropsClaim(w) /\ SameJobs(w) /\ Owns(w) /\ UNCHANGED holders
          /\ worker[w].pc = "staged"
          /\ worker[w].job \in Jobs => job'[worker[w].job].status = "rejected"
      BY <1>3, RejectFileEffect
    <2>2. WorkerTyped(w)' /\ ~InTransaction(w)'
      BY <2>1, IdleTyped DEF DropsClaim, WorkerTyped, Idle, NoTx, NewCollector,
         CollectorShape, Phases, InTransaction
    <2> QED BY <1>0, <2>1, <2>2 DEF Advances
  <1>4. CASE AcquireSourceLock(w)
    <2>1. /\ SameClaim(w) /\ UNCHANGED job
          /\ holders' = [holders EXCEPT ![Source(w)] = @ \cup {w}]
          /\ worker[w].pc = "staged" /\ worker'[w].pc = "locked"
          /\ worker'[w].next = worker[w].next
          /\ worker'[w].collector = worker[w].collector
          /\ worker'[w].tx = worker[w].tx
      BY <1>4, AcquireSourceLockEffect
    <2>2. WorkerTyped(w)' /\ ~InTransaction(w)' /\ SameJobs(w)
      BY <1>0, <2>1, SameJobsUnchanged DEF WorkerTyped, SameClaim, Phases, InTransaction
    <2>3. holders' \in [Sources -> SUBSET Workers]
      BY <1>0, <2>1
    <2> QED BY <1>0, <2>1, <2>2, <2>3 DEF Advances
  <1>5. CASE BeginPublication(w)
    <2>1. /\ SameClaim(w) /\ Owns(w) /\ UNCHANGED <<job, holders>>
          /\ worker[w].pc = "locked" /\ worker'[w].pc = "validating"
          /\ worker'[w].next = 1
          /\ worker'[w].collector = NewCollector
          /\ worker'[w].tx = [NoTx EXCEPT !.facts = facts, !.missing = missing]
      BY <1>5, BeginPublicationEffect
    <2>2. WorkerTyped(w)' /\ SameJobs(w)
      BY <1>0, <2>1, SameJobsUnchanged DEF WorkerTyped, SameClaim, Phases,
         CollectorShape, NewCollector, NoTx
    <2> QED BY <1>0, <2>1, <2>2 DEF Advances
  <1>6. CASE ValidateChunk(w)
    <2> DEFINE first == worker[w].next
               codes == [k \in 1..(LastOfChunk(w) + 1 - first) |->
                           IF first + k - 1 \in Chunk(w)
                           THEN DatabaseIssue(w, Rows(w)[first + k - 1]) ELSE ""]
               found == IssuesOf(first, codes)
               c     == Added(worker[w].collector, found)
               more  == IssueRows(w, c.kept)
    <2>1. /\ SameClaim(w) /\ UNCHANGED <<job, holders>>
          /\ worker[w].pc = "validating"
          /\ worker'[w].pc \in {"validating", "invalid", "linking"}
          /\ worker'[w].next = IF IsLastChunk(w) THEN 1 ELSE LastOfChunk(w) + 1
          /\ worker'[w].collector = Drained(c)
          /\ worker'[w].tx = [worker[w].tx EXCEPT !.issues = @ \cup more]
      BY <1>6, ValidateChunkEffect
    <2>2. /\ LastOfChunk(w) \in Nat /\ first \in Nat
          /\ LastOfChunk(w) + 1 \in Nat \ {0}
      <3>1. worker[w].job \in Jobs
        BY <1>0, <1>6 DEF ValidateChunk, At
      <3>2. first \in Nat
        BY <1>0 DEF WorkerTyped
      <3> QED BY <3>1, <3>2, LastOfChunkTyped
    <2>3. Len(codes) \in Nat
      <3>1. codes = [k \in 1..(LastOfChunk(w) + 1 - first) |-> codes[k]]
        OBVIOUS
      <3> HIDE DEF codes, first
      <3> QED BY <2>2, <3>1, TableLength
    <2> HIDE DEF codes
    <2>4. Len(found) \in Nat
      BY <2>3, IssuesOfLength
    <2> HIDE DEF found
    <2>5. CollectorShape(Drained(c)) /\ Drained(c).pending = {}
      BY <1>0, <2>4, AddedTotal DEF WorkerTyped
    <2> HIDE DEF c, more
    <2>6. WorkerTyped(w)' /\ SameJobs(w)
      BY <1>0, <2>1, <2>2, <2>5, SameJobsUnchanged DEF WorkerTyped, SameClaim, Phases
    <2> QED BY <1>0, <2>1, <2>6 DEF Advances, InTransaction
  <1>7. CASE FinishInvalid(w)
    <2>1. /\ SameClaim(w) /\ SameJobs(w) /\ UNCHANGED holders
          /\ worker[w].pc = "invalid" /\ worker'[w].pc = "unlocking"
          /\ worker[w].job \in Jobs => job'[worker[w].job].status = "rejected"
          /\ worker'[w].next = worker[w].next
          /\ worker'[w].collector = worker[w].collector
          /\ worker'[w].tx = NoTx
      BY <1>7, FinishInvalidEffect
    <2>2. WorkerTyped(w)'
      BY <1>0, <2>1 DEF WorkerTyped, SameClaim, Phases
    <2> QED BY <1>0, <2>1, <2>2 DEF Advances, InTransaction
  <1>8. CASE LinkChunk(w)
    <2>1. /\ SameClaim(w) /\ UNCHANGED <<job, holders>>
          /\ worker[w].pc = "linking" /\ worker'[w].pc \in {"linking", "linked"}
          /\ worker'[w].next = LastOfChunk(w) + 1
          /\ worker'[w].collector = worker[w].collector
          /\ worker'[w].tx = [worker[w].tx EXCEPT !.inserted = @ \cup NewFacts(w),
                                                  !.linked = @ \cup NewLinks(w)]
      BY <1>8, LinkChunkEffect
    <2>2. WorkerTyped(w)' /\ SameJobs(w)
      BY <1>0, <2>1, SameJobsUnchanged, LastOfChunkTyped
      DEF WorkerTyped, SameClaim, Phases
    <2> QED BY <1>0, <2>1, <2>2 DEF Advances, InTransaction
  <1>9. CASE UniqueViolation(w)
    <2>1. /\ SameClaim(w) /\ UNCHANGED job
          /\ worker[w].pc = "linking" /\ worker'[w].pc \in {"retrying", "locked"}
          /\ holders' = Unlocked(w) \/ holders' = holders
          /\ worker'[w].next = 1
          /\ worker'[w].collector = worker[w].collector
          /\ worker'[w].tx = NoTx
      BY <1>9, UniqueViolationEffect
    <2>2. WorkerTyped(w)' /\ SameJobs(w) /\ holders' \in [Sources -> SUBSET Workers]
      BY <1>0, <2>1, SameJobsUnchanged, UnlockedTyped DEF WorkerTyped, SameClaim, Phases
    <2> QED BY <1>0, <2>1, <2>2 DEF Advances, InTransaction
  <1>10. CASE FinishPublished(w)
    <2>1. /\ SameClaim(w) /\ SameJobs(w) /\ UNCHANGED holders
          /\ worker[w].pc = "linked" /\ worker'[w].pc = "unlocking"
          /\ worker[w].job \in Jobs => job'[worker[w].job].status = "published"
          /\ worker'[w].next = worker[w].next
          /\ worker'[w].collector = worker[w].collector
          /\ worker'[w].tx = NoTx
      BY <1>10, FinishPublishedEffect
    <2>2. WorkerTyped(w)'
      BY <1>0, <2>1 DEF WorkerTyped, SameClaim, Phases
    <2> QED BY <1>0, <2>1, <2>2 DEF Advances, InTransaction
  <1>11. CASE RetryableError(w)
    <2>1. /\ SameClaim(w) /\ UNCHANGED job
          /\ holders' = Unlocked(w)
          /\ worker[w].pc # "idle" /\ worker'[w].pc = "retrying"
          /\ worker'[w].next = worker[w].next
          /\ worker'[w].collector = worker[w].collector
          /\ worker'[w].tx = NoTx
      BY <1>11, RetryableErrorEffect
    <2>2. WorkerTyped(w)' /\ SameJobs(w)
      BY <1>0, <2>1, SameJobsUnchanged DEF WorkerTyped, SameClaim, Phases
    <2> QED BY <1>0, <2>1, <2>2, UnlockedTyped DEF Advances, InTransaction
  <1>12. CASE ScheduleRetry(w)
    <2>1. /\ DropsClaim(w) /\ SameJobs(w) /\ Owns(w) /\ UNCHANGED holders
          /\ worker[w].pc = "retrying"
          /\ worker[w].job \in Jobs => job'[worker[w].job].status \in {"open", "failed"}
      BY <1>12, ScheduleRetryEffect
    <2>2. WorkerTyped(w)' /\ ~InTransaction(w)'
      BY <2>1 DEF DropsClaim, WorkerTyped, Idle, NoTx, NewCollector,
         CollectorShape, Phases, InTransaction
    <2> QED BY <1>0, <2>1, <2>2 DEF Advances
  <1>13. CASE UnlockSource(w) \/ ClaimLost(w) \/ Crash(w)
    <2>1. DropsClaim(w) /\ UNCHANGED job /\ holders' = Unlocked(w) /\ worker[w].pc # "idle"
      BY <1>13, EndOfWorkEffect DEF UnlockSource, ClaimLost, Crash, At
    <2>2. WorkerTyped(w)' /\ ~InTransaction(w)' /\ SameJobs(w)
      BY <2>1, SameJobsUnchanged DEF DropsClaim, WorkerTyped, Idle, NoTx, NewCollector,
         CollectorShape, Phases, InTransaction
    <2> QED BY <1>0, <2>1, <2>2, UnlockedTyped DEF Advances
  <1> QED
    BY <1>1, <1>2, <1>3, <1>4, <1>5, <1>6, <1>7, <1>8, <1>9, <1>10, <1>11, <1>12, <1>13
    DEF StagingStep, PublicationStep, FailureStep

-----------------------------------------------------------------------------
(***************************************************************************)
(* Who owns what.                                                          *)
(***************************************************************************)

Claims == TypeOK /\ ClaimsAreKnown /\ ClaimsAreApart /\ TransactionsOwn

LEMMA ClaimsStart == Init => Claims
  <1> SUFFICES ASSUME Init PROVE Claims
    OBVIOUS
  <1>1. \A w \in Workers : worker[w] = Idle
    BY DEF Init
  <1>2. \A w \in Workers : WorkerTyped(w) /\ ~InTransaction(w) /\ ~Busy(w)
    BY <1>1, IdleTyped
  <1>3. TypeOK
    <2>1. \A j \in Jobs : file[j] \in Files[j]
      BY DEF Init
    <2>2. DOMAIN job = Jobs /\ \A j \in Jobs :
            /\ DOMAIN job[j] = DOMAIN NewJob
            /\ job[j].status \in {"open", "held", "failed", "rejected", "published"}
            /\ job[j].attempt \in Nat
      BY DEF Init, NewJob
    <2>3. holders \in [Sources -> SUBSET Workers] /\ DOMAIN worker = Workers
      BY DEF Init
    <2> QED BY <1>2, <2>1, <2>2, <2>3 DEF TypeOK, WorkerTyped
  <1> QED
    BY <1>1, <1>2, <1>3 DEF Claims, ClaimsAreKnown, ClaimsAreApart, TransactionsOwn

LEMMA ClaimsByWorker ==
  ASSUME Claims, NEW w \in Workers, Advances(w)
  PROVE  Claims'
  <1> DEFINE j == worker[w].job
  <1>0. /\ TypeOK /\ ClaimsAreKnown /\ ClaimsAreApart /\ TransactionsOwn
        /\ j \in Jobs
    BY DEF Claims, ClaimsAreKnown, Advances
  <1>1. PICK i \in Jobs : i = j
    BY <1>0
  <1>2. /\ DOMAIN job' = DOMAIN job
        /\ \A k \in Jobs \ {i} : job'[k] = job[k]
        /\ DOMAIN job'[i] = DOMAIN NewJob
        /\ job'[i].attempt = job[i].attempt
        /\ job'[i].status # job[i].status =>
             /\ Owns(w) \/ InTransaction(w)
             /\ ~InTransaction(w)'
             /\ job'[i].status \in {"open", "failed", "rejected", "published"}
        /\ InTransaction(w)' => InTransaction(w) \/ Owns(w)
        /\ OwnStep(w)
        /\ WorkerTyped(w)' /\ Busy(w)
        /\ holders' \in [Sources -> SUBSET Workers]
    BY <1>0, <1>1 DEF Advances, SameJobs, SameClaim, DropsClaim
  <1>3. \/ worker'[w] = Idle
        \/ Busy(w)' /\ worker'[w].job = i /\ worker'[w].attempt = worker[w].attempt
    BY <1>1 DEF Advances, DropsClaim, SameClaim
  <1>4. \A v \in Workers : v # w => worker'[v] = worker[v]
    BY <1>2 DEF OwnStep
  <1>5. TypeOK'
    <2>1. \A v \in Workers : WorkerTyped(v)'
      <3> TAKE v \in Workers
      <3>1. CASE v = w
        BY <3>1, <1>2
      <3>2. CASE v # w
        BY <3>2, <1>0, <1>4 DEF TypeOK, WorkerTyped
      <3> QED BY <3>1, <3>2
    <2>2. \A k \in Jobs :
            /\ DOMAIN job'[k] = DOMAIN NewJob
            /\ job'[k].status \in {"open", "held", "failed", "rejected", "published"}
            /\ job'[k].attempt \in Nat
      BY <1>0, <1>2 DEF TypeOK
    <2> QED BY <1>0, <1>2, <2>1, <2>2 DEF TypeOK, WorkerTyped, OwnStep
  <1>6. ClaimsAreKnown'
    <2>1. \A v \in Workers : Busy(v)' =>
            worker'[v].job \in Jobs /\ worker'[v].attempt \in 1..job'[worker'[v].job].attempt
      <3> SUFFICES ASSUME NEW v \in Workers, Busy(v)'
                   PROVE  worker'[v].job \in Jobs
                          /\ worker'[v].attempt \in 1..job'[worker'[v].job].attempt
        OBVIOUS
      <3>1. /\ Busy(v) /\ worker'[v].job = worker[v].job
            /\ worker'[v].attempt = worker[v].attempt
        BY <1>1, <1>2, <1>3, <1>4 DEF Busy, Idle
      <3>2. PICK k \in Jobs : k = worker[v].job
        BY <1>0, <3>1 DEF ClaimsAreKnown
      <3>3. job'[k].attempt = job[k].attempt
        BY <1>2
      <3> QED BY <1>0, <3>1, <3>2, <3>3 DEF ClaimsAreKnown
    <2>2. \A v \in Workers : ~Busy(v)' => worker'[v] = Idle
      BY <1>0, <1>3, <1>4 DEF ClaimsAreKnown, Busy
    <2> QED BY <2>1, <2>2 DEF ClaimsAreKnown
  <1>7. ClaimsAreApart'
    <2> SUFFICES ASSUME NEW u \in Workers, NEW v \in Workers, Busy(u)', Busy(v)',
                        worker'[u].job = worker'[v].job,
                        worker'[u].attempt = worker'[v].attempt
                 PROVE  u = v
      BY DEF ClaimsAreApart
    <2>1. /\ Busy(u) /\ worker'[u].job = worker[u].job
          /\ worker'[u].attempt = worker[u].attempt
      BY <1>1, <1>2, <1>3, <1>4 DEF Busy, Idle
    <2>2. /\ Busy(v) /\ worker'[v].job = worker[v].job
          /\ worker'[v].attempt = worker[v].attempt
      BY <1>1, <1>2, <1>3, <1>4 DEF Busy, Idle
    <2> QED BY <1>0, <2>1, <2>2 DEF ClaimsAreApart
  <1>8. TransactionsOwn'
    <2> SUFFICES ASSUME NEW v \in Workers, InTransaction(v)'
                 PROVE  Owns(v)'
      BY DEF TransactionsOwn
    <2>1. CASE v = w
      <3>1. /\ worker'[w].job = i /\ worker'[w].attempt = worker[w].attempt
            /\ Owns(w) /\ job'[i].status = job[i].status
        BY <1>0, <1>2, <1>3, <2>1 DEF InTransaction, Idle, TransactionsOwn
      <3> QED BY <1>1, <1>2, <2>1, <3>1 DEF Owns
    <2>2. CASE v # w
      <3>1. /\ worker'[v] = worker[v] /\ InTransaction(v) /\ Owns(v) /\ Busy(v)
        BY <1>0, <1>4, <2>2 DEF InTransaction, TransactionsOwn, Busy
      <3>2. PICK k \in Jobs : k = worker[v].job
        BY <1>0, <3>1 DEF ClaimsAreKnown
      <3>3. CASE k = i
        <4>1. ~Owns(w)
          BY ZenonT(60), <1>0, <1>1, <1>2, <2>2, <3>1, <3>2, <3>3 DEF Owns, ClaimsAreApart
        <4>2. ~InTransaction(w)
          BY <1>0, <4>1 DEF TransactionsOwn
        <4>3. job'[i].status = job[i].status /\ job'[i].attempt = job[i].attempt
          BY <4>1, <4>2, <1>2
        <4> QED BY <3>1, <3>2, <3>3, <4>3 DEF Owns
      <3>4. CASE k # i
        BY <1>2, <3>1, <3>2, <3>4 DEF Owns
      <3> QED BY <3>3, <3>4
    <2> QED BY <2>1, <2>2
  <1> QED BY <1>5, <1>6, <1>7, <1>8 DEF Claims

LEMMA ClaimsByOperator ==
  ASSUME Claims, NEW j \in Jobs, OperatorStep(j)
  PROVE  Claims'
  <1>1. /\ UNCHANGED <<worker, file, holders>>
        /\ DOMAIN job' = Jobs /\ \A i \in Jobs \ {j} : job'[i] = job[i]
        /\ DOMAIN job'[j] = DOMAIN NewJob
        /\ job'[j].attempt = job[j].attempt
        /\ job'[j].status \in {"open", "failed"}
        /\ ~RowLocked(j) \/ job[j].status # "held"
    BY DEF OperatorStep
  <1>2. /\ TypeOK /\ ClaimsAreKnown /\ ClaimsAreApart /\ TransactionsOwn
    BY DEF Claims
  <1>3. TypeOK'
    BY <1>1, <1>2 DEF TypeOK
  <1>4. ClaimsAreKnown'
    <2>1. \A w \in Workers : Busy(w) =>
            worker[w].job \in Jobs /\ worker[w].attempt \in 1..job'[worker[w].job].attempt
      BY <1>1, <1>2 DEF ClaimsAreKnown
    <2> QED BY <1>1, <1>2, <2>1 DEF ClaimsAreKnown, Busy
  <1>5. ClaimsAreApart'
    BY <1>1, <1>2 DEF ClaimsAreApart, Busy
  <1>6. TransactionsOwn'
    <2> SUFFICES ASSUME NEW v \in Workers, InTransaction(v)
                 PROVE  Owns(v)'
      BY <1>1 DEF TransactionsOwn, InTransaction
    <2>1. Owns(v) /\ worker[v].job \in Jobs
      BY <1>2 DEF TransactionsOwn, ClaimsAreKnown, InTransaction, Busy
    <2>2. worker[v].job # j
      BY <1>1, <2>1 DEF RowLocked, Owns
    <2> QED BY <1>1, <2>1, <2>2 DEF Owns
  <1> QED BY <1>3, <1>4, <1>5, <1>6 DEF Claims

LEMMA ClaimsByClaim ==
  ASSUME Claims, NEW w \in Workers, NEW j \in Jobs, Claim(w, j)
  PROVE  Claims'
  <1>1. /\ TypeOK /\ ClaimsAreKnown /\ ClaimsAreApart /\ TransactionsOwn
    BY DEF Claims
  <1>2. /\ OwnStep(w) /\ UNCHANGED holders
        /\ ~Busy(w) /\ ~RowLocked(j)
        /\ DOMAIN job' = Jobs /\ \A i \in Jobs \ {j} : job'[i] = job[i]
        /\ DOMAIN job'[j] = DOMAIN NewJob
        /\ job'[j].status = "held" /\ job'[j].attempt = job[j].attempt + 1
        /\ worker'[w] = [Idle EXCEPT !.pc = "staging", !.job = j,
                                     !.attempt = job[j].attempt + 1]
    BY <1>1, ClaimEffect
  <1>3. /\ WorkerTyped(w)' /\ worker'[w].pc = "staging"
        /\ worker'[w].job = j /\ worker'[w].attempt = job[j].attempt + 1
    BY <1>2 DEF WorkerTyped, Idle, NewCollector, CollectorShape, Phases
  <1>4. \A v \in Workers : v # w => worker'[v] = worker[v]
    BY <1>2 DEF OwnStep
  <1>5. job[j].attempt \in Nat
    BY <1>1 DEF TypeOK
  <1>6. TypeOK'
    <2>1. \A v \in Workers : WorkerTyped(v)'
      <3> TAKE v \in Workers
      <3>1. CASE v = w
        BY <3>1, <1>3
      <3>2. CASE v # w
        BY <3>2, <1>1, <1>4 DEF TypeOK, WorkerTyped
      <3> QED BY <3>1, <3>2
    <2>2. \A k \in Jobs :
            /\ DOMAIN job'[k] = DOMAIN NewJob
            /\ job'[k].status \in {"open", "held", "failed", "rejected", "published"}
            /\ job'[k].attempt \in Nat
      BY <1>1, <1>2, <1>5 DEF TypeOK
    <2> QED BY <1>1, <1>2, <2>1, <2>2 DEF TypeOK, WorkerTyped, OwnStep
  <1>7. \A v \in Workers : v # w /\ Busy(v) /\ worker[v].job = j =>
          worker[v].attempt \in 1..job[j].attempt
    BY <1>1 DEF ClaimsAreKnown
  <1>8. ClaimsAreKnown'
    <2> SUFFICES ASSUME NEW v \in Workers
                 PROVE  IF Busy(v)'
                        THEN /\ worker'[v].job \in Jobs
                             /\ worker'[v].attempt \in 1..job'[worker'[v].job].attempt
                        ELSE worker'[v] = Idle
      BY DEF ClaimsAreKnown
    <2>1. CASE v = w
      BY <2>1, <1>2, <1>3, <1>5 DEF Busy
    <2>2. CASE v # w
      <3>1. worker'[v] = worker[v] /\ Busy(v)' = Busy(v)
        BY <1>4, <2>2 DEF Busy
      <3>2. CASE Busy(v)
        <4>1. PICK k \in Jobs : k = worker[v].job /\ worker[v].attempt \in 1..job[k].attempt
          BY <1>1, <3>2 DEF ClaimsAreKnown
        <4>2. worker[v].attempt \in 1..job'[k].attempt
          BY <1>2, <1>5, <4>1
        <4> QED BY <3>1, <3>2, <4>1, <4>2
      <3>3. CASE ~Busy(v)
        BY <1>1, <3>1, <3>3 DEF ClaimsAreKnown
      <3> QED BY <3>2, <3>3
    <2> QED BY <2>1, <2>2
  <1>9. ClaimsAreApart'
    <2>1. \A v \in Workers : v # w /\ Busy(v) /\ worker[v].job = j =>
            worker[v].attempt # job[j].attempt + 1
      BY <1>5, <1>7
    <2> QED BY <1>1, <1>3, <1>4, <2>1 DEF ClaimsAreApart, Busy
  <1>10. TransactionsOwn'
    <2> SUFFICES ASSUME NEW v \in Workers, InTransaction(v)'
                 PROVE  Owns(v)'
      BY DEF TransactionsOwn
    <2>1. v # w
      BY <1>3 DEF InTransaction
    <2>2. worker'[v] = worker[v] /\ InTransaction(v) /\ Owns(v) /\ worker[v].job \in Jobs
      BY <1>1, <1>4, <2>1 DEF InTransaction, TransactionsOwn, ClaimsAreKnown, Busy
    <2>3. worker[v].job # j
      BY <1>2, <2>2 DEF RowLocked
    <2> QED BY <1>2, <2>2, <2>3 DEF Owns
  <1> QED BY <1>6, <1>8, <1>9, <1>10 DEF Claims

\* The rest of the steps leave jobs and workers alone.
LEMMA ClaimsBySameRows ==
  ASSUME Claims, UNCHANGED <<file, job, holders, worker>>
  PROVE  Claims'
  BY DEF Claims, TypeOK, ClaimsAreKnown, ClaimsAreApart, TransactionsOwn, Busy,
         InTransaction, Owns

LEMMA ClaimsStep == Claims /\ [Next]_vars => Claims'
  <1> SUFFICES ASSUME Claims, [Next]_vars PROVE Claims'
    OBVIOUS
  <1>0. TypeOK /\ ClaimsAreKnown
    BY DEF Claims
  <1>1. CASE \E j \in Jobs : QueueStep(j)
    <2>1. PICK j \in Jobs : QueueStep(j)
      BY <1>1
    <2> QED BY <1>0, <2>1, ClaimsByClaim, ClaimsByOperator, OperatorEffect DEF QueueStep
  <1>2. CASE \E w \in Workers : StagingStep(w) \/ PublicationStep(w) \/ FailureStep(w)
    BY <1>0, <1>2, WorkerAdvances, ClaimsByWorker
  <1>3. CASE \E r \in Refs : EditMasterData(r)
    BY <1>3, ClaimsBySameRows DEF EditMasterData
  <1>4. CASE UNCHANGED vars
    BY <1>4, ClaimsBySameRows DEF vars
  <1> QED BY <1>1, <1>2, <1>3, <1>4 DEF Next

-----------------------------------------------------------------------------
(***************************************************************************)
(* What transactions hold.                                                 *)
(***************************************************************************)

LEMMA FactsGrow ==
  ASSUME [Next]_vars
  PROVE  facts \subseteq facts'
  <1>1. CASE \E j \in Jobs : QueueStep(j)
    BY <1>1 DEF QueueStep, MarkExhausted, RequeueJob, Claim
  <1>2. CASE \E w \in Workers : StagingStep(w) \/ PublicationStep(w) \/ FailureStep(w)
    <2>1. PICK w \in Workers : StagingStep(w) \/ PublicationStep(w) \/ FailureStep(w)
      BY <1>2
    <2> QED
      BY <2>1 DEF StagingStep, StageChunk, StageRest, RejectFile, PublicationStep,
         AcquireSourceLock, BeginPublication, ValidateChunk, FinishInvalid, LinkChunk,
         UniqueViolation, FinishPublished, UnlockSource, FailureStep, RetryableError,
         ScheduleRetry, ClaimLost, Crash
  <1>3. CASE \E r \in Refs : EditMasterData(r)
    BY <1>3 DEF EditMasterData
  <1>4. CASE UNCHANGED vars
    BY <1>4 DEF vars
  <1> QED BY <1>1, <1>2, <1>3, <1>4 DEF Next

LEMMA NothingBelongs ==
  ASSUME NEW w, worker[w].tx = NoTx
  PROVE  Belongs(w)
  BY DEF Belongs, NoTx

LEMMA BelongsStep ==
  ASSUME Claims, NEW w \in Workers, Belongs(w),
         StagingStep(w) \/ PublicationStep(w) \/ FailureStep(w)
  PROVE  Belongs(w)'
  <1>0. TypeOK
    BY DEF Claims
  <1>1. CASE StageChunk(w) \/ StageRest(w) \/ AcquireSourceLock(w)
    <2>1. worker'[w].tx = worker[w].tx /\ worker[w].pc \in {"staging", "staged"}
      BY <1>0, <1>1, StageChunkEffect, StageRestEffect, AcquireSourceLockEffect
    <2>2. worker'[w].tx = NoTx
      BY <2>1 DEF Belongs, InTransaction
    <2> QED BY <2>2, NothingBelongs DEF Belongs, NoTx
  <1>2. CASE RejectFile(w) \/ ScheduleRetry(w) \/ UnlockSource(w) \/ ClaimLost(w) \/ Crash(w)
    <2>1. DropsClaim(w)
      BY <1>0, <1>2, RejectFileEffect, ScheduleRetryEffect, EndOfWorkEffect
    <2>2. worker'[w].tx = NoTx
      BY <2>1 DEF DropsClaim, Idle
    <2> QED BY <2>2 DEF Belongs, NoTx
  <1>3. CASE FinishInvalid(w) \/ UniqueViolation(w) \/ FinishPublished(w) \/ RetryableError(w)
    <2>1. worker'[w].tx = NoTx
      BY <1>0, <1>3, FinishInvalidEffect, UniqueViolationEffect, FinishPublishedEffect,
         RetryableErrorEffect
    <2> QED BY <2>1 DEF Belongs, NoTx
  <1>4. CASE BeginPublication(w)
    <2>1. /\ UNCHANGED facts /\ worker'[w].pc = "validating"
          /\ worker'[w].tx = [NoTx EXCEPT !.facts = facts, !.missing = missing]
      BY <1>0, <1>4, BeginPublicationEffect
    <2> QED BY <2>1 DEF Belongs, NoTx, InTransaction
  <1>5. CASE ValidateChunk(w)
    <2> DEFINE first == worker[w].next
               codes == [k \in 1..(LastOfChunk(w) + 1 - first) |->
                           IF first + k - 1 \in Chunk(w)
                           THEN DatabaseIssue(w, Rows(w)[first + k - 1]) ELSE ""]
               c     == Added(worker[w].collector, IssuesOf(first, codes))
               more  == IssueRows(w, c.kept)
    <2>1. /\ UNCHANGED facts /\ worker[w].pc = "validating"
          /\ worker'[w].pc \in {"validating", "invalid", "linking"}
          /\ worker'[w].tx = [worker[w].tx EXCEPT !.issues = @ \cup more]
          /\ worker'[w].job = worker[w].job /\ worker'[w].attempt = worker[w].attempt
      BY <1>0, <1>5, ValidateChunkEffect DEF SameClaim
    <2> HIDE DEF c
    <2>2. \A i \in more : i.job = worker[w].job /\ i.attempt = worker[w].attempt
      BY DEF IssueRows
    <2> HIDE DEF more
    <2>3. /\ worker'[w].tx.inserted = worker[w].tx.inserted
          /\ worker'[w].tx.linked = worker[w].tx.linked
          /\ worker'[w].tx.facts = worker[w].tx.facts
          /\ worker'[w].tx.issues = worker[w].tx.issues \cup more
      BY <1>0, <2>1 DEF TypeOK, NoTx
    <2> QED BY <2>1, <2>2, <2>3 DEF Belongs, InTransaction, Source
  <1>6. CASE LinkChunk(w)
    <2>1. /\ UNCHANGED facts /\ worker[w].pc = "linking"
          /\ worker'[w].pc \in {"linking", "linked"}
          /\ worker'[w].tx = [worker[w].tx EXCEPT !.inserted = @ \cup NewFacts(w),
                                                  !.linked = @ \cup NewLinks(w)]
          /\ worker'[w].job = worker[w].job /\ worker'[w].attempt = worker[w].attempt
      BY <1>0, <1>6, LinkChunkEffect DEF SameClaim
    <2>2. \A f \in NewFacts(w) : f.source = Source(w) /\ f.job = worker[w].job
      BY DEF NewFacts, FactOf
    <2>3. /\ worker'[w].tx.inserted = worker[w].tx.inserted \cup NewFacts(w)
          /\ worker'[w].tx.facts = worker[w].tx.facts
          /\ worker'[w].tx.issues = worker[w].tx.issues
      BY <1>0, <2>1 DEF TypeOK, NoTx
    <2> QED BY <2>1, <2>2, <2>3 DEF Belongs, InTransaction, Source
  <1> QED
    BY <1>1, <1>2, <1>3, <1>4, <1>5, <1>6 DEF StagingStep, PublicationStep, FailureStep

\* Nothing a transaction of v holds is touched by the steps of others.
LEMMA OthersKeep ==
  ASSUME NEW v, worker'[v] = worker[v], facts \subseteq facts', Belongs(v)
  PROVE  Belongs(v)'
  BY DEF Belongs, InTransaction, Source

LEMMA BelongStep == Claims /\ TransactionsBelong /\ [Next]_vars => TransactionsBelong'
  <1> SUFFICES ASSUME Claims, TransactionsBelong, [Next]_vars, NEW v \in Workers
               PROVE  Belongs(v)'
    BY DEF TransactionsBelong
  <1>0. /\ TypeOK /\ ClaimsAreKnown /\ Belongs(v) /\ facts \subseteq facts'
    BY FactsGrow DEF Claims, TransactionsBelong
  <1>1. CASE \E j \in Jobs : QueueStep(j)
    <2>1. PICK j \in Jobs : QueueStep(j)
      BY <1>1
    <2>2. CASE MarkExhausted(j) \/ RequeueJob(j)
      BY <1>0, <2>2, OthersKeep, OperatorEffect DEF OperatorStep
    <2>3. ASSUME NEW w \in Workers, Claim(w, j) PROVE Belongs(v)'
      <3>1. /\ OwnStep(w)
            /\ worker'[w] = [Idle EXCEPT !.pc = "staging", !.job = j,
                                         !.attempt = job[j].attempt + 1]
        BY <1>0, <2>3, ClaimEffect
      <3>2. CASE v = w
        <4>1. worker'[v].tx = NoTx
          BY <3>1, <3>2 DEF Idle
        <4> QED BY <4>1 DEF Belongs, NoTx
      <3>3. CASE v # w
        BY <1>0, <3>1, <3>3, OthersKeep DEF OwnStep
      <3> QED BY <3>2, <3>3
    <2> QED BY <2>1, <2>2, <2>3 DEF QueueStep
  <1>2. CASE \E w \in Workers : StagingStep(w) \/ PublicationStep(w) \/ FailureStep(w)
    <2>1. PICK w \in Workers : StagingStep(w) \/ PublicationStep(w) \/ FailureStep(w)
      BY <1>2
    <2>2. CASE v = w
      BY <1>0, <2>1, <2>2, BelongsStep
    <2>3. CASE v # w
      <3>1. OwnStep(w)
        BY <1>0, <2>1, WorkerAdvances DEF Advances, DropsClaim, SameClaim
      <3> QED BY <1>0, <2>3, <3>1, OthersKeep DEF OwnStep
    <2> QED BY <2>2, <2>3
  <1>3. CASE (\E r \in Refs : EditMasterData(r)) \/ UNCHANGED vars
    BY <1>0, <1>3, OthersKeep DEF EditMasterData, vars
  <1> QED BY <1>1, <1>2, <1>3 DEF Next

LEMMA BelongStart == Init => TransactionsBelong
  <1> SUFFICES ASSUME Init, NEW w \in Workers PROVE Belongs(w)
    BY DEF TransactionsBelong
  <1>1. worker[w].tx = NoTx
    BY DEF Init, Idle
  <1> QED BY <1>1, NothingBelongs

-----------------------------------------------------------------------------
(***************************************************************************)
(* The source locks, and what they do to snapshots.                        *)
(***************************************************************************)

Using(w) == worker[w].pc \in {"locked", "unlocking"} \/ InTransaction(w)

\* A step of w takes its lock, keeps it as long as it uses it, or gives it up.
MovesLock(w) ==
    /\ \/ /\ UNCHANGED holders
          /\ ~Using(w)' /\ ~Using(w)
       \/ /\ UNCHANGED holders
          /\ Using(w)' /\ Using(w) /\ worker'[w].job = worker[w].job
       \/ /\ holders' = Unlocked(w)
          /\ ~Using(w)'
       \/ /\ holders' = [holders EXCEPT ![Source(w)] = @ \cup {w}]
          /\ Using(w)' /\ ~Using(w) /\ worker'[w].job = worker[w].job
          /\ ~pooled => holders[Source(w)] = {}
    /\ worker'[w].retried =>
         worker[w].retried \/ (worker[w].pc = "linking" /\ InsertRefused(w))

LEMMA LockMoves ==
  ASSUME TypeOK, NEW w \in Workers,
         StagingStep(w) \/ PublicationStep(w) \/ FailureStep(w)
  PROVE  MovesLock(w)
  <1> USE DEF MovesLock, Using, InTransaction
  <1>0. ~Using(w)' <=> /\ worker'[w].pc \notin {"locked", "unlocking"}
                       /\ worker'[w].pc \notin {"validating", "invalid", "linking", "linked"}
    OBVIOUS
  <1>1. CASE StageChunk(w)
    <2>1. /\ UNCHANGED holders /\ worker[w].pc = "staging" /\ worker'[w].pc = "staging"
          /\ worker'[w].retried = worker[w].retried
      BY <1>1, StageChunkEffect
    <2> QED BY <2>1
  <1>2. CASE StageRest(w)
    <2>1. /\ UNCHANGED holders /\ worker[w].pc = "staging" /\ worker'[w].pc = "staged"
          /\ worker'[w].retried = worker[w].retried
      BY <1>2, StageRestEffect
    <2> QED BY <2>1
  <1>3. CASE RejectFile(w) \/ ScheduleRetry(w)
    <2>1. /\ UNCHANGED holders /\ worker[w].pc \in {"staged", "retrying"}
          /\ worker'[w] = Idle
      BY <1>3, RejectFileEffect, ScheduleRetryEffect DEF DropsClaim
    <2> QED BY <2>1 DEF Idle
  <1>4. CASE AcquireSourceLock(w)
    <2>1. /\ holders' = [holders EXCEPT ![Source(w)] = @ \cup {w}]
          /\ worker[w].pc = "staged" /\ worker'[w].pc = "locked"
          /\ ~pooled => holders[Source(w)] = {}
          /\ worker'[w].retried = worker[w].retried
          /\ worker'[w].job = worker[w].job
      BY <1>4, AcquireSourceLockEffect DEF SameClaim
    <2> QED BY <2>1
  <1>5. CASE BeginPublication(w)
    <2>1. /\ UNCHANGED holders /\ worker[w].pc = "locked" /\ worker'[w].pc = "validating"
          /\ worker'[w].retried = worker[w].retried /\ worker'[w].job = worker[w].job
      BY <1>5, BeginPublicationEffect DEF SameClaim
    <2> QED BY <2>1
  <1>6. CASE ValidateChunk(w)
    <2>1. /\ UNCHANGED holders /\ worker[w].pc = "validating"
          /\ worker'[w].pc \in {"validating", "invalid", "linking"}
          /\ worker'[w].retried = worker[w].retried /\ worker'[w].job = worker[w].job
      BY <1>6, ValidateChunkEffect DEF SameClaim
    <2> QED BY <2>1
  <1>7. CASE FinishInvalid(w) \/ FinishPublished(w)
    <2>1. /\ UNCHANGED holders /\ worker[w].pc \in {"invalid", "linked"}
          /\ worker'[w].pc = "unlocking"
          /\ worker'[w].retried = worker[w].retried /\ worker'[w].job = worker[w].job
      BY <1>7, FinishInvalidEffect, FinishPublishedEffect DEF SameClaim
    <2> QED BY <2>1
  <1>8. CASE LinkChunk(w)
    <2>1. /\ UNCHANGED holders /\ worker[w].pc = "linking"
          /\ worker'[w].pc \in {"linking", "linked"}
          /\ worker'[w].retried = worker[w].retried /\ worker'[w].job = worker[w].job
      BY <1>8, LinkChunkEffect DEF SameClaim
    <2> QED BY <2>1
  <1>9. CASE UniqueViolation(w)
    <2>1. /\ worker[w].pc = "linking" /\ InsertRefused(w)
          /\ worker'[w].pc = IF worker[w].retried THEN "retrying" ELSE "locked"
          /\ holders' = IF worker[w].retried THEN Unlocked(w) ELSE holders
          /\ worker'[w].job = worker[w].job
      BY <1>9, UniqueViolationEffect DEF SameClaim
    <2> QED BY <2>1
  <1>10. CASE RetryableError(w)
    <2>1. /\ holders' = Unlocked(w) /\ worker'[w].pc = "retrying"
          /\ worker'[w].retried = worker[w].retried
      BY <1>10, RetryableErrorEffect
    <2> QED BY <2>1
  <1>11. CASE UnlockSource(w) \/ ClaimLost(w) \/ Crash(w)
    <2>1. holders' = Unlocked(w) /\ worker'[w] = Idle
      BY <1>11, EndOfWorkEffect DEF DropsClaim
    <2> QED BY <2>1 DEF Idle
  <1> QED
    BY <1>1, <1>2, <1>3, <1>4, <1>5, <1>6, <1>7, <1>8, <1>9, <1>10, <1>11
    DEF StagingStep, PublicationStep, FailureStep

Locks == LocksAreInUse /\ SessionsApart /\ SnapshotsAreCurrent

LEMMA LocksStart == Init => Locks
  <1> SUFFICES ASSUME Init PROVE Locks
    OBVIOUS
  <1>1. \A w \in Workers : worker[w].pc = "idle" /\ worker[w].retried = FALSE
    BY DEF Init, Idle
  <1>2. \A s \in Sources : holders[s] = {}
    BY DEF Init
  <1> QED
    BY <1>1, <1>2 DEF Locks, LocksAreInUse, SessionsApart, SnapshotsAreCurrent,
       InTransaction

\* With real session locks, every insert finds the key free.
LEMMA NothingIsRefused ==
  ASSUME ~pooled, Claims, TransactionsBelong, Locks, NEW w \in Workers, InTransaction(w)
  PROVE  ~InsertRefused(w)
  <1>1. \A f \in facts : f.source = Source(w) => f \in worker[w].tx.facts
    BY DEF Locks, SnapshotsAreCurrent
  <1>2. \A row : FactsOf(w, row, facts) \subseteq FactsOf(w, row, VisibleFacts(w))
    BY <1>1 DEF FactsOf, VisibleFacts
  <1> QED BY <1>2 DEF InsertRefused, NewNumbers

\* Whoever uses a lock is among its holders.
LEMMA UsersHold ==
  ASSUME Claims, LocksAreInUse, NEW w \in Workers, Using(w)
  PROVE  Source(w) \in Sources /\ w \in holders[Source(w)]
  <1>1. worker[w].job \in Jobs
    BY DEF Using, InTransaction, Claims, ClaimsAreKnown, Busy
  <1>2. Source(w) \in Sources
    BY <1>1, PublicationAssumption DEF Source
  <1> QED BY <1>2 DEF LocksAreInUse, Using

LEMMA LocksByWorker ==
  ASSUME Claims, TransactionsBelong, Locks, NEW w \in Workers,
         StagingStep(w) \/ PublicationStep(w) \/ FailureStep(w)
  PROVE  Locks'
  <1>0. /\ TypeOK /\ ClaimsAreKnown
        /\ LocksAreInUse /\ SessionsApart /\ SnapshotsAreCurrent
    BY DEF Claims, Locks
  <1>1. MovesLock(w) /\ OwnStep(w) /\ Busy(w) /\ worker[w].job \in Jobs
    BY <1>0, LockMoves, WorkerAdvances
    DEF Advances, SameClaim, DropsClaim, ClaimsAreKnown
  <1>2. \A v \in Workers : v # w => worker'[v] = worker[v]
    BY <1>1 DEF OwnStep
  <1>3. Source(w) \in Sources
    BY <1>1, PublicationAssumption DEF Source
  <1>4. holders \in [Sources -> SUBSET Workers]
    BY <1>0 DEF TypeOK
  <1>5. \A s \in Sources :
          w \in holders'[s] <=> Using(w)' /\ SourceOf[worker'[w].job] = s
    <2>0. \A s \in Sources : w \in holders[s] <=> Using(w) /\ Source(w) = s
      BY <1>0 DEF LocksAreInUse, Using
    <2>1. CASE UNCHANGED holders /\ ~Using(w)' /\ ~Using(w)
      BY <2>0, <2>1
    <2>2. CASE UNCHANGED holders /\ Using(w)' /\ Using(w) /\ worker'[w].job = worker[w].job
      BY <2>0, <2>2 DEF Source
    <2>3. CASE holders' = Unlocked(w) /\ ~Using(w)'
      BY <2>3 DEF Unlocked
    <2>4. CASE /\ holders' = [holders EXCEPT ![Source(w)] = @ \cup {w}]
               /\ Using(w)' /\ ~Using(w) /\ worker'[w].job = worker[w].job
      BY <2>0, <2>4, <1>3, <1>4 DEF Source
    <2> QED BY <1>1, <2>1, <2>2, <2>3, <2>4 DEF MovesLock
  <1>6. \A v \in Workers \ {w}, s \in Sources : v \in holders'[s] <=> v \in holders[s]
    BY <1>1, <1>3, <1>4 DEF MovesLock, Unlocked
  <1>7. LocksAreInUse'
    <2> SUFFICES ASSUME NEW v \in Workers, NEW s \in Sources
                 PROVE  v \in holders'[s] <=> Using(v)' /\ SourceOf[worker'[v].job] = s
      BY DEF LocksAreInUse, Using, Source
    <2>1. CASE v = w
      BY <1>5, <2>1
    <2>2. CASE v # w
      <3>1. v \in holders[s] <=> Using(v) /\ Source(v) = s
        BY <1>0 DEF LocksAreInUse, Using
      <3>2. worker'[v] = worker[v] /\ (v \in holders'[s] <=> v \in holders[s])
        BY <1>2, <1>6, <2>2
      <3>3. Using(v)' <=> Using(v)
        BY <3>2 DEF Using, InTransaction
      <3> QED BY <3>1, <3>2, <3>3 DEF Source
    <2> QED BY <2>1, <2>2
  <1>8. SessionsApart'
    <2> SUFFICES ASSUME ~pooled
                 PROVE  /\ \A s \in Sources : \A u, v \in holders'[s] : u = v
                        /\ \A v \in Workers : ~worker'[v].retried
      BY <1>1 DEF SessionsApart, OwnStep
    <2>1. \A s \in Sources : \A u, v \in holders'[s] : u = v
      <3>1. CASE holders' = holders \/ holders' = Unlocked(w)
        BY <1>0, <3>1 DEF SessionsApart, Unlocked
      <3>2. CASE /\ holders' = [holders EXCEPT ![Source(w)] = @ \cup {w}]
                 /\ holders[Source(w)] = {}
        BY <1>0, <1>3, <1>4, <3>2 DEF SessionsApart
      <3> QED BY <1>1, <3>1, <3>2 DEF MovesLock
    <2>2. ~worker'[w].retried
      <3>1. worker[w].pc = "linking" => ~InsertRefused(w)
        BY NothingIsRefused DEF InTransaction
      <3> QED BY <1>0, <1>1, <3>1 DEF MovesLock, SessionsApart
    <2> QED BY <1>0, <1>2, <2>1, <2>2 DEF SessionsApart
  <1>9. SnapshotsAreCurrent'
    <2> SUFFICES ASSUME ~pooled, NEW v \in Workers, InTransaction(v)',
                        NEW f \in facts', f.source = SourceOf[worker'[v].job]
                 PROVE  f \in worker'[v].tx.facts
      BY <1>1 DEF SnapshotsAreCurrent, OwnStep, Source
    <2>1. CASE v = w
      <3>1. CASE BeginPublication(w)
        <4>1. UNCHANGED facts /\ worker'[w].tx.facts = facts
          BY <1>0, <3>1, BeginPublicationEffect DEF NoTx
        <4> QED BY <2>1, <4>1
      <3>2. CASE ValidateChunk(w) \/ LinkChunk(w)
        <4>1. /\ UNCHANGED facts /\ worker'[w].job = worker[w].job /\ InTransaction(w)
          BY <1>0, <3>2, ValidateChunkEffect, LinkChunkEffect DEF SameClaim, InTransaction
        <4>2. worker'[w].tx.facts = worker[w].tx.facts
          <5>1. CASE ValidateChunk(w)
            <6>1. PICK more : worker'[w].tx = [worker[w].tx EXCEPT !.issues = @ \cup more]
              BY <1>0, <5>1, ValidateChunkEffect
            <6> QED BY <1>0, <6>1 DEF TypeOK, NoTx
          <5>2. CASE LinkChunk(w)
            <6>1. worker'[w].tx = [worker[w].tx EXCEPT !.inserted = @ \cup NewFacts(w),
                                                       !.linked = @ \cup NewLinks(w)]
              BY <1>0, <5>2, LinkChunkEffect
            <6> QED BY <1>0, <6>1 DEF TypeOK, NoTx
          <5> QED BY <3>2, <5>1, <5>2
        <4> QED BY <1>0, <2>1, <4>1, <4>2 DEF SnapshotsAreCurrent, Source
      <3>3. CASE ~(BeginPublication(w) \/ ValidateChunk(w) \/ LinkChunk(w))
        <4>1. ~InTransaction(w)'
          <5>1. CASE \/ StageChunk(w) \/ StageRest(w) \/ AcquireSourceLock(w)
                     \/ UniqueViolation(w) \/ FinishInvalid(w) \/ FinishPublished(w)
                     \/ RetryableError(w)
            <6>1. worker'[w].pc \in {"staging", "staged", "locked", "retrying", "unlocking"}
              BY ZenonT(60), <1>0, <5>1, StageChunkEffect, StageRestEffect, AcquireSourceLockEffect,
                 UniqueViolationEffect, FinishInvalidEffect, FinishPublishedEffect,
                 RetryableErrorEffect
            <6> QED BY <6>1 DEF InTransaction
          <5>2. CASE \/ RejectFile(w) \/ ScheduleRetry(w) \/ UnlockSource(w)
                     \/ ClaimLost(w) \/ Crash(w)
            <6>1. worker'[w] = Idle
              BY <1>0, <5>2, RejectFileEffect, ScheduleRetryEffect, EndOfWorkEffect
              DEF DropsClaim
            <6> QED BY <6>1 DEF InTransaction, Idle
          <5> QED BY <3>3, <5>1, <5>2 DEF StagingStep, PublicationStep, FailureStep
        <4> QED BY <2>1, <4>1
      <3> QED BY <3>1, <3>2, <3>3
    <2>2. CASE v # w
      <3>1. worker'[v] = worker[v] /\ InTransaction(v) /\ Source(v) = f.source
        BY <1>2, <2>2 DEF InTransaction, Source
      <3>2. CASE f \in facts
        BY <1>0, <3>1, <3>2 DEF SnapshotsAreCurrent
      <3>3. CASE f \notin facts
        <4>1. f \in worker[w].tx.inserted
          BY <3>3
          DEF StagingStep, StageChunk, StageRest, RejectFile, PublicationStep,
              AcquireSourceLock, BeginPublication, ValidateChunk, FinishInvalid, LinkChunk,
              UniqueViolation, FinishPublished, UnlockSource, FailureStep, RetryableError,
              ScheduleRetry, ClaimLost, Crash
        <4>2. InTransaction(w) /\ f.source = Source(w)
          BY <4>1 DEF TransactionsBelong, Belongs, NoTx
        <4>3. v \in holders[f.source] /\ w \in holders[f.source] /\ f.source \in Sources
          BY <1>0, <3>1, <4>2, UsersHold DEF Using
        <4> QED BY <1>0, <2>2, <4>3 DEF SessionsApart
      <3> QED BY <3>2, <3>3
    <2> QED BY <2>1, <2>2
  <1> QED BY <1>7, <1>8, <1>9 DEF Locks

LEMMA LocksStep == Claims /\ TransactionsBelong /\ Locks /\ [Next]_vars => Locks'
  <1> SUFFICES ASSUME Claims, TransactionsBelong, Locks, [Next]_vars
               PROVE  Locks'
    OBVIOUS
  <1>0. TypeOK /\ LocksAreInUse /\ SessionsApart /\ SnapshotsAreCurrent
    BY DEF Claims, Locks
  <1>1. CASE \E j \in Jobs : QueueStep(j)
    <2>1. PICK j \in Jobs : QueueStep(j)
      BY <1>1
    <2>2. CASE MarkExhausted(j) \/ RequeueJob(j)
      <3>1. UNCHANGED <<pooled, facts, holders, worker>>
        BY <1>0, <2>2, OperatorEffect DEF OperatorStep
      <3> QED
        BY <3>1 DEF Locks, LocksAreInUse, SessionsApart, SnapshotsAreCurrent,
           InTransaction, Source
    <2>3. ASSUME NEW w \in Workers, Claim(w, j) PROVE Locks'
      <3>1. /\ OwnStep(w) /\ UNCHANGED <<facts, holders>> /\ worker[w].pc = "idle"
            /\ worker'[w] = [Idle EXCEPT !.pc = "staging", !.job = j,
                                         !.attempt = job[j].attempt + 1]
        BY <1>0, <2>3, ClaimEffect DEF Busy
      <3>2. /\ \A v \in Workers : v # w => worker'[v] = worker[v]
            /\ UNCHANGED <<pooled, facts, holders>>
            /\ worker'[w].pc = "staging" /\ worker'[w].retried = FALSE
        BY <3>1 DEF OwnStep, Idle
      <3>3. LocksAreInUse'
        <4> SUFFICES ASSUME NEW v \in Workers, NEW s \in Sources
                     PROVE  v \in holders[s] <=> Using(v)' /\ SourceOf[worker'[v].job] = s
          BY <3>2 DEF LocksAreInUse, Using, Source
        <4>1. v \in holders[s] <=> Using(v) /\ Source(v) = s
          BY <1>0 DEF LocksAreInUse, Using
        <4>2. CASE v = w
          BY <3>1, <3>2, <4>1, <4>2 DEF Using, InTransaction
        <4>3. CASE v # w
          BY <3>2, <4>1, <4>3 DEF Using, InTransaction, Source
        <4> QED BY <4>2, <4>3
      <3>4. SessionsApart'
        BY <1>0, <3>2 DEF SessionsApart
      <3>5. SnapshotsAreCurrent'
        BY <1>0, <3>2 DEF SnapshotsAreCurrent, InTransaction, Source
      <3> QED BY <3>3, <3>4, <3>5 DEF Locks
    <2> QED BY <2>1, <2>2, <2>3 DEF QueueStep
  <1>2. CASE \E w \in Workers : StagingStep(w) \/ PublicationStep(w) \/ FailureStep(w)
    BY <1>2, LocksByWorker
  <1>3. CASE (\E r \in Refs : EditMasterData(r)) \/ UNCHANGED vars
    <2>1. UNCHANGED <<pooled, facts, holders, worker>>
      BY <1>3 DEF EditMasterData, vars
    <2> QED
      BY <2>1 DEF Locks, LocksAreInUse, SessionsApart, SnapshotsAreCurrent,
         InTransaction, Source
  <1> QED BY <1>1, <1>2, <1>3 DEF Next

-----------------------------------------------------------------------------
(***************************************************************************)
(* The staged rows.                                                        *)
(***************************************************************************)

\* Attempts are numbered upwards.
AttemptsGrow ==
    \A j \in Jobs : job[j].attempt \in Nat /\ job'[j].attempt \in Nat
                    /\ job[j].attempt <= job'[j].attempt

LEMMA AttemptsNeverFall == Claims /\ [Next]_vars => AttemptsGrow /\ UNCHANGED file
  <1> SUFFICES ASSUME Claims, [Next]_vars PROVE AttemptsGrow /\ UNCHANGED file
    OBVIOUS
  <1>0. TypeOK /\ ClaimsAreKnown /\ TypeOK'
    BY ClaimsStep DEF Claims
  <1>1. \A j \in Jobs : job[j].attempt \in Nat /\ job'[j].attempt \in Nat
    BY <1>0 DEF TypeOK
  <1>2. CASE \E j \in Jobs : QueueStep(j)
    <2>1. PICK j \in Jobs : QueueStep(j)
      BY <1>2
    <2>2. CASE MarkExhausted(j) \/ RequeueJob(j)
      BY <1>0, <1>1, <2>2, OperatorEffect DEF OperatorStep, AttemptsGrow
    <2>3. CASE \E w \in Workers : Claim(w, j)
      <3>1. PICK w \in Workers : Claim(w, j)
        BY <2>3
      <3>2. /\ OwnStep(w) /\ \A i \in Jobs \ {j} : job'[i] = job[i]
            /\ job'[j].attempt = job[j].attempt + 1
        BY <1>0, <3>1, ClaimEffect
      <3> QED BY <1>1, <3>2 DEF AttemptsGrow, OwnStep
    <2> QED BY <2>1, <2>2, <2>3 DEF QueueStep
  <1>3. CASE \E w \in Workers : StagingStep(w) \/ PublicationStep(w) \/ FailureStep(w)
    <2>1. PICK w \in Workers : Advances(w)
      BY <1>0, <1>3, WorkerAdvances
    <2> QED
      BY <1>0, <1>1, <2>1 DEF Advances, SameJobs, AttemptsGrow, SameClaim, DropsClaim, OwnStep
  <1>4. CASE (\E r \in Refs : EditMasterData(r)) \/ UNCHANGED vars
    BY <1>1, <1>4 DEF EditMasterData, vars, AttemptsGrow
  <1> QED BY <1>2, <1>3, <1>4 DEF Next

\* Only a batch or a commit changes staged rows.
LEMMA StagedChanges ==
  ASSUME [Next]_vars
  PROVE  UNCHANGED staged \/ \E w \in Workers :
           StageChunk(w) \/ StageRest(w) \/ FinishPublished(w)
  <1>1. CASE \E j \in Jobs : QueueStep(j)
    BY <1>1 DEF QueueStep, MarkExhausted, RequeueJob, Claim
  <1>2. CASE \E w \in Workers : StagingStep(w) \/ PublicationStep(w) \/ FailureStep(w)
    <2>1. PICK w \in Workers : StagingStep(w) \/ PublicationStep(w) \/ FailureStep(w)
      BY <1>2
    <2>2. UNCHANGED staged \/ StageChunk(w) \/ StageRest(w) \/ FinishPublished(w)
      BY <2>1 DEF StagingStep, RejectFile, PublicationStep,
         AcquireSourceLock, BeginPublication, ValidateChunk, FinishInvalid, LinkChunk,
         UniqueViolation, UnlockSource, FailureStep, RetryableError,
         ScheduleRetry, ClaimLost, Crash
    <2> QED BY <2>2
  <1>3. CASE (\E r \in Refs : EditMasterData(r)) \/ UNCHANGED vars
    BY <1>3 DEF EditMasterData, vars
  <1> QED BY <1>1, <1>2, <1>3 DEF Next

\* What a batch stages is about the attempt of its worker.
LEMMA StagedRowsOf ==
  ASSUME Claims, NEW w \in Workers, Busy(w), NEW first \in Nat \ {0}, NEW last \in Nat,
         last <= Len(Rows(w)), NEW r \in StagedRows(w, first, last)
  PROVE  StagedRowKnown(r) /\ r.job = worker[w].job /\ r.attempt = worker[w].attempt
  <1>1. PICK n \in first..last :
          /\ Rows(w)[n].clean
          /\ r = [job |-> worker[w].job, attempt |-> worker[w].attempt, number |-> n,
                  outcome |-> "staged"]
    BY DEF StagedRows
  <1>2. worker[w].job \in Jobs /\ worker[w].attempt \in 1..job[worker[w].job].attempt
    BY DEF Claims, ClaimsAreKnown
  <1>3. n \in 1..Len(Rows(w))
    BY <1>2, RowsTyped DEF Claims
  <1> QED BY <1>1, <1>2, <1>3 DEF StagedRowKnown, Rows

\* A commit gives staged rows another outcome, and nothing else.
LEMMA LinkedRowsOf ==
  ASSUME NEW w \in Workers, NEW r \in LinkedRows(w),
         \A t \in staged : DOMAIN t = {"job", "attempt", "number", "outcome"}
  PROVE  \E t \in staged :
           /\ r.job = t.job /\ r.attempt = t.attempt /\ r.number = t.number
           /\ DOMAIN r = DOMAIN t
           /\ r = t \/ (t.job = worker[w].job /\ t.attempt = worker[w].attempt)
  <1> DEFINE chosen(t) == (CHOOSE l \in worker[w].tx.linked : l.number = t.number).outcome
  <1>1. PICK t \in staged :
          \/ r = t
          \/ /\ r = [t EXCEPT !.outcome = chosen(t)]
             /\ t.job = worker[w].job /\ t.attempt = worker[w].attempt
    BY DEF LinkedRows
  <1> HIDE DEF chosen
  <1>2. DOMAIN t = {"job", "attempt", "number", "outcome"}
    OBVIOUS
  <1> QED BY <1>1, <1>2

LEMMA StagedStart == Init => StagedRowsKnown
  BY DEF Init, StagedRowsKnown

LEMMA StagedKnownStep == Claims /\ StagedRowsKnown /\ [Next]_vars => StagedRowsKnown'
  <1> SUFFICES ASSUME Claims, StagedRowsKnown, [Next]_vars, NEW r \in staged'
               PROVE  StagedRowKnown(r)'
    BY DEF StagedRowsKnown, StagedRowKnown
  <1>0. /\ TypeOK /\ AttemptsGrow /\ UNCHANGED file
        /\ \A t \in staged : StagedRowKnown(t)
    BY AttemptsNeverFall DEF Claims, StagedRowsKnown, StagedRowKnown
  <1>1. ASSUME NEW t, StagedRowKnown(t), r.job = t.job, r.attempt = t.attempt,
               r.number = t.number, DOMAIN r = DOMAIN t
        PROVE  StagedRowKnown(r)'
    BY <1>0, <1>1 DEF StagedRowKnown, AttemptsGrow
  <1>2. CASE r \in staged
    BY <1>0, <1>1, <1>2
  <1>3. CASE \E w \in Workers : StageChunk(w)
    <2>1. PICK w \in Workers : StageChunk(w)
      BY <1>3
    <2>2. /\ staged' = staged \cup StagedRows(w, worker[w].next, worker[w].next + ChunkSize - 1)
          /\ worker[w].pc = "staging"
          /\ worker[w].next + ChunkSize - 1 <= Len(Rows(w))
      BY <1>0, <2>1, StageChunkEffect
    <2>3. worker[w].next \in Nat \ {0} /\ worker[w].next + ChunkSize - 1 \in Nat
      BY <1>0, PublicationAssumption DEF TypeOK
    <2> QED BY <1>1, <1>2, <2>2, <2>3, StagedRowsOf DEF Busy
  <1>4. CASE \E w \in Workers : StageRest(w)
    <2>1. PICK w \in Workers : StageRest(w)
      BY <1>4
    <2>2. /\ staged' = staged \cup StagedRows(w, worker[w].next, Len(Rows(w)))
          /\ worker[w].pc = "staging"
      BY <1>0, <2>1, StageRestEffect
    <2>3. worker[w].next \in Nat \ {0} /\ Len(Rows(w)) \in Nat
      BY <1>0, <2>2, RowsTyped DEF TypeOK, Claims, ClaimsAreKnown, Busy
    <2> QED BY <1>1, <1>2, <2>2, <2>3, StagedRowsOf DEF Busy
  <1>5. CASE \E w \in Workers : FinishPublished(w)
    <2>1. PICK w \in Workers : FinishPublished(w)
      BY <1>5
    <2>2. r \in LinkedRows(w)
      BY <1>0, <2>1, FinishPublishedEffect
    <2>3. PICK t \in staged : /\ r.job = t.job /\ r.attempt = t.attempt
                              /\ r.number = t.number /\ DOMAIN r = DOMAIN t
      BY <1>0, <2>2, LinkedRowsOf DEF StagedRowKnown
    <2> QED BY <1>0, <1>1, <2>3
  <1>6. CASE UNCHANGED staged
    BY <1>2, <1>6
  <1> QED BY <1>3, <1>4, <1>5, <1>6, StagedChanges

-----------------------------------------------------------------------------
(***************************************************************************)
(* The keys of facts.                                                      *)
(***************************************************************************)

Keys == InsertsApart /\ SourceRecordsUnique

\* What a step of w does to facts, committed or not.
MovesFacts(w) ==
    \/ /\ UNCHANGED facts
       /\ worker'[w].tx.inserted = worker[w].tx.inserted \/ worker'[w].tx.inserted = {}
    \/ /\ facts' = facts \cup worker[w].tx.inserted
       /\ worker'[w].tx.inserted = {}
    \/ /\ UNCHANGED facts
       /\ worker'[w].tx.inserted = worker[w].tx.inserted \cup NewFacts(w)
       /\ ~InsertWaits(w) /\ ~InsertRefused(w)

LEMMA FactMoves ==
  ASSUME TypeOK, NEW w \in Workers,
         StagingStep(w) \/ PublicationStep(w) \/ FailureStep(w)
  PROVE  MovesFacts(w)
  <1> USE DEF MovesFacts
  <1>1. CASE StageChunk(w) \/ StageRest(w) \/ AcquireSourceLock(w)
    <2>1. worker'[w].tx = worker[w].tx /\ UNCHANGED facts
      BY <1>1, StageChunkEffect, StageRestEffect, AcquireSourceLockEffect
    <2> QED BY <2>1
  <1>2. CASE RejectFile(w) \/ ScheduleRetry(w) \/ UnlockSource(w) \/ ClaimLost(w) \/ Crash(w)
    <2>1. DropsClaim(w) /\ UNCHANGED facts
      BY <1>2, RejectFileEffect, ScheduleRetryEffect, EndOfWorkEffect
    <2> QED BY <2>1 DEF DropsClaim, Idle, NoTx
  <1>3. CASE FinishInvalid(w) \/ UniqueViolation(w) \/ RetryableError(w)
    <2>1. worker'[w].tx = NoTx /\ UNCHANGED facts
      BY <1>3, FinishInvalidEffect, UniqueViolationEffect, RetryableErrorEffect
    <2> QED BY <2>1 DEF NoTx
  <1>4. CASE BeginPublication(w)
    <2>1. /\ UNCHANGED facts
          /\ worker'[w].tx = [NoTx EXCEPT !.facts = facts, !.missing = missing]
      BY <1>4, BeginPublicationEffect
    <2> QED BY <2>1 DEF NoTx
  <1>5. CASE ValidateChunk(w)
    <2>1. UNCHANGED facts /\ \E more : worker'[w].tx = [worker[w].tx EXCEPT !.issues = @ \cup more]
      BY <1>5, ValidateChunkEffect
    <2> QED BY <2>1 DEF TypeOK, NoTx
  <1>6. CASE LinkChunk(w)
    <2>1. /\ UNCHANGED facts /\ ~InsertWaits(w) /\ ~InsertRefused(w)
          /\ worker'[w].tx = [worker[w].tx EXCEPT !.inserted = @ \cup NewFacts(w),
                                                  !.linked = @ \cup NewLinks(w)]
      BY <1>6, LinkChunkEffect
    <2> QED BY <2>1 DEF TypeOK, NoTx
  <1>7. CASE FinishPublished(w)
    <2>1. facts' = facts \cup worker[w].tx.inserted /\ worker'[w].tx = NoTx
      BY <1>7, FinishPublishedEffect
    <2> QED BY <2>1 DEF NoTx
  <1> QED
    BY <1>1, <1>2, <1>3, <1>4, <1>5, <1>6, <1>7
    DEF StagingStep, PublicationStep, FailureStep

\* The rows a chunk is about satisfy the contract.
LEMMA ChunkRows ==
  ASSUME Claims, StagedRowsKnown, NEW w \in Workers, NEW n \in StagedNumbers(w)
  PROVE  n \in 1..Len(Rows(w)) /\ Rows(w)[n].clean /\ worker[w].job \in Jobs
  <1>1. PICK r \in staged : r.job = worker[w].job /\ r.number = n
    BY DEF StagedNumbers
  <1> QED BY <1>1 DEF StagedRowsKnown, StagedRowKnown, Rows

\* A chunk brings one fact for each key, and no key that is visible to it.
LEMMA NewFactsApart ==
  ASSUME Claims, StagedRowsKnown, NEW w \in Workers,
         NEW f \in NewFacts(w), NEW g, SameKey(f, g)
  PROVE  /\ g \in NewFacts(w) => f = g
         /\ g \notin VisibleFacts(w)
         /\ ~InsertRefused(w) => g \notin facts
         /\ ~InsertWaits(w) => \A v \in Workers \ {w} : g \notin worker[v].tx.inserted
  <1>0. TypeOK
    BY DEF Claims
  <1>1. PICK m \in NewNumbers(w) : f = FactOf(w, Rows(w)[m])
    BY DEF NewFacts
  <1>2. f.source = Source(w) /\ f.id = Rows(w)[m].id
    BY <1>1 DEF FactOf
  <1>3. \A S : g \in S => g \in FactsOf(w, Rows(w)[m], S)
    BY <1>2 DEF FactsOf, SameKey
  <1>4. g \in NewFacts(w) => f = g
    <2> SUFFICES ASSUME g \in NewFacts(w) PROVE f = g
      OBVIOUS
    <2>1. PICK n \in NewNumbers(w) : g = FactOf(w, Rows(w)[n])
      BY DEF NewFacts
    <2>2. Rows(w)[m].id = Rows(w)[n].id
      BY <1>2, <2>1 DEF FactOf, SameKey
    <2>3. m \in StagedNumbers(w) /\ n \in StagedNumbers(w)
      BY DEF NewNumbers, Chunk
    <2>4. m = n
      BY <1>0, <2>2, <2>3, ChunkRows, RowsTyped
    <2> QED BY <1>1, <2>1, <2>4
  <1>5. g \notin VisibleFacts(w)
    BY <1>3 DEF NewNumbers
  <1>6. ~InsertRefused(w) => g \notin facts
    BY <1>3 DEF InsertRefused
  <1>7. ~InsertWaits(w) => \A v \in Workers \ {w} : g \notin worker[v].tx.inserted
    BY <1>3 DEF InsertWaits
  <1> QED BY <1>4, <1>5, <1>6, <1>7

LEMMA KeysStart == Init => Keys
  BY DEF Init, Keys, InsertsApart, SourceRecordsUnique, Idle, NoTx

LEMMA SameKeySymmetric ==
  ASSUME NEW f, NEW g, SameKey(f, g)
  PROVE  SameKey(g, f)
  BY DEF SameKey

LEMMA KeysByWorker ==
  ASSUME Claims, StagedRowsKnown, Keys, NEW w \in Workers,
         StagingStep(w) \/ PublicationStep(w) \/ FailureStep(w)
  PROVE  Keys'
  <1>0. /\ TypeOK /\ ClaimsAreKnown /\ InsertsApart /\ SourceRecordsUnique
        /\ MovesFacts(w) /\ OwnStep(w)
    BY FactMoves, WorkerAdvances DEF Claims, Keys, Advances, DropsClaim, SameClaim
  <1>1. \A v \in Workers : v # w => worker'[v].tx.inserted = worker[v].tx.inserted
    BY <1>0 DEF OwnStep
  <1>2. CASE /\ UNCHANGED facts
             /\ worker'[w].tx.inserted = worker[w].tx.inserted
                \/ worker'[w].tx.inserted = {}
    <2>1. \A v \in Workers : worker'[v].tx.inserted \subseteq worker[v].tx.inserted
      BY <1>1, <1>2
    <2> QED BY <1>0, <1>2, <2>1 DEF Keys, InsertsApart, SourceRecordsUnique
  <1>3. CASE /\ facts' = facts \cup worker[w].tx.inserted
             /\ worker'[w].tx.inserted = {}
    <2>1. \A v \in Workers : worker'[v].tx.inserted \subseteq worker[v].tx.inserted
      BY <1>1, <1>3
    <2>2. InsertsApart'
      <3>1. \A u, v \in Workers :
              \A f \in worker'[u].tx.inserted, g \in worker'[v].tx.inserted :
                SameKey(f, g) => u = v /\ f = g
        BY <1>0, <2>1 DEF InsertsApart
      <3>2. ASSUME NEW v \in Workers, NEW f \in worker'[v].tx.inserted, NEW g \in facts'
            PROVE  ~SameKey(f, g)
        <4>1. v # w /\ f \in worker[v].tx.inserted
          BY <1>3, <2>1, <3>2
        <4> QED BY <1>0, <1>3, <4>1 DEF InsertsApart
      <3> QED BY <3>1, <3>2 DEF InsertsApart
    <2>3. SourceRecordsUnique'
      <3> SUFFICES ASSUME NEW f \in facts', NEW g \in facts', SameKey(f, g)
                   PROVE  f = g
        BY DEF SourceRecordsUnique, SameKey
      <3>1. CASE f \in facts /\ g \in facts
        BY <1>0, <3>1 DEF SourceRecordsUnique, SameKey
      <3>2. CASE f \in worker[w].tx.inserted
        BY <1>0, <1>3, <3>2 DEF InsertsApart
      <3>3. CASE g \in worker[w].tx.inserted
        BY <1>0, <1>3, <3>3, SameKeySymmetric DEF InsertsApart
      <3> QED BY <1>3, <3>1, <3>2, <3>3
    <2> QED BY <2>2, <2>3 DEF Keys
  <1>4. CASE /\ UNCHANGED facts
             /\ worker'[w].tx.inserted = worker[w].tx.inserted \cup NewFacts(w)
             /\ ~InsertWaits(w) /\ ~InsertRefused(w)
    <2>1. ASSUME NEW f \in NewFacts(w), NEW g, SameKey(f, g)
          PROVE  /\ g \in NewFacts(w) => f = g
                 /\ g \notin facts
                 /\ \A v \in Workers : g \notin worker[v].tx.inserted
      <3>1. g \notin worker[w].tx.inserted
        BY <2>1, NewFactsApart DEF VisibleFacts
      <3> QED BY <1>4, <2>1, <3>1, NewFactsApart
    <2>2. ASSUME NEW u \in Workers, NEW v \in Workers, NEW f \in worker'[u].tx.inserted,
                 NEW g \in worker'[v].tx.inserted, SameKey(f, g)
          PROVE  u = v /\ f = g
      <3>1. f \in worker[u].tx.inserted \/ (u = w /\ f \in NewFacts(w))
        BY <1>1, <1>4
      <3>2. g \in worker[v].tx.inserted \/ (v = w /\ g \in NewFacts(w))
        BY <1>1, <1>4
      <3>3. CASE f \in NewFacts(w) /\ u = w
        BY <2>1, <2>2, <3>2, <3>3
      <3>4. CASE g \in NewFacts(w) /\ v = w
        BY <2>1, <2>2, <3>1, <3>4, SameKeySymmetric
      <3>5. CASE f \in worker[u].tx.inserted /\ g \in worker[v].tx.inserted
        BY <1>0, <2>2, <3>5 DEF InsertsApart
      <3> QED BY <3>1, <3>2, <3>3, <3>4, <3>5
    <2>3. ASSUME NEW v \in Workers, NEW f \in worker'[v].tx.inserted, NEW g \in facts
          PROVE  ~SameKey(f, g)
      <3>1. f \in worker[v].tx.inserted \/ f \in NewFacts(w)
        BY <1>1, <1>4
      <3> QED BY <1>0, <2>1, <2>3, <3>1 DEF InsertsApart
    <2>4. InsertsApart'
      BY <1>4, <2>2, <2>3 DEF InsertsApart, SameKey
    <2> QED BY <1>0, <1>4, <2>4 DEF Keys, SourceRecordsUnique
  <1> QED BY <1>0, <1>2, <1>3, <1>4 DEF MovesFacts

LEMMA KeysStep == Claims /\ StagedRowsKnown /\ Keys /\ [Next]_vars => Keys'
  <1> SUFFICES ASSUME Claims, StagedRowsKnown, Keys, [Next]_vars PROVE Keys'
    OBVIOUS
  <1>0. TypeOK /\ InsertsApart /\ SourceRecordsUnique
    BY DEF Claims, Keys
  <1>1. CASE \E j \in Jobs : QueueStep(j)
    <2>1. PICK j \in Jobs : QueueStep(j)
      BY <1>1
    <2>2. CASE MarkExhausted(j) \/ RequeueJob(j)
      <3>1. UNCHANGED <<facts, worker>>
        BY <1>0, <2>2, OperatorEffect DEF OperatorStep
      <3> QED BY <1>0, <3>1 DEF Keys, InsertsApart, SourceRecordsUnique
    <2>3. ASSUME NEW w \in Workers, Claim(w, j) PROVE Keys'
      <3>1. /\ OwnStep(w) /\ UNCHANGED facts
            /\ worker'[w] = [Idle EXCEPT !.pc = "staging", !.job = j,
                                         !.attempt = job[j].attempt + 1]
        BY <1>0, <2>3, ClaimEffect
      <3>2. worker'[w].tx.inserted = {}
        BY <3>1 DEF Idle, NoTx
      <3>3. \A v \in Workers : worker'[v].tx.inserted \subseteq worker[v].tx.inserted
        BY <3>1, <3>2 DEF OwnStep
      <3> QED BY <1>0, <3>1, <3>3 DEF Keys, InsertsApart, SourceRecordsUnique
    <2> QED BY <2>1, <2>2, <2>3 DEF QueueStep
  <1>2. CASE \E w \in Workers : StagingStep(w) \/ PublicationStep(w) \/ FailureStep(w)
    BY <1>2, KeysByWorker
  <1>3. CASE (\E r \in Refs : EditMasterData(r)) \/ UNCHANGED vars
    <2>1. UNCHANGED <<facts, worker>>
      BY <1>3 DEF EditMasterData, vars
    <2> QED BY <1>0, <2>1 DEF Keys, InsertsApart, SourceRecordsUnique
  <1> QED BY <1>1, <1>2, <1>3 DEF Next

-----------------------------------------------------------------------------
(***************************************************************************)
(* How far staging has come.                                               *)
(***************************************************************************)

LEMMA LinkedRowsKeep ==
  ASSUME NEW w \in Workers, NEW t \in staged,
         DOMAIN t = {"job", "attempt", "number", "outcome"}
  PROVE  \E r \in LinkedRows(w) :
           r.job = t.job /\ r.attempt = t.attempt /\ r.number = t.number
  <1> DEFINE chosen(u) == (CHOOSE l \in worker[w].tx.linked : l.number = u.number).outcome
             linked(u) == /\ u.job = worker[w].job
                          /\ u.attempt = worker[w].attempt
                          /\ \E l \in worker[w].tx.linked : l.number = u.number
             r         == IF linked(t) THEN [t EXCEPT !.outcome = chosen(t)] ELSE t
  <1>1. r \in LinkedRows(w)
    BY DEF LinkedRows
  <1> HIDE DEF chosen, linked
  <1>2. r.job = t.job /\ r.attempt = t.attempt /\ r.number = t.number
    OBVIOUS
  <1> HIDE DEF r
  <1> QED BY <1>1, <1>2

\* The rows of an attempt are staged by its worker, and by no one else.
LEMMA NumbersKept ==
  ASSUME Claims, StagedRowsKnown, [Next]_vars, NEW v \in Workers, Busy(v),
         worker'[v].job = worker[v].job, worker'[v].attempt = worker[v].attempt,
         ~StageChunk(v), ~StageRest(v)
  PROVE  StagedNumbers(v)' = StagedNumbers(v) /\ Rows(v)' = Rows(v)
  <1>0. TypeOK /\ ClaimsAreKnown /\ ClaimsAreApart /\ UNCHANGED file
    BY AttemptsNeverFall DEF Claims
  <1>1. Rows(v)' = Rows(v)
    BY <1>0 DEF Rows
  <1> DEFINE Mine(r) == r.job = worker[v].job /\ r.attempt = worker[v].attempt
  <1>2. /\ StagedNumbers(v) = {r.number : r \in {t \in staged : Mine(t)}}
        /\ StagedNumbers(v)' = {r.number : r \in {t \in staged' : Mine(t)}}
    BY DEF StagedNumbers
  <1>3. ASSUME NEW w \in Workers \ {v}, Busy(w), NEW first, NEW last,
               staged' = staged \cup StagedRows(w, first, last)
        PROVE  {t \in staged' : Mine(t)} = {t \in staged : Mine(t)}
    <2>1. \A r \in StagedRows(w, first, last) :
            r.job = worker[w].job /\ r.attempt = worker[w].attempt
      BY DEF StagedRows
    <2>2. \A r \in StagedRows(w, first, last) : ~Mine(r)
      BY <1>0, <1>3, <2>1 DEF ClaimsAreApart
    <2> HIDE DEF Mine
    <2> QED BY <1>3, <2>2
  <1>4. CASE \E w \in Workers : StageChunk(w)
    <2>1. PICK w \in Workers : StageChunk(w)
      BY <1>4
    <2>2. w # v /\ Busy(w)
          /\ \E first, last : staged' = staged \cup StagedRows(w, first, last)
      BY <1>0, <2>1, StageChunkEffect DEF Busy
    <2> QED BY <1>1, <1>2, <1>3, <2>2
  <1>5. CASE \E w \in Workers : StageRest(w)
    <2>1. PICK w \in Workers : StageRest(w)
      BY <1>5
    <2>2. w # v /\ Busy(w)
          /\ \E first, last : staged' = staged \cup StagedRows(w, first, last)
      BY <1>0, <2>1, StageRestEffect DEF Busy
    <2> QED BY <1>1, <1>2, <1>3, <2>2
  <1>6. CASE \E w \in Workers : FinishPublished(w)
    <2>1. PICK w \in Workers : FinishPublished(w)
      BY <1>6
    <2>2. staged' = LinkedRows(w)
      BY <1>0, <2>1, FinishPublishedEffect
    <2>3. \A t \in staged : DOMAIN t = {"job", "attempt", "number", "outcome"}
      BY DEF StagedRowsKnown, StagedRowKnown
    <2>4. \A r \in staged' : \E t \in staged :
            r.number = t.number /\ (Mine(r) => Mine(t))
      BY <2>2, <2>3, LinkedRowsOf
    <2>5. \A t \in staged : \E r \in staged' :
            r.number = t.number /\ (Mine(t) => Mine(r))
      BY <2>2, <2>3, LinkedRowsKeep
    <2> HIDE DEF Mine
    <2>6. {r.number : r \in {t \in staged : Mine(t)}}
            = {r.number : r \in {t \in staged' : Mine(t)}}
      BY <2>4, <2>5
    <2> QED BY <1>1, <1>2, <2>6
  <1>7. CASE UNCHANGED staged
    BY <1>1, <1>2, <1>7
  <1> QED BY <1>4, <1>5, <1>6, <1>7, StagedChanges

LEMMA StagingStart == Init => StagingProgress
  BY DEF Init, StagingProgress, HasStaged, Idle, InTransaction

\* What is known stays known as long as the worker stays where it is.
LEMMA StagingKept ==
  ASSUME NEW v \in Workers, HasStaged(v),
         StagedNumbers(v)' = StagedNumbers(v), Rows(v)' = Rows(v),
         worker'[v].next = worker[v].next,
         worker'[v].collector.total = worker[v].collector.total,
         worker'[v].pc = worker[v].pc
  PROVE  HasStaged(v)'
  BY DEF HasStaged, CleanNumbers, AllClean, InTransaction

\* From the lock to the end of the transaction the file stays the same.
LEMMA StagingHeld ==
  ASSUME NEW v \in Workers, HasStaged(v),
         StagedNumbers(v)' = StagedNumbers(v), Rows(v)' = Rows(v),
         worker[v].pc = "locked" \/ InTransaction(v),
         worker'[v].pc \notin {"staging", "staged"}
  PROVE  HasStaged(v)'
  <1>1. StagedNumbers(v)' = 1..Len(Rows(v))' /\ AllClean(v, Len(Rows(v)))'
    BY DEF HasStaged, AllClean
  <1> QED BY <1>1 DEF HasStaged

LEMMA StagingNone ==
  ASSUME NEW v \in Workers,
         worker'[v].pc \in {"idle", "retrying", "unlocking"}
  PROVE  HasStaged(v)'
  BY DEF HasStaged, InTransaction

\* No issue is found exactly if every row satisfies the contract.
LEMMA NoContractIssues ==
  ASSUME NEW w, NEW first \in Nat, NEW last \in Nat
  PROVE  \E n, S :
           /\ n \in Nat
           /\ ContractIssues(w, first, last) \in Seq(S)
           /\ Len(ContractIssues(w, first, last)) = n
           /\ n = 0 <=> \A m \in first..last : Rows(w)[m].clean
  <1> DEFINE codes == [k \in 1..(last + 1 - first) |->
                         IF Rows(w)[first + k - 1].clean THEN "" ELSE "CONTRACT"]
  <1>1. codes = [k \in 1..(last + 1 - first) |-> codes[k]]
    OBVIOUS
  <1>2. \A k \in 1..(last + 1 - first) : codes[k] = "" <=> Rows(w)[first + k - 1].clean
    OBVIOUS
  <1>3. ContractIssues(w, first, last) = IssuesOf(first, codes)
    BY DEF ContractIssues
  <1> HIDE DEF codes
  <1>4. Len(codes) \in Nat /\ 1..Len(codes) = 1..(last + 1 - first)
    BY <1>1, TableLength
  <1>5. (\A k \in 1..Len(codes) : codes[k] = "") <=> \A m \in first..last : Rows(w)[m].clean
    <2>1. ASSUME \A k \in 1..(last + 1 - first) : codes[k] = "", NEW m \in first..last
          PROVE  Rows(w)[m].clean
      <3>1. m + 1 - first \in 1..(last + 1 - first) /\ first + (m + 1 - first) - 1 = m
        OBVIOUS
      <3> QED BY <1>2, <2>1, <3>1
    <2>2. ASSUME \A m \in first..last : Rows(w)[m].clean, NEW k \in 1..(last + 1 - first)
          PROVE  codes[k] = ""
      <3>1. first + k - 1 \in first..last
        OBVIOUS
      <3> QED BY <1>2, <2>2, <3>1
    <2> QED BY <1>4, <2>1, <2>2
  <1> QED BY <1>3, <1>4, <1>5, IssuesOfLength

LEMMA NumbersGrow ==
  ASSUME NEW w \in Workers, NEW first, NEW last,
         staged' = staged \cup StagedRows(w, first, last),
         worker'[w].job = worker[w].job, worker'[w].attempt = worker[w].attempt
  PROVE  StagedNumbers(w)' = StagedNumbers(w) \cup {n \in first..last : Rows(w)[n].clean}
  <1> DEFINE Mine(r) == r.job = worker[w].job /\ r.attempt = worker[w].attempt
             row(n)  == [job |-> worker[w].job, attempt |-> worker[w].attempt,
                         number |-> n, outcome |-> "staged"]
             clean   == {n \in first..last : Rows(w)[n].clean}
  <1>1. /\ StagedNumbers(w) = {r.number : r \in {t \in staged : Mine(t)}}
        /\ StagedNumbers(w)' = {r.number : r \in {t \in staged' : Mine(t)}}
    BY DEF StagedNumbers
  <1>2. StagedRows(w, first, last) = {row(n) : n \in clean}
    BY DEF StagedRows
  <1>3. \A n : Mine(row(n)) /\ row(n).number = n
    OBVIOUS
  <1> HIDE DEF Mine, row, clean
  <1>4. {t \in staged' : Mine(t)} = {t \in staged : Mine(t)} \cup {row(n) : n \in clean}
    BY <1>2, <1>3
  <1>5. {r.number : r \in {row(n) : n \in clean}} = clean
    BY <1>3
  <1>6. StagedNumbers(w)' = StagedNumbers(w) \cup {r.number : r \in {row(n) : n \in clean}}
    BY <1>1, <1>4
  <1> QED BY <1>5, <1>6 DEF clean

\* Both kinds of batch: the rows from first to last are staged, unless they
\* violate the contract, which is then counted.
LEMMA BatchStaged ==
  ASSUME Claims, NEW w \in Workers, HasStaged(w), worker[w].pc = "staging",
         UNCHANGED file,
         worker'[w].job = worker[w].job, worker'[w].attempt = worker[w].attempt,
         NEW last \in Nat, worker[w].next <= last + 1,
         staged' = staged \cup StagedRows(w, worker[w].next, last),
         NEW error, error = <<>> \/ error = <<FileIssue("FILE")>>,
         worker'[w].collector =
             Drained(Added(worker[w].collector,
                           ContractIssues(w, worker[w].next, last) \o error))
  PROVE  /\ StagedNumbers(w)' = CleanNumbers(w, last)'
         /\ worker'[w].collector.total = 0 => AllClean(w, last)'
  <1> DEFINE first == worker[w].next
             found == ContractIssues(w, first, last)
  <1>1. /\ first \in Nat \ {0} /\ CollectorShape(worker[w].collector)
        /\ worker[w].collector.pending = {}
    BY DEF Claims, TypeOK
  <1>2. Rows(w)' = Rows(w)
    BY DEF Rows
  <1>3. PICK n, S : /\ n \in Nat /\ found \in Seq(S) /\ Len(found) = n
                    /\ n = 0 <=> \A m \in first..last : Rows(w)[m].clean
    BY <1>1, NoContractIssues
  <1>4. /\ StagedNumbers(w) = CleanNumbers(w, first - 1)
        /\ worker[w].collector.total = 0 => AllClean(w, first - 1)
    BY DEF HasStaged
  <1>5. 1..last = (1..(first - 1)) \cup (first..last)
    BY <1>1
  <1>6. StagedNumbers(w)' = CleanNumbers(w, last)'
    <2>1. StagedNumbers(w)' = StagedNumbers(w) \cup {m \in first..last : Rows(w)[m].clean}
      BY NumbersGrow
    <2>2. CleanNumbers(w, last)' = {m \in 1..last : Rows(w)[m].clean}
      BY <1>2 DEF CleanNumbers
    <2> HIDE DEF first, found
    <2> QED BY <1>4, <1>5, <2>1, <2>2 DEF CleanNumbers
  <1>7. worker'[w].collector.total = 0 => AllClean(w, last)'
    <2> DEFINE T == S \cup {FileIssue("FILE")}
               all == found \o error
    <2>1. all \in Seq(T) /\ Len(all) = n + Len(error) /\ Len(error) \in Nat
      <3>1. found \in Seq(T)
        BY <1>3
      <3>2. error \in Seq(T) /\ Len(error) \in Nat
        <4>1. <<>> \in Seq(T) /\ Len(<<>>) \in Nat
          OBVIOUS
        <4>2. <<FileIssue("FILE")>> \in Seq(T) /\ Len(<<FileIssue("FILE")>>) \in Nat
          OBVIOUS
        <4> QED BY <4>1, <4>2
      <3> HIDE DEF found, T
      <3> QED BY SMTT(30), <1>3, <3>1, <3>2
    <2>2. /\ worker'[w].collector.total = Added(worker[w].collector, all).total
          /\ Added(worker[w].collector, all).total = 0
               <=> worker[w].collector.total = 0 /\ Len(all) = 0
      <3> HIDE DEF all
      <3>1. Len(all) \in Nat
        BY <2>1
      <3>2. worker'[w].collector = Drained(Added(worker[w].collector, all))
        BY DEF all
      <3> QED BY <1>1, <3>1, <3>2, AddedTotal
    <2>3. worker'[w].collector.total = 0 => worker[w].collector.total = 0 /\ n = 0
      <3> HIDE DEF all
      <3> QED BY <1>3, <2>1, <2>2
    <2> HIDE DEF first, found
    <2> QED BY <1>2, <1>3, <1>4, <1>5, <2>3 DEF AllClean
  <1> QED BY <1>6, <1>7

LEMMA StagingByWorker ==
  ASSUME Claims, StagedRowsKnown, [Next]_vars, NEW w \in Workers, HasStaged(w),
         StagingStep(w) \/ PublicationStep(w) \/ FailureStep(w)
  PROVE  HasStaged(w)'
  <1>0. /\ TypeOK /\ ClaimsAreKnown /\ Busy(w) /\ UNCHANGED file
        /\ worker[w].job \in Jobs
    BY WorkerAdvances, AttemptsNeverFall DEF Claims, Advances, ClaimsAreKnown
  <1>00. Len(Rows(w)) \in Nat /\ worker[w].next \in Nat \ {0}
    BY <1>0, RowsTyped DEF TypeOK
  <1>1. CASE StageChunk(w)
    <2> DEFINE last == worker[w].next + ChunkSize - 1
    <2>1. /\ worker'[w].job = worker[w].job /\ worker'[w].attempt = worker[w].attempt
          /\ staged' = staged \cup StagedRows(w, worker[w].next, last)
          /\ worker[w].pc = "staging" /\ worker'[w].pc = "staging"
          /\ worker'[w].next = last + 1
          /\ last <= Len(Rows(w))
          /\ worker'[w].collector =
               Drained(Added(worker[w].collector,
                             ContractIssues(w, worker[w].next, last)))
      BY <1>0, <1>1, StageChunkEffect DEF SameClaim
    <2>2. last \in Nat /\ worker[w].next <= last + 1
      BY <1>00, PublicationAssumption
    <2> HIDE DEF last
    <2>3. ContractIssues(w, worker[w].next, last) \o <<>> = ContractIssues(w, worker[w].next, last)
      <3>1. PICK n, S : ContractIssues(w, worker[w].next, last) \in Seq(S)
        BY <1>00, <2>2, NoContractIssues
      <3> QED BY <3>1
    <2>0. PICK n \in Nat : n = last
      BY <2>2
    <2>4. /\ StagedNumbers(w)' = CleanNumbers(w, n)'
          /\ worker'[w].collector.total = 0 => AllClean(w, n)'
      BY <1>0, <2>1, <2>2, <2>3, <2>0, BatchStaged
    <2>5. /\ Rows(w)' = Rows(w) /\ worker'[w].next - 1 = n
          /\ worker'[w].next <= Len(Rows(w)) + 1
      BY <1>0, <1>00, <2>1, <2>2, <2>0 DEF Rows
    <2> QED
      BY <2>1, <2>4, <2>5 DEF HasStaged, CleanNumbers, AllClean, InTransaction
  <1>2. CASE StageRest(w)
    <2> DEFINE last  == Len(Rows(w))
               error == IF file[worker[w].job].broken THEN <<FileIssue("FILE")>> ELSE <<>>
    <2>1. /\ worker'[w].job = worker[w].job /\ worker'[w].attempt = worker[w].attempt
          /\ staged' = staged \cup StagedRows(w, worker[w].next, last)
          /\ worker[w].pc = "staging" /\ worker'[w].pc = "staged"
          /\ worker'[w].collector =
               Drained(Added(worker[w].collector,
                             ContractIssues(w, worker[w].next, last) \o error))
      BY <1>0, <1>2, StageRestEffect DEF SameClaim
    <2>2. last \in Nat /\ worker[w].next <= last + 1
      BY <1>00, <2>1 DEF HasStaged
    <2>3. error = <<>> \/ error = <<FileIssue("FILE")>>
      OBVIOUS
    <2>4. Rows(w)' = Rows(w)
      BY <1>0, <2>1 DEF Rows
    <2> HIDE DEF error
    <2>0. PICK n \in Nat : n = last
      BY <2>2
    <2> HIDE DEF last
    <2>5. /\ StagedNumbers(w)' = CleanNumbers(w, n)'
          /\ worker'[w].collector.total = 0 => AllClean(w, n)'
      BY <1>0, <2>1, <2>2, <2>3, <2>0, BatchStaged
    <2>6. n = Len(Rows(w)')
      BY <2>0, <2>4 DEF last
    <2> QED
      BY <2>1, <2>5, <2>6 DEF HasStaged, CleanNumbers, AllClean, InTransaction
  <1>3. CASE RejectFile(w) \/ ScheduleRetry(w) \/ UnlockSource(w) \/ ClaimLost(w) \/ Crash(w)
    <2>1. DropsClaim(w)
      BY <1>0, <1>3, RejectFileEffect, ScheduleRetryEffect, EndOfWorkEffect
    <2> QED BY <2>1, StagingNone DEF DropsClaim, Idle
  <1>4. CASE RetryableError(w) \/ FinishInvalid(w) \/ FinishPublished(w)
    <2>1. worker'[w].pc \in {"retrying", "unlocking"}
      BY <1>0, <1>4, RetryableErrorEffect, FinishInvalidEffect, FinishPublishedEffect
    <2> QED BY <2>1, StagingNone
  <1>5. CASE AcquireSourceLock(w)
    <2>1. /\ SameClaim(w) /\ worker[w].pc = "staged" /\ worker'[w].pc = "locked"
          /\ worker[w].collector.total = 0 /\ ~StageChunk(w) /\ ~StageRest(w)
      BY <1>0, <1>5, AcquireSourceLockEffect DEF StageChunk, StageRest, Fenced, At
    <2>2. StagedNumbers(w)' = StagedNumbers(w) /\ Rows(w)' = Rows(w)
      BY <1>0, <2>1, NumbersKept DEF SameClaim
    <2>3. StagedNumbers(w) = 1..Len(Rows(w)) /\ AllClean(w, Len(Rows(w)))
      BY <2>1 DEF HasStaged, CleanNumbers, AllClean
    <2> QED BY <2>1, <2>2, <2>3 DEF HasStaged, AllClean
  <1>6. CASE BeginPublication(w) \/ ValidateChunk(w) \/ LinkChunk(w) \/ UniqueViolation(w)
    <2>1. /\ SameClaim(w) /\ (worker[w].pc = "locked" \/ InTransaction(w))
          /\ worker'[w].pc \notin {"staging", "staged"}
      BY <1>0, <1>6, BeginPublicationEffect, ValidateChunkEffect, LinkChunkEffect,
         UniqueViolationEffect DEF InTransaction
    <2>2. ~StageChunk(w) /\ ~StageRest(w)
      BY <2>1 DEF StageChunk, StageRest, Fenced, At, InTransaction
    <2>3. StagedNumbers(w)' = StagedNumbers(w) /\ Rows(w)' = Rows(w)
      BY <1>0, <2>1, <2>2, NumbersKept DEF SameClaim
    <2> QED BY <2>1, <2>3, StagingHeld
  <1> QED
    BY <1>1, <1>2, <1>3, <1>4, <1>5, <1>6 DEF StagingStep, PublicationStep, FailureStep

\* A step of anyone else.
LEMMA StagingBesides ==
  ASSUME Claims, StagedRowsKnown, [Next]_vars, NEW v \in Workers, HasStaged(v),
         worker'[v] = worker[v], ~StageChunk(v), ~StageRest(v)
  PROVE  HasStaged(v)'
  <1>1. CASE Busy(v)
    BY <1>1, NumbersKept, StagingKept
  <1>2. CASE ~Busy(v)
    BY <1>2, StagingNone DEF Busy
  <1> QED BY <1>1, <1>2

\* A new attempt has staged nothing yet.
LEMMA StagingByClaim ==
  ASSUME Claims, StagedRowsKnown, NEW w \in Workers, NEW j \in Jobs, Claim(w, j)
  PROVE  HasStaged(w)'
  <1>0. TypeOK
    BY DEF Claims
  <1>1. /\ UNCHANGED <<file, staged>>
        /\ worker'[w] = [Idle EXCEPT !.pc = "staging", !.job = j,
                                     !.attempt = job[j].attempt + 1]
    BY <1>0, ClaimEffect DEF OwnStep
  <1>2. /\ worker'[w].pc = "staging" /\ worker'[w].job = j
        /\ worker'[w].attempt = job[j].attempt + 1 /\ worker'[w].next = 1
    BY <1>1 DEF Idle
  <1>3. \A r \in staged : r.job = j => r.attempt # job[j].attempt + 1
    BY <1>0 DEF StagedRowsKnown, StagedRowKnown, TypeOK
  <1>4. StagedNumbers(w)' = {}
    BY <1>1, <1>2, <1>3 DEF StagedNumbers
  <1>5. Len(Rows(w)') \in Nat
    BY <1>0, <1>1, <1>2, PublicationAssumption DEF Rows, TypeOK
  <1> QED BY <1>2, <1>4, <1>5 DEF HasStaged, CleanNumbers, AllClean, InTransaction

\* A worker changes by its own steps only.
LEMMA OthersStay ==
  ASSUME Claims, [Next]_vars, NEW v \in Workers
  PROVE  \/ StagingStep(v) \/ PublicationStep(v) \/ FailureStep(v)
         \/ \E j \in Jobs : Claim(v, j)
         \/ worker'[v] = worker[v]
  <1>0. TypeOK /\ ClaimsAreKnown
    BY DEF Claims
  <1> SUFFICES ASSUME ~(StagingStep(v) \/ PublicationStep(v) \/ FailureStep(v)),
                      ~\E j \in Jobs : Claim(v, j)
               PROVE  worker'[v] = worker[v]
    OBVIOUS
  <1>1. CASE \E j \in Jobs : QueueStep(j)
    <2>1. PICK j \in Jobs : QueueStep(j)
      BY <1>1
    <2>2. CASE MarkExhausted(j) \/ RequeueJob(j)
      BY <1>0, <2>2, OperatorEffect DEF OperatorStep
    <2>3. CASE \E w \in Workers : Claim(w, j)
      BY <1>0, <2>3, ClaimEffect DEF OwnStep
    <2> QED BY <2>1, <2>2, <2>3 DEF QueueStep
  <1>2. CASE \E w \in Workers : StagingStep(w) \/ PublicationStep(w) \/ FailureStep(w)
    <2>1. PICK w \in Workers : StagingStep(w) \/ PublicationStep(w) \/ FailureStep(w)
      BY <1>2
    <2>2. OwnStep(w) /\ v # w
      BY <1>0, <2>1, WorkerAdvances DEF Advances, DropsClaim, SameClaim
    <2> QED BY <2>2 DEF OwnStep
  <1>3. CASE (\E r \in Refs : EditMasterData(r)) \/ UNCHANGED vars
    BY <1>3 DEF EditMasterData, vars
  <1> QED BY <1>1, <1>2, <1>3 DEF Next

LEMMA StagingProgressStep ==
  Claims /\ StagedRowsKnown /\ StagingProgress /\ [Next]_vars => StagingProgress'
  <1> SUFFICES ASSUME Claims, StagedRowsKnown, StagingProgress, [Next]_vars,
                      NEW v \in Workers
               PROVE  HasStaged(v)'
    BY DEF StagingProgress
  <1>0. TypeOK /\ ClaimsAreKnown /\ HasStaged(v)
    BY DEF Claims, StagingProgress
  <1>1. CASE StagingStep(v) \/ PublicationStep(v) \/ FailureStep(v)
    BY <1>0, <1>1, StagingByWorker
  <1>2. CASE \E j \in Jobs : Claim(v, j)
    BY <1>2, StagingByClaim
  <1>3. CASE /\ ~(StagingStep(v) \/ PublicationStep(v) \/ FailureStep(v))
             /\ ~\E j \in Jobs : Claim(v, j)
    <2>1. worker'[v] = worker[v]
      BY <1>3, OthersStay
    <2>2. ~StageChunk(v) /\ ~StageRest(v)
      BY <1>3 DEF StagingStep
    <2> QED BY <1>0, <2>1, <2>2, StagingBesides
  <1> QED BY <1>1, <1>2, <1>3

-----------------------------------------------------------------------------
(***************************************************************************)
(* How far a publication has come.                                         *)
(***************************************************************************)

LEMMA ProgressStart == Init => PublicationProgress
  BY DEF Init, PublicationProgress, HasValidated, HasLinked, Idle

\* What a transaction knows is about its own snapshot and its own inserts.
LEMMA ProgressBesides ==
  ASSUME NEW v \in Workers, worker'[v] = worker[v], UNCHANGED file,
         HasValidated(v), HasLinked(v)
  PROVE  HasValidated(v)' /\ HasLinked(v)'
  <1>1. /\ Rows(v)' = Rows(v) /\ Source(v)' = Source(v)
        /\ VisibleFacts(v)' = VisibleFacts(v)
    BY DEF Rows, Source, VisibleFacts
  <1>2. HasValidated(v)'
    BY <1>1 DEF HasValidated, NoConflictUpTo, Conflicts, FactsOf
  <1>3. HasLinked(v)'
    BY <1>1 DEF HasLinked, NoConflictUpTo, Conflicts, FactsOf, FactOf, LinkOf, MadeFact
  <1> QED BY <1>2, <1>3

LEMMA ProgressNone ==
  ASSUME NEW v \in Workers, worker'[v].pc \notin {"validating", "linking", "linked"}
  PROVE  HasValidated(v)' /\ HasLinked(v)'
  BY DEF HasValidated, HasLinked

\* The whole chunk is staged once the transaction is open.
LEMMA ChunkIsWhole ==
  ASSUME Claims, NEW w \in Workers, HasStaged(w), InTransaction(w)
  PROVE  /\ Chunk(w) = worker[w].next .. LastOfChunk(w)
         /\ Chunk(w) \subseteq 1..Len(Rows(w))
         /\ worker[w].next \in Nat \ {0} /\ LastOfChunk(w) \in Nat
         /\ Len(Rows(w)) \in Nat /\ LastOfChunk(w) <= Len(Rows(w))
         /\ \A m, n \in 1..Len(Rows(w)) : Rows(w)[m].id = Rows(w)[n].id => m = n
  <1>1. TypeOK /\ worker[w].job \in Jobs /\ worker[w].next \in Nat \ {0}
    BY DEF Claims, TypeOK, ClaimsAreKnown, InTransaction, Busy
  <1>2. /\ LastOfChunk(w) \in Nat /\ Len(Rows(w)) \in Nat
        /\ LastOfChunk(w) <= Len(Rows(w))
    BY <1>1, LastOfChunkTyped, RowsTyped
  <1>3. StagedNumbers(w) = 1..Len(Rows(w)) /\ AllClean(w, Len(Rows(w)))
    BY DEF HasStaged
  <1>4. \A m, n \in 1..Len(Rows(w)) : Rows(w)[m].id = Rows(w)[n].id => m = n
    BY <1>1, <1>3, RowsTyped DEF AllClean
  <1>5. Chunk(w) = worker[w].next .. LastOfChunk(w) /\ Chunk(w) \subseteq 1..Len(Rows(w))
    BY <1>1, <1>2, <1>3 DEF Chunk
  <1> QED BY <1>1, <1>2, <1>4, <1>5

LEMMA ValidateProgress ==
  ASSUME Claims, NEW w \in Workers, HasStaged(w), Belongs(w), HasValidated(w),
         ValidateChunk(w), UNCHANGED file
  PROVE  HasValidated(w)' /\ HasLinked(w)'
  <1> DEFINE first == worker[w].next
             last  == LastOfChunk(w)
             codes == [k \in 1..(last + 1 - first) |->
                         IF first + k - 1 \in Chunk(w)
                         THEN DatabaseIssue(w, Rows(w)[first + k - 1]) ELSE ""]
             found == IssuesOf(first, codes)
             c     == Added(worker[w].collector, found)
             more  == IssueRows(w, c.kept)
  <1>0. TypeOK
    BY DEF Claims
  <1>1. /\ worker[w].pc = "validating"
        /\ worker'[w].job = worker[w].job
        /\ worker'[w].pc = CASE ~IsLastChunk(w) -> "validating"
                             [] IsLastChunk(w) /\ c.total > 0 -> "invalid"
                             [] OTHER -> "linking"
        /\ worker'[w].next = IF IsLastChunk(w) THEN 1 ELSE last + 1
        /\ worker'[w].collector = Drained(c)
        /\ worker'[w].tx = [worker[w].tx EXCEPT !.issues = @ \cup more]
    BY <1>0, ValidateChunkEffect DEF SameClaim
  <1>2. /\ Chunk(w) = first..last /\ first \in Nat \ {0} /\ last \in Nat
        /\ Len(Rows(w)) \in Nat /\ last <= Len(Rows(w))
    BY <1>1, ChunkIsWhole DEF InTransaction
  <1>3. codes = [k \in 1..(last + 1 - first) |-> codes[k]]
    OBVIOUS
  <1>4. \A k \in 1..(last + 1 - first) :
          codes[k] = IF first + k - 1 \in Chunk(w)
                     THEN DatabaseIssue(w, Rows(w)[first + k - 1]) ELSE ""
    OBVIOUS
  <1> HIDE DEF codes, first, last
  <1>5. Len(codes) \in Nat /\ 1..Len(codes) = 1..(last + 1 - first)
    BY <1>2, <1>3, TableLength
  <1>6. PICK n \in Nat : /\ Len(found) = n
                         /\ n = 0 <=> \A k \in 1..Len(codes) : codes[k] = ""
    BY <1>5, IssuesOfLength
  <1> HIDE DEF found
  <1>7. /\ Drained(c).total = c.total /\ c.total \in Nat
        /\ c.total = 0 <=> worker[w].collector.total = 0 /\ n = 0
    BY ZenonT(60), <1>0, <1>6, AddedTotal DEF TypeOK, CollectorShape
  <1> HIDE DEF c, more
  <1>8. /\ worker'[w].tx.facts = worker[w].tx.facts
        /\ worker'[w].tx.inserted = worker[w].tx.inserted
        /\ worker'[w].tx.linked = worker[w].tx.linked
    BY <1>0, <1>1 DEF TypeOK, NoTx
  <1>9. /\ Rows(w)' = Rows(w) /\ Source(w)' = Source(w)
        /\ VisibleFacts(w)' = VisibleFacts(w)
    BY <1>1, <1>8 DEF Rows, Source, VisibleFacts
  <1>10. c.total = 0 => NoConflictUpTo(w, last)
    <2> SUFFICES ASSUME c.total = 0, NEW m \in 1..last
                 PROVE  ~Conflicts(w, Rows(w)[m], VisibleFacts(w))
      BY DEF NoConflictUpTo
    <2>1. NoConflictUpTo(w, first - 1)
      BY <1>1, <1>7 DEF HasValidated, first
    <2>2. CASE m < first
      BY <1>2, <2>1, <2>2 DEF NoConflictUpTo
    <2>3. CASE m >= first
      <3>1. PICK k \in 1..(last + 1 - first) : first + k - 1 = m
        <4>1. m + 1 - first \in 1..(last + 1 - first) /\ first + (m + 1 - first) - 1 = m
          BY <1>2, <2>3
        <4> QED BY <4>1
      <3>2. codes[k] = ""
        BY <1>5, <1>6, <1>7
      <3>3. m \in Chunk(w)
        BY <1>2, <2>3
      <3>4. DatabaseIssue(w, Rows(w)[m]) = ""
        BY <1>4, <3>1, <3>2, <3>3
      <3> QED BY <3>4 DEF DatabaseIssue
    <2> QED BY <1>2, <2>2, <2>3
  <1>11. HasValidated(w)'
    <2> SUFFICES ASSUME worker'[w].pc = "validating"
                 PROVE  /\ worker'[w].next <= Len(Rows(w)) + 1
                        /\ worker'[w].collector.total = 0 =>
                             NoConflictUpTo(w, worker[w].next - 1)'
      BY <1>9 DEF HasValidated
    <2>1. ~IsLastChunk(w) /\ worker'[w].next = last + 1
      BY <1>1, <1>7
    <2>2. worker'[w].next - 1 = last
      BY <1>2, <2>1
    <2> QED BY <1>1, <1>2, <1>7, <1>9, <1>10, <2>1, <2>2
            DEF NoConflictUpTo, Conflicts, FactsOf
  <1>12. HasLinked(w)'
    <2> SUFFICES ASSUME worker'[w].pc \in {"linking", "linked"}
                 PROVE  HasLinked(w)'
      BY DEF HasLinked
    <2>1. IsLastChunk(w) /\ c.total = 0 /\ worker'[w].pc = "linking" /\ worker'[w].next = 1
      BY <1>1, <1>7
    <2>2. NoConflictUpTo(w, Len(Rows(w)))'
      BY <1>9, <1>10, <2>1 DEF IsLastChunk, NoConflictUpTo, Conflicts, FactsOf, last
    <2>3. worker'[w].tx.inserted = {} /\ worker'[w].tx.linked = {}
      BY <1>1, <1>8 DEF Belongs
    <2>4. 1..(worker'[w].next - 1) = {}
      BY <2>1
    <2> QED BY <1>2, <1>9, <2>1, <2>2, <2>3, <2>4 DEF HasLinked
  <1> QED BY <1>11, <1>12

LEMMA LinkProgress ==
  ASSUME Claims, NEW w \in Workers, HasStaged(w), HasLinked(w),
         LinkChunk(w), UNCHANGED file
  PROVE  HasValidated(w)' /\ HasLinked(w)'
  <1> DEFINE first == worker[w].next
             last  == LastOfChunk(w)
             N     == NewNumbers(w)
  <1>0. TypeOK
    BY DEF Claims
  <1>1. /\ worker[w].pc = "linking" /\ worker'[w].job = worker[w].job
        /\ worker'[w].pc = IF IsLastChunk(w) THEN "linked" ELSE "linking"
        /\ worker'[w].next = last + 1
        /\ worker'[w].tx = [worker[w].tx EXCEPT !.inserted = @ \cup NewFacts(w),
                                                !.linked = @ \cup NewLinks(w)]
    BY <1>0, LinkChunkEffect DEF SameClaim
  <1>2. /\ Chunk(w) = first..last /\ first \in Nat \ {0} /\ last \in Nat
        /\ Len(Rows(w)) \in Nat /\ last <= Len(Rows(w))
        /\ \A m, n \in 1..Len(Rows(w)) : Rows(w)[m].id = Rows(w)[n].id => m = n
    BY <1>1, ChunkIsWhole DEF InTransaction
  <1>3. /\ worker'[w].tx.facts = worker[w].tx.facts
        /\ worker'[w].tx.inserted = worker[w].tx.inserted \cup NewFacts(w)
        /\ worker'[w].tx.linked = worker[w].tx.linked \cup NewLinks(w)
    BY <1>0, <1>1 DEF TypeOK, NoTx
  <1>4. /\ Rows(w)' = Rows(w) /\ Source(w)' = Source(w)
        /\ VisibleFacts(w)' = VisibleFacts(w) \cup NewFacts(w)
        /\ \A row : FactOf(w, row)' = FactOf(w, row)
    BY <1>1, <1>3 DEF Rows, Source, VisibleFacts, FactOf
  <1>5. N \subseteq first..last /\ \A n \in N : FactsOf(w, Rows(w)[n], VisibleFacts(w)) = {}
    BY <1>2 DEF NewNumbers
  <1>6. \A n \in first..last : n \notin N => FactsOf(w, Rows(w)[n], VisibleFacts(w)) # {}
    BY <1>2 DEF NewNumbers
  <1>7. ASSUME NEW f \in NewFacts(w), NEW n \in 1..Len(Rows(w)), f.id = Rows(w)[n].id
        PROVE  n \in N /\ f = FactOf(w, Rows(w)[n])
    <2>1. PICK m \in N : f = FactOf(w, Rows(w)[m])
      BY DEF NewFacts
    <2>2. f.id = Rows(w)[m].id /\ m \in 1..Len(Rows(w))
      BY <1>2, <1>5, <2>1 DEF FactOf
    <2>3. m = n
      BY <1>2, <1>7, <2>2
    <2> QED BY <2>1, <2>3
  <1> HIDE DEF first, last, N
  <1>8. NoConflictUpTo(w, Len(Rows(w)))'
    <2> SUFFICES ASSUME NEW n \in 1..Len(Rows(w)), NEW f \in VisibleFacts(w) \cup NewFacts(w),
                        f.source = Source(w), f.id = Rows(w)[n].id
                 PROVE  f.value = Rows(w)[n].value
      BY <1>4 DEF NoConflictUpTo, Conflicts, FactsOf
    <2>1. CASE f \in VisibleFacts(w)
      BY <1>1, <2>1 DEF HasLinked, NoConflictUpTo, Conflicts, FactsOf
    <2>2. CASE f \in NewFacts(w)
      <3>1. f = FactOf(w, Rows(w)[n])
        BY <1>7, <2>2
      <3> QED BY <3>1 DEF FactOf
    <2> QED BY <2>1, <2>2
  <1>9. /\ worker'[w].next <= Len(Rows(w)) + 1 /\ worker'[w].next - 1 = last
        /\ worker'[w].pc = "linked" => worker'[w].next = Len(Rows(w)) + 1
    BY <1>1, <1>2 DEF IsLastChunk, last
  <1>10. \A n \in 1..last :
           FactsOf(w, Rows(w)[n], VisibleFacts(w) \cup NewFacts(w)) # {}
    <2> TAKE n \in 1..last
    <2>1. \A S, T, row : S \subseteq T => FactsOf(w, row, S) \subseteq FactsOf(w, row, T)
      BY DEF FactsOf
    <2>0. n \in Nat /\ n >= 1 /\ n <= last
      BY <1>2
    <2>2. CASE n < first
      <3>1. n \in 1..(first - 1)
        BY <1>2, <2>0, <2>2
      <3>2. FactsOf(w, Rows(w)[n], VisibleFacts(w)) # {}
        BY <1>1, <3>1 DEF HasLinked, first
      <3> QED BY <2>1, <3>2
    <2>3. CASE n >= first /\ n \notin N
      BY <1>2, <1>6, <2>1, <2>3
    <2>4. CASE n >= first /\ n \in N
      <3>1. FactOf(w, Rows(w)[n]) \in NewFacts(w)
        BY <2>4 DEF NewFacts, N
      <3> QED BY <3>1 DEF FactsOf, FactOf
    <2>5. \/ n < first
          \/ n >= first /\ n \notin N
          \/ n >= first /\ n \in N
      BY <1>2, <2>0
    <2> QED BY <2>2, <2>3, <2>4, <2>5
  <1>11. \A f \in worker[w].tx.inserted : \E n \in 1..(first - 1) : f = FactOf(w, Rows(w)[n])
    BY <1>1 DEF HasLinked, first
  <1>12. \A f \in worker'[w].tx.inserted : \E n \in 1..last : f = FactOf(w, Rows(w)[n])
    <2> TAKE f \in worker'[w].tx.inserted
    <2>1. CASE f \in worker[w].tx.inserted
      <3>1. PICK n \in 1..(first - 1) : f = FactOf(w, Rows(w)[n])
        BY <1>11, <2>1
      <3>2. n \in 1..last
        <4>1. first - 1 <= last
          <5>1. CASE IsLastChunk(w)
            BY <1>1, <1>2, <5>1 DEF IsLastChunk, HasLinked, first, last
          <5>2. CASE ~IsLastChunk(w)
            <6>1. last >= first
              BY <1>0, <1>2, <5>2, LastOfChunkTyped
              DEF IsLastChunk, first, last, Claims, ClaimsAreKnown, LinkChunk, At, Busy
            <6> QED BY <1>2, <6>1
          <5> QED BY <5>1, <5>2
        <4> QED BY <1>2, <4>1
      <3> QED BY <3>1, <3>2
    <2>2. CASE f \in NewFacts(w)
      <3>1. PICK n \in N : f = FactOf(w, Rows(w)[n])
        BY <2>2 DEF NewFacts, N
      <3>2. n \in 1..last
        BY <1>2, <1>5
      <3> QED BY <3>1, <3>2
    <2> QED BY <1>3, <2>1, <2>2
  <1>13. \A n \in 1..last :
           MadeFact(w, n)' <=> IF n < first THEN MadeFact(w, n) ELSE n \in N
    <2> TAKE n \in 1..last
    <2>0. n \in 1..Len(Rows(w)) /\ n \in Nat
      BY <1>2
    <2>1. MadeFact(w, n)' <=> \/ MadeFact(w, n)
                              \/ \E f \in NewFacts(w) : f.id = Rows(w)[n].id
      BY <1>3, <1>4 DEF MadeFact
    <2>2. (\E f \in NewFacts(w) : f.id = Rows(w)[n].id) <=> n \in N
      <3>1. n \in N => FactOf(w, Rows(w)[n]) \in NewFacts(w)
        BY DEF NewFacts, N
      <3>2. FactOf(w, Rows(w)[n]).id = Rows(w)[n].id
        BY DEF FactOf
      <3> QED BY <1>7, <2>0, <3>1, <3>2
    <2>3. n < first => n \notin N
      BY <1>2, <1>5
    <2>4. n >= first => ~MadeFact(w, n)
      <3> SUFFICES ASSUME n >= first, NEW f \in worker[w].tx.inserted, f.id = Rows(w)[n].id
                   PROVE  FALSE
        BY DEF MadeFact
      <3>1. PICK m \in 1..(first - 1) : f = FactOf(w, Rows(w)[m])
        BY <1>11
      <3>2. f.id = Rows(w)[m].id /\ m \in 1..Len(Rows(w)) /\ m # n
        <4>1. m < n
          BY <1>2
        <4> QED BY <1>2, <2>0, <3>1, <4>1 DEF FactOf
      <3> QED BY <1>2, <2>0, <3>2
    <2> QED BY <1>2, <2>0, <2>1, <2>2, <2>3, <2>4
  <1>14. worker'[w].tx.linked = {LinkOf(w, n)' : n \in 1..last}
    <2>1. worker[w].tx.linked = {LinkOf(w, n) : n \in 1..(first - 1)}
      BY <1>1 DEF HasLinked, first
    <2>2. NewLinks(w) =
            {[number |-> n, outcome |-> IF n \in N THEN "published" ELSE "reused"] :
                n \in first..last}
      BY <1>2 DEF NewLinks, N
    <2>3. first - 1 <= last
      <3>1. CASE IsLastChunk(w)
        BY <1>1, <1>2, <3>1 DEF IsLastChunk, HasLinked, first, last
      <3>2. CASE ~IsLastChunk(w)
        <4>1. last >= first
          BY <1>0, <1>2, <3>2, LastOfChunkTyped
          DEF IsLastChunk, first, last, Claims, ClaimsAreKnown, LinkChunk, At, Busy
        <4> QED BY <1>2, <4>1
      <3> QED BY <3>1, <3>2
    <2>4. 1..last = (1..(first - 1)) \cup (first..last)
      BY <1>2, <2>3
    <2>5. \A n \in 1..(first - 1) : LinkOf(w, n)' = LinkOf(w, n)
      <3> TAKE n \in 1..(first - 1)
      <3>1. n \in 1..last /\ n < first
        BY <1>2, <2>3
      <3>2. MadeFact(w, n)' <=> MadeFact(w, n)
        BY <1>13, <3>1
      <3> QED BY <3>2 DEF LinkOf
    <2>6. \A n \in first..last :
            LinkOf(w, n)'
              = [number |-> n, outcome |-> IF n \in N THEN "published" ELSE "reused"]
      <3> TAKE n \in first..last
      <3>1. n \in 1..last /\ ~(n < first)
        BY <1>2
      <3>2. MadeFact(w, n)' <=> n \in N
        BY <1>13, <3>1
      <3> QED BY <3>2 DEF LinkOf
    <2> QED BY <1>3, <2>1, <2>2, <2>4, <2>5, <2>6
  <1>15. HasLinked(w)'
    <2>1. /\ NoConflictUpTo(w, Len(Rows(w)))'
          /\ worker'[w].next <= Len(Rows(w)') + 1
          /\ worker'[w].pc = "linked" => worker'[w].next = Len(Rows(w)') + 1
      BY <1>4, <1>8, <1>9
    <2>2. \A n \in 1..(worker'[w].next - 1) :
             FactsOf(w, Rows(w)[n], VisibleFacts(w))' # {}
      BY <1>4, <1>9, <1>10 DEF FactsOf
    <2>3. \A f \in worker'[w].tx.inserted :
             \E n \in 1..(worker'[w].next - 1) : f = FactOf(w, Rows(w)[n])'
      <3>1. \A n : FactOf(w, Rows(w)[n])' = FactOf(w, Rows(w)[n])
        BY <1>1 DEF FactOf, Source, Rows
      <3> QED BY <1>9, <1>12, <3>1
    <2>4. worker'[w].tx.linked = {LinkOf(w, n)' : n \in 1..(worker'[w].next - 1)}
      BY <1>9, <1>14
    <2> QED BY <2>1, <2>2, <2>3, <2>4 DEF HasLinked
  <1>16. HasValidated(w)'
    BY <1>1 DEF HasValidated
  <1> QED BY <1>15, <1>16

LEMMA ProgressStep ==
  Claims /\ TransactionsBelong /\ StagingProgress /\ PublicationProgress /\ [Next]_vars
    => PublicationProgress'
  <1> SUFFICES ASSUME Claims, TransactionsBelong, StagingProgress, PublicationProgress,
                      [Next]_vars, NEW v \in Workers
               PROVE  HasValidated(v)' /\ HasLinked(v)'
    BY DEF PublicationProgress
  <1>0. /\ TypeOK /\ ClaimsAreKnown /\ UNCHANGED file
        /\ HasStaged(v) /\ Belongs(v) /\ HasValidated(v) /\ HasLinked(v)
    BY AttemptsNeverFall
    DEF Claims, StagingProgress, TransactionsBelong, PublicationProgress
  <1>1. CASE StagingStep(v) \/ PublicationStep(v) \/ FailureStep(v)
    <2>1. CASE ValidateChunk(v)
      BY <1>0, <2>1, ValidateProgress
    <2>2. CASE LinkChunk(v)
      BY <1>0, <2>2, LinkProgress
    <2>3. CASE BeginPublication(v)
      <3>1. worker'[v].pc = "validating" /\ worker'[v].next = 1 /\ SameClaim(v)
        BY <1>0, <2>3, BeginPublicationEffect
      <3>2. worker'[v].job \in Jobs /\ Len(Rows(v)') \in Nat
        <4>1. worker'[v].job \in Jobs
          BY <1>0, <2>3, <3>1
          DEF SameClaim, ClaimsAreKnown, BeginPublication, Fenced, At, Busy
        <4> QED BY <1>0, <4>1, PublicationAssumption DEF Rows, TypeOK
      <3> QED BY <3>1, <3>2 DEF HasValidated, HasLinked, NoConflictUpTo
    <2>4. CASE \/ StageChunk(v) \/ StageRest(v) \/ AcquireSourceLock(v)
               \/ UniqueViolation(v) \/ FinishInvalid(v) \/ FinishPublished(v)
               \/ RetryableError(v)
      <3>1. worker'[v].pc \in {"staging", "staged", "locked", "retrying", "unlocking"}
        BY ZenonT(60), <1>0, <2>4, StageChunkEffect, StageRestEffect, AcquireSourceLockEffect,
           UniqueViolationEffect, FinishInvalidEffect, FinishPublishedEffect,
           RetryableErrorEffect
      <3> QED BY <3>1, ProgressNone
    <2>5. CASE RejectFile(v) \/ ScheduleRetry(v) \/ UnlockSource(v) \/ ClaimLost(v) \/ Crash(v)
      <3>1. worker'[v] = Idle
        BY <1>0, <2>5, RejectFileEffect, ScheduleRetryEffect, EndOfWorkEffect DEF DropsClaim
      <3> QED BY <3>1, ProgressNone DEF Idle
    <2> QED
      BY <1>1, <2>1, <2>2, <2>3, <2>4, <2>5 DEF StagingStep, PublicationStep, FailureStep
  <1>2. CASE \E j \in Jobs : Claim(v, j)
    <2>1. PICK j \in Jobs : Claim(v, j)
      BY <1>2
    <2>2. worker'[v] = [Idle EXCEPT !.pc = "staging", !.job = j,
                                    !.attempt = job[j].attempt + 1]
      BY <1>0, <2>1, ClaimEffect
    <2>3. worker'[v].pc = "staging"
      BY <2>2 DEF Idle
    <2> QED BY <2>3, ProgressNone
  <1>3. CASE worker'[v] = worker[v]
    BY <1>0, <1>3, ProgressBesides
  <1> QED BY <1>1, <1>2, <1>3, OthersStay

-----------------------------------------------------------------------------
(***************************************************************************)
(* What a commit leaves behind.                                            *)
(***************************************************************************)

Published == PublishedAsAWhole /\ CountsAddUp /\ LinksAreRight

LEMMA PublishedStart == Init => Published
  <1> SUFFICES ASSUME Init PROVE Published
    OBVIOUS
  <1>1. NewJob.status # "published"
    BY DEF NewJob
  <1>2. facts = {} /\ staged = {} /\ \A j \in Jobs : job[j] = NewJob
    BY DEF Init
  <1> QED BY <1>1, <1>2 DEF Published, PublishedAsAWhole, CountsAddUp, LinksAreRight

\* Nothing but a commit adds facts or publishes a job, and a published job is
\* never touched again.
LEMMA OnlyCommitsPublish ==
  ASSUME Claims, [Next]_vars, ~\E w \in Workers : FinishPublished(w)
  PROVE  /\ UNCHANGED facts
         /\ \A j \in Jobs :
              job[j].status = "published" \/ job'[j].status = "published" => job'[j] = job[j]
  <1>0. TypeOK /\ ClaimsAreKnown /\ TransactionsOwn
    BY DEF Claims
  <1>1. CASE \E j \in Jobs : QueueStep(j)
    <2>1. PICK j \in Jobs : QueueStep(j)
      BY <1>1
    <2>2. CASE MarkExhausted(j) \/ RequeueJob(j)
      BY <1>0, <2>2, OperatorEffect DEF OperatorStep
    <2>3. CASE \E w \in Workers : Claim(w, j)
      <3>1. PICK w \in Workers : Claim(w, j)
        BY <2>3
      <3>2. /\ UNCHANGED facts /\ job[j].status \in {"open", "held"}
            /\ job'[j].status = "held" /\ \A i \in Jobs \ {j} : job'[i] = job[i]
        BY <1>0, <3>1, ClaimEffect
      <3> QED BY <3>2
    <2> QED BY <2>1, <2>2, <2>3 DEF QueueStep
  <1>2. CASE \E w \in Workers : StagingStep(w) \/ PublicationStep(w) \/ FailureStep(w)
    <2>1. PICK w \in Workers : StagingStep(w) \/ PublicationStep(w) \/ FailureStep(w)
      BY <1>2
    <2>2. Busy(w) /\ SameJobs(w)
      BY <1>0, <2>1, WorkerAdvances DEF Advances
    <2>3. PICK i \in Jobs : i = worker[w].job
      BY <1>0, <2>2 DEF ClaimsAreKnown
    <2>4. \A j \in Jobs \ {i} : job'[j] = job[j]
      BY <2>2, <2>3 DEF SameJobs
    <2>5. CASE StageChunk(w) \/ StageRest(w) \/ RejectFile(w) \/ ScheduleRetry(w)
      <3>1. /\ UNCHANGED facts /\ Owns(w)
            /\ job'[i].status \in {job[i].status, "rejected", "open", "failed"}
        BY <1>0, <2>3, <2>5, StageChunkEffect, StageRestEffect, RejectFileEffect,
           ScheduleRetryEffect
      <3> QED BY <2>3, <2>4, <3>1 DEF Owns
    <2>6. CASE FinishInvalid(w)
      <3>1. /\ UNCHANGED facts /\ InTransaction(w) /\ job'[i].status = "rejected"
        BY <1>0, <2>3, <2>6, FinishInvalidEffect DEF InTransaction
      <3>2. job[i].status = "held"
        BY <1>0, <2>3, <3>1 DEF TransactionsOwn, Owns
      <3> QED BY <2>4, <3>1, <3>2
    <2>7. CASE \/ AcquireSourceLock(w) \/ BeginPublication(w) \/ ValidateChunk(w)
               \/ LinkChunk(w) \/ UniqueViolation(w) \/ UnlockSource(w)
               \/ RetryableError(w) \/ ClaimLost(w) \/ Crash(w)
      BY <2>7 DEF AcquireSourceLock, BeginPublication, ValidateChunk, LinkChunk,
         UniqueViolation, UnlockSource, RetryableError, ClaimLost, Crash
    <2> QED
      BY <2>1, <2>5, <2>6, <2>7 DEF StagingStep, PublicationStep, FailureStep
  <1>3. CASE (\E r \in Refs : EditMasterData(r)) \/ UNCHANGED vars
    BY <1>3 DEF EditMasterData, vars
  <1> QED BY <1>1, <1>2, <1>3 DEF Next

\* The facts of a job, and whether a staged row made its own.
MadeBy(r, S) ==
    \E f \in S : /\ f.job = r.job
                 /\ f.source = SourceOf[r.job]
                 /\ f.id = file[r.job].rows[r.number].id

LinkIsRight(r) ==
    IF job[r.job].status = "published" /\ r.attempt = job[r.job].attempt
    THEN r.outcome = IF MadeBy(r, facts) THEN "published" ELSE "reused"
    ELSE r.outcome = "staged"

LEMMA LinksAreRightEach == LinksAreRight <=> \A r \in staged : LinkIsRight(r)
  BY DEF LinksAreRight, LinkIsRight, MadeBy

\* A batch stages rows of a job that is not published.
LEMMA NewRowsAreStaged ==
  ASSUME Claims, [Next]_vars, ~\E w \in Workers : FinishPublished(w),
         NEW r \in staged', r \notin staged
  PROVE  r.outcome = "staged" /\ r.job \in Jobs /\ job'[r.job].status # "published"
  <1>0. TypeOK /\ ClaimsAreKnown
    BY DEF Claims
  <1>1. PICK w \in Workers : StageChunk(w) \/ StageRest(w)
    BY StagedChanges
  <1>2. /\ Owns(w) /\ worker[w].pc = "staging"
        /\ \E first, last : staged' = staged \cup StagedRows(w, first, last)
        /\ worker[w].job \in Jobs => job'[worker[w].job].status = job[worker[w].job].status
    BY <1>0, <1>1, StageChunkEffect, StageRestEffect
  <1>3. r.job = worker[w].job /\ r.outcome = "staged"
    BY <1>2 DEF StagedRows
  <1>4. worker[w].job \in Jobs
    BY <1>0, <1>2 DEF ClaimsAreKnown, Busy
  <1> QED BY <1>2, <1>3, <1>4 DEF Owns

LEMMA PublishedBesides ==
  ASSUME Claims, StagedRowsKnown, Published, [Next]_vars,
         ~\E w \in Workers : FinishPublished(w)
  PROVE  Published'
  <1>1. /\ UNCHANGED <<facts, file>>
        /\ \A j \in Jobs :
             job[j].status = "published" \/ job'[j].status = "published" => job'[j] = job[j]
    BY OnlyCommitsPublish, AttemptsNeverFall
  <1>2. PublishedAsAWhole'
    BY <1>1 DEF Published, PublishedAsAWhole
  <1>3. CountsAddUp'
    <2> SUFFICES ASSUME NEW j \in Jobs, job'[j].status = "published"
                 PROVE  /\ job'[j].inserted = Cardinality({f \in facts : f.job = j})
                        /\ job'[j].inserted + job'[j].reused = Len(file[j].rows)
      BY <1>1 DEF CountsAddUp
    <2> QED BY <1>1 DEF Published, CountsAddUp
  <1>4. \A r \in staged' : LinkIsRight(r)'
    <2> TAKE r \in staged'
    <2>1. CASE r \in staged
      <3>1. LinkIsRight(r) /\ r.job \in Jobs
        BY <2>1, LinksAreRightEach DEF Published, StagedRowsKnown, StagedRowKnown
      <3> QED BY <1>1, <3>1 DEF LinkIsRight, MadeBy
    <2>2. CASE r \notin staged
      BY <2>2, NewRowsAreStaged DEF LinkIsRight
    <2> QED BY <2>1, <2>2
  <1>5. LinksAreRight'
    BY <1>4 DEF LinksAreRight, LinkIsRight, MadeBy
  <1> QED BY <1>2, <1>3, <1>5 DEF Published

\* A set counted through another one.
LEMMA CountedBy ==
  ASSUME NEW S, NEW T, IsFiniteSet(S), NEW f, f = [x \in S |-> f[x]],
         \A x \in S : f[x] \in T,
         \A x, y \in S : f[x] = f[y] => x = y,
         \A t \in T : \E x \in S : f[x] = t
  PROVE  IsFiniteSet(T) /\ Cardinality(T) = Cardinality(S)
  <1>1. f \in Bijection(S, T)
    BY DEF Bijection, Injection, Surjection, IsInjective
  <1> QED BY <1>1, FS_Bijection DEF ExistsBijection

LEMMA CountsOfParts ==
  ASSUME NEW n \in Nat, NEW S \in SUBSET (1..n)
  PROVE  /\ IsFiniteSet(S) /\ IsFiniteSet((1..n) \ S)
         /\ Cardinality(S) \in Nat /\ Cardinality((1..n) \ S) \in Nat
         /\ Cardinality(S) + Cardinality((1..n) \ S) = n
  <1> DEFINE T == (1..n) \ S
  <1>1. IsFiniteSet(1..n) /\ Cardinality(1..n) = n
    BY FS_Interval
  <1>2. T \in SUBSET (1..n) /\ S \cup T = 1..n /\ S \cap T = {}
    OBVIOUS
  <1> HIDE DEF T
  <1>3. IsFiniteSet(S) /\ IsFiniteSet(T)
    BY <1>1, <1>2, FS_Subset
  <1>4. Cardinality(S) \in Nat /\ Cardinality(T) \in Nat
    BY <1>3, FS_CardinalityType
  <1>5. Cardinality(S \cup T) = Cardinality(S) + Cardinality(T) - Cardinality(S \cap T)
    BY <1>3, FS_Union
  <1>6. Cardinality(S \cap T) = 0
    BY <1>2, FS_EmptySet
  <1>7. Cardinality(S \cup T) = n
    BY <1>1, <1>2, Zenon
  <1>8. Cardinality(S) + Cardinality(T) = n
    BY <1>4, <1>5, <1>6, <1>7
  <1> QED BY <1>3, <1>4, <1>8 DEF T

\* A finished transaction has linked each row of the file once, to a fact it
\* inserted or to one it found.
LEMMA EachRowCounted ==
  ASSUME Claims, NEW w \in Workers, HasStaged(w), HasLinked(w), worker[w].pc = "linked"
  PROVE  Cardinality(worker[w].tx.inserted)
           + Cardinality({l \in worker[w].tx.linked : l.outcome = "reused"})
         = Len(Rows(w))
  <1> DEFINE n      == Len(Rows(w))
             made   == {m \in 1..n : MadeFact(w, m)}
             found  == (1..n) \ made
             ins    == worker[w].tx.inserted
             reused == {l \in worker[w].tx.linked : l.outcome = "reused"}
  <1>1. /\ n \in Nat
        /\ \A m, k \in 1..n : Rows(w)[m].id = Rows(w)[k].id => m = k
    BY ChunkIsWhole DEF InTransaction
  <1>2. worker[w].next - 1 = n
    BY <1>1 DEF HasLinked
  <1>3. /\ \A f \in ins : \E m \in 1..n : f = FactOf(w, Rows(w)[m])
        /\ worker[w].tx.linked = {LinkOf(w, m) : m \in 1..n}
    BY <1>2 DEF HasLinked
  <1>4. \A r : FactOf(w, r).id = r.id
    BY DEF FactOf
  <1> HIDE DEF n
  <1>5. Cardinality(ins) = Cardinality(made) /\ IsFiniteSet(made)
    <2> DEFINE fact == [m \in made |-> FactOf(w, Rows(w)[m])]
    <2>1. \A m \in made : fact[m] \in ins
      <3> TAKE m \in made
      <3>1. PICK f \in ins : f.id = Rows(w)[m].id
        BY DEF MadeFact
      <3>2. PICK k \in 1..n : f = FactOf(w, Rows(w)[k])
        BY <1>3
      <3>3. k = m
        BY <1>1, <1>4, <3>1, <3>2
      <3> QED BY <3>2, <3>3
    <2>2. \A m, k \in made : fact[m] = fact[k] => m = k
      BY <1>1, <1>4
    <2>3. \A f \in ins : \E m \in made : fact[m] = f
      <3> TAKE f \in ins
      <3>1. PICK m \in 1..n : f = FactOf(w, Rows(w)[m])
        BY <1>3
      <3>2. m \in made
        BY <1>4, <3>1 DEF MadeFact
      <3> QED BY <3>1, <3>2
    <2>4. fact = [m \in made |-> fact[m]]
      OBVIOUS
    <2>5. IsFiniteSet(made)
      BY <1>1, CountsOfParts
    <2> HIDE DEF fact, ins, made
    <2> QED BY <2>1, <2>2, <2>3, <2>4, <2>5, CountedBy
  <1>6. Cardinality(reused) = Cardinality(found)
    <2> DEFINE link == [m \in found |-> LinkOf(w, m)]
    <2>0. \A m : /\ LinkOf(w, m).number = m
                 /\ LinkOf(w, m).outcome = "reused" <=> ~MadeFact(w, m)
      BY DEF LinkOf
    <2>1. \A m \in found : link[m] \in reused
      BY <1>3, <2>0
    <2>2. \A m, k \in found : link[m] = link[k] => m = k
      BY <2>0
    <2>3. \A l \in reused : \E m \in found : link[m] = l
      <3> TAKE l \in reused
      <3>1. PICK m \in 1..n : l = LinkOf(w, m)
        BY <1>3
      <3>2. m \in found
        BY <2>0, <3>1
      <3> QED BY <3>1, <3>2
    <2>4. link = [m \in found |-> link[m]]
      OBVIOUS
    <2>5. IsFiniteSet(found)
      BY <1>1, CountsOfParts
    <2> HIDE DEF link, reused, found
    <2> QED BY <2>1, <2>2, <2>3, <2>4, <2>5, CountedBy
  <1>7. Cardinality(made) + Cardinality(found) = n
    <2> made \in SUBSET (1..n)
      OBVIOUS
    <2> HIDE DEF made
    <2> QED BY <1>1, CountsOfParts
  <1> QED BY <1>5, <1>6, <1>7 DEF n

LEMMA PublishedByCommit ==
  ASSUME Claims, TransactionsBelong, StagedRowsKnown, StagingProgress,
         PublicationProgress, Published, NEW w \in Workers, FinishPublished(w),
         UNCHANGED file
  PROVE  Published'
  <1>0. /\ TypeOK /\ ClaimsAreKnown /\ TransactionsOwn /\ Belongs(w)
        /\ HasStaged(w) /\ HasLinked(w)
        /\ PublishedAsAWhole /\ CountsAddUp /\ LinksAreRight
    BY DEF Claims, TransactionsBelong, StagingProgress, PublicationProgress, Published
  <1>1. worker[w].pc = "linked" /\ InTransaction(w) /\ Owns(w)
    BY <1>0 DEF FinishPublished, At, InTransaction, TransactionsOwn
  <1>2. PICK i \in Jobs : i = worker[w].job
    BY <1>0, <1>1 DEF ClaimsAreKnown, Busy
  <1> DEFINE ins == worker[w].tx.inserted
             n   == Len(Rows(w))
  <1>3. /\ facts' = facts \cup ins /\ staged' = LinkedRows(w)
        /\ \A j \in Jobs \ {i} : job'[j] = job[j]
        /\ job'[i].attempt = job[i].attempt /\ job'[i].status = "published"
        /\ job'[i].inserted = Cardinality(ins)
        /\ job'[i].reused =
             Cardinality({l \in worker[w].tx.linked : l.outcome = "reused"})
    BY <1>0, <1>2, FinishPublishedEffect DEF SameJobs
  <1>4. job[i].status = "held" /\ job[i].attempt = worker[w].attempt
    BY <1>1, <1>2 DEF Owns
  <1>5. \A f \in facts : f.job # i
    BY <1>0, <1>4 DEF PublishedAsAWhole
  <1>6. \A f \in ins : f.job = i /\ f.source = SourceOf[i]
    BY <1>0, <1>2 DEF Belongs, Source
  <1>7. /\ n \in Nat /\ Rows(w) = file[i].rows
        /\ \A m, k \in 1..n : Rows(w)[m].id = Rows(w)[k].id => m = k
    BY <1>0, <1>1, <1>2, ChunkIsWhole DEF Rows
  <1>8. worker[w].next - 1 = n
    BY SMTT(30), <1>0, <1>1, <1>7 DEF HasLinked
  <1>9. PublishedAsAWhole'
    <2> SUFFICES ASSUME NEW j \in Jobs
                 PROVE  IF job'[j].status = "published"
                        THEN \A m \in 1..Len(file[j].rows) : \E f \in facts' :
                               /\ f.source = SourceOf[j]
                               /\ f.id = file[j].rows[m].id
                               /\ f.value = file[j].rows[m].value
                        ELSE \A f \in facts' : f.job # j
      BY DEF PublishedAsAWhole
    <2>1. CASE j = i
      <3> SUFFICES ASSUME NEW m \in 1..n
                   PROVE  \E f \in facts' : /\ f.source = SourceOf[i]
                                            /\ f.id = Rows(w)[m].id
                                            /\ f.value = Rows(w)[m].value
        BY <1>3, <1>7, <2>1
      <3>1. FactsOf(w, Rows(w)[m], VisibleFacts(w)) # {}
        BY <1>0, <1>1, <1>8 DEF HasLinked
      <3>2. PICK f \in VisibleFacts(w) : f.source = SourceOf[i] /\ f.id = Rows(w)[m].id
        BY <1>2, <3>1 DEF FactsOf, Source
      <3>3. f.value = Rows(w)[m].value
        BY <1>0, <1>1, <1>2, <3>2
        DEF HasLinked, NoConflictUpTo, Conflicts, FactsOf, Source
      <3>4. f \in facts'
        BY <1>0, <1>3 DEF VisibleFacts, Belongs
      <3> QED BY <3>2, <3>3, <3>4
    <2>2. CASE j # i
      BY <1>0, <1>3, <1>6, <2>2 DEF PublishedAsAWhole
    <2> QED BY <2>1, <2>2
  <1>10. CountsAddUp'
    <2> SUFFICES ASSUME NEW j \in Jobs, job'[j].status = "published"
                 PROVE  /\ job'[j].inserted = Cardinality({f \in facts' : f.job = j})
                        /\ job'[j].inserted + job'[j].reused = Len(file[j].rows)
      BY DEF CountsAddUp
    <2>1. CASE j = i
      <3>1. {f \in facts' : f.job = i} = ins
        BY <1>3, <1>5, <1>6
      <3>2. job'[i].inserted + job'[i].reused = n
        BY <1>0, <1>1, <1>3, EachRowCounted
      <3> QED BY <1>3, <1>7, <2>1, <3>1, <3>2
    <2>2. CASE j # i
      <3>1. {f \in facts' : f.job = j} = {f \in facts : f.job = j}
        BY <1>3, <1>6, <2>2
      <3> QED BY <1>0, <1>3, <2>2, <3>1 DEF CountsAddUp
    <2> QED BY <2>1, <2>2
  <1>11. \A r \in staged' : LinkIsRight(r)'
    <2> DEFINE Mine(t)   == t.job = i /\ t.attempt = worker[w].attempt
               linked(t) == \E l \in worker[w].tx.linked : l.number = t.number
               chosen(t) == (CHOOSE l \in worker[w].tx.linked : l.number = t.number).outcome
    <2> TAKE r \in staged'
    <2>1. PICK t \in staged :
            r = IF Mine(t) /\ linked(t) THEN [t EXCEPT !.outcome = chosen(t)] ELSE t
      <3>1. staged' = {IF Mine(t) /\ linked(t) THEN [t EXCEPT !.outcome = chosen(t)] ELSE t :
                         t \in staged}
        BY <1>2, <1>3 DEF LinkedRows
      <3> HIDE DEF Mine, linked, chosen
      <3> QED BY <3>1
    <2>2. StagedRowKnown(t) /\ LinkIsRight(t)
      BY <1>0, LinksAreRightEach DEF StagedRowsKnown
    <2>3. t.job \in Jobs /\ DOMAIN t = {"job", "attempt", "number", "outcome"}
      BY <2>2 DEF StagedRowKnown
    <2>4. CASE Mine(t)
      <3>1. t.number \in 1..n
        BY <1>7, <2>2, <2>4 DEF StagedRowKnown
      <3>2. worker[w].tx.linked = {LinkOf(w, m) : m \in 1..n}
        BY <1>0, <1>1, <1>8 DEF HasLinked
      <3>3. \A m : /\ LinkOf(w, m).number = m
                   /\ LinkOf(w, m).outcome = IF MadeFact(w, m) THEN "published" ELSE "reused"
        BY DEF LinkOf
      <3>4. linked(t) /\ \A l \in worker[w].tx.linked :
                           l.number = t.number <=> l = LinkOf(w, t.number)
        BY <3>1, <3>2, <3>3
      <3>5. chosen(t) = IF MadeFact(w, t.number) THEN "published" ELSE "reused"
        BY <3>1, <3>2, <3>3, <3>4
      <3> HIDE DEF linked, chosen
      <3>6. /\ r.job = t.job /\ r.attempt = t.attempt /\ r.number = t.number
            /\ r.outcome = chosen(t)
        BY <2>1, <2>3, <2>4, <3>4
      <3>7. MadeBy(r, facts)' <=> MadeFact(w, t.number)
        BY <1>3, <1>5, <1>6, <1>7, <2>4, <3>6 DEF MadeBy, MadeFact
      <3> QED BY <1>3, <1>4, <2>4, <3>5, <3>6, <3>7 DEF LinkIsRight
    <2>5. CASE ~Mine(t)
      <3>1. r = t
        BY <2>1, <2>5
      <3>2. CASE t.job = i
        BY <1>3, <1>4, <2>2, <2>5, <3>1, <3>2 DEF LinkIsRight
      <3>3. CASE t.job # i
        <4>1. MadeBy(t, facts)' <=> MadeBy(t, facts)
          BY <1>3, <1>6, <3>3 DEF MadeBy
        <4> QED BY <1>3, <2>2, <2>3, <3>1, <3>3, <4>1 DEF LinkIsRight
      <3> QED BY <3>2, <3>3
    <2> QED BY <2>4, <2>5
  <1>12. LinksAreRight'
    BY <1>11 DEF LinksAreRight, LinkIsRight, MadeBy
  <1> QED BY <1>9, <1>10, <1>12 DEF Published


-----------------------------------------------------------------------------
(***************************************************************************)
(* The invariant, and what follows from it.                                *)
(***************************************************************************)

PublicationInv ==
    /\ Claims
    /\ TransactionsBelong
    /\ Locks
    /\ StagedRowsKnown
    /\ Keys
    /\ StagingProgress
    /\ PublicationProgress
    /\ Published

LEMMA PublishedStep ==
  Claims /\ TransactionsBelong /\ StagedRowsKnown /\ StagingProgress
    /\ PublicationProgress /\ Published /\ [Next]_vars => Published'
  <1> SUFFICES ASSUME Claims, TransactionsBelong, StagedRowsKnown, StagingProgress,
                      PublicationProgress, Published, [Next]_vars
               PROVE  Published'
    OBVIOUS
  <1>1. CASE \E w \in Workers : FinishPublished(w)
    BY <1>1, PublishedByCommit, AttemptsNeverFall
  <1>2. CASE ~\E w \in Workers : FinishPublished(w)
    BY <1>2, PublishedBesides
  <1> QED BY <1>1, <1>2

\* The invariant of publication: the claims of processing.py's workers, their
\* locks, snapshots, staged rows and commits fit together, for any number of
\* workers and files, chunk size and number of crashes.
THEOREM PublicationInvariant == Spec => []PublicationInv
  <1>1. Init => PublicationInv
    BY ClaimsStart, BelongStart, LocksStart, StagedStart, KeysStart, StagingStart,
       ProgressStart, PublishedStart DEF PublicationInv
  <1>2. PublicationInv /\ [Next]_vars => PublicationInv'
    BY ClaimsStep, BelongStep, LocksStep, StagedKnownStep, KeysStep,
       StagingProgressStep, ProgressStep, PublishedStep DEF PublicationInv
  <1> QED BY <1>1, <1>2, PTL DEF Spec

\* Type correctness: the rows and the workers' records of processing.py keep
\* their fields, and those that are counted with keep their types.
THEOREM TypeCorrect == Spec => []TypeOK
  <1>1. PublicationInv => TypeOK
    BY DEF PublicationInv, Claims
  <1> QED BY <1>1, PublicationInvariant, PTL

\* business_data_sales_source_unique is never violated by a commit, pooler or
\* not: (source_system, source_record_id) identifies a fact.
THEOREM FactsHaveOneKey == Spec => []SourceRecordsUnique
  <1>1. PublicationInv => SourceRecordsUnique
    BY DEF PublicationInv, Keys
  <1> QED BY <1>1, PublicationInvariant, PTL

\* _publish_once is all or nothing: a published file has each row among the
\* facts with its value, and a file that is not published has left none.
THEOREM PublicationIsAtomic == Spec => []PublishedAsAWhole
  <1>1. PublicationInv => PublishedAsAWhole
    BY DEF PublicationInv, Published
  <1> QED BY <1>1, PublicationInvariant, PTL

\* The counters that _publish_once stores with the result account for every row
\* of the file once, and for every fact it brought.
THEOREM CountersAreExact == Spec => []CountsAddUp
  <1>1. PublicationInv => CountsAddUp
    BY DEF PublicationInv, Published
  <1> QED BY <1>1, PublicationInvariant, PTL

\* The outcomes and links of SalesImportStagedRow tell which rows made their
\* fact, and only the rows of the attempt that was published have any.
THEOREM LinksAreTrue == Spec => []LinksAreRight
  <1>1. PublicationInv => LinksAreRight
    BY DEF PublicationInv, Published
  <1> QED BY <1>1, PublicationInvariant, PTL

\* The _PublicationRejected branches of _link_or_insert_chunk are dead code.
THEOREM ConflictBranchIsDead == Spec => []LinkingNeverConflicts
  <1>1. PublicationInv => LinkingNeverConflicts
    <2> SUFFICES ASSUME PublicationInv, NEW w \in Workers, worker[w].pc = "linking",
                        NEW n \in StagedNumbers(w)
                 PROVE  ~Conflicts(w, Rows(w)[n], VisibleFacts(w))
      BY DEF LinkingNeverConflicts, At
    <2>1. n \in 1..Len(Rows(w))
      BY DEF PublicationInv, StagingProgress, HasStaged, InTransaction
    <2>2. NoConflictUpTo(w, Len(Rows(w)))
      BY DEF PublicationInv, PublicationProgress, HasLinked
    <2> QED BY <2>1, <2>2 DEF NoConflictUpTo
  <1> QED BY <1>1, PublicationInvariant, PTL

\* _source_session_lock serializes the publications of a source system, and no
\* insert is ever refused, as long as no pooler breaks the session locks.
THEOREM SessionLocksSerialize == Spec => []PublicationsSerialized
  <1>1. PublicationInv => PublicationsSerialized
    <2> SUFFICES ASSUME PublicationInv, ~pooled
                 PROVE  /\ \A s \in Sources : Cardinality(holders[s]) <= 1
                        /\ \A w \in Workers : ~worker[w].retried
      BY DEF PublicationsSerialized
    <2>1. SessionsApart
      BY DEF PublicationInv, Locks
    <2>2. ASSUME NEW s \in Sources
          PROVE  Cardinality(holders[s]) <= 1
      <3>1. \A v, w \in holders[s] : v = w
        BY <2>1 DEF SessionsApart
      <3>2. CASE holders[s] = {}
        BY <3>2, FS_EmptySet
      <3>3. CASE holders[s] # {}
        <4>1. PICK w : holders[s] = {w}
          BY <3>1, <3>3
        <4>2. Cardinality({w}) = 1
          BY FS_Singleton
        <4> QED BY <4>1, <4>2
      <3> QED BY <3>2, <3>3
    <2> QED BY <2>1, <2>2 DEF SessionsApart
  <1> QED BY <1>1, PublicationInvariant, PTL

\* A session holds the lock of a source exactly as long as its worker publishes
\* a file of that source, whatever fails in between.
THEOREM LocksFollowUse == Spec => []LocksAreInUse
  <1>1. PublicationInv => LocksAreInUse
    BY DEF PublicationInv, Locks
  <1> QED BY <1>1, PublicationInvariant, PTL

-----------------------------------------------------------------------------
(***************************************************************************)
(* The evidence of attempts that are over.                                 *)
(***************************************************************************)

\* Only a batch, and the end of a publication that found issues, store issues.
LEMMA IssueChanges ==
  ASSUME [Next]_vars
  PROVE  UNCHANGED issues \/ \E w \in Workers :
           StageChunk(w) \/ StageRest(w) \/ FinishInvalid(w)
  <1>1. CASE \E j \in Jobs : QueueStep(j)
    BY <1>1 DEF QueueStep, MarkExhausted, RequeueJob, Claim
  <1>2. CASE \E w \in Workers : StagingStep(w) \/ PublicationStep(w) \/ FailureStep(w)
    <2>1. PICK w \in Workers : StagingStep(w) \/ PublicationStep(w) \/ FailureStep(w)
      BY <1>2
    <2>2. UNCHANGED issues \/ StageChunk(w) \/ StageRest(w) \/ FinishInvalid(w)
      BY <2>1 DEF StagingStep, RejectFile, PublicationStep,
         AcquireSourceLock, BeginPublication, ValidateChunk, FinishPublished, LinkChunk,
         UniqueViolation, UnlockSource, FailureStep, RetryableError,
         ScheduleRetry, ClaimLost, Crash
    <2> QED BY <2>2
  <1>3. CASE (\E r \in Refs : EditMasterData(r)) \/ UNCHANGED vars
    BY <1>3 DEF EditMasterData, vars
  <1> QED BY <1>1, <1>2, <1>3 DEF Next

\* The attempt of a claim that is over.
Over(j, n) ==
    n < job[j].attempt \/ (n = job[j].attempt /\ job[j].status # "held")

LEMMA OwnersAreNotOver ==
  ASSUME Claims, NEW w \in Workers, Busy(w), Owns(w), NEW j, NEW n, Over(j, n)
  PROVE  ~(worker[w].job = j /\ worker[w].attempt = n)
  BY DEF Over, Owns, Claims, TypeOK, ClaimsAreKnown

LEMMA StagedSealed ==
  ASSUME PublicationInv, [Next]_vars, NEW j \in Jobs, NEW n, Over(j, n)
  PROVE  {r \in staged' : r.job = j /\ r.attempt = n}
           = {r \in staged : r.job = j /\ r.attempt = n}
  <1>0. Claims /\ TypeOK /\ ClaimsAreKnown /\ TransactionsOwn /\ StagedRowsKnown
    BY DEF PublicationInv, Claims
  <1>1. ASSUME NEW w \in Workers, StageChunk(w) \/ StageRest(w)
        PROVE  {r \in staged' : r.job = j /\ r.attempt = n}
                 = {r \in staged : r.job = j /\ r.attempt = n}
    <2>1. /\ Busy(w) /\ Owns(w)
          /\ \E first, last : staged' = staged \cup StagedRows(w, first, last)
      BY <1>0, <1>1, StageChunkEffect, StageRestEffect DEF Busy
    <2>2. PICK first, last : staged' = staged \cup StagedRows(w, first, last)
      BY <2>1
    <2>3. \A r \in StagedRows(w, first, last) : ~(r.job = j /\ r.attempt = n)
      BY <1>0, <2>1, OwnersAreNotOver DEF StagedRows
    <2> QED BY <2>2, <2>3
  <1>2. ASSUME NEW w \in Workers, FinishPublished(w)
        PROVE  {r \in staged' : r.job = j /\ r.attempt = n}
                 = {r \in staged : r.job = j /\ r.attempt = n}
    <2> DEFINE mine(t)   == t.job = worker[w].job /\ t.attempt = worker[w].attempt
               linked(t) == \E l \in worker[w].tx.linked : l.number = t.number
               chosen(t) == (CHOOSE l \in worker[w].tx.linked : l.number = t.number).outcome
               image(t)  == IF mine(t) /\ linked(t) THEN [t EXCEPT !.outcome = chosen(t)] ELSE t
    <2>1. InTransaction(w) /\ staged' = LinkedRows(w)
      BY <1>0, <1>2, FinishPublishedEffect DEF InTransaction
    <2>2. Busy(w) /\ Owns(w)
      BY <1>0, <2>1 DEF TransactionsOwn, InTransaction, Busy
    <2>3. staged' = {image(t) : t \in staged}
      BY <2>1 DEF LinkedRows
    <2>4. \A t : t.job = j /\ t.attempt = n => image(t) = t
      BY <1>0, <2>2, OwnersAreNotOver
    <2>5. \A t \in staged : image(t).job = t.job /\ image(t).attempt = t.attempt
      <3> HIDE DEF mine, linked, chosen
      <3> QED BY <1>0 DEF StagedRowsKnown, StagedRowKnown
    <2> HIDE DEF image
    <2> QED BY <2>3, <2>4, <2>5
  <1> QED BY <1>1, <1>2, StagedChanges

LEMMA IssuesSealed ==
  ASSUME PublicationInv, [Next]_vars, NEW j \in Jobs, NEW n, Over(j, n)
  PROVE  {i \in issues' : i.job = j /\ i.attempt = n}
           = {i \in issues : i.job = j /\ i.attempt = n}
  <1>0. /\ Claims /\ TypeOK /\ ClaimsAreKnown /\ TransactionsOwn
        /\ \A w \in Workers : Belongs(w)
    BY DEF PublicationInv, Claims, TransactionsBelong
  <1>1. \E new :
          /\ issues' = issues \cup new
          /\ \A i \in new : ~(i.job = j /\ i.attempt = n)
    <2>1. CASE UNCHANGED issues
      <3> DEFINE none == {}
      <3>1. issues' = issues \cup none /\ \A i \in none : ~(i.job = j /\ i.attempt = n)
        BY <2>1
      <3> HIDE DEF none
      <3> QED BY <3>1
    <2>2. CASE \E w \in Workers : StageChunk(w) \/ StageRest(w)
      <3>1. PICK w \in Workers : StageChunk(w) \/ StageRest(w)
        BY <2>2
      <3>2. Busy(w) /\ Owns(w) /\ \E found : issues' = issues \cup IssueRows(w, found)
        BY <1>0, <3>1, StageChunkEffect, StageRestEffect DEF Busy
      <3>3. \A found : \A i \in IssueRows(w, found) : ~(i.job = j /\ i.attempt = n)
        BY <1>0, <3>2, OwnersAreNotOver DEF IssueRows
      <3> QED BY <3>2, <3>3
    <2>3. CASE \E w \in Workers : FinishInvalid(w)
      <3>1. PICK w \in Workers : FinishInvalid(w)
        BY <2>3
      <3> DEFINE rest == IssueRows(w, Persisted(Drained(worker[w].collector)))
      <3>2. InTransaction(w) /\ issues' = issues \cup (worker[w].tx.issues \cup rest)
        BY <1>0, <3>1, FinishInvalidEffect DEF InTransaction
      <3>3. Busy(w) /\ Owns(w)
        BY <1>0, <3>2 DEF TransactionsOwn, InTransaction, Busy
      <3>4. \A i \in worker[w].tx.issues \cup rest : ~(i.job = j /\ i.attempt = n)
        BY <1>0, <3>3, OwnersAreNotOver DEF IssueRows, Belongs
      <3> HIDE DEF rest
      <3> QED BY <3>2, <3>4
    <2> QED BY <2>1, <2>2, <2>3, IssueChanges
  <1>2. PICK new :
          /\ issues' = issues \cup new
          /\ \A i \in new : ~(i.job = j /\ i.attempt = n)
    BY <1>1
  <1> QED BY <1>2

\* A worker that lost its claim adds nothing to the staged rows and the issues
\* of an attempt that is over, and a commit changes those of its own only.
THEOREM EvidenceStaysSealed == Spec => EvidenceIsSealed
  <1>1. PublicationInv /\ [Next]_vars =>
          [\A j \in Jobs, n \in 1..AttemptLimit :
             n < job[j].attempt \/ (n = job[j].attempt /\ job[j].status # "held") =>
                 /\ {r \in staged' : r.job = j /\ r.attempt = n} =
                        {r \in staged : r.job = j /\ r.attempt = n}
                 /\ {i \in issues' : i.job = j /\ i.attempt = n} =
                        {i \in issues : i.job = j /\ i.attempt = n}]_<<staged, issues>>
    BY StagedSealed, IssuesSealed DEF Over
  <1> QED BY <1>1, PublicationInvariant, PTL DEF Spec, EvidenceIsSealed

-----------------------------------------------------------------------------
(***************************************************************************)
(* Conflicts are reported, as long as no detail is lost.                   *)
(***************************************************************************)

\* InOrder counts the members of a set of numbers: each once, and none is left.
LEMMA InOrderMembers ==
  ASSUME NEW n \in Nat, NEW S \in SUBSET (1..n)
  PROVE  LET N == Cardinality(S)
         IN  /\ N \in Nat /\ N <= n
             /\ DOMAIN InOrder(S) = 1..N
             /\ \A m \in 1..N : InOrder(S)[m] \in S
             /\ \A j, m \in 1..N : InOrder(S)[j] = InOrder(S)[m] => j = m
             /\ \A k \in S : \E m \in 1..N : InOrder(S)[m] = k
  <1> DEFINE below(k) == {m \in S : m < k}
             N        == Cardinality(S)
             f        == [k \in S |-> Cardinality(below(k)) + 1]
             g        == InOrder(S)
  <1>1. IsFiniteSet(S) /\ N \in Nat /\ N <= n
    <2>1. IsFiniteSet(1..n) /\ Cardinality(1..n) = n
      BY FS_Interval
    <2>2. IsFiniteSet(S) /\ Cardinality(S) <= Cardinality(1..n)
      BY <2>1, FS_Subset
    <2> QED BY <2>1, <2>2, FS_CardinalityType
  <1>2. \A k \in S : IsFiniteSet(below(k)) /\ Cardinality(below(k)) \in Nat
    BY <1>1, FS_Subset, FS_CardinalityType
  <1>3. \A j, k \in S : j < k => Cardinality(below(j)) < Cardinality(below(k))
    <2> SUFFICES ASSUME NEW j \in S, NEW k \in S, j < k
                 PROVE  Cardinality(below(j)) < Cardinality(below(k))
      OBVIOUS
    <2>1. below(j) \subseteq below(k) /\ j \in below(k) /\ j \notin below(j)
      <3>1. \A m \in S : m \in Int
        OBVIOUS
      <3>2. \A m \in S : m < j => m < k
        BY <3>1
      <3>3. below(j) \subseteq below(k)
        BY <3>2
      <3>4. j \in below(k)
        OBVIOUS
      <3>5. ~(j < j)
        BY <3>1
      <3>6. j \notin below(j)
        BY <3>5
      <3> QED BY <3>3, <3>4, <3>6
    <2> HIDE DEF below
    <2>2. /\ Cardinality(below(j)) <= Cardinality(below(k))
          /\ Cardinality(below(j)) # Cardinality(below(k))
      BY <1>2, <2>1, FS_Subset
    <2> QED BY <1>2, <2>2
  <1>4. \A k \in S : Cardinality(below(k)) < N
    <2> SUFFICES ASSUME NEW k \in S PROVE Cardinality(below(k)) < N
      OBVIOUS
    <2>1. below(k) \subseteq S /\ k \in S /\ k \notin below(k)
      OBVIOUS
    <2> HIDE DEF below
    <2>2. Cardinality(below(k)) <= N /\ Cardinality(below(k)) # N
      BY <1>1, <2>1, FS_Subset
    <2> QED BY <1>1, <1>2, <2>2
  <1>5. DOMAIN g = 1..N /\ \A m \in 1..N : g[m] = CHOOSE k \in S : Cardinality(below(k)) = m - 1
    BY DEF InOrder
  <1> HIDE DEF below, N, g
  <1>6. f \in [S -> 1..N]
    BY <1>1, <1>2, <1>4
  <1>7. \A j, k \in S : f[j] = f[k] => j = k
    <2>1. \A j, k \in S : ~(j < k) /\ ~(k < j) => j = k
      OBVIOUS
    <2> QED BY <1>2, <1>3, <2>1
  <1>8. f \in Injection(S, 1..N)
    BY <1>6, <1>7 DEF Injection, IsInjective
  <1>9. IsFiniteSet(1..N) /\ Cardinality(1..N) = N
    BY <1>1, FS_Interval
  <1>10. f \in Surjection(S, 1..N)
    <2>1. Cardinality(S) = Cardinality(1..N)
      BY <1>9 DEF N
    <2> HIDE DEF f
    <2> QED BY <1>8, <1>9, <2>1, FS_Injection
  <1>11. \A m \in 1..N : \E k \in S : Cardinality(below(k)) = m - 1
    <2> SUFFICES ASSUME NEW m \in 1..N
                 PROVE  \E k \in S : Cardinality(below(k)) = m - 1
      OBVIOUS
    <2>1. PICK k \in S : f[k] = m
      BY <1>10 DEF Surjection
    <2>2. Cardinality(below(k)) + 1 = m
      BY <2>1
    <2> QED BY <1>2, <2>2
  <1>12. \A m \in 1..N : g[m] \in S /\ Cardinality(below(g[m])) = m - 1
    BY <1>5, <1>11
  <1>13. \A j, m \in 1..N : g[j] = g[m] => j = m
    <2> SUFFICES ASSUME NEW j \in 1..N, NEW m \in 1..N, g[j] = g[m]
                 PROVE  j = m
      OBVIOUS
    <2>1. j - 1 = m - 1
      BY <1>12
    <2> QED BY <1>1, <2>1
  <1>14. \A k \in S : \E m \in 1..N : g[m] = k
    <2> SUFFICES ASSUME NEW k \in S PROVE \E m \in 1..N : g[m] = k
      OBVIOUS
    <2>1. f[k] \in 1..N /\ f[k] = Cardinality(below(k)) + 1
      BY <1>6
    <2> HIDE DEF f
    <2>2. g[f[k]] \in S /\ Cardinality(below(g[f[k]])) = f[k] - 1
      BY <1>12, <2>1
    <2>3. f[g[f[k]]] = f[k]
      <3>1. f[g[f[k]]] = Cardinality(below(g[f[k]])) + 1
        BY <2>2 DEF f
      <3> QED BY <1>2, <2>1, <2>2, <3>1
    <2>4. g[f[k]] = k
      BY <1>7, <2>2, <2>3
    <2> QED BY <2>1, <2>4
  <1> QED BY <1>1, <1>5, <1>12, <1>13, <1>14 DEF N, g

\* A collector that was drained and has lost nothing.
NothingLost(c, count) ==
    /\ CollectorShape(c)
    /\ c.kept = <<>> /\ c.pending = {}
    /\ c.details = c.total
    /\ c.total <= count

\* Each code is that of an issue.
NamesAll(kept, codes) ==
    \A k \in 1..Len(codes) : codes[k] # "" =>
        \E m \in 1..Len(kept) : kept[m].code = codes[k]

\* With room for an issue of each row, the issues of a chunk are all handed over.
LEMMA KeepsAll ==
  ASSUME NEW c, NEW count \in Nat, NothingLost(c, count),
         NEW first \in Nat, NEW codes, Len(codes) \in Nat,
         count + Len(codes) <= DetailLimit
  PROVE  LET d == Added(c, IssuesOf(first, codes))
         IN  /\ NothingLost(Drained(d), count + Len(codes))
             /\ NamesAll(d.kept, codes)
             /\ d.total \in Nat
  <1> DEFINE P     == {k \in 1..Len(codes) : codes[k] # ""}
             N     == Cardinality(P)
             hits  == InOrder(P)
             found == IssuesOf(first, codes)
             F     == Fresh(c, found)
             room  == DetailLimit - c.details
             new   == [n \in 1..N |-> found[InOrder(1..N)[n]]]
             d     == Added(c, found)
  <1>1. /\ N \in Nat /\ N <= Len(codes)
        /\ DOMAIN hits = 1..N
        /\ \A m \in 1..N : hits[m] \in P
        /\ \A j, m \in 1..N : hits[j] = hits[m] => j = m
        /\ \A k \in P : \E m \in 1..N : hits[m] = k
    <2>1. P \in SUBSET (1..Len(codes))
      OBVIOUS
    <2> HIDE DEF P
    <2> QED BY <2>1, InOrderMembers
  <1>2. found = [m \in 1..N |-> Issue(first + hits[m] - 1, "__row__", codes[hits[m]])]
    BY <1>1 DEF IssuesOf
  <1>count. N \in Nat /\ N <= Len(codes)
    BY <1>1
  <1>places. \A m \in 1..N : hits[m] \in Nat
    <2>1. \A k \in P : k \in Nat
      <3>1. \A n \in Nat : \A k \in 1..n : k \in Nat
        OBVIOUS
      <3>2. \A k \in 1..Len(codes) : k \in Nat
        BY <3>1
      <3> QED BY <3>2, Zenon
    <2>2. \A m \in 1..N : hits[m] \in P
      BY <1>1
    <2> HIDE DEF P, hits, N
    <2> QED BY <2>1, <2>2
  <1> HIDE DEF hits, N, found
  <1>3. Len(found) = N
    BY <1>count, <1>2
  <1>4. \A m \in 1..N : found[m].row = first + hits[m] - 1 /\ found[m].code = codes[hits[m]]
    BY <1>2 DEF Issue
  <1>5. \A j, m \in 1..N : found[j] = found[m] => j = m
    <2> SUFFICES ASSUME NEW j \in 1..N, NEW m \in 1..N, found[j] = found[m]
                 PROVE  j = m
      OBVIOUS
    <2>1. hits[j] \in Nat /\ hits[m] \in Nat
      BY <1>places
    <2>2. first + hits[j] - 1 = first + hits[m] - 1
      BY <1>4
    <2>3. hits[j] = hits[m]
      BY <2>1, <2>2
    <2> QED BY <1>1, <2>3
  <1>6. F = 1..N
    <2>1. \A k \in 1..N : \A m \in 1..k-1 : m \in 1..N /\ m # k
      BY <1>count
    <2>2. \A k \in 1..N : found[k] \notin c.pending
      BY DEF NothingLost
    <2> QED BY <1>3, <1>5, <2>1, <2>2 DEF Fresh
  <1>7. Cardinality(1..N) = N
    BY <1>count, FS_Interval
  <1>8. c.total \in Nat /\ DetailLimit \in Nat /\ N <= room
    BY <1>count, MaxIssuesAssumption DEF NothingLost, CollectorShape, DetailLimit
  <1>9. d = [c EXCEPT !.pending = @ \cup {found[k] : k \in 1..N},
                      !.total = @ + N,
                      !.kept = @ \o new,
                      !.details = @ + N,
                      !.truncated = @ \/ N > room]
    BY <1>6, <1>7, <1>8 DEF Added
  <1>10. /\ DOMAIN InOrder(1..N) = 1..N
         /\ \A m \in 1..N : InOrder(1..N)[m] \in 1..N
         /\ \A k \in 1..N : \E m \in 1..N : InOrder(1..N)[m] = k
    BY <1>1, <1>7, InOrderMembers
  <1> HIDE DEF P, F, room
  <1>11. <<>> \o new = new /\ Len(new) = N
    <2> DEFINE S == {found[k] : k \in 1..N}
    <2>1. new \in [1..N -> S]
      BY <1>10
    <2>2. new \in Seq(S) /\ Len(new) = N
      BY SMTT(30), <1>count, <2>1
    <2> HIDE DEF S, new
    <2> QED BY <2>2
  <1>12. \A k \in 1..N : \E m \in 1..N : new[m] = found[k]
    BY <1>10
  <1> HIDE DEF new, d
  <1>13. d.kept = new /\ d.total = c.total + N /\ d.details = c.details + N
         /\ DOMAIN d = DOMAIN c
    BY <1>9, <1>11 DEF NothingLost, CollectorShape, NewCollector
  <1>14. NothingLost(Drained(d), count + Len(codes))
    <2>1. CollectorShape(d)
      BY <1>1, <1>8, <1>13 DEF NothingLost, CollectorShape
    <2>2. /\ CollectorShape(Drained(d)) /\ Drained(d).pending = {}
          /\ Drained(d).total = d.total
      BY <2>1, DrainedCollector
    <2>3. Drained(d).kept = <<>> /\ Drained(d).details = d.details
      BY <2>1 DEF Drained, CollectorShape, NewCollector
    <2>4. c.total + N <= count + Len(codes)
      BY <1>1, <1>8 DEF NothingLost
    <2> QED BY <1>13, <2>2, <2>3, <2>4 DEF NothingLost
  <1>15. NamesAll(d.kept, codes)
    <2> SUFFICES ASSUME NEW k \in 1..Len(codes), codes[k] # ""
                 PROVE  \E m \in 1..N : new[m].code = codes[k]
      BY <1>11, <1>13 DEF NamesAll
    <2>1. PICK m \in 1..N : hits[m] = k
      BY <1>1 DEF P
    <2>2. found[m].code = codes[k]
      BY <1>4, <2>1
    <2> QED BY <1>12, <2>2
  <1>16. d.total \in Nat
    BY <1>count, <1>8, <1>13
  <1> QED BY <1>14, <1>15, <1>16 DEF d, found

\* Every issue of every file is stored in detail.
EveryDetailFits == \A j \in Jobs : \A f \in Files[j] : Len(f.rows) <= DetailLimit

InConflict(w, n) == DatabaseIssue(w, Rows(w)[n]) = "SOURCE_RECORD_CONFLICT"

Reports(i, j) == i.job = j /\ i.issue.code = "SOURCE_RECORD_CONFLICT"

ConflictsReported(w, last) ==
    (\E n \in 1..last : InConflict(w, n)) =>
        \E i \in worker[w].tx.issues : Reports(i, worker[w].job)

\* A transaction knows of a conflict among the rows it has validated.
HasReported(w) ==
    /\ worker[w].pc = "validating" =>
         /\ NothingLost(worker[w].collector, worker[w].next - 1)
         /\ ConflictsReported(w, worker[w].next - 1)
    /\ worker[w].pc = "invalid" => ConflictsReported(w, Len(Rows(w)))

ReportingProgress == \A w \in Workers : HasReported(w)

\* A job that was rejected for a conflict says so in its issues.
ConflictsAreStored == \A j \in conflicted : j \in Jobs /\ HasConflictIssue(j)

LEMMA ReportsByValidation ==
  ASSUME Claims, NEW w \in Workers, HasStaged(w), HasValidated(w), HasReported(w),
         ValidateChunk(w), UNCHANGED file, Len(Rows(w)) <= DetailLimit
  PROVE  HasReported(w)'
  <1>0. TypeOK /\ worker[w].pc = "validating" /\ worker[w].job \in Jobs
    BY DEF Claims, ClaimsAreKnown, Busy, ValidateChunk, At
  <1>last. PICK last \in Nat : last = LastOfChunk(w)
    BY <1>0, LastOfChunkTyped
  <1> DEFINE first == worker[w].next
             codes == [k \in 1..(last + 1 - first) |->
                         IF first + k - 1 \in Chunk(w)
                         THEN DatabaseIssue(w, Rows(w)[first + k - 1]) ELSE ""]
             d     == Added(worker[w].collector, IssuesOf(first, codes))
             more  == IssueRows(w, d.kept)
  <1>1. /\ worker'[w].job = worker[w].job
        /\ worker'[w].pc = CASE ~IsLastChunk(w) -> "validating"
                             [] IsLastChunk(w) /\ d.total > 0 -> "invalid"
                             [] OTHER -> "linking"
        /\ worker'[w].next = IF IsLastChunk(w) THEN 1 ELSE last + 1
        /\ worker'[w].collector = Drained(d)
        /\ worker'[w].tx = [worker[w].tx EXCEPT !.issues = @ \cup more]
    BY <1>0, <1>last, ValidateChunkEffect DEF SameClaim
  <1>2. /\ Chunk(w) = first..last /\ first \in Nat \ {0}
        /\ Len(Rows(w)) \in Nat /\ last <= Len(Rows(w))
    BY <1>0, <1>last, ChunkIsWhole DEF InTransaction
  <1>3. last + 1 - first \in Nat
    <2>1. last < Len(Rows(w)) => last >= first
      BY <1>0, <1>last, LastOfChunkTyped
    <2>2. first <= Len(Rows(w)) + 1
      BY <1>0 DEF HasValidated
    <2> HIDE DEF first
    <2> QED BY <1>2, <2>1, <2>2
  <1>4. Len(codes) = last + 1 - first
    <2>1. codes = [k \in 1..(last + 1 - first) |-> codes[k]]
      OBVIOUS
    <2> HIDE DEF codes, first
    <2> QED BY <1>3, <2>1, TableOfLength
  <1>5. \A k \in 1..(last + 1 - first) :
          codes[k] = IF first + k - 1 \in Chunk(w)
                     THEN DatabaseIssue(w, Rows(w)[first + k - 1]) ELSE ""
    OBVIOUS
  <1> HIDE DEF codes, first
  <1>6. /\ NothingLost(Drained(d), last)
        /\ NamesAll(d.kept, codes) /\ d.total \in Nat
    <2>1. NothingLost(worker[w].collector, first - 1) /\ first - 1 \in Nat
      BY <1>0, <1>2 DEF HasReported, first
    <2>2. Len(codes) \in Nat /\ (first - 1) + Len(codes) = last
      BY <1>2, <1>3, <1>4
    <2>3. DetailLimit \in Nat
      BY MaxIssuesAssumption DEF DetailLimit
    <2>4. (first - 1) + Len(codes) <= DetailLimit
      BY <1>2, <2>2, <2>3
    <2>5. /\ NothingLost(Drained(d), (first - 1) + Len(codes))
          /\ NamesAll(d.kept, codes) /\ d.total \in Nat
      <3> DEFINE count == first - 1
      <3>1. /\ count \in Nat /\ first \in Nat /\ Len(codes) \in Nat
            /\ NothingLost(worker[w].collector, count)
            /\ count + Len(codes) <= DetailLimit
        BY <1>2, <2>1, <2>2, <2>4
      <3> HIDE DEF count
      <3>2. /\ NothingLost(Drained(d), count + Len(codes))
            /\ NamesAll(d.kept, codes) /\ d.total \in Nat
        BY <3>1, KeepsAll
      <3> QED BY <3>2 DEF count
    <2> QED BY <2>2, <2>5
  <1> HIDE DEF d, more
  <1>7. /\ worker'[w].tx.issues = worker[w].tx.issues \cup more
        /\ worker'[w].tx.facts = worker[w].tx.facts
        /\ worker'[w].tx.missing = worker[w].tx.missing
        /\ worker'[w].tx.inserted = worker[w].tx.inserted
    BY <1>0, <1>1 DEF TypeOK, NoTx
  <1>8. Rows(w)' = Rows(w) /\ \A n : InConflict(w, n)' <=> InConflict(w, n)
    BY SMTT(30), <1>1, <1>7 DEF InConflict, DatabaseIssue, Conflicts, FactsOf, Source, Rows, VisibleFacts
  <1>9. ConflictsReported(w, last)'
    <2> SUFFICES ASSUME NEW n \in 1..last, InConflict(w, n)
                 PROVE  \E i \in worker'[w].tx.issues : Reports(i, worker[w].job)
      BY <1>1, <1>8 DEF ConflictsReported, Reports
    <2>1. CASE n < first
      <3>1. n \in 1..(worker[w].next - 1)
        BY <1>2, <2>1 DEF first
      <3>2. \E i \in worker[w].tx.issues : Reports(i, worker[w].job)
        BY <1>0, <3>1 DEF HasReported, ConflictsReported
      <3> QED BY <1>7, <3>2
    <2>2. CASE n >= first
      <3>1. n + 1 - first \in 1..Len(codes) /\ first + (n + 1 - first) - 1 = n
        BY <1>2, <1>4, <2>2
      <3>2. PICK k \in 1..Len(codes) : first + k - 1 = n
        BY <3>1
      <3>3. n \in Chunk(w)
        BY <1>2, <2>2
      <3>4. codes[k] = "SOURCE_RECORD_CONFLICT"
        BY <1>4, <1>5, <3>2, <3>3 DEF InConflict
      <3>5. PICK m \in 1..Len(d.kept) : d.kept[m].code = "SOURCE_RECORD_CONFLICT"
        BY <1>6, <3>4 DEF NamesAll
      <3> DEFINE i == [job |-> worker[w].job, attempt |-> worker[w].attempt,
                       issue |-> d.kept[m]]
      <3>6. i \in more /\ Reports(i, worker[w].job)
        BY <3>5 DEF more, IssueRows, Reports
      <3> QED BY <1>7, <3>6
    <2> QED BY <1>2, <2>1, <2>2
  <1>10. worker'[w].pc = "validating" => worker'[w].next - 1 = last
    BY <1>1, <1>2
  <1>11. worker'[w].pc = "invalid" => last = Len(Rows(w))
    <2>1. worker'[w].pc = "invalid" => IsLastChunk(w)
      <3>1. worker'[w].pc = CASE ~IsLastChunk(w) -> "validating"
                             [] IsLastChunk(w) /\ d.total > 0 -> "invalid"
                             [] OTHER -> "linking"
        BY <1>1
      <3>2. d.total \in Nat
        BY <1>6
      <3>3. CASE IsLastChunk(w)
        BY <3>3
      <3>4. CASE ~IsLastChunk(w)
        <4>1. worker'[w].pc = "validating"
          BY <3>1, <3>2, <3>4
        <4> QED BY <4>1
      <3> QED BY <3>3, <3>4
    <2> QED BY <1>last, <2>1 DEF IsLastChunk
  <1> QED BY <1>1, <1>6, <1>8, <1>9, <1>10, <1>11 DEF HasReported, ConflictsReported

LEMMA ReportsStart == Init => ReportingProgress /\ ConflictsAreStored
  BY DEF Init, ReportingProgress, HasReported, Idle, ConflictsAreStored

LEMMA ReportsNone ==
  ASSUME NEW v \in Workers, worker'[v].pc \notin {"validating", "invalid"}
  PROVE  HasReported(v)'
  BY DEF HasReported

LEMMA ReportsBesides ==
  ASSUME NEW v \in Workers, worker'[v] = worker[v], UNCHANGED file, HasReported(v)
  PROVE  HasReported(v)'
  <1>1. Rows(v)' = Rows(v) /\ \A n : InConflict(v, n)' <=> InConflict(v, n)
    BY DEF InConflict, DatabaseIssue, Conflicts, FactsOf, Source, Rows, VisibleFacts
  <1> QED BY <1>1 DEF HasReported, ConflictsReported

\* A transaction begins with nothing found in no row.
LEMMA ReportsFromStart ==
  ASSUME NEW v \in Workers, worker'[v].pc = "validating", worker'[v].next = 1,
         worker'[v].collector = NewCollector
  PROVE  HasReported(v)'
  <1>1. NothingLost(NewCollector, 0)
    BY DEF NothingLost, NewCollector, CollectorShape
  <1>2. worker'[v].next - 1 = 0 /\ 1..0 = {}
    OBVIOUS
  <1>3. ConflictsReported(v, worker[v].next - 1)'
    BY <1>2 DEF ConflictsReported
  <1>4. NothingLost(worker'[v].collector, worker'[v].next - 1)
    BY <1>1, <1>2
  <1> QED BY <1>3, <1>4 DEF HasReported

LEMMA ReportingStep ==
  ASSUME EveryDetailFits
  PROVE  PublicationInv /\ ReportingProgress /\ [Next]_vars => ReportingProgress'
  <1> SUFFICES ASSUME PublicationInv, ReportingProgress, [Next]_vars, NEW v \in Workers
               PROVE  HasReported(v)'
    BY DEF ReportingProgress
  <1>0. /\ Claims /\ TypeOK /\ ClaimsAreKnown /\ UNCHANGED file
        /\ HasStaged(v) /\ HasValidated(v) /\ HasReported(v)
    BY AttemptsNeverFall
    DEF PublicationInv, Claims, StagingProgress, PublicationProgress, ReportingProgress
  <1>1. CASE StagingStep(v) \/ PublicationStep(v) \/ FailureStep(v)
    <2>1. CASE ValidateChunk(v)
      <3>1. PICK j \in Jobs : j = worker[v].job
        BY <1>0, <2>1 DEF ValidateChunk, At, ClaimsAreKnown, Busy
      <3>2. file[j] \in Files[j]
        BY <1>0 DEF TypeOK
      <3>3. Len(Rows(v)) <= DetailLimit
        BY <3>1, <3>2 DEF EveryDetailFits, Rows
      <3> QED BY <1>0, <2>1, <3>3, ReportsByValidation
    <2>2. CASE BeginPublication(v)
      <3>1. /\ worker'[v].pc = "validating" /\ worker'[v].next = 1
            /\ worker'[v].collector = NewCollector
        BY <1>0, <2>2, BeginPublicationEffect
      <3> QED BY <3>1, ReportsFromStart
    <2>3. CASE \/ StageChunk(v) \/ StageRest(v) \/ AcquireSourceLock(v)
               \/ UniqueViolation(v) \/ FinishInvalid(v) \/ FinishPublished(v)
               \/ RetryableError(v) \/ LinkChunk(v)
      <3>1. worker'[v].pc \in {"staging", "staged", "locked", "retrying", "unlocking",
                               "linking", "linked"}
        BY ZenonT(60), <1>0, <2>3, StageChunkEffect, StageRestEffect, AcquireSourceLockEffect,
           UniqueViolationEffect, FinishInvalidEffect, FinishPublishedEffect,
           RetryableErrorEffect, LinkChunkEffect
      <3> QED BY <3>1, ReportsNone
    <2>4. CASE RejectFile(v) \/ ScheduleRetry(v) \/ UnlockSource(v) \/ ClaimLost(v) \/ Crash(v)
      <3>1. worker'[v] = Idle
        BY <1>0, <2>4, RejectFileEffect, ScheduleRetryEffect, EndOfWorkEffect DEF DropsClaim
      <3> QED BY <3>1, ReportsNone DEF Idle
    <2> QED
      BY <1>1, <2>1, <2>2, <2>3, <2>4 DEF StagingStep, PublicationStep, FailureStep
  <1>2. CASE \E j \in Jobs : Claim(v, j)
    <2>1. PICK j \in Jobs : Claim(v, j)
      BY <1>2
    <2>2. worker'[v] = [Idle EXCEPT !.pc = "staging", !.job = j,
                                    !.attempt = job[j].attempt + 1]
      BY <1>0, <2>1, ClaimEffect
    <2>3. worker'[v].pc = "staging"
      BY <2>2 DEF Idle
    <2> QED BY <2>3, ReportsNone
  <1>3. CASE worker'[v] = worker[v]
    BY <1>0, <1>3, ReportsBesides
  <1> QED BY <1>0, <1>1, <1>2, <1>3, OthersStay

\* Only a rejection for a conflict is remembered.
LEMMA ConflictChanges ==
  ASSUME [Next]_vars
  PROVE  UNCHANGED conflicted \/ \E w \in Workers : FinishInvalid(w)
  <1>1. CASE \E j \in Jobs : QueueStep(j)
    BY <1>1 DEF QueueStep, MarkExhausted, RequeueJob, Claim
  <1>2. CASE \E w \in Workers : StagingStep(w) \/ PublicationStep(w) \/ FailureStep(w)
    <2>1. PICK w \in Workers : StagingStep(w) \/ PublicationStep(w) \/ FailureStep(w)
      BY <1>2
    <2>2. UNCHANGED conflicted \/ FinishInvalid(w)
      BY <2>1 DEF StagingStep, StageChunk, StageRest, RejectFile, PublicationStep,
         AcquireSourceLock, BeginPublication, ValidateChunk, FinishPublished, LinkChunk,
         UniqueViolation, UnlockSource, FailureStep, RetryableError,
         ScheduleRetry, ClaimLost, Crash
    <2> QED BY <2>2
  <1>3. CASE (\E r \in Refs : EditMasterData(r)) \/ UNCHANGED vars
    BY <1>3 DEF EditMasterData, vars
  <1> QED BY <1>1, <1>2, <1>3 DEF Next

LEMMA IssuesGrow ==
  ASSUME TypeOK, [Next]_vars
  PROVE  issues \subseteq issues'
  BY IssueChanges, StageChunkEffect, StageRestEffect, FinishInvalidEffect

LEMMA StoringStep ==
  PublicationInv /\ ReportingProgress /\ ConflictsAreStored /\ [Next]_vars
    => ConflictsAreStored'
  <1> SUFFICES ASSUME PublicationInv, ReportingProgress, ConflictsAreStored, [Next]_vars
               PROVE  ConflictsAreStored'
    OBVIOUS
  <1>0. Claims /\ TypeOK /\ ClaimsAreKnown
    BY DEF PublicationInv, Claims
  <1>1. \A j : HasConflictIssue(j) => HasConflictIssue(j)'
    BY <1>0, IssuesGrow DEF HasConflictIssue
  <1>2. CASE UNCHANGED conflicted
    BY <1>1, <1>2 DEF ConflictsAreStored
  <1>3. CASE \E w \in Workers : FinishInvalid(w)
    <2>1. PICK w \in Workers : FinishInvalid(w)
      BY <1>3
    <2>job. PICK j \in Jobs : j = worker[w].job
      BY <1>0, <2>1 DEF FinishInvalid, At, ClaimsAreKnown, Busy
    <2> DEFINE found == \E n \in StagedNumbers(w) : InConflict(w, n)
    <2>2. conflicted' = IF found THEN conflicted \cup {j} ELSE conflicted
      BY <2>1, <2>job DEF FinishInvalid, InConflict
    <2>3. worker[w].pc = "invalid" /\ worker[w].tx.issues \subseteq issues'
      BY <1>0, <2>1, FinishInvalidEffect
    <2>4. found => HasConflictIssue(j)'
      <3> SUFFICES ASSUME found PROVE HasConflictIssue(j)'
        OBVIOUS
      <3>1. StagedNumbers(w) = 1..Len(Rows(w))
        BY <2>3 DEF PublicationInv, StagingProgress, HasStaged, InTransaction
      <3>2. \E i \in worker[w].tx.issues : Reports(i, j)
        BY <2>3, <2>job, <3>1 DEF ReportingProgress, HasReported, ConflictsReported
      <3>3. PICK i \in issues' : Reports(i, j)
        BY <2>3, <3>2
      <3> QED BY <3>3 DEF HasConflictIssue, Reports
    <2> HIDE DEF found
    <2>5. \A k \in conflicted' : k \in Jobs /\ HasConflictIssue(k)'
      BY <1>1, <2>2, <2>4 DEF ConflictsAreStored
    <2> QED BY <2>5 DEF ConflictsAreStored
  <1> QED BY <1>2, <1>3, ConflictChanges

\* A rejected job leaves its status only by an operator's command.
LEMMA RejectionsStay ==
  ASSUME Claims, [Next]_vars, NEW j \in Jobs, job[j].status = "rejected",
         HasConflictIssue(j)
  PROVE  job'[j].status = "rejected"
  <1>0. TypeOK /\ ClaimsAreKnown /\ TransactionsOwn
    BY DEF Claims
  <1>1. CASE \E i \in Jobs : QueueStep(i)
    <2>1. PICK i \in Jobs : QueueStep(i)
      BY <1>1
    <2>2. i # j
      BY <2>1 DEF QueueStep, MarkExhausted, RequeueJob, Claim
    <2>3. job'[j] = job[j]
      <3>1. CASE MarkExhausted(i) \/ RequeueJob(i)
        BY <1>0, <2>2, <3>1, OperatorEffect DEF OperatorStep
      <3>2. CASE \E w \in Workers : Claim(w, i)
        BY <1>0, <2>2, <3>2, ClaimEffect
      <3> QED BY <2>1, <3>1, <3>2 DEF QueueStep
    <2> QED BY <2>3
  <1>2. CASE \E w \in Workers : StagingStep(w) \/ PublicationStep(w) \/ FailureStep(w)
    <2>1. PICK w \in Workers : StagingStep(w) \/ PublicationStep(w) \/ FailureStep(w)
      BY <1>2
    <2>2. Advances(w)
      BY <1>0, <2>1, WorkerAdvances
    <2>3. CASE worker[w].job = j
      <3>1. ~Owns(w) /\ ~InTransaction(w)
        BY <1>0, <2>3 DEF Owns, TransactionsOwn
      <3> QED BY <2>2, <2>3, <3>1 DEF Advances
    <2>4. CASE worker[w].job # j
      BY <2>2, <2>4 DEF Advances, SameJobs
    <2> QED BY <2>3, <2>4
  <1>3. CASE (\E r \in Refs : EditMasterData(r)) \/ UNCHANGED vars
    BY <1>3 DEF EditMasterData, vars
  <1> QED BY <1>1, <1>2, <1>3 DEF Next

\* "Immutable source-record conflicts cannot be requeued": requeue_job leaves a
\* job that was rejected for a conflict rejected, for any workers, files, chunks
\* and crashes, as long as every issue of a file is stored in detail.
THEOREM ConflictsAreFinal == EveryDetailFits => (Spec => ConflictsStayRejected)
  <1> SUFFICES ASSUME EveryDetailFits PROVE Spec => ConflictsStayRejected
    OBVIOUS
  <1> DEFINE Inv == PublicationInv /\ ReportingProgress /\ ConflictsAreStored
  <1>1. Init => ReportingProgress /\ ConflictsAreStored
    BY ReportsStart
  <1>2. PublicationInv /\ ReportingProgress /\ ConflictsAreStored /\ [Next]_vars
          => ReportingProgress' /\ ConflictsAreStored'
    BY ReportingStep, StoringStep
  <1>3. PublicationInv /\ ConflictsAreStored /\ [Next]_vars =>
          [\A j \in conflicted : job[j].status = "rejected" => job'[j].status = "rejected"]_vars
    <2> SUFFICES ASSUME PublicationInv, ConflictsAreStored, [Next]_vars,
                        NEW j \in conflicted, job[j].status = "rejected"
                 PROVE  job'[j].status = "rejected"
      OBVIOUS
    <2> QED BY RejectionsStay DEF PublicationInv, ConflictsAreStored
  <1> QED BY <1>1, <1>2, <1>3, PublicationInvariant, PTL DEF Spec, ConflictsStayRejected

-----------------------------------------------------------------------------
(***************************************************************************)
(* Publication implements LeasedWork.                                      *)
(***************************************************************************)

\* Each claim is counted within the budget of its job.
BudgetsKept ==
    \A j \in Jobs : job[j].budget \in Nat /\ job[j].attempt <= job[j].budget

LEMMA BudgetsStart == Init => BudgetsKept
  <1> SUFFICES ASSUME Init PROVE BudgetsKept
    OBVIOUS
  <1>1. \A j \in Jobs : job[j].attempt = 0 /\ job[j].budget = StartAttempts
    BY DEF Init, NewJob
  <1>2. StartAttempts \in Nat /\ 0 <= StartAttempts
    BY PublicationAssumption
  <1> QED BY <1>1, <1>2 DEF BudgetsKept

LEMMA BudgetsStep == Claims /\ BudgetsKept /\ [Next]_vars => BudgetsKept'
  <1> SUFFICES ASSUME Claims, BudgetsKept, [Next]_vars, NEW k \in Jobs
               PROVE  job'[k].budget \in Nat /\ job'[k].attempt <= job'[k].budget
    BY DEF BudgetsKept
  <1>0. /\ TypeOK /\ ClaimsAreKnown
        /\ job[k].budget \in Nat /\ job[k].attempt \in Nat
        /\ job[k].attempt <= job[k].budget
    BY DEF Claims, TypeOK, BudgetsKept
  <1>1. CASE job'[k].attempt = job[k].attempt /\ job'[k].budget = job[k].budget
    BY <1>0, <1>1
  <1>2. ASSUME NEW j \in Jobs, QueueStep(j)
        PROVE  job'[k].budget \in Nat /\ job'[k].attempt <= job'[k].budget
    <2>1. CASE MarkExhausted(j)
      <3>1. job'[k].attempt = job[k].attempt /\ job'[k].budget = job[k].budget
        BY <1>0, <2>1 DEF MarkExhausted, TypeOK, NewJob
      <3> QED BY <1>1, <3>1
    <2>2. CASE RequeueJob(j)
      <3>1. /\ job'[k].attempt = job[k].attempt
            /\ job'[k].budget \in {job[k].budget, job[k].budget + 1}
        BY <1>0, <2>2 DEF RequeueJob, TypeOK, NewJob
      <3> QED BY <1>0, <3>1
    <2>3. ASSUME NEW w \in Workers, Claim(w, j)
          PROVE  job'[k].budget \in Nat /\ job'[k].attempt <= job'[k].budget
      <3>1. /\ job'[k].budget = job[k].budget
            /\ \/ job'[k].attempt = job[k].attempt
               \/ job'[k].attempt = job[k].attempt + 1 /\ job[k].attempt < job[k].budget
        BY <1>0, <2>3 DEF Claim, BudgetLeft, TypeOK, NewJob
      <3> QED BY <1>0, <3>1
    <2> QED BY <1>2, <2>1, <2>2, <2>3 DEF QueueStep
  <1>3. ASSUME NEW w \in Workers, StagingStep(w) \/ PublicationStep(w) \/ FailureStep(w)
        PROVE  job'[k].attempt = job[k].attempt /\ job'[k].budget = job[k].budget
    <2>1. SameJobs(w)
      BY <1>0, <1>3, WorkerAdvances DEF Advances
    <2> QED BY <2>1 DEF SameJobs
  <1>4. CASE (\E r \in Refs : EditMasterData(r)) \/ UNCHANGED vars
    BY <1>1, <1>4 DEF EditMasterData, vars
  <1> QED BY <1>1, <1>2, <1>3, <1>4 DEF Next

\* The holder of a job is the one worker that carries its attempt, if any.
HoldersKnown ==
    \A j \in Jobs :
        /\ Holder(j) \in Workers \cup {Nobody}
        /\ \A w \in Workers : Holder(j) = w <=> Holds(w, j)

LEMMA HoldersAreKnown == Claims => HoldersKnown
  <1> SUFFICES ASSUME Claims, NEW j \in Jobs
               PROVE  /\ Holder(j) \in Workers \cup {Nobody}
                      /\ \A w \in Workers : Holder(j) = w <=> Holds(w, j)
    BY DEF HoldersKnown
  <1>1. \A w \in Workers : Holds(w, j) => Busy(w)
    BY PublicationAssumption DEF Claims, ClaimsAreKnown, Holds, Idle
  <1>2. \A v, w \in Workers : Holds(v, j) /\ Holds(w, j) => v = w
    BY <1>1 DEF Claims, ClaimsAreApart, Holds
  <1>3. CASE \E w \in Workers : Holds(w, j)
    BY <1>2, <1>3 DEF Holder
  <1>4. CASE ~ \E w \in Workers : Holds(w, j)
    BY <1>4, NobodyAssumption DEF Holder
  <1> QED BY <1>3, <1>4

\* What is known of holders, locks and budgets before and after a step.
Known ==
    /\ Claims /\ Claims'
    /\ HoldersKnown /\ HoldersKnown'
    /\ BudgetsKept /\ BudgetsKept'

\* What LeasedWork sees of a job stays the same.
Same(j) ==
    /\ ItemState(j)' = ItemState(j)
    /\ Holder(j)' = Holder(j)
    /\ RowLocked(j)' <=> RowLocked(j)
    /\ job'[j].attempt = job[j].attempt
    /\ job'[j].budget = job[j].budget

LEMMA Stutter ==
  ASSUME \A j \in Jobs : Same(j)
  PROVE  UNCHANGED Work!absVars
  BY DEF Work!absVars, Same

\* A job is as before if its status, its counters and its workers are.
LEMMA SameRow ==
  ASSUME Known, NEW j \in Jobs,
         job'[j].status = job[j].status, job'[j].attempt = job[j].attempt,
         job'[j].budget = job[j].budget,
         \A v \in Workers : Holds(v, j)' <=> Holds(v, j),
         RowLocked(j)' <=> RowLocked(j)
  PROVE  Same(j)
  <1>1. ItemState(j)' = ItemState(j)
    BY DEF ItemState
  <1>2. Holder(j)' = Holder(j)
    BY NobodyAssumption DEF Known, HoldersKnown
  <1> QED BY <1>1, <1>2 DEF Same

\* Nobody holds a job that is not held.
LEMMA NobodyHolds ==
  ASSUME Known, NEW j \in Jobs
  PROVE  /\ job[j].status # "held" => Holder(j) = Nobody
         /\ job'[j].status # "held" => Holder(j)' = Nobody
  BY DEF Known, HoldersKnown, Holds

\* The worker of a transaction holds the job it publishes, alone.
LEMMA OnePublishes ==
  ASSUME Claims, NEW j \in Jobs, NEW w \in Workers, Holds(w, j)
  PROVE  /\ RowLocked(j) <=> InTransaction(w)
         /\ \A v \in Workers \ {w} : ~(worker[v].job = j /\ InTransaction(v))
  <1>1. \A v \in Workers : InTransaction(v) => Busy(v)
    BY DEF InTransaction, Busy
  <1>2. Busy(w)
    BY PublicationAssumption DEF Claims, ClaimsAreKnown, Holds, Idle
  <1>3. \A v \in Workers \ {w} : ~(worker[v].job = j /\ InTransaction(v))
    BY <1>1, <1>2 DEF Claims, ClaimsAreApart, TransactionsOwn, Owns, Holds
  <1> QED BY <1>3 DEF RowLocked, Holds

-----------------------------------------------------------------------------
\* Who publishes is in a transaction, and who returns a job has attempts left.
LEMMA AnswerIsAllowed ==
  ASSUME TypeOK, NEW w \in Workers, NEW j \in Jobs, worker[w].job = j,
         StagingStep(w) \/ PublicationStep(w) \/ FailureStep(w),
         job'[j].status # job[j].status
  PROVE  /\ job'[j].status = "open" => BudgetLeft(j)
         /\ job'[j].status = "published" => InTransaction(w)
  <1>1. CASE StagingStep(w)
    BY <1>1 DEF StagingStep, StageChunk, StageRest, RejectFile, TypeOK, NewJob
  <1>2. CASE FinishInvalid(w)
    BY <1>2 DEF FinishInvalid, TypeOK, NewJob
  <1>3. CASE FinishPublished(w)
    BY ZenonT(60), <1>3 DEF FinishPublished, At, InTransaction, TypeOK, NewJob
  <1>4. CASE ScheduleRetry(w)
    BY <1>4 DEF ScheduleRetry, TypeOK, NewJob
  <1> QED
    BY <1>1, <1>2, <1>3, <1>4
    DEF PublicationStep, AcquireSourceLock, BeginPublication, ValidateChunk, LinkChunk,
        UniqueViolation, UnlockSource, FailureStep, RetryableError, ClaimLost, Crash

\* A step of a worker concerns its own job only: it answers for it, abandons it,
\* locks or unlocks it, or is invisible.
LEMMA WorkerRefines ==
  ASSUME Known, NEW w \in Workers, StagingStep(w) \/ PublicationStep(w) \/ FailureStep(w)
  PROVE  Work!AbsNext \/ UNCHANGED Work!absVars
  <1>1. TypeOK /\ ClaimsAreKnown /\ Advances(w)
    BY WorkerAdvances DEF Known, Claims
  <1>2. PICK j \in Jobs : j = worker[w].job
    BY <1>1 DEF ClaimsAreKnown, Advances
  <1>3. /\ \A v \in Workers \ {w} : worker'[v] = worker[v]
        /\ \A k \in Jobs \ {j} : job'[k] = job[k]
        /\ job'[j].attempt = job[j].attempt /\ job'[j].budget = job[j].budget
    BY <1>1, <1>2 DEF Advances, SameJobs, DropsClaim, SameClaim, OwnStep
  <1>4. \/ worker'[w] = Idle
        \/ worker'[w].job = j /\ worker'[w].attempt = worker[w].attempt
    BY <1>1, <1>2 DEF Advances, DropsClaim, SameClaim
  <1>5. worker'[w] = Idle => worker'[w].job \notin Jobs /\ ~InTransaction(w)'
    BY PublicationAssumption DEF Idle, InTransaction
  <1>6. \A k \in Jobs \ {j} : Same(k)
    <2> TAKE k \in Jobs \ {j}
    <2>1. worker[w].job # k /\ worker'[w].job # k
      BY <1>2, <1>4, <1>5
    <2>2. \A v \in Workers : Holds(v, k)' <=> Holds(v, k)
      BY <1>3, <2>1 DEF Holds
    <2>3. RowLocked(k)' <=> RowLocked(k)
      BY <1>3, <2>1 DEF RowLocked, InTransaction
    <2> QED BY <1>3, <2>2, <2>3, SameRow
  <1>7. Holds(w, j) <=> Owns(w)
    BY <1>2 DEF Holds, Owns
  <1>8. InTransaction(w) => Holds(w, j)
    BY <1>7 DEF Known, Claims, TransactionsOwn
  <1>9. /\ job'[j].status # job[j].status =>
              /\ Owns(w) \/ InTransaction(w)
              /\ ~InTransaction(w)'
              /\ job'[j].status \in {"open", "failed", "rejected", "published"}
        /\ InTransaction(w)' => InTransaction(w) \/ Owns(w)
    BY <1>1, <1>2 DEF Advances
  <1>10. ASSUME Holds(w, j)
         PROVE  /\ Holder(j) = w
                /\ RowLocked(j) <=> InTransaction(w)
                /\ \A v \in Workers \ {w} : ~Holds(v, j)
                /\ \A v \in Workers \ {w} : ~(worker[v].job = j /\ InTransaction(v))
    BY <1>10, OnePublishes DEF Known, HoldersKnown
  <1>11. CASE job'[j].status # job[j].status
    <2>1. Holds(w, j)
      BY <1>7, <1>8, <1>9, <1>11
    <2>2. ~RowLocked(j)'
      BY <1>3, <1>9, <1>10, <1>11, <2>1 DEF RowLocked, InTransaction
    <2>3. Holder(j)' = Nobody
      BY <1>9, <1>11, NobodyHolds
    <2>4. /\ job'[j].status = "open" => BudgetLeft(j)
          /\ job'[j].status = "published" => InTransaction(w)
      BY <1>1, <1>2, <1>11, AnswerIsAllowed
    <2>5. /\ ItemState(j)' \in {"open", "failed", "published"}
          /\ ItemState(j)' = "open" => job[j].attempt < job[j].budget
          /\ ItemState(j)' = "published" => RowLocked(j)
      BY <1>9, <1>10, <1>11, <2>1, <2>4 DEF ItemState, BudgetLeft
    <2>6. Work!Answer(w, j)
      BY <1>3, <1>6, <1>10, <2>1, <2>2, <2>3, <2>5 DEF Work!Answer, Same
    <2> QED BY <2>6 DEF Work!AbsNext
  <1>12. CASE job'[j].status = job[j].status /\ Holds(w, j)
    <2>1. ItemState(j)' = ItemState(j)
      BY <1>12 DEF ItemState
    <2>2. CASE worker'[w] = Idle
      <3>1. ~RowLocked(j)'
        BY <1>3, <1>5, <1>10, <1>12, <2>2 DEF RowLocked, InTransaction
      <3>2. \A v \in Workers : ~Holds(v, j)'
        BY <1>3, <1>5, <1>10, <1>12, <2>2 DEF Holds
      <3>3. Holder(j)' = Nobody
        BY <3>2 DEF Known, HoldersKnown
      <3>4. Work!Abandon(w, j)
        BY <1>3, <1>6, <1>10, <1>12, <2>1, <3>1, <3>3 DEF Work!Abandon, Same
      <3> QED BY <3>4 DEF Work!AbsNext
    <2>3. CASE worker'[w].job = j /\ worker'[w].attempt = worker[w].attempt
      <3>1. Holds(w, j)'
        BY <1>3, <1>12, <2>3 DEF Holds
      <3>2. Holder(j)' = w
        BY <3>1 DEF Known, HoldersKnown
      <3>3. CASE RowLocked(j)'
        <4>1. Work!Seal(w, j)
          BY <1>3, <1>6, <1>10, <1>12, <2>1, <3>2, <3>3 DEF Work!Seal, Same
        <4> QED BY <4>1 DEF Work!AbsNext
      <3>4. CASE ~RowLocked(j)'
        <4>1. Work!Unseal(w, j)
          BY <1>3, <1>6, <1>10, <1>12, <2>1, <3>2, <3>4 DEF Work!Unseal, Same
        <4> QED BY <4>1 DEF Work!AbsNext
      <3> QED BY <3>3, <3>4
    <2> QED BY <1>4, <2>2, <2>3
  <1>13. CASE job'[j].status = job[j].status /\ ~Holds(w, j)
    <2>1. ~InTransaction(w) /\ ~InTransaction(w)'
      BY <1>7, <1>8, <1>9, <1>13
    <2>2. RowLocked(j)' <=> RowLocked(j)
      BY <1>3, <2>1 DEF RowLocked, InTransaction
    <2>3. ~Holds(w, j)'
      BY <1>2, <1>3, <1>4, <1>5, <1>13 DEF Holds
    <2>4. \A v \in Workers : Holds(v, j)' <=> Holds(v, j)
      BY <1>3, <1>13, <2>3 DEF Holds
    <2>5. Same(j)
      BY <1>3, <1>13, <2>2, <2>4, SameRow
    <2> QED BY <1>6, <2>5, Stutter
  <1> QED BY <1>11, <1>12, <1>13

\* A claim takes a job, the sweep gives one up, and an operator reopens one.
LEMMA QueueStepRefines ==
  ASSUME Known, NEW j \in Jobs, QueueStep(j)
  PROVE  Work!AbsNext
  <1>0. TypeOK /\ job[j].attempt \in Nat /\ job[j].budget \in Nat
        /\ job[j].attempt <= job[j].budget
    BY DEF Known, Claims, TypeOK, BudgetsKept
  <1>1. ASSUME UNCHANGED worker, \A k \in Jobs \ {j} : job'[k] = job[k]
        PROVE  /\ RowLocked(j)' <=> RowLocked(j)
               /\ \A k \in Jobs \ {j} : Same(k)
    <2>1. \A k \in Jobs : RowLocked(k)' <=> RowLocked(k)
      BY <1>1 DEF RowLocked, InTransaction
    <2>2. \A k \in Jobs \ {j}, v \in Workers : Holds(v, k)' <=> Holds(v, k)
      BY <1>1 DEF Holds
    <2> QED BY <1>1, <2>1, <2>2, SameRow
  <1>2. CASE MarkExhausted(j)
    <2>1. /\ UNCHANGED worker /\ \A k \in Jobs \ {j} : job'[k] = job[k]
          /\ job[j].status = "held" /\ job'[j].status = "failed" /\ ~RowLocked(j)
          /\ job'[j].attempt = job[j].attempt /\ job'[j].budget = job[j].budget
      BY <1>0, <1>2 DEF MarkExhausted, TypeOK, NewJob
    <2>2. job[j].attempt = job[j].budget
      BY <1>0, <1>2 DEF MarkExhausted, BudgetLeft
    <2>3. Holder(j)' = Nobody
      BY <2>1, NobodyHolds
    <2>4. ItemState(j) = "held" /\ ItemState(j)' = "failed"
      BY <2>1 DEF ItemState
    <2>5. Work!GiveUp({j})
      BY <1>1, <2>1, <2>2, <2>3, <2>4 DEF Work!GiveUp, Same
    <2> QED BY <2>5 DEF Work!AbsNext
  <1>3. CASE RequeueJob(j)
    <2>1. /\ UNCHANGED worker /\ \A k \in Jobs \ {j} : job'[k] = job[k]
          /\ job[j].status \in {"failed", "rejected"} /\ job'[j].status = "open"
          /\ job'[j].attempt = job[j].attempt /\ job'[j].budget = job[j].budget + 1
      BY <1>0, <1>3 DEF RequeueJob, TypeOK, NewJob
    <2>2. Holder(j) = Nobody /\ Holder(j)' = Nobody
      BY <2>1, NobodyHolds
    <2>3. ItemState(j) = "failed" /\ ItemState(j)' = "open"
      BY <2>1 DEF ItemState
    <2>4. /\ job'[j].budget \in Nat /\ job'[j].budget > job[j].budget
          /\ job'[j].budget > job[j].attempt
      BY <1>0, <2>1
    <2>5. Work!Reopen(j)
      BY <1>1, <2>1, <2>2, <2>3, <2>4 DEF Work!Reopen, Same
    <2> QED BY <2>5 DEF Work!AbsNext
  <1>4. ASSUME NEW w \in Workers, Claim(w, j)
        PROVE  Work!AbsNext
    <2>1. /\ OwnStep(w) /\ ~Busy(w) /\ ~RowLocked(j)
          /\ job[j].status \in {"open", "held"} /\ job'[j].status = "held"
          /\ \A k \in Jobs \ {j} : job'[k] = job[k]
          /\ job'[j].attempt = job[j].attempt + 1
          /\ worker'[w] = [Idle EXCEPT !.pc = "staging", !.job = j,
                                       !.attempt = job[j].attempt + 1]
      BY <1>0, <1>4, ClaimEffect
    <2>2. job'[j].budget = job[j].budget /\ job[j].attempt < job[j].budget
      BY <1>0, <1>4 DEF Claim, BudgetLeft, TypeOK, NewJob
    <2>3. /\ worker'[w].pc = "staging" /\ worker'[w].job = j
          /\ worker'[w].attempt = job'[j].attempt
      BY <2>1 DEF Idle
    <2>4. \A k \in Jobs : worker[w].job # k
      BY <2>1, PublicationAssumption DEF Known, Claims, ClaimsAreKnown, Idle
    <2>5. /\ ~InTransaction(w) /\ ~InTransaction(w)'
          /\ \A v \in Workers \ {w} : worker'[v] = worker[v]
      BY <2>1, <2>3 DEF InTransaction, Busy, OwnStep
    <2>6. \A k \in Jobs : RowLocked(k)' <=> RowLocked(k)
      BY <2>5 DEF RowLocked, InTransaction
    <2>7. \A k \in Jobs \ {j}, v \in Workers : Holds(v, k)' <=> Holds(v, k)
      <3>1. \A k \in Jobs \ {j} : ~Holds(w, k) /\ ~Holds(w, k)'
        BY <2>3, <2>4 DEF Holds
      <3>2. \A k \in Jobs \ {j}, v \in Workers \ {w} : Holds(v, k)' <=> Holds(v, k)
        BY <2>1, <2>5 DEF Holds
      <3> QED BY <3>1, <3>2
    <2>8. \A k \in Jobs \ {j} : Same(k)
      BY <2>1, <2>6, <2>7, SameRow
    <2>9. \A k \in Jobs : Holder(k) # w
      BY <2>4 DEF Known, HoldersKnown, Holds
    <2>10. Holder(j)' = w
      <3>1. Holds(w, j)'
        BY <2>1, <2>3 DEF Holds
      <3> QED BY <3>1 DEF Known, HoldersKnown
    <2>11. ItemState(j) \in {"open", "held"} /\ ItemState(j)' = "held"
      BY <2>1 DEF ItemState
    <2>12. Work!Take(w, j)
      BY ZenonT(60), <2>1, <2>2, <2>6, <2>8, <2>9, <2>10, <2>11 DEF Work!Take, Same
    <2> QED BY <2>12 DEF Work!AbsNext
  <1> QED BY <1>2, <1>3, <1>4 DEF QueueStep

LEMMA RefinementStep ==
  ASSUME Known, [Next]_vars
  PROVE  [Work!AbsNext]_Work!absVars
  <1>1. CASE \E j \in Jobs : QueueStep(j)
    BY <1>1, QueueStepRefines
  <1>2. CASE \E w \in Workers : StagingStep(w) \/ PublicationStep(w) \/ FailureStep(w)
    BY <1>2, WorkerRefines
  <1>3. CASE (\E r \in Refs : EditMasterData(r)) \/ UNCHANGED vars
    <2>1. UNCHANGED <<job, worker>>
      BY <1>3 DEF EditMasterData, vars
    <2>2. \A k \in Jobs : /\ RowLocked(k)' <=> RowLocked(k)
                          /\ \A v \in Workers : Holds(v, k)' <=> Holds(v, k)
      BY <2>1 DEF RowLocked, InTransaction, Holds
    <2>3. \A k \in Jobs : Same(k)
      BY <2>1, <2>2, SameRow
    <2> QED BY <2>3, Stutter
  <1> QED BY <1>1, <1>2, <1>3 DEF Next

\* Publication keeps the promise it relies on: whatever the locks, repetitions and
\* crashes of processing.py, only the worker that holds a job answers for it, nobody
\* takes a job that is being published, and an attempt that ends leaves no lock.
THEOREM PublicationImplementsLeasedWork == Spec => ImplementsLeasedWork
  <1>1. Init => Released
    <2> SUFFICES ASSUME Init, NEW j \in Jobs
                 PROVE  ItemState(j) = "open" /\ Holder(j) = Nobody /\ job[j].attempt = 0
      BY DEF Released
    <2>1. job[j].status = "open" /\ job[j].attempt = 0
      BY DEF Init, NewJob
    <2>2. \A w \in Workers : ~Holds(w, j)
      BY <2>1 DEF Holds
    <2> QED BY <2>1, <2>2 DEF ItemState, Holder
  <1>2. Claims /\ BudgetsKept /\ [Next]_vars => Claims' /\ BudgetsKept'
    BY ClaimsStep, BudgetsStep
  <1>3. Claims => HoldersKnown
    BY HoldersAreKnown
  <1>4. Claims /\ Claims' /\ HoldersKnown /\ HoldersKnown' /\ BudgetsKept /\ BudgetsKept'
          /\ [Next]_vars => [Work!AbsNext]_Work!absVars
    BY RefinementStep DEF Known
  <1> QED BY <1>1, <1>2, <1>3, <1>4, ClaimsStart, BudgetsStart, PTL
          DEF Spec, ImplementsLeasedWork
=============================================================================
