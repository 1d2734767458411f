------------------------ MODULE SalesImportFileProofs ------------------------
(***************************************************************************)
(* One file, however long it is: what is stored of it satisfies its tables,*)
(* no row is lost, and its issues are stored or accounted for.             *)
(*                                                                         *)
(* The invariant says of each phase how far the file has come: the numbers *)
(* of rows and issues only grow while it is read and while it is           *)
(* validated, which keeps them apart, and the collector always knows how   *)
(* many details were stored.                                               *)
(***************************************************************************)
EXTENDS SalesImportFile, FiniteSetTheorems, SequenceTheorems, TLAPS

-----------------------------------------------------------------------------
(***************************************************************************)
(* The invariant.                                                          *)
(***************************************************************************)

Columns ==
    {"__file__", "__row__", "source_record_id", "transaction_date", "product_code",
     "territory_code", "hospital_code", "sales_representative_code", "quantity",
     "revenue_amount", "currency_code"}

\* All codes but that of the summary.
FileCodes ==
    {"CSV_MALFORMED", "FILE_ENCODING_INVALID", "FILE_NO_DATA_ROWS",
     "FILE_ROW_LIMIT_EXCEEDED", "SCHEMA_DUPLICATE_COLUMN", "SCHEMA_MISSING_COLUMN",
     "SCHEMA_UNKNOWN_COLUMN"}

Codes ==
    FileCodes \cup
    {"ROW_COLUMN_COUNT_MISMATCH", "REQUIRED_VALUE_MISSING", "VALUE_TOO_LONG",
     "INVALID_CONTROL_CHARACTER", "DATE_INVALID_FORMAT", "DECIMAL_PRECISION_EXCEEDED",
     "DECIMAL_INVALID_FORMAT", "CURRENCY_CODE_INVALID", "QUANTITY_ZERO",
     "MEASURE_SIGN_MISMATCH", "DUPLICATE_SOURCE_RECORD_ID", "CALENDAR_DATE_NOT_FOUND",
     "PRODUCT_NOT_FOUND", "TERRITORY_NOT_FOUND", "TERRITORY_NOT_LEAF",
     "HOSPITAL_NOT_FOUND", "SALES_REPRESENTATIVE_NOT_FOUND",
     "HOSPITAL_TERRITORY_MISMATCH", "SALES_REPRESENTATIVE_TERRITORY_MISMATCH",
     "SOURCE_RECORD_CONFLICT"}

DetailIssue == [row : Nat, column : Columns, code : Codes, stated : {0}]

IssuesOf(number) == [row : {number}, column : Columns, code : Codes, stated : {0}]

Collector ==
    [total : Nat, kept : Seq(DetailIssue), pending : SUBSET DetailIssue,
     details : 0..DetailLimit, truncated : BOOLEAN]

Injective(s) == \A j, k \in 1..Len(s) : s[j] = s[k] => j = k

Elements(s) == {s[k] : k \in 1..Len(s)}

\* What was stored of the issues that a collector has kept so far.
CollectorOK(stored, c) ==
    /\ c \in Collector
    /\ stored \in Seq(DetailIssue)
    /\ Injective(stored \o c.kept)
    /\ Elements(c.kept) \subseteq c.pending
    /\ c.details = Len(stored) + Len(c.kept)
    /\ c.total >= c.details
    /\ c.truncated <=> c.total > c.details
    /\ c.truncated => c.details = DetailLimit

\* The rows those issues are about.
About(stored, c) == {i.row : i \in Elements(stored) \cup c.pending}

StagedRow == [number : Nat, cells : Records]

\* The rows of the lines up to last, with their ids.
RowsOK(rows, last, ids) ==
    /\ rows \in Seq(StagedRow)
    /\ \A k \in 1..Len(rows) :
         /\ rows[k].number \in 2..last
         /\ StorableRow(rows[k].cells)
         /\ rows[k].cells.id.value \in ids
    /\ \A j, k \in 1..Len(rows) : j < k =>
         /\ rows[j].number < rows[k].number
         /\ rows[j].cells.id.value # rows[k].cells.id.value

JobRow ==
    [status : {"processing", "retry_wait", "failed", "rejected", "published"},
     attempts : Nat, total : Nat, valid : Nat, invalid : Nat, issueCount : Nat,
     inserted : Nat, reused : Nat]

TypeOK ==
    /\ pc \in {"header", "refused", "waiting", "reading", "rejecting", "validating",
              "finished"}
    /\ line \in Nat
    /\ rowCount \in Nat
    /\ progress \in [total : Nat, valid : Nat, invalid : Nat, reused : Nat]
    /\ collector \in Collector
    /\ pending \in Seq(StagedRow)
    /\ staged \in Seq(StagedRow)
    /\ job \in JobRow
    /\ job.status = "processing" <=> pc \notin {"waiting", "finished"}
    /\ job.status = "retry_wait" <=> pc = "waiting"

Reading ==
    pc \in {"header", "reading"} =>
        /\ pc = "reading" => line >= 1
        /\ pc = "header" => line = 0 /\ rowCount = 0
        /\ progress.total = rowCount
        /\ progress.valid = Len(staged) + Len(pending)
        /\ progress.total = progress.valid + progress.invalid
        /\ collector.total >= progress.invalid
        /\ progress.invalid = 0 => collector.total = 0
        /\ CollectorOK(issues, collector)
        /\ About(issues, collector) \subseteq 2..line

SummariesOf(s) == {k \in 1..Len(s) : s[k].code = "ISSUE_LIMIT_REACHED"}

\* All issues of the file are stored, or as many as may be and a summary.
AccountedFor(s, total) ==
    LET details == Cardinality((1..Len(s)) \ SummariesOf(s)) IN
    \/ SummariesOf(s) = {} /\ details = total
    \/ \E k \in 1..Len(s) :
          /\ SummariesOf(s) = {k}
          /\ s[k].stated = details
          /\ details < total
          /\ Len(s) <= MaxIssues

\* sales_issue_identity_unique and the CHECK constraint of the row number.
IssuesFit(s) ==
    /\ \A k \in 1..Len(s) : s[k].row = 0 \/ s[k].row >= 2
    /\ \A j, k \in 1..Len(s) :
         s[j].row = s[k].row /\ s[j].column = s[k].column /\ s[j].code = s[k].code => j = k

Rejecting ==
    pc = "rejecting" =>
        /\ progress.total = progress.valid + progress.invalid
        /\ collector.total >= progress.invalid
        /\ collector.total > 0
        /\ MaxIssues > 1 => AccountedFor(issues, collector.total)

WholeFile ==
    /\ staged # <<>>
    /\ Len(staged) = rowCount

Validating ==
    pc = "validating" =>
        /\ WholeFile
        /\ progress.total <= Len(staged)
        /\ progress.invalid + progress.reused <= progress.total
        /\ collector.total >= progress.invalid
        /\ CollectorOK(issues, collector)
        /\ About(issues, collector) \subseteq {staged[k].number : k \in 1..progress.total}
        /\ progress.total = Len(staged) => collector.kept = <<>>

Finished ==
    pc = "finished" =>
        /\ job.status = "published" => WholeFile
        /\ MaxIssues > 1 => IssuesAccountedFor

FileInv ==
    /\ TypeOK
    /\ RowsOK(staged \o pending, line, seen)
    /\ pc \notin {"header", "reading"} => pending = <<>>
    /\ Reading
    /\ Rejecting
    /\ Validating
    /\ Finished
    /\ IssuesIdentified
    /\ CountersStorable

-----------------------------------------------------------------------------
(***************************************************************************)
(* Sequences.                                                              *)
(***************************************************************************)

LEMMA ConcatType ==
  ASSUME NEW S, NEW s \in Seq(S), NEW t \in Seq(S)
  PROVE  /\ s \o t \in Seq(S)
         /\ Len(s \o t) = Len(s) + Len(t)
         /\ \A k \in 1..Len(s) : (s \o t)[k] = s[k]
         /\ \A k \in 1..Len(t) : (s \o t)[Len(s) + k] = t[k]
         /\ \A k \in 1..Len(s \o t) :
              \/ k \in 1..Len(s) /\ (s \o t)[k] = s[k]
              \/ k - Len(s) \in 1..Len(t) /\ (s \o t)[k] = t[k - Len(s)]
  OBVIOUS


LEMMA Associative ==
  \A S : \A s, t, u \in Seq(S) : (s \o t) \o u = s \o (t \o u)
  BY ConcatAssociative

LEMMA ElementsOfConcat ==
  ASSUME NEW S, NEW s \in Seq(S), NEW t \in Seq(S)
  PROVE  Elements(s \o t) = Elements(s) \cup Elements(t)
  <1>1. Elements(s \o t) \subseteq Elements(s) \cup Elements(t)
    BY ConcatType DEF Elements
  <1>2. Elements(s) \subseteq Elements(s \o t)
    <2> SUFFICES ASSUME NEW k \in 1..Len(s) PROVE s[k] \in Elements(s \o t)
      BY DEF Elements
    <2>1. k \in 1..Len(s \o t) /\ (s \o t)[k] = s[k]
      BY ConcatType
    <2> QED BY <2>1 DEF Elements
  <1>3. Elements(t) \subseteq Elements(s \o t)
    <2> SUFFICES ASSUME NEW k \in 1..Len(t) PROVE t[k] \in Elements(s \o t)
      BY DEF Elements
    <2>1. Len(s) + k \in 1..Len(s \o t) /\ (s \o t)[Len(s) + k] = t[k]
      BY ConcatType
    <2> QED BY <2>1 DEF Elements
  <1> QED BY <1>1, <1>2, <1>3

\* Two sequences without repetition and without a common element.
LEMMA ConcatInjective ==
  ASSUME NEW S, NEW s \in Seq(S), NEW t \in Seq(S), Injective(s), Injective(t),
         Elements(s) \cap Elements(t) = {}
  PROVE  Injective(s \o t)
  <1> DEFINE u == s \o t
  <1> SUFFICES ASSUME NEW j \in 1..Len(u), NEW k \in 1..Len(u), u[j] = u[k]
               PROVE  j = k
    BY DEF Injective
  <1>1. \A n \in 1..Len(u) :
          \/ n \in 1..Len(s) /\ u[n] = s[n] /\ u[n] \in Elements(s)
          \/ n - Len(s) \in 1..Len(t) /\ u[n] = t[n - Len(s)] /\ u[n] \in Elements(t)
    BY ConcatType DEF Elements
  <1> HIDE DEF u
  <1>2. CASE j \in 1..Len(s) /\ u[j] = s[j] /\ u[j] \in Elements(s)
    <2>1. k \in 1..Len(s) /\ u[k] = s[k]
      BY <1>1, <1>2
    <2> QED BY <1>2, <2>1 DEF Injective
  <1>3. CASE j - Len(s) \in 1..Len(t) /\ u[j] = t[j - Len(s)] /\ u[j] \in Elements(t)
    <2>1. k - Len(s) \in 1..Len(t) /\ u[k] = t[k - Len(s)]
      BY <1>1, <1>3
    <2>2. j - Len(s) = k - Len(s)
      BY <1>3, <2>1 DEF Injective
    <2> QED BY <2>2
  <1> QED BY <1>1, <1>2, <1>3

-----------------------------------------------------------------------------
(***************************************************************************)
(* The collector.                                                          *)
(***************************************************************************)

\* The members of a finite set of numbers in order: all different, one for each.
LEMMA InOrderMembers ==
  ASSUME NEW n \in Nat, NEW S \in SUBSET (1..n)
  PROVE  /\ IsFiniteSet(S)
         /\ Cardinality(S) \in Nat
         /\ \A m \in 1..Cardinality(S) : InOrder(S)[m] \in S
         /\ Injective([m \in 1..Cardinality(S) |-> InOrder(S)[m]])
  <1> DEFINE below(k) == {m \in S : m < k}
             N        == Cardinality(S)
             f        == [k \in S |-> Cardinality(below(k)) + 1]
  <1>1. IsFiniteSet(S) /\ N \in Nat
    <2>1. IsFiniteSet(1..n)
      BY FS_Interval
    <2>2. IsFiniteSet(S)
      BY <2>1, FS_Subset
    <2> QED BY <2>2, FS_CardinalityType
  <1>2. \A k \in S : IsFiniteSet(below(k)) /\ Cardinality(below(k)) \in Nat
    BY <1>1, FS_Subset, FS_CardinalityType
  <1>3. \A j, k \in S : j < k => Cardinality(below(j)) < Cardinality(below(k))
    <2> SUFFICES ASSUME NEW j \in S, NEW k \in S, j < k
                 PROVE  Cardinality(below(j)) < Cardinality(below(k))
      OBVIOUS
    <2>1. below(j) \subseteq below(k) /\ j \in below(k) /\ j \notin below(j)
      <3>1. \A m \in S : m \in Int
        OBVIOUS
      <3>2. \A m \in S : m < j => m < k
        BY <3>1
      <3>3. below(j) \subseteq below(k)
        BY <3>2
      <3>4. j \in below(k)
        OBVIOUS
      <3>5. ~(j < j)
        BY <3>1
      <3>6. j \notin below(j)
        BY <3>5
      <3> QED BY <3>3, <3>4, <3>6
    <2> HIDE DEF below
    <2>2. /\ Cardinality(below(j)) <= Cardinality(below(k))
          /\ Cardinality(below(j)) # Cardinality(below(k))
      BY <1>2, <2>1, FS_Subset
    <2> QED BY <1>2, <2>2
  <1>4. \A k \in S : Cardinality(below(k)) < N
    <2> SUFFICES ASSUME NEW k \in S PROVE Cardinality(below(k)) < N
      OBVIOUS
    <2>1. below(k) \subseteq S /\ k \in S /\ k \notin below(k)
      OBVIOUS
    <2> HIDE DEF below
    <2>2. Cardinality(below(k)) <= N /\ Cardinality(below(k)) # N
      BY <1>1, <2>1, FS_Subset
    <2> QED BY <1>1, <1>2, <2>2
  <1> HIDE DEF below, N
  <1>5. f \in [S -> 1..N]
    BY <1>1, <1>2, <1>4
  <1>6. \A j, k \in S : f[j] = f[k] => j = k
    <2>1. \A j, k \in S : ~(j < k) /\ ~(k < j) => j = k
      OBVIOUS
    <2> QED BY <1>2, <1>3, <2>1
  <1>7. f \in Injection(S, 1..N)
    BY <1>5, <1>6 DEF Injection, IsInjective
  <1>8. IsFiniteSet(1..N) /\ Cardinality(1..N) = N
    BY <1>1, FS_Interval
  <1>9. f \in Surjection(S, 1..N)
    <2>1. Cardinality(S) = Cardinality(1..N)
      BY <1>8 DEF N
    <2> HIDE DEF f
    <2> QED BY <1>7, <1>8, <2>1, FS_Injection
  <1>10. \A m \in 1..N : \E k \in S : Cardinality(below(k)) = m - 1
    <2> SUFFICES ASSUME NEW m \in 1..N
                 PROVE  \E k \in S : Cardinality(below(k)) = m - 1
      OBVIOUS
    <2>1. PICK k \in S : f[k] = m
      BY <1>9 DEF Surjection
    <2>2. Cardinality(below(k)) + 1 = m
      BY <2>1
    <2> QED BY <1>2, <2>2
  <1>11. \A m \in 1..N : /\ InOrder(S)[m] \in S
                         /\ Cardinality(below(InOrder(S)[m])) = m - 1
    <2> SUFFICES ASSUME NEW m \in 1..N
                 PROVE  /\ InOrder(S)[m] \in S
                        /\ Cardinality(below(InOrder(S)[m])) = m - 1
      OBVIOUS
    <2>1. InOrder(S)[m] = CHOOSE k \in S : Cardinality(below(k)) = m - 1
      BY DEF InOrder, N, below
    <2> QED BY <1>10, <2>1
  <1>12. \A j, m \in 1..N : InOrder(S)[j] = InOrder(S)[m] => j = m
    <2> SUFFICES ASSUME NEW j \in 1..N, NEW m \in 1..N, InOrder(S)[j] = InOrder(S)[m]
                 PROVE  j = m
      OBVIOUS
    <2>1. j - 1 = m - 1
      BY <1>11
    <2> QED BY <1>1, <2>1
  <1>13. Injective([m \in 1..N |-> InOrder(S)[m]])
    <2> DEFINE s == [m \in 1..N |-> InOrder(S)[m]]
    <2>1. Len(s) = N
      BY <1>1
    <2> QED BY <1>12, <2>1 DEF Injective
  <1> QED BY <1>1, <1>11, <1>13 DEF N

LEMMA DetailLimitNat == DetailLimit \in Nat /\ DetailLimit >= 1
  BY MaxIssuesAssumption DEF DetailLimit

\* The fresh places hold different issues that were not added before.
LEMMA FreshPlaces ==
  ASSUME NEW c, NEW found \in Seq(DetailIssue)
  PROVE  /\ Fresh(c, found) \in SUBSET (1..Len(found))
         /\ \A k \in Fresh(c, found) : found[k] \notin c.pending
         /\ \A j, k \in Fresh(c, found) : found[j] = found[k] => j = k
         /\ found # <<>> /\ found[1] \notin c.pending => 1 \in Fresh(c, found)
  <1>1. \A j, k \in 1..Len(found) :
          j # k => j \in 1..k-1 \/ k \in 1..j-1
    OBVIOUS
  <1>2. \A j, k \in Fresh(c, found) : found[j] = found[k] => j = k
    BY <1>1 DEF Fresh
  <1>3. found # <<>> => 1 \in 1..Len(found)
    OBVIOUS
  <1>4. \A m \in 1..1-1 : FALSE
    OBVIOUS
  <1> QED BY <1>2, <1>3, <1>4 DEF Fresh

\* What add does with the issues of one row: it counts some of them, all
\* different and none pending, and keeps the first of these while there is room.
Adds(c, found, d, new, count) ==
    /\ d \in Collector
    /\ new \in Seq(DetailIssue)
    /\ count \in Nat
    /\ Len(new) <= count
    /\ Injective(new)
    /\ Elements(new) \subseteq Elements(found) \ c.pending
    /\ d.kept = c.kept \o new
    /\ c.pending \cup Elements(new) \subseteq d.pending
    /\ d.pending \subseteq c.pending \cup Elements(found)
    /\ d.total = c.total + count
    /\ d.details = c.details + Len(new)
    /\ d.truncated <=> c.truncated \/ Len(new) < count
    /\ Len(new) < count => d.details = DetailLimit
    /\ found # <<>> /\ found[1] \notin c.pending => count >= 1
    /\ found = <<>> => count = 0

LEMMA AddedAdds ==
  ASSUME NEW c \in Collector, NEW found \in Seq(DetailIssue)
  PROVE  \E new, count : Adds(c, found, Added(c, found), new, count)
  <1> DEFINE F     == Fresh(c, found)
             count == Cardinality(F)
             room  == DetailLimit - c.details
             kept  == IF count <= room THEN count ELSE room
             new   == [n \in 1..kept |-> found[InOrder(F)[n]]]
             d     == Added(c, found)
  <1>1. /\ F \in SUBSET (1..Len(found))
        /\ \A k \in F : found[k] \notin c.pending
        /\ \A j, k \in F : found[j] = found[k] => j = k
        /\ found # <<>> /\ found[1] \notin c.pending => 1 \in F
    BY FreshPlaces
  <1>2. /\ IsFiniteSet(F)
        /\ count \in Nat
        /\ \A m \in 1..count : InOrder(F)[m] \in F
        /\ Injective([m \in 1..count |-> InOrder(F)[m]])
    <2> HIDE DEF F
    <2>1. Len(found) \in Nat
      OBVIOUS
    <2> QED BY <1>1, <2>1, InOrderMembers
  <1>3. d = [c EXCEPT !.pending = @ \cup {found[k] : k \in F},
                      !.total = @ + count,
                      !.kept = @ \o new,
                      !.details = @ + kept,
                      !.truncated = @ \/ count > room]
    BY DEF Added
  <1>4. \A k \in F : found[k] \in DetailIssue /\ found[k] \in Elements(found)
    <2> SUFFICES ASSUME NEW k \in F
                 PROVE  found[k] \in DetailIssue /\ found[k] \in Elements(found)
      OBVIOUS
    <2>1. k \in 1..Len(found)
      BY <1>1
    <2> QED BY <2>1 DEF Elements
  <1>5. found # <<>> /\ found[1] \notin c.pending => count >= 1
    BY <1>1, <1>2, FS_EmptySet
  <1>6. found = <<>> => count = 0
    BY <1>1, FS_EmptySet
  <1>7. room \in Nat
    BY DetailLimitNat DEF Collector
  <1> HIDE DEF F, count, d, room
  <1>8. kept \in Nat /\ kept <= count /\ kept <= room
    BY <1>2, <1>7
  <1>9. kept < count => kept = room
    BY <1>2
  <1> HIDE DEF kept
  <1>10. \A n \in 1..kept : n \in 1..count /\ InOrder(F)[n] \in F
    BY <1>2, <1>8
  <1>11. new \in Seq(DetailIssue) /\ Len(new) = kept
    <2>1. new \in [1..kept -> DetailIssue]
      BY <1>4, <1>10
    <2> QED BY <1>8, <2>1
  <1>12. \A j, n \in 1..kept : new[j] = new[n] => j = n
    <2> SUFFICES ASSUME NEW j \in 1..kept, NEW n \in 1..kept, new[j] = new[n]
                 PROVE  j = n
      OBVIOUS
    <2>1. InOrder(F)[j] = InOrder(F)[n]
      BY <1>1, <1>10
    <2> DEFINE s == [m \in 1..count |-> InOrder(F)[m]]
    <2>2. s[j] = s[n]
      BY <1>10, <2>1
    <2>3. Len(s) = count
      BY <1>2
    <2>4. j \in 1..Len(s) /\ n \in 1..Len(s)
      BY <1>10, <2>3
    <2>5. Injective(s)
      BY <1>2
    <2> HIDE DEF s
    <2> QED BY <2>2, <2>4, <2>5 DEF Injective
  <1>13. Elements(new) \subseteq {found[k] : k \in F}
    BY <1>10, <1>11 DEF Elements
  <1>14. Injective(new)
    BY <1>11, <1>12 DEF Injective
  <1> HIDE DEF new
  <1>15. d.kept = c.kept \o new /\ d.total = c.total + count /\ d.details = c.details + kept
         /\ d.truncated = (c.truncated \/ count > room)
         /\ d.pending = c.pending \cup {found[k] : k \in F}
    BY <1>3 DEF Collector
  <1>16. d \in Collector
    <2>1. c.kept \o new \in Seq(DetailIssue)
      BY <1>11, ConcatType DEF Collector
    <2>2. c.details + kept \in 0..DetailLimit
      BY <1>7, <1>8, DetailLimitNat DEF Collector, room
    <2>3. c.pending \cup {found[k] : k \in F} \in SUBSET DetailIssue
      BY <1>4 DEF Collector
    <2>4. c.total + count \in Nat
      BY <1>2 DEF Collector
    <2>5. (c.truncated \/ count > room) \in BOOLEAN
      OBVIOUS
    <2> QED BY <1>3, <2>1, <2>2, <2>3, <2>4, <2>5 DEF Collector
  <1>17. d.truncated <=> c.truncated \/ kept < count
    <2>1. count > room <=> kept < count
      BY <1>2, <1>7 DEF kept
    <2> QED BY <1>15, <2>1 DEF Collector
  <1>18. kept < count => d.details = DetailLimit
    BY <1>7, <1>9, <1>15, DetailLimitNat DEF Collector, room
  <1>19. Elements(new) \subseteq Elements(found) \ c.pending
    BY <1>1, <1>4, <1>13
  <1>20. Adds(c, found, d, new, count)
    BY <1>2, <1>4, <1>5, <1>6, <1>8, <1>11, <1>13, <1>14, <1>15, <1>16, <1>17, <1>18, <1>19
       DEF Adds
  <1> QED BY <1>20 DEF d

LEMMA StartCollecting ==
  CollectorOK(<<>>, NewCollector) /\ About(<<>>, NewCollector) = {}
  <1>1. NewCollector \in Collector
    <2>1. <<>> \in Seq(DetailIssue) /\ {} \in SUBSET DetailIssue /\ 0 \in 0..DetailLimit
      BY DetailLimitNat
    <2> QED BY <2>1 DEF NewCollector, Collector
  <1>2. Len(<<>> \o NewCollector.kept) = 0
    BY DEF NewCollector
  <1>3. Elements(<<>>) = {}
    BY DEF Elements
  <1> QED BY <1>1, <1>2, <1>3 DEF CollectorOK, About, Injective, NewCollector

\* The issues of another row are added to those of the rows before.
LEMMA Adding ==
  ASSUME NEW stored, NEW c, CollectorOK(stored, c),
         NEW m \in Nat, m \notin About(stored, c), NEW found \in Seq(IssuesOf(m))
  PROVE  LET d == Added(c, found)
         IN  /\ CollectorOK(stored, d)
             /\ d.total \in Nat /\ d.total >= c.total
             /\ d.total > c.total <=> found # <<>>
             /\ About(stored, d) \subseteq About(stored, c) \cup {m}
  <1> DEFINE d == Added(c, found)
  <1>1. /\ c \in Collector
        /\ stored \in Seq(DetailIssue) /\ c.kept \in Seq(DetailIssue)
        /\ c.total \in Nat /\ c.details \in Nat /\ c.truncated \in BOOLEAN
    BY DetailLimitNat DEF CollectorOK, Collector
  <1>2. IssuesOf(m) \subseteq DetailIssue
    BY DEF IssuesOf, DetailIssue
  <1>3. found \in Seq(DetailIssue)
    BY <1>2, SeqMonotonic
  <1>4. \A i \in Elements(found) : i.row = m
    <2>1. \A k \in 1..Len(found) : found[k] \in IssuesOf(m)
      OBVIOUS
    <2> QED BY <2>1 DEF Elements, IssuesOf
  <1>5. PICK new, count : Adds(c, found, d, new, count)
    BY <1>1, <1>3, AddedAdds
  <1> HIDE DEF d
  <1>6. Elements(found) \cap (Elements(stored) \cup c.pending) = {}
    BY <1>4 DEF About
  <1>7. Injective(stored \o d.kept)
    <2> DEFINE old == stored \o c.kept
    <2>1. old \in Seq(DetailIssue) /\ Injective(old)
      BY <1>1, ConcatType DEF CollectorOK
    <2>2. Elements(old) = Elements(stored) \cup Elements(c.kept)
      BY <1>1, ElementsOfConcat
    <2>3. Elements(new) \subseteq Elements(found)
      BY <1>5 DEF Adds
    <2>4. Elements(old) \cap Elements(new) = {}
      BY <1>6, <2>2, <2>3 DEF CollectorOK
    <2>5. new \in Seq(DetailIssue) /\ Injective(new)
      BY <1>5 DEF Adds
    <2> HIDE DEF old
    <2>6. Injective(old \o new)
      BY <2>1, <2>4, <2>5, ConcatInjective
    <2>7. stored \o d.kept = old \o new
      <3>1. d.kept = c.kept \o new
        BY <1>5 DEF Adds
      <3>2. stored \in Seq(DetailIssue) /\ c.kept \in Seq(DetailIssue) /\ new \in Seq(DetailIssue)
        BY <1>1, <2>5
      <3>3. (stored \o c.kept) \o new = stored \o (c.kept \o new)
        <4>1. \A s, t, u \in Seq(DetailIssue) : (s \o t) \o u = s \o (t \o u)
          BY Associative
        <4> QED BY <3>2, <4>1
      <3> QED BY <3>1, <3>3 DEF old
    <2> QED BY <2>6, <2>7
  <1>8. Len(d.kept) = Len(c.kept) + Len(new) /\ Len(new) \in Nat
    BY <1>1, <1>5, ConcatType DEF Adds
  <1>9. d.details = Len(stored) + Len(d.kept)
    BY <1>1, <1>5, <1>8 DEF Adds, CollectorOK
  <1>10. d.total >= d.details /\ (d.truncated <=> d.total > d.details)
    <2>1. /\ d.total = c.total + count /\ d.details = c.details + Len(new)
          /\ count \in Nat /\ Len(new) <= count
          /\ d.truncated <=> c.truncated \/ Len(new) < count
      BY <1>5 DEF Adds
    <2>2. c.total >= c.details /\ (c.truncated <=> c.total > c.details)
      BY DEF CollectorOK
    <2> QED BY <1>1, <1>8, <2>1, <2>2
  <1>11. d.truncated => d.details = DetailLimit
    <2>1. CASE c.truncated
      <3>1. c.details = DetailLimit
        BY <2>1 DEF CollectorOK
      <3>2. d.details = c.details + Len(new) /\ d.details \in 0..DetailLimit
        BY <1>5 DEF Adds, Collector
      <3> QED BY <1>8, <3>1, <3>2, DetailLimitNat
    <2>2. CASE ~c.truncated
      BY <1>5, <2>2 DEF Adds
    <2> QED BY <2>1, <2>2
  <1>12. Elements(d.kept) \subseteq d.pending
    <2>1. Elements(c.kept \o new) = Elements(c.kept) \cup Elements(new)
      BY <1>1, <1>5, ElementsOfConcat DEF Adds
    <2> QED BY <1>5, <2>1 DEF Adds, CollectorOK
  <1>13. CollectorOK(stored, d)
    BY <1>1, <1>5, <1>7, <1>9, <1>10, <1>11, <1>12 DEF CollectorOK, Adds
  <1>14. About(stored, d) \subseteq About(stored, c) \cup {m}
    BY <1>4, <1>5 DEF About, Adds
  <1>15. d.total \in Nat /\ d.total >= c.total
    BY SMTT(30), <1>1, <1>5 DEF Adds
  <1>16. d.total > c.total <=> found # <<>>
    <2>1. found # <<>> => found[1] \in Elements(found)
      BY DEF Elements
    <2>2. found # <<>> => count >= 1
      BY <1>5, <1>6, <2>1 DEF Adds
    <2> QED BY <1>1, <1>5, <2>2 DEF Adds
  <1> QED BY <1>13, <1>14, <1>15, <1>16 DEF d

\* What is handed over is stored, and nothing is forgotten but the pending set.
LEMMA Draining ==
  ASSUME NEW stored, NEW c, CollectorOK(stored, c)
  PROVE  /\ CollectorOK(stored \o c.kept, Drained(c))
         /\ About(stored \o c.kept, Drained(c)) \subseteq About(stored, c)
         /\ Drained(c).total = c.total
         /\ Drained(c).kept = <<>>
  <1> DEFINE d   == Drained(c)
             all == stored \o c.kept
  <1>1. /\ c \in Collector
        /\ stored \in Seq(DetailIssue) /\ c.kept \in Seq(DetailIssue)
    BY DEF CollectorOK, Collector
  <1>2. /\ d \in Collector
        /\ d.total = c.total /\ d.kept = <<>> /\ d.pending = {}
        /\ d.details = c.details /\ d.truncated = c.truncated
    <2>1. d = [c EXCEPT !.kept = <<>>, !.pending = {}]
      BY DEF Drained
    <2>2. <<>> \in Seq(DetailIssue) /\ {} \in SUBSET DetailIssue
      OBVIOUS
    <2> HIDE DEF d
    <2> QED BY <1>1, <2>1, <2>2 DEF Collector
  <1>3. all \in Seq(DetailIssue) /\ Len(all) = Len(stored) + Len(c.kept)
    BY <1>1, ConcatType
  <1>4. Elements(all) = Elements(stored) \cup Elements(c.kept)
    BY <1>1, ElementsOfConcat
  <1>5. Injective(all)
    BY DEF CollectorOK
  <1> HIDE DEF d, all
  <1>6. all \o d.kept = all
    BY <1>2, <1>3
  <1>7. CollectorOK(all, d)
    <2>1. Elements(d.kept) = {} /\ Len(d.kept) = 0
      BY <1>2 DEF Elements
    <2>2. d.details = Len(all) + Len(d.kept)
      BY <1>1, <1>2, <1>3, <2>1 DEF CollectorOK
    <2> QED BY <1>2, <1>3, <1>5, <1>6, <2>1, <2>2 DEF CollectorOK
  <1>8. About(all, d) \subseteq About(stored, c)
    BY <1>2, <1>4 DEF About, CollectorOK
  <1> QED BY <1>2, <1>7, <1>8 DEF all, d

-----------------------------------------------------------------------------
(***************************************************************************)
(* The row contract.                                                       *)
(***************************************************************************)

LEMMA Parts ==
  ASSUME NEW S
  PROVE  \A s, t \in Seq(S) : /\ s \o t \in Seq(S)
                              /\ s \o t = <<>> => s = <<>> /\ t = <<>>
  BY ConcatProperties, ConcatEqualIffEmpty

LEMMA IssueOfRow ==
  ASSUME NEW number \in Nat, NEW column \in Columns, NEW code \in Codes
  PROVE  Issue(number, column, code) \in IssuesOf(number)
  BY DEF Issue, IssuesOf

LEMMA WhenOfRow ==
  ASSUME NEW number \in Nat, NEW column \in Columns, NEW code \in Codes, NEW wrong
  PROVE  LET part == When(wrong, Issue(number, column, code))
         IN  part \in Seq(IssuesOf(number)) /\ (part = <<>> => ~wrong)
  BY IssueOfRow DEF When

LEMMA TextIssuesOfRow ==
  ASSUME NEW number \in Nat, NEW column \in Columns, NEW cell, cell.length \in Nat,
         NEW required, NEW longest \in Nat
  PROVE  LET part == TextIssues(number, column, cell, required, longest)
         IN  /\ part \in Seq(IssuesOf(number))
             /\ part = <<>> => StorableText(cell, required, longest)
  <1> DEFINE tooLong == When(cell.length > longest, Issue(number, column, "VALUE_TOO_LONG"))
             control == When(cell.control, Issue(number, column, "INVALID_CONTROL_CHARACTER"))
             missing == When(required, Issue(number, column, "REQUIRED_VALUE_MISSING"))
  <1>1. /\ "VALUE_TOO_LONG" \in Codes /\ "INVALID_CONTROL_CHARACTER" \in Codes
        /\ "REQUIRED_VALUE_MISSING" \in Codes
    BY DEF Codes
  <1>2. /\ tooLong \in Seq(IssuesOf(number)) /\ (tooLong = <<>> => ~(cell.length > longest))
        /\ control \in Seq(IssuesOf(number))
        /\ missing \in Seq(IssuesOf(number)) /\ (missing = <<>> => ~required)
    BY <1>1, WhenOfRow
  <1>3. TextIssues(number, column, cell, required, longest) =
          IF Blank(cell) THEN missing ELSE tooLong \o control
    BY DEF TextIssues
  <1> HIDE DEF tooLong, control, missing
  <1>4. /\ tooLong \o control \in Seq(IssuesOf(number))
        /\ tooLong \o control = <<>> => tooLong = <<>>
    BY <1>2, Parts
  <1> QED BY <1>2, <1>3, <1>4 DEF StorableText, Blank

LEMMA DateIssuesOfRow ==
  ASSUME NEW number \in Nat, NEW cell, cell.form \in {"blank", "malformed", "iso"}
  PROVE  LET part == DateIssues(number, cell)
         IN  /\ part \in Seq(IssuesOf(number))
             /\ part = <<>> => SupportedDate(cell)
  <1>1. /\ Issue(number, "transaction_date", "REQUIRED_VALUE_MISSING") \in IssuesOf(number)
        /\ Issue(number, "transaction_date", "DATE_INVALID_FORMAT") \in IssuesOf(number)
    BY IssueOfRow DEF Codes, Columns
  <1> QED BY <1>1 DEF DateIssues

LEMMA DecimalIssuesOfRow ==
  ASSUME NEW number \in Nat, NEW column \in Columns, NEW limit, NEW cell,
         cell.form \in {"blank", "overlong", "malformed", "number"}
  PROVE  LET part == DecimalIssues(number, column, cell, limit)
         IN  /\ part \in Seq(IssuesOf(number))
             /\ part = <<>> => Parsed(cell, limit)
  <1>1. /\ "REQUIRED_VALUE_MISSING" \in Codes /\ "DECIMAL_PRECISION_EXCEEDED" \in Codes
        /\ "DECIMAL_INVALID_FORMAT" \in Codes
    BY DEF Codes
  <1>2. /\ Issue(number, column, "REQUIRED_VALUE_MISSING") \in IssuesOf(number)
        /\ Issue(number, column, "DECIMAL_PRECISION_EXCEEDED") \in IssuesOf(number)
        /\ Issue(number, column, "DECIMAL_INVALID_FORMAT") \in IssuesOf(number)
    BY <1>1, IssueOfRow
  <1> QED BY <1>2 DEF DecimalIssues, When, Parsed

\* The precision that is refused is what numeric(digits, places) cannot hold.
LEMMA ParsedIsStorable ==
  ASSUME NEW cell, cell.digits \in Nat, cell.places \in Nat,
         NEW limit, limit.digits \in Nat, limit.places \in Nat, Parsed(cell, limit)
  PROVE  StorableDecimal(cell, limit)
  BY DEF Parsed, ExceedsPrecision, StorableDecimal

LEMMA CurrencyIssuesOfRow ==
  ASSUME NEW number \in Nat, NEW cell, cell.length \in Nat
  PROVE  LET part == CurrencyIssues(number, cell)
         IN  /\ part \in Seq(IssuesOf(number))
             /\ part = <<>> => cell.letters
  <1> DEFINE text == TextIssues(number, "currency_code", cell, TRUE, CurrencyLength)
             bad  == When(~Blank(cell) /\ ~(cell.ascii /\ cell.letters),
                          Issue(number, "currency_code", "CURRENCY_CODE_INVALID"))
  <1>1. text \in Seq(IssuesOf(number)) /\ (text = <<>> => ~Blank(cell))
    BY TextIssuesOfRow DEF Columns, CurrencyLength, StorableText
  <1>2. /\ bad \in Seq(IssuesOf(number))
        /\ bad = <<>> => ~(~Blank(cell) /\ ~(cell.ascii /\ cell.letters))
    BY WhenOfRow DEF Codes, Columns
  <1>3. CurrencyIssues(number, cell) = text \o bad
    BY DEF CurrencyIssues
  <1> HIDE DEF text, bad
  <1> QED BY <1>1, <1>2, <1>3, Parts

LEMMA MeasureIssuesOfRow ==
  ASSUME NEW number \in Nat, NEW quantity, NEW revenue,
         quantity.sign \in {-1, 0, 1}, revenue.sign \in {-1, 0, 1}
  PROVE  LET part == MeasureIssues(number, quantity, revenue)
         IN  /\ part \in Seq(IssuesOf(number))
             /\ part = <<>> /\ Parsed(quantity, Quantity) /\ Parsed(revenue, Revenue) =>
                  \/ quantity.sign = 1 /\ revenue.sign >= 0
                  \/ quantity.sign = -1 /\ revenue.sign <= 0
  <1> DEFINE zero == When(Parsed(quantity, Quantity) /\ quantity.sign = 0,
                          Issue(number, "quantity", "QUANTITY_ZERO"))
             sign == When(/\ Parsed(quantity, Quantity)
                          /\ Parsed(revenue, Revenue)
                          /\ SignsDisagree(quantity, revenue),
                          Issue(number, "revenue_amount", "MEASURE_SIGN_MISMATCH"))
  <1>1. /\ zero \in Seq(IssuesOf(number))
        /\ zero = <<>> => ~(Parsed(quantity, Quantity) /\ quantity.sign = 0)
    BY WhenOfRow DEF Codes, Columns
  <1>2. /\ sign \in Seq(IssuesOf(number))
        /\ sign = <<>> => ~(/\ Parsed(quantity, Quantity)
                            /\ Parsed(revenue, Revenue)
                            /\ SignsDisagree(quantity, revenue))
    BY WhenOfRow DEF Codes, Columns
  <1>3. MeasureIssues(number, quantity, revenue) = zero \o sign
    BY DEF MeasureIssues
  <1>4. /\ quantity.sign = 1 /\ revenue.sign = -1 => SignsDisagree(quantity, revenue)
        /\ quantity.sign = -1 /\ revenue.sign = 1 => SignsDisagree(quantity, revenue)
    BY DEF SignsDisagree
  <1> HIDE DEF zero, sign
  <1> QED BY <1>1, <1>2, <1>3, <1>4, Parts

\* A row without issues satisfies the constraints of its table.
LEMMA RowIssuesOfRow ==
  ASSUME NEW number \in Nat, NEW cells \in Records, NEW used
  PROVE  LET found == RowIssues(number, cells, used)
         IN  /\ found \in Seq(IssuesOf(number))
             /\ found = <<>> => /\ StorableRow(cells)
                                /\ ~Blank(cells.id)
                                /\ cells.id.value \notin used
  <1> DEFINE S         == Seq(IssuesOf(number))
             id        == TextIssues(number, "source_record_id", cells.id, TRUE, IdLength)
             date      == DateIssues(number, cells.date)
             product   == TextIssues(number, "product_code", cells.product, TRUE, CodeLength)
             territory == TextIssues(number, "territory_code", cells.territory, TRUE, CodeLength)
             hospital  == TextIssues(number, "hospital_code", cells.hospital, FALSE, CodeLength)
             rep       == TextIssues(number, "sales_representative_code", cells.rep, FALSE,
                                     CodeLength)
             quantity  == DecimalIssues(number, "quantity", cells.quantity, Quantity)
             revenue   == DecimalIssues(number, "revenue_amount", cells.revenue, Revenue)
             currency  == CurrencyIssues(number, cells.currency)
             measure   == MeasureIssues(number, cells.quantity, cells.revenue)
             again     == When(~Blank(cells.id) /\ cells.id.value \in used,
                               Issue(number, "source_record_id", "DUPLICATE_SOURCE_RECORD_ID"))
             found     == RowIssues(number, cells, used)
  <1>1. /\ \A cell \in {cells.id, cells.product, cells.territory, cells.hospital,
                        cells.rep, cells.currency} : cell.length \in Nat
        /\ cells.currency.letters => cells.currency.length = CurrencyLength
        /\ cells.date.form \in {"blank", "malformed", "iso"}
        /\ \A cell \in {cells.quantity, cells.revenue} :
             /\ cell.form \in {"blank", "overlong", "malformed", "number"}
             /\ cell.sign \in {-1, 0, 1}
             /\ cell.digits \in Nat
             /\ cell.places \in Nat
    BY RecordsAssumption
  <1>2. IdLength \in Nat /\ CodeLength \in Nat
    BY DEF IdLength, CodeLength
  <1>3. id \in S /\ (id = <<>> => StorableText(cells.id, TRUE, IdLength))
    BY <1>1, <1>2, TextIssuesOfRow DEF Columns
  <1>4. date \in S /\ (date = <<>> => SupportedDate(cells.date))
    <2>1. cells.date.form \in {"blank", "malformed", "iso"}
      BY <1>1
    <2>2. /\ DateIssues(number, cells.date) \in Seq(IssuesOf(number))
          /\ DateIssues(number, cells.date) = <<>> => SupportedDate(cells.date)
      BY <2>1, DateIssuesOfRow
    <2> QED BY <2>2
  <1>5. product \in S /\ (product = <<>> => StorableText(cells.product, TRUE, CodeLength))
    BY <1>1, <1>2, TextIssuesOfRow DEF Columns
  <1>6. territory \in S /\ (territory = <<>> => StorableText(cells.territory, TRUE, CodeLength))
    BY <1>1, <1>2, TextIssuesOfRow DEF Columns
  <1>7. hospital \in S /\ (hospital = <<>> => StorableText(cells.hospital, FALSE, CodeLength))
    BY <1>1, <1>2, TextIssuesOfRow DEF Columns
  <1>8. rep \in S /\ (rep = <<>> => StorableText(cells.rep, FALSE, CodeLength))
    BY <1>1, <1>2, TextIssuesOfRow DEF Columns
  <1>9. quantity \in S /\ (quantity = <<>> => Parsed(cells.quantity, Quantity))
    BY <1>1, DecimalIssuesOfRow DEF Columns
  <1>10. revenue \in S /\ (revenue = <<>> => Parsed(cells.revenue, Revenue))
    BY <1>1, DecimalIssuesOfRow DEF Columns
  <1>11. currency \in S /\ (currency = <<>> => cells.currency.letters)
    BY <1>1, CurrencyIssuesOfRow
  <1>12. /\ measure \in S
         /\ measure = <<>> /\ Parsed(cells.quantity, Quantity) /\ Parsed(cells.revenue, Revenue)
              => \/ cells.quantity.sign = 1 /\ cells.revenue.sign >= 0
                 \/ cells.quantity.sign = -1 /\ cells.revenue.sign <= 0
    BY <1>1, MeasureIssuesOfRow
  <1>13. /\ again \in S
         /\ again = <<>> => ~(~Blank(cells.id) /\ cells.id.value \in used)
    BY WhenOfRow DEF Columns, Codes
  <1>14. found = id \o date \o product \o territory \o hospital \o rep \o quantity \o revenue
                 \o currency \o measure \o again
    BY DEF RowIssues
  <1> HIDE DEF id, date, product, territory, hospital, rep, quantity, revenue, currency, measure,
               again, found
  <1>15. \A s, t \in S : s \o t \in S /\ (s \o t = <<>> => s = <<>> /\ t = <<>>)
    BY Parts
  <1> HIDE DEF S
  <1> DEFINE start == id \o date \o product \o territory \o hospital \o rep
  <1>16. /\ start \in S
         /\ start = <<>> => /\ id = <<>> /\ date = <<>> /\ product = <<>> /\ territory = <<>>
                            /\ hospital = <<>> /\ rep = <<>>
    BY <1>3, <1>4, <1>5, <1>6, <1>7, <1>8, <1>15
  <1>17. found = start \o quantity \o revenue \o currency \o measure \o again
    BY <1>14
  <1> HIDE DEF start
  <1>18. /\ found \in S
         /\ found = <<>> => /\ start = <<>> /\ quantity = <<>> /\ revenue = <<>>
                            /\ currency = <<>> /\ measure = <<>> /\ again = <<>>
    BY <1>9, <1>10, <1>11, <1>12, <1>13, <1>15, <1>16, <1>17
  <1>19. ASSUME found = <<>>
         PROVE  StorableRow(cells) /\ ~Blank(cells.id) /\ cells.id.value \notin used
    <2>1. Parsed(cells.quantity, Quantity) /\ Parsed(cells.revenue, Revenue)
      BY <1>9, <1>10, <1>18, <1>19
    <2>2. /\ StorableDecimal(cells.quantity, Quantity)
          /\ StorableDecimal(cells.revenue, Revenue)
      BY <1>1, <2>1, ParsedIsStorable DEF Quantity, Revenue
    <2>3. cells.currency.length = CurrencyLength /\ cells.currency.letters
      BY <1>1, <1>11, <1>18, <1>19
    <2>4. StorableText(cells.id, TRUE, IdLength) /\ cells.date.form = "iso" /\ cells.date.real
      BY <1>3, <1>4, <1>16, <1>18, <1>19 DEF SupportedDate
    <2>5. /\ StorableText(cells.product, TRUE, CodeLength)
          /\ StorableText(cells.territory, TRUE, CodeLength)
          /\ StorableText(cells.hospital, FALSE, CodeLength)
          /\ StorableText(cells.rep, FALSE, CodeLength)
      BY <1>5, <1>6, <1>7, <1>8, <1>16, <1>18, <1>19
    <2>6. \/ cells.quantity.sign = 1 /\ cells.revenue.sign >= 0
          \/ cells.quantity.sign = -1 /\ cells.revenue.sign <= 0
      BY <1>12, <1>18, <1>19, <2>1
    <2>7. StorableRow(cells)
      BY <2>2, <2>3, <2>4, <2>5, <2>6 DEF StorableRow
    <2>8. ~Blank(cells.id)
      BY <2>4 DEF StorableText
    <2>9. cells.id.value \notin used
      BY <1>13, <1>18, <1>19, <2>8
    <2> QED BY <2>7, <2>8, <2>9
  <1> QED BY <1>18, <1>19 DEF S, found

LEMMA DatabaseIssuesOfRow ==
  ASSUME NEW number \in Nat, NEW cells, NEW known
  PROVE  DatabaseIssues(number, cells, known) \in Seq(IssuesOf(number))
  <1> DEFINE S == Seq(IssuesOf(number))
  <1>1. \A s, t \in S : s \o t \in S
    BY Parts
  <1>2. /\ When(~known.calendar,
                Issue(number, "transaction_date", "CALENDAR_DATE_NOT_FOUND")) \in S
        /\ When(~known.product, Issue(number, "product_code", "PRODUCT_NOT_FOUND")) \in S
        /\ When(known.territory = "absent",
                Issue(number, "territory_code", "TERRITORY_NOT_FOUND")) \in S
        /\ When(known.territory = "group",
                Issue(number, "territory_code", "TERRITORY_NOT_LEAF")) \in S
    BY WhenOfRow DEF Columns, Codes
  <1>3. /\ PartnerMissing(number, "hospital_code", cells.hospital, known.hospital,
                          "HOSPITAL_NOT_FOUND") \in S
        /\ PartnerMissing(number, "sales_representative_code", cells.rep, known.rep,
                          "SALES_REPRESENTATIVE_NOT_FOUND") \in S
    BY WhenOfRow DEF PartnerMissing, Columns, Codes
  <1>4. /\ PartnerElsewhere(number, "hospital_code", cells.hospital, known.hospital,
                            known.territory, "HOSPITAL_TERRITORY_MISMATCH") \in S
        /\ PartnerElsewhere(number, "sales_representative_code", cells.rep, known.rep,
                            known.territory, "SALES_REPRESENTATIVE_TERRITORY_MISMATCH") \in S
    BY WhenOfRow DEF PartnerElsewhere, Columns, Codes
  <1>5. \A wrong : When(wrong, Issue(number, "source_record_id", "SOURCE_RECORD_CONFLICT")) \in S
    BY WhenOfRow DEF Columns, Codes
  <1> HIDE DEF S
  <1>6. ReferenceIssues(number, cells, known) \in S
    BY <1>1, <1>2, <1>3, <1>4 DEF ReferenceIssues
  <1>7. DatabaseIssues(number, cells, known) \in S
    BY <1>1, <1>5, <1>6 DEF DatabaseIssues
  <1> QED BY <1>7 DEF S

-----------------------------------------------------------------------------
(***************************************************************************)
(* What is stored when the collector has seen everything.                  *)
(***************************************************************************)

LEMMA Interval == \A n \in Nat : Cardinality(1..n) = n
  <1> TAKE n \in Nat
  <1>1. Cardinality(1..n) = IF 1 > n THEN 0 ELSE n - 1 + 1
    BY FS_Interval
  <1> QED BY <1>1

LEMMA DetailsFit ==
  ASSUME NEW s \in Seq(DetailIssue), Injective(s),
         \A i \in Elements(s) : i.row = 0 \/ i.row >= 2
  PROVE  IssuesFit(s) /\ SummariesOf(s) = {}
  <1>1. \A k \in 1..Len(s) : s[k] \in DetailIssue /\ s[k] \in Elements(s)
    BY DEF Elements
  <1>2. \A i, j \in DetailIssue :
          i.row = j.row /\ i.column = j.column /\ i.code = j.code => i = j
    BY DEF DetailIssue
  <1>3. \A i \in DetailIssue : i.code # "ISSUE_LIMIT_REACHED"
    BY DEF DetailIssue, Codes, FileCodes
  <1> QED BY <1>1, <1>2, <1>3 DEF IssuesFit, SummariesOf, Injective

LEMMA SummaryFits ==
  ASSUME NEW s \in Seq(DetailIssue), IssuesFit(s), NEW c
  PROVE  LET all == Append(s, Summary(c))
         IN  /\ IssuesFit(all)
             /\ Len(all) = Len(s) + 1
             /\ SummariesOf(all) = {Len(all)}
             /\ all[Len(all)].stated = c.details
             /\ Cardinality((1..Len(all)) \ SummariesOf(all)) = Len(s)
  <1> DEFINE last == Summary(c)
             all  == Append(s, last)
  <1>1. last.row = 0 /\ last.code = "ISSUE_LIMIT_REACHED" /\ last.stated = c.details
    BY DEF Summary, FileIssue, Issue
  <1>2. \A k \in 1..Len(s) : s[k].code # "ISSUE_LIMIT_REACHED"
    <2>1. \A i \in DetailIssue : i.code # "ISSUE_LIMIT_REACHED"
      BY DEF DetailIssue, Codes, FileCodes
    <2> QED BY <2>1
  <1> HIDE DEF last
  <1>3. /\ Len(s) \in Nat /\ Len(all) = Len(s) + 1
        /\ \A k \in 1..Len(s) : all[k] = s[k]
        /\ all[Len(s) + 1] = last
    OBVIOUS
  <1> HIDE DEF all
  <1>4. \A k \in 1..Len(all) : k \in 1..Len(s) \/ k = Len(s) + 1
    BY <1>3
  <1>5. SummariesOf(all) = {Len(all)}
    <2>1. \A k \in 1..Len(all) : all[k].code = "ISSUE_LIMIT_REACHED" <=> k = Len(all)
      BY <1>1, <1>2, <1>3, <1>4
    <2>2. Len(all) \in 1..Len(all)
      BY <1>3
    <2> QED BY <2>1, <2>2 DEF SummariesOf
  <1>6. IssuesFit(all)
    <2>1. \A k \in 1..Len(all) : all[k].row = 0 \/ all[k].row >= 2
      BY <1>1, <1>3, <1>4 DEF IssuesFit
    <2>2. ASSUME NEW j \in 1..Len(all), NEW k \in 1..Len(all),
                 all[j].row = all[k].row, all[j].column = all[k].column,
                 all[j].code = all[k].code
          PROVE  j = k
      <3>1. CASE j \in 1..Len(s) /\ k \in 1..Len(s)
        BY <1>3, <2>2, <3>1 DEF IssuesFit
      <3>2. CASE j = Len(s) + 1
        BY <1>1, <1>2, <1>3, <1>4, <2>2, <3>2
      <3>3. CASE k = Len(s) + 1
        BY <1>1, <1>2, <1>3, <1>4, <2>2, <3>3
      <3> QED BY <1>4, <3>1, <3>2, <3>3
    <2> QED BY <2>1, <2>2 DEF IssuesFit
  <1>7. Cardinality((1..Len(all)) \ SummariesOf(all)) = Len(s)
    <2>1. (1..Len(all)) \ SummariesOf(all) = 1..Len(s)
      BY <1>3, <1>5
    <2>2. Cardinality(1..Len(s)) = Len(s)
      BY <1>3, Interval
    <2> QED BY <2>1, <2>2
  <1> QED BY <1>1, <1>3, <1>5, <1>6, <1>7 DEF all, last

\* MaxIssues = 1 leaves no row for a detail, so that a detail stored before the
\* file turned out to have more issues is not counted by the summary.
LEMMA Persisting ==
  ASSUME NEW stored, NEW c, CollectorOK(stored, c),
         \A r \in About(stored, c) : r = 0 \/ r >= 2
  PROVE  LET all == stored \o Persisted(c)
         IN  IssuesFit(all) /\ (MaxIssues > 1 => AccountedFor(all, c.total))
  <1> DEFINE details == stored \o c.kept
  <1>1. /\ stored \in Seq(DetailIssue) /\ c.kept \in Seq(DetailIssue)
        /\ c.total \in Nat /\ c.details \in Nat
        /\ c.details = Len(stored) + Len(c.kept)
        /\ c.truncated <=> c.total > c.details
        /\ c.total >= c.details
        /\ c.truncated => c.details = DetailLimit
    BY DetailLimitNat DEF CollectorOK, Collector
  <1>2. details \in Seq(DetailIssue) /\ Len(details) = c.details /\ Injective(details)
    BY <1>1, ConcatProperties DEF CollectorOK
  <1>3. \A i \in Elements(details) : i.row = 0 \/ i.row >= 2
    <2>1. Elements(details) = Elements(stored) \cup Elements(c.kept)
      BY <1>1, ElementsOfConcat
    <2> QED BY <2>1 DEF About, CollectorOK
  <1>4. IssuesFit(details) /\ SummariesOf(details) = {}
    BY <1>2, <1>3, DetailsFit
  <1>5. CASE ~c.truncated
    <2>1. stored \o Persisted(c) = details
      BY <1>5 DEF Persisted
    <2>2. Cardinality((1..Len(details)) \ SummariesOf(details)) = c.total
      <3>1. (1..Len(details)) \ SummariesOf(details) = 1..c.total
        BY <1>1, <1>2, <1>4, <1>5
      <3> QED BY <1>1, <3>1, Interval
    <2> HIDE DEF details
    <2>3. AccountedFor(details, c.total)
      BY <1>4, <2>2 DEF AccountedFor
    <2> QED BY <1>4, <2>1, <2>3
  <1>6. CASE c.truncated /\ MaxIssues = 1
    <2>1. stored \o Persisted(c) = Append(stored, Summary(c))
      BY <1>1, <1>6 DEF Persisted
    <2>2. IssuesFit(stored)
      <3>1. \A k \in 1..Len(stored) : k \in 1..Len(details) /\ details[k] = stored[k]
        BY <1>1
      <3> HIDE DEF details
      <3> QED BY <1>4, <3>1 DEF IssuesFit
    <2>3. IssuesFit(Append(stored, Summary(c)))
      BY <1>1, <2>2, SummaryFits
    <2> QED BY <1>6, <2>1, <2>3
  <1>7. CASE c.truncated /\ MaxIssues > 1
    <2> DEFINE all == Append(details, Summary(c))
    <2>1. stored \o Persisted(c) = all
      <3>1. Persisted(c) = Append(c.kept, Summary(c))
        BY <1>7, MaxIssuesAssumption DEF Persisted
      <3>2. \A i : stored \o Append(c.kept, i) = Append(stored \o c.kept, i)
        BY <1>1
      <3> QED BY <3>1, <3>2
    <2> HIDE DEF details
    <2>2. /\ IssuesFit(all)
          /\ Len(all) = Len(details) + 1
          /\ SummariesOf(all) = {Len(all)}
          /\ all[Len(all)].stated = c.details
          /\ Cardinality((1..Len(all)) \ SummariesOf(all)) = Len(details)
      BY <1>2, <1>4, SummaryFits
    <2>3. Len(all) = MaxIssues
      BY <1>1, <1>2, <1>7, <2>2, MaxIssuesAssumption DEF DetailLimit
    <2> HIDE DEF all
    <2>4. AccountedFor(all, c.total)
      <3>1. Len(all) \in 1..Len(all)
        BY <2>3, MaxIssuesAssumption
      <3>2. MaxIssues \in Nat
        BY MaxIssuesAssumption
      <3>3. Len(details) < c.total /\ all[Len(all)].stated = Len(details)
        BY <1>1, <1>2, <1>7, <2>2
      <3>4. Len(all) <= MaxIssues
        BY <2>3, <3>2
      <3>5. LET n == Cardinality((1..Len(all)) \ SummariesOf(all))
            IN  SummariesOf(all) = {Len(all)} /\ all[Len(all)].stated = n /\ n < c.total
        BY <2>2, <3>3
      <3> QED BY <3>1, <3>4, <3>5 DEF AccountedFor
    <2> QED BY <2>1, <2>2, <2>4
  <1>8. MaxIssues = 1 \/ MaxIssues > 1
    BY MaxIssuesAssumption
  <1> QED BY <1>5, <1>6, <1>7, <1>8

-----------------------------------------------------------------------------
(***************************************************************************)
(* The rows.                                                               *)
(***************************************************************************)

LEMMA RowsKept ==
  ASSUME NEW rows, NEW ids, NEW more, NEW last \in Nat, NEW next \in Nat,
         RowsOK(rows, last, ids), last <= next, ids \subseteq more
  PROVE  RowsOK(rows, next, more)
  <1>1. 2..last \subseteq 2..next
    OBVIOUS
  <1> QED BY <1>1 DEF RowsOK

LEMMA RowAdded ==
  ASSUME NEW rows, NEW ids, NEW last \in Nat, NEW next \in Nat, RowsOK(rows, last, ids),
         NEW row \in StagedRow, last < row.number, row.number \in 2..next,
         StorableRow(row.cells), row.cells.id.value \notin ids
  PROVE  RowsOK(rows \o <<row>>, next, ids \cup {row.cells.id.value})
  <1> DEFINE all == rows \o <<row>>
  <1>1. /\ all \in Seq(StagedRow) /\ Len(rows) \in Nat /\ Len(all) = Len(rows) + 1
        /\ \A k \in 1..Len(rows) : all[k] = rows[k]
        /\ all[Len(rows) + 1] = row
    BY DEF RowsOK
  <1> HIDE DEF all
  <1>2. \A k \in 1..Len(all) : k \in 1..Len(rows) \/ k = Len(rows) + 1
    BY <1>1
  <1>3. /\ \A k \in 1..Len(rows) :
             /\ rows[k].number \in 2..last
             /\ StorableRow(rows[k].cells)
             /\ rows[k].cells.id.value \in ids
        /\ \A j, k \in 1..Len(rows) : j < k =>
             /\ rows[j].number < rows[k].number
             /\ rows[j].cells.id.value # rows[k].cells.id.value
    BY DEF RowsOK
  <1>4. \A n \in 2..last : n < row.number /\ n \in 2..next
    BY DEF StagedRow
  <1>5. ASSUME NEW k \in 1..Len(all)
        PROVE  /\ all[k].number \in 2..next
               /\ StorableRow(all[k].cells)
               /\ all[k].cells.id.value \in ids \cup {row.cells.id.value}
    <2>1. CASE k \in 1..Len(rows)
      BY <1>1, <1>3, <1>4, <2>1
    <2>2. CASE k = Len(rows) + 1
      BY <1>1, <2>2
    <2> QED BY <1>2, <2>1, <2>2
  <1>6. ASSUME NEW j \in 1..Len(all), NEW k \in 1..Len(all), j < k
        PROVE  /\ all[j].number < all[k].number
               /\ all[j].cells.id.value # all[k].cells.id.value
    <2>1. j \in 1..Len(rows)
      BY <1>1, <1>6
    <2>2. CASE k \in 1..Len(rows)
      BY SMTT(30), <1>1, <1>3, <1>6, <2>1, <2>2
    <2>3. CASE k = Len(rows) + 1
      BY <1>1, <1>3, <1>4, <2>1, <2>3
    <2> QED BY <1>2, <2>2, <2>3
  <1>7. RowsOK(all, next, ids \cup {row.cells.id.value})
    BY <1>1, <1>5, <1>6 DEF RowsOK
  <1> QED BY <1>7 DEF all

-----------------------------------------------------------------------------
(***************************************************************************)
(* The steps.                                                              *)
(***************************************************************************)

LEMMA StartsWell == Init => FileInv
  <1> SUFFICES ASSUME Init PROVE FileInv
    OBVIOUS
  <1> USE DEF Init
  <1>1. CollectorOK(<<>>, NewCollector) /\ About(<<>>, NewCollector) = {}
    BY StartCollecting
  <1>2. staged \o pending = <<>> /\ <<>> \in Seq(StagedRow) /\ Len(<<>>) = 0
    OBVIOUS
  <1>3. RowsOK(staged \o pending, line, seen)
    BY <1>2 DEF RowsOK
  <1>4. TypeOK
    BY <1>1, <1>2 DEF TypeOK, CollectorOK, NoRows, NewJob, JobRow
  <1>5. Reading
    BY <1>1, <1>2 DEF Reading, NoRows, NewCollector
  <1>6. IssuesIdentified /\ CountersStorable
    BY <1>2 DEF IssuesIdentified, CountersStorable, NewJob
  <1> QED BY <1>3, <1>4, <1>5, <1>6 DEF FileInv, Rejecting, Validating, Finished

LEMMA StorableWhenFit == IssuesIdentified <=> IssuesFit(issues)
  BY DEF IssuesIdentified, IssuesFit

LEMMA StorableWhenFitNext == IssuesIdentified' <=> IssuesFit(issues')
  BY DEF IssuesIdentified, IssuesFit

\* What is stored of the details fits the table.
LEMMA StoredFits ==
  ASSUME NEW stored, NEW c, CollectorOK(stored, c),
         \A r \in About(stored, c) : r = 0 \/ r >= 2
  PROVE  IssuesFit(stored)
  <1>1. stored \in Seq(DetailIssue) /\ c.kept \in Seq(DetailIssue)
    BY DEF CollectorOK, Collector
  <1>2. Injective(stored)
    <2> DEFINE all == stored \o c.kept
    <2>1. \A k \in 1..Len(stored) : k \in 1..Len(all) /\ all[k] = stored[k]
      BY <1>1
    <2>2. Injective(all)
      BY DEF CollectorOK
    <2> HIDE DEF all
    <2> QED BY <2>1, <2>2 DEF Injective
  <1>3. \A i \in Elements(stored) : i.row = 0 \/ i.row >= 2
    BY DEF About
  <1> QED BY <1>1, <1>2, <1>3, DetailsFit

LEMMA CountersWhileReading ==
  ASSUME FileInv, pc \in {"header", "reading"}
  PROVE  /\ job \in JobRow /\ job.status = "processing"
         /\ job.inserted = 0 /\ job.reused = 0
         /\ progress \in [total : Nat, valid : Nat, invalid : Nat, reused : Nat]
         /\ collector \in Collector
  BY DEF FileInv, TypeOK, CountersStorable

\* Every batch leaves counters that add up, whatever rows and issues it stores.
LEMMA BatchCounted ==
  ASSUME FileInv, pc \in {"header", "reading"}, NEW rows, NEW found, NEW total \in Nat,
         NEW counts \in [total : Nat, valid : Nat, invalid : Nat, reused : Nat],
         counts.total = counts.valid + counts.invalid, total >= counts.invalid,
         RecordBatch(rows, found, counts, total)
  PROVE  job' \in JobRow /\ job'.status = "processing" /\ CountersStorable'
  <1>1. /\ job \in JobRow /\ job.status = "processing"
        /\ job.inserted = 0 /\ job.reused = 0
    BY CountersWhileReading
  <1>2. job' = [job EXCEPT !.total = counts.total, !.valid = counts.valid,
                           !.invalid = counts.invalid, !.issueCount = total]
    BY DEF RecordBatch
  <1>3. job' \in JobRow
    BY <1>1, <1>2 DEF JobRow
  <1>4. /\ job'.total = counts.total /\ job'.valid = counts.valid
        /\ job'.invalid = counts.invalid /\ job'.issueCount = total
        /\ job'.status = "processing" /\ job'.inserted = 0 /\ job'.reused = 0
    BY <1>1, <1>2 DEF JobRow
  <1> QED BY <1>3, <1>4 DEF CountersStorable

\* The last batch stores every row that was read, and all issues or a summary.
LEMMA RestRecorded ==
  ASSUME FileInv, pc \in {"header", "reading"}, NEW c, CollectorOK(issues, c),
         \A r \in About(issues, c) : r = 0 \/ r >= 2, c.total >= progress.invalid,
         RecordRest(c), line' \in Nat, line <= line', seen \subseteq seen'
  PROVE  /\ staged' = staged \o pending /\ staged' \in Seq(StagedRow)
         /\ pending' = <<>> /\ pending' \in Seq(StagedRow)
         /\ RowsOK(staged \o pending, line, seen)'
         /\ issues' = issues \o Persisted(c)
         /\ IssuesIdentified'
         /\ MaxIssues > 1 => AccountedFor(issues', c.total)
         /\ job' \in JobRow /\ job'.status = "processing" /\ CountersStorable'
  <1>1. /\ staged \in Seq(StagedRow) /\ pending \in Seq(StagedRow) /\ line \in Nat
        /\ RowsOK(staged \o pending, line, seen)
    BY DEF FileInv, TypeOK
  <1>2. RecordBatch(pending, Persisted(c), progress, c.total)
    BY DEF RecordRest
  <1>3. /\ staged' = staged \o pending /\ pending' = <<>>
        /\ issues' = issues \o Persisted(c)
    BY <1>2 DEF RecordBatch
  <1>4. staged' \in Seq(StagedRow) /\ pending' \in Seq(StagedRow)
    BY <1>1, <1>3, ConcatProperties
  <1>5. staged' \o pending' = staged \o pending
    BY <1>3, <1>4, ConcatEmptySeq
  <1>6. RowsOK(staged' \o pending', line', seen')
    BY <1>1, <1>5, RowsKept
  <1>7. IssuesFit(issues') /\ (MaxIssues > 1 => AccountedFor(issues', c.total))
    BY <1>3, Persisting
  <1>8. IssuesIdentified'
    BY <1>7, StorableWhenFitNext
  <1>9. job' \in JobRow /\ job'.status = "processing" /\ CountersStorable'
    <2>1. c.total \in Nat
      BY DEF CollectorOK, Collector
    <2>2. /\ progress \in [total : Nat, valid : Nat, invalid : Nat, reused : Nat]
          /\ progress.total = progress.valid + progress.invalid
      BY CountersWhileReading DEF FileInv, Reading
    <2> QED BY <1>2, <2>1, <2>2, BatchCounted
  <1> QED BY <1>3, <1>4, <1>6, <1>7, <1>8, <1>9

\* The issue that ends a file is not about a row, and so it is always a new one.
LEMMA ErrorEnds ==
  ASSUME FileInv, pc \in {"header", "reading"}, NEW code \in FileCodes, EndWithError(code),
         line' \in Nat, line <= line', rowCount' \in Nat, seen \subseteq seen'
  PROVE  FileInv'
  <1> DEFINE c == Added(collector, <<FileIssue(code)>>)
  <1>1. /\ CollectorOK(issues, collector) /\ About(issues, collector) \subseteq 2..line
        /\ progress.total = progress.valid + progress.invalid
        /\ collector.total >= progress.invalid
        /\ progress \in [total : Nat, valid : Nat, invalid : Nat, reused : Nat]
        /\ collector.total \in Nat /\ line \in Nat
    BY DEF FileInv, Reading, TypeOK, Collector
  <1>2. <<FileIssue(code)>> \in Seq(IssuesOf(0)) /\ <<FileIssue(code)>> # <<>>
    <2>1. FileIssue(code) \in IssuesOf(0)
      BY IssueOfRow DEF FileIssue, Columns, Codes
    <2> QED BY <2>1
  <1>3. 0 \notin About(issues, collector)
    BY <1>1
  <1>4. /\ CollectorOK(issues, c)
        /\ c.total \in Nat /\ c.total > collector.total
        /\ About(issues, c) \subseteq About(issues, collector) \cup {0}
    BY <1>1, <1>2, <1>3, Adding
  <1>5. RecordRest(c) /\ collector' = Drained(c) /\ pc' = "rejecting" /\ progress' = progress
    BY DEF EndWithError
  <1> HIDE DEF c
  <1>6. \A r \in About(issues, c) : r = 0 \/ r >= 2
    BY <1>1, <1>4
  <1>7. c.total >= progress.invalid
    BY <1>1, <1>4
  <1>8. /\ staged' \in Seq(StagedRow)
        /\ pending' = <<>> /\ pending' \in Seq(StagedRow)
        /\ RowsOK(staged \o pending, line, seen)'
        /\ IssuesIdentified'
        /\ MaxIssues > 1 => AccountedFor(issues', c.total)
        /\ job' \in JobRow /\ job'.status = "processing" /\ CountersStorable'
    BY <1>4, <1>5, <1>6, <1>7, RestRecorded
  <1>9. collector' \in Collector /\ collector'.total = c.total
    BY <1>4, <1>5, Draining DEF CollectorOK
  <1>10. TypeOK'
    BY <1>1, <1>5, <1>8, <1>9 DEF TypeOK
  <1>11. Rejecting'
    BY <1>1, <1>4, <1>5, <1>8, <1>9 DEF Rejecting
  <1>12. Reading' /\ Validating' /\ Finished'
    BY <1>5 DEF Reading, Validating, Finished
  <1> QED BY <1>5, <1>8, <1>10, <1>11, <1>12 DEF FileInv

LEMMA ReadsOn ==
  ASSUME FileInv, NEW height \in Heights, Reads(height)
  PROVE  pc = "reading" /\ line \in Nat /\ line' \in Nat /\ line + 1 <= line' /\ line >= 1
         /\ rowCount \in Nat /\ staged \in Seq(StagedRow) /\ pending \in Seq(StagedRow)
         /\ RowsOK(staged \o pending, line, seen)
  BY DEF FileInv, TypeOK, Reading, Reads, Heights

\* One result of the reader: a row without issues, or the issues of a row.
LEMMA Yielded ==
  ASSUME FileInv, NEW height \in Heights, Reads(height), rowCount' = rowCount + 1,
         NEW rows \in Seq(StagedRow), NEW found \in Seq(IssuesOf(line + 1)),
         found = <<>> => Len(rows) = 1, found # <<>> => Len(rows) = 0,
         RowsOK((staged \o pending) \o rows, line', seen'), Yield(rows, found)
  PROVE  FileInv'
  <1> DEFINE c      == Added(collector, found)
             counts == [progress EXCEPT !.total = @ + 1,
                                        !.valid = @ + Len(rows),
                                        !.invalid = @ + 1 - Len(rows)]
  <1>1. pc = "reading" /\ pc' = "reading" /\ line \in Nat /\ line' \in Nat
        /\ line + 1 <= line' /\ line >= 1
    <2>1. pc' = pc
      BY DEF Yield
    <2> QED BY <2>1, ReadsOn
  <1>2. /\ CollectorOK(issues, collector) /\ About(issues, collector) \subseteq 2..line
        /\ progress.total = rowCount
        /\ progress.valid = Len(staged) + Len(pending)
        /\ progress.total = progress.valid + progress.invalid
        /\ collector.total >= progress.invalid
        /\ progress.invalid = 0 => collector.total = 0
        /\ progress \in [total : Nat, valid : Nat, invalid : Nat, reused : Nat]
        /\ collector.total \in Nat /\ rowCount \in Nat
        /\ staged \in Seq(StagedRow) /\ pending \in Seq(StagedRow)
        /\ job \in JobRow /\ job.status = "processing"
    BY <1>1 DEF FileInv, Reading, TypeOK, Collector
  <1>3. line + 1 \in Nat /\ line + 1 \notin About(issues, collector)
    BY <1>1, <1>2
  <1>4. /\ CollectorOK(issues, c)
        /\ c.total \in Nat /\ c.total >= collector.total
        /\ c.total > collector.total <=> found # <<>>
        /\ About(issues, c) \subseteq About(issues, collector) \cup {line + 1}
    BY <1>2, <1>3, Adding
  <1>5. About(issues, c) \subseteq 2..line'
    <2>1. 2..line \subseteq 2..line' /\ line + 1 \in 2..line'
      BY <1>1
    <2> QED BY <1>2, <1>4, <2>1
  <1>6. /\ Len(rows) \in {0, 1} /\ (found = <<>> <=> Len(rows) = 1)
        /\ counts \in [total : Nat, valid : Nat, invalid : Nat, reused : Nat]
        /\ counts.total = progress.total + 1
        /\ counts.valid = progress.valid + Len(rows)
        /\ counts.invalid = progress.invalid + 1 - Len(rows)
    <2>1. Len(rows) \in {0, 1} /\ (found = <<>> <=> Len(rows) = 1)
      <3>1. CASE found = <<>>
        BY <3>1
      <3>2. CASE found # <<>>
        BY <3>2
      <3> QED BY <3>1, <3>2
    <2>2. /\ progress.total + 1 \in Nat
          /\ progress.valid + Len(rows) \in Nat
          /\ progress.invalid + 1 - Len(rows) \in Nat
      <3>1. progress.total \in Nat /\ progress.valid \in Nat /\ progress.invalid \in Nat
        BY <1>2
      <3>2. CASE Len(rows) = 0
        BY <3>1, <3>2
      <3>3. CASE Len(rows) = 1
        BY <3>1, <3>3
      <3> QED BY <2>1, <3>2, <3>3
    <2>3. progress \in [total : Nat, valid : Nat, invalid : Nat, reused : Nat]
      BY <1>2
    <2> QED BY ONLY <2>1, <2>2, <2>3 DEF counts
  <1>7. /\ progress' = counts
        /\ IF counts.total % ChunkSize = 0
           THEN /\ RecordBatch(pending \o rows, c.kept, counts, c.total)
                /\ collector' = Drained(c)
           ELSE /\ pending' = pending \o rows
                /\ collector' = c
                /\ UNCHANGED <<staged, issues, job>>
    BY DEF Yield
  <1> HIDE DEF c, counts
  <1>8. /\ counts.total = counts.valid + counts.invalid
        /\ c.total >= counts.invalid
        /\ counts.invalid = 0 => c.total = 0
    <2>1. /\ progress.total = progress.valid + progress.invalid
          /\ collector.total >= progress.invalid
          /\ progress.invalid = 0 => collector.total = 0
          /\ progress.total \in Nat /\ progress.valid \in Nat /\ progress.invalid \in Nat
          /\ collector.total \in Nat
      BY <1>2
    <2>2. CASE found = <<>>
      <3>1. Len(rows) = 1 /\ c.total = collector.total
        BY SMTT(30), <1>4, <1>6, <2>1, <2>2
      <3> QED BY <1>6, <2>1, <3>1
    <2>3. CASE found # <<>>
      <3>1. Len(rows) = 0 /\ c.total > collector.total
        BY <1>4, <1>6, <2>3
      <3>2. c.total \in Nat /\ counts.invalid = progress.invalid + 1
        BY <1>4, <1>6, <2>1, <3>1
      <3>3. counts.total = counts.valid + counts.invalid
        BY <1>6, <2>1, <3>1
      <3> QED BY <2>1, <3>1, <3>2, <3>3
    <2> QED BY <2>2, <2>3
  <1>9. (staged \o pending) \o rows = staged \o (pending \o rows)
    <2>1. \A s, t, u \in Seq(StagedRow) : (s \o t) \o u = s \o (t \o u)
      BY ONLY Associative
    <2> QED BY <1>2, <2>1
  <1>10. pending \o rows \in Seq(StagedRow) /\ Len(pending \o rows) = Len(pending) + Len(rows)
    BY <1>2, ConcatProperties
  <1>11. /\ staged' \in Seq(StagedRow) /\ pending' \in Seq(StagedRow)
         /\ staged' \o pending' = staged \o (pending \o rows)
         /\ Len(staged') + Len(pending') = Len(staged) + Len(pending) + Len(rows)
    <2>1. CASE counts.total % ChunkSize = 0
      <3>1. staged' = staged \o (pending \o rows) /\ pending' = <<>>
        BY <1>7, <2>1 DEF RecordBatch
      <3>2. staged' \in Seq(StagedRow) /\ Len(staged') = Len(staged) + Len(pending \o rows)
        BY <1>2, <1>10, <3>1, ConcatProperties
      <3>3. staged' \o pending' = staged' /\ Len(pending') = 0 /\ pending' \in Seq(StagedRow)
        BY <3>1, <3>2, ConcatEmptySeq
      <3> QED BY <1>10, <3>1, <3>2, <3>3
    <2>2. CASE ~(counts.total % ChunkSize = 0)
      <3>1. staged' = staged /\ pending' = pending \o rows
        BY <1>7, <2>2
      <3>2. Len(staged) \in Nat /\ Len(pending) \in Nat /\ Len(rows) \in Nat
        BY <1>2
      <3> QED BY <1>2, <1>10, <3>1, <3>2
    <2> QED BY <2>1, <2>2
  <1>12. RowsOK(staged \o pending, line, seen)'
    BY <1>9, <1>11
  <1>13. /\ CollectorOK(issues', collector') /\ About(issues', collector') \subseteq 2..line'
         /\ collector'.total = c.total
    <2>1. CASE counts.total % ChunkSize = 0
      <3>1. issues' = issues \o c.kept /\ collector' = Drained(c)
        BY <1>7, <2>1 DEF RecordBatch
      <3> QED BY <1>4, <1>5, <3>1, Draining
    <2>2. CASE ~(counts.total % ChunkSize = 0)
      BY <1>4, <1>5, <1>7, <2>2
    <2> QED BY <2>1, <2>2
  <1>14. IssuesIdentified'
    <2>1. \A r \in About(issues', collector') : r = 0 \/ r >= 2
      BY <1>1, <1>13
    <2>2. IssuesFit(issues')
      BY <1>13, <2>1, StoredFits
    <2> QED BY <2>2, StorableWhenFitNext
  <1>15. job' \in JobRow /\ job'.status = "processing" /\ CountersStorable'
    <2>1. CASE counts.total % ChunkSize = 0
      <3>1. RecordBatch(pending \o rows, c.kept, counts, c.total)
        BY <1>7, <2>1
      <3> QED BY <1>1, <1>4, <1>6, <1>8, <3>1, BatchCounted
    <2>2. CASE ~(counts.total % ChunkSize = 0)
      BY <1>2, <1>7, <2>2 DEF FileInv, CountersStorable
    <2> QED BY <2>1, <2>2
  <1>16. TypeOK'
    BY <1>1, <1>2, <1>6, <1>7, <1>11, <1>13, <1>15 DEF TypeOK, CollectorOK
  <1>17. Reading'
    <2>1. progress'.total = rowCount'
      BY <1>2, <1>6, <1>7
    <2>2. progress'.valid = Len(staged') + Len(pending')
      BY <1>2, <1>6, <1>7, <1>11
    <2>3. /\ progress'.total = progress'.valid + progress'.invalid
          /\ collector'.total >= progress'.invalid
          /\ progress'.invalid = 0 => collector'.total = 0
      BY <1>7, <1>8, <1>13
    <2>4. pc' = "reading" /\ line' >= 1
      BY <1>1
    <2> QED BY <1>13, <2>1, <2>2, <2>3, <2>4 DEF Reading
  <1>18. Rejecting' /\ Validating' /\ Finished'
    BY <1>1 DEF Rejecting, Validating, Finished
  <1> QED BY <1>1, <1>12, <1>14, <1>15, <1>16, <1>17, <1>18 DEF FileInv

LEMMA ReadHeaderKeeps == FileInv /\ ReadHeader => FileInv'
  <1> SUFFICES ASSUME FileInv, ReadHeader PROVE FileInv'
    OBVIOUS
  <1>1. /\ pc = "header" /\ line = 0 /\ rowCount = 0 /\ pc' = "reading" /\ line' = 1
        /\ UNCHANGED <<progress, collector, pending, staged, issues, job, rowCount, seen>>
    BY DEF ReadHeader, FileInv, Reading
  <1>2. RowsOK(staged \o pending, line, seen)'
    <2>1. RowsOK(staged \o pending, line, seen)
      BY DEF FileInv
    <2>2. RowsOK(staged \o pending, 1, seen)
      BY <1>1, <2>1, RowsKept
    <2> QED BY <1>1, <2>2
  <1>3. TypeOK'
    BY <1>1 DEF FileInv, TypeOK
  <1>4. Reading'
    <2>1. About(issues, collector) = {}
      BY <1>1 DEF FileInv, Reading
    <2> HIDE DEF About
    <2> QED BY <1>1, <2>1 DEF FileInv, Reading
  <1>5. IssuesIdentified' /\ CountersStorable'
    BY <1>1 DEF FileInv, IssuesIdentified, CountersStorable
  <1>6. Rejecting' /\ Validating' /\ Finished'
    BY <1>1 DEF Rejecting, Validating, Finished
  <1> QED BY <1>1, <1>2, <1>3, <1>4, <1>5, <1>6 DEF FileInv

LEMMA RejectHeaderKeeps == FileInv /\ RejectHeader => FileInv'
  <1> SUFFICES ASSUME FileInv, RejectHeader PROVE FileInv'
    OBVIOUS
  <1>1. /\ pc = "header" /\ HeaderError(header) # "" /\ EndWithError(HeaderError(header))
        /\ UNCHANGED <<line, rowCount, seen>>
    BY DEF RejectHeader
  <1>2. HeaderError(header) \in FileCodes
    BY <1>1 DEF HeaderError, FileCodes
  <1>3. line' \in Nat /\ line <= line' /\ rowCount' \in Nat /\ seen \subseteq seen'
    <2>1. line \in Nat /\ rowCount \in Nat
      BY DEF FileInv, TypeOK
    <2>2. line' = line /\ rowCount' = rowCount /\ seen' = seen
      BY <1>1
    <2> QED BY <2>1, <2>2
  <1> QED BY <1>1, <1>2, <1>3, ErrorEnds

\* Nothing was read before the first line, and nothing is kept of it.
LEMMA HeaderRefusedKeeps == FileInv /\ HeaderRefused => FileInv'
  <1> SUFFICES ASSUME FileInv, HeaderRefused PROVE FileInv'
    OBVIOUS
  <1>1. /\ pc = "header" /\ pc' = "refused"
        /\ UNCHANGED <<line, rowCount, seen, progress, collector, pending, staged, issues, job>>
    BY DEF HeaderRefused
  <1>2. pending = <<>>
    <2>1. /\ pending \in Seq(StagedRow) /\ Len(staged) \in Nat
          /\ progress.valid \in Nat /\ progress.invalid \in Nat
      BY DEF FileInv, TypeOK
    <2>2. progress.valid + progress.invalid = 0 /\ progress.valid = Len(staged) + Len(pending)
      BY <1>1 DEF FileInv, Reading
    <2>3. Len(pending) = 0
      BY <2>1, <2>2
    <2> QED BY <2>1, <2>3
  <1>3. TypeOK' /\ RowsOK(staged \o pending, line, seen)'
    BY <1>1 DEF FileInv, TypeOK
  <1>4. IssuesIdentified' /\ CountersStorable'
    BY <1>1 DEF FileInv, IssuesIdentified, CountersStorable
  <1>5. Reading' /\ Rejecting' /\ Validating' /\ Finished'
    BY <1>1 DEF Reading, Rejecting, Validating, Finished
  <1> QED BY <1>1, <1>2, <1>3, <1>4, <1>5 DEF FileInv

LEMMA ScheduleRetryKeeps == FileInv /\ ScheduleRetry => FileInv'
  <1> SUFFICES ASSUME FileInv, ScheduleRetry PROVE FileInv'
    OBVIOUS
  <1>1. /\ pc = "refused"
        /\ \/ pc' = "waiting" /\ job' = [job EXCEPT !.status = "retry_wait"]
           \/ pc' = "finished" /\ job' = [job EXCEPT !.status = "failed"]
        /\ UNCHANGED <<line, rowCount, seen, progress, collector, pending, staged, issues>>
    BY DEF ScheduleRetry
  <1>2. /\ job' \in JobRow
        /\ job'.status = IF pc' = "waiting" THEN "retry_wait" ELSE "failed"
        /\ job'.total = job.total /\ job'.valid = job.valid /\ job'.invalid = job.invalid
        /\ job'.issueCount = job.issueCount /\ job'.inserted = job.inserted
        /\ job'.reused = job.reused
    <2>1. job \in JobRow
      BY DEF FileInv, TypeOK
    <2> QED BY <1>1, <2>1 DEF JobRow
  <1>3. job.status = "processing" /\ pending = <<>>
    BY <1>1 DEF FileInv, TypeOK
  <1>4. TypeOK' /\ RowsOK(staged \o pending, line, seen)'
    BY <1>1, <1>2 DEF FileInv, TypeOK
  <1>5. IssuesIdentified'
    BY <1>1 DEF FileInv, IssuesIdentified
  <1>6. CountersStorable'
    BY <1>2, <1>3 DEF FileInv, CountersStorable
  <1>7. Finished'
    BY <1>2 DEF Finished, IssuesAccountedFor
  <1>8. Reading' /\ Rejecting' /\ Validating'
    BY <1>1 DEF Reading, Rejecting, Validating
  <1> QED BY <1>1, <1>3, <1>4, <1>5, <1>6, <1>7, <1>8 DEF FileInv

\* Another attempt starts as the first one did.
LEMMA ClaimAgainKeeps == FileInv /\ ClaimAgain => FileInv'
  <1> SUFFICES ASSUME FileInv, ClaimAgain PROVE FileInv'
    OBVIOUS
  <1>1. /\ pc' = "header" /\ line' = 0 /\ rowCount' = 0 /\ seen' = {}
        /\ progress' = NoRows /\ collector' = NewCollector
        /\ pending' = <<>> /\ staged' = <<>> /\ issues' = <<>>
        /\ job' = [NewJob EXCEPT !.attempts = job.attempts + 1]
    BY DEF ClaimAgain
  <1>2. CollectorOK(<<>>, NewCollector) /\ About(<<>>, NewCollector) = {}
    BY StartCollecting
  <1>3. staged' \o pending' = <<>> /\ <<>> \in Seq(StagedRow) /\ Len(<<>>) = 0
    BY <1>1
  <1>4. RowsOK(staged \o pending, line, seen)'
    BY <1>3 DEF RowsOK
  <1>5. job.attempts + 1 \in Nat
    BY DEF FileInv, TypeOK, JobRow
  <1>6. TypeOK'
    BY <1>1, <1>2, <1>3, <1>5 DEF TypeOK, CollectorOK, NoRows, NewJob, JobRow
  <1>7. Reading'
    BY <1>1, <1>2, <1>3 DEF Reading, NoRows, NewCollector
  <1>8. IssuesIdentified' /\ CountersStorable'
    BY <1>1, <1>3 DEF IssuesIdentified, CountersStorable, NewJob
  <1>9. Rejecting' /\ Validating' /\ Finished'
    BY <1>1 DEF Rejecting, Validating, Finished
  <1> QED BY <1>1, <1>4, <1>6, <1>7, <1>8, <1>9 DEF FileInv

LEMMA ReadBlankKeeps ==
  ASSUME FileInv, NEW height \in Heights, ReadBlank(height)
  PROVE  FileInv'
  <1>1. /\ pc = "reading" /\ line \in Nat /\ line' \in Nat /\ line + 1 <= line' /\ line >= 1
        /\ RowsOK(staged \o pending, line, seen)
    BY ReadsOn DEF ReadBlank
  <1>2. UNCHANGED <<pc, rowCount, seen, progress, collector, pending, staged, issues, job>>
    BY DEF ReadBlank
  <1>3. RowsOK(staged \o pending, line', seen)
    BY <1>1, RowsKept
  <1>4. RowsOK(staged \o pending, line, seen)'
    BY <1>2, <1>3
  <1>5. TypeOK'
    BY <1>1, <1>2 DEF FileInv, TypeOK
  <1>6. Reading'
    <2>1. About(issues', collector') \subseteq 2..line'
      BY <1>1, <1>2 DEF FileInv, Reading
    <2> QED BY <1>1, <1>2, <2>1 DEF FileInv, Reading
  <1>7. IssuesIdentified' /\ CountersStorable'
    BY <1>2 DEF FileInv, IssuesIdentified, CountersStorable
  <1>8. Rejecting' /\ Validating' /\ Finished'
    BY <1>1, <1>2 DEF Rejecting, Validating, Finished
  <1> QED BY <1>1, <1>2, <1>4, <1>5, <1>6, <1>7, <1>8 DEF FileInv

LEMMA ReadRaggedKeeps ==
  ASSUME FileInv, NEW height \in Heights, ReadRagged(height)
  PROVE  FileInv'
  <1> DEFINE found == <<Issue(RowNumber, "__row__", "ROW_COLUMN_COUNT_MISMATCH")>>
  <1>1. Reads(height) /\ rowCount' = rowCount + 1 /\ seen' = seen
    BY DEF ReadRagged
  <1>2. /\ pc = "reading" /\ line \in Nat /\ line' \in Nat /\ line + 1 <= line' /\ line >= 1
        /\ rowCount \in Nat /\ staged \in Seq(StagedRow) /\ pending \in Seq(StagedRow)
        /\ RowsOK(staged \o pending, line, seen)
    BY <1>1, ReadsOn
  <1>3. CASE WithinLimit
    <2>1. Yield(<<>>, found)
      BY <1>3 DEF ReadRagged
    <2>2. found \in Seq(IssuesOf(line + 1)) /\ found # <<>>
      <3>1. line + 1 \in Nat
        BY <1>2
      <3>2. Issue(line + 1, "__row__", "ROW_COLUMN_COUNT_MISMATCH") \in IssuesOf(line + 1)
        BY <3>1, IssueOfRow DEF Columns, Codes
      <3> QED BY <3>2 DEF RowNumber
    <2>3. RowsOK((staged \o pending) \o <<>>, line', seen')
      <3>1. (staged \o pending) \o <<>> = staged \o pending
        BY <1>2, ConcatEmptySeq, ConcatProperties
      <3>2. RowsOK(staged \o pending, line', seen')
        BY <1>1, <1>2, RowsKept
      <3> QED BY <3>1, <3>2
    <2>4. <<>> \in Seq(StagedRow) /\ Len(<<>>) = 0
      OBVIOUS
    <2> HIDE DEF found
    <2> QED BY <1>1, <2>1, <2>2, <2>3, <2>4, Yielded
  <1>4. CASE ~WithinLimit
    <2>1. EndWithError("FILE_ROW_LIMIT_EXCEEDED")
      BY <1>4 DEF ReadRagged
    <2> QED BY <1>1, <1>2, <2>1, ErrorEnds DEF FileCodes
  <1> QED BY <1>3, <1>4

LEMMA ReadRecordKeeps ==
  ASSUME FileInv, NEW cells \in Records, NEW height \in Heights, ReadRecord(cells, height)
  PROVE  FileInv'
  <1> DEFINE found == RowIssues(RowNumber, cells, seen)
             row   == [number |-> RowNumber, cells |-> cells]
             rows  == IF found = <<>> THEN <<row>> ELSE <<>>
  <1>1. Reads(height) /\ rowCount' = rowCount + 1
    BY DEF ReadRecord
  <1>2. /\ pc = "reading" /\ line \in Nat /\ line' \in Nat /\ line + 1 <= line' /\ line >= 1
        /\ rowCount \in Nat /\ staged \in Seq(StagedRow) /\ pending \in Seq(StagedRow)
        /\ RowsOK(staged \o pending, line, seen)
    BY <1>1, ReadsOn
  <1>3. seen \subseteq seen'
    BY DEF ReadRecord, SeenWith
  <1>4. CASE WithinLimit
    <2>1. Yield(rows, found) /\ seen' = SeenWith(cells)
      BY <1>4 DEF ReadRecord
    <2>2. /\ found \in Seq(IssuesOf(line + 1))
          /\ found = <<>> => /\ StorableRow(cells)
                             /\ ~Blank(cells.id)
                             /\ cells.id.value \notin seen
      BY <1>2, RowIssuesOfRow DEF RowNumber
    <2>3. row \in StagedRow /\ row.number = line + 1 /\ row.cells = cells
      BY <1>2 DEF StagedRow, RowNumber
    <2> HIDE DEF found, row
    <2>4. rows \in Seq(StagedRow) /\ (found = <<>> => Len(rows) = 1)
          /\ (found # <<>> => Len(rows) = 0)
      BY <2>3
    <2>5. RowsOK((staged \o pending) \o rows, line', seen')
      <3>1. CASE found = <<>>
        <4>1. seen' = seen \cup {row.cells.id.value}
          BY <2>1, <2>2, <2>3, <3>1 DEF SeenWith
        <4>2. line < row.number /\ row.number \in 2..line'
          BY <1>2, <2>3
        <4>3. RowsOK((staged \o pending) \o <<row>>, line', seen \cup {row.cells.id.value})
          BY <1>2, <2>2, <2>3, <3>1, <4>2, RowAdded
        <4> QED BY <3>1, <4>1, <4>3
      <3>2. CASE found # <<>>
        <4>1. (staged \o pending) \o <<>> = staged \o pending
          BY <1>2, ConcatEmptySeq, ConcatProperties
        <4>2. RowsOK(staged \o pending, line', seen')
          BY <1>2, <1>3, RowsKept
        <4> QED BY <3>2, <4>1, <4>2
      <3> QED BY <3>1, <3>2
    <2> HIDE DEF rows
    <2> QED BY <1>1, <2>1, <2>2, <2>4, <2>5, Yielded
  <1>5. CASE ~WithinLimit
    <2>1. EndWithError("FILE_ROW_LIMIT_EXCEEDED")
      BY <1>5 DEF ReadRecord
    <2> QED BY <1>1, <1>2, <1>3, <2>1, ErrorEnds DEF FileCodes
  <1> QED BY <1>4, <1>5

LEMMA ReadBrokenKeeps ==
  ASSUME FileInv, NEW code, ReadBroken(code)
  PROVE  FileInv'
  <1>1. /\ pc \in {"header", "reading"} /\ code \in FileCodes /\ EndWithError(code)
        /\ line' = line /\ rowCount' = rowCount /\ seen' = seen
    BY DEF ReadBroken, FileCodes
  <1>2. line \in Nat /\ rowCount \in Nat
    BY DEF FileInv, TypeOK
  <1> QED BY <1>1, <1>2, ErrorEnds

\* A file without an invalid row has no issue at all, and so nothing is stored of it
\* that the issues of the second pass could repeat.
LEMMA NothingCollected ==
  ASSUME FileInv, pc = "reading", collector.total = 0
  PROVE  issues = <<>> /\ Persisted(collector) = <<>>
  <1>1. CollectorOK(issues, collector)
    BY DEF FileInv, Reading
  <1>2. /\ issues \in Seq(DetailIssue) /\ collector.kept \in Seq(DetailIssue)
        /\ collector.details = Len(issues) + Len(collector.kept)
        /\ collector.details \in Nat /\ collector.total >= collector.details
        /\ collector.truncated <=> collector.total > collector.details
    BY <1>1, DetailLimitNat DEF CollectorOK, Collector
  <1>3. Len(issues) = 0 /\ Len(collector.kept) = 0 /\ ~collector.truncated
    BY <1>2
  <1> QED BY <1>2, <1>3 DEF Persisted

LEMMA EndOfFileKeeps == FileInv /\ EndOfFile => FileInv'
  <1> SUFFICES ASSUME FileInv, EndOfFile PROVE FileInv'
    OBVIOUS
  <1>1. pc = "reading" /\ line' = line /\ rowCount' = rowCount /\ seen' = seen
    BY DEF EndOfFile
  <1>2. /\ CollectorOK(issues, collector) /\ About(issues, collector) \subseteq 2..line
        /\ progress.total = rowCount
        /\ progress.valid = Len(staged) + Len(pending)
        /\ progress.total = progress.valid + progress.invalid
        /\ collector.total >= progress.invalid
        /\ progress.invalid = 0 => collector.total = 0
        /\ progress \in [total : Nat, valid : Nat, invalid : Nat, reused : Nat]
        /\ collector.total \in Nat /\ collector \in Collector
        /\ rowCount \in Nat /\ line \in Nat
        /\ staged \in Seq(StagedRow) /\ pending \in Seq(StagedRow)
    BY <1>1 DEF FileInv, Reading, TypeOK, Collector
  <1>3. CASE rowCount = 0
    <2>1. EndWithError("FILE_NO_DATA_ROWS")
      BY <1>3 DEF EndOfFile
    <2> QED BY <1>1, <1>2, <2>1, ErrorEnds DEF FileCodes
  <1>4. CASE rowCount # 0
    <2>1. /\ RecordRest(collector)
          /\ collector' = IF progress.invalid > 0 THEN Drained(collector) ELSE NewCollector
          /\ pc' = IF progress.invalid > 0 THEN "rejecting" ELSE "validating"
          /\ progress' = IF progress.invalid > 0 THEN progress ELSE NoRows
      BY <1>4 DEF EndOfFile
    <2>2. \A r \in About(issues, collector) : r = 0 \/ r >= 2
      BY <1>2
    <2>3. /\ staged' = staged \o pending /\ staged' \in Seq(StagedRow)
          /\ pending' = <<>> /\ pending' \in Seq(StagedRow)
          /\ RowsOK(staged \o pending, line, seen)'
          /\ issues' = issues \o Persisted(collector)
          /\ IssuesIdentified'
          /\ MaxIssues > 1 => AccountedFor(issues', collector.total)
          /\ job' \in JobRow /\ job'.status = "processing" /\ CountersStorable'
      <3>1. line' \in Nat /\ line <= line' /\ seen \subseteq seen'
        BY <1>1, <1>2
      <3> QED BY <1>1, <1>2, <2>1, <2>2, <3>1, RestRecorded
    <2>4. CASE progress.invalid > 0
      <3>1. pc' = "rejecting" /\ progress' = progress /\ collector' = Drained(collector)
        BY <2>1, <2>4
      <3>2. collector' \in Collector /\ collector'.total = collector.total
        <4>1. /\ CollectorOK(issues \o collector.kept, Drained(collector))
              /\ Drained(collector).total = collector.total
          BY <1>2, Draining
        <4> QED BY <3>1, <4>1 DEF CollectorOK
      <3>3. TypeOK'
        BY <1>1, <1>2, <2>3, <3>1, <3>2 DEF TypeOK
      <3>4. Rejecting'
        BY <1>2, <2>3, <2>4, <3>1, <3>2 DEF Rejecting
      <3>5. Reading' /\ Validating' /\ Finished'
        BY <3>1 DEF Reading, Validating, Finished
      <3> QED BY <2>3, <3>1, <3>3, <3>4, <3>5 DEF FileInv
    <2>5. CASE ~(progress.invalid > 0)
      <3>1. pc' = "validating" /\ progress' = NoRows /\ collector' = NewCollector
        BY <2>1, <2>5
      <3>2. progress.invalid = 0 /\ collector.total = 0
        BY <1>2, <2>5
      <3>3. issues' = <<>>
        <4>1. issues = <<>> /\ Persisted(collector) = <<>>
          BY <1>1, <3>2, NothingCollected
        <4> QED BY <2>3, <4>1
      <3>4. CollectorOK(issues', collector') /\ About(issues', collector') = {}
        BY <3>1, <3>3, StartCollecting
      <3>5. Len(staged') = rowCount' /\ staged' # <<>>
        <4>1. Len(staged') = Len(staged) + Len(pending)
          BY <1>2, <2>3, ConcatProperties
        <4>2. Len(staged') = rowCount
          BY <1>2, <3>2, <4>1
        <4> QED BY <1>1, <1>4, <4>2
      <3>6. progress' \in [total : Nat, valid : Nat, invalid : Nat, reused : Nat]
            /\ progress'.total = 0 /\ progress'.invalid = 0 /\ progress'.reused = 0
        BY <3>1 DEF NoRows
      <3>7. collector'.kept = <<>> /\ collector'.total = 0
        BY <3>1 DEF NewCollector
      <3>8. TypeOK'
        BY <1>1, <1>2, <2>3, <3>1, <3>4, <3>6 DEF TypeOK, CollectorOK
      <3>9. Validating'
        <4>1. Len(staged') \in Nat
          BY <2>3
        <4>2. About(issues', collector') \subseteq {staged'[k].number : k \in 1..progress'.total}
          BY <3>4
        <4> QED BY <3>1, <3>4, <3>5, <3>6, <3>7, <4>1, <4>2 DEF Validating, WholeFile
      <3>10. Reading' /\ Rejecting' /\ Finished'
        BY <3>1 DEF Reading, Rejecting, Finished
      <3> QED BY <2>3, <3>1, <3>8, <3>9, <3>10 DEF FileInv
    <2> QED BY <2>4, <2>5
  <1> QED BY <1>3, <1>4

LEMMA RejectFileKeeps == FileInv /\ RejectFile => FileInv'
  <1> SUFFICES ASSUME FileInv, RejectFile PROVE FileInv'
    OBVIOUS
  <1>1. /\ pc = "rejecting" /\ pc' = "finished"
        /\ job' = [job EXCEPT !.status = "rejected", !.total = progress.total,
                              !.valid = progress.valid, !.invalid = progress.invalid,
                              !.issueCount = collector.total]
        /\ UNCHANGED <<line, rowCount, seen, progress, collector, pending, staged, issues>>
    BY DEF RejectFile
  <1>2. /\ progress.total = progress.valid + progress.invalid
        /\ collector.total >= progress.invalid /\ collector.total > 0
        /\ MaxIssues > 1 => AccountedFor(issues, collector.total)
        /\ progress \in [total : Nat, valid : Nat, invalid : Nat, reused : Nat]
        /\ collector.total \in Nat
        /\ job \in JobRow /\ job.inserted = 0 /\ job.reused = 0
    BY <1>1 DEF FileInv, TypeOK, Rejecting, Collector, CountersStorable
  <1>3. job' \in JobRow
    BY <1>1, <1>2 DEF JobRow
  <1>4. /\ job'.status = "rejected" /\ job'.issueCount = collector.total
        /\ job'.total = progress.total /\ job'.valid = progress.valid
        /\ job'.invalid = progress.invalid /\ job'.inserted = 0 /\ job'.reused = 0
    BY <1>1, <1>2 DEF JobRow
  <1>5. TypeOK'
    BY <1>1, <1>3, <1>4 DEF FileInv, TypeOK
  <1>6. CountersStorable'
    BY <1>2, <1>4 DEF CountersStorable
  <1>7. Finished'
    BY <1>1, <1>2, <1>4
       DEF Finished, IssuesAccountedFor, AccountedFor, Summaries, Details, SummariesOf
  <1>8. RowsOK(staged \o pending, line, seen)' /\ pending' = <<>> /\ IssuesIdentified'
    BY <1>1 DEF FileInv, IssuesIdentified
  <1>9. Reading' /\ Rejecting' /\ Validating'
    BY <1>1 DEF Reading, Rejecting, Validating
  <1> QED BY <1>5, <1>6, <1>7, <1>8, <1>9 DEF FileInv

\* What the second pass starts from: the staged rows, in the order of their lines.
LEMMA ValidatingState ==
  ASSUME FileInv, pc = "validating"
  PROVE  /\ staged \in Seq(StagedRow) /\ pending = <<>> /\ staged # <<>>
         /\ Len(staged) \in Nat /\ Len(staged) = rowCount /\ line \in Nat
         /\ \A k \in 1..Len(staged) : staged[k].number \in 2..line
         /\ \A j, k \in 1..Len(staged) : j < k => staged[j].number < staged[k].number
         /\ progress \in [total : Nat, valid : Nat, invalid : Nat, reused : Nat]
         /\ progress.total <= Len(staged)
         /\ progress.invalid + progress.reused <= progress.total
         /\ collector.total \in Nat /\ collector.total >= progress.invalid
         /\ CollectorOK(issues, collector)
         /\ About(issues, collector) \subseteq {staged[k].number : k \in 1..progress.total}
         /\ progress.total = Len(staged) => collector.kept = <<>>
         /\ job \in JobRow /\ job.status = "processing" /\ job.inserted = 0 /\ job.reused = 0
  <1>1. staged \in Seq(StagedRow) /\ pending = <<>> /\ RowsOK(staged \o pending, line, seen)
        /\ line \in Nat /\ collector \in Collector
    BY DEF FileInv, TypeOK
  <1>2. staged \o pending = staged
    BY <1>1, ConcatEmptySeq
  <1>3. RowsOK(staged, line, seen)
    BY <1>1, <1>2
  <1>4. /\ \A k \in 1..Len(staged) : staged[k].number \in 2..line
        /\ \A j, k \in 1..Len(staged) : j < k => staged[j].number < staged[k].number
    BY <1>3 DEF RowsOK
  <1>5. Len(staged) \in Nat /\ collector.total \in Nat
    BY <1>1 DEF Collector
  <1>6. job \in JobRow /\ job.status = "processing" /\ job.inserted = 0 /\ job.reused = 0
        /\ progress \in [total : Nat, valid : Nat, invalid : Nat, reused : Nat]
    BY DEF FileInv, TypeOK, CountersStorable
  <1>7. Validating
    BY DEF FileInv
  <1> QED BY <1>1, <1>4, <1>5, <1>6, <1>7 DEF Validating, WholeFile

LEMMA ValidateRowKeeps ==
  ASSUME FileInv, NEW known \in Findings, ValidateRow(known)
  PROVE  FileInv'
  <1> DEFINE n       == progress.total + 1
             found   == DatabaseIssues(staged[n].number, staged[n].cells, known)
             c       == Added(collector, found)
             invalid == c.total > collector.total
             reused  == ~invalid /\ known.fact = "same"
  <1>1. pc = "validating" /\ progress.total < Len(staged)
    BY DEF ValidateRow
  <1>2. /\ progress' = [progress EXCEPT !.total = n,
                                        !.invalid = @ + (IF invalid THEN 1 ELSE 0),
                                        !.reused = @ + (IF reused THEN 1 ELSE 0)]
        /\ IF EndsChunk(n)
           THEN issues' = issues \o c.kept /\ collector' = Drained(c)
           ELSE collector' = c /\ issues' = issues
        /\ UNCHANGED <<pc, line, rowCount, seen, pending, staged, job>>
    BY DEF ValidateRow
  <1>3. /\ staged \in Seq(StagedRow) /\ pending = <<>> /\ staged # <<>>
        /\ Len(staged) \in Nat /\ Len(staged) = rowCount /\ line \in Nat
        /\ \A k \in 1..Len(staged) : staged[k].number \in 2..line
        /\ \A j, k \in 1..Len(staged) : j < k => staged[j].number < staged[k].number
        /\ progress \in [total : Nat, valid : Nat, invalid : Nat, reused : Nat]
        /\ progress.invalid + progress.reused <= progress.total
        /\ collector.total \in Nat /\ collector.total >= progress.invalid
        /\ CollectorOK(issues, collector)
        /\ About(issues, collector) \subseteq {staged[k].number : k \in 1..progress.total}
    BY <1>1, ValidatingState
  <1>4. /\ n \in 1..Len(staged) /\ n \in Nat /\ staged[n].number \in Nat
        /\ staged[n].number \in 2..line
    <2>1. progress.total \in Nat
      BY <1>3
    <2>2. n \in 1..Len(staged) /\ n \in Nat
      BY <1>1, <1>3, <2>1
    <2> HIDE DEF n
    <2>3. staged[n].number \in 2..line
      BY <1>3, <2>2
    <2> QED BY <1>3, <2>2, <2>3
  <1>5. staged[n].number \notin About(issues, collector)
    <2>1. \A k \in 1..progress.total : k \in 1..Len(staged) /\ k < n
      BY <1>1, <1>3
    <2> HIDE DEF n
    <2>2. \A k \in 1..progress.total : staged[k].number < staged[n].number
      BY <1>3, <1>4, <2>1
    <2>3. \A k \in 1..progress.total : staged[k].number \in Nat
      BY <1>3, <2>1
    <2>4. \A k \in 1..progress.total : staged[k].number # staged[n].number
      BY <1>4, <2>2, <2>3
    <2>5. staged[n].number \notin {staged[k].number : k \in 1..progress.total}
      BY <2>4
    <2> QED BY <1>3, <2>5
  <1>6. found \in Seq(IssuesOf(staged[n].number))
    BY <1>4, DatabaseIssuesOfRow
  <1> HIDE DEF found
  <1>7. /\ CollectorOK(issues, c)
        /\ c.total \in Nat /\ c.total >= collector.total
        /\ About(issues, c) \subseteq About(issues, collector) \cup {staged[n].number}
    BY <1>3, <1>4, <1>5, <1>6, Adding
  <1> HIDE DEF c
  <1>8. About(issues, c) \subseteq {staged[k].number : k \in 1..n}
    <2>1. 1..progress.total \subseteq 1..n /\ n \in 1..n
      BY <1>3, <1>4
    <2> HIDE DEF n
    <2> QED BY <1>3, <1>7, <2>1
  <1>9. /\ CollectorOK(issues', collector')
        /\ About(issues', collector') \subseteq {staged[k].number : k \in 1..n}
        /\ collector'.total = c.total
        /\ n = Len(staged) => collector'.kept = <<>>
    <2>1. CASE EndsChunk(n)
      BY <1>2, <1>7, <1>8, <2>1, Draining
    <2>2. CASE ~EndsChunk(n)
      BY <1>2, <1>7, <1>8, <2>2 DEF EndsChunk
    <2> QED BY <2>1, <2>2
  <1>10. /\ progress' \in [total : Nat, valid : Nat, invalid : Nat, reused : Nat]
         /\ progress'.total = n
         /\ progress'.invalid + progress'.reused <= n
         /\ c.total >= progress'.invalid
    <2>1. /\ progress.total \in Nat /\ progress.invalid \in Nat /\ progress.reused \in Nat
          /\ progress.invalid + progress.reused <= progress.total
          /\ collector.total \in Nat /\ collector.total >= progress.invalid
      BY <1>3
    <2> DEFINE one   == IF invalid THEN 1 ELSE 0
               other == IF reused THEN 1 ELSE 0
    <2>2. one \in {0, 1} /\ other \in {0, 1} /\ one + other <= 1
      OBVIOUS
    <2>3. one = 1 => c.total > collector.total
      OBVIOUS
    <2>4. progress' = [progress EXCEPT !.total = n, !.invalid = @ + one, !.reused = @ + other]
      BY <1>2
    <2> HIDE DEF one, other
    <2>5. progress.invalid + one \in Nat /\ progress.reused + other \in Nat
      BY <2>1, <2>2
    <2>6. /\ progress' \in [total : Nat, valid : Nat, invalid : Nat, reused : Nat]
          /\ progress'.total = n /\ progress'.invalid = progress.invalid + one
          /\ progress'.reused = progress.reused + other
      BY <1>3, <1>4, <2>4, <2>5
    <2>7. (progress.invalid + one) + (progress.reused + other) <= n
      BY <2>1, <2>2
    <2>8. c.total >= progress.invalid + one
      BY <1>7, <2>1, <2>2, <2>3
    <2> QED BY <2>6, <2>7, <2>8
  <1> HIDE DEF n
  <1>11. IssuesIdentified'
    <2>1. \A r \in About(issues', collector') : r = 0 \/ r >= 2
      <3>1. \A k \in 1..n : k \in 1..Len(staged)
        BY <1>3, <1>4
      <3>2. \A k \in 1..n : staged[k].number >= 2
        BY <1>3, <3>1
      <3> QED BY <1>9, <3>2
    <2>2. IssuesFit(issues')
      BY <1>9, <2>1, StoredFits
    <2> QED BY <2>2, StorableWhenFitNext
  <1>12. CountersStorable'
    BY <1>2 DEF FileInv, CountersStorable
  <1>13. TypeOK'
    BY <1>1, <1>2, <1>9, <1>10 DEF FileInv, TypeOK, CollectorOK
  <1>14. Validating'
    <2>1. progress'.total <= Len(staged') /\ staged' = staged /\ WholeFile'
      BY <1>2, <1>3, <1>4, <1>10 DEF WholeFile
    <2>2. About(issues', collector') \subseteq {staged'[k].number : k \in 1..progress'.total}
      BY <1>9, <1>10, <2>1
    <2> QED BY <1>9, <1>10, <2>1, <2>2 DEF Validating
  <1>15. RowsOK(staged \o pending, line, seen)' /\ pending' = <<>>
    BY <1>2, <1>3 DEF FileInv
  <1>16. Reading' /\ Rejecting' /\ Finished'
    BY <1>1, <1>2 DEF Reading, Rejecting, Finished
  <1> QED BY <1>11, <1>12, <1>13, <1>14, <1>15, <1>16 DEF FileInv

LEMMA FinishInvalidKeeps == FileInv /\ FinishInvalid => FileInv'
  <1> SUFFICES ASSUME FileInv, FinishInvalid PROVE FileInv'
    OBVIOUS
  <1>1. /\ pc = "validating" /\ progress.total = Len(staged) /\ collector.total > 0
        /\ pc' = "finished"
        /\ issues' = issues \o Persisted(collector)
        /\ job' = [job EXCEPT !.status = "rejected", !.total = Len(staged),
                              !.valid = Len(staged) - progress.invalid,
                              !.invalid = progress.invalid,
                              !.issueCount = collector.total]
        /\ UNCHANGED <<line, rowCount, seen, progress, collector, pending, staged>>
    BY DEF FinishInvalid
  <1>2. /\ pending = <<>> /\ Len(staged) \in Nat
        /\ \A k \in 1..Len(staged) : staged[k].number \in 2..line
        /\ progress \in [total : Nat, valid : Nat, invalid : Nat, reused : Nat]
        /\ progress.invalid + progress.reused <= progress.total
        /\ collector.total \in Nat /\ collector.total >= progress.invalid
        /\ CollectorOK(issues, collector)
        /\ About(issues, collector) \subseteq {staged[k].number : k \in 1..progress.total}
        /\ job \in JobRow /\ job.status = "processing" /\ job.inserted = 0 /\ job.reused = 0
    BY <1>1, ValidatingState
  <1>3. \A r \in About(issues, collector) : r = 0 \/ r >= 2
    <2>1. \A k \in 1..progress.total : staged[k].number >= 2
      BY <1>1, <1>2
    <2> QED BY <1>2, <2>1
  <1>4. IssuesFit(issues') /\ (MaxIssues > 1 => AccountedFor(issues', collector.total))
    BY <1>1, <1>2, <1>3, Persisting
  <1>5. Len(staged) - progress.invalid \in Nat /\ progress.invalid \in Nat
    <2>1. progress.invalid \in Nat /\ progress.reused \in Nat
      BY <1>2
    <2> QED BY <1>1, <1>2, <2>1
  <1>6. job' \in JobRow
    BY <1>1, <1>2, <1>5 DEF JobRow
  <1>7. /\ job'.status = "rejected" /\ job'.issueCount = collector.total
        /\ job'.total = Len(staged) /\ job'.valid = Len(staged) - progress.invalid
        /\ job'.invalid = progress.invalid /\ job'.inserted = 0 /\ job'.reused = 0
    BY <1>1, <1>2 DEF JobRow
  <1>8. CountersStorable'
    BY <1>1, <1>2, <1>5, <1>7 DEF CountersStorable
  <1>9. TypeOK'
    BY <1>1, <1>6, <1>7 DEF FileInv, TypeOK
  <1>10. Finished'
    <2>1. MaxIssues > 1 => IssuesAccountedFor'
      BY <1>4, <1>7 DEF IssuesAccountedFor, AccountedFor, Summaries, Details, SummariesOf
    <2> QED BY <1>7, <2>1 DEF Finished
  <1>11. IssuesIdentified'
    BY <1>4, StorableWhenFitNext
  <1>12. RowsOK(staged \o pending, line, seen)' /\ pending' = <<>>
    BY <1>1, <1>2 DEF FileInv
  <1>13. Reading' /\ Rejecting' /\ Validating'
    BY <1>1 DEF Reading, Rejecting, Validating
  <1> QED BY <1>8, <1>9, <1>10, <1>11, <1>12, <1>13 DEF FileInv

LEMMA FinishPublishedKeeps == FileInv /\ FinishPublished => FileInv'
  <1> SUFFICES ASSUME FileInv, FinishPublished PROVE FileInv'
    OBVIOUS
  <1>1. /\ pc = "validating" /\ progress.total = Len(staged)
        /\ pc' = "finished"
        /\ job' = [job EXCEPT !.status = "published", !.total = Len(staged),
                              !.valid = Len(staged), !.invalid = 0, !.issueCount = 0,
                              !.inserted = Len(staged) - progress.reused,
                              !.reused = progress.reused]
        /\ UNCHANGED <<line, rowCount, seen, progress, collector, pending, staged, issues>>
    BY DEF FinishPublished
  <1>2. /\ pending = <<>> /\ staged # <<>> /\ Len(staged) \in Nat /\ Len(staged) = rowCount
        /\ progress \in [total : Nat, valid : Nat, invalid : Nat, reused : Nat]
        /\ progress.invalid + progress.reused <= progress.total
        /\ job \in JobRow
    BY <1>1, ValidatingState
  <1>3. Len(staged) - progress.reused \in Nat /\ progress.reused \in Nat
    <2>1. progress.invalid \in Nat /\ progress.reused \in Nat
      BY <1>2
    <2> QED BY <1>1, <1>2, <2>1
  <1>4. job' \in JobRow
    BY <1>1, <1>2, <1>3 DEF JobRow
  <1>5. /\ job'.status = "published" /\ job'.issueCount = 0
        /\ job'.total = Len(staged) /\ job'.valid = Len(staged) /\ job'.invalid = 0
        /\ job'.inserted = Len(staged) - progress.reused /\ job'.reused = progress.reused
    BY <1>1, <1>2 DEF JobRow
  <1>6. CountersStorable'
    BY <1>2, <1>3, <1>5 DEF CountersStorable
  <1>7. TypeOK'
    BY <1>1, <1>4, <1>5 DEF FileInv, TypeOK
  <1>8. Finished'
    BY <1>1, <1>2, <1>5 DEF Finished, WholeFile, IssuesAccountedFor
  <1>9. RowsOK(staged \o pending, line, seen)' /\ pending' = <<>> /\ IssuesIdentified'
    BY <1>1, <1>2 DEF FileInv, IssuesIdentified
  <1>10. Reading' /\ Rejecting' /\ Validating'
    BY <1>1 DEF Reading, Rejecting, Validating
  <1> QED BY <1>6, <1>7, <1>8, <1>9, <1>10 DEF FileInv

LEMMA StutterKeeps == FileInv /\ UNCHANGED vars => FileInv'
  <1> SUFFICES ASSUME FileInv, UNCHANGED vars PROVE FileInv'
    OBVIOUS
  <1>1. UNCHANGED <<pc, line, rowCount, seen, progress, collector, pending, staged, issues, job>>
    BY DEF vars
  <1>2. TypeOK' /\ RowsOK(staged \o pending, line, seen)'
        /\ (pc' \notin {"header", "reading"} => pending' = <<>>)
    BY <1>1 DEF FileInv, TypeOK
  <1>3. Reading' /\ Rejecting' /\ Validating' /\ Finished'
    BY <1>1 DEF FileInv, Reading, Rejecting, Validating, WholeFile, Finished,
                IssuesAccountedFor, Summaries, Details
  <1>4. IssuesIdentified' /\ CountersStorable'
    BY <1>1 DEF FileInv, IssuesIdentified, CountersStorable
  <1> QED BY <1>2, <1>3, <1>4 DEF FileInv

-----------------------------------------------------------------------------
(***************************************************************************)
(* The messages.  Only the issue of a repeated or an unknown name has a    *)
(* text whose length the file decides.                                     *)
(***************************************************************************)

Storable(issue) == MessageOf(issue) \in 1..MessageLength

MessageInv ==
    /\ header \in Headers
    /\ MessagesStorable
    /\ RefusedForItsHeader

LEMMA OtherErrorStorable ==
  ASSUME NEW issue, HeaderError(header) \in {"SCHEMA_DUPLICATE_COLUMN", "SCHEMA_UNKNOWN_COLUMN"}
                      => issue # FileIssue(HeaderError(header))
  PROVE  Storable(issue)
  BY DEF Storable, MessageOf, HeaderMessage, Wording, MessageLength

LEMMA RowIssueStorable ==
  ASSUME NEW issue, issue.row # 0
  PROVE  Storable(issue)
  <1>1. \A code : FileIssue(code).row = 0
    BY DEF FileIssue, Issue
  <1> QED BY <1>1, OtherErrorStorable

\* The issue of the first line, when its message fits.
LEMMA HeaderIssueStorable ==
  ASSUME header \in Headers, MessageFits(header), NEW issue
  PROVE  Storable(issue)
  <1>1. header.names \in Nat
    BY HeadersAssumption
  <1>2. HeaderMessage(header) \in {26 + header.names, 24 + header.names, Wording}
    BY DEF HeaderMessage
  <1>3. HeaderMessage(header) \in 1..MessageLength
    BY <1>1, <1>2 DEF MessageFits, Wording, MessageLength
  <1> QED BY <1>3 DEF Storable, MessageOf, Wording, MessageLength

LEMMA LongHeader ==
  ~MessageFits(header) =>
    HeaderError(header) \in {"SCHEMA_DUPLICATE_COLUMN", "SCHEMA_UNKNOWN_COLUMN"}
  BY DEF MessageFits, HeaderMessage, Wording, MessageLength

LEMMA MessagesWhenStorable ==
  ASSUME header' = header, \A k \in 1..Len(issues') : Storable(issues'[k])
  PROVE  MessagesStorable'
  BY DEF MessagesStorable, Storable, MessageOf

\* What is stored of rows, before the file or the pass has ended.
LEMMA RowsStorable ==
  ASSUME header' = header, CollectorOK(issues', collector'),
         \A r \in About(issues', collector') : r # 0
  PROVE  MessagesStorable'
  <1>1. \A k \in 1..Len(issues') : issues'[k] \in Elements(issues')
    BY DEF Elements
  <1>2. \A k \in 1..Len(issues') : issues'[k].row # 0
    BY <1>1 DEF About
  <1> QED BY <1>2, RowIssueStorable, MessagesWhenStorable

\* What is stored when the collector has seen everything.
LEMMA RestStorable ==
  ASSUME header' = header, NEW c, CollectorOK(issues, c),
         \A i \in Elements(issues) \cup c.pending : Storable(i),
         issues' = issues \o Persisted(c)
  PROVE  MessagesStorable'
  <1> DEFINE S == DetailIssue \cup {Summary(c)}
  <1>1. /\ issues \in Seq(DetailIssue) /\ c.kept \in Seq(DetailIssue)
        /\ Elements(c.kept) \subseteq c.pending
    BY DEF CollectorOK, Collector
  <1>2. DetailIssue \subseteq S
    OBVIOUS
  <1>3. issues \in Seq(S) /\ c.kept \in Seq(S)
    BY <1>1, <1>2, SeqMonotonic
  <1>4. Storable(Summary(c))
    <2>1. Summary(c).code = "ISSUE_LIMIT_REACHED"
      BY DEF Summary, FileIssue, Issue
    <2>2. \A code : FileIssue(code).code = code
      BY DEF FileIssue, Issue
    <2> QED BY <2>1, <2>2, OtherErrorStorable
  <1>5. Persisted(c) \in Seq(S) /\ Elements(Persisted(c)) \subseteq Elements(c.kept) \cup {Summary(c)}
    <2>1. CASE Persisted(c) = c.kept
      BY <1>3, <2>1
    <2>2. CASE Persisted(c) = <<Summary(c)>>
      BY <2>2 DEF Elements
    <2>3. CASE Persisted(c) = Append(c.kept, Summary(c))
      BY <1>3, <2>3 DEF Elements
    <2> QED BY <2>1, <2>2, <2>3 DEF Persisted
  <1> HIDE DEF S
  <1>6. Elements(issues') = Elements(issues) \cup Elements(Persisted(c))
    BY <1>3, <1>5, ElementsOfConcat
  <1>7. \A i \in Elements(issues') : Storable(i)
    BY <1>1, <1>4, <1>5, <1>6
  <1>8. \A k \in 1..Len(issues') : Storable(issues'[k])
    BY <1>7 DEF Elements
  <1> QED BY <1>8, MessagesWhenStorable

LEMMA EndStorable ==
  ASSUME FileInv, pc \in {"header", "reading"}, header' = header,
         NEW code \in FileCodes, EndWithError(code), Storable(FileIssue(code))
  PROVE  MessagesStorable'
  <1> DEFINE found == <<FileIssue(code)>>
             c     == Added(collector, found)
  <1>1. /\ CollectorOK(issues, collector) /\ About(issues, collector) \subseteq 2..line
        /\ line \in Nat
    BY DEF FileInv, Reading, TypeOK
  <1>2. found \in Seq(IssuesOf(0)) /\ found \in Seq(DetailIssue) /\ collector \in Collector
    <2>1. FileIssue(code) \in IssuesOf(0)
      BY IssueOfRow DEF FileIssue, Columns, Codes
    <2>2. FileIssue(code) \in DetailIssue
      BY <2>1 DEF IssuesOf, DetailIssue
    <2> QED BY <1>1, <2>1, <2>2 DEF CollectorOK
  <1>3. 0 \notin About(issues, collector)
    BY <1>1
  <1>4. CollectorOK(issues, c)
    BY <1>1, <1>2, <1>3, Adding
  <1>5. c.pending \subseteq collector.pending \cup {FileIssue(code)}
    <2>1. Elements(found) = {FileIssue(code)}
      BY DEF Elements
    <2> QED BY <1>2, <2>1, AddedAdds DEF Adds
  <1>6. issues' = issues \o Persisted(c)
    BY DEF EndWithError, RecordRest, RecordBatch
  <1> HIDE DEF c
  <1>7. \A i \in Elements(issues) \cup collector.pending : i.row # 0
    BY <1>3 DEF About
  <1>8. \A i \in Elements(issues) \cup c.pending : Storable(i)
    BY <1>5, <1>7, RowIssueStorable
  <1> QED BY <1>4, <1>6, <1>8, RestStorable

\* The errors that are not about the header have short texts.
LEMMA OtherEndStorable ==
  ASSUME FileInv, pc \in {"header", "reading"}, header' = header,
         NEW code, EndWithError(code),
         code \in {"CSV_MALFORMED", "FILE_ENCODING_INVALID", "FILE_NO_DATA_ROWS",
                   "FILE_ROW_LIMIT_EXCEEDED"}
  PROVE  MessagesStorable'
  <1>1. code \in FileCodes
    BY DEF FileCodes
  <1>2. \A e : FileIssue(e).code = e
    BY DEF FileIssue, Issue
  <1>3. Storable(FileIssue(code))
    BY <1>2, OtherErrorStorable
  <1> QED BY <1>1, <1>3, EndStorable

LEMMA RecordRead ==
  ASSUME FileInv, FileInv', header' = header, pc = "reading",
         \/ pc' = "reading"
         \/ EndWithError("FILE_ROW_LIMIT_EXCEEDED")
  PROVE  MessagesStorable'
  <1>1. CASE pc' = "reading"
    <2>1. /\ CollectorOK(issues', collector') /\ About(issues', collector') \subseteq 2..line'
          /\ line' \in Nat
      BY <1>1 DEF FileInv, Reading, TypeOK
    <2> QED BY <2>1, RowsStorable
  <1>2. CASE EndWithError("FILE_ROW_LIMIT_EXCEEDED")
    BY <1>2, OtherEndStorable
  <1> QED BY <1>1, <1>2

LEMMA EndOfFileMessages ==
  ASSUME FileInv, EndOfFile
  PROVE  MessagesStorable'
  <1>1. pc = "reading" /\ header' = header
    BY DEF EndOfFile
  <1>2. CASE rowCount = 0
    <2>1. EndWithError("FILE_NO_DATA_ROWS")
      BY <1>2 DEF EndOfFile
    <2> QED BY <1>1, <2>1, OtherEndStorable
  <1>3. CASE rowCount # 0
    <2>1. issues' = issues \o Persisted(collector)
      BY <1>3 DEF EndOfFile, RecordRest, RecordBatch
    <2>2. /\ CollectorOK(issues, collector) /\ About(issues, collector) \subseteq 2..line
          /\ line \in Nat
      BY <1>1 DEF FileInv, Reading, TypeOK
    <2>3. \A i \in Elements(issues) \cup collector.pending : i.row # 0
      BY <2>2 DEF About
    <2> QED BY <1>1, <2>1, <2>2, <2>3, RowIssueStorable, RestStorable
  <1> QED BY <1>2, <1>3

\* The rows that the second pass has issues of are rows of the file.
LEMMA ValidatedRows ==
  ASSUME FileInv, pc = "validating"
  PROVE  \A k \in 1..Len(staged) : staged[k].number # 0
  <1>1. \A k \in 1..Len(staged) : staged[k].number \in 2..line
    BY ValidatingState
  <1>2. line \in Nat
    BY DEF FileInv, TypeOK
  <1> QED BY <1>1, <1>2

LEMMA ValidateRowMessages ==
  ASSUME FileInv, FileInv', NEW known, ValidateRow(known)
  PROVE  MessagesStorable'
  <1>1. pc = "validating" /\ pc' = pc /\ header' = header /\ staged' = staged
    BY DEF ValidateRow
  <1>2. /\ CollectorOK(issues', collector')
        /\ About(issues', collector') \subseteq {staged'[k].number : k \in 1..progress'.total}
        /\ progress'.total <= Len(staged') /\ progress'.total \in Nat
        /\ Len(staged') \in Nat
    BY <1>1 DEF FileInv, Validating, TypeOK
  <1>3. \A k \in 1..progress'.total : staged'[k].number # 0
    <2>1. \A k \in 1..Len(staged) : staged[k].number # 0
      BY <1>1, ValidatedRows
    <2> QED BY <1>1, <1>2, <2>1
  <1> QED BY <1>1, <1>2, <1>3, RowsStorable

LEMMA FinishInvalidMessages ==
  ASSUME FileInv, FinishInvalid
  PROVE  MessagesStorable'
  <1>1. /\ pc = "validating" /\ header' = header /\ progress.total = Len(staged)
        /\ issues' = issues \o Persisted(collector)
    BY DEF FinishInvalid
  <1>2. /\ CollectorOK(issues, collector)
        /\ About(issues, collector) \subseteq {staged[k].number : k \in 1..Len(staged)}
    BY <1>1 DEF FileInv, Validating
  <1>3. \A i \in Elements(issues) \cup collector.pending : i.row # 0
    BY <1>1, <1>2, ValidatedRows DEF About
  <1> QED BY <1>1, <1>2, <1>3, RowIssueStorable, RestStorable

\* A step after which the job neither waits for another attempt nor has failed.
LEMMA NotRefused ==
  ASSUME FileInv', pc' \notin {"refused", "waiting"},
         pc' = "finished" => job'.status \in {"rejected", "published"}
  PROVE  RefusedForItsHeader'
  BY DEF FileInv, TypeOK, RefusedForItsHeader

LEMMA MessageStep ==
  FileInv /\ FileInv' /\ MessageInv /\ [Next]_vars => MessageInv'
  <1> SUFFICES ASSUME FileInv, FileInv', MessageInv, [Next]_vars PROVE MessageInv'
    OBVIOUS
  <1>1. header' = header
    BY DEF Next, vars, ReadHeader, RejectHeader, HeaderRefused, ScheduleRetry, ClaimAgain,
           ReadBlank, ReadRagged, ReadRecord, ReadBroken, EndOfFile, RejectFile, ValidateRow,
           FinishInvalid, FinishPublished
  <1> SUFFICES MessagesStorable' /\ RefusedForItsHeader'
    BY <1>1 DEF MessageInv
  <1>2. UNCHANGED issues => MessagesStorable'
    BY <1>1 DEF MessageInv, MessagesStorable, MessageOf
  <1>3. CASE ReadHeader
    BY <1>2, <1>3, NotRefused DEF ReadHeader
  <1>4. CASE RejectHeader
    <2>1. /\ pc = "header" /\ MessageFits(header) /\ HeaderError(header) # ""
          /\ EndWithError(HeaderError(header))
      BY <1>4 DEF RejectHeader
    <2>2. HeaderError(header) \in FileCodes
      BY <2>1 DEF HeaderError, FileCodes
    <2>3. MessagesStorable'
      BY <1>1, <2>1, <2>2, HeaderIssueStorable, EndStorable DEF MessageInv
    <2> QED BY <2>1, <2>3, NotRefused DEF EndWithError
  <1>5. CASE HeaderRefused
    <2>1. ~MessageFits(header) /\ UNCHANGED issues
      BY <1>5 DEF HeaderRefused
    <2> QED BY <1>1, <1>2, <2>1, LongHeader DEF RefusedForItsHeader
  <1>6. CASE ScheduleRetry
    <2>1. pc = "refused" /\ UNCHANGED issues
      BY <1>6 DEF ScheduleRetry
    <2> QED BY <1>1, <1>2, <2>1 DEF MessageInv, RefusedForItsHeader
  <1>7. CASE ClaimAgain
    <2>1. pc' = "header" /\ issues' = <<>>
      BY <1>7 DEF ClaimAgain
    <2> QED BY <2>1, NotRefused DEF MessagesStorable
  <1>8. ASSUME NEW height \in Heights, ReadBlank(height)
        PROVE  MessagesStorable' /\ RefusedForItsHeader'
    BY <1>2, <1>8, NotRefused DEF ReadBlank, Reads
  <1>9. ASSUME NEW height \in Heights, ReadRagged(height)
        PROVE  MessagesStorable' /\ RefusedForItsHeader'
    <2>1. pc = "reading" /\ (pc' = "reading" \/ EndWithError("FILE_ROW_LIMIT_EXCEEDED"))
      BY <1>9 DEF ReadRagged, Reads, Yield
    <2> QED BY <1>1, <2>1, RecordRead, NotRefused DEF EndWithError
  <1>10. ASSUME NEW height \in Heights, NEW cells \in Records, ReadRecord(cells, height)
         PROVE  MessagesStorable' /\ RefusedForItsHeader'
    <2>1. pc = "reading" /\ (pc' = "reading" \/ EndWithError("FILE_ROW_LIMIT_EXCEEDED"))
      BY <1>10 DEF ReadRecord, Reads, Yield
    <2> QED BY <1>1, <2>1, RecordRead, NotRefused DEF EndWithError
  <1>11. ASSUME NEW code, ReadBroken(code)
         PROVE  MessagesStorable' /\ RefusedForItsHeader'
    <2>1. /\ pc \in {"header", "reading"} /\ EndWithError(code)
          /\ code \in {"CSV_MALFORMED", "FILE_ENCODING_INVALID"}
      BY <1>11 DEF ReadBroken
    <2> QED BY <1>1, <2>1, OtherEndStorable, NotRefused DEF EndWithError
  <1>12. CASE EndOfFile
    <2>1. pc' \in {"rejecting", "validating"}
      BY <1>12 DEF EndOfFile, EndWithError
    <2> QED BY <1>12, <2>1, EndOfFileMessages, NotRefused
  <1>13. CASE RejectFile
    <2>1. UNCHANGED issues /\ pc' = "finished" /\ job'.status = "rejected"
      BY <1>13 DEF RejectFile, FileInv, TypeOK, JobRow
    <2> QED BY <1>2, <2>1, NotRefused
  <1>14. ASSUME NEW known \in Findings, ValidateRow(known)
         PROVE  MessagesStorable' /\ RefusedForItsHeader'
    <2>1. pc' = "validating"
      BY <1>14 DEF ValidateRow
    <2> QED BY <1>14, <2>1, ValidateRowMessages, NotRefused
  <1>15. CASE FinishInvalid
    <2>1. pc' = "finished" /\ job'.status = "rejected"
      BY <1>15 DEF FinishInvalid, FileInv, TypeOK, JobRow
    <2> QED BY <1>15, <2>1, FinishInvalidMessages, NotRefused
  <1>16. CASE FinishPublished
    <2>1. UNCHANGED issues /\ pc' = "finished" /\ job'.status = "published"
      BY <1>16 DEF FinishPublished, FileInv, TypeOK, JobRow
    <2> QED BY <1>2, <2>1, NotRefused
  <1>17. CASE UNCHANGED vars
    BY <1>1, <1>2, <1>17 DEF vars, MessageInv, RefusedForItsHeader
  <1> QED BY <1>3, <1>4, <1>5, <1>6, <1>7, <1>8, <1>9, <1>10, <1>11, <1>12, <1>13, <1>14,
             <1>15, <1>16, <1>17 DEF Next

-----------------------------------------------------------------------------
(***************************************************************************)
(* The theorems.                                                           *)
(***************************************************************************)

\* The invariant holds of every file, for any limits of rows and issues, any batch
\* size and any answers of the database.
THEOREM FileInvariant == Spec => []FileInv
  <1>1. Init => FileInv
    BY StartsWell
  <1>2. FileInv /\ [Next]_vars => FileInv'
    <2> SUFFICES ASSUME FileInv, [Next]_vars PROVE FileInv'
      OBVIOUS
    <2>1. CASE ReadHeader
      BY <2>1, ReadHeaderKeeps
    <2>2. ASSUME NEW height \in Heights, ReadBlank(height) PROVE FileInv'
      BY <2>2, ReadBlankKeeps
    <2>3. ASSUME NEW height \in Heights, ReadRagged(height) PROVE FileInv'
      BY <2>3, ReadRaggedKeeps
    <2>4. ASSUME NEW height \in Heights, NEW cells \in Records, ReadRecord(cells, height)
          PROVE  FileInv'
      BY <2>4, ReadRecordKeeps
    <2>5. ASSUME NEW code, ReadBroken(code) PROVE FileInv'
      BY <2>5, ReadBrokenKeeps
    <2>6. CASE EndOfFile
      BY <2>6, EndOfFileKeeps
    <2>7. CASE RejectFile
      BY <2>7, RejectFileKeeps
    <2>8. ASSUME NEW found \in Findings, ValidateRow(found) PROVE FileInv'
      BY <2>8, ValidateRowKeeps
    <2>9. CASE FinishInvalid
      BY <2>9, FinishInvalidKeeps
    <2>10. CASE FinishPublished
      BY <2>10, FinishPublishedKeeps
    <2>11. CASE UNCHANGED vars
      BY <2>11, StutterKeeps
    <2>12. CASE RejectHeader
      BY <2>12, RejectHeaderKeeps
    <2>13. CASE HeaderRefused
      BY <2>13, HeaderRefusedKeeps
    <2>14. CASE ScheduleRetry
      BY <2>14, ScheduleRetryKeeps
    <2>15. CASE ClaimAgain
      BY <2>15, ClaimAgainKeeps
    <2> QED BY <2>1, <2>2, <2>3, <2>4, <2>5, <2>6, <2>7, <2>8, <2>9, <2>10, <2>11, <2>12,
               <2>13, <2>14, <2>15 DEF Next
  <1> QED BY <1>1, <1>2, PTL DEF Spec

\* Only the issue of a header whose repeated or unknown names are too long for its
\* message is refused by the database, and only such a file is retried; everything
\* else that is written of a file's rows, issues and counters satisfies the tables
\* (processing._record_parse_batch, complete_job, contracts.validate_sales_headers).
THEOREM RefusedOnlyForTheHeader == Spec => []OnlyLongHeadersAreRefused
  <1>1. Init => MessageInv
    BY DEF Init, NewJob, MessageInv, MessagesStorable, RefusedForItsHeader
  <1>2. FileInv /\ FileInv' /\ MessageInv /\ [Next]_vars => MessageInv'
    BY MessageStep
  <1>3. FileInv /\ MessageInv => OnlyLongHeadersAreRefused
    <2> SUFFICES ASSUME FileInv, MessageInv PROVE OnlyLongHeadersAreRefused
      OBVIOUS
    <2> DEFINE rows == staged \o pending
    <2>1. staged \in Seq(StagedRow) /\ pending \in Seq(StagedRow) /\ RowsOK(rows, line, seen)
      BY DEF FileInv, TypeOK
    <2>2. \A k \in 1..Len(staged) : k \in 1..Len(rows) /\ rows[k] = staged[k]
      BY <2>1
    <2> HIDE DEF rows
    <2>3. /\ \A k \in 1..Len(staged) : /\ staged[k].number \in 2..line
                                       /\ StorableRow(staged[k].cells)
          /\ \A j, k \in 1..Len(staged) : j < k =>
               /\ staged[j].number < staged[k].number
               /\ staged[j].cells.id.value # staged[k].cells.id.value
      BY <2>1, <2>2 DEF RowsOK
    <2>4. \A j, k \in 1..Len(staged) : j = k \/ j < k \/ k < j
      OBVIOUS
    <2>5. \A k \in 1..Len(staged) : staged[k].number \in Nat /\ staged[k].number >= 2
      <3>1. line \in Nat
        BY DEF FileInv, TypeOK
      <3> QED BY <2>3, <3>1
    <2>6. ASSUME NEW j \in 1..Len(staged), NEW k \in 1..Len(staged),
                 \/ staged[j].number = staged[k].number
                 \/ staged[j].cells.id.value = staged[k].cells.id.value
          PROVE  j = k
      <3>1. ~(j < k)
        BY <2>3, <2>5, <2>6
      <3>2. ~(k < j)
        BY <2>3, <2>5, <2>6
      <3> QED BY <2>4, <3>1, <3>2
    <2>7. StagedRowsStorable
      BY <2>3, <2>5, <2>6 DEF StagedRowsStorable
    <2> QED BY <2>7 DEF OnlyLongHeadersAreRefused, MessageInv, FileInv
  <1> QED BY <1>1, <1>2, <1>3, FileInvariant, PTL DEF Spec
\* No row is lost between the reader and the facts: what is validated or published
\* is every row of the file, in the order of its lines.
THEOREM NoRowIsLost == Spec => []WholeFileIsStaged
  <1>1. FileInv => WholeFileIsStaged
    <2> SUFFICES ASSUME FileInv, pc = "validating" \/ job.status = "published"
                 PROVE  /\ staged # <<>>
                        /\ Len(staged) = rowCount
                        /\ \A k \in 1..Len(staged) - 1 :
                             staged[k].number < staged[k + 1].number
                        /\ staged[Len(staged)].number <= line
      BY DEF WholeFileIsStaged
    <2>1. pc = "validating" \/ (pc = "finished" /\ job.status = "published")
      BY DEF FileInv, TypeOK
    <2>2. staged # <<>> /\ Len(staged) = rowCount
      BY <2>1 DEF FileInv, Validating, Finished, WholeFile, TypeOK
    <2>3. /\ staged \in Seq(StagedRow) /\ pending = <<>> /\ line \in Nat
          /\ RowsOK(staged \o pending, line, seen)
      BY <2>1 DEF FileInv, TypeOK
    <2>4. RowsOK(staged, line, seen)
      <3>1. staged \o pending = staged
        BY <2>3, ConcatEmptySeq
      <3> QED BY <2>3, <3>1
    <2>5. Len(staged) \in Nat /\ Len(staged) >= 1
      BY <2>2, <2>3
    <2>6. \A k \in 1..Len(staged) - 1 : k \in 1..Len(staged) /\ k + 1 \in 1..Len(staged) /\ k < k + 1
      BY <2>5
    <2>7. \A k \in 1..Len(staged) - 1 : staged[k].number < staged[k + 1].number
      BY <2>4, <2>6 DEF RowsOK
    <2>8. staged[Len(staged)].number \in 2..line
      BY <2>4, <2>5 DEF RowsOK
    <2>9. staged[Len(staged)].number <= line
      BY <2>3, <2>8
    <2> QED BY <2>2, <2>7, <2>9
  <1> QED BY <1>1, FileInvariant, PTL

\* A rejected job says how many issues it has, and stores each of them, or as many as
\* SALES_IMPORT_MAX_ISSUES allows and how many these are.  With a limit of one row the
\* summary is all there is room for, and says nothing of a detail stored before it.
THEOREM EveryIssueAccountedFor ==
  ASSUME MaxIssues > 1
  PROVE  Spec => []IssuesAccountedFor
  <1>1. FileInv => IssuesAccountedFor
    <2> SUFFICES ASSUME FileInv, job.status = "rejected" PROVE IssuesAccountedFor
      BY DEF IssuesAccountedFor
    <2>1. pc = "finished"
      BY DEF FileInv, TypeOK
    <2> QED BY <2>1 DEF FileInv, Finished
  <1> QED BY <1>1, FileInvariant, PTL
=============================================================================
