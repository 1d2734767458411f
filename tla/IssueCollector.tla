--------------------------- MODULE IssueCollector ---------------------------
(***************************************************************************)
(* processing._IssueCollector: counts every validation issue of a file but *)
(* keeps at most MaxIssues rows of detail, and says so in a summary row.   *)
(*                                                                         *)
(* An issue is a record [row, column, code, stated]; row 0 is the NULL of  *)
(* an issue about the whole file, and stated is 0 but in a summary.  The   *)
(* length of its message follows from the file: see SalesImportFile.       *)
(***************************************************************************)
EXTENDS Integers, Sequences, FiniteSets

CONSTANT MaxIssues    \* SALES_IMPORT_MAX_ISSUES

ASSUME MaxIssuesAssumption == MaxIssues \in Nat \ {0}

Issue(number, column, code) ==
    [row |-> number, column |-> column, code |-> code, stated |-> 0]

FileIssue(code) == Issue(0, "__file__", code)

NewCollector ==
    [total |-> 0, kept |-> <<>>, pending |-> {}, details |-> 0, truncated |-> FALSE]

\* Mutant: no row is reserved for the summary.
NothingReserved == MaxIssues

\* One row is reserved for the summary, unless it would be the only one.
DetailLimit == IF MaxIssues > 1 THEN MaxIssues - 1 ELSE MaxIssues

\* The numbers of a finite set, in order.
InOrder(S) ==
    [n \in 1..Cardinality(S) |->
        CHOOSE k \in S : Cardinality({m \in S : m < k}) = n - 1]

\* The places in found of issues that were not added since the last drain, each
\* issue at its first place.
Fresh(c, found) ==
    {k \in 1..Len(found) : /\ found[k] \notin c.pending
                           /\ \A m \in 1..k-1 : found[m] # found[k]}

\* add, for each of the issues found: every fresh one is counted, and kept in
\* detail as long as there is room.
Added(c, found) ==
    LET fresh == Fresh(c, found)
        count == Cardinality(fresh)
        room  == DetailLimit - c.details
        kept  == IF count <= room THEN count ELSE room
    IN  [c EXCEPT !.pending = @ \cup {found[k] : k \in fresh},
                  !.total = @ + count,
                  !.kept = @ \o [n \in 1..kept |-> found[InOrder(fresh)[n]]],
                  !.details = @ + kept,
                  !.truncated = @ \/ count > room]

\* drain hands over the kept issues and forgets them.
Drained(c) == [c EXCEPT !.kept = <<>>, !.pending = {}]

\* "Only the first <stated> detailed validation issues were stored."
Summary(c) == [FileIssue("ISSUE_LIMIT_REACHED") EXCEPT !.stated = c.details]

\* persisted: what remains to be stored when the file has been read.
Persisted(c) ==
    IF ~c.truncated THEN c.kept
    ELSE IF MaxIssues = 1 THEN <<Summary(c)>>
    ELSE Append(c.kept, Summary(c))
=============================================================================
