------------------------ MODULE MasterDataAssignments ------------------------
(***************************************************************************)
(* Dated assignments of master data: who is whose parent, which territory  *)
(* a hospital belongs to, who covers it, and where a professional works,   *)
(* from a first day to a last one.  Administrators create assignments and  *)
(* end them in forms; constraints and triggers of the database decide; a   *)
(* publication looks assignments up in its snapshot.                       *)
(*                                                                         *)
(* An assignment is a record [kind, holder, target, primary, first, last]. *)
(* kind          holder       target                                       *)
(* "hierarchy"   child        parent                                       *)
(* "hospital"    hospital     territory                                    *)
(* "coverage"    sales rep.   territory                                    *)
(* "affiliation" professional hospital                                     *)
(* "specialty"   professional specialty                                    *)
(***************************************************************************)
EXTENDS Integers, FiniteSets

CONSTANTS
    Administrators,  \* sessions with an open form
    Territories,     \* geographies of every level
    Participants,    \* everything an assignment can name, territories included
    Relations,       \* the [kind, holder, target, primary] that may be asked for
    Levels,          \* the levels geographies may have
    Switched,        \* bound: the participants that are switched on and off
    LastDay,         \* days are 1..LastDay
    Chunks,          \* the chunks a publication may look up
    MaxAssignments   \* bound on the assignments that are stored or being written

Rank == [zone |-> 0, region |-> 1, area |-> 2, territory |-> 3]

ASSUME MasterDataAssumption ==
    /\ Territories \subseteq Participants
    /\ Switched \subseteq Participants
    /\ Levels \subseteq DOMAIN Rank
    /\ LastDay \in Nat \ {0}
    /\ \A r \in Relations : r.holder \in Participants /\ r.target \in Participants

Days == 1..LastDay

\* NULL in effective_to: later than every day.
Ongoing == LastDay + 1

VARIABLES
    assigned,    \* the committed assignments
    level,       \* level of each territory
    active,      \* is_active of each participant
    session,     \* the form of each administrator
    publication  \* the snapshot of a publication, and what it was last told

vars == <<assigned, level, active, session, publication>>

Assignment(relation, first, last) ==
    [kind |-> relation.kind, holder |-> relation.holder, target |-> relation.target,
     primary |-> relation.primary, first |-> first, last |-> last]

Requests == {Assignment(r, f, l) : r \in Relations, f \in Days, l \in Days \cup {Ongoing}}

NoForm == [pc |-> "idle"]

NoPublication == [view |-> {}, chunk |-> {}, accepted |-> {}]

Init ==
    /\ assigned = {}
    /\ level \in [Territories -> Levels]
    /\ active = [p \in Participants |-> TRUE]
    /\ session = [a \in Administrators |-> NoForm]
    /\ publication = NoPublication

-----------------------------------------------------------------------------
(***************************************************************************)
(* Rules of the models and of the database.                                *)
(***************************************************************************)

Overlap(a, b) == a.first <= b.last /\ b.first <= a.last

\* The *_no_overlap exclusion constraints.
SamePlace(a, b) ==
    /\ a.kind = b.kind
    /\ a.holder = b.holder
    /\ a.kind \notin {"hierarchy", "hospital"} => a.target = b.target

\* The *_one_primary exclusion constraints.
SamePrimacy(a, b) ==
    /\ a.kind = b.kind
    /\ a.primary /\ b.primary
    /\ IF a.kind = "coverage" THEN a.target = b.target ELSE a.holder = b.holder

Excluded(a, b) == Overlap(a, b) /\ (SamePlace(a, b) \/ SamePrimacy(a, b))

DatesInOrder(a) == a.first <= a.last

\* Read by clean and again by the triggers of the database.
LevelsFit(a) ==
    CASE a.kind = "hierarchy" ->
           a.holder # a.target /\ Rank[level[a.target]] < Rank[level[a.holder]]
      [] a.kind \in {"hospital", "coverage"} -> level[a.target] = "territory"
      [] OTHER -> TRUE

\* No two stored assignments agree on this: it stands for the primary key.
Identity(a) == [a EXCEPT !.last = 0]

\* What is stored beside the assignment of this form.
Stored(a) == {b \in assigned : Identity(b) \notin session[a].edits}

-----------------------------------------------------------------------------
(***************************************************************************)
(* Administrators.                                                         *)
(***************************************************************************)

InForm(a) == session[a].pc # "idle"

Room ==
    Cardinality(assigned)
      + Cardinality({a \in Administrators : InForm(a) /\ session[a].edits = {}})
        < MaxAssignments

\* full_clean: the model's rules, and its constraints against what is committed.
FormAccepts(row, others) ==
    /\ DatesInOrder(row)
    /\ LevelsFit(row)
    /\ \A b \in others : ~Excluded(row, b)

\* The add form offers active participants only, whatever the dates.
SubmitNew(a, row) ==
    /\ ~InForm(a)
    /\ Room
    /\ active[row.holder] /\ active[row.target]
    /\ FormAccepts(row, assigned)
    /\ session' = [session EXCEPT ![a] = [pc |-> "checked", row |-> row, edits |-> {}]]
    /\ UNCHANGED <<assigned, level, active, publication>>

\* Mutant: the first day can be edited as well.
EditedFrom(row, last) ==
    [row EXCEPT !.last = last, !.first = IF last < @ THEN last ELSE @]

\* Relationship, classification and first day are disabled in the change form.
Edited(row, last) == [row EXCEPT !.last = last]

SubmitEdit(a, row, last) ==
    /\ ~InForm(a)
    /\ Edited(row, last) # row
    /\ FormAccepts(Edited(row, last), assigned \ {row})
    /\ session' = [session EXCEPT
         ![a] = [pc |-> "checked", row |-> Edited(row, last), edits |-> {Identity(row)}]]
    /\ UNCHANGED <<assigned, level, active, publication>>

Uncommitted(a) == {b \in Administrators \ {a} : session[b].pc = "written"}

\* A row lock or an exclusion constraint makes the statement wait for the other
\* transaction: it writes the same row, a row that may not be stored beside this
\* one, or replaces such a row.
WriteWaits(a) ==
    \E b \in Uncommitted(a) :
        \/ session[a].edits \cap session[b].edits # {}
        \/ Excluded(session[a].row, session[b].row)
        \/ \E r \in assigned : /\ Identity(r) \in session[b].edits
                             /\ Excluded(session[a].row, r)

\* Mutant: the form has looked, the database does not look again.
NothingExcluded(row, others) == FALSE

ConstraintRefuses(row, others) == \E b \in others : Excluded(row, b)

\* INSERT or UPDATE: the triggers read the levels, then the constraints decide.
Write(a) ==
    /\ session[a].pc = "checked"
    /\ ~WriteWaits(a)
    /\ session' = [session EXCEPT
         ![a] = IF ~LevelsFit(session[a].row) \/ ConstraintRefuses(session[a].row, Stored(a))
                THEN NoForm
                ELSE [@ EXCEPT !.pc = "written"]]
    /\ UNCHANGED <<assigned, level, active, publication>>

Commit(a) ==
    /\ session[a].pc = "written"
    /\ assigned' = Stored(a) \cup {session[a].row}
    /\ session' = [session EXCEPT ![a] = NoForm]
    /\ UNCHANGED <<level, active, publication>>

\* The form is left, or the connection lost: what was written is undone.
Abort(a) ==
    /\ InForm(a)
    /\ session' = [session EXCEPT ![a] = NoForm]
    /\ UNCHANGED <<assigned, level, active, publication>>

\* Mutant: the trigger of migration 0006, before 0007 replaced it.
UnreferencedLevelMayChange(t, new) ==
    new = level[t] \/ \A a \in assigned : t \notin {a.holder, a.target}

\* master_data_protect_referenced_territory_level
LevelMayBecome(t, new) == new = level[t]

\* A master record is saved with all its columns: it may be switched on or off,
\* and a territory keeps its level.
SaveRecord(p, isActive, new) ==
    /\ isActive # active[p] => p \in Switched
    /\ active' = [active EXCEPT ![p] = isActive]
    /\ IF p \in Territories
       THEN LevelMayBecome(p, new) /\ level' = [level EXCEPT ![p] = new]
       ELSE UNCHANGED level
    /\ UNCHANGED <<assigned, session, publication>>

-----------------------------------------------------------------------------
(***************************************************************************)
(* Publications: a row of a chunk is a record [kind, holder, target, day]. *)
(***************************************************************************)

\* The first statement of a REPEATABLE READ transaction takes its snapshot.
BeginPublication ==
    /\ publication' = [NoPublication EXCEPT !.view = assigned]
    /\ UNCHANGED <<assigned, level, active, session>>

\* Mutant: the earliest and the latest day of the chunk are swapped.
LoadedForAllDays(view, chunk) ==
    {a \in view : \A r \in chunk : a.first <= r.day /\ r.day <= a.last}

\* _effective_assignment_ids, the one query for all rows of a chunk: assignments
\* not later than its latest day and not earlier than its earliest.
Loaded(view, chunk) ==
    {a \in view : /\ a.holder \in {r.holder : r \in chunk}
                  /\ a.target \in {r.target : r \in chunk}
                  /\ \E r \in chunk : a.first <= r.day
                  /\ \E r \in chunk : r.day <= a.last}

Concerns(a, r) == a.kind = r.kind /\ a.holder = r.holder /\ a.target = r.target

\* _is_effective, among the periods of the row's own pair.
IsEffective(periods, day) == \E p \in periods : p.first <= day /\ day <= p.last

LookUp(chunk) ==
    /\ publication' = [publication EXCEPT
         !.chunk = chunk,
         !.accepted =
           {r \in chunk :
              IsEffective({a \in Loaded(publication.view, chunk) : Concerns(a, r)}, r.day)}]
    /\ UNCHANGED <<assigned, level, active, session>>

-----------------------------------------------------------------------------
Next ==
    \/ \E a \in Administrators :
          \/ \E row \in Requests : SubmitNew(a, row)
          \/ \E row \in assigned, last \in Days \cup {Ongoing} : SubmitEdit(a, row, last)
          \/ Write(a)
          \/ Commit(a)
          \/ Abort(a)
    \/ \E p \in Territories \cup Switched, b \in BOOLEAN, new \in Levels : SaveRecord(p, b, new)
    \/ BeginPublication
    \/ \E chunk \in Chunks : LookUp(chunk)

Spec == Init /\ [][Next]_vars

-----------------------------------------------------------------------------
On(rows, day) == {a \in rows : a.first <= day /\ day <= a.last}

\* "This geography already has a parent during part of that period", and its
\* siblings: on every day a geography has one parent at most, a hospital one
\* territory, a territory one primary representative, a professional one primary
\* hospital and one primary specialty, and no pair is assigned twice; also when two
\* administrators checked their forms before either of them had committed.
OneAssignmentPerDay ==
    \A day \in Days \cup {Ongoing} : \A a, b \in On(assigned, day) :
        a # b /\ a.kind = b.kind =>
            /\ a.kind \in {"hierarchy", "hospital"} => a.holder # b.holder
            /\ <<a.holder, a.target>> # <<b.holder, b.target>>
            /\ a.primary /\ b.primary =>
                 /\ a.kind = "coverage" => a.target # b.target
                 /\ a.kind \in {"affiliation", "specialty"} => a.holder # b.holder

\* Parents stand above their children, so that following parents never returns,
\* and hospitals and representatives belong to leaves of the geography, whatever
\* was saved about a territory while an assignment to it was still uncommitted.
HierarchyDescends ==
    \A a \in assigned :
        /\ a.kind = "hierarchy" => Rank[level[a.target]] < Rank[level[a.holder]]
        /\ a.kind \in {"hospital", "coverage"} => level[a.target] = "territory"

\* Whatever administrators do meanwhile, a publication is told of every row what
\* effective_on says of the assignments at one moment, the publication's first
\* statement, although it reads the assignments of a whole chunk at once.
LookupsAgree ==
    \A r \in publication.chunk :
        r \in publication.accepted <=> \E a \in On(publication.view, r.day) : Concerns(a, r)

\* Assignments are history: none disappears, and nothing but its last day is ever
\* different, also when two administrators edit it at once.
HistoryKept ==
    [][\A a \in assigned : \E b \in assigned' :
          /\ Concerns(a, b)
          /\ a.primary = b.primary
          /\ a.first = b.first]_assigned
=============================================================================
