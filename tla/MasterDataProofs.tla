-------------------------- MODULE MasterDataProofs --------------------------
(***************************************************************************)
(* Assignments stay exclusive, fit the levels of the geography and are     *)
(* never rewritten, for any number of administrators and assignments.      *)
(*                                                                         *)
(* What makes it inductive is what has been written and not committed yet: *)
(* such a row excludes no row that will be stored beside it, and no other  *)
(* uncommitted row, because the database makes the second one wait.        *)
(*                                                                         *)
(* Lookups are right because one query loads for a chunk every assignment  *)
(* that holds on the day of any of its rows.                               *)
(***************************************************************************)
EXTENDS MasterDataAssignments, TLAPS

Rows ==
    [kind : {r.kind : r \in Relations}, holder : Participants, target : Participants,
     primary : {r.primary : r \in Relations}, first : Days, last : Days \cup {Ongoing}]

Identities == {Identity(r) : r \in Rows}

Forms == [pc : {"checked", "written"}, row : Rows, edits : SUBSET Identities]

TypeInv ==
    /\ assigned \subseteq Rows
    /\ level \in [Territories -> Levels]
    /\ active \in [Participants -> BOOLEAN]
    /\ session \in [Administrators -> {NoForm} \cup Forms]

Written(a) == session[a].pc = "written"

RowsFit ==
    /\ \A r \in assigned : DatesInOrder(r) /\ LevelsFit(r)
    /\ \A a \in Administrators : InForm(a) => DatesInOrder(session[a].row)
    /\ \A a \in Administrators : Written(a) => LevelsFit(session[a].row)

EditsKeepIdentity ==
    \A a \in Administrators : InForm(a) =>
        session[a].edits \subseteq {Identity(session[a].row)}

NoneExcluded == \A r, s \in assigned : r # s => ~Excluded(r, s)

WrittenFits ==
    \A a \in Administrators : Written(a) =>
        \A r \in Stored(a) : ~Excluded(session[a].row, r)

WrittenApart ==
    \A a, b \in Administrators : a # b /\ Written(a) /\ Written(b) =>
        ~Excluded(session[a].row, session[b].row)

IInv ==
    /\ TypeInv
    /\ RowsFit
    /\ EditsKeepIdentity
    /\ NoneExcluded
    /\ WrittenFits
    /\ WrittenApart

-----------------------------------------------------------------------------
LEMMA ExcludedSymmetric ==
    ASSUME NEW r \in Rows, NEW s \in Rows
    PROVE  Excluded(r, s) <=> Excluded(s, r)
  BY DEF Excluded, Overlap, SamePlace, SamePrimacy, Rows

\* Rows of one identity exclude each other.
LEMMA IdentityExcludes ==
    ASSUME NEW r \in Rows, NEW s \in Rows, Identity(r) = Identity(s)
    PROVE  /\ Concerns(r, s) /\ r.primary = s.primary /\ r.first = s.first
           /\ DatesInOrder(r) /\ DatesInOrder(s) => Excluded(r, s)
  <1>1. /\ r.kind = Identity(r).kind /\ s.kind = Identity(s).kind
        /\ r.holder = Identity(r).holder /\ s.holder = Identity(s).holder
        /\ r.target = Identity(r).target /\ s.target = Identity(s).target
        /\ r.primary = Identity(r).primary /\ s.primary = Identity(s).primary
        /\ r.first = Identity(r).first /\ s.first = Identity(s).first
    BY DEF Identity, Rows
  <1>2. /\ r.first \in Int /\ r.last \in Int /\ s.first \in Int /\ s.last \in Int
    BY MasterDataAssumption DEF Rows, Days, Ongoing
  <1> QED
    BY <1>1, <1>2 DEF Concerns, DatesInOrder, Excluded, Overlap, SamePlace

LEMMA RequestsAreRows == Requests \subseteq Rows
  BY MasterDataAssumption DEF Requests, Assignment, Rows

LEMMA EditedRow ==
    ASSUME NEW r \in Rows, NEW last \in Days \cup {Ongoing}
    PROVE  Edited(r, last) \in Rows /\ Identity(Edited(r, last)) = Identity(r)
  BY DEF Edited, Identity, Rows

LEMMA InitInv == Init => IInv
  BY DEF Init, IInv, TypeInv, RowsFit, EditsKeepIdentity, NoneExcluded, WrittenFits,
         WrittenApart, Written, InForm, NoForm

\* A form that is opened, or left, writes nothing.
LEMMA FormInv ==
    ASSUME IInv, NEW a \in Administrators, NEW form \in {NoForm} \cup Forms,
           session' = [session EXCEPT ![a] = form],
           form # NoForm => /\ form.pc = "checked"
                            /\ DatesInOrder(form.row)
                            /\ form.edits \subseteq {Identity(form.row)},
           UNCHANGED <<assigned, level, active>>
    PROVE  IInv'
  <1>1. \A b \in Administrators : session'[b] = IF b = a THEN form ELSE session[b]
    BY DEF IInv, TypeInv
  <1>2. TypeInv'
    BY DEF IInv, TypeInv
  <1>3. form.pc # "written"
    BY DEF NoForm
  <1>4. \A b \in Administrators : Written(b)' => b # a /\ Written(b) /\ session'[b] = session[b]
    BY <1>1, <1>3 DEF Written
  <1>5. \A b \in Administrators : InForm(b)' =>
          (b = a /\ form # NoForm /\ session'[b] = form) \/ (InForm(b) /\ session'[b] = session[b])
    BY <1>1 DEF InForm, NoForm
  <1>6. RowsFit'
    BY <1>4, <1>5 DEF IInv, RowsFit, LevelsFit, DatesInOrder
  <1>7. EditsKeepIdentity'
    BY <1>5 DEF IInv, EditsKeepIdentity, Identity
  <1>8. NoneExcluded'
    BY DEF IInv, NoneExcluded, Excluded, Overlap, SamePlace, SamePrimacy
  <1>9. WrittenFits'
    BY <1>4 DEF IInv, WrittenFits, Stored, Identity, Excluded, Overlap, SamePlace, SamePrimacy
  <1>10. WrittenApart'
    BY <1>4 DEF IInv, WrittenApart, Excluded, Overlap, SamePlace, SamePrimacy
  <1> QED
    BY <1>2, <1>6, <1>7, <1>8, <1>9, <1>10 DEF IInv

LEMMA SubmitNewInv ==
    ASSUME IInv, NEW a \in Administrators, NEW row \in Requests, SubmitNew(a, row)
    PROVE  IInv'
  <1> DEFINE form == [pc |-> "checked", row |-> row, edits |-> {}]
  <1>1. form \in Forms
    BY RequestsAreRows DEF Forms
  <1>2. /\ session' = [session EXCEPT ![a] = form]
        /\ DatesInOrder(row)
        /\ UNCHANGED <<assigned, level, active>>
    BY DEF SubmitNew, FormAccepts
  <1> QED
    BY <1>1, <1>2, FormInv

LEMMA SubmitEditInv ==
    ASSUME IInv, NEW a \in Administrators, NEW row \in assigned,
           NEW last \in Days \cup {Ongoing}, SubmitEdit(a, row, last)
    PROVE  IInv'
  <1> DEFINE form == [pc |-> "checked", row |-> Edited(row, last), edits |-> {Identity(row)}]
  <1>1. row \in Rows
    BY DEF IInv, TypeInv
  <1>2. Edited(row, last) \in Rows /\ Identity(Edited(row, last)) = Identity(row)
    BY <1>1, EditedRow
  <1>3. form \in Forms
    BY <1>1, <1>2 DEF Forms, Identities
  <1>4. /\ session' = [session EXCEPT ![a] = form]
        /\ DatesInOrder(Edited(row, last))
        /\ UNCHANGED <<assigned, level, active>>
    BY DEF SubmitEdit, FormAccepts
  <1> QED
    BY <1>2, <1>3, <1>4, FormInv

LEMMA WriteInv ==
    ASSUME IInv, NEW a \in Administrators, Write(a)
    PROVE  IInv'
  <1>1. /\ session[a].pc = "checked"
        /\ session[a] \in Forms
        /\ UNCHANGED <<assigned, level, active>>
    BY DEF Write, IInv, TypeInv, NoForm
  <1>2. CASE session' = [session EXCEPT ![a] = NoForm]
    BY <1>1, <1>2, FormInv
  <1>3. CASE /\ session' = [session EXCEPT ![a] = [@ EXCEPT !.pc = "written"]]
             /\ LevelsFit(session[a].row)
             /\ ~ConstraintRefuses(session[a].row, Stored(a))
    <2> DEFINE form == [session[a] EXCEPT !.pc = "written"]
    <2>1. /\ form \in Forms
          /\ form.pc = "written" /\ form.row = session[a].row /\ form.edits = session[a].edits
      BY <1>1 DEF Forms
    <2>2. \A b \in Administrators : session'[b] = IF b = a THEN form ELSE session[b]
      BY <1>3 DEF IInv, TypeInv
    <2> HIDE DEF form
    <2>3. TypeInv'
      <3>1. session' = [session EXCEPT ![a] = form]
        BY <1>3 DEF form
      <3> QED
        BY <1>1, <2>1, <3>1 DEF IInv, TypeInv
    <2>4. \A b \in Administrators :
            /\ InForm(b)' => InForm(b)
            /\ InForm(b)' => /\ session'[b].row = session[b].row
                             /\ session'[b].edits = session[b].edits
            /\ Written(b)' => b = a \/ Written(b)
      BY <1>1, <2>1, <2>2 DEF InForm, Written
    <2>5. \A b \in Administrators : Written(b)' => InForm(b)'
      BY DEF Written, InForm
    <2>6. RowsFit'
      <3>1. \A r \in assigned' : DatesInOrder(r)' /\ LevelsFit(r)'
        BY <1>1 DEF IInv, RowsFit, LevelsFit, DatesInOrder
      <3>2. \A b \in Administrators : InForm(b)' => DatesInOrder(session[b].row)'
        BY <2>4 DEF IInv, RowsFit, DatesInOrder
      <3>3. ASSUME NEW b \in Administrators, Written(b)'
            PROVE  LevelsFit(session[b].row)'
        <4>1. session'[b].row = session[b].row /\ LevelsFit(session[b].row)
          BY <1>3, <2>4, <2>5, <3>3 DEF IInv, RowsFit
        <4> QED
          BY <1>1, <4>1 DEF LevelsFit
      <3> QED
        BY <3>1, <3>2, <3>3 DEF RowsFit
    <2>7. EditsKeepIdentity'
      BY <2>4 DEF IInv, EditsKeepIdentity, Identity
    <2>8. NoneExcluded'
      BY <1>1 DEF IInv, NoneExcluded, Excluded, Overlap, SamePlace, SamePrimacy
    <2>9. \A r \in Stored(a) : ~Excluded(session[a].row, r)
      BY <1>3 DEF ConstraintRefuses
    <2>10. \A b \in Administrators : Written(b)' => Stored(b)' = Stored(b)
      BY <1>1, <2>4, <2>5 DEF Stored, Identity
    <2>11. WrittenFits'
      <3> SUFFICES ASSUME NEW b \in Administrators, Written(b)', NEW r \in Stored(b)'
                   PROVE  ~Excluded(session'[b].row, r)
        BY DEF WrittenFits, Excluded, Overlap, SamePlace, SamePrimacy
      <3> QED
        BY <2>4, <2>5, <2>9, <2>10 DEF IInv, WrittenFits
    <2>12. \A b \in Administrators : b # a /\ Written(b) =>
              /\ session[b] \in Forms
              /\ ~Excluded(session[a].row, session[b].row)
      <3> SUFFICES ASSUME NEW b \in Administrators, b # a, Written(b)
                   PROVE  /\ session[b] \in Forms
                          /\ ~Excluded(session[a].row, session[b].row)
        OBVIOUS
      <3>1. b \in Uncommitted(a)
        BY DEF Uncommitted, Written
      <3>2. session[b] \in Forms
        BY DEF Written, NoForm, IInv, TypeInv
      <3> QED
        BY <3>1, <3>2 DEF Write, WriteWaits
    <2>13. WrittenApart'
      <3> SUFFICES ASSUME NEW b \in Administrators, NEW c \in Administrators, b # c,
                          Written(b)', Written(c)'
                   PROVE  ~Excluded(session'[b].row, session'[c].row)
        BY DEF WrittenApart, Excluded, Overlap, SamePlace, SamePrimacy
      <3>1. /\ session'[b].row = session[b].row /\ session'[c].row = session[c].row
            /\ b = a \/ Written(b)
            /\ c = a \/ Written(c)
        BY <2>4, <2>5
      <3>2. CASE b = a
        BY <3>1, <3>2, <2>12
      <3>3. CASE c = a
        <4>1. ~Excluded(session[a].row, session[b].row) /\ session[b] \in Forms
          BY <3>1, <3>3, <2>12
        <4> QED
          BY <4>1, <3>1, <3>3, <1>1, ExcludedSymmetric DEF Forms
      <3>4. CASE b # a /\ c # a
        BY <3>1, <3>4 DEF IInv, WrittenApart
      <3> QED
        BY <3>2, <3>3, <3>4
    <2> QED
      BY <2>3, <2>6, <2>7, <2>8, <2>11, <2>13 DEF IInv
  <1> QED
    BY <1>2, <1>3 DEF Write

LEMMA CommitInv ==
    ASSUME IInv, NEW a \in Administrators, Commit(a)
    PROVE  IInv'
  <1> DEFINE new == session[a].row
  <1>1. /\ Written(a) /\ InForm(a)
        /\ session[a] \in Forms
        /\ new \in Rows
        /\ assigned' = Stored(a) \cup {new}
        /\ session' = [session EXCEPT ![a] = NoForm]
        /\ UNCHANGED <<level, active>>
    BY DEF Commit, Written, InForm, IInv, TypeInv, NoForm, Forms
  <1> HIDE DEF new
  <1>2. \A b \in Administrators : session'[b] = IF b = a THEN NoForm ELSE session[b]
    BY <1>1 DEF IInv, TypeInv
  <1>3. /\ Stored(a) \subseteq assigned
        /\ \A r \in Stored(a) : r \in Rows /\ ~Excluded(new, r) /\ ~Excluded(r, new)
    BY <1>1, ExcludedSymmetric DEF Stored, IInv, WrittenFits, TypeInv, new
  <1>4. TypeInv'
    BY <1>1, <1>3 DEF IInv, TypeInv
  <1>5. \A b \in Administrators :
          /\ Written(b)' => b # a /\ Written(b) /\ session'[b] = session[b]
          /\ InForm(b)' => b # a /\ InForm(b) /\ session'[b] = session[b]
    BY <1>2 DEF Written, InForm, NoForm
  <1>6. RowsFit'
    BY <1>1, <1>3, <1>5 DEF IInv, RowsFit, LevelsFit, DatesInOrder, new
  <1>7. EditsKeepIdentity'
    BY <1>5 DEF IInv, EditsKeepIdentity, Identity
  <1>8. NoneExcluded'
    <2> SUFFICES ASSUME NEW r \in assigned', NEW t \in assigned', r # t
                 PROVE  ~Excluded(r, t)
      BY DEF NoneExcluded, Excluded, Overlap, SamePlace, SamePrimacy
    <2> QED
      BY <1>1, <1>3 DEF IInv, NoneExcluded
  <1>9. WrittenFits'
    <2> SUFFICES ASSUME NEW b \in Administrators, Written(b)', NEW r \in Stored(b)'
                 PROVE  ~Excluded(session'[b].row, r)
      BY DEF WrittenFits, Excluded, Overlap, SamePlace, SamePrimacy
    <2>1. b # a /\ Written(b) /\ session'[b] = session[b]
      BY <1>5
    <2>2. r \in Stored(b) \/ r = new
      BY <1>1, <1>3, <2>1 DEF Stored, Identity
    <2>3. ~Excluded(session[b].row, new)
      BY <1>1, <2>1 DEF IInv, WrittenApart, new
    <2> QED
      BY <2>1, <2>2, <2>3 DEF IInv, WrittenFits
  <1>10. WrittenApart'
    BY <1>5 DEF IInv, WrittenApart, Excluded, Overlap, SamePlace, SamePrimacy
  <1> QED
    BY <1>4, <1>6, <1>7, <1>8, <1>9, <1>10 DEF IInv

\* No level is ever changed, so that no row stops fitting.
LEMMA SaveRecordInv ==
    ASSUME IInv, NEW p \in Territories \cup Switched, NEW b \in BOOLEAN, NEW new \in Levels,
           SaveRecord(p, b, new)
    PROVE  IInv'
  <1>1. level' = level /\ UNCHANGED <<assigned, session>>
    BY DEF SaveRecord, LevelMayBecome, IInv, TypeInv
  <1>2. TypeInv'
    BY <1>1 DEF SaveRecord, IInv, TypeInv
  <1> QED
    BY <1>1, <1>2 DEF IInv, RowsFit, EditsKeepIdentity, NoneExcluded, WrittenFits, WrittenApart,
         Written, InForm, Stored, Identity, Excluded, Overlap, SamePlace, SamePrimacy, LevelsFit,
         DatesInOrder

LEMMA NextInv == IInv /\ [Next]_vars => IInv'
  <1> SUFFICES ASSUME IInv, [Next]_vars PROVE IInv'
    OBVIOUS
  <1>1. CASE UNCHANGED <<assigned, level, active, session>>
    BY <1>1 DEF IInv, TypeInv, RowsFit, EditsKeepIdentity, NoneExcluded, WrittenFits,
         WrittenApart, Written, InForm, Stored, Identity, Excluded, Overlap, SamePlace,
         SamePrimacy, LevelsFit, DatesInOrder
  <1>2. ASSUME NEW a \in Administrators, NEW row \in Requests, SubmitNew(a, row)
        PROVE  IInv'
    BY <1>2, SubmitNewInv
  <1>3. ASSUME NEW a \in Administrators, NEW row \in assigned,
               NEW last \in Days \cup {Ongoing}, SubmitEdit(a, row, last)
        PROVE  IInv'
    BY <1>3, SubmitEditInv
  <1>4. ASSUME NEW a \in Administrators, Write(a)
        PROVE  IInv'
    BY <1>4, WriteInv
  <1>5. ASSUME NEW a \in Administrators, Commit(a)
        PROVE  IInv'
    BY <1>5, CommitInv
  <1>6. ASSUME NEW a \in Administrators, Abort(a)
        PROVE  IInv'
    BY <1>6, FormInv DEF Abort
  <1>7. ASSUME NEW p \in Territories \cup Switched, NEW b \in BOOLEAN, NEW new \in Levels,
               SaveRecord(p, b, new)
        PROVE  IInv'
    BY <1>7, SaveRecordInv
  <1>8. ASSUME BeginPublication \/ \E chunk \in Chunks : LookUp(chunk)
        PROVE  IInv'
    BY <1>8, <1>1 DEF BeginPublication, LookUp
  <1>9. CASE UNCHANGED vars
    BY <1>9, <1>1 DEF vars
  <1> QED
    BY <1>2, <1>3, <1>4, <1>5, <1>6, <1>7, <1>8, <1>9 DEF Next

LEMMA Invariance == Spec => []IInv
  <1>1. Init => IInv
    BY InitInv
  <1>2. IInv /\ [Next]_vars => IInv'
    BY NextInv
  <1> QED
    BY <1>1, <1>2, PTL DEF Spec

-----------------------------------------------------------------------------
\* On no day has anything two assignments of which it may have one, whatever any
\* number of administrators write at once.
THEOREM AssignmentsExclusive == Spec => []OneAssignmentPerDay
  <1>1. IInv => OneAssignmentPerDay
    <2> SUFFICES ASSUME IInv, NEW day \in Days \cup {Ongoing},
                        NEW a \in On(assigned, day), NEW b \in On(assigned, day),
                        a # b, a.kind = b.kind
                 PROVE  /\ a.kind \in {"hierarchy", "hospital"} => a.holder # b.holder
                        /\ <<a.holder, a.target>> # <<b.holder, b.target>>
                        /\ a.primary /\ b.primary =>
                             /\ a.kind = "coverage" => a.target # b.target
                             /\ a.kind \in {"affiliation", "specialty"} => a.holder # b.holder
      BY DEF OneAssignmentPerDay
    <2>1. a \in Rows /\ b \in Rows /\ ~Excluded(a, b)
      BY DEF On, IInv, TypeInv, NoneExcluded
    <2>2. Overlap(a, b)
      BY <2>1, MasterDataAssumption DEF On, Overlap, Rows, Days, Ongoing
    <2>3. ~SamePlace(a, b) /\ ~SamePrimacy(a, b)
      BY <2>1, <2>2 DEF Excluded
    <2> QED
      BY <2>3 DEF SamePlace, SamePrimacy
  <1> QED
    BY <1>1, Invariance, PTL

\* Parents are above their children and assigned territories are leaves, whatever is
\* saved about territories between the check of a form and its commit.
THEOREM LevelsFitForever == Spec => []HierarchyDescends
  <1>1. IInv => HierarchyDescends
    BY DEF IInv, RowsFit, LevelsFit, HierarchyDescends
  <1> QED
    BY <1>1, Invariance, PTL

\* No assignment disappears, and none changes but for its last day.
THEOREM AssignmentsAreHistory == Spec => HistoryKept
  <1>1. ASSUME IInv, NEW a \in Administrators, Commit(a), NEW r \in assigned
        PROVE  \E s \in assigned' :
                  Concerns(r, s) /\ r.primary = s.primary /\ r.first = s.first
    <2>1. /\ assigned' = Stored(a) \cup {session[a].row}
          /\ session[a] \in Forms /\ InForm(a)
          /\ r \in Rows
      BY <1>1 DEF Commit, IInv, TypeInv, NoForm, InForm
    <2>2. CASE r \in Stored(a)
      BY <2>1, <2>2 DEF Concerns
    <2>3. CASE r \notin Stored(a)
      <3>1. Identity(r) = Identity(session[a].row)
        BY <1>1, <2>1, <2>3 DEF Stored, IInv, EditsKeepIdentity
      <3> QED
        BY <2>1, <3>1, IdentityExcludes DEF Forms
    <2> QED
      BY <2>2, <2>3
  <1>2. Next => UNCHANGED assigned \/ \E a \in Administrators : Commit(a)
    BY DEF Next, SubmitNew, SubmitEdit, Write, Abort, SaveRecord, BeginPublication, LookUp
  <1>3. IInv /\ [Next]_vars =>
          [\A a \in assigned : \E b \in assigned' :
              /\ Concerns(a, b)
              /\ a.primary = b.primary
              /\ a.first = b.first]_assigned
    BY <1>1, <1>2 DEF vars
  <1> QED
    BY <1>3, Invariance, PTL DEF Spec, HistoryKept

\* What the one query of a chunk loads is enough for each of its rows.
LEMMA LoadedForEachRow ==
  ASSUME NEW view, NEW chunk, NEW r \in chunk
  PROVE  IsEffective({a \in Loaded(view, chunk) : Concerns(a, r)}, r.day)
           <=> \E a \in On(view, r.day) : Concerns(a, r)
  <1>1. ASSUME NEW a \in view, Concerns(a, r), a.first <= r.day, r.day <= a.last
        PROVE  a \in Loaded(view, chunk)
    <2>1. a.holder \in {x.holder : x \in chunk} /\ a.target \in {x.target : x \in chunk}
      BY <1>1 DEF Concerns
    <2> QED BY <1>1, <2>1 DEF Loaded
  <1>2. Loaded(view, chunk) \subseteq view
    BY DEF Loaded
  <1> QED BY <1>1, <1>2 DEF IsEffective, On

PublicationInv ==
    /\ publication = [view |-> publication.view, chunk |-> publication.chunk,
                      accepted |-> publication.accepted]
    /\ LookupsAgree

\* Every row a publication is told of is accepted for what the assignments were in
\* its snapshot, whatever administrators commit before and after each lookup.
THEOREM LookupsAreRight == Spec => []LookupsAgree
  <1>1. Init => PublicationInv
    BY DEF Init, NoPublication, PublicationInv, LookupsAgree
  <1>2. ASSUME PublicationInv, [Next]_vars
        PROVE  PublicationInv'
    <2>1. CASE publication' = publication
      BY <1>2, <2>1 DEF PublicationInv, LookupsAgree, On
    <2>2. CASE BeginPublication
      <3> DEFINE view == assigned
      <3>1. publication' = [NoPublication EXCEPT !.view = view]
        BY <2>2 DEF BeginPublication
      <3> HIDE DEF view
      <3> QED BY <3>1 DEF NoPublication, PublicationInv, LookupsAgree
    <2>3. ASSUME NEW chunk \in Chunks, LookUp(chunk)
          PROVE  PublicationInv'
      <3> DEFINE view     == publication.view
                 accepted == {r \in chunk : IsEffective({a \in Loaded(view, chunk) :
                                                            Concerns(a, r)}, r.day)}
      <3>1. publication' = [publication EXCEPT !.chunk = chunk, !.accepted = accepted]
        BY <2>3 DEF LookUp
      <3>2. \A r \in chunk : r \in accepted <=> \E a \in On(view, r.day) : Concerns(a, r)
        BY LoadedForEachRow
      <3> HIDE DEF accepted
      <3>3. publication' = [view |-> view, chunk |-> chunk, accepted |-> accepted]
        BY <1>2, <3>1 DEF PublicationInv
      <3> HIDE DEF view
      <3> QED BY <3>2, <3>3 DEF PublicationInv, LookupsAgree
    <2> QED BY <1>2, <2>1, <2>2, <2>3
            DEF Next, vars, SubmitNew, SubmitEdit, Write, Commit, Abort, SaveRecord
  <1>3. PublicationInv => LookupsAgree
    BY DEF PublicationInv
  <1> QED BY <1>1, <1>2, <1>3, PTL DEF Spec
=============================================================================
