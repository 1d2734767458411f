--------------------------- MODULE LockOrderProofs ---------------------------
(***************************************************************************)
(* No deadlock without requeue_job, for any number of processes, imports   *)
(* and sources.  The argument: whoever has the row of an attempt has the   *)
(* row of its job as well, so nobody ever waits for an attempt; claims and *)
(* sweeps skip every other locked row; and every other transaction takes   *)
(* its locks in the order source, intake, job.  Only a transaction that    *)
(* has an intake can make another one wait for it while it waits itself,   *)
(* then for a job, and whoever has that job waits for nothing.             *)
(***************************************************************************)
EXTENDS LockOrder, TLAPS

TaskNames == {"idle", "sweep"} \cup WorkerTransactions \cup ClientTransactions

TypeInv ==
    /\ task \in [Processes -> TaskNames]
    /\ todo \in [Processes -> SUBSET Locks]
    /\ ahead \in [Processes -> SUBSET Imports]
    /\ holder \in [Locks -> Processes \cup {Nobody}]

IdleHasNothing ==
    \A p \in Processes : task[p] = "idle" =>
        /\ todo[p] = {}
        /\ \A l \in Locks : holder[l] # p

AttemptUnderJob ==
    \A p \in Processes, i \in Imports :
        holder[Lock("attempt", i)] = p => holder[Lock("job", i)] = p

AttemptAfterJob ==
    \A p \in Processes, i \in Imports :
        Lock("attempt", i) \in todo[p] =>
            Lock("job", i) \in todo[p] \/ holder[Lock("job", i)] = p

\* Every transaction but a claim or a sweep locks one row of a kind, in order.
InOrder ==
    \A p \in Processes : task[p] \notin {"claim", "sweep"} =>
        /\ \A l, m \in todo[p] : l.kind = m.kind => l = m
        /\ \A l \in todo[p], m \in Locks :
              holder[m] = p => Position(task[p], m.kind) < Position(task[p], l.kind)

OnlyClaimsLookFurther ==
    \A p \in Processes : task[p] # "claim" => ahead[p] = {}

IInv ==
    /\ TypeInv
    /\ IdleHasNothing
    /\ OnlyClaimsLookFurther
    /\ AttemptUnderJob
    /\ AttemptAfterJob
    /\ InOrder

-----------------------------------------------------------------------------
\* The rows of an import are locks, one of each kind.
LEMMA RowFacts ==
    ASSUME NEW kinds \in SUBSET {"intake", "job", "attempt"}, NEW i \in Imports
    PROVE  /\ RowsOf(kinds, i) \subseteq Locks
           /\ \A l \in RowsOf(kinds, i) : l.kind \in kinds /\ l = Lock(l.kind, i)
           /\ \A k \in kinds : Lock(k, i) \in RowsOf(kinds, i)
           /\ \A j \in Imports, k \in {"intake", "job", "attempt"} :
                 Lock(k, j) \in RowsOf(kinds, i) => j = i /\ k \in kinds
  <1>1. \A l : l \in RowsOf(kinds, i) <=> \E k \in kinds : l = [kind |-> k, of |-> i]
    BY DEF RowsOf, Lock
  <1>2. RowsOf(kinds, i) \subseteq Locks
    <2>1. \A k \in {"intake", "job", "attempt"} : [kind |-> k, of |-> i] \in Locks
      BY DEF Locks
    <2> QED
      BY <1>1, <2>1
  <1>3. \A l \in RowsOf(kinds, i) : l.kind \in kinds /\ l = Lock(l.kind, i)
    BY <1>1 DEF Lock
  <1>4. \A k \in kinds : Lock(k, i) \in RowsOf(kinds, i)
    BY <1>1 DEF Lock
  <1>5. \A j \in Imports, k \in {"intake", "job", "attempt"} :
          Lock(k, j) \in RowsOf(kinds, i) => j = i /\ k \in kinds
    BY <1>1 DEF Lock
  <1> QED
    BY <1>2, <1>3, <1>4, <1>5

\* A program is a set of locks, each of a kind of its own, job before attempt.
LEMMA ProgramLocks ==
    ASSUME NEW i \in Imports, NEW name \in WorkerTransactions \cup ClientTransactions
    PROVE  /\ Program(i)[name] \subseteq Locks
           /\ \A l, m \in Program(i)[name] : l.kind = m.kind => l = m
           /\ \A j \in Imports : Lock("attempt", j) \in Program(i)[name] =>
                 Lock("job", j) \in Program(i)[name]
  <1> DEFINE source == Lock("source", SourceOf[i])
  <1>1. /\ source \in Locks
        /\ source.kind = "source"
        /\ \A j \in Imports : Lock("attempt", j) # source
    BY LockAssumption DEF Lock, Locks
  <1>2. PICK kinds \in {{"job", "attempt"}, {"intake", "job", "attempt"}, {"intake", "job"},
                        {"intake"}} :
          \/ Program(i)[name] = RowsOf(kinds, i)
          \/ Program(i)[name] = {source} \cup RowsOf(kinds, i)
    <2>1. /\ Program(i)["fenced"] = RowsOf({"job", "attempt"}, i)
          /\ Program(i)["publish"] = {source} \cup RowsOf({"job", "attempt"}, i)
          /\ Program(i)["objectFailure"] = RowsOf({"intake", "job", "attempt"}, i)
          /\ Program(i)["settle"] = RowsOf({"intake", "job"}, i)
          /\ Program(i)["requeue"] = RowsOf({"job", "intake"}, i)
          /\ Program(i)["backfill"] = RowsOf({"intake"}, i)
          /\ Program(i)["claim"] = RowsOf({"job", "intake", "attempt"}, i)
      BY DEF Program
    <2>2. /\ {"job", "intake"} = {"intake", "job"}
          /\ {"job", "intake", "attempt"} = {"intake", "job", "attempt"}
      OBVIOUS
    <2> QED
      BY <2>1, <2>2 DEF WorkerTransactions, ClientTransactions
  <1> HIDE DEF source
  <1>3. /\ kinds \in SUBSET {"intake", "job", "attempt"}
        /\ "attempt" \in kinds => "job" \in kinds
    BY <1>2
  <1> QED
    BY <1>1, <1>2, <1>3, RowFacts

LEMMA LockFacts ==
    /\ \A i \in Imports : /\ Lock("attempt", i) \in Locks /\ Lock("attempt", i).kind = "attempt"
                          /\ Lock("job", i) \in Locks /\ Lock("job", i).kind = "job"
                          /\ Lock("attempt", i).of = i /\ Lock("job", i).of = i
    /\ \A l \in Locks : l.kind \in {"source", "intake", "job", "attempt"}
    /\ \A l \in Locks : l.kind = "attempt" => l.of \in Imports /\ l = Lock("attempt", l.of)
  BY DEF Lock, Locks

\* Positions order the kinds.
LEMMA PositionFacts ==
    ASSUME NEW name,
           NEW j \in {"source", "intake", "job", "attempt"},
           NEW k \in {"source", "intake", "job", "attempt"}
    PROVE  /\ Position(name, k) \in Nat
           /\ Position(name, j) = Position(name, k) => j = k
           /\ k # "attempt" => Position(name, k) < Position(name, "attempt")
  BY DEF Position

LEMMA InitInv == Init => IInv
  <1> SUFFICES ASSUME Init PROVE IInv
    OBVIOUS
  <1>1. TypeInv
    BY DEF Init, TypeInv, TaskNames
  <1>2. IdleHasNothing
    BY LockAssumption DEF Init, IdleHasNothing, Processes
  <1>3. AttemptUnderJob
    BY LockAssumption, LockFacts DEF Init, AttemptUnderJob, Processes
  <1>4. AttemptAfterJob /\ InOrder /\ OnlyClaimsLookFurther
    BY DEF Init, AttemptAfterJob, InOrder, OnlyClaimsLookFurther
  <1> QED
    BY <1>1, <1>2, <1>3, <1>4 DEF IInv

\* A transaction that ends gives everything back.
LEMMA EndInv ==
    ASSUME IInv, NEW p \in Processes, End(p)
    PROVE  IInv'
  <1>1. TypeInv'
    BY DEF End, IInv, TypeInv, TaskNames
  <1>2. \A l \in Locks : holder'[l] = IF holder[l] = p THEN Nobody ELSE holder[l]
    BY DEF End
  <1>3. \A l \in Locks : holder'[l] # p
    BY <1>2, LockAssumption DEF Processes
  <1>4. \A l \in Locks, q \in Processes : holder'[l] = q <=> q # p /\ holder[l] = q
    BY <1>2, <1>3, LockAssumption DEF Processes
  <1>5. /\ \A q \in Processes : todo'[q] = IF q = p THEN {} ELSE todo[q]
        /\ \A q \in Processes : task'[q] = IF q = p THEN "idle" ELSE task[q]
    BY DEF End, IInv, TypeInv
  <1>6. IdleHasNothing'
    BY <1>4, <1>5 DEF IInv, IdleHasNothing
  <1>7. AttemptUnderJob'
    BY <1>4, LockFacts DEF IInv, AttemptUnderJob
  <1>8. AttemptAfterJob'
    BY <1>4, <1>5, LockFacts DEF IInv, AttemptAfterJob
  <1>9. InOrder'
    BY <1>4, <1>5 DEF IInv, InOrder
  <1>10. OnlyClaimsLookFurther'
    BY DEF End, IInv, TypeInv, OnlyClaimsLookFurther
  <1> QED
    BY <1>1, <1>6, <1>7, <1>8, <1>9, <1>10 DEF IInv

LEMMA BeginInv ==
    ASSUME IInv, NEW p \in Processes, NEW i \in Imports,
           NEW name \in WorkerTransactions \cup ClientTransactions, Begin(p, name, i)
    PROVE  IInv'
  <1>1. /\ todo' = [todo EXCEPT ![p] = Program(i)[name]]
        /\ task' = [task EXCEPT ![p] = name]
        /\ holder' = holder
        /\ task[p] = "idle"
    BY DEF Begin, InTransaction
  <1>2. /\ \A q \in Processes : todo'[q] = IF q = p THEN Program(i)[name] ELSE todo[q]
        /\ \A q \in Processes : task'[q] = IF q = p THEN name ELSE task[q]
    BY <1>1 DEF IInv, TypeInv
  <1>3. \A l \in Locks : holder[l] # p
    BY <1>1 DEF IInv, IdleHasNothing
  <1>4. TypeInv'
    BY ProgramLocks, <1>1 DEF Begin, IInv, TypeInv, TaskNames
  <1>5. IdleHasNothing'
    BY <1>1, <1>2 DEF IInv, IdleHasNothing, WorkerTransactions, ClientTransactions
  <1>6. AttemptUnderJob'
    BY <1>1 DEF IInv, AttemptUnderJob
  <1>7. AttemptAfterJob'
    BY <1>1, <1>2, ProgramLocks DEF IInv, AttemptAfterJob
  <1>8. InOrder'
    BY <1>1, <1>2, <1>3, ProgramLocks DEF IInv, InOrder
  <1>9. OnlyClaimsLookFurther'
    BY DEF Begin, IInv, TypeInv, OnlyClaimsLookFurther
  <1> QED
    BY <1>4, <1>5, <1>6, <1>7, <1>8, <1>9 DEF IInv

LEMMA SweepInv ==
    ASSUME IInv, NEW p \in Processes, NEW batch \in SUBSET Imports, BeginSweep(p, batch)
    PROVE  IInv'
  <1> DEFINE rows == UNION {RowsOf({"job", "attempt"}, i) : i \in batch}
  <1>1. /\ rows \subseteq Locks
        /\ \A j \in Imports : Lock("attempt", j) \in rows => Lock("job", j) \in rows
    BY RowFacts
  <1> HIDE DEF rows
  <1>2. /\ todo' = [todo EXCEPT ![p] = rows]
        /\ task' = [task EXCEPT ![p] = "sweep"]
        /\ ahead' = ahead
        /\ holder' = holder
    BY DEF BeginSweep, rows
  <1>3. /\ \A q \in Processes : todo'[q] = IF q = p THEN rows ELSE todo[q]
        /\ \A q \in Processes : task'[q] = IF q = p THEN "sweep" ELSE task[q]
    BY <1>2 DEF IInv, TypeInv
  <1>4. TypeInv'
    BY <1>1, <1>2 DEF IInv, TypeInv, TaskNames
  <1>5. IdleHasNothing' /\ AttemptUnderJob'
    BY <1>2, <1>3 DEF IInv, IdleHasNothing, AttemptUnderJob
  <1>6. AttemptAfterJob'
    BY <1>1, <1>2, <1>3 DEF IInv, AttemptAfterJob
  <1>7. InOrder'
    BY <1>2, <1>3 DEF IInv, InOrder
  <1>8. OnlyClaimsLookFurther'
    BY DEF BeginSweep, InTransaction, IInv, TypeInv, OnlyClaimsLookFurther
  <1> QED
    BY <1>4, <1>5, <1>6, <1>7, <1>8 DEF IInv

LEMMA AcquireInv ==
    ASSUME IInv, NEW p \in Processes, Acquire(p)
    PROVE  IInv'
  <1>1. PICK l \in Locks :
          /\ Upcoming(p, l)
          /\ holder[l] = Nobody
          /\ holder' = [holder EXCEPT ![l] = p]
          /\ todo' = [todo EXCEPT ![p] = @ \ {l}]
          /\ task' = task
          /\ ahead' = ahead
    BY DEF Acquire, Free
  <1>2. /\ l \in todo[p]
        /\ \A m \in todo[p] : Position(task[p], l.kind) <= Position(task[p], m.kind)
    BY <1>1 DEF Upcoming
  <1>3. /\ \A m \in Locks : holder'[m] = IF m = l THEN p ELSE holder[m]
        /\ \A q \in Processes : todo'[q] = IF q = p THEN todo[p] \ {l} ELSE todo[q]
    BY <1>1 DEF IInv, TypeInv
  <1>4. \A q \in Processes : todo[q] \subseteq Locks
    BY DEF IInv, TypeInv
  <1>5. TypeInv'
    BY <1>1 DEF IInv, TypeInv
  <1>6. IdleHasNothing'
    BY <1>1, <1>2, <1>3 DEF IInv, IdleHasNothing
  <1>7. AttemptUnderJob'
    <2> SUFFICES ASSUME NEW q \in Processes, NEW i \in Imports,
                        holder'[Lock("attempt", i)] = q
                 PROVE  holder'[Lock("job", i)] = q
      BY DEF AttemptUnderJob
    <2>1. CASE l = Lock("attempt", i)
      <3>1. q = p
        BY <2>1, <1>3, LockFacts
      <3>2. Lock("job", i) \notin todo[p]
        BY <2>1, <1>2, LockFacts, PositionFacts
      <3>3. holder[Lock("job", i)] = p
        BY <2>1, <3>2, <1>2 DEF IInv, AttemptAfterJob
      <3> QED
        BY <3>1, <3>3, <1>3, LockFacts
    <2>2. CASE l # Lock("attempt", i)
      <3>1. holder[Lock("attempt", i)] = q
        BY <2>2, <1>3, LockFacts
      <3>2. holder[Lock("job", i)] = q
        BY <3>1 DEF IInv, AttemptUnderJob
      <3> QED
        BY <3>2, <1>1, <1>3, LockFacts, LockAssumption DEF Processes
    <2> QED
      BY <2>1, <2>2
  <1>8. AttemptAfterJob'
    <2> SUFFICES ASSUME NEW q \in Processes, NEW i \in Imports,
                        Lock("attempt", i) \in todo'[q]
                 PROVE  Lock("job", i) \in todo'[q] \/ holder'[Lock("job", i)] = q
      BY DEF AttemptAfterJob
    <2>1. Lock("job", i) \in todo[q] \/ holder[Lock("job", i)] = q
      BY <1>3 DEF IInv, AttemptAfterJob
    <2> QED
      BY <2>1, <1>1, <1>3, LockFacts, LockAssumption DEF Processes
  <1>9. InOrder'
    <2> SUFFICES ASSUME NEW q \in Processes, task[q] \notin {"claim", "sweep"}
                 PROVE  /\ \A k, m \in todo'[q] : k.kind = m.kind => k = m
                        /\ \A k \in todo'[q], m \in Locks : holder'[m] = q =>
                              Position(task[q], m.kind) < Position(task[q], k.kind)
      BY <1>1 DEF InOrder
    <2>1. \A k, m \in todo[q] : k.kind = m.kind => k = m
      BY DEF IInv, InOrder
    <2>2. \A k \in todo[q], m \in Locks : holder[m] = q =>
             Position(task[q], m.kind) < Position(task[q], k.kind)
      BY DEF IInv, InOrder
    <2>3. \A k \in todo'[q] : k \in todo[q] /\ (q = p => k # l)
      BY <1>3
    <2>4. ASSUME q = p, NEW k \in todo'[q]
          PROVE  Position(task[q], l.kind) < Position(task[q], k.kind)
      <3>1. k \in todo[p] /\ k # l /\ k \in Locks
        BY <2>3, <2>4, <1>4
      <3>2. k.kind # l.kind
        BY <3>1, <2>1, <2>4, <1>2
      <3>3. Position(task[p], l.kind) <= Position(task[p], k.kind)
        BY <3>1, <1>2
      <3>4. /\ Position(task[p], l.kind) \in Nat
            /\ Position(task[p], k.kind) \in Nat
            /\ Position(task[p], l.kind) # Position(task[p], k.kind)
        BY <3>1, <3>2, LockFacts, PositionFacts
      <3> QED
        BY <3>3, <3>4, <2>4
    <2>5. \A k \in todo'[q], m \in Locks : holder'[m] = q =>
             Position(task[q], m.kind) < Position(task[q], k.kind)
      BY <1>3, <2>2, <2>3, <2>4
    <2> QED
      BY <2>1, <2>3, <2>5
  <1>10. OnlyClaimsLookFurther'
    BY <1>1 DEF IInv, OnlyClaimsLookFurther
  <1> QED
    BY <1>5, <1>6, <1>7, <1>8, <1>9, <1>10 DEF IInv

LEMMA PassOverInv ==
    ASSUME IInv, NEW p \in Processes, PassOver(p)
    PROVE  IInv'
  <1>1. PICK l \in Locks :
          /\ Skips(p, l)
          /\ todo' = [todo EXCEPT ![p] = {m \in @ : m.of # l.of}]
          /\ task' = task /\ ahead' = ahead /\ holder' = holder
    BY DEF PassOver
  <1>2. \A q \in Processes :
          todo'[q] = IF q = p THEN {m \in todo[p] : m.of # l.of} ELSE todo[q]
    BY <1>1 DEF IInv, TypeInv
  <1>3. TypeInv'
    BY <1>1 DEF IInv, TypeInv
  <1>4. IdleHasNothing' /\ AttemptUnderJob'
    BY <1>1, <1>2 DEF IInv, IdleHasNothing, AttemptUnderJob
  <1>5. AttemptAfterJob'
    BY <1>1, <1>2, LockFacts DEF IInv, AttemptAfterJob
  <1>6. InOrder'
    BY <1>1, <1>2 DEF IInv, InOrder
  <1>7. OnlyClaimsLookFurther'
    BY <1>1 DEF IInv, OnlyClaimsLookFurther
  <1> QED
    BY <1>3, <1>4, <1>5, <1>6, <1>7 DEF IInv

LEMMA LookFurtherInv ==
    ASSUME IInv, NEW p \in Processes, NEW i \in Imports, LookFurther(p, i)
    PROVE  IInv'
  <1>1. /\ todo' = [todo EXCEPT ![p] = Program(i)["claim"]]
        /\ ahead' = [ahead EXCEPT ![p] = @ \ {i}]
        /\ task' = task /\ holder' = holder
        /\ task[p] = "claim"
    BY DEF LookFurther, IInv, OnlyClaimsLookFurther
  <1>2. \A q \in Processes : todo'[q] = IF q = p THEN Program(i)["claim"] ELSE todo[q]
    BY <1>1 DEF IInv, TypeInv
  <1>3. "claim" \in WorkerTransactions \cup ClientTransactions
    BY DEF WorkerTransactions
  <1>4. TypeInv'
    BY <1>1, <1>3, ProgramLocks DEF IInv, TypeInv
  <1>5. IdleHasNothing' /\ AttemptUnderJob'
    BY <1>1, <1>2 DEF IInv, IdleHasNothing, AttemptUnderJob
  <1>6. AttemptAfterJob'
    BY <1>1, <1>2, <1>3, ProgramLocks DEF IInv, AttemptAfterJob
  <1>7. InOrder'
    BY <1>1, <1>2 DEF IInv, InOrder
  <1>8. OnlyClaimsLookFurther'
    BY <1>1 DEF IInv, TypeInv, OnlyClaimsLookFurther
  <1> QED
    BY <1>4, <1>5, <1>6, <1>7, <1>8 DEF IInv

LEMMA NextInv == IInv /\ [Next]_vars => IInv'
  <1> SUFFICES ASSUME IInv, [Next]_vars PROVE IInv'
    OBVIOUS
  <1>1. CASE UNCHANGED vars
    BY <1>1 DEF vars, IInv, TypeInv, IdleHasNothing, OnlyClaimsLookFurther,
                AttemptUnderJob, AttemptAfterJob, InOrder
  <1>2. ASSUME NEW p \in Processes, NEW i \in Imports,
               NEW name \in WorkerTransactions \cup ClientTransactions, Begin(p, name, i)
        PROVE  IInv'
    BY <1>2, BeginInv
  <1>3. ASSUME NEW p \in Processes, NEW batch \in SUBSET Imports, BeginSweep(p, batch)
        PROVE  IInv'
    BY <1>3, SweepInv
  <1>4. ASSUME NEW p \in Processes, Acquire(p)
        PROVE  IInv'
    BY <1>4, AcquireInv
  <1>5. ASSUME NEW p \in Processes, PassOver(p)
        PROVE  IInv'
    BY <1>5, PassOverInv
  <1>6. ASSUME NEW p \in Processes, NEW i \in Imports, LookFurther(p, i)
        PROVE  IInv'
    BY <1>6, LookFurtherInv
  <1>7. ASSUME NEW p \in Processes, Commit(p) \/ GiveUp(p) \/ Victim(p) \/ Abort(p)
        PROVE  IInv'
    <2>1. End(p)
      BY <1>7 DEF Commit, GiveUp, Victim, Abort
    <2> QED
      BY <2>1, EndInv
  <1> QED
    BY <1>1, <1>2, <1>3, <1>4, <1>5, <1>6, <1>7 DEF Next

-----------------------------------------------------------------------------
\* Whoever waits is neither in a claim nor in a sweep, and waits for the row of a
\* job or of an intake: nobody else can have the attempt of a job that one has.
LEMMA Waiting ==
    ASSUME IInv, NEW p \in Processes, NEW q \in Processes, NEW l \in Locks, p # q,
           Upcoming(p, l), ~Skips(p, l), l.kind # "source", holder[l] = q
    PROVE  /\ task[p] \notin {"claim", "sweep"}
           /\ l.kind \in {"intake", "job"}
           /\ l \in todo[p]
  <1>1. l \in todo[p]
    BY DEF Upcoming
  <1>2. l.kind # "attempt"
    <2> SUFFICES ASSUME l.kind = "attempt" PROVE FALSE
      OBVIOUS
    <2>1. l.of \in Imports /\ l = Lock("attempt", l.of)
      BY LockFacts
    <2>2. holder[Lock("job", l.of)] = q
      BY <2>1 DEF IInv, AttemptUnderJob
    <2>3. Lock("job", l.of) \in todo[p]
      BY <1>1, <2>1, <2>2 DEF IInv, AttemptAfterJob
    <2>4. Position(task[p], "attempt") <= Position(task[p], "job")
      BY <2>1, <2>3, LockFacts DEF Upcoming
    <2> QED
      BY <2>4, PositionFacts
  <1> QED
    BY <1>1, <1>2, LockFacts DEF Skips

\* No circle of waiting transactions without requeue_job.
LEMMA NoOtherDeadlock == IInv => DeadlockNeedsRequeue
  <1> SUFFICES ASSUME IInv, NEW S \in SUBSET Processes, Deadlocked(S),
                      \A p \in S : task[p] # "requeue"
               PROVE  FALSE
    BY DEF DeadlockNeedsRequeue
  <1>1. \A p \in S : \E q \in S, l \in Locks :
          /\ task[p] \notin {"claim", "sweep", "requeue"}
          /\ l.kind \in {"intake", "job"}
          /\ l \in todo[p]
          /\ holder[l] = q
    BY Waiting DEF Deadlocked, WaitsFor
  <1>2. ASSUME NEW p \in S, NEW m \in Locks, m.kind = "job", holder[m] = p
        PROVE  FALSE
    <2>1. PICK l \in Locks : /\ task[p] \notin {"claim", "sweep", "requeue"}
                             /\ l.kind \in {"intake", "job"}
                             /\ l \in todo[p]
      BY <1>1
    <2>2. Position(task[p], "job") < Position(task[p], l.kind)
      BY <1>2, <2>1 DEF IInv, InOrder
    <2> QED
      BY <2>1, <2>2 DEF Position
  <1>3. ASSUME NEW p \in S, NEW m \in Locks, m.kind = "intake", holder[m] = p
        PROVE  FALSE
    <2>1. PICK l \in Locks, q \in S :
             /\ task[p] \notin {"claim", "sweep", "requeue"}
             /\ l.kind \in {"intake", "job"}
             /\ l \in todo[p]
             /\ holder[l] = q
      BY <1>1
    <2>2. Position(task[p], "intake") < Position(task[p], l.kind)
      BY <1>3, <2>1 DEF IInv, InOrder
    <2>3. l.kind = "job"
      BY <2>1, <2>2 DEF Position
    <2> QED
      BY <2>1, <2>3, <1>2
  <1>4. PICK p \in S : TRUE
    BY DEF Deadlocked
  <1> QED
    BY <1>1, <1>2, <1>3, <1>4

-----------------------------------------------------------------------------
\* Locks are taken in an order that only requeue_job breaks: in every state of
\* every instance, a deadlock PostgreSQL finds among the pipeline's transactions
\* has an operator's requeue_job in it.
THEOREM DeadlocksNeedRequeue == Spec => []DeadlockNeedsRequeue
  <1>1. Init => IInv
    BY InitInv
  <1>2. IInv /\ [Next]_vars => IInv'
    BY NextInv
  <1>3. IInv => DeadlockNeedsRequeue
    BY NoOtherDeadlock
  <1> QED
    BY <1>1, <1>2, <1>3, PTL DEF Spec
=============================================================================
