------------------------------ MODULE LockOrder ------------------------------
(***************************************************************************)
(* The locks the transactions of the import pipeline take, and in which    *)
(* order: the advisory lock of a source, and the rows of an intake, of its *)
(* job and of the running attempt.  Only the locks are modelled here, what *)
(* the transactions do under them is in SalesImportQueue, -Publication and *)
(* -Intake.                                                                *)
(***************************************************************************)
EXTENDS Naturals

CONSTANTS
    Workers,     \* connections of process_sales_imports
    Clients,     \* connections of upload requests and operators' commands
    Imports,     \* imports; each has an intake row, a job row and a live attempt
    Sources,     \* source systems
    SourceOf,    \* the source system of each import
    Nobody

ASSUME LockAssumption ==
    /\ SourceOf \in [Imports -> Sources]
    /\ Nobody \notin Workers \cup Clients

Processes == Workers \cup Clients

Lock(kind, owner) == [kind |-> kind, of |-> owner]

Locks == [kind : {"source"}, of : Sources]
         \cup [kind : {"intake", "job", "attempt"}, of : Imports]

VARIABLES
    task,     \* the transaction each process is in, or "idle"
    todo,     \* the locks it has still to take
    ahead,    \* the jobs a claim may still look at
    holder    \* who has each lock

vars == <<task, todo, ahead, holder>>

Init ==
    /\ task = [p \in Processes |-> "idle"]
    /\ todo = [p \in Processes |-> {}]
    /\ ahead = [p \in Processes |-> {}]
    /\ holder = [l \in Locks |-> Nobody]

InTransaction(p) == task[p] # "idle"

-----------------------------------------------------------------------------
(***************************************************************************)
(* The transactions.                                                       *)
(***************************************************************************)

RowsOf(kinds, i) == {Lock(kind, i) : kind \in kinds}

\* What a transaction about one import locks.
Program(i) ==
    [fenced        |-> RowsOf({"job", "attempt"}, i),     \* _locked_live_claim
     publish       |-> {Lock("source", SourceOf[i])} \cup RowsOf({"job", "attempt"}, i),
     objectFailure |-> RowsOf({"intake", "job", "attempt"}, i),
     settle        |-> RowsOf({"intake", "job"}, i),      \* mark_*, enqueue_import
     requeue       |-> RowsOf({"job", "intake"}, i),
     backfill      |-> RowsOf({"intake"}, i),
     claim         |-> RowsOf({"job", "intake", "attempt"}, i)]

WorkerTransactions == {"claim", "fenced", "publish", "objectFailure"}

ClientTransactions == {"settle", "requeue", "backfill"}

\* Mutant: a worker locks the job before the intake of an unusable object.
JobFirst(name, kind) ==
    CASE kind = "source"  -> 0
      [] kind = "job"     -> IF name \in {"requeue", "claim", "objectFailure"} THEN 1 ELSE 2
      [] kind = "intake"  -> IF name \in {"requeue", "claim", "objectFailure"} THEN 2 ELSE 1
      [] kind = "attempt" -> 3

\* select_related locks the job and then the joined intake.
Position(name, kind) ==
    CASE kind = "source"  -> 0
      [] kind = "job"     -> IF name \in {"requeue", "claim"} THEN 1 ELSE 2
      [] kind = "intake"  -> IF name \in {"requeue", "claim"} THEN 2 ELSE 1
      [] kind = "attempt" -> 3

Upcoming(p, l) ==
    /\ l \in todo[p]
    /\ \A m \in todo[p] : Position(task[p], l.kind) <= Position(task[p], m.kind)

Free(l) == holder[l] = Nobody

\* Mutant: a claim waits for the rows of the job it has picked.
SkipsInSweep(p, l) == task[p] = "sweep" /\ l.kind # "attempt"

\* SKIP LOCKED
Skips(p, l) == task[p] \in {"claim", "sweep"} /\ l.kind # "attempt"

Begin(p, name, i) ==
    /\ ~InTransaction(p)
    /\ task' = [task EXCEPT ![p] = name]
    /\ todo' = [todo EXCEPT ![p] = Program(i)[name]]
    /\ ahead' = [ahead EXCEPT ![p] = IF name = "claim" THEN Imports \ {i} ELSE {}]
    /\ UNCHANGED holder

\* _mark_exhausted_batch looks at several jobs at once.
BeginSweep(p, batch) ==
    /\ ~InTransaction(p)
    /\ batch # {}
    /\ task' = [task EXCEPT ![p] = "sweep"]
    /\ todo' = [todo EXCEPT ![p] = UNION {RowsOf({"job", "attempt"}, i) : i \in batch}]
    /\ UNCHANGED <<ahead, holder>>

Acquire(p) ==
    \E l \in Locks :
        /\ Upcoming(p, l)
        /\ Free(l)
        /\ holder' = [holder EXCEPT ![l] = p]
        /\ todo' = [todo EXCEPT ![p] = @ \ {l}]
        /\ UNCHANGED <<task, ahead>>

\* A job that is locked, or whose intake is, is left to the others; a lock that
\* was taken before is kept until the transaction ends.
PassOver(p) ==
    \E l \in Locks :
        /\ Upcoming(p, l)
        /\ Skips(p, l)
        /\ ~Free(l)
        /\ todo' = [todo EXCEPT ![p] = {m \in @ : m.of # l.of}]
        /\ UNCHANGED <<task, ahead, holder>>

\* The claim goes on to the next job of the queue.
LookFurther(p, i) ==
    /\ i \in ahead[p]
    /\ todo[p] = {}
    /\ \A j \in Imports : holder[Lock("attempt", j)] # p
    /\ todo' = [todo EXCEPT ![p] = Program(i).claim]
    /\ ahead' = [ahead EXCEPT ![p] = @ \ {i}]
    /\ UNCHANGED <<task, holder>>

\* COMMIT or ROLLBACK, and pg_advisory_unlock: every lock is released.
End(p) ==
    /\ task' = [task EXCEPT ![p] = "idle"]
    /\ todo' = [todo EXCEPT ![p] = {}]
    /\ ahead' = [ahead EXCEPT ![p] = {}]
    /\ holder' = [l \in Locks |-> IF holder[l] = p THEN Nobody ELSE holder[l]]

Commit(p) ==
    /\ InTransaction(p)
    /\ todo[p] = {}
    /\ End(p)

\* The source lock is polled, with a deadline and without a row lock held.
GiveUp(p) ==
    /\ \E l \in Locks : Upcoming(p, l) /\ l.kind = "source"
    /\ End(p)

\* q has the lock p's statement waits for.
WaitsFor(p, q) ==
    /\ p # q
    /\ \E l \in Locks : /\ Upcoming(p, l)
                        /\ ~Skips(p, l)
                        /\ l.kind # "source"
                        /\ holder[l] = q

Deadlocked(S) == S # {} /\ \A p \in S : \E q \in S : WaitsFor(p, q)

\* PostgreSQL makes one transaction of a deadlock fail.
Victim(p) ==
    /\ \E S \in SUBSET Processes : p \in S /\ Deadlocked(S)
    /\ End(p)

\* The process stops, or its statement fails for another reason.
Abort(p) ==
    /\ InTransaction(p)
    /\ End(p)

Next ==
    \E p \in Processes :
        \/ /\ p \in Workers
           /\ \E name \in WorkerTransactions, i \in Imports : Begin(p, name, i)
        \/ /\ p \in Workers
           /\ \E batch \in SUBSET Imports : BeginSweep(p, batch)
        \/ /\ p \in Clients
           /\ \E name \in ClientTransactions, i \in Imports : Begin(p, name, i)
        \/ Acquire(p)
        \/ PassOver(p)
        \/ \E i \in Imports : LookFurther(p, i)
        \/ Commit(p)
        \/ GiveUp(p)
        \/ Victim(p)
        \/ Abort(p)

Spec == Init /\ [][Next]_vars

\* A lock that is released again and again is granted at last: PostgreSQL queues
\* those who wait.  A transaction that has its locks goes on, a poll comes to its
\* deadline.  Nothing is asked of deadlock detection.
Fairness ==
    \A p \in Processes :
        /\ SF_vars(Acquire(p))
        /\ WF_vars(PassOver(p))
        /\ WF_vars(Commit(p))
        /\ WF_vars(GiveUp(p))

LiveSpec == Spec /\ Fairness

-----------------------------------------------------------------------------
\* The transactions of the pipeline never wait for each other in a circle: when
\* PostgreSQL finds a deadlock, an operator's requeue_job, which locks the job
\* before the intake, is part of it.
DeadlockNeedsRequeue ==
    \A S \in SUBSET Processes : Deadlocked(S) => \E p \in S : task[p] = "requeue"

\* So, without requeue_job, every transaction ends although PostgreSQL never
\* breaks a deadlock: waiting workers are always let through.
TransactionsEnd ==
    [](\A p \in Processes : task[p] # "requeue") =>
        \A p \in Processes : InTransaction(p) ~> ~InTransaction(p)
=============================================================================
