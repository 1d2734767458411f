------------------ MODULE SalesImportPublicationRefinement ------------------
(* Publication keeps the promise of LeasedWork, of which it takes its claims. *)
EXTENDS SalesImportPublication

CONSTANT Nobody    \* the holder of a job that no worker holds

ASSUME NobodyAssumption == Nobody \notin Workers

ItemState(j) == IF job[j].status = "rejected" THEN "failed" ELSE job[j].status

\* A worker holds the job whose row still carries the attempt it works on.
Holds(w, j) ==
    /\ job[j].status = "held"
    /\ worker[w].job = j
    /\ worker[w].attempt = job[j].attempt

Holder(j) ==
    IF \E w \in Workers : Holds(w, j)
    THEN CHOOSE w \in Workers : Holds(w, j)
    ELSE Nobody

Work == INSTANCE LeasedWork WITH
    Items  <- Jobs,
    state  <- [j \in Jobs |-> ItemState(j)],
    holder <- [j \in Jobs |-> Holder(j)],
    sealed <- {j \in Jobs : RowLocked(j)},
    spent  <- [j \in Jobs |-> job[j].attempt],
    budget <- [j \in Jobs |-> job[j].budget]

\* Publication begins with the jobs that intake admitted and released.
Released ==
    \A j \in Jobs : ItemState(j) = "open" /\ Holder(j) = Nobody /\ job[j].attempt = 0

\* Every step of staging and publishing is one of LeasedWork: only the worker
\* that holds a job rejects, publishes or returns it, nobody takes a job that is
\* being published, and an attempt that ends leaves neither a holder nor a lock.
ImplementsLeasedWork == Released /\ [][Work!AbsNext]_(Work!absVars)
=============================================================================
