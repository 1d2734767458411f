--------------------- MODULE SalesImportQueueRefinement ---------------------
(* The queue of SalesImportQueue implements the promise of LeasedWork. *)
EXTENDS SalesImportQueue

CONSTANT Nobody    \* the holder of an item that no worker holds

ASSUME NobodyAssumption == Nobody \notin Workers

ItemState(i) ==
    CASE job[i].status = "absent" -> "none"
      [] job[i].status \in {"waiting_file", "awaiting_parser"} -> "waiting"
      [] job[i].status \in {"queued", "retry_wait"} -> "open"
      [] job[i].status = "processing" -> "held"
      [] job[i].status = "published" -> "published"
      [] OTHER -> "failed"

\* A worker holds the job whose row carries its token.
Holds(w, i) == job[i].token # NoToken /\ worker[w].token = job[i].token

Holder(i) ==
    IF \E w \in Workers : Holds(w, i)
    THEN CHOOSE w \in Workers : Holds(w, i)
    ELSE Nobody

Work == INSTANCE LeasedWork WITH
    Items  <- Imports,
    state  <- [i \in Imports |-> ItemState(i)],
    holder <- [i \in Imports |-> Holder(i)],
    sealed <- {i \in Imports : RowLocked(i)},
    spent  <- [i \in Imports |-> job[i].attemptCount],
    budget <- [i \in Imports |-> job[i].maxAttempts]

\* Every behaviour of the queue is one of LeasedWork: whatever the clocks, stale
\* tokens and open transactions, a job has one holder at a time, only the holder
\* finishes it, a publication is never displaced, and each claim costs an attempt.
ImplementsLeasedWork == Work!AbsSpec
=============================================================================
