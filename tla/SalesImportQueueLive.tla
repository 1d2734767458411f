------------------------ MODULE SalesImportQueueLive ------------------------
(***************************************************************************)
(* SalesImportQueue with time that never runs out, and with the fairness   *)
(* under which every upload is settled.                                    *)
(*                                                                         *)
(* The clock stands still at MaxClock and time passes by moving every      *)
(* stored time one unit into the past.  A lease or a waiting time that     *)
(* reaches 0 has expired for every transaction, so 0 is kept: the queue    *)
(* only compares times.  MaxClock bounds how long a transaction that read  *)
(* the clock may take until its body runs: a claim skips locked rows, and  *)
(* a worker's call only waits for short transactions on its own job.       *)
(***************************************************************************)
EXTENDS SalesImportQueue

CONSTANT Reliable    \* the workers their supervisor starts again and again

ASSUME ReliableAssumption == Reliable \subseteq Workers

Earlier(time) == MaxOf(time - 1, 0)

\* Workers that read the clock and will still use what they read.
InTransaction(w) == worker[w].pc \in {"claiming", "swept", "begun"}

Elapse ==
    /\ \A w \in Workers : InTransaction(w) => worker[w].now > 0
    /\ job' = [i \in Imports |->
                 [job[i] EXCEPT
                    !.availableAt = Earlier(job[i].availableAt),
                    !.leaseExpiresAt = Earlier(job[i].leaseExpiresAt)]]
    /\ worker' = [w \in Workers |->
                    [worker[w] EXCEPT !.now = Earlier(worker[w].now)]]
    /\ UNCHANGED <<clock, intake, attempt>>

\* What ends an attempt: an answer, or finding that the claim is lost.
EndAttempt(w) ==
    \/ ClaimLost(w)
    \/ ScheduleRetry(w)
    \/ \E status \in DOMAIN CompletedFrom : CompleteJob(w, status)
    \/ CompleteStoredObjectFailure(w)
    \/ LockForPublication(w)

\* A publication commits, is undone, or its connection breaks.
EndPublication(w) ==
    \/ FinishPublished(w)
    \/ \E conflict \in BOOLEAN : FinishInvalid(w, conflict)
    \/ \E conflict \in BOOLEAN : FinishConflicting(w, conflict)
    \/ worker[w].pc = "locked" /\ Crash(w)

LiveInit ==
    /\ clock = MaxClock
    /\ intake = [i \in Imports |-> "absent"]
    /\ job = [i \in Imports |-> NoJob]
    /\ attempt = [t \in Tokens |-> NoAttempt]
    /\ worker = [w \in Workers |-> Idle]

\* The reconciler is run again and again and decides every upload.
ReconcilerRuns ==
    \A i \in Imports : WF_vars(MarkReceived(i) \/ MarkFailed(i))

\* process_sales_imports is run again and again on each reliable worker, and
\* does not die between its two claiming transactions every single time.
ReliableWorkersClaim ==
    \A w \in Reliable :
        /\ WF_vars(WorkerStep(w))
        /\ SF_vars(MarkExhaustedBatch(w))
        /\ SF_vars(ClaimJob(w))

\* One process_claim makes finitely many calls: its file, its rows and the wait
\* for the source lock are bounded.
AttemptsEnd == \A w \in Workers : SF_vars(EndAttempt(w)) /\ SF_vars(EndPublication(w))

\* A call that read the clock runs or dies: only between calls a worker hangs.
CallsRun == \A w \in Workers : WF_vars(InTransaction(w) /\ WorkerStep(w))

TimePasses == SF_vars(Elapse)

LiveSpec ==
    /\ LiveInit
    /\ [][Next \/ Elapse]_vars
    /\ ReconcilerRuns
    /\ ReliableWorkersClaim
    /\ AttemptsEnd
    /\ CallsRun
    /\ TimePasses

-----------------------------------------------------------------------------
\* Every upload whose intake was recorded is settled in the end: published,
\* rejected or failed, or parked because its format has no parser yet.  The
\* same holds for each job an operator sends back, although workers may hang
\* or die at any point of any attempt.
EveryImportSettles ==
    \A i \in Imports :
        job[i].status # "absent" ~>
            job[i].status \in TerminalStatuses \cup {"awaiting_parser"}
=============================================================================
