------------------------------ MODULE PlainJobs ------------------------------
(***************************************************************************)
(* The four processors that are not SAP's: payment-provider e-mails, the   *)
(* general ledger, the ICG ingestion and the silver layer.  They share one *)
(* skeleton and differ in when they look for a cancellation, in what an    *)
(* error does to the session, and in what they keep outside the job: the   *)
(* ingestion mirrors its items and their run in analytics.ingestion_items  *)
(* and analytics.ingestion_runs.                                           *)
(*                                                                         *)
(* History variables: acted are the items whose work took effect, runs     *)
(* counts how often the work of an item was executed.                      *)
(***************************************************************************)
EXTENDS JobEngine

CONSTANT Kinds      \* the processors a behaviour may be about

VARIABLES
    kind,           \* the processor of this job
    acted,
    runs,
    mirror,         \* AnalyticsIngestionItem.status
    run,            \* AnalyticsIngestionRun.status
    crashed

outside == <<kind, acted, runs, mirror, run>>
vars == <<engineVars, outside, crashed>>

PlainAssumption == Kinds \subseteq {"email", "ledger", "ingestion", "silver"}

Ingests == kind = "ingestion"

\* The job row the worker would look at: read again when it was expired.
KnownJob(w) == IF ses[w].job.status = "EXPIRED" THEN job ELSE ses[w].job

\* _mark_ingestion_item runs in the transaction that changes the items.
MarkIngestionItems_NoError(S, s) ==
    mirror' = IF Ingests /\ s # "FAILED"
              THEN [i \in Items |-> IF i \in S THEN s ELSE mirror[i]] ELSE mirror
MarkIngestionItems(S, s) ==
    mirror' = IF Ingests THEN [i \in Items |-> IF i \in S THEN s ELSE mirror[i]] ELSE mirror

-----------------------------------------------------------------------------
(* process                                                                 *)

\* Only the e-mail processor claims the batch before it looks for a
\* cancellation.
Receive(w) ==
    /\ ses[w].pc = "idle"
    /\ \E m \in queue :
         /\ queue' = queue \ {m}
         /\ IF StaleTask(m) \/ batch[m.batch].status \in TerminalBatch
            THEN UNCHANGED ses
            ELSE LET stop == kind # "email" /\ CancelSeen(job)
                 IN  Become(w, Loaded([Idle(IF stop THEN "cancelPending" ELSE "claim")
                                         EXCEPT !.msg = m,
                                                !.out = IF stop THEN "early" ELSE "none"],
                                      job))
    /\ UNCHANGED <<dbVars, revoked, nextTask, budget, outside>>

Claim(w) ==
    /\ ses[w].pc = "claim"
    /\ LET b == ses[w].msg.batch
       IN  IF ~StaleTask(ses[w].msg) /\ batch[b].status \in Claimable
           THEN /\ batch' = [batch EXCEPT ![b].status = "RUNNING"]
                /\ job' = [job EXCEPT !.status = ClaimedStatus(@)]
                /\ Goto(w, "claimed")
           ELSE /\ Goto(w, "ack")
                /\ UNCHANGED <<job, batch>>
    /\ UNCHANGED <<item, brokerVars, budget, outside>>

StartBatch(w) ==
    /\ ses[w].pc = "claimed"
    /\ Become(w, [Loaded(ses[w], job) EXCEPT
                   !.pc = IF kind = "email" /\ CancelSeen(job)
                          THEN "cancelPending" ELSE "loop"])
    /\ UNCHANGED <<dbVars, brokerVars, budget, outside>>

\* The items the loop still works on.
Waiting_Interrupted(w) == Mine(w, "PENDING") \cup Mine(w, "RUNNING")
Waiting(w) == Mine(w, "PENDING")

CheckCancel(w) ==
    /\ ses[w].pc = "loop"
    /\ Waiting(w) # {}
    /\ LET row == [KnownJob(w) EXCEPT !.status = job.status]
       IN  Become(w, [ses[w] EXCEPT
             !.job = row,
             !.pc = IF CancelSeen(row) THEN "cancelPending" ELSE "start"])
    /\ UNCHANGED <<dbVars, brokerVars, budget, outside>>

StartItem(w) ==
    /\ ses[w].pc = "start"
    /\ \E i \in Waiting(w) :
         /\ item' = SetItems({i}, "RUNNING")
         /\ MarkIngestionItems({i}, "RUNNING")
         /\ Become(w, [ses[w] EXCEPT !.pc = "call", !.cur = i,
                                      !.item = Remember(w, {i}, "RUNNING")])
    /\ UNCHANGED <<job, batch, brokerVars, budget, kind, acted, runs, run>>

\* The work of the item: a mail and its archive, a ledger range, a Parquet
\* partition, a silver day.  Any exception ends it, the soft time limit too,
\* and it may strike after the work took effect.  All but the e-mail processor
\* roll back after it, which expires the session: what they look at next is
\* read again.
Execute(w) ==
    /\ ses[w].pc = "call"
    /\ LET i == ses[w].cur
       IN  /\ \E o \in {"ok", "failed"} :
                /\ acted' \in {acted \cup {i}} \cup (IF o = "ok" THEN {} ELSE {acted})
                /\ LET seen == IF o = "failed" /\ kind # "email"
                               THEN Loaded(ses[w], NoRow) ELSE ses[w]
                   IN  Become(w, [seen EXCEPT !.pc = "record", !.out = o])
           /\ runs' = [runs EXCEPT ![i] = @ + 1]
    /\ UNCHANGED <<dbVars, brokerVars, budget, kind, mirror, run>>

Verdict(o) == IF o = "ok" THEN "SUCCEEDED" ELSE "FAILED"

RecordItem(w) ==
    /\ ses[w].pc = "record"
    /\ LET i == ses[w].cur
           v == Verdict(ses[w].out)
       IN  /\ item' = SetItems({i}, v)
           /\ MarkIngestionItems({i}, v)
           /\ job' = [job EXCEPT !.proc = @ + 1,
                                 !.succ = IF v = "SUCCEEDED" THEN @ + 1 ELSE @,
                                 !.fail = IF v = "FAILED" THEN @ + 1 ELSE @]
           /\ Become(w, [ses[w] EXCEPT !.pc = "loop", !.cur = None, !.out = "none",
                                        !.item = Remember(w, {i}, v)])
    /\ UNCHANGED <<batch, brokerVars, budget, kind, acted, runs, run>>

\* The loop is over: the last status read decides how the batch ends.
FinishBatch(w) ==
    /\ ses[w].pc = "loop"
    /\ Waiting(w) = {}
    /\ IF CancelSeen(KnownJob(w))
       THEN /\ Goto(w, "cancelPending")
            /\ UNCHANGED batch
       ELSE /\ SetBatchStatus(w, BatchOutcome(w))
            /\ Become(w, [ses[w] EXCEPT !.pc = "count", !.out = "settled"])
    /\ UNCHANGED <<job, item, brokerVars, budget, outside>>

CancelPending(w) ==
    /\ ses[w].pc = "cancelPending"
    /\ item' = SetItems(Mine(w, "PENDING"), "CANCELLED")
    /\ MarkIngestionItems(Mine(w, "PENDING"), "CANCELLED")
    /\ SetBatchStatus(w, "CANCELLED")
    /\ Become(w, [ses[w] EXCEPT
         !.pc = "count",
         !.item = Remember(w, Mine(w, "PENDING"), "CANCELLED"),
         !.out = IF @ = "early" THEN "none" ELSE "settled"])
    /\ UNCHANGED <<job, brokerVars, budget, kind, acted, runs, run>>

-----------------------------------------------------------------------------
(* The Celery tasks: an error outside an item, the soft time limit.        *)

\* The e-mail task retries; the others, and its last attempt, mark the batch.
AbortTask(w) ==
    /\ ses[w].pc \in {"loop", "start", "record"}
    /\ Spend("abort")
    /\ \/ Goto(w, "failing")
       \/ /\ kind = "email"
          /\ ses[w].msg.tries < MaxRetries
          /\ Goto(w, "republish")
    /\ UNCHANGED <<dbVars, brokerVars, outside>>

Republish(w) ==
    /\ ses[w].pc = "republish"
    /\ queue' = queue \cup {[ses[w].msg EXCEPT !.tries = @ + 1]}
    /\ Become(w, [ses[w] EXCEPT !.pc = "ack", !.cur = None, !.out = "none"])
    /\ UNCHANGED <<dbVars, revoked, nextTask, budget, outside>>

AfterFailure == "settled"

\* mark_failed: no rollback before it, so its commit also carries the verdict
\* of an item that was about to be recorded.
FailBatch(w) ==
    /\ ses[w].pc = "failing"
    /\ LET decided == IF ses[w].out \in {"ok", "failed"} THEN {ses[w].cur} ELSE {}
           lost == Unfinished(w) \ decided
           v == Verdict(ses[w].out)
       IN  /\ item' = [i \in Items |-> IF i \in decided THEN v
                                       ELSE IF i \in lost THEN "FAILED" ELSE item[i]]
           /\ mirror' = IF ~Ingests THEN mirror
                        ELSE [i \in Items |-> IF i \in decided THEN v
                                              ELSE IF i \in lost THEN "FAILED" ELSE mirror[i]]
    /\ SetBatchStatus(w, "FAILED")
    /\ Become(w, [ses[w] EXCEPT !.pc = "count", !.cur = None, !.out = AfterFailure])
    /\ UNCHANGED <<job, brokerVars, budget, kind, acted, runs, run>>

RunVerdict(statuses) ==
    IF {"FAILED", "SUCCEEDED"} \subseteq statuses THEN "COMPLETED_WITH_ERRORS"
    ELSE IF "FAILED" \in statuses THEN "FAILED"
    ELSE IF "CANCELLED" \in statuses THEN "CANCELLED"
    ELSE "COMPLETED"

Statuses == {mirror[i] : i \in Items}

\* _refresh_batch_runs, after refresh_progress has committed.
RefreshRun(w) ==
    /\ ses[w].pc = "ack"
    /\ ses[w].out = "settled"
    /\ run' = IF Ingests /\ Statuses \subseteq TerminalItem THEN RunVerdict(Statuses) ELSE run
    /\ Become(w, [ses[w] EXCEPT !.out = "none"])
    /\ UNCHANGED <<dbVars, brokerVars, budget, kind, acted, runs, mirror>>

Finish(w) == ses[w].out = "none" /\ Ack(w)

-----------------------------------------------------------------------------
WorkerProgress(w) ==
    \/ Receive(w) \/ Claim(w) \/ StartBatch(w) \/ CheckCancel(w) \/ StartItem(w)
    \/ Execute(w) \/ RecordItem(w) \/ FinishBatch(w) \/ CancelPending(w)
    \/ Republish(w) \/ FailBatch(w) \/ RefreshRun(w)
    \/ (RefreshProgress(w) \/ Finish(w)) /\ UNCHANGED outside

WorkerFault(w) == \/ AbortTask(w) /\ UNCHANGED crashed
                  \/ Discard(w) /\ UNCHANGED <<outside, crashed>>
                  \/ WorkerCrash(w) /\ crashed' = TRUE /\ UNCHANGED outside

Init ==
    /\ EngineInit
    /\ kind \in Kinds
    /\ acted = {}
    /\ runs = [i \in Items |-> 0]
    /\ mirror = [i \in Items |-> "PENDING"]
    /\ run = "CREATED"
    /\ crashed = FALSE

Next == \/ \E w \in Workers : WorkerProgress(w) /\ UNCHANGED crashed
        \/ \E w \in Workers : WorkerFault(w)
        \/ \E r \in Requests : RequestNext(r) /\ UNCHANGED <<outside, crashed>>

Spec == Init /\ [][Next]_vars

-----------------------------------------------------------------------------
RunStatus == {"CREATED", "COMPLETED", "COMPLETED_WITH_ERRORS", "FAILED", "CANCELLED"}

\* Every row is well formed, and a worker that executes an item has one in hand.
TypeOK ==
    /\ job \in JobRow
    /\ batch \in [Batches -> BatchRow]
    /\ item \in [Items -> ItemStatus]
    /\ mirror \in [Items -> ItemStatus]
    /\ run \in RunStatus
    /\ acted \subseteq Items
    /\ runs \in [Items -> Nat]
    /\ \A w \in Workers : ses[w].pc \in {"call", "record"} => ses[w].cur \in Items

\* An item recorded SUCCEEDED did its work (_process_item, mark_failed).
NoPhantomSuccess == \A i \in Items : item[i] = "SUCCEEDED" => i \in acted

\* The work of an item is executed once: no redelivery after a crash and no
\* retry of the task repeats it, so that nobody gets a mail twice (the PENDING
\* filter of the item loop and the commit of RUNNING before the work).
NeverRepeated == \A i \in Items : runs[i] <= 1

\* The two together: what is recorded was done, and was done once.
WorkIsDoneOnce == NoPhantomSuccess /\ NeverRepeated

\* With nothing left to run, the ingestion's own items say what the items of
\* the job say, unless the job was cancelled (_mark_ingestion_item).
MirrorFollowsItems ==
    Resting /\ Ingests /\ ~job.cancelReq
        => \A i \in Items : item[i] \in TerminalItem => mirror[i] = item[i]

\* With nothing left to run, a run all of whose items are decided carries
\* their verdict, unless the job was cancelled or a worker died (_refresh_run).
RunFollowsItems ==
    Resting /\ Ingests /\ ~job.cancelReq /\ ~crashed /\ Statuses \subseteq TerminalItem
        => run = RunVerdict(Statuses)

\* A batch reported COMPLETED or COMPLETED_WITH_ERRORS leaves no item waiting
\* or in doubt.
FinishedBatchSettled ==
    \A i \in Items :
        batch[BatchOf[i]].status \in {"COMPLETED", "COMPLETED_WITH_ERRORS"}
            => item[i] \in TerminalItem

\* With nothing left to run and no worker lost, a job all of whose batches are
\* finished is itself finished: whoever finishes the last batch refreshes it.
LastBatchClosesJob ==
    Resting /\ ~crashed /\ (\A b \in Batches : batch[b].status \in TerminalBatch)
        => job.status \in TerminalJob
=============================================================================
