------------------------------- MODULE SapJobs -------------------------------
(***************************************************************************)
(* The Celery task jobs.sap.process_batch and the processor it runs,       *)
(* SapJobProcessor, consuming the batches of the job engine.  An item is   *)
(* one document action or reconciliation posted to SAP Service Layer; SAP  *)
(* itself is the nondeterministic outcome of SapCall.                      *)
(*                                                                         *)
(* History variables: effected are the items SAP did act on, calls counts  *)
(* the times a worker called SAP for an item, drops the calls that ended   *)
(* in a connection error, late the calls each worker made after a          *)
(* cancellation was recorded.                                              *)
(***************************************************************************)
EXTENDS JobEngine

VARIABLES effected, calls, drops, late

history == <<effected, calls, drops, late>>
vars == <<engineVars, history>>

WorkerPC == {"idle", "loaded", "claim", "claimed", "loop", "start", "call",
             "record", "connLost", "retrying", "republish", "failing",
             "failBatch", "cancelPending", "authFailed", "ack"}
Outcome == {"none", "started", "notStarted", "ok", "rejected", "lost", "auth"}

-----------------------------------------------------------------------------
(* SapJobProcessor.process                                                 *)

Receive(w) ==
    /\ ses[w].pc = "idle"
    /\ \E m \in queue :
         /\ queue' = queue \ {m}
         /\ IF StaleTask(m) \/ batch[m.batch].status \in TerminalBatch
            THEN UNCHANGED ses
            ELSE Become(w, Loaded([Idle("loaded") EXCEPT !.msg = m], job))
    /\ UNCHANGED <<dbVars, revoked, nextTask, budget, history>>

UncertainVerdict_Replay == "PENDING"
UncertainVerdict == "FAILED"

\* _mark_uncertain_items: a RUNNING item found on arrival is never replayed.
MarkUncertain(w) ==
    /\ ses[w].pc = "loaded"
    /\ LET U == Mine(w, "RUNNING")
       IN  /\ item' = SetItems(U, UncertainVerdict)
           /\ Become(w, [ses[w] EXCEPT
                !.item = Remember(w, U, UncertainVerdict),
                !.pc = IF CancelSeen(ses[w].job) THEN "cancelPending" ELSE "claim"])
    /\ UNCHANGED <<job, batch, brokerVars, budget, history>>

\* Two conditional UPDATEs in one transaction.
Claim(w) ==
    /\ ses[w].pc = "claim"
    /\ LET b == ses[w].msg.batch
       IN  IF ~StaleTask(ses[w].msg) /\ batch[b].status \in Claimable
           THEN /\ batch' = [batch EXCEPT ![b].status = "RUNNING"]
                /\ job' = [job EXCEPT !.status = ClaimedStatus(@)]
                /\ Become(w, [ses[w] EXCEPT
                     !.pc = "claimed",
                     !.out = IF CancelSeen(job) THEN "notStarted" ELSE "started"])
           ELSE /\ Goto(w, "ack")
                /\ UNCHANGED <<job, batch>>
    /\ UNCHANGED <<item, brokerVars, budget, history>>

StartBatch(w) ==
    /\ ses[w].pc = "claimed"
    /\ Become(w, [Loaded(ses[w], job) EXCEPT
                   !.pc = IF ses[w].out = "notStarted" \/ CancelSeen(job)
                          THEN "cancelPending" ELSE "loop",
                   !.out = "none"])
    /\ UNCHANGED <<dbVars, brokerVars, budget, history>>

\* Before each item only the status column of the job is read again.
StatusBeforeItem_Cached(w) == ses[w].job.status
StatusBeforeItem(w) == job.status

CheckCancel(w) ==
    /\ ses[w].pc = "loop"
    /\ Mine(w, "PENDING") # {}
    /\ LET row == [ses[w].job EXCEPT !.status = StatusBeforeItem(w)]
       IN  Become(w, [ses[w] EXCEPT
             !.job = row,
             !.pc = IF CancelSeen(row) THEN "cancelPending" ELSE "start"])
    /\ UNCHANGED <<dbVars, brokerVars, budget, history>>

StartItem(w) ==
    /\ ses[w].pc = "start"
    /\ \E i \in Mine(w, "PENDING") :
         /\ item' = SetItems({i}, "RUNNING")
         /\ Become(w, [ses[w] EXCEPT !.pc = "call", !.cur = i,
                                      !.item = Remember(w, {i}, "RUNNING")])
    /\ UNCHANGED <<job, batch, brokerVars, budget, history>>

\* handler.execute.  The client resends a request whose answer was lost, so
\* SAP may have acted whatever the outcome is; an "ok" says it did (SapClient).
SapCall(w) ==
    /\ ses[w].pc = "call"
    /\ LET i == ses[w].cur
       IN  \E o \in {"ok", "rejected", "lost", "auth"} :
             /\ IF o = "lost" THEN Spend("conn") ELSE UNCHANGED budget
             /\ effected' \in
                  {effected \cup {i}} \cup (IF o = "ok" THEN {} ELSE {effected})
             /\ calls' = [calls EXCEPT ![i] = @ + 1]
             /\ drops' = IF o = "lost" THEN [drops EXCEPT ![i] = @ + 1] ELSE drops
             /\ late' = IF job.cancelReq THEN [late EXCEPT ![w] = @ + 1] ELSE late
             /\ Become(w, [ses[w] EXCEPT !.pc = "record", !.out = o])
    /\ UNCHANGED <<dbVars, brokerVars>>

\* The result of a call is committed at once; the job counters are
\* incremented in SQL, so the session's copy of the job stays behind.
RecordResult(w, s) ==
    LET i == ses[w].cur
    IN  /\ item' = SetItems({i}, s)
        /\ job' = [job EXCEPT !.proc = @ + 1,
                              !.succ = IF s = "SUCCEEDED" THEN @ + 1 ELSE @,
                              !.fail = IF s = "FAILED" THEN @ + 1 ELSE @]
        /\ Become(w, [ses[w] EXCEPT !.pc = "loop", !.cur = None, !.out = "none",
                                     !.item = Remember(w, {i}, s)])

ItemVerdict_Swallow(o) == "SUCCEEDED"
ItemVerdict(o) == IF o = "ok" THEN "SUCCEEDED" ELSE "FAILED"

ItemDone(w) ==
    /\ ses[w].pc = "record"
    /\ ses[w].out \in {"ok", "rejected"}
    /\ RecordResult(w, ItemVerdict(ses[w].out))
    /\ UNCHANGED <<batch, brokerVars, budget, history>>

\* SAPConnectionError: the item goes back to PENDING before the task reacts.
ItemLost(w) ==
    /\ ses[w].pc = "record"
    /\ ses[w].out = "lost"
    /\ item' = SetItems({ses[w].cur}, "PENDING")
    /\ Become(w, [ses[w] EXCEPT !.pc = "connLost", !.cur = None, !.out = "none"])
    /\ UNCHANGED <<job, batch, brokerVars, budget, history>>

AuthError(w) ==
    /\ ses[w].pc = "record"
    /\ ses[w].out = "auth"
    /\ Become(w, [ses[w] EXCEPT !.pc = "authFailed", !.cur = None, !.out = "none"])
    /\ UNCHANGED <<dbVars, brokerVars, budget, history>>

\* _fail_pending, called for an authentication error or by mark_failed.
FailPending(w) ==
    /\ \/ ses[w].pc = "authFailed"
       \/ /\ ses[w].pc = "failing"
          /\ ses[w].batch[ses[w].msg.batch].status
               \notin {"COMPLETED", "COMPLETED_WITH_ERRORS", "CANCELLED"}
    /\ item' = SetItems(Unfinished(w), "FAILED")
    /\ Become(w, [ses[w] EXCEPT
         !.item = Remember(w, Unfinished(w), "FAILED"),
         !.pc = IF @ = "authFailed" THEN "loop" ELSE "failBatch"])
    /\ UNCHANGED <<job, batch, brokerVars, budget, history>>

FinishBatch(w) ==
    /\ ses[w].pc = "loop"
    /\ Mine(w, "PENDING") = {}
    /\ SetBatchStatus(w, BatchOutcome(w))
    /\ Goto(w, "count")
    /\ UNCHANGED <<job, item, brokerVars, budget, history>>

CancelPending(w) ==
    /\ ses[w].pc = "cancelPending"
    /\ item' = SetItems(Mine(w, "PENDING"), "CANCELLED")
    /\ SetBatchStatus(w, "CANCELLED")
    /\ Become(w, [ses[w] EXCEPT !.pc = "count",
                                 !.item = Remember(w, Mine(w, "PENDING"), "CANCELLED")])
    /\ UNCHANGED <<job, brokerVars, budget, history>>

-----------------------------------------------------------------------------
(* process_sap_batch: how the task reacts to what process raised.          *)

\* rollback() has expired the session: batch and items are read afresh.
ConnectionLost(w) ==
    /\ ses[w].pc = "connLost"
    /\ Become(w, [Loaded(ses[w], NoRow) EXCEPT
                   !.pc = IF ses[w].msg.tries >= MaxRetries THEN "failing" ELSE "retrying"])
    /\ UNCHANGED <<dbVars, brokerVars, budget, history>>

Requeued(w) == Mine(w, "RUNNING")

MarkRetrying(w) ==
    /\ ses[w].pc = "retrying"
    /\ item' = SetItems(Requeued(w), "PENDING")
    /\ SetBatchStatus(w, "RETRYING")
    /\ Goto(w, "republish")
    /\ UNCHANGED <<job, brokerVars, budget, history>>

\* self.retry publishes under the same task id; the delivery is acknowledged
\* only afterwards.
Republish_NoRaise(w) ==
    /\ ses[w].pc = "republish"
    /\ queue' = queue \cup {[ses[w].msg EXCEPT !.tries = @ + 1]}
    /\ Goto(w, "loop")
    /\ UNCHANGED <<dbVars, revoked, nextTask, budget, history>>

Republish(w) ==
    /\ ses[w].pc = "republish"
    /\ queue' = queue \cup {[ses[w].msg EXCEPT !.tries = @ + 1]}
    /\ Goto(w, "ack")
    /\ UNCHANGED <<dbVars, revoked, nextTask, budget, history>>

\* The soft time limit or an unexpected exception; no rollback, so mark_failed
\* works on the rows the session already has.
AbortTask(w) ==
    /\ ses[w].pc \in {"loop", "call", "record"}
    /\ Spend("abort")
    /\ Become(w, [ses[w] EXCEPT !.pc = "failing", !.cur = None, !.out = "none"])
    /\ UNCHANGED <<dbVars, brokerVars, history>>

MarkFailedSkipped(w) ==
    /\ ses[w].pc = "failing"
    /\ ses[w].batch[ses[w].msg.batch].status
         \in {"COMPLETED", "COMPLETED_WITH_ERRORS", "CANCELLED"}
    /\ Goto(w, "ack")
    /\ UNCHANGED <<dbVars, brokerVars, budget, history>>

FailBatch_NoRefresh(w) ==
    /\ ses[w].pc = "failBatch"
    /\ SetBatchStatus(w, "FAILED")
    /\ Goto(w, "ack")
    /\ UNCHANGED <<job, item, brokerVars, budget, history>>

FailBatch(w) ==
    /\ ses[w].pc = "failBatch"
    /\ SetBatchStatus(w, "FAILED")
    /\ Goto(w, "count")
    /\ UNCHANGED <<job, item, brokerVars, budget, history>>

-----------------------------------------------------------------------------
WorkerProgress(w) ==
    \/ Receive(w) \/ MarkUncertain(w) \/ Claim(w) \/ StartBatch(w)
    \/ CheckCancel(w) \/ StartItem(w) \/ SapCall(w) \/ ItemDone(w)
    \/ ItemLost(w) \/ AuthError(w) \/ FailPending(w) \/ FinishBatch(w)
    \/ CancelPending(w) \/ ConnectionLost(w) \/ MarkRetrying(w)
    \/ Republish(w) \/ MarkFailedSkipped(w) \/ FailBatch(w)
    \/ (RefreshProgress(w) \/ Ack(w)) /\ UNCHANGED history

WorkerFault(w) == AbortTask(w) \/ ((WorkerCrash(w) \/ Discard(w)) /\ UNCHANGED history)

Init ==
    /\ EngineInit
    /\ effected = {}
    /\ calls = [i \in Items |-> 0]
    /\ drops = [i \in Items |-> 0]
    /\ late = [w \in Workers |-> 0]

Next == \/ \E w \in Workers : WorkerProgress(w) \/ WorkerFault(w)
        \/ \E r \in Requests : RequestNext(r) /\ UNCHANGED history

Spec == Init /\ [][Next]_vars

\* Idle workers take messages, started tasks and requests run to their end;
\* no user is obliged to cancel or retry, and no fault is obliged to happen.
Fairness == /\ \A w \in Workers : WF_vars(WorkerProgress(w))
            /\ \A r \in Requests : WF_vars(RequestProgress(r) /\ UNCHANGED history)

FairSpec == Spec /\ Fairness
-----------------------------------------------------------------------------
(* Safety.                                                                 *)

SessionRow ==
    [pc : WorkerPC \cup RequestPC \cup RefreshPC,
     job : JobRow,
     new : JobRow,
     batch : [Batches -> [status : BatchStatus \cup {"EXPIRED"}, task : Nat]],
     item : [Items -> ItemStatus \cup {"EXPIRED"}],
     msg : Message,
     todo : SUBSET Batches,
     cur : Items \cup {None},
     out : Outcome]

\* An item is in hand from the commit of RUNNING to the commit of its result.
Session == {s \in SessionRow : s.pc \in {"call", "record"} => s.cur \in Items}

\* Every row, message and session is well formed: the statuses are those the
\* columns admit, and a worker that calls SAP has an item of the job in hand.
TypeOK ==
    /\ job \in JobRow
    /\ batch \in [Batches -> BatchRow]
    /\ item \in [Items -> ItemStatus]
    /\ queue \subseteq Message
    /\ revoked \subseteq Nat
    /\ nextTask \in Nat
    /\ budget \in [Faults -> Nat]
    /\ ses \in [Processes -> Session]
    /\ effected \subseteq Items
    /\ calls \in [Items -> Nat]
    /\ drops \in [Items -> Nat]
    /\ late \in [Workers -> Nat]

\* An item recorded SUCCEEDED was acted on by SAP, whatever crashed, was
\* redelivered, retried or aborted in between (_process_item, mark_failed).
NoPhantomSuccess == \A i \in Items : item[i] = "SUCCEEDED" => i \in effected

\* SAP is called again for an item only after a call that ended in a connection
\* error: redelivering a batch never replays an item that was under way
\* (_mark_uncertain_items, the PENDING filter of the item loop).
NoBlindReplay == \A i \in Items : calls[i] <= 1 + drops[i]

Executing == {"loop", "start", "call", "record"}

\* A batch is executed by one worker at a time (the task id check, the claim
\* and the raise of self.retry that ends the delivery being retried).
SoleExecutor ==
    \A v, w \in Workers :
        v # w /\ ses[v].pc \in Executing /\ ses[w].pc \in Executing
            => ses[v].msg.batch # ses[w].msg.batch

\* A batch reported COMPLETED or COMPLETED_WITH_ERRORS leaves no item waiting
\* or in doubt (_finish_batch counts what the loop and _fail_pending left).
FinishedBatchSettled ==
    \A i \in Items :
        batch[BatchOf[i]].status \in {"COMPLETED", "COMPLETED_WITH_ERRORS"}
            => item[i] \in TerminalItem

\* Once a cancellation is recorded each worker makes at most the one SAP call
\* it had already decided on: the status is read again before every item.  It is
\* stated for a job of one batch; with two, the publication of the second one can
\* fail after the cancellation and write DISPATCH_FAILED over it.
CancelBoundsCalls == \A w \in Workers : late[w] <= 1

\* With nothing left to run, a job that finished some batch shows the counters
\* of its items and batches: the stale session writes of refresh_progress and
\* the SQL increments of the items have cancelled out.
ProgressExact == Resting /\ job.fin > 0 => CountersAgree

\* With nothing left to run, the final status of the job tells the truth about
\* its items (refresh_progress judges from counters it has just assigned).
VerdictTruthful ==
    Resting =>
      CASE job.status = "COMPLETED" -> \A i \in Items : item[i] = "SUCCEEDED"
        [] job.status = "FAILED" -> ItemCount("SUCCEEDED") = 0
        [] job.status = "COMPLETED_WITH_ERRORS" ->
              ItemCount("SUCCEEDED") > 0 /\ ItemCount("FAILED") > 0
        [] OTHER -> TRUE

\* With nothing left to run, a job all of whose batches are finished is itself
\* finished: whoever finishes the last batch refreshes the job.
LastBatchClosesJob ==
    Resting /\ (\A b \in Batches : batch[b].status \in TerminalBatch)
        => job.status \in TerminalJob

\* With nothing left to run, a batch that was never published is visible as
\* DISPATCH_FAILED on the job, so that it can be retried, even though the
\* workers have moved the job on meanwhile (process, _dispatch).
PendingBatchReported ==
    Resting /\ (\E b \in Batches : batch[b].status = "PENDING")
        => job.status = "DISPATCH_FAILED"

\* With nothing left to run, a cancelled job keeps no item waiting: cancel_job
\* cancels the idle batches and the worker of a running one its remainder.
CancelSweepsItems ==
    Resting /\ job.cancelReq => \A i \in Items : item[i] # "PENDING"

\* ... and is closed, whether or not its tasks were revoked in the broker
\* before a worker took them (cancel_job refreshes the job, so does the worker).
CancelClosesJob == Resting /\ job.cancelReq => job.status \in TerminalJob

\* What a user reads once the queue is empty: whether a job whose batches are
\* over is over, and whether a batch nobody will come for is reported.
JobTellsItsBatches == LastBatchClosesJob /\ PendingBatchReported

\* ... the counters and the verdict, which refresh_progress takes from two
\* queries and a stale copy of the job.
ReportTruthful == ProgressExact /\ VerdictTruthful

\* ... and the end of a cancellation, whatever was running, queued or being
\* dispatched or retried when it came.
CancelSettles == CancelSweepsItems /\ CancelClosesJob

-----------------------------------------------------------------------------
(* Refinement, action properties and liveness.                             *)

Contract == INSTANCE ItemContract WITH item <- item, effected <- effected

\* The engine and its workers keep the contract of an item: SAP acts only
\* inside the RUNNING window and recorded results are final.
ImplementsContract == Contract!Spec

\* A recorded result is never changed by a later step.
TerminalItemsStay ==
    [][\A i \in Items : item[i] \in TerminalItem => item'[i] = item[i]]_item

\* A finished job is not reopened by a step that read it before it finished.
TerminalJobStays ==
    [][job.status \in TerminalJob => job'.status \in TerminalJob]_job

\* Every job reaches a final status and keeps one.
JobCloses == <>[](job.status \in TerminalJob)
=============================================================================
