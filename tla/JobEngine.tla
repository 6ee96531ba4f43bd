------------------------------ MODULE JobEngine ------------------------------
(***************************************************************************)
(* One job of the asynchronous engine: the rows of jobs.jobs,              *)
(* jobs.job_batches and jobs.job_items in PostgreSQL, the RabbitMQ queue   *)
(* that carries one message per batch, and the HTTP requests that dispatch,*)
(* cancel and retry the job.  The workers that consume the messages are    *)
(* modelled in the modules that extend this one.                           *)
(*                                                                         *)
(* Every process (request or worker) owns an ORM session.  The sessions    *)
(* are created with autoflush=False and expire_on_commit=False, so a row   *)
(* that was read once keeps its in-memory value, and a commit writes only  *)
(* the columns whose value differs from that in-memory value.  ses[p].job, *)
(* ses[p].batch and ses[p].item are the rows the session of p has loaded.  *)
(***************************************************************************)
EXTENDS Naturals, FiniteSets

CONSTANTS
    NumBatches,   \* the job has batches 1 .. NumBatches (JobBatch.sequence)
    Items,        \* its items
    BatchOf,      \* the batch of each item
    Workers,      \* Celery worker processes that may consume the queue
    Creator,      \* the request that created the job and dispatches it
    Cancellers,   \* requests POST /jobs/{id}/cancel
    Retriers,     \* requests POST /jobs/{id}/retry
    MaxRetries,   \* max_retries of the Celery task
    Budgets,      \* how often each fault may happen: one of these mixes
    None

\* A worker or the API process dies, SAP does not answer, a task hits its time
\* limit or an unexpected error, RabbitMQ refuses a message, a module is off.
Faults == {"crash", "request", "conn", "abort", "publish", "module"}

Batches == 1..NumBatches
Requests == {Creator} \cup Cancellers \cup Retriers
Processes == Requests \cup Workers

ASSUME EngineAssumption ==
    /\ NumBatches \in Nat \ {0}
    /\ IsFiniteSet(Items)
    /\ BatchOf \in [Items -> Batches]
    /\ \A b \in Batches : \E i \in Items : BatchOf[i] = b
    /\ MaxRetries \in Nat
    /\ Budgets \subseteq [Faults -> Nat]
    /\ None \notin Items
    /\ Creator \notin Cancellers \cup Retriers
    /\ Cancellers \cap Retriers = {}
    /\ Requests \cap Workers = {}

-----------------------------------------------------------------------------
(* Statuses and rows.                                                      *)

JobStatus == {"QUEUED", "DISPATCH_FAILED", "RUNNING", "CANCEL_REQUESTED",
              "CANCELLED", "COMPLETED", "COMPLETED_WITH_ERRORS", "FAILED"}
TerminalJob == {"CANCELLED", "COMPLETED", "COMPLETED_WITH_ERRORS", "FAILED"}

BatchStatus == {"PENDING", "QUEUED", "RUNNING", "RETRYING", "COMPLETED",
                "COMPLETED_WITH_ERRORS", "FAILED", "CANCELLED"}
TerminalBatch == {"COMPLETED", "COMPLETED_WITH_ERRORS", "FAILED", "CANCELLED"}

ItemStatus == {"PENDING", "RUNNING", "SUCCEEDED", "FAILED", "CANCELLED"}
TerminalItem == {"SUCCEEDED", "FAILED", "CANCELLED"}

\* "EXPIRED" marks a row a session has not loaded (or expired by rollback).
JobRow == [status : JobStatus \cup {"EXPIRED"}, cancelReq : BOOLEAN,
           succ : Nat, fail : Nat, canc : Nat, proc : Nat, fin : Nat]
BatchRow == [status : BatchStatus, task : Nat]
Message == [batch : Batches \cup {0}, task : Nat, tries : Nat]

NoTask == 0
NoBatchRow == [status |-> "EXPIRED", task |-> NoTask]
NoMsg == [batch |-> 0, task |-> NoTask, tries |-> 0]
NoRow == [status |-> "EXPIRED", cancelReq |-> FALSE,
          succ |-> 0, fail |-> 0, canc |-> 0, proc |-> 0, fin |-> 0]

RequestPC == {"idle", "dispatch", "mark", "publish", "dispatchFailed",
              "retry", "cancel", "revoke", "done"}
RefreshPC == {"count", "countBatches", "save"}

VARIABLES
    job,        \* the row of jobs.jobs
    batch,      \* the rows of jobs.job_batches
    item,       \* the status column of jobs.job_items
    queue,      \* messages RabbitMQ has ready for delivery
    revoked,    \* task ids the control channel asked the workers to drop
    nextTask,   \* source of fresh task ids (uuid4)
    budget,     \* faults that may still happen
    ses         \* the session and program counter of each process

dbVars == <<job, batch, item>>
brokerVars == <<queue, revoked, nextTask>>
engineVars == <<job, batch, item, queue, revoked, nextTask, budget, ses>>

-----------------------------------------------------------------------------
(* Sessions.                                                               *)

Idle(label) ==
    [pc |-> label, job |-> NoRow, new |-> NoRow,
     batch |-> [b \in Batches |-> NoBatchRow],
     item |-> [i \in Items |-> "EXPIRED"],
     msg |-> NoMsg, todo |-> {}, cur |-> None, out |-> "none"]

\* A column reaches the database only when the session believes it changes.
Column(db, loaded, new) == IF new = loaded THEN db ELSE new

FlushJob(loaded, new) ==
    [status    |-> Column(job.status, loaded.status, new.status),
     cancelReq |-> Column(job.cancelReq, loaded.cancelReq, new.cancelReq),
     succ      |-> Column(job.succ, loaded.succ, new.succ),
     fail      |-> Column(job.fail, loaded.fail, new.fail),
     canc      |-> Column(job.canc, loaded.canc, new.canc),
     proc      |-> Column(job.proc, loaded.proc, new.proc),
     fin       |-> Column(job.fin, loaded.fin, new.fin)]

\* The callers pick S among the items whose loaded status is not s.
SetItems(S, s) == [i \in Items |-> IF i \in S THEN s ELSE item[i]]

Become(p, s) == ses' = [ses EXCEPT ![p] = s]
Goto(p, label) == Become(p, [ses[p] EXCEPT !.pc = label])

Spend(f) == /\ budget[f] > 0
            /\ budget' = [budget EXCEPT ![f] = @ - 1]

-----------------------------------------------------------------------------
(* JobService.refresh_progress: two aggregate queries, each on its own     *)
(* snapshot, and one commit.                                               *)

ItemCount(s) == Cardinality({i \in Items : item[i] = s})

CountItems(p) ==
    /\ ses[p].pc = "count"
    /\ LET row == IF ses[p].job.status = "EXPIRED" THEN job ELSE ses[p].job
       IN  Become(p, [ses[p] EXCEPT
             !.pc = "countBatches",
             !.job = row,
             !.new = [row EXCEPT
                !.succ = ItemCount("SUCCEEDED"),
                !.fail = ItemCount("FAILED"),
                !.canc = ItemCount("CANCELLED"),
                !.proc = ItemCount("SUCCEEDED") + ItemCount("FAILED")
                         + ItemCount("CANCELLED")]])
    /\ UNCHANGED <<dbVars, brokerVars, budget>>

FinishedBatches_Early ==
    Cardinality({b \in Batches : batch[b].status \in TerminalBatch \cup {"RETRYING"}})
FinishedBatches == Cardinality({b \in Batches : batch[b].status \in TerminalBatch})

FinalStatus(row) ==
    IF row.cancelReq THEN "CANCELLED"
    ELSE IF row.fail > 0 /\ row.succ > 0 THEN "COMPLETED_WITH_ERRORS"
    ELSE IF row.fail > 0 THEN "FAILED"
    ELSE "COMPLETED"

CountBatches(p) ==
    /\ ses[p].pc = "countBatches"
    /\ LET new == [ses[p].new EXCEPT !.fin = FinishedBatches]
       IN  Become(p, [ses[p] EXCEPT
             !.pc = "save",
             !.new = IF new.fin = NumBatches
                        THEN [new EXCEPT !.status = FinalStatus(new)]
                        ELSE new])
    /\ UNCHANGED <<dbVars, brokerVars, budget>>

SaveProgress(p) ==
    /\ ses[p].pc = "save"
    /\ job' = FlushJob(ses[p].job, ses[p].new)
    /\ Goto(p, IF p \in Workers THEN "ack" ELSE "revoke")
    /\ UNCHANGED <<batch, item, brokerVars, budget>>

RefreshProgress(p) == CountItems(p) \/ CountBatches(p) \/ SaveProgress(p)

-----------------------------------------------------------------------------
(* workers/dispatcher.dispatch_job and JobService._dispatch.               *)

Dispatchable == {b \in Batches : batch[b].status \in {"PENDING", "RETRYING"}}

DispatchLoad(r) ==
    /\ ses[r].pc = "dispatch"
    /\ Become(r, [ses[r] EXCEPT
         !.todo = Dispatchable,
         !.pc = IF Dispatchable = {} THEN "done" ELSE "mark"])
    /\ UNCHANGED <<dbVars, brokerVars, budget>>

\* require_module finds the module switched off.
ModuleDisabled(r) ==
    /\ ses[r].pc = "dispatch"
    /\ Spend("module")
    /\ job' = [job EXCEPT !.status = "CANCELLED"]
    /\ Goto(r, "dispatchFailed")
    /\ UNCHANGED <<batch, item, brokerVars>>

MarkQueued(r) ==
    /\ ses[r].pc = "mark"
    /\ \E b \in ses[r].todo :
         /\ \A c \in ses[r].todo : b <= c
         /\ batch' = [batch EXCEPT ![b] = [status |-> "QUEUED", task |-> nextTask]]
         /\ Become(r, [ses[r] EXCEPT
              !.pc = "publish",
              !.todo = @ \ {b},
              !.msg = [batch |-> b, task |-> nextTask, tries |-> 0]])
    /\ nextTask' = nextTask + 1
    /\ UNCHANGED <<job, item, queue, revoked, budget>>

Publish(r) ==
    /\ ses[r].pc = "publish"
    /\ queue' = queue \cup {ses[r].msg}
    /\ Goto(r, IF ses[r].todo = {} THEN "done" ELSE "mark")
    /\ UNCHANGED <<dbVars, revoked, nextTask, budget>>

\* apply_async raises: the batch is put back before the error propagates.
PublishFails(r) ==
    /\ ses[r].pc = "publish"
    /\ Spend("publish")
    /\ batch' = [batch EXCEPT
                   ![ses[r].msg.batch] = [status |-> "PENDING", task |-> NoTask]]
    /\ Goto(r, "dispatchFailed")
    /\ UNCHANGED <<job, item, brokerVars>>

DispatchFailed(r) ==
    /\ ses[r].pc = "dispatchFailed"
    /\ job' = [job EXCEPT !.status = "DISPATCH_FAILED"]
    /\ Goto(r, "done")
    /\ UNCHANGED <<batch, item, brokerVars, budget>>

Dispatch(r) == \/ DispatchLoad(r) \/ ModuleDisabled(r) \/ MarkQueued(r)
               \/ Publish(r) \/ PublishFails(r) \/ DispatchFailed(r)

-----------------------------------------------------------------------------
(* JobService.cancel_job.                                                  *)

CancelLoad(r) ==
    /\ r \in Cancellers
    /\ ses[r].pc = "idle"
    /\ Become(r,
         IF job.status \in TerminalJob THEN Idle("done")
         ELSE [Idle("cancel") EXCEPT !.job = job, !.batch = batch, !.item = item])
    /\ UNCHANGED <<dbVars, brokerVars, budget>>

Cancellable_NoQueued == {"PENDING", "RETRYING"}
Cancellable == {"PENDING", "QUEUED", "RETRYING"}

CancelCommit(r) ==
    /\ ses[r].pc = "cancel"
    /\ LET mem == ses[r]
           new == [mem.job EXCEPT !.status = "CANCEL_REQUESTED", !.cancelReq = TRUE]
           hit == {b \in Batches : mem.batch[b].status \in Cancellable}
       IN  /\ job' = FlushJob(mem.job, new)
           /\ batch' = [b \in Batches |->
                IF b \in hit THEN [batch[b] EXCEPT !.status = "CANCELLED"] ELSE batch[b]]
           /\ item' = SetItems({i \in Items : BatchOf[i] \in hit
                                              /\ mem.item[i] = "PENDING"}, "CANCELLED")
           /\ Become(r, [ses[r] EXCEPT !.pc = "count", !.job = new])
    /\ UNCHANGED <<brokerVars, budget>>

\* The control message may be lost; the cancellation stays cooperative.
Revoke(r) ==
    /\ ses[r].pc = "revoke"
    /\ LET tasks == {ses[r].batch[b].task : b \in Batches} \ {NoTask}
       IN  \E heard \in {{}, tasks} : revoked' = revoked \cup heard
    /\ Become(r, Idle("done"))
    /\ UNCHANGED <<dbVars, queue, nextTask, budget>>

-----------------------------------------------------------------------------
(* JobService.retry_job.  The branch that creates a child job leaves this  *)
(* job untouched.                                                          *)

RetryLoad(r) ==
    /\ r \in Retriers
    /\ ses[r].pc = "idle"
    /\ Become(r, [Idle("retry") EXCEPT !.job = job])
    /\ UNCHANGED <<dbVars, brokerVars, budget>>

RetryRequeue(r) ==
    /\ ses[r].pc = "retry"
    /\ IF Dispatchable # {} /\ ses[r].job.status \notin TerminalJob
       THEN /\ job' = FlushJob(ses[r].job, [ses[r].job EXCEPT !.status = "QUEUED"])
            /\ Become(r, Idle("dispatch"))
       ELSE /\ Become(r, Idle("done"))
            /\ UNCHANGED job
    /\ UNCHANGED <<batch, item, brokerVars, budget>>

-----------------------------------------------------------------------------
\* The API process dies in the middle of a request.
RequestCrash(r) ==
    /\ ses[r].pc \notin {"idle", "done"}
    /\ Spend("request")
    /\ Become(r, Idle("done"))
    /\ UNCHANGED <<dbVars, brokerVars>>

\* What a request does once it has started, and what starts it.
RequestProgress(r) == \/ DispatchLoad(r) \/ MarkQueued(r) \/ Publish(r)
                      \/ DispatchFailed(r) \/ CancelCommit(r) \/ RefreshProgress(r)
                      \/ Revoke(r) \/ RetryRequeue(r)
RequestNext(r) == \/ RequestProgress(r) \/ CancelLoad(r) \/ RetryLoad(r)
                  \/ ModuleDisabled(r) \/ PublishFails(r) \/ RequestCrash(r)

\* create_job has committed the job and its batches and is about to dispatch.
EngineInit ==
    /\ job = [NoRow EXCEPT !.status = "QUEUED"]
    /\ batch = [b \in Batches |-> [status |-> "PENDING", task |-> NoTask]]
    /\ item = [i \in Items |-> "PENDING"]
    /\ queue = {}
    /\ revoked = {}
    /\ nextTask = 1
    /\ budget \in Budgets
    /\ ses = [p \in Processes |-> Idle(IF p = Creator THEN "dispatch" ELSE "idle")]

-----------------------------------------------------------------------------
(* The broker's side of a worker: delivery, redelivery after a crash,      *)
(* acknowledgement (acks_late, reject_on_worker_lost).                     *)

\* A revoked task is dropped by the worker that receives it.
Discard(w) ==
    /\ ses[w].pc = "idle"
    /\ \E m \in queue : m.task \in revoked /\ queue' = queue \ {m}
    /\ UNCHANGED <<dbVars, revoked, nextTask, budget, ses>>

Ack(w) ==
    /\ ses[w].pc = "ack"
    /\ Become(w, Idle("idle"))
    /\ UNCHANGED <<dbVars, brokerVars, budget>>

WorkerCrash(w) ==
    /\ ses[w].pc # "idle"
    /\ Spend("crash")
    /\ queue' = queue \cup {ses[w].msg}
    /\ Become(w, Idle("idle"))
    /\ UNCHANGED <<dbVars, revoked, nextTask>>

-----------------------------------------------------------------------------
(* What every batch processor shares.                                      *)

CancelSeen(row) == row.status \in {"CANCEL_REQUESTED", "CANCELLED"}

\* Items the session of w believes to be in status s.
Mine(w, s) == {i \in Items : ses[w].item[i] = s}

\* The in-memory items of w after it set those in S to s.
Remember(w, S, s) == [i \in Items |-> IF i \in S THEN s ELSE ses[w].item[i]]

SetBatchStatus(w, s) ==
    LET b == ses[w].msg.batch
    IN  batch' = [batch EXCEPT
                    ![b].status = Column(@, ses[w].batch[b].status, s)]

\* Batch, items and (unless it is expired) job as a query reads them now.
Loaded(s, row) ==
    [s EXCEPT !.job = row,
              !.batch = [b \in Batches |-> IF b = s.msg.batch THEN batch[b] ELSE NoBatchRow],
              !.item = [i \in Items |->
                          IF BatchOf[i] = s.msg.batch THEN item[i] ELSE "EXPIRED"]]

StaleTask(m) == batch[m.batch].task # m.task

Claimable_NoRetrying == {"PENDING", "QUEUED", "RUNNING"}
Claimable == {"PENDING", "QUEUED", "RUNNING", "RETRYING"}

\* A failed dispatch stays visible while the published batches advance.
ClaimedStatus_Hides(s) == IF s \in {"CANCEL_REQUESTED", "CANCELLED"} THEN s ELSE "RUNNING"
ClaimedStatus(s) ==
    IF s \in {"CANCEL_REQUESTED", "CANCELLED", "DISPATCH_FAILED"} THEN s ELSE "RUNNING"

Unfinished_OnlyPending(w) == Mine(w, "PENDING")
Unfinished_Everything(w) == {i \in Items : ses[w].item[i] # "EXPIRED"}
Unfinished(w) == Mine(w, "PENDING") \cup Mine(w, "RUNNING")

BatchOutcome_ItemWord(w) == IF Mine(w, "FAILED") = {} THEN "SUCCEEDED" ELSE "FAILED"
BatchOutcome(w) == IF Mine(w, "FAILED") = {} THEN "COMPLETED" ELSE "COMPLETED_WITH_ERRORS"

-----------------------------------------------------------------------------
(* Nothing is left to run.                                                 *)

Resting == queue = {} /\ \A p \in Processes : ses[p].pc \in {"idle", "done"}

CountersAgree ==
    /\ job.succ = ItemCount("SUCCEEDED")
    /\ job.fail = ItemCount("FAILED")
    /\ job.canc = ItemCount("CANCELLED")
    /\ job.proc = job.succ + job.fail + job.canc
    /\ job.fin = Cardinality({b \in Batches : batch[b].status \in TerminalBatch})

=============================================================================
