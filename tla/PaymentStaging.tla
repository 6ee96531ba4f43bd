---------------------------- MODULE PaymentStaging ----------------------------
(***************************************************************************)
(* The PDFs of the payment-provider e-mails.  An upload stages them in a   *)
(* folder of its own and creates a job that names the folder; the worker   *)
(* mails each PDF and moves it to the permanent archive, whose rows are    *)
(* storage.attachments; a daily sweep removes the folders that have served *)
(* their time.  Files and rows are changed by different processes and no   *)
(* transaction covers both.                                                *)
(*                                                                         *)
(* Each upload has one PDF per provider and its folder bears its name; a   *)
(* job has one batch.  History: stranded are PDFs moved to the archive by  *)
(* a worker that died before it committed the row.                         *)
(***************************************************************************)
EXTENDS JobCreation, FiniteSets

CONSTANTS
    Uploads,        \* requests POST .../enqueue
    KeyOf,          \* their Idempotency-Key
    Providers,      \* who gets a mail: one item and one PDF each
    Retention,      \* PAYMENT_PROVIDER_RETENTION_DAYS
    MaxAge,         \* PAYMENT_PROVIDER_STAGING_MAX_AGE_DAYS
    Horizon,        \* last day of the clock
    MaxJobs,        \* bound on the jobs retried
    MaxFaults       \* processes that die, folders that cannot be removed

StagingAssumption ==
    /\ Callers = Uploads
    /\ DOMAIN KeyOf = Uploads
    /\ Retention \in Nat /\ MaxAge \in Nat /\ Retention < MaxAge
    /\ Horizon \in Nat /\ MaxJobs \in Nat /\ MaxFaults \in Nat

VARIABLES
    now,            \* the day
    folder,         \* the staging folder of each upload
    archive,        \* PDFs in the permanent archive
    filed,          \* rows of storage.attachments: an item and its PDF
    items,          \* JobItem.status of each job
    finished,       \* Job.finished_at
    worker,         \* the worker session of each job
    sweep,          \* the maintenance task
    faults,
    stranded

files == <<folder, archive>>
rows == <<filed, items, finished>>
vars == <<creationVars, now, files, rows, worker, sweep, faults, stranded>>

TerminalJob == {"COMPLETED", "COMPLETED_WITH_ERRORS", "FAILED", "CANCELLED"}
NotYet == Horizon + 1

NoPdf == <<>>
AtRest == [pc |-> "idle", provider |-> NoPdf, moved |-> FALSE]
NoSweep == [pc |-> "idle", at |-> 0, todo |-> {}, seen |-> <<>>, complete |-> TRUE]

FolderOf(j) == jobs[j].about
Of(j, s) == {p \in DOMAIN items[j] : items[j][p] = s}

Fault == faults > 0 /\ faults' = faults - 1

-----------------------------------------------------------------------------
(* enqueue_payment_emails.                                                 *)

\* _save_uploaded_files, then create_job, all for one user.
Someone == 1
Upload(u) ==
    /\ call[u].pc = "none"
    /\ folder[u].files = {} /\ ~folder[u].exists /\ folder[u].changed = NotYet
    /\ folder' = [folder EXCEPT ![u] = [exists |-> TRUE, files |-> Providers, changed |-> now]]
    /\ BeginCreate(u, Someone, KeyOf[u], u)
    /\ UNCHANGED <<jobs, now, archive, rows, worker, sweep, faults, stranded>>

Create(u) ==
    /\ CreateStep(u)
    /\ IF Len(jobs') = Len(jobs) THEN UNCHANGED <<items, finished, worker>>
       ELSE /\ items' = Append(items, [p \in Providers |-> "PENDING"])
            /\ finished' = Append(finished, NotYet)
            /\ worker' = Append(worker, AtRest)
    /\ UNCHANGED <<now, files, filed, sweep, faults, stranded>>

\* The API process dies before the job is there, or before it is dispatched.
UploadDies(u) ==
    /\ call[u].pc \in {"lookup", "insert", "dispatch"}
    /\ Fault
    /\ call' = [call EXCEPT ![u] = NoCall]
    /\ UNCHANGED <<jobs, now, files, rows, worker, sweep, stranded>>

-----------------------------------------------------------------------------
(* PaymentProviderEmailJobProcessor and the archive.                       *)

StartMail(j) ==
    /\ worker[j].pc = "idle"
    /\ jobs[j].sent > 0
    /\ jobs[j].status \in {"QUEUED", "RUNNING"}
    /\ \E p \in Of(j, "PENDING") :
         /\ items' = [items EXCEPT ![j][p] = "RUNNING"]
         /\ worker' = [worker EXCEPT ![j] = [AtRest EXCEPT !.pc = "send", !.provider = p]]
    /\ jobs' = [jobs EXCEPT ![j].status = "RUNNING"]
    /\ UNCHANGED <<call, now, files, filed, finished, sweep, faults, stranded>>

\* _build_attachments reads the PDF; the SMTP server may refuse the mail.
SendMail(j) ==
    /\ worker[j].pc = "send"
    /\ LET p == worker[j].provider
       IN  \/ /\ p \in folder[FolderOf(j)].files
              /\ worker' = [worker EXCEPT ![j].pc = "archive"]
              /\ UNCHANGED items
           \/ /\ items' = [items EXCEPT ![j][p] = "FAILED"]
              /\ worker' = [worker EXCEPT ![j] = AtRest]
    /\ UNCHANGED <<creationVars, now, files, filed, finished, sweep, faults, stranded>>

\* archive_item_attachments: rename the PDF into the archive.  It may be gone,
\* and an error never undoes the mail.
ArchivePdf(j) ==
    /\ worker[j].pc = "archive"
    /\ LET f == FolderOf(j)
           p == worker[j].provider
       IN  \/ /\ p \in folder[f].files
              /\ folder' = [folder EXCEPT ![f].files = @ \ {p}, ![f].changed = now]
              /\ archive' = archive \cup {<<f, p>>}
              /\ worker' = [worker EXCEPT ![j].pc = "record", ![j].moved = TRUE]
           \/ /\ worker' = [worker EXCEPT ![j].pc = "record"]
              /\ UNCHANGED files
    /\ UNCHANGED <<creationVars, now, rows, sweep, faults, stranded>>

\* One commit for the verdict and the row of the attachment.
FiledRows(j) == IF worker[j].moved THEN {<<j, worker[j].provider>>} ELSE {}

RecordMail(j) ==
    /\ worker[j].pc = "record"
    /\ items' = [items EXCEPT ![j][worker[j].provider] = "SUCCEEDED"]
    /\ filed' = filed \cup FiledRows(j)
    /\ worker' = [worker EXCEPT ![j] = AtRest]
    /\ UNCHANGED <<creationVars, now, files, finished, sweep, faults, stranded>>

\* An item the dead worker had taken stays RUNNING; nobody sends it again.
WorkerDies(j) ==
    /\ worker[j].pc # "idle"
    /\ Fault
    /\ stranded' = IF worker[j].moved THEN stranded \cup {<<FolderOf(j), worker[j].provider>>}
                   ELSE stranded
    /\ worker' = [worker EXCEPT ![j] = AtRest]
    /\ UNCHANGED <<creationVars, now, files, rows, sweep>>

JobVerdict_ItemWord(j) == IF Of(j, "FAILED") = {} THEN "SUCCEEDED" ELSE "FAILED"
JobVerdict(j) ==
    IF Of(j, "FAILED") = {} THEN "COMPLETED"
    ELSE IF Of(j, "SUCCEEDED") = {} THEN "FAILED" ELSE "COMPLETED_WITH_ERRORS"

EndJob(j) ==
    /\ jobs[j].status = "RUNNING"
    /\ worker[j].pc = "idle"
    /\ Of(j, "PENDING") = {}
    /\ jobs' = [jobs EXCEPT ![j].status = JobVerdict(j)]
    /\ finished' = [finished EXCEPT ![j] = now]
    /\ UNCHANGED <<call, now, files, filed, items, worker, sweep, faults, stranded>>

\* A cancellation takes the items nobody has started.
CancelJob(j) ==
    /\ jobs[j].status \notin TerminalJob
    /\ worker[j].pc = "idle"
    /\ items' = [items EXCEPT ![j] = [p \in DOMAIN @ |-> IF @[p] = "PENDING" THEN "CANCELLED" ELSE @[p]]]
    /\ jobs' = [jobs EXCEPT ![j].status = "CANCELLED"]
    /\ finished' = [finished EXCEPT ![j] = now]
    /\ UNCHANGED <<call, now, files, filed, worker, sweep, faults, stranded>>

\* retry_job: send again what was never published, or a child for what failed.
RetryDispatch(j) ==
    /\ jobs[j].status = "DISPATCH_FAILED"
    /\ jobs' = [jobs EXCEPT ![j].status = "QUEUED", ![j].sent = @ + 1]
    /\ UNCHANGED <<call, now, files, rows, worker, sweep, faults, stranded>>

RetryFailed(j) ==
    /\ jobs[j].status \in TerminalJob
    /\ Of(j, "FAILED") # {}
    /\ Len(jobs) < MaxJobs
    /\ jobs' = Append(jobs, [jobs[j] EXCEPT !.key = NoKey, !.status = "QUEUED", !.sent = 1])
    /\ items' = Append(items, [p \in Of(j, "FAILED") |-> "PENDING"])
    /\ finished' = Append(finished, NotYet)
    /\ worker' = Append(worker, AtRest)
    /\ UNCHANGED <<call, now, files, filed, sweep, faults, stranded>>

-----------------------------------------------------------------------------
(* PaymentProviderStagingCleanup.run, once a day.                          *)

SweepStart ==
    /\ sweep.pc = "idle"
    /\ sweep.at < now
    /\ sweep' = [NoSweep EXCEPT !.pc = "load", !.at = now,
                                !.todo = {u \in Uploads : folder[u].exists}]
    /\ UNCHANGED <<creationVars, now, files, rows, worker, faults, stranded>>

JobsOf(f) == {j \in JobIds : FolderOf(j) = f}
NoneSeen == [job |-> NoJob, status |-> "NONE", finished |-> NotYet]
Seen(j) == [job |-> j, status |-> jobs[j].status, finished |-> finished[j]]

\* One query; of the jobs that name a folder the last row read is kept.
SweepLoad ==
    /\ sweep.pc = "load"
    /\ \E pick \in [sweep.todo -> JobIds \cup {NoJob}] :
         /\ \A f \in sweep.todo : IF JobsOf(f) = {} THEN pick[f] = NoJob ELSE pick[f] \in JobsOf(f)
         /\ sweep' = [sweep EXCEPT !.pc = "decide",
                        !.seen = [f \in sweep.todo |->
                                    IF pick[f] = NoJob THEN NoneSeen ELSE Seen(pick[f])]]
    /\ UNCHANGED <<creationVars, now, files, rows, worker, faults, stranded>>

\* _decide: too old for any job, or its job ended long ago, or it has no job.
Expired(f) == folder[f].changed + MaxAge < sweep.at
Served(seen) == seen.status \in TerminalJob /\ seen.finished + Retention < sweep.at
Orphan_AtOnce(f, seen) == seen.job = NoJob
Orphan(f, seen) == seen.job = NoJob /\ folder[f].changed + Retention < sweep.at

SweepFolder(f) ==
    /\ sweep.pc = "decide"
    /\ f \in sweep.todo
    /\ IF Expired(f) \/ Served(sweep.seen[f]) \/ Orphan(f, sweep.seen[f])
       THEN \/ /\ folder' = [folder EXCEPT ![f].exists = FALSE, ![f].files = {}]
               /\ sweep' = [sweep EXCEPT !.todo = @ \ {f}]
               /\ UNCHANGED faults
            \/ /\ Fault      \* rmtree fails and the sweep goes on
               /\ sweep' = [sweep EXCEPT !.todo = @ \ {f}, !.complete = FALSE]
               /\ UNCHANGED folder
       ELSE /\ sweep' = [sweep EXCEPT !.todo = @ \ {f}]
            /\ UNCHANGED <<folder, faults>>
    /\ UNCHANGED <<creationVars, now, archive, rows, worker, stranded>>

SweepEnd ==
    /\ sweep.pc = "decide"
    /\ sweep.todo = {}
    /\ sweep' = [NoSweep EXCEPT !.at = sweep.at, !.complete = sweep.complete]
    /\ UNCHANGED <<creationVars, now, files, rows, worker, faults, stranded>>

\* A request and a sweep last less than a day: midnight strikes once at most.
Clock ==
    /\ now < Horizon
    /\ \A u \in Uploads : call[u].pc \in {"lookup", "insert", "dispatch"} => now <= folder[u].changed
    /\ sweep.pc # "idle" => now <= sweep.at
    /\ now' = now + 1
    /\ UNCHANGED <<creationVars, files, rows, worker, sweep, faults, stranded>>

-----------------------------------------------------------------------------
Init ==
    /\ CreationInit
    /\ now = 0
    /\ folder = [u \in Uploads |-> [exists |-> FALSE, files |-> {}, changed |-> NotYet]]
    /\ archive = {} /\ filed = {}
    /\ items = <<>> /\ finished = <<>> /\ worker = <<>>
    /\ sweep = NoSweep
    /\ faults = MaxFaults
    /\ stranded = {}

Next ==
    \/ \E u \in Uploads : Upload(u) \/ Create(u) \/ UploadDies(u) \/ SweepFolder(u)
    \/ \E j \in JobIds : \/ StartMail(j) \/ SendMail(j) \/ ArchivePdf(j) \/ RecordMail(j)
                         \/ WorkerDies(j) \/ EndJob(j) \/ CancelJob(j)
                         \/ RetryDispatch(j) \/ RetryFailed(j)
    \/ SweepStart \/ SweepLoad \/ SweepEnd \/ Clock

Spec == Init /\ [][Next]_vars

-----------------------------------------------------------------------------
JobStatus == TerminalJob \cup {"QUEUED", "RUNNING", "DISPATCH_FAILED"}
ItemStatus == {"PENDING", "RUNNING", "SUCCEEDED", "FAILED", "CANCELLED"}

\* Every row is well formed and a busy worker has an item in hand.
TypeOK ==
    /\ \A u \in Uploads : folder[u].files \subseteq Providers /\ (folder[u].files # {} => folder[u].exists)
    /\ archive \subseteq Uploads \X Providers
    /\ \A j \in JobIds : /\ jobs[j].status \in JobStatus
                         /\ \A p \in DOMAIN items[j] : items[j][p] \in ItemStatus
                         /\ (worker[j].pc # "idle" => items[j][worker[j].provider] = "RUNNING")

\* A folder younger than MaxAge whose only job is j.
Guards(j) ==
    /\ JobsOf(FolderOf(j)) = {j}
    /\ now <= folder[FolderOf(j)].changed + MaxAge

\* What a job may still send, or be asked to send again within the retention,
\* is on disk: no sweep takes the PDFs of a job under way, nor of one that is
\* being created at that instant (_decide, run).  A job that shares its folder
\* with a retry of it is not promised as much: the sweep looks at one of them.
KeepsWhatItMaySend ==
    \A j \in JobIds : Guards(j) =>
        /\ Of(j, "PENDING") \subseteq folder[FolderOf(j)].files
        /\ now <= finished[j] + Retention => Of(j, "FAILED") \subseteq folder[FolderOf(j)].files

\* The archive and its rows tell the same story, except for a PDF a worker has
\* just moved or died with (archive_item_attachments does not commit).
ArchiveMatchesRows ==
    /\ \A r \in filed : <<FolderOf(r[1]), r[2]>> \in archive
    /\ \A a \in archive :
         \/ a \in stranded
         \/ \E r \in filed : a = <<FolderOf(r[1]), r[2]>>
         \/ \E j \in JobIds : worker[j].moved /\ a = <<FolderOf(j), worker[j].provider>>

\* A sweep that could remove what it chose leaves no folder that is too old,
\* has lost its upload (a double click stages twice, an API process dies) or
\* whose job ended before the retention.
SweptClean ==
    sweep.pc = "idle" /\ sweep.complete =>
        \A u \in Uploads : folder[u].exists =>
            /\ sweep.at <= folder[u].changed + MaxAge
            /\ JobsOf(u) = {} => sweep.at <= folder[u].changed + Retention
            /\ \A j \in JobIds :
                 Guards(j) /\ FolderOf(j) = u /\ jobs[j].status \in TerminalJob
                     => sweep.at <= finished[j] + Retention
=============================================================================
