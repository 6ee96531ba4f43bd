------------------------------ MODULE Scheduler -------------------------------
(***************************************************************************)
(* The scheduled tasks: jobs.scheduled_jobs, the Celery tick that fires    *)
(* those that are due, and the API requests that run one now or change it. *)
(* A tick works through up to TickLimit due tasks.  For each it commits    *)
(* the next firing first, so that the row lock is gone while it creates    *)
(* the job; the clock, other ticks and requests go on meanwhile.           *)
(* Of a row only what decides the next firing, and last_status, is kept.   *)
(*                                                                         *)
(* History variables: fired are the firings a tick has committed to, ended *)
(* those whose outcome was recorded, lost those that died with their tick; *)
(* patched are the tasks whose next firing a user has set.                 *)
(***************************************************************************)
EXTENDS JobCreation, TLC

CONSTANTS
    Tasks,          \* the scheduled tasks, numbered in the order of their ids
    Period,         \* minutes between two firings; 0: a configuration gone bad
    Ticks,          \* Celery processes that run scheduled_jobs.tick
    Users,          \* requests POST .../run and PATCH
    TickLimit,
    Horizon,        \* last instant of the clock
    MaxFaults       \* processes that die, modules switched

ASSUME SchedulerAssumption ==
    /\ Tasks \subseteq Nat
    /\ Period \in [Tasks -> Nat]
    /\ Ticks \cap Users = {}
    /\ Callers = Ticks \cup Users
    /\ TickLimit \in Nat /\ Horizon \in Nat /\ MaxFaults \in Nat

VARIABLES
    now,
    row,            \* jobs.scheduled_jobs
    module,         \* is the module of the tasks switched on
    exec,           \* what each session is doing
    faults,
    fired, ended, lost, patched

history == <<fired, ended, lost, patched>>
vars == <<creationVars, now, row, module, exec, faults, history>>

System == "creator"     \* the creator of the tasks, whom their jobs belong to
Operator == "operator"  \* the user behind the requests
NoRow == [enabled |-> FALSE, next |-> 0, status |-> "NEVER"]
Expired == [NoRow EXCEPT !.status = "EXPIRED"]
Idle == [pc |-> "idle", task |-> 0, due |-> 0, row |-> NoRow, left |-> 0]

Done == [Idle EXCEPT !.pc = "done"]

Processes == Ticks \cup Users

\* A commit writes the columns that differ from what the session loaded.
Save(t, loaded, new) ==
    row' = [row EXCEPT ![t] =
              [c \in DOMAIN NoRow |-> IF new[c] = loaded[c] THEN @[c] ELSE new[c]]]

Firing(p) == <<exec[p].task, exec[p].due>>
Settle(p) == ended' = ended \cup {Firing(p)}

Become(p, e) == exec' = [exec EXCEPT ![p] = e]

-----------------------------------------------------------------------------
(* ScheduledJobService.run_due.                                            *)

Beat(p) ==
    /\ exec[p].pc = "idle"
    /\ Become(p, [Idle EXCEPT !.pc = "pick", !.left = TickLimit])
    /\ UNCHANGED <<creationVars, now, row, module, faults, history>>

Due == {t \in Tasks : row[t].enabled /\ row[t].next <= now}
FirstDue(t) == \A u \in Due : row[t].next < row[u].next \/ (row[t].next = row[u].next /\ t <= u)

Exhausted(p) ==
    /\ exec[p].pc = "pick"
    /\ exec[p].left = 0 \/ Due = {}
    /\ Become(p, Idle)
    /\ UNCHANGED <<creationVars, now, row, module, faults, history>>

\* calculate_next_run(after=now) for a task with an interval.
NextRun(t, due) == now + Period[t]

\* One transaction holds the row from list_due_jobs (FOR UPDATE SKIP LOCKED)
\* to the commit of the next firing.
Fire(p) ==
    /\ exec[p].pc = "pick"
    /\ exec[p].left > 0
    /\ \E t \in Due :
         /\ FirstDue(t)
         /\ Period[t] > 0
         /\ LET new == [row[t] EXCEPT !.next = NextRun(t, row[t].next)]
            IN  /\ row' = [row EXCEPT ![t] = new]
                /\ Become(p, [pc |-> "module", task |-> t, due |-> row[t].next,
                              row |-> new, left |-> exec[p].left - 1])
         /\ fired' = fired \cup {[task |-> t, due |-> row[t].next, at |-> now]}
    /\ UNCHANGED <<creationVars, now, module, faults, ended, lost, patched>>

\* A configuration that has no next run takes its task out of the queue.
DisableInvalid_Keep(p) ==
    /\ exec[p].pc = "pick"
    /\ exec[p].left > 0
    /\ \E t \in Due :
         /\ FirstDue(t)
         /\ Period[t] = 0
         /\ row' = [row EXCEPT ![t].status = "FAILED"]
    /\ Become(p, [exec[p] EXCEPT !.left = @ - 1])
    /\ UNCHANGED <<creationVars, now, module, faults, history>>
DisableInvalid(p) ==
    /\ exec[p].pc = "pick"
    /\ exec[p].left > 0
    /\ \E t \in Due :
         /\ FirstDue(t)
         /\ Period[t] = 0
         /\ row' = [row EXCEPT ![t].enabled = FALSE, ![t].status = "FAILED"]
    /\ Become(p, [exec[p] EXCEPT !.left = @ - 1])
    /\ UNCHANGED <<creationVars, now, module, faults, history>>

\* _build_idempotency_key.
IdempotencyKey_Now(p) == <<"scheduled", exec[p].task, now>>
IdempotencyKey(p) == <<"scheduled", exec[p].task, exec[p].due>>

\* A module that is off skips the firing: it is no failure of the task.
CheckModule(p) ==
    /\ exec[p].pc = "module"
    /\ IF module
       THEN /\ BeginCreate(p, System, IdempotencyKey(p), Firing(p))
            /\ Become(p, [exec[p] EXCEPT !.pc = "create"])
            /\ UNCHANGED <<row, ended>>
       ELSE /\ Save(exec[p].task, exec[p].row, [exec[p].row EXCEPT !.status = "SKIPPED"])
            /\ Become(p, [Idle EXCEPT !.pc = "pick", !.left = exec[p].left])
            /\ Settle(p)
            /\ UNCHANGED call
    /\ UNCHANGED <<jobs, now, module, faults, fired, lost, patched>>

-----------------------------------------------------------------------------
(* _create_execution, for a tick and for POST .../run.                     *)

\* The rollback of a duplicate insert expires the row in the session.
Create(p) ==
    /\ exec[p].pc = "create"
    /\ CreateStep(p)
    /\ exec' = IF call[p].pc = "insert" /\ SameKey(call[p]) # {}
               THEN [exec EXCEPT ![p].row = Expired] ELSE exec
    /\ UNCHANGED <<now, row, module, faults, history>>

NextTask(p) == Become(p, [Idle EXCEPT !.pc = "pick", !.left = exec[p].left])
Return(p) == /\ IF p \in Users THEN Become(p, Done) ELSE NextTask(p)
             /\ call' = [call EXCEPT ![p] = NoCall]

\* The endpoint behind the task rejects it: parameters, or SAP out of reach.
CreateFails_Escapes(p) ==
    /\ exec[p].pc = "create"
    /\ call[p].pc = "lookup"
    /\ Become(p, Idle)
    /\ call' = [call EXCEPT ![p] = NoCall]
    /\ UNCHANGED <<jobs, now, row, module, faults, history>>
CreateFails(p) ==
    /\ exec[p].pc = "create"
    /\ call[p].pc = "lookup"
    /\ LET mem == exec[p].row
       IN  Save(exec[p].task, mem, [mem EXCEPT !.status = "FAILED"])
    /\ Settle(p)
    /\ Return(p)
    /\ UNCHANGED <<jobs, now, module, faults, fired, lost, patched>>

RecordJob(p) ==
    /\ exec[p].pc = "create"
    /\ call[p].pc = "created"
    /\ LET mem == exec[p].row
           j == call[p].job
       IN  Save(exec[p].task, mem, [mem EXCEPT !.status = jobs[j].status])
    /\ Settle(p)
    /\ Return(p)
    /\ UNCHANGED <<jobs, now, module, faults, fired, lost, patched>>

-----------------------------------------------------------------------------
(* The API.                                                                *)

RunNow(u) ==
    /\ exec[u].pc = "idle"
    /\ \E t \in Tasks :
         /\ Become(u, [Idle EXCEPT !.pc = "create", !.task = t, !.due = now, !.row = row[t]])
         /\ BeginCreate(u, Operator, <<"manual", t, now>>, <<t, now>>)
    /\ UNCHANGED <<jobs, now, row, module, faults, history>>

LoadTask(u) ==
    /\ exec[u].pc = "idle"
    /\ \E t \in Tasks : Become(u, [Idle EXCEPT !.pc = "patch", !.task = t, !.row = row[t]])
    /\ UNCHANGED <<creationVars, now, row, module, faults, history>>

\* update: switches the task on or off, or sets its next firing.
PatchTask(u) ==
    /\ exec[u].pc = "patch"
    /\ LET t == exec[u].task
           mem == exec[u].row
       IN  \/ /\ Save(t, mem, [mem EXCEPT !.enabled = ~@])
              /\ UNCHANGED patched
           \/ /\ \E n \in 0 .. Horizon : Save(t, mem, [mem EXCEPT !.next = n])
              /\ patched' = patched \cup {t}
    /\ Become(u, Done)
    /\ UNCHANGED <<creationVars, now, module, faults, fired, ended, lost>>

-----------------------------------------------------------------------------
(* The clock, the switchboard and the death of a tick (acks_late=False).   *)

Clock == /\ now < Horizon
         /\ now' = now + 1
         /\ UNCHANGED <<creationVars, row, module, exec, faults, history>>

SwitchModule == /\ faults > 0
                /\ module' = ~module
                /\ faults' = faults - 1
                /\ UNCHANGED <<creationVars, now, row, exec, history>>

TickDies(p) ==
    /\ exec[p].pc # "idle"
    /\ faults > 0
    /\ faults' = faults - 1
    /\ lost' = IF exec[p].pc \in {"module", "create"} THEN lost \cup {Firing(p)} ELSE lost
    /\ Become(p, Idle)
    /\ call' = [call EXCEPT ![p] = NoCall]
    /\ UNCHANGED <<jobs, now, row, module, fired, ended, patched>>

-----------------------------------------------------------------------------
RunDue(p) == \/ Beat(p) \/ Exhausted(p) \/ Fire(p) \/ DisableInvalid(p) \/ CheckModule(p)
             \/ Create(p) \/ CreateFails(p) \/ RecordJob(p)
Request(u) == RunNow(u) \/ LoadTask(u) \/ PatchTask(u) \/ Create(u) \/ CreateFails(u) \/ RecordJob(u)

Init ==
    /\ CreationInit
    /\ now = 0
    /\ row = [t \in Tasks |-> [NoRow EXCEPT !.enabled = TRUE]]
    /\ module = TRUE
    /\ exec = [p \in Processes |-> Idle]
    /\ faults = MaxFaults
    /\ fired = {} /\ ended = {} /\ lost = {} /\ patched = {}

Next == \/ \E p \in Ticks : RunDue(p) \/ TickDies(p)
        \/ \E u \in Users : Request(u)
        \/ Clock \/ SwitchModule

Spec == Init /\ [][Next]_vars

\* Beat goes on sending ticks and Celery goes on running them.
FairSpec == Spec /\ \A p \in Ticks : WF_vars(RunDue(p))

-----------------------------------------------------------------------------
TaskStatus == {"NEVER", "QUEUED", "DISPATCH_FAILED", "FAILED", "SKIPPED"}

\* Every row is well formed, a session that creates a job has called
\* create_job, and a call that returned names a job that exists.
TypeOK ==
    /\ now \in 0 .. Horizon
    /\ \A t \in Tasks : /\ row[t].enabled \in BOOLEAN
                         /\ row[t].next \in Nat
                         /\ row[t].status \in TaskStatus
    /\ \A p \in Processes : /\ call[p].pc \in CallPC
                             /\ (exec[p].pc = "create" => call[p].pc # "none")
                             /\ (call[p].pc = "created" => call[p].job \in JobIds)

\* One firing makes one job, though a user sets the firing back while a tick
\* still works on it and two ticks meet in create_job (_build_idempotency_key).
OneJobPerFiring ==
    \A i, j \in JobIds :
        i # j /\ jobs[i].owner = System /\ jobs[j].owner = System => jobs[i].about # jobs[j].about

\* A firing a tick has committed to is being worked on, has an outcome in its
\* task, or died with the tick: an error of one task loses nothing of another
\* (_advance_and_execute).
FiringAccounted ==
    \A f \in fired :
        \/ <<f.task, f.due>> \in ended \cup lost
        \/ \E p \in Ticks : exec[p].pc \in {"module", "create"} /\ Firing(p) = <<f.task, f.due>>

\* After an outage a task fires once, not once for each firing it missed,
\* unless a user sets it back (calculate_next_run counts from now).
NoBurstAfterOutage ==
    \A f, g \in fired :
        f # g /\ f.task = g.task /\ f.task \notin patched => f.at # g.at

\* A firing that an outage or an error delayed is neither forgotten nor made up
\* for more than once.
FiresOnce == FiringAccounted /\ NoBurstAfterOutage

\* A task that is due fires or leaves the queue, whatever the others do
\* (_advance_and_execute: one poisoned task must not block the rest).
DueTasksFire == \A t \in Tasks : t \in Due ~> t \notin Due
=============================================================================
