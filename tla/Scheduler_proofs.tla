--------------------------- MODULE Scheduler_proofs ----------------------------
(***************************************************************************)
(* Proofs about Scheduler, and below about the rows of MCRecords' modules: *)
(* Ledger, Access and Catalog.                                             *)
(*                                                                         *)
(* One firing of a scheduled task makes one job, for any number of tasks,  *)
(* ticks, users and faults.                                                *)
(*                                                                         *)
(* OneJobPerFiring is not inductive.  What carries it is the unique key:   *)
(* a job of the scheduler bears the key of its firing (Labelled), and no   *)
(* two jobs of one owner bear one key (Unique).  That a job is dispatched  *)
(* once needs that the call which is about to dispatch it is the only one  *)
(* and that nobody has done so before (Awaited).                           *)
(*                                                                         *)
(* FiresOnce rests on two facts about a row: only Fire and a user move its *)
(* next firing, and Fire moves it beyond the present (Ahead), so that what *)
(* has fired lies before whatever fires next.                              *)
(***************************************************************************)
EXTENDS Scheduler, MCRecords, Integers, FiniteSetTheorems, WellFoundedInduction, TLAPS

Key == {"scheduled", "manual"} \X Tasks \X Nat
About == Tasks \X Nat

Job == [owner : {System, Operator}, key : Key, about : About,
        status : {"QUEUED", "DISPATCH_FAILED"}, sent : Nat]

Call == [pc : CallPC, owner : {System, Operator, NoJob}, key : Key \cup {NoKey},
         about : About \cup {NoKey}, job : Nat]

RowType == [enabled : BOOLEAN, next : Nat, status : TaskStatus \cup {"EXPIRED"}]

Exec == [pc : {"idle", "pick", "module", "create", "patch", "done"}, task : Nat,
         due : Nat, row : RowType, left : Nat]

Creating(c) == c.pc \in {"lookup", "insert"}

\* The scheduler's own jobs and calls bear the key of their firing.
FiringKey(about) == <<"scheduled", about[1], about[2]>>

Types == /\ now \in Nat
         /\ row \in [Tasks -> RowType]
         /\ exec \in [Processes -> Exec]
         /\ \A p \in Processes : exec[p].pc \in {"module", "create", "patch"} => exec[p].task \in Tasks

Labelled ==
    /\ \A j \in JobIds : jobs[j].owner = System => jobs[j].key = FiringKey(jobs[j].about)
    /\ \A p \in Callers : Creating(call[p]) =>
         /\ call[p].owner \in {System, Operator}
         /\ call[p].key \in Key
         /\ call[p].about \in About
         /\ call[p].owner = System => call[p].key = FiringKey(call[p].about)

Unique == \A i, j \in JobIds :
    i # j => jobs[i].owner # jobs[j].owner \/ jobs[i].key # jobs[j].key

Awaited ==
    /\ \A j \in JobIds : jobs[j].sent <= 1
    /\ \A p \in Callers : call[p].pc \in {"dispatch", "created"} => call[p].job \in JobIds
    /\ \A p \in Callers : call[p].pc = "dispatch" => jobs[call[p].job].sent = 0
    /\ \A p, q \in Callers : p # q /\ call[p].pc = "dispatch" /\ call[q].pc = "dispatch"
         => call[p].job # call[q].job

Creation == /\ jobs \in Seq(Job)
            /\ call \in [Callers -> Call]
            /\ Labelled
            /\ Unique
            /\ Awaited

Inv == Types /\ Creation

-----------------------------------------------------------------------------
(* What the scheduler adds to create_job: rows and sessions.               *)

LEMMA SaveType ==
  ASSUME Types, NEW t \in Tasks, NEW loaded \in RowType, NEW new \in RowType,
         Save(t, loaded, new)
  PROVE  row' \in [Tasks -> RowType]
<1>. DEFINE saved == [c \in DOMAIN NoRow |-> IF new[c] = loaded[c] THEN row[t][c] ELSE new[c]]
<1>1. row' = [row EXCEPT ![t] = saved]
  BY DEF Save
<1>2. DOMAIN NoRow = {"enabled", "next", "status"}
  BY DEF NoRow
<1>3. row[t] \in RowType
  BY DEF Types
<1>4. saved.enabled \in BOOLEAN
  BY <1>2, <1>3, Zenon DEF RowType
<1>5. saved.next \in Nat /\ saved.status \in TaskStatus \cup {"EXPIRED"}
  BY <1>2, <1>3 DEF RowType
<1>6. saved = [enabled |-> saved.enabled, next |-> saved.next, status |-> saved.status]
  BY <1>2
<1>7. saved \in RowType
  BY <1>4, <1>5, <1>6 DEF RowType
<1>. QED  BY <1>1, <1>7 DEF Types

LEMMA ExecType ==
  ASSUME Types, NEW p \in Processes, NEW e \in Exec, Become(p, e),
         e.pc \in {"module", "create", "patch"} => e.task \in Tasks
  PROVE  /\ exec' \in [Processes -> Exec]
         /\ \A q \in Processes :
              exec'[q].pc \in {"module", "create", "patch"} => exec'[q].task \in Tasks
<1>1. \A q \in Processes : exec'[q] = IF q = p THEN e ELSE exec[q]
  BY DEF Types, Become
<1>2. exec' \in [Processes -> Exec]
  BY DEF Types, Become
<1>. QED  BY <1>1, <1>2 DEF Types

\* A session that is at rest, or looks for the next due task.
LEMMA RestType ==
  ASSUME NEW l \in {"idle", "pick", "done"}, NEW n \in Nat
  PROVE  [Idle EXCEPT !.pc = l, !.left = n] \in Exec
  BY DEF Idle, Exec, RowType, NoRow, TaskStatus

-----------------------------------------------------------------------------
(* create_job.                                                             *)

LEMMA NoCallType == NoCall \in Call
  BY DEF NoCall, Call, CallPC, NoJob, NoKey

LEMMA CreationUnchanged ==
  ASSUME Creation, UNCHANGED <<jobs, call>>
  PROVE  Creation'
  BY DEF Creation, Labelled, Unique, Awaited, JobIds, Creating, FiringKey

\* A call that does not come to own a job changes nothing for the others.
LEMMA CallSet ==
  ASSUME Creation, NEW p \in Callers, NEW c \in Call, c.pc # "dispatch",
         call' = [call EXCEPT ![p] = c], UNCHANGED jobs,
         c.pc = "created" => c.job \in JobIds,
         Creating(c) => /\ c.owner \in {System, Operator}
                        /\ c.key \in Key
                        /\ c.about \in About
                        /\ c.owner = System => c.key = FiringKey(c.about)
  PROVE  Creation'
<1>1. call' \in [Callers -> Call] /\ \A q \in Callers : call'[q] = IF q = p THEN c ELSE call[q]
  BY DEF Creation
<1>2. Labelled'
  BY <1>1 DEF Creation, Labelled, JobIds, Creating, FiringKey
<1>3. Unique'
  BY DEF Creation, Unique, JobIds
<1>4. Awaited'
  BY <1>1 DEF Creation, Awaited, JobIds
<1>. QED  BY <1>1, <1>2, <1>3, <1>4 DEF Creation

LEMMA LookupStep ==
  ASSUME Creation, NEW p \in Callers, LookupKey(p)
  PROVE  Creation'
<1>1. call[p] \in Call /\ Creating(call[p])
  BY DEF Creation, LookupKey, Creating
<1>2. CASE SameKey(call[p]) # {}
  <2>1. PICK j \in JobIds : Found(call[p]) = [call[p] EXCEPT !.pc = "created", !.job = j]
    BY <1>2 DEF Found, SameKey
  <2>2. j \in Nat
    BY DEF Creation, JobIds
  <2>3. Found(call[p]) \in Call /\ Found(call[p]).pc = "created" /\ Found(call[p]).job \in JobIds
    BY <1>1, <2>1, <2>2 DEF Call, CallPC
  <2>. QED  BY <1>2, <2>3, CallSet DEF LookupKey, Creating
<1>3. CASE SameKey(call[p]) = {}
  <2>. DEFINE c == [call[p] EXCEPT !.pc = "insert"]
  <2>1. c \in Call /\ c.pc = "insert"
    BY <1>1 DEF Call, CallPC
  <2>2. c.owner = call[p].owner /\ c.key = call[p].key /\ c.about = call[p].about
    BY <1>1 DEF Call
  <2>3. call' = [call EXCEPT ![p] = c] /\ UNCHANGED jobs
    BY <1>3 DEF LookupKey
  <2>. HIDE DEF c
  <2>. QED  BY <1>1, <2>1, <2>2, <2>3, CallSet DEF Creation, Labelled
<1>. QED  BY <1>2, <1>3

\* The new job bears a key nobody of the same owner has.
LEMMA InsertStep ==
  ASSUME Creation, NEW p \in Callers, InsertJob(p)
  PROVE  Creation'
<1>1. call[p] \in Call /\ Creating(call[p])
  BY DEF Creation, InsertJob, Creating
<1>2. CASE SameKey(call[p]) # {}
  <2>1. PICK j \in JobIds : Found(call[p]) = [call[p] EXCEPT !.pc = "created", !.job = j]
    BY <1>2 DEF Found, SameKey
  <2>2. j \in Nat
    BY DEF Creation, JobIds
  <2>3. Found(call[p]) \in Call /\ Found(call[p]).pc = "created" /\ Found(call[p]).job \in JobIds
    BY <1>1, <2>1, <2>2 DEF Call, CallPC
  <2>. QED  BY <1>2, <2>3, CallSet DEF InsertJob, Creating
<1>3. CASE SameKey(call[p]) = {}
  <2>. DEFINE k == Len(jobs) + 1
              new == [owner |-> call[p].owner, key |-> call[p].key,
                      about |-> call[p].about, status |-> "QUEUED", sent |-> 0]
              c == [call[p] EXCEPT !.pc = "dispatch", !.job = k]
  <2>1. /\ new \in Job /\ new.sent = 0
        /\ new.owner = System => new.key = FiringKey(new.about)
    BY <1>1 DEF Creation, Labelled, Job
  <2>2. jobs' = Append(jobs, new) /\ call' = [call EXCEPT ![p] = c]
    BY <1>3 DEF InsertJob, Inserted
  <2>3. jobs \in Seq(Job) /\ k \in Nat \ {0} /\ k \notin JobIds
    BY DEF Creation, JobIds
  <2>4. c \in Call /\ c.pc = "dispatch" /\ c.job = k
    BY <1>1, <2>3 DEF Call, CallPC
  <2>5. call[p].key # NoKey
    <3>1. call[p].key \in Key
      BY <1>1 DEF Creation, Labelled
    <3>2. PICK a \in {"scheduled", "manual"}, t \in Tasks, n \in Nat : call[p].key = <<a, t, n>>
      BY <3>1 DEF Key
    <3>. QED  BY <3>2 DEF NoKey
  <2>6. \A j \in JobIds : jobs[j].owner # new.owner \/ jobs[j].key # new.key
    BY <1>3, <2>5 DEF SameKey
  <2>. HIDE DEF k, new, c
  <2>7. /\ jobs' \in Seq(Job) /\ JobIds' = JobIds \cup {k}
        /\ jobs'[k] = new /\ \A j \in JobIds : jobs'[j] = jobs[j]
    BY <2>1, <2>2, <2>3 DEF JobIds, k
  <2>8. call' \in [Callers -> Call] /\ \A q \in Callers : call'[q] = IF q = p THEN c ELSE call[q]
    BY <2>2, <2>4 DEF Creation
  <2>9. Labelled'
    BY <2>1, <2>4, <2>7, <2>8 DEF Creation, Labelled, Creating, FiringKey
  <2>10. Unique'
    BY <2>3, <2>6, <2>7, SMTT(30) DEF Creation, Unique
  <2>11. Awaited'
    <3>1. \A j \in JobIds' : jobs'[j].sent <= 1
      BY <2>1, <2>7 DEF Creation, Awaited
    <3>2. \A q \in Callers : 
             /\ call'[q].pc \in {"dispatch", "created"} => call'[q].job \in JobIds'
             /\ call'[q].pc = "dispatch" => jobs'[call'[q].job].sent = 0
      BY <2>1, <2>4, <2>7, <2>8 DEF Creation, Awaited
    <3>3. \A q, r \in Callers : q # r /\ call'[q].pc = "dispatch" /\ call'[r].pc = "dispatch"
             => call'[q].job # call'[r].job
      BY <2>3, <2>4, <2>8 DEF Creation, Awaited
    <3>. QED  BY <3>1, <3>2, <3>3 DEF Awaited
  <2>. QED  BY <2>7, <2>8, <2>9, <2>10, <2>11 DEF Creation
<1>. QED  BY <1>2, <1>3

\* The call that dispatches is the only one that may, and it does so once.
LEMMA DispatchStep ==
  ASSUME Creation, NEW p \in Callers, DispatchJob(p)
  PROVE  Creation'
<1>. DEFINE k == call[p].job
            c == [call[p] EXCEPT !.pc = "created"]
<1>1. call[p] \in Call /\ call[p].pc = "dispatch" /\ k \in JobIds /\ jobs[k].sent = 0
  BY DEF Creation, DispatchJob, Awaited
<1>2. jobs \in Seq(Job) /\ jobs[k] \in Job
  BY <1>1 DEF Creation, JobIds
<1>3. c \in Call /\ c.pc = "created" /\ c.job = k /\ call' = [call EXCEPT ![p] = c]
  BY <1>1 DEF Call, CallPC, DispatchJob
<1>4. PICK new \in Job : /\ jobs' = [jobs EXCEPT ![k] = new]
                          /\ new.owner = jobs[k].owner /\ new.key = jobs[k].key
                          /\ new.about = jobs[k].about /\ new.sent <= 1
  <2>1. CASE jobs' = [jobs EXCEPT ![k].sent = @ + 1]
    <3>. DEFINE sent == [jobs[k] EXCEPT !.sent = 1]
    <3>1. jobs[k].sent + 1 = 1
      BY <1>1
    <3>2. jobs' = [jobs EXCEPT ![k] = [jobs[k] EXCEPT !.sent = jobs[k].sent + 1]]
      BY <2>1, Zenon
    <3>3. jobs' = [jobs EXCEPT ![k] = sent]
      BY <3>1, <3>2, Zenon
    <3>4. /\ sent \in Job /\ sent.sent <= 1
          /\ sent.owner = jobs[k].owner /\ sent.key = jobs[k].key /\ sent.about = jobs[k].about
      BY <1>2, SMTT(30) DEF Job
    <3>. HIDE DEF sent
    <3>. QED  BY <3>3, <3>4, Zenon
  <2>2. CASE jobs' = [jobs EXCEPT ![k].status = "DISPATCH_FAILED"]
    <3>. DEFINE failed == [jobs[k] EXCEPT !.status = "DISPATCH_FAILED"]
    <3>1. jobs' = [jobs EXCEPT ![k] = failed]
      BY <2>2, Zenon
    <3>2. /\ failed \in Job /\ failed.sent <= 1
          /\ failed.owner = jobs[k].owner /\ failed.key = jobs[k].key
          /\ failed.about = jobs[k].about
      BY <1>1, <1>2 DEF Job
    <3>. HIDE DEF failed
    <3>. QED  BY <3>1, <3>2, Zenon
  <2>. QED  BY <2>1, <2>2 DEF DispatchJob
<1>. HIDE DEF c
<1>5. /\ jobs' \in Seq(Job) /\ JobIds' = JobIds
      /\ \A j \in JobIds : jobs'[j] = IF j = k THEN new ELSE jobs[j]
  BY <1>1, <1>2, <1>4 DEF JobIds
<1>6. call' \in [Callers -> Call] /\ \A q \in Callers : call'[q] = IF q = p THEN c ELSE call[q]
  BY <1>3 DEF Creation
<1>7. Labelled'
  BY <1>3, <1>4, <1>5, <1>6 DEF Creation, Labelled, Creating, FiringKey
<1>8. Unique'
  BY <1>4, <1>5 DEF Creation, Unique
<1>9. Awaited'
  <2>1. \A j \in JobIds' : jobs'[j].sent <= 1
    BY <1>4, <1>5 DEF Creation, Awaited
  <2>2. \A q \in Callers : call'[q].pc = "dispatch" => q # p /\ call'[q] = call[q]
    BY <1>3, <1>6
  <2>3. \A q \in Callers : q # p /\ call[q].pc = "dispatch" => call[q].job # k
    BY <1>1 DEF Creation, Awaited
  <2>4. \A q \in Callers : call'[q].pc \in {"dispatch", "created"} => call'[q].job \in JobIds
    BY <1>1, <1>3, <1>6 DEF Creation, Awaited
  <2>. QED  BY <1>5, <2>1, <2>2, <2>3, <2>4 DEF Creation, Awaited
<1>. QED  BY <1>5, <1>6, <1>7, <1>8, <1>9 DEF Creation

LEMMA CreateStepKeeps ==
  ASSUME Creation, NEW p \in Callers, CreateStep(p)
  PROVE  Creation'
  BY LookupStep, InsertStep, DispatchStep DEF CreateStep

\* A call just begun bears the key and the firing its caller gave it.
LEMMA BeginStep ==
  ASSUME Creation, NEW p \in Callers, NEW o \in {System, Operator}, NEW k \in Key,
         NEW about \in About, BeginCreate(p, o, k, about), UNCHANGED jobs,
         o = System => k = FiringKey(about)
  PROVE  Creation'
<1>. DEFINE c == [NoCall EXCEPT !.pc = "lookup", !.owner = o, !.key = k, !.about = about]
<1>1. c \in Call /\ c.pc = "lookup" /\ c.owner = o /\ c.key = k /\ c.about = about
  BY DEF NoCall, Call, CallPC, NoJob
<1>2. call' = [call EXCEPT ![p] = c]
  BY DEF BeginCreate
<1>. HIDE DEF c
<1>. QED  BY <1>1, <1>2, CallSet DEF Creating

LEMMA EndStep ==
  ASSUME Creation, NEW p \in Callers, call' = [call EXCEPT ![p] = NoCall], UNCHANGED jobs
  PROVE  Creation'
<1>1. NoCall.pc = "none"
  BY DEF NoCall
<1>. QED  BY <1>1, NoCallType, CallSet DEF Creating

-----------------------------------------------------------------------------
(* The steps.                                                              *)

LEMMA InitInv == Init => Inv
<1>. SUFFICES ASSUME Init PROVE Inv
  OBVIOUS
<1>1. Types
  <2>1. now \in Nat
    BY DEF Init
  <2>2. row \in [Tasks -> RowType]
    <3>1. [NoRow EXCEPT !.enabled = TRUE] \in RowType
      BY DEF NoRow, RowType, TaskStatus
    <3>. QED  BY <3>1 DEF Init
  <2>3. Idle \in Exec /\ Idle.pc = "idle"
    BY DEF Idle, Exec, RowType, NoRow, TaskStatus
  <2>4. exec = [p \in Processes |-> Idle]
    BY DEF Init
  <2>. QED  BY <2>1, <2>2, <2>3, <2>4 DEF Types
<1>2. Creation
  <2>1. jobs = <<>> /\ call = [p \in Callers |-> NoCall]
    BY DEF Init, CreationInit
  <2>2. JobIds = {} /\ jobs \in Seq(Job)
    BY <2>1 DEF JobIds
  <2>3. NoCall.pc = "none"
    BY DEF NoCall
  <2>. QED  BY <2>1, <2>2, <2>3, NoCallType DEF Creation, Labelled, Unique, Awaited, Creating
<1>. QED  BY <1>1, <1>2 DEF Inv

LEMMA FireStep ==
  ASSUME Inv, NEW p \in Ticks, Fire(p)
  PROVE  Inv'
<1>1. p \in Processes
  BY DEF Processes
<1>2. PICK t \in Tasks :
        /\ Period[t] > 0
        /\ LET new == [row[t] EXCEPT !.next = NextRun(t, row[t].next)]
           IN  /\ row' = [row EXCEPT ![t] = new]
               /\ Become(p, [pc |-> "module", task |-> t, due |-> row[t].next,
                             row |-> new, left |-> exec[p].left - 1])
  BY DEF Fire, Due
<1>3. PICK n \in Nat : n = NextRun(t, row[t].next)
  BY SchedulerAssumption DEF NextRun, SchedulerAssumption, Inv, Types
<1>4. PICK l \in Nat : l = exec[p].left - 1
  BY <1>1 DEF Fire, Inv, Types, Exec
<1>. DEFINE new == [row[t] EXCEPT !.next = n]
            e == [pc |-> "module", task |-> t, due |-> row[t].next, row |-> new, left |-> l]
<1>5. row' = [row EXCEPT ![t] = new] /\ Become(p, e)
  BY <1>2, <1>3, <1>4, Zenon
<1>6. row[t] \in RowType /\ new \in RowType
  BY DEF Inv, Types, RowType
<1>7. e \in Exec /\ e.task \in Tasks
  BY <1>6, SchedulerAssumption DEF Exec, RowType, SchedulerAssumption
<1>. HIDE DEF new, e
<1>8. row' \in [Tasks -> RowType]
  BY <1>5, <1>6 DEF Inv, Types
<1>9. Types'
  BY <1>1, <1>5, <1>7, <1>8, ExecType DEF Fire, Inv, Types
<1>10. Creation'
  BY CreationUnchanged DEF Fire, Inv, creationVars
<1>. QED  BY <1>9, <1>10 DEF Inv

LEMMA DisableStep ==
  ASSUME Inv, NEW p \in Ticks, DisableInvalid(p)
  PROVE  Inv'
<1>1. p \in Processes /\ exec[p] \in Exec /\ exec[p].pc = "pick"
  BY DEF Processes, Inv, Types, DisableInvalid
<1>2. PICK t \in Tasks :
        row' = [row EXCEPT ![t].enabled = FALSE, ![t].status = "FAILED"]
  BY DEF DisableInvalid, Due
<1>. DEFINE new == [[row[t] EXCEPT !.enabled = FALSE] EXCEPT !.status = "FAILED"]
<1>3. new \in RowType
  BY DEF Inv, Types, RowType, TaskStatus
<1>4. row' \in [Tasks -> RowType]
  BY <1>2, <1>3 DEF Inv, Types
<1>5. PICK l \in Nat : l = exec[p].left - 1
  BY <1>1 DEF DisableInvalid, Exec
<1>. DEFINE e == [exec[p] EXCEPT !.left = l]
<1>6. Become(p, [exec[p] EXCEPT !.left = exec[p].left - 1])
  BY Zenon DEF DisableInvalid
<1>7. Become(p, e)
  BY <1>5, <1>6, Zenon
<1>8. e \in Exec /\ e.pc = "pick"
  BY <1>1 DEF Exec
<1>. HIDE DEF e
<1>9. Types'
  BY <1>1, <1>4, <1>7, <1>8, ExecType DEF DisableInvalid, Inv, Types
<1>10. Creation'
  BY CreationUnchanged DEF DisableInvalid, Inv, creationVars
<1>. QED  BY <1>9, <1>10 DEF Inv

\* A session at work on a task: the task is there and so is its row.
LEMMA AtWork ==
  ASSUME Inv, NEW p \in Processes, exec[p].pc \in {"module", "create", "patch"}
  PROVE  /\ exec[p] \in Exec /\ exec[p].task \in Tasks /\ exec[p].due \in Nat
         /\ exec[p].row \in RowType /\ exec[p].left \in Nat /\ p \in Callers
  BY SchedulerAssumption DEF Inv, Types, Exec, Processes, SchedulerAssumption

\* The end of a piece of work: a user's request is over, a tick goes on.
LEMMA ReturnExec ==
  ASSUME Inv, NEW p \in Processes, NEW n \in Nat,
         NEW l \in {"idle", "pick", "done"}, Become(p, [Idle EXCEPT !.pc = l, !.left = n])
  PROVE  /\ exec' \in [Processes -> Exec]
         /\ \A q \in Processes :
              exec'[q].pc \in {"module", "create", "patch"} => exec'[q].task \in Tasks
<1>. DEFINE e == [Idle EXCEPT !.pc = l, !.left = n]
<1>1. e \in Exec /\ e.pc = l
  BY RestType DEF Idle
<1>. HIDE DEF e
<1>. QED  BY <1>1, ExecType DEF Inv, e

LEMMA IdleExec ==
  ASSUME Inv, NEW p \in Processes, Become(p, Idle)
  PROVE  /\ exec' \in [Processes -> Exec]
         /\ \A q \in Processes :
              exec'[q].pc \in {"module", "create", "patch"} => exec'[q].task \in Tasks
<1>1. Idle \in Exec /\ Idle.pc = "idle"
  BY DEF Idle, Exec, RowType, NoRow, TaskStatus
<1>. QED  BY <1>1, ExecType DEF Inv

LEMMA DoneExec ==
  ASSUME Inv, NEW p \in Processes, Become(p, Done)
  PROVE  /\ exec' \in [Processes -> Exec]
         /\ \A q \in Processes :
              exec'[q].pc \in {"module", "create", "patch"} => exec'[q].task \in Tasks
<1>1. Done \in Exec /\ Done.pc = "done"
  BY DEF Done, Idle, Exec, RowType, NoRow, TaskStatus
<1>. QED  BY <1>1, ExecType DEF Inv

LEMMA ReturnStep ==
  ASSUME Inv, NEW p \in Processes, Return(p), exec[p].left \in Nat
  PROVE  /\ exec' \in [Processes -> Exec]
         /\ \A q \in Processes :
              exec'[q].pc \in {"module", "create", "patch"} => exec'[q].task \in Tasks
<1>1. CASE p \in Users
  BY <1>1, DoneExec DEF Return
<1>2. CASE p \notin Users
  BY <1>2, ReturnExec DEF Return, NextTask
<1>. QED  BY <1>1, <1>2

LEMMA CheckModuleStep ==
  ASSUME Inv, NEW p \in Ticks, CheckModule(p)
  PROVE  Inv'
<1>1. p \in Processes /\ exec[p].pc = "module"
  BY DEF Processes, CheckModule
<1>2. /\ exec[p] \in Exec /\ exec[p].task \in Tasks /\ exec[p].due \in Nat
      /\ exec[p].row \in RowType /\ exec[p].left \in Nat /\ p \in Callers
  BY <1>1, AtWork
<1>3. CASE module
  <2>. DEFINE e == [exec[p] EXCEPT !.pc = "create"]
  <2>1. Become(p, e) /\ UNCHANGED <<row, now, jobs>>
    BY <1>3 DEF CheckModule
  <2>2. e \in Exec /\ e.task \in Tasks
    BY <1>2 DEF Exec
  <2>. HIDE DEF e
  <2>3. Types'
    BY <1>1, <2>1, <2>2, ExecType DEF Inv, Types
  <2>4. BeginCreate(p, System, IdempotencyKey(p), Firing(p))
    BY <1>3 DEF CheckModule
  <2>5. /\ IdempotencyKey(p) \in Key /\ Firing(p) \in About
        /\ IdempotencyKey(p) = FiringKey(Firing(p))
    BY <1>2 DEF IdempotencyKey, Firing, Key, About, FiringKey
  <2>. QED  BY <1>2, <2>1, <2>3, <2>4, <2>5, BeginStep DEF Inv
<1>4. CASE ~module
  <2>. DEFINE new == [exec[p].row EXCEPT !.status = "SKIPPED"]
  <2>1. Save(exec[p].task, exec[p].row, new) /\ UNCHANGED <<call, jobs, now>>
    BY <1>4 DEF CheckModule
  <2>2. new \in RowType
    BY <1>2 DEF RowType, TaskStatus
  <2>. HIDE DEF new
  <2>3. row' \in [Tasks -> RowType]
    BY <1>2, <2>1, <2>2, SaveType DEF Inv
  <2>4. Become(p, [Idle EXCEPT !.pc = "pick", !.left = exec[p].left])
    BY <1>4 DEF CheckModule
  <2>5. Types'
    BY <1>1, <1>2, <2>1, <2>3, <2>4, ReturnExec DEF Inv, Types
  <2>. QED  BY <2>1, <2>5, CreationUnchanged DEF Inv
<1>. QED  BY <1>3, <1>4

LEMMA CreateKeeps ==
  ASSUME Inv, NEW p \in Processes, Create(p)
  PROVE  Inv'
<1>1. exec[p].pc = "create" /\ UNCHANGED <<now, row>>
  BY DEF Create
<1>2. exec[p] \in Exec /\ exec[p].task \in Tasks /\ p \in Callers
  BY <1>1, AtWork
<1>3. Creation'
  BY <1>2, CreateStepKeeps DEF Create, Inv
<1>4. CASE exec' = exec
  BY <1>1, <1>3, <1>4 DEF Inv, Types
<1>5. CASE exec' = [exec EXCEPT ![p].row = Expired]
  <2>. DEFINE e == [exec[p] EXCEPT !.row = Expired]
  <2>1. Become(p, e)
    BY <1>5, Zenon DEF Become
  <2>2. Expired \in RowType
    BY DEF Expired, NoRow, RowType
  <2>3. e \in Exec /\ e.task \in Tasks
    BY <1>2, <2>2 DEF Exec
  <2>. HIDE DEF e
  <2>. QED  BY <1>1, <1>3, <2>1, <2>3, ExecType DEF Inv, Types
<1>. QED  BY <1>4, <1>5 DEF Create

LEMMA CreateFailsStep ==
  ASSUME Inv, NEW p \in Processes, CreateFails(p)
  PROVE  Inv'
<1>1. exec[p].pc = "create" /\ Return(p) /\ UNCHANGED <<jobs, now>>
  BY DEF CreateFails
<1>2. /\ exec[p].task \in Tasks /\ exec[p].row \in RowType /\ exec[p].left \in Nat
      /\ p \in Callers
  BY <1>1, AtWork
<1>. DEFINE new == [exec[p].row EXCEPT !.status = "FAILED"]
<1>3. Save(exec[p].task, exec[p].row, new)
  BY DEF CreateFails
<1>4. new \in RowType
  BY <1>2 DEF RowType, TaskStatus
<1>. HIDE DEF new
<1>5. row' \in [Tasks -> RowType]
  BY <1>2, <1>3, <1>4, SaveType DEF Inv
<1>6. Types'
  BY <1>1, <1>2, <1>5, ReturnStep DEF Inv, Types
<1>7. Creation'
  BY <1>1, <1>2, EndStep DEF Return, Inv
<1>. QED  BY <1>6, <1>7 DEF Inv

LEMMA RecordJobStep ==
  ASSUME Inv, NEW p \in Processes, RecordJob(p)
  PROVE  Inv'
<1>1. /\ exec[p].pc = "create" /\ Return(p) /\ UNCHANGED <<jobs, now>>
      /\ call[p].pc = "created"
  BY DEF RecordJob
<1>2. /\ exec[p].task \in Tasks /\ exec[p].row \in RowType /\ exec[p].left \in Nat
      /\ p \in Callers
  BY <1>1, AtWork
<1>3. jobs[call[p].job] \in Job
  BY <1>1, <1>2 DEF Inv, Creation, Awaited, JobIds
<1>. DEFINE new == [exec[p].row EXCEPT !.status = jobs[call[p].job].status]
<1>4. Save(exec[p].task, exec[p].row, new)
  BY DEF RecordJob
<1>5. new \in RowType
  BY <1>2, <1>3 DEF RowType, TaskStatus, Job
<1>. HIDE DEF new
<1>6. row' \in [Tasks -> RowType]
  BY <1>2, <1>4, <1>5, SaveType DEF Inv
<1>7. Types'
  BY <1>1, <1>2, <1>6, ReturnStep DEF Inv, Types
<1>8. Creation'
  BY <1>1, <1>2, EndStep DEF Return, Inv
<1>. QED  BY <1>7, <1>8 DEF Inv

LEMMA RunNowStep ==
  ASSUME Inv, NEW u \in Users, RunNow(u)
  PROVE  Inv'
<1>1. u \in Processes /\ u \in Callers
  BY SchedulerAssumption DEF Processes, SchedulerAssumption
<1>2. PICK t \in Tasks :
        /\ Become(u, [Idle EXCEPT !.pc = "create", !.task = t, !.due = now, !.row = row[t]])
        /\ BeginCreate(u, Operator, <<"manual", t, now>>, <<t, now>>)
  BY DEF RunNow
<1>. DEFINE e == [Idle EXCEPT !.pc = "create", !.task = t, !.due = now, !.row = row[t]]
<1>3. now \in Nat /\ t \in Nat /\ row[t] \in RowType
  BY SchedulerAssumption DEF Inv, Types, SchedulerAssumption
<1>4. e \in Exec /\ e.task = t
  BY <1>3 DEF Idle, Exec
<1>5. <<"manual", t, now>> \in Key /\ <<t, now>> \in About
  BY <1>3 DEF Key, About
<1>6. Creation'
  BY <1>1, <1>2, <1>5, BeginStep DEF RunNow, Inv, System, Operator
<1>7. Types'
  <2>. HIDE DEF e
  <2>1. Become(u, e)
    BY <1>2 DEF e
  <2>. QED  BY <1>1, <1>4, <2>1, ExecType DEF RunNow, Inv, Types
<1>. QED  BY <1>6, <1>7 DEF Inv

LEMMA LoadTaskStep ==
  ASSUME Inv, NEW u \in Users, LoadTask(u)
  PROVE  Inv'
<1>1. u \in Processes
  BY DEF Processes
<1>2. PICK t \in Tasks : Become(u, [Idle EXCEPT !.pc = "patch", !.task = t, !.row = row[t]])
  BY DEF LoadTask
<1>. DEFINE e == [Idle EXCEPT !.pc = "patch", !.task = t, !.row = row[t]]
<1>3. t \in Nat /\ row[t] \in RowType
  BY SchedulerAssumption DEF Inv, Types, SchedulerAssumption
<1>4. e \in Exec /\ e.task = t
  BY <1>3 DEF Idle, Exec
<1>5. Become(u, e)
  BY <1>2
<1>. HIDE DEF e
<1>6. Types'
  BY <1>1, <1>4, <1>5, ExecType DEF LoadTask, Inv, Types
<1>. QED  BY <1>6, CreationUnchanged DEF LoadTask, Inv, creationVars

LEMMA PatchTaskStep ==
  ASSUME Inv, NEW u \in Users, PatchTask(u)
  PROVE  Inv'
<1>1. u \in Processes /\ exec[u].pc = "patch"
  BY DEF Processes, PatchTask
<1>2. exec[u].task \in Tasks /\ exec[u].row \in RowType
  BY <1>1, AtWork
<1>3. PICK new \in RowType : Save(exec[u].task, exec[u].row, new)
  <2>1. CASE Save(exec[u].task, exec[u].row, [exec[u].row EXCEPT !.enabled = ~@])
    <3>1. PICK b \in BOOLEAN : b = ~exec[u].row.enabled
      BY Zenon
    <3>2. [exec[u].row EXCEPT !.enabled = b] \in RowType
      BY <1>2 DEF RowType
    <3>. QED  BY <2>1, <3>1, <3>2, Zenon
  <2>2. CASE \E n \in 0 .. Horizon :
               Save(exec[u].task, exec[u].row, [exec[u].row EXCEPT !.next = n])
    <3>1. PICK n \in 0 .. Horizon :
             Save(exec[u].task, exec[u].row, [exec[u].row EXCEPT !.next = n])
      BY <2>2
    <3>2. [exec[u].row EXCEPT !.next = n] \in RowType
      BY <1>2 DEF RowType
    <3>. QED  BY <3>1, <3>2
  <2>. QED  BY <2>1, <2>2 DEF PatchTask
<1>4. row' \in [Tasks -> RowType]
  BY <1>2, <1>3, SaveType DEF Inv
<1>5. Types'
  BY <1>1, <1>4, DoneExec DEF PatchTask, Inv, Types
<1>. QED  BY <1>5, CreationUnchanged DEF PatchTask, Inv, creationVars

LEMMA TickDiesStep ==
  ASSUME Inv, NEW p \in Ticks, TickDies(p)
  PROVE  Inv'
<1>1. p \in Processes /\ p \in Callers
  BY SchedulerAssumption DEF Processes, SchedulerAssumption
<1>2. Types'
  BY <1>1, IdleExec DEF TickDies, Inv, Types
<1>. QED  BY <1>1, <1>2, EndStep DEF TickDies, Inv

-----------------------------------------------------------------------------
LEMMA StepInv == Inv /\ [Next]_vars => Inv'
<1>. SUFFICES ASSUME Inv, [Next]_vars PROVE Inv'
  OBVIOUS
<1>1. ASSUME NEW p \in Ticks, Beat(p) PROVE Inv'
  <2>1. Become(p, [Idle EXCEPT !.pc = "pick", !.left = TickLimit])
    BY <1>1 DEF Beat
  <2>2. Types'
    BY <1>1, <2>1, ReturnExec, SchedulerAssumption
    DEF Beat, Inv, Types, Processes, SchedulerAssumption
  <2>. QED  BY <1>1, <2>2, CreationUnchanged DEF Beat, Inv, creationVars
<1>2. ASSUME NEW p \in Ticks, Exhausted(p) PROVE Inv'
  <2>1. Types'
    BY <1>2, IdleExec DEF Exhausted, Inv, Types, Processes
  <2>. QED  BY <1>2, <2>1, CreationUnchanged DEF Exhausted, Inv, creationVars
<1>3. ASSUME NEW p \in Processes, Create(p) \/ CreateFails(p) \/ RecordJob(p) PROVE Inv'
  BY <1>3, CreateKeeps, CreateFailsStep, RecordJobStep
<1>4. ASSUME NEW p \in Ticks, RunDue(p) \/ TickDies(p) PROVE Inv'
  BY <1>1, <1>2, <1>3, <1>4, FireStep, DisableStep, CheckModuleStep, TickDiesStep
  DEF RunDue, Processes
<1>5. ASSUME NEW u \in Users, Request(u) PROVE Inv'
  BY <1>3, <1>5, RunNowStep, LoadTaskStep, PatchTaskStep DEF Request, Processes
<1>6. CASE Clock
  BY <1>6, CreationUnchanged DEF Clock, Inv, Types, creationVars
<1>7. CASE SwitchModule
  BY <1>7, CreationUnchanged DEF SwitchModule, Inv, Types, creationVars
<1>8. CASE UNCHANGED vars
  BY <1>8, CreationUnchanged DEF vars, Inv, Types, creationVars
<1>. QED  BY <1>4, <1>5, <1>6, <1>7, <1>8 DEF Next

\* One user's key names one job, and the job is dispatched once, however the
\* calls of create_job interleave.
THEOREM OneOperation == Spec => []SameOperation
<1>1. Inv => SameOperation
  BY DEF Inv, Creation, Unique, Awaited, SameOperation
<1>. QED  BY <1>1, InitInv, StepInv, PTL DEF Spec

\* One firing of a task makes one job, whatever the ticks, the users who set
\* the firing back and the ticks that die.
THEOREM OneJob == Spec => []OneJobPerFiring
<1>1. Inv => OneJobPerFiring
  BY DEF Inv, Creation, Unique, Labelled, OneJobPerFiring
<1>. QED  BY <1>1, InitInv, StepInv, PTL DEF Spec

-----------------------------------------------------------------------------
(* What fires, fires once and has an outcome.                              *)

Firings == fired \subseteq [task : Tasks, due : Nat, at : Nat]

\* Nobody but a user sets a firing back.
Ahead == \A f \in fired : f.task \notin patched => f.at < row[f.task].next

\* Every status in a row is one that was meant to be there.
RowsTold == /\ now \in 0 .. Horizon
            /\ \A t \in Tasks : row[t].status \in TaskStatus
            /\ \A p \in Processes : exec[p].pc = "create" => call[p].pc # "none"

FiringInv == Inv /\ Firings /\ FiresOnce /\ Ahead /\ RowsTold

AtFiring(p) == exec[p].pc \in {"module", "create"}

\* A session that writes a status leaves the next firing to the row.
LEMMA StatusSaved ==
  ASSUME Inv, NEW t \in Tasks, NEW loaded \in RowType, NEW new \in RowType,
         Save(t, loaded, new)
  PROVE  /\ new.next = loaded.next => \A u \in Tasks : row'[u].next = row[u].next
         /\ \A u \in Tasks : u # t => row'[u] = row[u]
         /\ row'[t].status = (IF new.status = loaded.status THEN row[t].status ELSE new.status)
<1>. DEFINE saved == [c \in DOMAIN NoRow |-> IF new[c] = loaded[c] THEN row[t][c] ELSE new[c]]
<1>1. row' = [row EXCEPT ![t] = saved]
  BY DEF Save
<1>2. DOMAIN NoRow = {"enabled", "next", "status"}
  BY DEF NoRow
<1>3. /\ saved.next = IF new.next = loaded.next THEN row[t].next ELSE new.next
      /\ saved.status = IF new.status = loaded.status THEN row[t].status ELSE new.status
  BY <1>2
<1>. HIDE DEF saved
<1>. QED  BY <1>1, <1>3 DEF Inv, Types

LEMMA Become1 ==
  ASSUME Inv, NEW p \in Processes, NEW e, Become(p, e)
  PROVE  \A q \in Processes : exec'[q] = IF q = p THEN e ELSE exec[q]
  BY DEF Inv, Types, Become

\* A step that fires nothing and moves no next firing keeps FiresOnce, if the
\* firings in hand stay in hand or are settled.
LEMMA FiringsKept ==
  ASSUME FiringInv, UNCHANGED fired, now' \in Nat,
         ended \subseteq ended', lost \subseteq lost', patched \subseteq patched',
         \A t \in Tasks : t \notin patched' => row'[t].next = row[t].next,
         \A p \in Ticks : AtFiring(p)
            => (AtFiring(p)' /\ Firing(p)' = Firing(p)) \/ Firing(p) \in ended' \cup lost'
  PROVE  Firings' /\ FiresOnce' /\ Ahead'
<1>1. Firings'
  BY DEF FiringInv, Firings
<1>2. \A f \in fired : f.task \in Tasks
  BY DEF FiringInv, Firings
<1>3. Ahead'
  BY <1>2 DEF FiringInv, Ahead
<1>4. NoBurstAfterOutage'
  BY DEF FiringInv, FiresOnce, NoBurstAfterOutage
<1>5. FiringAccounted'
  <2>1. SUFFICES ASSUME NEW f \in fired
                 PROVE  \/ <<f.task, f.due>> \in ended' \cup lost'
                        \/ \E p \in Ticks : AtFiring(p)' /\ Firing(p)' = <<f.task, f.due>>
    BY DEF FiringAccounted, AtFiring
  <2>2. CASE <<f.task, f.due>> \in ended \cup lost
    BY <2>2
  <2>3. CASE \E p \in Ticks : AtFiring(p) /\ Firing(p) = <<f.task, f.due>>
    BY <2>3
  <2>. QED
    BY <2>2, <2>3 DEF FiringInv, FiresOnce, FiringAccounted, AtFiring
<1>. QED  BY <1>1, <1>3, <1>4, <1>5 DEF FiresOnce

\* The session that acts is the only one whose firing may end.
LEMMA OthersInHand ==
  ASSUME Inv, NEW p \in Processes, NEW e, Become(p, e)
  PROVE  /\ \A q \in Processes : q # p =>
              exec'[q] = exec[q] /\ AtFiring(q)' = AtFiring(q) /\ Firing(q)' = Firing(q)
         /\ exec'[p] = e
  BY Become1 DEF AtFiring, Firing

LEMMA FireFires ==
  ASSUME FiringInv, NEW p \in Ticks, Fire(p)
  PROVE  Firings' /\ FiresOnce' /\ Ahead'
<1>1. p \in Processes /\ Inv /\ now \in Nat
  BY DEF Processes, FiringInv, Inv, Types
<1>2. PICK t \in Due :
        LET new == [row[t] EXCEPT !.next = NextRun(t, row[t].next)]
        IN  /\ Period[t] > 0
            /\ row' = [row EXCEPT ![t] = new]
            /\ Become(p, [pc |-> "module", task |-> t, due |-> row[t].next,
                          row |-> new, left |-> exec[p].left - 1])
            /\ fired' = fired \cup {[task |-> t, due |-> row[t].next, at |-> now]}
  BY DEF Fire
<1>. DEFINE x == [task |-> t, due |-> row[t].next, at |-> now]
            new == [row[t] EXCEPT !.next = NextRun(t, row[t].next)]
            e == [pc |-> "module", task |-> t, due |-> row[t].next,
                  row |-> new, left |-> exec[p].left - 1]
<1>3. t \in Tasks /\ row[t] \in RowType /\ row[t].next \in Nat /\ row[t].next <= now
  BY <1>1, <1>2 DEF Due, Inv, Types, RowType
<1>4. new.next = now + Period[t] /\ Period[t] \in Nat /\ now + Period[t] > now
  BY <1>1, <1>2, <1>3, SchedulerAssumption DEF NextRun, SchedulerAssumption, RowType
<1>5. /\ fired' = fired \cup {x} /\ UNCHANGED <<now, ended, lost, patched>>
      /\ Become(p, e) /\ row' = [row EXCEPT ![t] = new] /\ exec[p].pc = "pick"
  BY <1>2 DEF Fire
<1>6. x \in [task : Tasks, due : Nat, at : Nat] /\ x.task = t /\ x.due = row[t].next /\ x.at = now
  BY <1>1, <1>3
<1>7. e.pc = "module" /\ e.task = t /\ e.due = row[t].next
  OBVIOUS
<1>. HIDE DEF x, new, e
<1>8. \A u \in Tasks : row'[u].next = IF u = t THEN now + Period[t] ELSE row[u].next
  BY <1>1, <1>3, <1>4, <1>5 DEF Inv, Types
<1>9. Firings'
  BY <1>5, <1>6 DEF FiringInv, Firings
<1>10. \A f \in fired : f.task \in Tasks /\ f.at \in Nat
  BY DEF FiringInv, Firings
<1>11. \A f \in fired : f.task \notin patched /\ f.task = t => f.at < now
  BY <1>1, <1>3, <1>10 DEF FiringInv, Ahead
<1>12. Ahead'
  BY <1>1, <1>4, <1>5, <1>6, <1>8, <1>10, <1>11 DEF FiringInv, Ahead
<1>13. NoBurstAfterOutage'
  BY <1>1, <1>5, <1>6, <1>10, <1>11 DEF FiringInv, FiresOnce, NoBurstAfterOutage
<1>14. FiringAccounted'
  <2>1. SUFFICES ASSUME NEW f \in fired'
                 PROVE  \/ <<f.task, f.due>> \in ended' \cup lost'
                        \/ \E q \in Ticks : AtFiring(q)' /\ Firing(q)' = <<f.task, f.due>>
    BY DEF FiringAccounted, AtFiring
  <2>2. CASE f = x
    <3>1. exec'[p] = e
      BY <1>1, <1>5, Become1
    <3>. QED  BY <1>6, <1>7, <2>2, <3>1 DEF AtFiring, Firing
  <2>3. CASE f \in fired
    <3>1. CASE <<f.task, f.due>> \in ended \cup lost
      BY <1>5, <3>1
    <3>2. CASE \E q \in Ticks : AtFiring(q) /\ Firing(q) = <<f.task, f.due>>
      <4>1. PICK q \in Ticks : AtFiring(q) /\ Firing(q) = <<f.task, f.due>>
        BY <3>2
      <4>2. q # p /\ q \in Processes
        BY <1>5, <4>1 DEF AtFiring, Processes
      <4>. QED  BY <1>1, <1>5, <4>1, <4>2, OthersInHand
    <3>. QED
      BY <2>3, <3>1, <3>2 DEF FiringInv, FiresOnce, FiringAccounted, AtFiring
  <2>. QED  BY <1>5, <2>2, <2>3
<1>. QED  BY <1>9, <1>12, <1>13, <1>14 DEF FiresOnce

LEMMA JobStatusTold ==
  ASSUME Inv, NEW p \in Callers, call[p].pc = "created"
  PROVE  jobs[call[p].job].status \in TaskStatus
<1>1. call[p].job \in JobIds /\ jobs \in Seq(Job)
  BY DEF Inv, Creation, Awaited
<1>2. jobs[call[p].job] \in Job
  BY <1>1 DEF JobIds
<1>. QED  BY <1>2 DEF Job, TaskStatus

\* create_job's steps and the saves of a status keep the firings in hand, or settle them.
LEMMA WorkFires ==
  ASSUME FiringInv, NEW p \in Processes, CheckModule(p) \/ Create(p) \/ CreateFails(p) \/ RecordJob(p)
  PROVE  Firings' /\ FiresOnce' /\ Ahead'
<1>. USE DEF FiringInv
<1>1. /\ exec[p] \in Exec /\ exec[p].task \in Tasks /\ exec[p].row \in RowType
      /\ now \in Nat /\ p \in Callers
  BY AtWork DEF CheckModule, Create, CreateFails, RecordJob, Inv, Types
<1>2. ASSUME NEW e, Become(p, e),
             UNCHANGED <<now, fired, lost, patched>>, ended \subseteq ended',
             \A t \in Tasks : row'[t].next = row[t].next,
             \/ e.pc = "create" /\ e.task = exec[p].task /\ e.due = exec[p].due
             \/ Firing(p) \in ended'
      PROVE  Firings' /\ FiresOnce' /\ Ahead'
  <2>1. \A q \in Ticks : q \in Processes
    BY DEF Processes
  <2>2. exec'[p] = e
    BY <1>2, Become1
  <2>3. e.pc = "create" /\ e.task = exec[p].task /\ e.due = exec[p].due
           => AtFiring(p)' /\ Firing(p)' = Firing(p)
    BY <2>2 DEF AtFiring, Firing
  <2>4. \A q \in Ticks : AtFiring(q)
           => (AtFiring(q)' /\ Firing(q)' = Firing(q)) \/ Firing(q) \in ended' \cup lost'
    BY <1>2, <2>1, <2>3, OthersInHand
  <2>. QED  BY <1>1, <1>2, <2>4, FiringsKept
<1>3. ASSUME NEW st \in TaskStatus, NEW e,
             Save(exec[p].task, exec[p].row, [exec[p].row EXCEPT !.status = st]),
             Settle(p), Become(p, e), UNCHANGED <<now, fired, lost, patched>>
      PROVE  Firings' /\ FiresOnce' /\ Ahead'
  <2>. DEFINE new == [exec[p].row EXCEPT !.status = st]
  <2>1. new \in RowType /\ new.next = exec[p].row.next
    BY <1>1 DEF RowType
  <2>. HIDE DEF new
  <2>2. \A t \in Tasks : row'[t].next = row[t].next
    <3>1. Save(exec[p].task, exec[p].row, new)
      BY <1>3 DEF new
    <3>. QED  BY <1>1, <2>1, <3>1, StatusSaved
  <2>3. ended \subseteq ended' /\ Firing(p) \in ended'
    BY <1>3 DEF Settle
  <2>. QED  BY <1>2, <1>3, <2>2, <2>3
<1>4. \A q \in {p} : Return(q) => \E e : Become(q, e)
  BY DEF Return, NextTask
<1>5. CASE CheckModule(p)
  <2>1. CASE module
    <3>. DEFINE e == [exec[p] EXCEPT !.pc = "create"]
    <3>1. Become(p, e) /\ UNCHANGED <<now, fired, lost, patched, ended, row>>
      BY <1>5, <2>1 DEF CheckModule
    <3>2. e.pc = "create" /\ e.task = exec[p].task /\ e.due = exec[p].due
      BY <1>1 DEF Exec
    <3>. HIDE DEF e
    <3>. QED  BY <1>2, <3>1, <3>2
  <2>2. CASE ~module
    BY <1>3, <1>5, <2>2 DEF CheckModule, TaskStatus
  <2>. QED  BY <2>1, <2>2
<1>6. CASE Create(p)
  <2>1. PICK e \in {exec[p], [exec[p] EXCEPT !.row = Expired]} : Become(p, e)
    <3>1. CASE exec' = exec
      <4>1. Become(p, exec[p])
        BY <3>1 DEF Become, Inv, Types
      <4>. QED  BY <4>1
    <3>2. CASE exec' = [exec EXCEPT ![p].row = Expired]
      BY <3>2, Zenon DEF Become
    <3>. QED  BY <1>6, <3>1, <3>2 DEF Create
  <2>2. e.pc = "create" /\ e.task = exec[p].task /\ e.due = exec[p].due
    BY <1>1, <1>6 DEF Create, Exec
  <2>3. UNCHANGED <<now, row, fired, lost, patched, ended>>
    BY <1>6 DEF Create, history
  <2>. QED  BY <1>2, <2>1, <2>2, <2>3
<1>7. CASE CreateFails(p)
  <2>1. "FAILED" \in TaskStatus
    BY DEF TaskStatus
  <2>. QED  BY <1>3, <1>4, <1>7, <2>1 DEF CreateFails
<1>8. CASE RecordJob(p)
  <2>1. jobs[call[p].job].status \in TaskStatus
    BY <1>1, <1>8, JobStatusTold DEF RecordJob
  <2>. QED  BY <1>3, <1>4, <1>8, <2>1 DEF RecordJob
<1>. QED  BY <1>5, <1>6, <1>7, <1>8

LEMMA RestFires ==
  ASSUME FiringInv,
         \/ \E p \in Ticks : Beat(p) \/ Exhausted(p) \/ DisableInvalid(p) \/ TickDies(p)
         \/ \E u \in Users : RunNow(u) \/ LoadTask(u) \/ PatchTask(u)
         \/ Clock \/ SwitchModule \/ UNCHANGED vars
  PROVE  Firings' /\ FiresOnce' /\ Ahead'
<1>. USE DEF FiringInv
<1>0. /\ \A q \in Ticks : q \in Processes /\ q \notin Users
      /\ \A q \in Users : q \in Processes
      /\ now \in Nat
  BY SchedulerAssumption DEF Processes, SchedulerAssumption, Inv, Types
<1>1. ASSUME NEW p \in Processes, NEW e, Become(p, e), p \in Ticks => ~AtFiring(p),
             UNCHANGED <<now, fired, ended, lost>>, patched \subseteq patched',
             \A t \in Tasks : t \notin patched' => row'[t].next = row[t].next
      PROVE  Firings' /\ FiresOnce' /\ Ahead'
  <2>1. \A q \in Ticks : AtFiring(q) => AtFiring(q)' /\ Firing(q)' = Firing(q)
    BY <1>0, <1>1, OthersInHand
  <2>. QED  BY <1>0, <1>1, <2>1, FiringsKept
<1>2. ASSUME UNCHANGED <<row, exec, fired, ended, lost, patched>>, now' \in Nat
      PROVE  Firings' /\ FiresOnce' /\ Ahead'
  BY <1>2, FiringsKept DEF AtFiring, Firing
<1>3. ASSUME NEW p \in Ticks, Beat(p) \/ Exhausted(p)
      PROVE  Firings' /\ FiresOnce' /\ Ahead'
  BY <1>0, <1>1, <1>3 DEF Beat, Exhausted, AtFiring, history
<1>4. ASSUME NEW p \in Ticks, DisableInvalid(p)
      PROVE  Firings' /\ FiresOnce' /\ Ahead'
  <2>1. PICK t \in Tasks : row' = [row EXCEPT ![t].enabled = FALSE, ![t].status = "FAILED"]
    BY <1>4 DEF DisableInvalid, Due
  <2>. DEFINE new == [[row[t] EXCEPT !.enabled = FALSE] EXCEPT !.status = "FAILED"]
  <2>2. row' = [row EXCEPT ![t] = new] /\ new.next = row[t].next
    BY <2>1 DEF Inv, Types, RowType
  <2>. HIDE DEF new
  <2>3. \A u \in Tasks : row'[u].next = row[u].next
    BY <2>2 DEF Inv, Types
  <2>. QED  BY <1>0, <1>1, <1>4, <2>3 DEF DisableInvalid, AtFiring, history
<1>5. ASSUME NEW p \in Ticks, TickDies(p)
      PROVE  Firings' /\ FiresOnce' /\ Ahead'
  <2>1. AtFiring(p) => Firing(p) \in lost'
    BY <1>5 DEF TickDies, AtFiring
  <2>2. lost \subseteq lost' /\ UNCHANGED <<now, row, fired, ended, patched>> /\ Become(p, Idle)
    BY <1>5 DEF TickDies
  <2>3. \A q \in Ticks : AtFiring(q)
           => (AtFiring(q)' /\ Firing(q)' = Firing(q)) \/ Firing(q) \in ended' \cup lost'
    BY <1>0, <2>1, <2>2, OthersInHand
  <2>. QED  BY <1>0, <2>2, <2>3, FiringsKept
<1>6. ASSUME NEW u \in Users, RunNow(u) \/ LoadTask(u)
      PROVE  Firings' /\ FiresOnce' /\ Ahead'
  BY <1>0, <1>1, <1>6 DEF RunNow, LoadTask, history
<1>7. ASSUME NEW u \in Users, PatchTask(u)
      PROVE  Firings' /\ FiresOnce' /\ Ahead'
  <2>1. exec[u].task \in Tasks /\ exec[u].row \in RowType
    BY <1>0, <1>7, AtWork DEF PatchTask
  <2>2. /\ patched \subseteq patched'
        /\ \A t \in Tasks : t \notin patched' => row'[t].next = row[t].next
    <3>1. CASE Save(exec[u].task, exec[u].row, [exec[u].row EXCEPT !.enabled = ~@]) /\ UNCHANGED patched
      <4>1. PICK b \in BOOLEAN : b = ~exec[u].row.enabled
        BY Zenon
      <4>. DEFINE new == [exec[u].row EXCEPT !.enabled = b]
      <4>2. new \in RowType /\ new.next = exec[u].row.next
        BY <2>1 DEF RowType
      <4>3. Save(exec[u].task, exec[u].row, new)
        BY <3>1, <4>1, Zenon
      <4>. HIDE DEF new
      <4>. QED  BY <2>1, <3>1, <4>2, <4>3, StatusSaved
    <3>2. CASE /\ \E n \in 0 .. Horizon :
                    Save(exec[u].task, exec[u].row, [exec[u].row EXCEPT !.next = n])
               /\ patched' = patched \cup {exec[u].task}
      <4>1. PICK n \in 0 .. Horizon :
               Save(exec[u].task, exec[u].row, [exec[u].row EXCEPT !.next = n])
        BY <3>2
      <4>. DEFINE new == [exec[u].row EXCEPT !.next = n]
      <4>2. new \in RowType
        BY <2>1 DEF RowType
      <4>. HIDE DEF new
      <4>3. \A t \in Tasks : t # exec[u].task => row'[t] = row[t]
        BY <2>1, <4>1, <4>2, StatusSaved DEF new
      <4>. QED  BY <3>2, <4>3
    <3>. QED  BY <1>7, <3>1, <3>2 DEF PatchTask
  <2>. QED  BY <1>0, <1>1, <1>7, <2>2 DEF PatchTask
<1>8. CASE Clock
  BY <1>0, <1>2, <1>8 DEF Clock, history
<1>9. CASE SwitchModule
  BY <1>0, <1>2, <1>9 DEF SwitchModule, history
<1>10. CASE UNCHANGED vars
  BY <1>0, <1>2, <1>10 DEF vars, history
<1>. QED  BY <1>3, <1>4, <1>5, <1>6, <1>7, <1>8, <1>9, <1>10

\* Only a status that was meant to be there is written; whoever creates a job has
\* called create_job.
LEMMA RowsToldStep ==
  ASSUME FiringInv, [Next]_vars
  PROVE  RowsTold'
<1>. USE DEF FiringInv
<1>0. /\ \A q \in Ticks : q \in Processes
      /\ \A q \in Users : q \in Processes
      /\ \A q \in Processes : q \in Callers
      /\ call \in [Callers -> Call] /\ exec \in [Processes -> Exec] /\ row \in [Tasks -> RowType]
      /\ Horizon \in Nat
  BY SchedulerAssumption DEF Processes, SchedulerAssumption, Inv, Types, Creation
<1>1. ASSUME NEW p \in Processes, NEW e, NEW c, Become(p, e), UNCHANGED now,
             (call' = call /\ c = call[p]) \/ call' = [call EXCEPT ![p] = c],
             e.pc = "create" => c.pc # "none",
             \A t \in Tasks : row'[t].status \in {row[t].status} \cup TaskStatus
      PROVE  RowsTold'
  <2>1. \A q \in Processes : q # p => exec'[q] = exec[q] /\ call'[q] = call[q]
    BY <1>0, <1>1 DEF Become
  <2>2. exec'[p] = e /\ call'[p] = c
    BY <1>0, <1>1 DEF Become
  <2>. QED
    BY <1>1, <2>1, <2>2 DEF RowsTold
<1>2. ASSUME NEW p \in Processes, NEW st \in TaskStatus, NEW e, e.pc # "create",
             exec[p].pc \in {"module", "create"},
             Save(exec[p].task, exec[p].row, [exec[p].row EXCEPT !.status = st]),
             Become(p, e), UNCHANGED now, call' = call \/ call' = [call EXCEPT ![p] = NoCall]
      PROVE  RowsTold'
  <2>1. exec[p].task \in Tasks /\ exec[p].row \in RowType
    BY <1>2, AtWork
  <2>. DEFINE new == [exec[p].row EXCEPT !.status = st]
  <2>2. new \in RowType /\ new.status = st /\ Save(exec[p].task, exec[p].row, new)
    BY <1>2, <2>1 DEF RowType
  <2>. HIDE DEF new
  <2>3. \A t \in Tasks : row'[t].status \in {row[t].status} \cup TaskStatus
    <3>1. row'[exec[p].task].status \in {row[exec[p].task].status, st}
      BY <2>1, <2>2, StatusSaved
    <3>2. \A t \in Tasks : t # exec[p].task => row'[t] = row[t]
      BY <2>1, <2>2, StatusSaved
    <3>. QED  BY <3>1, <3>2
  <2>4. CASE call' = call
    BY <1>1, <1>2, <2>3, <2>4
  <2>5. CASE call' = [call EXCEPT ![p] = NoCall]
    BY <1>1, <1>2, <2>3, <2>5
  <2>. QED  BY <1>2, <2>4, <2>5
<1>3. ASSUME NEW p \in Processes, CheckModule(p) \/ CreateFails(p) \/ RecordJob(p)
      PROVE  RowsTold'
  <2>1. \A n : [Idle EXCEPT !.pc = "pick", !.left = n].pc = "pick" /\ Done.pc = "done"
    BY DEF Idle, Done
  <2>2. ASSUME Return(p)
        PROVE  \E e : e.pc # "create" /\ Become(p, e) /\ call' = [call EXCEPT ![p] = NoCall]
    BY <2>1, <2>2 DEF Return, NextTask
  <2>3. CASE CheckModule(p) /\ module
    <3>. DEFINE e == [exec[p] EXCEPT !.pc = "create"]
                c == [NoCall EXCEPT !.pc = "lookup", !.owner = System,
                                    !.key = IdempotencyKey(p), !.about = Firing(p)]
    <3>1. c.pc = "lookup"
      BY DEF NoCall
    <3>2. Become(p, e) /\ call' = [call EXCEPT ![p] = c] /\ UNCHANGED <<now, row>>
      BY <2>3 DEF CheckModule, BeginCreate
    <3>. HIDE DEF c, e
    <3>. QED  BY <1>1, <3>1, <3>2
  <2>4. CASE CheckModule(p) /\ ~module
    BY <1>2, <2>1, <2>4 DEF CheckModule, TaskStatus
  <2>5. CASE CreateFails(p)
    <3>1. "FAILED" \in TaskStatus
      BY DEF TaskStatus
    <3>. QED  BY <1>2, <2>2, <2>5, <3>1 DEF CreateFails
  <2>6. CASE RecordJob(p)
    <3>1. jobs[call[p].job].status \in TaskStatus
      BY <1>0, <2>6, JobStatusTold DEF RecordJob
    <3>. QED  BY <1>2, <2>2, <2>6, <3>1 DEF RecordJob
  <2>. QED  BY <1>3, <2>3, <2>4, <2>5, <2>6
<1>4. ASSUME NEW p \in Processes, Create(p)
      PROVE  RowsTold'
  <2>1. p \in Callers /\ call[p] \in Call
    BY <1>0
  <2>2. \E c : c.pc # "none" /\ call' = [call EXCEPT ![p] = c]
    <3>1. CASE LookupKey(p)
      <4>1. Found(call[p]).pc = "created" /\ [call[p] EXCEPT !.pc = "insert"].pc = "insert"
        BY <2>1 DEF Found, Call
      <4>. QED  BY <3>1, <4>1 DEF LookupKey
    <3>2. CASE InsertJob(p)
      <4>1. Found(call[p]).pc = "created"
        BY <2>1 DEF Found, Call
      <4>2. [call[p] EXCEPT !.pc = "dispatch", !.job = Len(jobs) + 1].pc = "dispatch"
        BY <2>1 DEF Call
      <4>3. \/ call' = [call EXCEPT ![p] = Found(call[p])]
            \/ call' = [call EXCEPT ![p] = [call[p] EXCEPT !.pc = "dispatch", !.job = Len(jobs) + 1]]
        BY <3>2 DEF InsertJob
      <4>. QED  BY <4>1, <4>2, <4>3
    <3>3. CASE DispatchJob(p)
      <4>1. [call[p] EXCEPT !.pc = "created"].pc = "created"
        BY <2>1 DEF Call
      <4>2. call' = [call EXCEPT ![p] = [call[p] EXCEPT !.pc = "created"]]
        BY <3>3 DEF DispatchJob
      <4>. QED  BY <4>1, <4>2
    <3>. QED  BY <1>4, <3>1, <3>2, <3>3 DEF Create, CreateStep
  <2>3. \E e : Become(p, e)
    <3>1. CASE exec' = exec
      BY <1>0, <3>1 DEF Become
    <3>2. CASE exec' = [exec EXCEPT ![p].row = Expired]
      BY <3>2, Zenon DEF Become
    <3>. QED  BY <1>4, <3>1, <3>2 DEF Create
  <2>. QED  BY <1>1, <1>4, <2>2, <2>3 DEF Create
<1>5. ASSUME NEW p \in Ticks, Fire(p) \/ DisableInvalid(p)
      PROVE  RowsTold'
  <2>1. PICK t \in Tasks, new \in RowType :
          row' = [row EXCEPT ![t] = new] /\ new.status \in {row[t].status} \cup TaskStatus
    <3>1. CASE Fire(p)
      <4>1. PICK t \in Tasks : row' = [row EXCEPT ![t] = [row[t] EXCEPT !.next = NextRun(t, row[t].next)]]
        BY <3>1 DEF Fire, Due
      <4>2. NextRun(t, row[t].next) \in Nat
        BY SchedulerAssumption DEF NextRun, SchedulerAssumption, Inv, Types
      <4>. DEFINE new == [row[t] EXCEPT !.next = NextRun(t, row[t].next)]
      <4>3. new \in RowType /\ new.status = row[t].status
        BY <1>0, <4>2 DEF RowType
      <4>. QED  BY <4>1, <4>3
    <3>2. CASE DisableInvalid(p)
      <4>1. PICK t \in Tasks : row' = [row EXCEPT ![t].enabled = FALSE, ![t].status = "FAILED"]
        BY <3>2 DEF DisableInvalid, Due
      <4>. DEFINE new == [[row[t] EXCEPT !.enabled = FALSE] EXCEPT !.status = "FAILED"]
      <4>2. row' = [row EXCEPT ![t] = new]
        BY <4>1
      <4>3. new \in RowType /\ new.status \in TaskStatus
        BY <1>0 DEF RowType, TaskStatus
      <4>. QED  BY <4>2, <4>3
    <3>. QED  BY <1>5, <3>1, <3>2
  <2>2. \A u \in Tasks : row'[u].status \in {row[u].status} \cup TaskStatus
    BY <1>0, <2>1
  <2>3. \E e : Become(p, e) /\ e.pc # "create"
    <3>1. CASE Fire(p)
      BY <3>1 DEF Fire
    <3>2. CASE DisableInvalid(p)
      <4>1. exec[p] \in Exec /\ exec[p].pc = "pick"
        BY <1>0, <3>2 DEF DisableInvalid
      <4>2. [exec[p] EXCEPT !.left = @ - 1].pc = "pick"
        BY <4>1 DEF Exec
      <4>. QED  BY <3>2, <4>2 DEF DisableInvalid
    <3>. QED  BY <1>5, <3>1, <3>2
  <2>. QED  BY <1>0, <1>1, <1>5, <2>2, <2>3 DEF Fire, DisableInvalid, creationVars
<1>6. ASSUME NEW p \in Ticks, Beat(p) \/ Exhausted(p) \/ TickDies(p)
      PROVE  RowsTold'
  <2>1. Idle.pc = "idle" /\ [Idle EXCEPT !.pc = "pick", !.left = TickLimit].pc = "pick"
    BY DEF Idle
  <2>2. \E e : Become(p, e) /\ e.pc # "create"
    BY <1>6, <2>1 DEF Beat, Exhausted, TickDies
  <2>. QED  BY <1>0, <1>1, <1>6, <2>2 DEF Beat, Exhausted, TickDies, creationVars
<1>7. ASSUME NEW u \in Users, RunNow(u)
      PROVE  RowsTold'
  <2>1. PICK t \in Tasks : BeginCreate(u, Operator, <<"manual", t, now>>, <<t, now>>)
    BY <1>7 DEF RunNow
  <2>. DEFINE c == [NoCall EXCEPT !.pc = "lookup", !.owner = Operator,
                                  !.key = <<"manual", t, now>>, !.about = <<t, now>>]
  <2>2. c.pc = "lookup" /\ call' = [call EXCEPT ![u] = c]
    BY <2>1 DEF BeginCreate, NoCall
  <2>. HIDE DEF c
  <2>3. \E e : Become(u, e)
    BY <1>7 DEF RunNow
  <2>. QED  BY <1>0, <1>1, <1>7, <2>2, <2>3 DEF RunNow
<1>8. ASSUME NEW u \in Users, LoadTask(u)
      PROVE  RowsTold'
  <2>1. \A t : [Idle EXCEPT !.pc = "patch", !.task = t, !.row = row[t]].pc = "patch"
    BY DEF Idle
  <2>2. \E e : Become(u, e) /\ e.pc # "create"
    BY <1>8, <2>1 DEF LoadTask
  <2>. QED  BY <1>0, <1>1, <1>8, <2>2 DEF LoadTask, creationVars
<1>9. ASSUME NEW u \in Users, PatchTask(u)
      PROVE  RowsTold'
  <2>1. exec[u].task \in Tasks /\ exec[u].row \in RowType
    BY <1>0, <1>9, AtWork DEF PatchTask
  <2>2. PICK new \in RowType : Save(exec[u].task, exec[u].row, new) /\ new.status = exec[u].row.status
    <3>1. CASE Save(exec[u].task, exec[u].row, [exec[u].row EXCEPT !.enabled = ~@])
      <4>1. PICK b \in BOOLEAN : b = ~exec[u].row.enabled
        BY Zenon
      <4>2. /\ [exec[u].row EXCEPT !.enabled = b] \in RowType
            /\ [exec[u].row EXCEPT !.enabled = b].status = exec[u].row.status
        BY <2>1 DEF RowType
      <4>. QED  BY <3>1, <4>1, <4>2, Zenon
    <3>2. CASE \E n \in 0 .. Horizon :
                 Save(exec[u].task, exec[u].row, [exec[u].row EXCEPT !.next = n])
      <4>1. PICK n \in 0 .. Horizon :
              Save(exec[u].task, exec[u].row, [exec[u].row EXCEPT !.next = n])
        BY <3>2
      <4>2. /\ [exec[u].row EXCEPT !.next = n] \in RowType
            /\ [exec[u].row EXCEPT !.next = n].status = exec[u].row.status
        BY <2>1 DEF RowType
      <4>. QED  BY <4>1, <4>2
    <3>. QED  BY <1>9, <3>1, <3>2 DEF PatchTask
  <2>3. \A t \in Tasks : row'[t].status = row[t].status
    BY <2>1, <2>2, StatusSaved
  <2>4. Done.pc # "create"
    BY DEF Done, Idle
  <2>. QED  BY <1>0, <1>1, <1>9, <2>3, <2>4 DEF PatchTask, creationVars
<1>10. CASE Clock
  BY <1>0, <1>10 DEF Clock, RowsTold, creationVars
<1>11. CASE SwitchModule \/ UNCHANGED vars
  BY <1>11 DEF SwitchModule, RowsTold, creationVars, vars
<1>. QED
  BY <1>0, <1>3, <1>4, <1>5, <1>6, <1>7, <1>8, <1>9, <1>10, <1>11 DEF Next, RunDue, Request

LEMMA InitFires == Init => FiringInv
<1>. SUFFICES ASSUME Init PROVE FiringInv
  OBVIOUS
<1>1. Firings /\ FiresOnce /\ Ahead
  BY DEF Init, Firings, FiresOnce, FiringAccounted, NoBurstAfterOutage, Ahead
<1>2. RowsTold
  BY SchedulerAssumption DEF SchedulerAssumption, Init, RowsTold, NoRow, TaskStatus, Idle
<1>. QED  BY <1>1, <1>2, InitInv DEF FiringInv

LEMMA StepFires == FiringInv /\ [Next]_vars => FiringInv'
<1>. SUFFICES ASSUME FiringInv, [Next]_vars PROVE FiringInv'
  OBVIOUS
<1>1. Inv'
  BY StepInv DEF FiringInv
<1>2. Firings' /\ FiresOnce' /\ Ahead'
  BY FireFires, WorkFires, RestFires DEF Next, RunDue, Request, Processes
<1>. QED  BY <1>1, <1>2, RowsToldStep DEF FiringInv

(* A firing that a tick committed to has an outcome in its task, is in hand, or  *)
(* died with its tick; and after an outage a task fires once, not for each time  *)
(* it missed, unless a user set it back (run_due, calculate_next_run).           *)
THEOREM FiringsHappenOnce == Spec => []FiresOnce
<1>1. FiringInv => FiresOnce
  BY DEF FiringInv
<1>. QED  BY <1>1, InitFires, StepFires, PTL DEF Spec

(* The rows of scheduled_jobs are well formed: the row that a rollback expired in  *)
(* a session never reaches the table; and a call of create_job that returned names *)
(* a job that exists.                                                         *)
THEOREM TypeCorrect == Spec => []TypeOK
<1>1. FiringInv => TypeOK
  BY SchedulerAssumption
  DEF FiringInv, Inv, Types, Creation, Awaited, RowsTold, TypeOK, RowType, Call, Processes,
      SchedulerAssumption
<1>. QED  BY <1>1, InitFires, StepFires, PTL DEF Spec

-----------------------------------------------------------------------------
(* A set of naturals that is not empty has a least element: the intervals  *)
(* 0..n are finite, and inclusion of finite sets is well founded.          *)

LEMMA LeastNumber ==
    ASSUME NEW T, T \subseteq Nat, T # {}
    PROVE  \E x \in T : \A y \in T : x <= y
<1> DEFINE U == {0..n : n \in T}
<1>1. IsWellFoundedOn(StrictSubsetOrdering(Nat), FiniteSubsetsOf(Nat))
  BY FS_StrictSubsetOrderingWellFounded
<1>2. U \subseteq FiniteSubsetsOf(Nat)
  <2>1. \A n \in T : (0..n) \subseteq Nat /\ IsFiniteSet(0..n)  BY FS_Interval
  <2>. QED  BY <2>1 DEF FiniteSubsetsOf
<1>3. U # {}  OBVIOUS
<1>. HIDE DEF U
<1>4. PICK x \in U : \A y \in U : ~ (<<y, x>> \in StrictSubsetOrdering(Nat))
  BY <1>1, <1>2, <1>3, WFMin
<1>5. PICK n \in T : x = 0..n  BY DEF U
<1>6. ASSUME NEW y \in T, y < n PROVE FALSE
  <2>1. 0..y \in U  BY DEF U
  <2>2. (0..y) \subseteq (0..n) /\ 0..y # 0..n
    <3>1. n \in 0..n /\ n \notin 0..y  BY <1>6
    <3>. QED  BY <3>1, <1>6
  <2>3. (0..y) \subseteq Nat /\ (0..n) \subseteq Nat  BY <1>6
  <2>4. <<0..y, 0..n>> \in StrictSubsetOrdering(Nat)
    BY <2>2, <2>3 DEF StrictSubsetOrdering
  <2>. QED  BY <2>1, <2>4, <1>4, <1>5
<1>. QED  BY <1>6

\* ... and a set of naturals with a bound has a greatest one.
LEMMA GreatestNumber ==
    ASSUME NEW n \in Nat, NEW T, T \subseteq 0..n, T # {}
    PROVE  \E x \in T : \A y \in T : y <= x
<1> DEFINE U == {n - k : k \in T}
<1>1. U \subseteq Nat /\ U # {}
  <2>1. \A k \in T : n - k \in Nat  OBVIOUS
  <2>. QED  BY <2>1
<1>2. PICK u \in U : \A v \in U : u <= v  BY <1>1, LeastNumber
<1>3. PICK x \in T : u = n - x  BY <1>2
<1>4. \A y \in T : n - y \in U  OBVIOUS
<1>5. \A y \in T : n - x <= n - y  BY <1>2, <1>3, <1>4
<1>6. \A y \in T : y \in Nat  OBVIOUS
<1>7. ASSUME NEW y \in T PROVE y <= x
  BY <1>5, <1>6, <1>7
<1>. QED  BY <1>7

-----------------------------------------------------------------------------
(* Ledger.                                                                 *)

SapRow == [kind : Kinds, day : Diary!Days]
LedgerRow == [kind : Kinds, day : Diary!Days, rule : RuleIds \cup {0}]
LoadedRow == [e : Entries, is : SapRow \cup LedgerRow]
RuleTable == [RuleIds -> Diary!Rule \cup {Diary!Missing}]

Process ==
    [pc : {"fetch", "read_rules", "upsert", "classify", "load", "delete"},
     job : Diary!Copies \cup {"save", "delete", "reprocess", "reprocess_all"},
     days : SUBSET Diary!Days, from : Nat, target : Nat, rows : SUBSET LoadedRow,
     rules : RuleTable, touched : SUBSET Entries, alone : BOOLEAN]

\* What a process is doing fits its operation.
Shaped(s) ==
    /\ s.job \in Diary!Copies =>
          /\ s.pc \in {"fetch", "read_rules", "upsert"}
          /\ s.from \in 1..s.target /\ s.target \in Diary!Days
          /\ s.rows \subseteq [e : Entries, is : SapRow]
          /\ \A x \in s.rows : x.is.day <= today
    /\ s.job = "delta" => s.days # {}
    /\ s.job \notin Diary!Copies =>
          s.rows \subseteq [e : Entries, is : LedgerRow] /\ \A x \in s.rows : x.e \in Diary!InLedger
    /\ s.job = "save" => s.pc \in {"load", "read_rules", "classify"} /\ s.target \in RuleIds
    /\ s.job = "delete" => s.pc \in {"delete", "read_rules", "classify"} /\ s.target \in RuleIds
    /\ s.job \in {"reprocess", "reprocess_all"} => s.pc \in {"read_rules", "classify"}

LedgerTyped ==
    /\ sap \in [Entries -> SapRow \cup {Diary!Missing}]
    /\ ledger \in [Entries -> LedgerRow \cup {Diary!Missing}]
    /\ rule \in RuleTable
    /\ today \in Diary!Days /\ mixed \in BOOLEAN /\ holes \subseteq Diary!Days
    /\ proc \in [Actors -> Process \cup {Diary!Idle}]
    /\ \A p \in Diary!Busy : Shaped(proc[p])
    /\ \A e \in Entries : sap[e] # Diary!Missing => sap[e].day <= today
    /\ \A e \in Diary!InLedger : ledger[e].day <= today

\* What a process has read is what the tables hold.
Current(s) ==
    /\ s.pc \in {"upsert", "classify"} => s.rules = rule
    /\ s.job \notin Diary!Copies => \A x \in s.rows : x.is = ledger[x.e]
    /\ s.pc \in {"load", "delete"} => rule[s.target] # Diary!Missing
    /\ s.pc = "delete" => s.rows = Diary!Reload(Diary!ClaimedBy(s.target))

\* The process has changed a rule and is to classify e again.
Owes(s, e) ==
    /\ s.job \in {"save", "delete"}
    /\ \/ s.pc = "load" /\ e \in Diary!Candidates(s.target)
       \/ s.pc \in {"read_rules", "classify"} /\ \E x \in s.rows : x.e = e

Right(e) == ledger[e].rule = Diary!Classify(rule, ledger[e].kind)

(***************************************************************************)
(* WellClassified speaks of the time when nothing is under way.  Until     *)
(* then, while no commits have mixed, what the processes have read still   *)
(* holds, and an entry of the wrong class is one that whoever changed a    *)
(* rule is about to classify.                                              *)
(***************************************************************************)
Quiet ==
    ~mixed =>
        /\ \A p \in Diary!Busy : Current(proc[p])
        /\ \A e \in Diary!InLedger : Right(e) \/ \E p \in Diary!Busy : Owes(proc[p], e)

\* A reprocess that is alone has read everything as it is.
ReadsAlone ==
    \A p \in Diary!Busy : proc[p].alone =>
        /\ Diary!Busy = {p}
        /\ proc[p].job = "reprocess_all" =>
              /\ proc[p].rows = Diary!Reload(Diary!InLedger)
              /\ proc[p].pc = "classify" => proc[p].rules = rule

LedgerInv == LedgerTyped /\ Quiet /\ ReadsAlone

LEMMA MissingIsNoRow ==
    /\ Diary!Missing \notin SapRow /\ Diary!Missing \notin LedgerRow /\ Diary!Missing \notin Diary!Rule
    /\ Diary!Idle \notin Process
<1>1. ASSUME NEW x, x = [none |-> TRUE], NEW c, c \in DOMAIN x PROVE c = "none"
  BY <1>1
<1>2. \A x \in SapRow \cup LedgerRow : "kind" \in DOMAIN x
  BY DEF SapRow, LedgerRow
<1>3. \A x \in Diary!Rule : "prio" \in DOMAIN x
  BY DEF Diary!Rule
<1>4. Diary!Missing = [none |-> TRUE] BY DEF Diary!Missing
<1>5. \A x \in Process : x.pc # "idle"
  BY DEF Process
<1>6. Diary!Idle.pc = "idle" BY DEF Diary!Idle
<1>. QED  BY <1>1, <1>2, <1>3, <1>4, <1>5, <1>6

\* The active rules that apply, and the first of them.
Fit(rules, k) == {i \in Diary!Active(rules) : Diary!Applies(rules[i], k)}

\* One of the rules that apply comes first: of the least priority, and of the
\* least identifier among those.
LEMMA OneIsFirst ==
    ASSUME NEW rules \in RuleTable, NEW F, F \subseteq Diary!Active(rules), F # {}
    PROVE  \E i \in F : \A j \in F \ {i} : Diary!Before(rules, i, j)
<1>. DEFINE One == {i \in F : rules[i].prio = 1}
<1>1. F \subseteq Nat /\ \A i \in F : rules[i].prio \in 1..2
  <2>1. \A i \in F : i \in RuleIds /\ rules[i] \in Diary!Rule
    BY DEF Diary!Active, RuleTable
  <2>2. RuleIds \subseteq Nat
    BY DiaryAssumption DEF Diary!LedgerAssumption
  <2>. QED  BY <2>1, <2>2 DEF Diary!Rule, Diary!Prios
<1>2. CASE One # {}
  <2>1. PICK i \in One : \A j \in One : i <= j
    BY <1>1, <1>2, LeastNumber
  <2>2. \A j \in F \ {i} : Diary!Before(rules, i, j)
    <3>. TAKE j \in F \ {i}
    <3>1. CASE rules[j].prio = 1
      <4>1. j \in One  BY <3>1
      <4>2. i <= j /\ i # j  BY <2>1, <4>1
      <4>. QED  BY <1>1, <4>2, <3>1, <2>1 DEF Diary!Before
    <3>2. CASE rules[j].prio = 2
      BY <3>2, <2>1 DEF Diary!Before
    <3>. QED  BY <1>1, <3>1, <3>2
  <2>. QED  BY <2>2, <2>1
<1>3. CASE One = {}
  <2>1. \A i \in F : rules[i].prio = 2  BY <1>1, <1>3
  <2>2. PICK i \in F : \A j \in F : i <= j
    BY <1>1, LeastNumber
  <2>. QED  BY <2>1, <2>2, <1>1 DEF Diary!Before
<1>. QED  BY <1>2, <1>3

\* No rule comes before another that comes before it.
LEMMA OneFirst ==
    ASSUME NEW rules \in RuleTable, NEW i \in Diary!Active(rules), NEW j \in Diary!Active(rules),
           Diary!Before(rules, i, j)
    PROVE  ~Diary!Before(rules, j, i)
<1>1. i \in Nat /\ j \in Nat
  BY DiaryAssumption DEF Diary!LedgerAssumption, Diary!Active
<1>2. rules[i].prio \in Nat /\ rules[j].prio \in Nat
  BY DEF RuleTable, Diary!Active, Diary!Rule, Diary!Prios
<1>. QED  BY <1>1, <1>2 DEF Diary!Before

\* What Classify answers: no rule applies, or the first of those that do.
LEMMA ClassIs ==
    ASSUME NEW rules \in RuleTable, NEW k
    PROVE  /\ Fit(rules, k) = {} => Diary!Classify(rules, k) = 0
           /\ Fit(rules, k) # {} =>
                /\ Diary!Classify(rules, k) \in Fit(rules, k)
                /\ \A j \in Fit(rules, k) \ {Diary!Classify(rules, k)} :
                       Diary!Before(rules, Diary!Classify(rules, k), j)
           /\ Diary!Classify(rules, k) \in RuleIds \cup {0}
<1>1. Diary!Classify(rules, k) = IF Fit(rules, k) = {} THEN 0
          ELSE CHOOSE i \in Fit(rules, k) : \A j \in Fit(rules, k) \ {i} : Diary!Before(rules, i, j)
  BY DEF Diary!Classify, Fit
<1>2. Fit(rules, k) \subseteq Diary!Active(rules) /\ Diary!Active(rules) \subseteq RuleIds
  BY DEF Fit, Diary!Active
<1>3. ASSUME Fit(rules, k) # {}
      PROVE  /\ Diary!Classify(rules, k) \in Fit(rules, k)
             /\ \A j \in Fit(rules, k) \ {Diary!Classify(rules, k)} :
                    Diary!Before(rules, Diary!Classify(rules, k), j)
  <2>1. \E i \in Fit(rules, k) : \A j \in Fit(rules, k) \ {i} : Diary!Before(rules, i, j)
    BY <1>2, <1>3, OneIsFirst
  <2>. QED  BY <1>1, <1>3, <2>1
<1>. QED  BY <1>1, <1>2, <1>3

\* The first rule is the only one.
LEMMA FirstIs ==
    ASSUME NEW rules \in RuleTable, NEW k, NEW i \in Fit(rules, k),
           \A j \in Fit(rules, k) \ {i} : Diary!Before(rules, i, j)
    PROVE  Diary!Classify(rules, k) = i
<1>1. Diary!Classify(rules, k) \in Fit(rules, k)
  BY ClassIs
<1>2. ASSUME Diary!Classify(rules, k) # i PROVE FALSE
  <2>. DEFINE c == Diary!Classify(rules, k)
  <2>1. Diary!Before(rules, i, c)  BY <1>1, <1>2
  <2>2. Diary!Before(rules, c, i)  BY <1>2, ClassIs
  <2>3. c \in Diary!Active(rules) /\ i \in Diary!Active(rules)  BY <1>1 DEF Fit
  <2>. HIDE DEF c
  <2>. QED  BY <2>1, <2>2, <2>3, OneFirst
<1>. QED  BY <1>2

\* A change of one rule changes the class of an entry only if the rule had
\* claimed it or is the one that claims it now.
LEMMA OneRuleChanges ==
    ASSUME NEW old \in RuleTable, NEW new \in RuleTable, NEW i \in RuleIds,
           \A j \in RuleIds \ {i} : new[j] = old[j],
           NEW k, Diary!Classify(new, k) # Diary!Classify(old, k)
    PROVE  Diary!Classify(old, k) = i \/ (Diary!Classify(new, k) = i /\ i \in Fit(new, k))
<1>. SUFFICES ASSUME Diary!Classify(old, k) # i, ~(Diary!Classify(new, k) = i /\ i \in Fit(new, k))
              PROVE  FALSE
  OBVIOUS
<1>0. 0 \notin RuleIds  BY DiaryAssumption DEF Diary!LedgerAssumption
<1>1. \A j \in RuleIds \ {i} : j \in Fit(old, k) <=> j \in Fit(new, k)
  BY DEF Fit, Diary!Active
<1>2. Fit(old, k) \subseteq RuleIds /\ Fit(new, k) \subseteq RuleIds
  BY DEF Fit, Diary!Active
<1>3. Diary!Classify(new, k) # i
  <2>1. CASE Fit(new, k) = {}
    BY <2>1, <1>0, ClassIs
  <2>2. CASE Fit(new, k) # {}
    BY <2>2, ClassIs
  <2>. QED  BY <2>1, <2>2
<1>4. CASE Fit(old, k) = {}
  <2>1. Fit(new, k) \subseteq {i}  BY <1>1, <1>2, <1>4
  <2>2. Fit(new, k) = {}
    BY <2>1, <1>3, ClassIs
  <2>. QED  BY <1>4, <2>2, ClassIs
<1>5. CASE Fit(old, k) # {}
  <2>. DEFINE c == Diary!Classify(old, k)
  <2>1. c \in Fit(old, k) /\ c # i /\ c \in RuleIds
    BY <1>5, <1>2, ClassIs
  <2>2. c \in Fit(new, k)
    BY <2>1, <1>1
  <2>3. Diary!Classify(new, k) \in Fit(new, k) /\ Diary!Classify(new, k) # i
    BY <2>2, <1>3, ClassIs
  <2>4. Diary!Classify(new, k) \in Fit(old, k)
    BY <2>3, <1>1, <1>2
  <2>. DEFINE d == Diary!Classify(new, k)
  <2>5. Diary!Before(old, c, d)
    BY <2>4, <1>5, ClassIs
  <2>6. Diary!Before(new, d, c)
    BY <2>2, <2>3, ClassIs
  <2>7. new[c] = old[c] /\ new[d] = old[d]
    BY <2>1, <2>3, <1>2
  <2>8. Diary!Before(old, d, c)
    BY <2>6, <2>7 DEF Diary!Before
  <2>9. c \in Diary!Active(old) /\ d \in Diary!Active(old)
    BY <2>1, <2>4 DEF Fit
  <2>. HIDE DEF c, d
  <2>. QED  BY <2>5, <2>8, <2>9, OneFirst
<1>. QED  BY <1>4, <1>5

\* The mark is the latest day of the ledger.
LEMMA MarkIs ==
    ASSUME LedgerTyped
    PROVE  /\ Diary!Mark \in Diary!Days /\ Diary!Mark <= today
           /\ \A e \in Diary!InLedger : ledger[e].day <= Diary!Mark
           /\ Diary!InLedger # {} => \E e \in Diary!InLedger : ledger[e].day = Diary!Mark
<1>1. today \in Nat /\ LastDay \in Nat \ {0} /\ 1 \in Diary!Days /\ today >= 1
  BY DiaryAssumption DEF Diary!LedgerAssumption, LedgerTyped, Diary!Days
<1>2. \A e \in Diary!InLedger : ledger[e] \in LedgerRow
  BY DEF LedgerTyped, Diary!InLedger
<1>3. \A e \in Diary!InLedger : ledger[e].day \in Diary!Days /\ ledger[e].day <= today
  BY <1>2 DEF LedgerTyped, LedgerRow
<1>4. CASE Diary!InLedger = {}
  BY <1>1, <1>4 DEF Diary!Mark
<1>5. CASE Diary!InLedger # {}
  <2>. DEFINE T == {ledger[e].day : e \in Diary!InLedger}
  <2>1. T \subseteq 0..LastDay /\ T # {}
    BY <1>1, <1>3, <1>5 DEF Diary!Days
  <2>2. PICK d \in T : \A c \in T : c <= d
    BY <1>1, <2>1, GreatestNumber
  <2>3. \E e \in Diary!InLedger : ledger[e].day = d
    BY <2>2
  <2>4. \A e \in Diary!InLedger : ledger[e].day <= d
    BY <2>2
  <2>5. d \in Diary!Days  BY <2>3, <1>3
  <2>6. \E x \in Diary!Days : (\E e \in Diary!InLedger : ledger[e].day = x)
                         /\ \A e \in Diary!InLedger : ledger[e].day <= x
    BY <2>3, <2>4, <2>5
  <2>7. /\ Diary!Mark \in Diary!Days
        /\ \E e \in Diary!InLedger : ledger[e].day = Diary!Mark
        /\ \A e \in Diary!InLedger : ledger[e].day <= Diary!Mark
    BY <1>5, <2>6 DEF Diary!Mark
  <2>. QED  BY <2>7, <1>3
<1>. QED  BY <1>4, <1>5

\* One process moves on.
LEMMA OneMoves ==
    ASSUME LedgerTyped, NEW p \in Actors, NEW s \in Process \cup {Diary!Idle},
           s # Diary!Idle => Shaped(s), Diary!Goto(p, s), today' = today,
           Diary!InLedger \subseteq Diary!InLedger'
    PROVE  /\ proc' \in [Actors -> Process \cup {Diary!Idle}]
           /\ \A q \in Diary!Busy' : Shaped(proc[q])'
           /\ proc'[p] = s /\ \A q \in Actors \ {p} : proc'[q] = proc[q]
           /\ Diary!Busy' = IF s = Diary!Idle THEN Diary!Busy \ {p} ELSE Diary!Busy \cup {p}
<1>1. proc \in [Actors -> Process \cup {Diary!Idle}]
  BY DEF LedgerTyped
<1>2. proc' = [proc EXCEPT ![p] = s]
  BY DEF Diary!Goto
<1>3. proc' \in [Actors -> Process \cup {Diary!Idle}]
  BY <1>1, <1>2
<1>4. proc'[p] = s /\ \A q \in Actors \ {p} : proc'[q] = proc[q]
  BY <1>1, <1>2
<1>5. Diary!Busy' = IF s = Diary!Idle THEN Diary!Busy \ {p} ELSE Diary!Busy \cup {p}
  BY <1>4 DEF Diary!Busy
<1>6. \A q \in Diary!Busy' : Shaped(proc[q])'
  <2>. TAKE q \in Diary!Busy'
  <2>1. CASE q = p
    BY <2>1, <1>4, <1>5 DEF Shaped
  <2>2. CASE q # p
    <3>1. q \in Diary!Busy /\ proc'[q] = proc[q]
      BY <2>2, <1>4 DEF Diary!Busy
    <3>2. Shaped(proc[q])
      BY <3>1 DEF LedgerTyped
    <3>. QED  BY <3>1, <3>2 DEF Shaped
  <2>. QED  BY <2>1, <2>2
<1>. QED  BY <1>3, <1>4, <1>5, <1>6

\* The process as Begin makes it.
Begun(s) ==
    [pc |-> s.pc, job |-> s.job, days |-> s.days, from |-> s.from, target |-> s.target,
     rows |-> s.rows, rules |-> rule, touched |-> {}, alone |-> Diary!Busy = {}]

LEMMA OneBegins ==
    ASSUME LedgerTyped, NEW p \in Actors, NEW s, Begun(s) \in Process, Shaped(Begun(s)),
           Diary!Begin(p, s), today' = today, Diary!InLedger \subseteq Diary!InLedger'
    PROVE  /\ proc' \in [Actors -> Process \cup {Diary!Idle}]
           /\ \A q \in Diary!Busy' : Shaped(proc[q])'
           /\ p \notin Diary!Busy /\ Diary!Busy' = Diary!Busy \cup {p}
           /\ proc'[p] = Begun(s)
           /\ \A q \in Diary!Busy : proc'[q] = [proc[q] EXCEPT !.alone = FALSE]
<1>1. proc \in [Actors -> Process \cup {Diary!Idle}]
  BY DEF LedgerTyped
<1>2. proc' = [q \in Actors |-> IF q = p THEN Begun(s)
                  ELSE IF proc[q] = Diary!Idle THEN Diary!Idle ELSE [proc[q] EXCEPT !.alone = FALSE]]
  BY DEF Diary!Begin, Begun
<1>3. proc[p] = Diary!Idle /\ p \notin Diary!Busy
  BY DEF Diary!Begin, Diary!Busy
<1>4. \A q \in Diary!Busy : q \in Actors /\ q # p /\ proc[q] # Diary!Idle /\ proc[q] \in Process
  BY <1>1, <1>3 DEF Diary!Busy
<1>5. proc'[p] = Begun(s) /\ \A q \in Diary!Busy : proc'[q] = [proc[q] EXCEPT !.alone = FALSE]
  BY <1>2, <1>4
<1>6. \A q \in Diary!Busy : [proc[q] EXCEPT !.alone = FALSE] \in Process
  BY <1>4 DEF Process
<1>7. \A q \in Actors \ (Diary!Busy \cup {p}) : proc'[q] = Diary!Idle
  BY <1>2 DEF Diary!Busy
<1>8. proc' \in [Actors -> Process \cup {Diary!Idle}]
  <2>1. \A q \in Actors : proc'[q] \in Process \cup {Diary!Idle}
    BY <1>5, <1>6, <1>7
  <2>. QED  BY <1>2, <2>1
<1>9. Diary!Busy' = Diary!Busy \cup {p}
  <2>1. proc'[p] # Diary!Idle
    BY <1>5, MissingIsNoRow
  <2>2. \A q \in Diary!Busy : proc'[q] # Diary!Idle
    BY <1>5, <1>6, MissingIsNoRow
  <2>3. \A q \in Actors : proc'[q] # Diary!Idle <=> q \in Diary!Busy \cup {p}
    BY <2>1, <2>2, <1>7
  <2>4. Diary!Busy' = {q \in Actors : proc'[q] # Diary!Idle}
    BY DEF Diary!Busy
  <2>. QED  BY <2>3, <2>4, <1>4
<1>10. \A q \in Diary!Busy' : Shaped(proc[q])'
  <2>. TAKE q \in Diary!Busy'
  <2>1. CASE q = p
    BY <2>1, <1>5 DEF Shaped
  <2>2. CASE q # p
    <3>1. q \in Diary!Busy  BY <2>2, <1>9
    <3>2. Shaped(proc[q])
      BY <3>1 DEF LedgerTyped
    <3>. DEFINE r == proc[q]
                t == [r EXCEPT !.alone = FALSE]
    <3>3. r \in Process  BY <3>1, <1>4
    <3>4. /\ t.pc = r.pc /\ t.job = r.job /\ t.days = r.days /\ t.from = r.from
          /\ t.target = r.target /\ t.rows = r.rows
      BY <3>3 DEF Process
    <3>5. proc'[q] = t  BY <3>1, <1>5
    <3>. HIDE DEF t
    <3>. QED  BY <3>2, <3>4, <3>5 DEF Shaped
  <2>. QED  BY <2>1, <2>2
<1>. QED  BY <1>3, <1>5, <1>8, <1>9, <1>10

\* What a process reads and owes depends on the tables only.
LEMMA SameTables ==
    ASSUME UNCHANGED <<ledger, rule>>
    PROVE  /\ Diary!InLedger' = Diary!InLedger
           /\ \A s : Current(s)' <=> Current(s)
           /\ \A s, e : Owes(s, e)' <=> Owes(s, e)
           /\ \A e : Right(e)' <=> Right(e)
BY DEF Diary!InLedger, Current, Owes, Right, Diary!Reload, Diary!ClaimedBy, Diary!Candidates

LEMMA SameReading ==
    ASSUME NEW s \in Process
    PROVE  LET t == [s EXCEPT !.alone = FALSE] IN
           /\ Current(t) <=> Current(s)
           /\ \A e : Owes(t, e) <=> Owes(s, e)
<1>. DEFINE t == [s EXCEPT !.alone = FALSE]
<1>1. /\ t.pc = s.pc /\ t.job = s.job /\ t.days = s.days /\ t.from = s.from
      /\ t.target = s.target /\ t.rows = s.rows /\ t.rules = s.rules
  BY DEF Process
<1>. HIDE DEF t
<1>2. (Current(t) <=> Current(s)) /\ \A e : Owes(t, e) <=> Owes(s, e)
  BY <1>1 DEF Current, Owes
<1>. QED  BY <1>2 DEF t

LEMMA BusyTyped ==
    ASSUME LedgerTyped
    PROVE  \A p \in Diary!Busy : p \in Actors /\ proc[p] # Diary!Idle /\ proc[p] \in Process /\ Shaped(proc[p])
BY DEF LedgerTyped, Diary!Busy

LEMMA MoveKeepsReads ==
    ASSUME LedgerTyped, ReadsAlone, NEW p \in Diary!Busy, NEW s \in Process \cup {Diary!Idle},
           s # Diary!Idle => Shaped(s), Diary!Goto(p, s), today' = today, Diary!InLedger \subseteq Diary!InLedger',
           s # Diary!Idle /\ s.alone =>
              /\ proc[p].alone
              /\ s.job = "reprocess_all" =>
                    /\ s.rows = Diary!Reload(Diary!InLedger)'
                    /\ s.pc = "classify" => s.rules = rule'
    PROVE  ReadsAlone'
<1>1. p \in Actors  BY DEF Diary!Busy
<1>2. /\ proc'[p] = s /\ \A q \in Actors \ {p} : proc'[q] = proc[q]
      /\ Diary!Busy' = IF s = Diary!Idle THEN Diary!Busy \ {p} ELSE Diary!Busy \cup {p}
  BY <1>1, OneMoves
<1>3. SUFFICES ASSUME NEW q \in Diary!Busy', proc'[q].alone
               PROVE  /\ Diary!Busy' = {q}
                      /\ proc'[q].job = "reprocess_all" =>
                            /\ proc'[q].rows = Diary!Reload(Diary!InLedger)'
                            /\ proc'[q].pc = "classify" => proc'[q].rules = rule'
  BY DEF ReadsAlone
<1>4. CASE q = p
  <2>1. s # Diary!Idle /\ s.alone  BY <1>2, <1>3, <1>4 DEF Diary!Busy
  <2>2. Diary!Busy = {p}  BY <2>1 DEF ReadsAlone
  <2>3. Diary!Busy' = {p}  BY <2>1, <2>2, <1>2
  <2>. QED  BY <2>1, <2>3, <1>4, <1>2
<1>5. CASE q # p
  <2>1. q \in Diary!Busy /\ proc[q].alone  BY <1>2, <1>3, <1>5 DEF Diary!Busy
  <2>2. Diary!Busy = {q}  BY <2>1 DEF ReadsAlone
  <2>. QED  BY <2>2, <1>5
<1>. QED  BY <1>4, <1>5

LEMMA MoveKeepsQuiet ==
    ASSUME LedgerTyped, Quiet, NEW p \in Diary!Busy, NEW s \in Process \cup {Diary!Idle},
           s # Diary!Idle => Shaped(s), Diary!Goto(p, s), UNCHANGED <<ledger, rule, today>>,
           ~mixed' => ~mixed,
           ~mixed /\ s # Diary!Idle => Current(s),
           ~mixed => \A e \in Diary!InLedger :
                        Owes(proc[p], e) => Right(e) \/ (s # Diary!Idle /\ Owes(s, e))
    PROVE  Quiet'
<1>1. p \in Actors  BY DEF Diary!Busy
<1>2. /\ proc'[p] = s /\ \A q \in Actors \ {p} : proc'[q] = proc[q]
      /\ Diary!Busy' = IF s = Diary!Idle THEN Diary!Busy \ {p} ELSE Diary!Busy \cup {p}
  BY <1>1, OneMoves DEF Diary!InLedger
<1>. SUFFICES ASSUME ~mixed'
              PROVE  /\ \A q \in Diary!Busy' : Current(proc[q])'
                     /\ \A e \in Diary!InLedger' : Right(e)' \/ \E q \in Diary!Busy' : Owes(proc[q], e)'
  BY DEF Quiet
<1>3. \A q \in Actors \ {p} : q \in Diary!Busy' <=> q \in Diary!Busy
  BY <1>2
<1>4. \A q \in Diary!Busy' : Current(proc[q])'
  <2>. TAKE q \in Diary!Busy'
  <2>0. q \in Actors  BY DEF Diary!Busy
  <2>1. Current(proc'[q])
    <3>1. CASE q = p
      <4>1. s # Diary!Idle  BY <1>2, <3>1 DEF Diary!Busy
      <4>. QED  BY <4>1, <3>1, <1>2
    <3>2. CASE q # p
      <4>1. q \in Diary!Busy /\ proc'[q] = proc[q]  BY <2>0, <3>2, <1>2, <1>3
      <4>. QED  BY <4>1 DEF Quiet
    <3>. QED  BY <3>1, <3>2
  <2>2. \A t : Current(t)' <=> Current(t)  BY SameTables
  <2>3. Current(proc[q])' <=> Current(proc'[q])
    BY DEF Current, Diary!InLedger, Diary!Reload, Diary!ClaimedBy
  <2>. QED  BY <2>1, <2>3
<1>5. \A e \in Diary!InLedger' : Right(e)' \/ \E q \in Diary!Busy' : Owes(proc[q], e)'
  <2>. TAKE e \in Diary!InLedger'
  <2>1. e \in Diary!InLedger /\ (Right(e)' <=> Right(e))  BY SameTables
  <2>2. \A q \in Diary!Busy' : Owes(proc[q], e)' <=> Owes(proc'[q], e)
    BY DEF Owes, Diary!Candidates, Diary!InLedger
  <2>3. CASE Right(e)  BY <2>1, <2>3
  <2>4. CASE ~Right(e)
    <3>1. PICK q \in Diary!Busy : Owes(proc[q], e)  BY <2>1, <2>4 DEF Quiet
    <3>2. CASE q = p
      <4>1. s # Diary!Idle /\ Owes(s, e)  BY <2>1, <2>4, <3>1, <3>2
      <4>2. p \in Diary!Busy'  BY <4>1, <1>2
      <4>. QED  BY <4>1, <4>2, <1>2, <2>2
    <3>3. CASE q # p
      <4>1. q \in Actors  BY DEF Diary!Busy
      <4>2. q \in Diary!Busy' /\ proc'[q] = proc[q]  BY <4>1, <3>3, <1>2, <1>3
      <4>. QED  BY <3>1, <4>2, <2>2
    <3>. QED  BY <3>2, <3>3
  <2>. QED  BY <2>3, <2>4
<1>. QED  BY <1>4, <1>5

LEMMA BeginKeepsReads ==
    ASSUME LedgerTyped, NEW p \in Actors, NEW s, Begun(s) \in Process, Shaped(Begun(s)),
           Diary!Begin(p, s), today' = today, Diary!InLedger \subseteq Diary!InLedger',
           s.job = "reprocess_all" => s.pc # "classify" /\ s.rows = Diary!Reload(Diary!InLedger)'
    PROVE  ReadsAlone'
<1>1. /\ Diary!Busy' = Diary!Busy \cup {p} /\ proc'[p] = Begun(s)
      /\ \A q \in Diary!Busy : proc'[q] = [proc[q] EXCEPT !.alone = FALSE]
  BY OneBegins
<1>2. SUFFICES ASSUME NEW q \in Diary!Busy', proc'[q].alone
               PROVE  /\ Diary!Busy' = {q}
                      /\ proc'[q].job = "reprocess_all" =>
                            /\ proc'[q].rows = Diary!Reload(Diary!InLedger)'
                            /\ proc'[q].pc = "classify" => proc'[q].rules = rule'
  BY DEF ReadsAlone
<1>3. q = p
  <2>1. ASSUME q \in Diary!Busy PROVE FALSE
    <3>1. proc[q] \in Process  BY <2>1, BusyTyped
    <3>2. proc'[q] = [proc[q] EXCEPT !.alone = FALSE]  BY <1>1, <2>1
    <3>. QED  BY <3>1, <3>2, <1>2 DEF Process
  <2>. QED  BY <2>1, <1>1
<1>4. /\ Begun(s).alone = (Diary!Busy = {}) /\ Begun(s).job = s.job
      /\ Begun(s).rows = s.rows /\ Begun(s).pc = s.pc
  BY DEF Begun
<1>5. Diary!Busy = {}  BY <1>1, <1>2, <1>3, <1>4
<1>. QED  BY <1>1, <1>3, <1>4, <1>5

LEMMA BeginKeepsQuiet ==
    ASSUME LedgerTyped, Quiet, NEW p \in Actors, NEW s, Begun(s) \in Process,
           Shaped(Begun(s)), Diary!Begin(p, s), UNCHANGED <<ledger, rule, today, mixed>>,
           Current(Begun(s))
    PROVE  Quiet'
<1>1. /\ Diary!Busy' = Diary!Busy \cup {p} /\ proc'[p] = Begun(s)
      /\ \A q \in Diary!Busy : proc'[q] = [proc[q] EXCEPT !.alone = FALSE]
  BY OneBegins DEF Diary!InLedger
<1>2. \A q \in Diary!Busy : proc[q] \in Process  BY BusyTyped
<1>. SUFFICES ASSUME ~mixed'
              PROVE  /\ \A q \in Diary!Busy' : Current(proc[q])'
                     /\ \A e \in Diary!InLedger' : Right(e)' \/ \E q \in Diary!Busy' : Owes(proc[q], e)'
  BY DEF Quiet
<1>3. \A q \in Diary!Busy' : Current(proc[q])'
  <2>. TAKE q \in Diary!Busy'
  <2>1. Current(proc'[q])
    <3>1. CASE q \in Diary!Busy
      <4>1. Current(proc[q])  BY <3>1 DEF Quiet
      <4>2. Current([proc[q] EXCEPT !.alone = FALSE])
        BY <4>1, <3>1, <1>2, SameReading
      <4>. QED  BY <4>2, <3>1, <1>1
    <3>2. CASE q = p  BY <3>2, <1>1
    <3>. QED  BY <3>1, <3>2, <1>1
  <2>3. Current(proc[q])' <=> Current(proc'[q])
    BY DEF Current, Diary!InLedger, Diary!Reload, Diary!ClaimedBy
  <2>. QED  BY <2>1, <2>3
<1>4. \A e \in Diary!InLedger' : Right(e)' \/ \E q \in Diary!Busy' : Owes(proc[q], e)'
  <2>. TAKE e \in Diary!InLedger'
  <2>1. e \in Diary!InLedger /\ (Right(e)' <=> Right(e))  BY SameTables
  <2>2. \A q \in Diary!Busy' : Owes(proc[q], e)' <=> Owes(proc'[q], e)
    BY DEF Owes, Diary!Candidates, Diary!InLedger
  <2>3. CASE Right(e)  BY <2>1, <2>3
  <2>4. CASE ~Right(e)
    <3>1. PICK q \in Diary!Busy : Owes(proc[q], e)  BY <2>1, <2>4 DEF Quiet
    <3>2. Owes([proc[q] EXCEPT !.alone = FALSE], e)
      BY <3>1, <1>2, SameReading
    <3>3. q \in Diary!Busy' /\ Owes(proc'[q], e)  BY <3>2, <1>1
    <3>. QED  BY <3>3, <2>2
  <2>. QED  BY <2>3, <2>4
<1>. QED  BY <1>3, <1>4

LEMMA BeginKeeps ==
    ASSUME LedgerInv, NEW p \in Actors, NEW s, Begun(s) \in Process, Shaped(Begun(s)),
           Diary!Begin(p, s), UNCHANGED <<sap, ledger, rule, today, mixed, raced, holes>>,
           Current(Begun(s)),
           s.job = "reprocess_all" => s.pc # "classify" /\ s.rows = Diary!Reload(Diary!InLedger)
    PROVE  LedgerInv'
<1>1. ReadsAlone'
  <2>1. Diary!Reload(Diary!InLedger)' = Diary!Reload(Diary!InLedger)  BY DEF Diary!Reload, Diary!InLedger
  <2>. QED  BY <2>1, BeginKeepsReads DEF LedgerInv, Diary!InLedger
<1>2. Quiet'
  BY BeginKeepsQuiet DEF LedgerInv
<1>3. LedgerTyped'
  <2>1. /\ proc' \in [Actors -> Process \cup {Diary!Idle}]
        /\ \A q \in Diary!Busy' : Shaped(proc[q])'
    BY OneBegins DEF LedgerInv, Diary!InLedger
  <2>. QED  BY <2>1 DEF LedgerInv, LedgerTyped, Diary!InLedger
<1>. QED  BY <1>1, <1>2, <1>3 DEF LedgerInv

LEMMA MoveTyped ==
    ASSUME LedgerTyped, NEW p \in Actors, NEW s \in Process \cup {Diary!Idle},
           s # Diary!Idle => Shaped(s), Diary!Goto(p, s), UNCHANGED <<sap, ledger, rule, today>>,
           holes' \subseteq Diary!Days, mixed' \in BOOLEAN
    PROVE  LedgerTyped'
<1>1. /\ proc' \in [Actors -> Process \cup {Diary!Idle}]
      /\ \A q \in Diary!Busy' : Shaped(proc[q])'
  BY OneMoves DEF Diary!InLedger
<1>. QED  BY <1>1 DEF LedgerTyped, Diary!InLedger

LEMMA MoveKeeps ==
    ASSUME LedgerInv, NEW p \in Diary!Busy, NEW s \in Process \cup {Diary!Idle},
           s # Diary!Idle => Shaped(s), Diary!Goto(p, s), UNCHANGED <<sap, ledger, rule, today>>,
           holes' \subseteq Diary!Days, mixed' \in BOOLEAN, ~mixed' => ~mixed,
           ~mixed /\ s # Diary!Idle => Current(s),
           ~mixed => \A e \in Diary!InLedger :
                        Owes(proc[p], e) => Right(e) \/ (s # Diary!Idle /\ Owes(s, e)),
           s # Diary!Idle /\ s.alone =>
              /\ proc[p].alone
              /\ s.job = "reprocess_all" =>
                    /\ s.rows = Diary!Reload(Diary!InLedger)
                    /\ s.pc = "classify" => s.rules = rule
    PROVE  LedgerInv'
<1>0. p \in Actors  BY DEF Diary!Busy
<1>1. ReadsAlone'
  <2>1. Diary!Reload(Diary!InLedger)' = Diary!Reload(Diary!InLedger)  BY DEF Diary!Reload, Diary!InLedger
  <2>. QED  BY <2>1, MoveKeepsReads DEF LedgerInv, Diary!InLedger
<1>2. Quiet'
  BY MoveKeepsQuiet DEF LedgerInv
<1>3. LedgerTyped'
  BY <1>0, MoveTyped DEF LedgerInv
<1>. QED  BY <1>1, <1>2, <1>3 DEF LedgerInv

\* Whoever copies from SAP classifies no entry it has not read, and owes none.
LEMMA CopiesOwe ==
    ASSUME NEW s, s.job \in Diary!Copies, s.pc \in {"fetch", "read_rules"}
    PROVE  Current(s) /\ \A e : ~Owes(s, e)
BY DEF Current, Owes, Diary!Copies

LEMMA BeginCopy ==
    ASSUME LedgerInv, NEW p \in Actors, NEW s, Diary!Begin(p, s),
           s.pc = "fetch", s.job \in Diary!Copies, s.days \subseteq Diary!Days,
           s.job = "delta" => s.days # {}, s.target \in Diary!Days, s.from \in 1..s.target,
           s.rows = {}, UNCHANGED <<sap, ledger, rule, today, mixed, raced, holes>>
    PROVE  LedgerInv'
<1>1. rule \in RuleTable  BY DEF LedgerInv, LedgerTyped
<1>2. s.target \in Nat /\ s.from \in Nat
  BY DiaryAssumption DEF Diary!LedgerAssumption, Diary!Days
<1>3. Begun(s) \in Process
  BY <1>1, <1>2 DEF Process, Begun
<1>4. Shaped(Begun(s))
  BY DEF Shaped, Begun, Diary!Copies
<1>5. Current(Begun(s))
  BY DEF Current, Begun, Diary!Copies
<1>6. s.job # "reprocess_all"  BY DEF Diary!Copies
<1>. QED  BY <1>3, <1>4, <1>5, <1>6, BeginKeeps

LEMMA CopiesBegin ==
    ASSUME LedgerInv, NEW p \in Actors,
           (\E a, b \in Diary!Days : Diary!StartSync(p, a, b)) \/ Diary!StartDeltaJob(p) \/ Diary!StartDeltaNow(p)
    PROVE  LedgerInv'
<1>0. LedgerTyped  BY DEF LedgerInv
<1>. USE DEF Diary!Copies
<1>1. Diary!Mark \in Diary!Days /\ Diary!Mark <= today /\ today \in Diary!Days /\ LastDay \in Nat
  BY <1>0, MarkIs, DiaryAssumption DEF LedgerTyped, Diary!LedgerAssumption
<1>2. ASSUME NEW a \in Diary!Days, NEW b \in Diary!Days, Diary!StartSync(p, a, b) PROVE LedgerInv'
  <2>. DEFINE s == [pc |-> "fetch", job |-> "sync", days |-> {}, from |-> a, target |-> b,
                    rows |-> {}]
  <2>1. Diary!Begin(p, s) /\ UNCHANGED <<sap, ledger, rule, today, mixed, raced, holes>> /\ a <= b
    BY <1>2 DEF Diary!StartSync
  <2>2. /\ s.pc = "fetch" /\ s.job = "sync" /\ s.days = {} /\ s.from = a /\ s.target = b
        /\ s.rows = {}
    OBVIOUS
  <2>3. a \in 1..b  BY <2>1, <1>1 DEF Diary!Days
  <2>. HIDE DEF s
  <2>. QED  BY <2>1, <2>2, <2>3, BeginCopy
<1>3. ASSUME Diary!StartDeltaJob(p) PROVE LedgerInv'
  <2>. DEFINE s == [pc |-> "fetch", job |-> "delta", days |-> Diary!Mark..today, from |-> Diary!Mark,
                    target |-> today, rows |-> {}]
  <2>1. Diary!Begin(p, s) /\ UNCHANGED <<sap, ledger, rule, today, mixed, raced, holes>>
    BY <1>3 DEF Diary!StartDeltaJob
  <2>2. /\ s.pc = "fetch" /\ s.job = "delta" /\ s.days = Diary!Mark..today /\ s.from = Diary!Mark
        /\ s.target = today /\ s.rows = {}
    OBVIOUS
  <2>3. Diary!Mark \in 1..today /\ Diary!Mark..today \subseteq Diary!Days /\ Diary!Mark \in Diary!Mark..today
    BY <1>1 DEF Diary!Days
  <2>. HIDE DEF s
  <2>. QED  BY <2>1, <2>2, <2>3, <1>1, BeginCopy
<1>4. ASSUME Diary!StartDeltaNow(p) PROVE LedgerInv'
  <2>. DEFINE j == IF Diary!InLedger = {} THEN "sync" ELSE "delta_now"
              s == [pc |-> "fetch", job |-> j, days |-> {}, from |-> Diary!Mark,
                    target |-> today, rows |-> {}]
  <2>1. Diary!Begin(p, s) /\ UNCHANGED <<sap, ledger, rule, today, mixed, raced, holes>>
    BY <1>4 DEF Diary!StartDeltaNow
  <2>2. /\ s.pc = "fetch" /\ s.job = j /\ s.days = {} /\ s.from = Diary!Mark
        /\ s.target = today /\ s.rows = {}
    OBVIOUS
  <2>3. Diary!Mark \in 1..today /\ j \in Diary!Copies /\ j # "delta"
    BY <1>1 DEF Diary!Days
  <2>. HIDE DEF s, j
  <2>. QED  BY <2>1, <2>2, <2>3, <1>1, BeginCopy
<1>. QED  BY <1>2, <1>3, <1>4

LEMMA FetchKeeps ==
    ASSUME LedgerInv, NEW p \in Actors, Diary!Fetch(p)
    PROVE  LedgerInv'
<1>. DEFINE s == proc[p]
            R == {[e |-> e, is |-> sap[e]] : e \in Diary!Selected(s)}
            t == [s EXCEPT !.pc = "read_rules", !.rows = R]
<1>1. p \in Diary!Busy /\ s.pc = "fetch" /\ Diary!Goto(p, t)
      /\ UNCHANGED <<sap, ledger, rule, today, mixed, raced, holes>>
  BY DEF Diary!Fetch, Diary!Busy
<1>2. s \in Process /\ Shaped(s)
  BY <1>1, BusyTyped DEF LedgerInv
<1>3. s.job \in Diary!Copies
  BY <1>1, <1>2 DEF Shaped, Process
<1>4. Diary!Selected(s) \subseteq {e \in Entries : sap[e] # Diary!Missing}
  BY DEF Diary!Selected
<1>5. R \subseteq [e : Entries, is : SapRow] /\ \A x \in R : x.is.day <= today
  BY <1>4 DEF LedgerInv, LedgerTyped
<1>. HIDE DEF R
<1>6. /\ t \in Process /\ t.pc = "read_rules" /\ t.rows = R /\ t.job = s.job
      /\ t.days = s.days /\ t.from = s.from /\ t.target = s.target /\ t.alone = s.alone
  BY <1>2, <1>5 DEF Process, LoadedRow
<1>. HIDE DEF t
<1>7. Shaped(t)
  BY <1>2, <1>3, <1>5, <1>6 DEF Shaped, Diary!Copies
<1>8. Current(t) /\ \A e : ~Owes(s, e)
  BY <1>1, <1>3, <1>6, CopiesOwe
<1>9. t.job # "reprocess_all"  BY <1>3, <1>6 DEF Diary!Copies
<1>10. holes \subseteq Diary!Days /\ mixed \in BOOLEAN  BY DEF LedgerInv, LedgerTyped
<1>. QED  BY <1>1, <1>6, <1>7, <1>8, <1>9, <1>10, MoveKeeps

LEMMA ReadRulesKeeps ==
    ASSUME LedgerInv, NEW p \in Actors, Diary!ReadRules(p)
    PROVE  LedgerInv'
<1>. DEFINE s == proc[p]
            c == IF s.job \in Diary!Copies THEN "upsert" ELSE "classify"
            t == [s EXCEPT !.rules = rule, !.pc = c]
<1>1. p \in Diary!Busy /\ s.pc = "read_rules" /\ Diary!Goto(p, t)
      /\ UNCHANGED <<sap, ledger, rule, today, mixed, raced, holes>>
  BY DEF Diary!ReadRules, Diary!Busy
<1>2. s \in Process /\ Shaped(s)
  BY <1>1, BusyTyped DEF LedgerInv
<1>3. rule \in RuleTable  BY DEF LedgerInv, LedgerTyped
<1>4. c = (IF s.job \in Diary!Copies THEN "upsert" ELSE "classify") /\ c \in {"upsert", "classify"}
  BY DEF Diary!Copies
<1>. HIDE DEF c
<1>6. /\ t \in Process /\ t.pc = c /\ t.rows = s.rows /\ t.job = s.job /\ t.rules = rule
      /\ t.days = s.days /\ t.from = s.from /\ t.target = s.target /\ t.alone = s.alone
  BY <1>2, <1>3, <1>4 DEF Process
<1>. HIDE DEF t
<1>7. Shaped(t)
  BY <1>2, <1>4, <1>6, <1>1 DEF Shaped, Diary!Copies
<1>8. ~mixed => Current(t)
  BY <1>1, <1>6, <1>4 DEF LedgerInv, Quiet, Current
<1>9. \A e : Owes(s, e) => Owes(t, e)
  BY <1>1, <1>4, <1>6 DEF Owes, Diary!Copies
<1>10. holes \subseteq Diary!Days /\ mixed \in BOOLEAN  BY DEF LedgerInv, LedgerTyped
<1>11. t.alone => s.alone /\ (t.job = "reprocess_all" => t.rows = Diary!Reload(Diary!InLedger)
                                  /\ (t.pc = "classify" => t.rules = rule))
  BY <1>1, <1>6 DEF LedgerInv, ReadsAlone
<1>12. t # Diary!Idle  BY <1>6, MissingIsNoRow
<1>. QED  BY <1>1, <1>6, <1>7, <1>8, <1>9, <1>10, <1>11, <1>12, MoveKeeps

LEMMA ItemIs ==
    ASSUME NEW s, s.days \subseteq Diary!Days, s.days # {}
    PROVE  Diary!Item(s) \in s.days /\ \A c \in s.days : Diary!Item(s) <= c
<1>1. s.days \subseteq Nat  BY DiaryAssumption DEF Diary!LedgerAssumption, Diary!Days
<1>2. \E d \in s.days : \A c \in s.days : d <= c
  BY <1>1, LeastNumber
<1>. QED  BY <1>2 DEF Diary!Item

\* A copy goes on with its next day, or ends.
LEMMA CopyGoesOn ==
    ASSUME LedgerInv, NEW p \in Diary!Busy, NEW s, s = proc[p], s.job \in Diary!Copies,
           Diary!Goto(p, IF s.job = "delta" /\ s.days # {Diary!Item(s)}
                   THEN [s EXCEPT !.pc = "fetch", !.rows = {}, !.days = @ \ {Diary!Item(s)}] ELSE Diary!Idle),
           UNCHANGED <<sap, ledger, rule, today, mixed>>, holes' \subseteq Diary!Days,
           s.pc \in {"fetch", "read_rules", "upsert"}
    PROVE  LedgerInv'
<1>1. s \in Process /\ Shaped(s)
  BY BusyTyped DEF LedgerInv
<1>2. \A e : ~Owes(s, e)
  BY DEF Owes, Diary!Copies
<1>3. mixed \in BOOLEAN  BY DEF LedgerInv, LedgerTyped
<1>4. CASE s.job = "delta" /\ s.days # {Diary!Item(s)}
  <2>. DEFINE t == [s EXCEPT !.pc = "fetch", !.rows = {}, !.days = @ \ {Diary!Item(s)}]
  <2>1. s.days \subseteq Diary!Days /\ s.days # {}
    BY <1>1, <1>4 DEF Process, Shaped
  <2>2. s.days \ {Diary!Item(s)} # {} /\ s.days \ {Diary!Item(s)} \subseteq Diary!Days
    BY <1>4, <2>1, ItemIs
  <2>3. /\ t \in Process /\ t.pc = "fetch" /\ t.rows = {} /\ t.job = s.job
        /\ t.days = s.days \ {Diary!Item(s)} /\ t.from = s.from /\ t.target = s.target
        /\ t.alone = s.alone
    BY <1>1, <2>2 DEF Process
  <2>4. Diary!Goto(p, t)  BY <1>4
  <2>. HIDE DEF t
  <2>5. Shaped(t)
    BY <1>1, <2>2, <2>3, <1>4 DEF Shaped, Diary!Copies
  <2>6. Current(t)  BY <2>3, CopiesOwe
  <2>7. t.job # "reprocess_all"  BY <2>3, <1>4
  <2>. QED  BY <2>3, <2>4, <2>5, <2>6, <2>7, <1>2, <1>3, MoveKeeps
<1>5. CASE ~(s.job = "delta" /\ s.days # {Diary!Item(s)})
  <2>1. Diary!Goto(p, Diary!Idle)  BY <1>5
  <2>. QED  BY <2>1, <1>2, <1>3, MoveKeeps
<1>. QED  BY <1>4, <1>5

LEMMA EndItemKeeps ==
    ASSUME LedgerInv, NEW p \in Actors, Diary!EndItem(p)
    PROVE  LedgerInv'
<1>. DEFINE s == proc[p]
<1>1. p \in Diary!Busy /\ s.pc = "upsert" /\ s.rows = {} /\ UNCHANGED <<sap, ledger, rule, today, mixed>>
  BY DEF Diary!EndItem, Diary!Busy
<1>2. s \in Process /\ Shaped(s)
  BY <1>1, BusyTyped DEF LedgerInv
<1>3. s.job \in Diary!Copies
  BY <1>1, <1>2 DEF Shaped, Process
<1>4. holes' \subseteq Diary!Days
  BY DEF Diary!EndItem, LedgerInv, LedgerTyped
<1>5. [s EXCEPT !.pc = "fetch", !.days = @ \ {Diary!Item(s)}]
        = [s EXCEPT !.pc = "fetch", !.rows = {}, !.days = @ \ {Diary!Item(s)}]
  BY <1>1, <1>2 DEF Process
<1>6. Diary!Goto(p, IF s.job = "delta" /\ s.days # {Diary!Item(s)}
              THEN [s EXCEPT !.pc = "fetch", !.rows = {}, !.days = @ \ {Diary!Item(s)}] ELSE Diary!Idle)
  BY <1>5 DEF Diary!EndItem
<1>. QED  BY <1>1, <1>3, <1>4, <1>6, CopyGoesOn

LEMMA FailItemKeeps ==
    ASSUME LedgerInv, NEW p \in Actors, Diary!FailItem(p)
    PROVE  LedgerInv'
<1>. DEFINE s == proc[p]
<1>1. /\ p \in Diary!Busy /\ s.pc \in {"fetch", "read_rules", "upsert"} /\ s.job \in Diary!Copies
      /\ UNCHANGED <<sap, ledger, rule, today, mixed>>
  BY DEF Diary!FailItem, Diary!Busy, Diary!Copies
<1>2. s \in Process /\ Shaped(s)
  BY <1>1, BusyTyped DEF LedgerInv
<1>4. holes' \subseteq Diary!Days
  <2>1. s.job = "delta" => Diary!Item(s) \in Diary!Days
    <3>1. s.job = "delta" => s.days # {} /\ s.days \subseteq Diary!Days
      BY <1>2 DEF Shaped, Process
    <3>. QED  BY <3>1, ItemIs
  <2>2. holes \subseteq Diary!Days  BY DEF LedgerInv, LedgerTyped
  <2>. QED  BY <2>1, <2>2 DEF Diary!FailItem
<1>6. Diary!Goto(p, IF s.job = "delta" /\ s.days # {Diary!Item(s)}
              THEN [s EXCEPT !.pc = "fetch", !.rows = {}, !.days = @ \ {Diary!Item(s)}] ELSE Diary!Idle)
  BY DEF Diary!FailItem
<1>. QED  BY <1>1, <1>4, <1>6, CopyGoesOn

LEMMA ReloadTyped ==
    ASSUME LedgerTyped, NEW S, S \subseteq Diary!InLedger
    PROVE  /\ Diary!Reload(S) \subseteq [e : Entries, is : LedgerRow]
           /\ \A x \in Diary!Reload(S) : x.e \in S /\ x.is = ledger[x.e]
           /\ \A e \in S : \E x \in Diary!Reload(S) : x.e = e
<1>1. \A e \in S : e \in Entries /\ ledger[e] \in LedgerRow
  BY DEF LedgerTyped, Diary!InLedger
<1>2. Diary!Reload(S) = {[e |-> e, is |-> ledger[e]] : e \in S}
  BY DEF Diary!Reload
<1>3. \A e \in S : [e |-> e, is |-> ledger[e]] \in Diary!Reload(S)
  BY <1>2
<1>4. \A e \in S : [e |-> e, is |-> ledger[e]].e = e
  OBVIOUS
<1>5. \A e \in S : \E x \in Diary!Reload(S) : x.e = e
  BY <1>3, <1>4
<1>6. \A x \in Diary!Reload(S) : \E e \in S : x = [e |-> e, is |-> ledger[e]]
  BY <1>2
<1>7. \A x \in Diary!Reload(S) : x \in [e : Entries, is : LedgerRow] /\ x.e \in S /\ x.is = ledger[x.e]
  BY <1>1, <1>6
<1>. QED  BY <1>5, <1>7

\* The entries are loaded: those of a reprocess, those a rule may touch.
LEMMA BeginLoaded ==
    ASSUME LedgerInv, NEW p \in Actors, NEW s, NEW S, S \subseteq Diary!InLedger, Diary!Begin(p, s),
           s.job \in {"reprocess", "reprocess_all", "delete"}, s.days = {}, s.from = 1,
           s.target \in Nat, s.rows = Diary!Reload(S),
           s.job = "reprocess_all" => S = Diary!InLedger,
           s.job # "delete" => s.pc = "read_rules",
           s.job = "delete" => /\ s.pc = "delete" /\ s.target \in RuleIds
                               /\ rule[s.target] # Diary!Missing /\ S = Diary!ClaimedBy(s.target),
           UNCHANGED <<sap, ledger, rule, today, mixed, raced, holes>>
    PROVE  LedgerInv'
<1>0. LedgerTyped  BY DEF LedgerInv
<1>1. rule \in RuleTable  BY <1>0 DEF LedgerTyped
<1>2. /\ s.rows \subseteq [e : Entries, is : LedgerRow]
      /\ \A x \in s.rows : x.e \in Diary!InLedger /\ x.is = ledger[x.e]
  BY <1>0, ReloadTyped
<1>3. /\ Begun(s).pc = s.pc /\ Begun(s).job = s.job /\ Begun(s).days = s.days
      /\ Begun(s).rows = s.rows /\ Begun(s).target = s.target /\ Begun(s).from = s.from
  BY DEF Begun
<1>4. Begun(s) \in Process
  BY <1>1, <1>2 DEF Process, Begun, LoadedRow
<1>5. Shaped(Begun(s))
  BY <1>2, <1>3 DEF Shaped, Diary!Copies
<1>6. Current(Begun(s))
  BY <1>2, <1>3 DEF Current, Diary!Copies
<1>. QED  BY <1>4, <1>5, <1>6, BeginKeeps

LEMMA ReprocessBegins ==
    ASSUME LedgerInv, NEW p \in Actors, Diary!Reprocess(p)
    PROVE  LedgerInv'
<1>1. ASSUME NEW job \in {"reprocess", "reprocess_all"}, NEW S, S \subseteq Diary!InLedger,
             job = "reprocess_all" => S = Diary!InLedger, Diary!StartReprocess(p, job, S)
      PROVE  LedgerInv'
  <2>. DEFINE s == [pc |-> "read_rules", job |-> job, days |-> {}, from |-> 1, target |-> 0,
                    rows |-> Diary!Reload(S)]
  <2>1. Diary!Begin(p, s) /\ UNCHANGED <<sap, ledger, rule, today, mixed, raced, holes>>
    BY <1>1 DEF Diary!StartReprocess
  <2>2. /\ s.pc = "read_rules" /\ s.job = job /\ s.days = {} /\ s.from = 1 /\ s.target = 0
        /\ s.rows = Diary!Reload(S)
    OBVIOUS
  <2>. HIDE DEF s
  <2>. QED  BY <1>1, <2>1, <2>2, BeginLoaded
<1>2. CASE Diary!StartReprocess(p, "reprocess_all", Diary!InLedger)
  BY <1>1, <1>2
<1>3. ASSUME NEW i \in RuleIds, Diary!StartReprocess(p, "reprocess", Diary!Candidates(i))
      PROVE  LedgerInv'
  <2>1. Diary!Candidates(i) \subseteq Diary!InLedger  BY DEF Diary!Candidates
  <2>. QED  BY <1>1, <1>3, <2>1
<1>4. ASSUME NEW a, NEW b, Diary!StartReprocess(p, "reprocess", {e \in Diary!InLedger : Posted[e] \in a..b})
      PROVE  LedgerInv'
  <2>1. {e \in Diary!InLedger : Posted[e] \in a..b} \subseteq Diary!InLedger  OBVIOUS
  <2>. QED  BY <1>1, <1>4, <2>1
<1>. QED  BY <1>2, <1>3, <1>4 DEF Diary!Reprocess

LEMMA DeleteBegins ==
    ASSUME LedgerInv, NEW p \in Actors, NEW i \in RuleIds, Diary!StartDelete(p, i)
    PROVE  LedgerInv'
<1>. DEFINE s == [pc |-> "delete", job |-> "delete", days |-> {}, from |-> 1, target |-> i,
                  rows |-> Diary!Reload(Diary!ClaimedBy(i))]
<1>1. Diary!Begin(p, s) /\ UNCHANGED <<sap, ledger, rule, today, mixed, raced, holes>> /\ rule[i] # Diary!Missing
  BY DEF Diary!StartDelete
<1>2. /\ s.pc = "delete" /\ s.job = "delete" /\ s.days = {} /\ s.from = 1 /\ s.target = i
      /\ s.rows = Diary!Reload(Diary!ClaimedBy(i))
  OBVIOUS
<1>3. Diary!ClaimedBy(i) \subseteq Diary!InLedger  BY DEF Diary!ClaimedBy
<1>4. i \in Nat  BY DiaryAssumption DEF Diary!LedgerAssumption
<1>. HIDE DEF s
<1>. QED  BY <1>1, <1>2, <1>3, <1>4, BeginLoaded

LEMMA LoadKeepsLedger ==
    ASSUME LedgerInv, NEW p \in Actors, Diary!LoadCandidates(p)
    PROVE  LedgerInv'
<1>. DEFINE s == proc[p]
            R == Diary!Reload(Diary!Candidates(s.target))
            t == [s EXCEPT !.pc = "read_rules", !.rows = R]
<1>1. p \in Diary!Busy /\ s.pc = "load" /\ UNCHANGED <<sap, ledger, rule, today, mixed, raced, holes>>
  BY DEF Diary!LoadCandidates, Diary!Busy
<1>2. s \in Process /\ Shaped(s)
  BY <1>1, BusyTyped DEF LedgerInv
<1>3. s.job = "save"
  BY <1>1, <1>2 DEF Shaped, Process, Diary!Copies
<1>4. holes \subseteq Diary!Days /\ mixed \in BOOLEAN  BY DEF LedgerInv, LedgerTyped
<1>5. Diary!Candidates(s.target) \subseteq Diary!InLedger  BY DEF Diary!Candidates
<1>6. CASE rule[s.target] = Diary!Missing
  <2>1. Diary!Goto(p, Diary!Idle)  BY <1>6 DEF Diary!LoadCandidates
  <2>2. mixed  BY <1>1, <1>6 DEF LedgerInv, Quiet, Current
  <2>. QED  BY <1>1, <1>4, <2>1, <2>2, MoveKeeps
<1>7. CASE rule[s.target] # Diary!Missing
  <2>1. Diary!Goto(p, t)  BY <1>7 DEF Diary!LoadCandidates
  <2>2. /\ R \subseteq [e : Entries, is : LedgerRow]
        /\ \A x \in R : x.e \in Diary!InLedger /\ x.is = ledger[x.e]
        /\ \A e \in Diary!Candidates(s.target) : \E x \in R : x.e = e
    BY <1>5, ReloadTyped DEF LedgerInv
  <2>. HIDE DEF R
  <2>3. /\ t \in Process /\ t.pc = "read_rules" /\ t.rows = R /\ t.job = s.job
        /\ t.days = s.days /\ t.from = s.from /\ t.target = s.target /\ t.alone = s.alone
    BY <1>2, <2>2 DEF Process, LoadedRow
  <2>. HIDE DEF t
  <2>4. Shaped(t)
    BY <1>2, <1>3, <2>2, <2>3 DEF Shaped, Diary!Copies
  <2>5. Current(t)
    BY <2>2, <2>3 DEF Current
  <2>6. \A e : Owes(s, e) => Owes(t, e)
    BY <1>1, <1>3, <2>2, <2>3 DEF Owes
  <2>7. t # Diary!Idle  BY <2>3, MissingIsNoRow
  <2>8. t.job # "reprocess_all"  BY <1>3, <2>3
  <2>. QED  BY <1>1, <1>4, <2>1, <2>3, <2>4, <2>5, <2>6, <2>7, <2>8, MoveKeeps
<1>. QED  BY <1>6, <1>7

LEMMA DieKeeps1 ==
    ASSUME LedgerInv, NEW p \in Actors, Diary!Die(p)
    PROVE  LedgerInv'
<1>1. p \in Diary!Busy /\ Diary!Goto(p, Diary!Idle) /\ mixed' = TRUE /\ UNCHANGED <<sap, ledger, rule, today, holes>>
  BY DEF Diary!Die, Diary!Busy
<1>2. holes' \subseteq Diary!Days  BY <1>1 DEF LedgerInv, LedgerTyped
<1>3. LedgerTyped'
  BY <1>1, <1>2, MoveTyped DEF LedgerInv
<1>4. Quiet'  BY <1>1 DEF Quiet
<1>5. ReadsAlone'  BY <1>1, MoveKeepsReads DEF LedgerInv, Diary!InLedger
<1>. QED  BY <1>3, <1>4, <1>5 DEF LedgerInv

\* SAP moves on beside the processes, and so does the day.
LEMMA ChangeKeeps ==
    ASSUME LedgerInv, NEW e \in Entries, NEW k \in Kinds, Diary!Change(e, k)
    PROVE  LedgerInv'
<1>0. LedgerTyped  BY DEF LedgerInv
<1>. DEFINE Touch(s) == [s EXCEPT !.touched = @ \cup {e}]
<1>1. /\ sap' = [sap EXCEPT ![e] = [kind |-> k, day |-> today]]
      /\ proc' = [p \in Actors |-> IF proc[p] = Diary!Idle THEN Diary!Idle ELSE Touch(proc[p])]
      /\ UNCHANGED <<ledger, rule, today, mixed, raced, holes>>
  BY DEF Diary!Change
<1>2. \A s \in Process :
         /\ Touch(s) \in Process
         /\ Touch(s).pc = s.pc /\ Touch(s).job = s.job /\ Touch(s).days = s.days
         /\ Touch(s).from = s.from /\ Touch(s).target = s.target /\ Touch(s).rows = s.rows
         /\ Touch(s).rules = s.rules /\ Touch(s).alone = s.alone
  BY DEF Process
<1>. HIDE DEF Touch
<1>3. \A p \in Diary!Busy : p \in Actors /\ proc[p] # Diary!Idle /\ proc[p] \in Process /\ Shaped(proc[p])
  BY <1>0, BusyTyped
<1>4. \A p \in Diary!Busy : proc'[p] = Touch(proc[p])
  BY <1>1, <1>3
<1>5. \A p \in Actors : p \notin Diary!Busy => proc'[p] = Diary!Idle
  BY <1>1 DEF Diary!Busy
<1>6. Diary!Busy' = Diary!Busy
  <2>1. \A p \in Diary!Busy : proc'[p] # Diary!Idle  BY <1>2, <1>3, <1>4, MissingIsNoRow
  <2>2. Diary!Busy' = {p \in Actors : proc'[p] # Diary!Idle}  BY DEF Diary!Busy
  <2>. QED  BY <2>1, <2>2, <1>3, <1>5
<1>7. LedgerTyped'
  <2>1. [kind |-> k, day |-> today] \in SapRow
    BY <1>0 DEF LedgerTyped, SapRow
  <2>2. sap' \in [Entries -> SapRow \cup {Diary!Missing}]
    BY <1>0, <1>1, <2>1 DEF LedgerTyped
  <2>3. \A f \in Entries : sap'[f] # Diary!Missing => sap'[f].day <= today
    <3>1. today <= today
      BY <1>0, DiaryAssumption DEF LedgerTyped, Diary!LedgerAssumption, Diary!Days
    <3>. QED  BY <1>0, <1>1, <3>1 DEF LedgerTyped
  <2>4. proc' \in [Actors -> Process \cup {Diary!Idle}]
    <3>1. \A p \in Actors : proc'[p] \in Process \cup {Diary!Idle}
      BY <1>2, <1>3, <1>4, <1>5
    <3>. QED  BY <1>1, <3>1
  <2>5. \A p \in Diary!Busy' : Shaped(proc[p])'
    BY <1>1, <1>2, <1>3, <1>4, <1>6 DEF Shaped, Diary!InLedger
  <2>. QED  BY <1>0, <1>1, <2>2, <2>3, <2>4, <2>5 DEF LedgerTyped, Diary!InLedger
<1>8. \A p \in Diary!Busy : /\ Current(proc[p])' <=> Current(proc[p])
                      /\ \A f : Owes(proc[p], f)' <=> Owes(proc[p], f)
  <2>. TAKE p \in Diary!Busy
  <2>1. \A s : Current(s)' <=> Current(s)  BY <1>1, SameTables
  <2>2. \A s, f : Owes(s, f)' <=> Owes(s, f)  BY <1>1, SameTables
  <2>. DEFINE s == proc[p]
              t == Touch(s)
  <2>3. /\ t.pc = s.pc /\ t.job = s.job /\ t.target = s.target /\ t.rows = s.rows
        /\ t.rules = s.rules
    BY <1>2, <1>3
  <2>4. proc'[p] = t  BY <1>4
  <2>. HIDE DEF t
  <2>5. Current(t) <=> Current(s)  BY <2>3 DEF Current
  <2>6. \A f : Owes(t, f) <=> Owes(s, f)  BY <2>3 DEF Owes
  <2>7. Current(proc[p])' <=> Current(t)
    <3>1. PICK c : c = t
      OBVIOUS
    <3>2. Current(proc[p])' <=> Current(c)'
      BY <2>4, <3>1 DEF Current, Diary!InLedger, Diary!Reload, Diary!ClaimedBy
    <3>. QED  BY <2>1, <3>1, <3>2
  <2>8. \A f : Owes(proc[p], f)' <=> Owes(t, f)
    BY <1>1, <2>4 DEF Owes, Diary!Candidates, Diary!InLedger
  <2>. QED  BY <2>5, <2>6, <2>7, <2>8
<1>9. Quiet'
  <2>1. Diary!InLedger' = Diary!InLedger /\ \A f : Right(f)' <=> Right(f)
    BY <1>1, SameTables
  <2>. QED  BY <1>1, <1>6, <1>8, <2>1 DEF LedgerInv, Quiet
<1>10. ReadsAlone'
  <2>1. Diary!Reload(Diary!InLedger)' = Diary!Reload(Diary!InLedger)  BY <1>1 DEF Diary!Reload, Diary!InLedger
  <2>2. \A p \in Diary!Busy : /\ proc'[p].alone = proc[p].alone /\ proc'[p].job = proc[p].job
                        /\ proc'[p].rows = proc[p].rows /\ proc'[p].pc = proc[p].pc
                        /\ proc'[p].rules = proc[p].rules
    BY <1>2, <1>3, <1>4
  <2>. QED  BY <1>1, <1>6, <2>1, <2>2 DEF LedgerInv, ReadsAlone
<1>. QED  BY <1>7, <1>9, <1>10 DEF LedgerInv

LEMMA NextDayKeeps ==
    ASSUME LedgerInv, Diary!NextDay
    PROVE  LedgerInv'
<1>1. /\ today' = today + 1 /\ today < LastDay
      /\ UNCHANGED <<sap, ledger, rule, proc, mixed, raced, holes>>
  BY DEF Diary!NextDay
<1>2. today \in Nat /\ today' \in Diary!Days /\ today' \in Nat /\ today <= today' /\ Diary!Days \subseteq Nat
  BY <1>1, DiaryAssumption DEF LedgerInv, LedgerTyped, Diary!LedgerAssumption, Diary!Days
<1>3. Diary!Busy' = Diary!Busy /\ Diary!InLedger' = Diary!InLedger  BY <1>1 DEF Diary!Busy, Diary!InLedger
<1>4. \A d \in Diary!Days : d <= today => d <= today'
  BY <1>2
<1>5. LedgerTyped'
  <2>1. \A e \in Entries : sap[e] # Diary!Missing => sap[e].day \in Diary!Days
    BY DEF LedgerInv, LedgerTyped, SapRow
  <2>2. \A e \in Diary!InLedger : ledger[e].day \in Diary!Days
    BY DEF LedgerInv, LedgerTyped, LedgerRow, Diary!InLedger
  <2>3. \A p \in Diary!Busy : Shaped(proc[p])'
    <3>. TAKE p \in Diary!Busy
    <3>1. Shaped(proc[p])  BY DEF LedgerInv, LedgerTyped
    <3>2. proc[p].job \in Diary!Copies => \A x \in proc[p].rows : x.is.day \in Diary!Days
      BY <3>1 DEF Shaped, SapRow
    <3>. QED  BY <1>1, <1>4, <3>1, <3>2 DEF Shaped, Diary!InLedger
  <2>4. \A e \in Entries : sap[e] # Diary!Missing => sap[e].day <= today'
    BY <2>1, <1>4 DEF LedgerInv, LedgerTyped
  <2>5. \A e \in Diary!InLedger : ledger[e].day <= today'
    BY <2>2, <1>4 DEF LedgerInv, LedgerTyped
  <2>. QED  BY <1>1, <1>2, <1>3, <2>3, <2>4, <2>5 DEF LedgerInv, LedgerTyped
<1>6. Quiet'
  <2>1. /\ \A s : Current(s)' <=> Current(s)
        /\ \A s, e : Owes(s, e)' <=> Owes(s, e)
        /\ \A e : Right(e)' <=> Right(e)
    BY <1>1, SameTables
  <2>2. \A p \in Diary!Busy : /\ Current(proc[p])' <=> Current(proc[p])
                        /\ \A e : Owes(proc[p], e)' <=> Owes(proc[p], e)
    BY <1>1 DEF Current, Owes, Diary!InLedger, Diary!Reload, Diary!ClaimedBy, Diary!Candidates
  <2>. QED  BY <1>1, <1>3, <2>1, <2>2 DEF LedgerInv, Quiet
<1>7. ReadsAlone'
  BY <1>1, <1>3 DEF LedgerInv, ReadsAlone, Diary!Reload, Diary!InLedger
<1>. QED  BY <1>5, <1>6, <1>7 DEF LedgerInv

\* A commit that leaves mixed as it was was made with nobody else under way.
LEMMA CommitsAlone ==
    ASSUME NEW p, Diary!Commits(p), ~mixed'
    PROVE  ~mixed /\ Diary!Busy \subseteq {p}
BY DEF Diary!Commits

LEMMA SaveRuleKeeps ==
    ASSUME LedgerInv, NEW p \in Actors, NEW i \in RuleIds, NEW new \in Shapes, Diary!SaveRule(p, i, new)
    PROVE  LedgerInv'
<1>. DEFINE s == [pc |-> "load", job |-> "save", days |-> {}, from |-> 1, target |-> i,
                  rows |-> {}]
            b == Begun(s)
<1>0. LedgerTyped  BY DEF LedgerInv
<1>1. /\ Diary!Begin(p, s) /\ rule' = [rule EXCEPT ![i] = new] /\ Diary!Commits(p)
      /\ UNCHANGED <<sap, ledger, today, holes>>
  BY DEF Diary!SaveRule
<1>2. new \in Diary!Rule /\ new # Diary!Missing /\ i \in Nat
  BY DiaryAssumption, MissingIsNoRow DEF Diary!LedgerAssumption
<1>3. rule \in RuleTable /\ rule' \in RuleTable /\ rule'[i] = new
      /\ \A j \in RuleIds \ {i} : rule'[j] = rule[j]
  BY <1>0, <1>1, <1>2 DEF LedgerTyped, RuleTable
<1>4. s.pc = "load" /\ s.job = "save" /\ s.days = {} /\ s.from = 1 /\ s.target = i /\ s.rows = {}
  OBVIOUS
<1>. HIDE DEF s
<1>5. /\ b.pc = "load" /\ b.job = "save" /\ b.rows = {} /\ b.target = i
      /\ b \in Process
  BY <1>2, <1>3, <1>4 DEF Begun, Process
<1>6. Shaped(b)
  BY <1>5 DEF Shaped, Diary!Copies
<1>7. /\ proc' \in [Actors -> Process \cup {Diary!Idle}]
      /\ \A q \in Diary!Busy' : Shaped(proc[q])'
      /\ p \notin Diary!Busy /\ Diary!Busy' = Diary!Busy \cup {p} /\ proc'[p] = b
  BY <1>0, <1>1, <1>5, <1>6, OneBegins DEF Diary!InLedger
<1>8. LedgerTyped'
  <2>1. mixed' \in BOOLEAN  BY <1>0, <1>1 DEF LedgerTyped, Diary!Commits
  <2>. QED  BY <1>0, <1>1, <1>3, <1>7, <2>1 DEF LedgerTyped, Diary!InLedger
<1>9. ReadsAlone'
  BY <1>0, <1>1, <1>4, <1>5, <1>6, BeginKeepsReads DEF Diary!InLedger
<1>10. ASSUME ~mixed' PROVE /\ \A q \in Diary!Busy' : Current(proc[q])'
                            /\ \A e \in Diary!InLedger' : Right(e)' \/ \E q \in Diary!Busy' : Owes(proc[q], e)'
  <2>1. ~mixed /\ Diary!Busy = {}
    BY <1>1, <1>7, <1>10, CommitsAlone
  <2>2. Diary!Busy' = {p}  BY <1>7, <2>1
  <2>3. Current(proc[p])'
    BY <1>1, <1>2, <1>3, <1>5, <1>7 DEF Current, Diary!Copies
  <2>4. \A e \in Diary!InLedger : Right(e)
    BY <2>1 DEF LedgerInv, Quiet
  <2>5. ASSUME NEW e \in Diary!InLedger', ~Right(e)' PROVE Owes(proc[p], e)'
    <3>. DEFINE k == ledger[e].kind
    <3>1. e \in Diary!InLedger /\ ledger[e].rule = Diary!Classify(rule, k) /\ Diary!Classify(rule', k) # Diary!Classify(rule, k)
      BY <1>1, <2>4, <2>5 DEF Right, Diary!InLedger
    <3>2. Diary!Classify(rule, k) = i \/ i \in Fit(rule', k)
      BY <1>3, <3>1, OneRuleChanges
    <3>3. e \in Diary!Candidates(i)'
      <4>1. CASE Diary!Classify(rule, k) = i
        BY <1>1, <3>1, <4>1 DEF Diary!Candidates, Diary!InLedger
      <4>2. CASE i \in Fit(rule', k)
        BY <1>1, <3>1, <4>2 DEF Diary!Candidates, Diary!InLedger, Fit, Diary!Applies
      <4>. QED  BY <3>2, <4>1, <4>2
    <3>. QED  BY <1>5, <1>7, <3>3 DEF Owes
  <2>. QED  BY <2>2, <2>3, <2>5
<1>11. Quiet'  BY <1>10 DEF Quiet
<1>. QED  BY <1>8, <1>9, <1>11 DEF LedgerInv

LEMMA DeleteRuleKeeps ==
    ASSUME LedgerInv, NEW p \in Actors, Diary!DeleteRule(p)
    PROVE  LedgerInv'
<1>. DEFINE s == proc[p]
            i == s.target
            t == [s EXCEPT !.pc = "read_rules"]
<1>0. LedgerTyped  BY DEF LedgerInv
<1>1. p \in Diary!Busy /\ s.pc = "delete" /\ UNCHANGED <<sap, ledger, today, holes>>
  BY DEF Diary!DeleteRule, Diary!Busy
<1>2. s \in Process /\ Shaped(s)
  BY <1>0, <1>1, BusyTyped
<1>3. s.job = "delete" /\ i \in RuleIds
  BY <1>1, <1>2 DEF Shaped, Process, Diary!Copies
<1>4. holes \subseteq Diary!Days /\ mixed \in BOOLEAN  BY <1>0 DEF LedgerTyped
<1>5. CASE rule[i] = Diary!Missing
  <2>1. Diary!Goto(p, Diary!Idle) /\ UNCHANGED <<rule, mixed>>  BY <1>5 DEF Diary!DeleteRule
  <2>2. \A e : ~Owes(s, e)  BY <1>1, <1>3 DEF Owes
  <2>. QED  BY <1>1, <1>4, <2>1, <2>2, MoveKeeps
<1>6. CASE rule[i] # Diary!Missing
  <2>1. rule' = [rule EXCEPT ![i] = Diary!Missing] /\ Diary!Goto(p, t) /\ Diary!Commits(p)
    BY <1>6 DEF Diary!DeleteRule
  <2>2. rule \in RuleTable /\ rule' \in RuleTable /\ rule'[i] = Diary!Missing
        /\ \A j \in RuleIds \ {i} : rule'[j] = rule[j]
    BY <1>0, <1>3, <2>1 DEF LedgerTyped, RuleTable
  <2>3. /\ t \in Process /\ t.pc = "read_rules" /\ t.rows = s.rows /\ t.job = s.job
        /\ t.days = s.days /\ t.from = s.from /\ t.target = s.target /\ t.alone = s.alone
    BY <1>2 DEF Process
  <2>. HIDE DEF t
  <2>4. Shaped(t)
    BY <1>2, <1>3, <2>3 DEF Shaped, Diary!Copies
  <2>5. /\ proc' \in [Actors -> Process \cup {Diary!Idle}]
        /\ \A q \in Diary!Busy' : Shaped(proc[q])'
        /\ proc'[p] = t
        /\ Diary!Busy' = IF t = Diary!Idle THEN Diary!Busy \ {p} ELSE Diary!Busy \cup {p}
    BY <1>0, <1>1, <2>1, <2>3, <2>4, OneMoves DEF Diary!InLedger
  <2>6. LedgerTyped'
    <3>1. mixed' \in BOOLEAN  BY <1>4, <2>1 DEF Diary!Commits
    <3>. QED  BY <1>0, <1>1, <2>2, <2>5, <3>1 DEF LedgerTyped, Diary!InLedger
  <2>7. ReadsAlone'
    BY <1>0, <1>1, <1>3, <2>1, <2>3, <2>4, MoveKeepsReads DEF LedgerInv, Diary!InLedger
  <2>8. ASSUME ~mixed' PROVE /\ \A q \in Diary!Busy' : Current(proc[q])'
                             /\ \A e \in Diary!InLedger' : Right(e)' \/ \E q \in Diary!Busy' : Owes(proc[q], e)'
    <3>1. ~mixed /\ Diary!Busy = {p}
      BY <1>1, <2>1, <2>8, CommitsAlone
    <3>2. Diary!Busy' = {p}
      <4>1. t # Diary!Idle  BY <2>3, MissingIsNoRow
      <4>. QED  BY <2>5, <3>1, <4>1
    <3>3. Current(s)  BY <1>1, <3>1 DEF LedgerInv, Quiet
    <3>4. s.rows = Diary!Reload(Diary!ClaimedBy(i))  BY <1>1, <3>3 DEF Current
    <3>5. Current(proc[p])'
      BY <1>1, <1>3, <2>3, <2>5, <3>3 DEF Current, Diary!Copies, Diary!InLedger
    <3>6. \A e \in Diary!InLedger : Right(e)
      <4>1. \A e : ~Owes(s, e)  BY <1>1, <1>3 DEF Owes
      <4>. QED  BY <3>1, <4>1 DEF LedgerInv, Quiet
    <3>7. ASSUME NEW e \in Diary!InLedger', ~Right(e)' PROVE Owes(proc[p], e)'
      <4>. DEFINE k == ledger[e].kind
      <4>1. e \in Diary!InLedger /\ ledger[e].rule = Diary!Classify(rule, k) /\ Diary!Classify(rule', k) # Diary!Classify(rule, k)
        BY <1>1, <3>6, <3>7 DEF Right, Diary!InLedger
      <4>2. i \notin Fit(rule', k)  BY <2>2 DEF Fit, Diary!Active
      <4>3. Diary!Classify(rule, k) = i
        BY <1>3, <2>2, <4>1, <4>2, OneRuleChanges
      <4>4. e \in Diary!ClaimedBy(i)  BY <4>1, <4>3 DEF Diary!ClaimedBy
      <4>5. Diary!ClaimedBy(i) \subseteq Diary!InLedger  BY DEF Diary!ClaimedBy
      <4>6. \E x \in Diary!Reload(Diary!ClaimedBy(i)) : x.e = e
        BY <1>0, <4>4, <4>5, ReloadTyped
      <4>7. \E x \in t.rows : x.e = e  BY <2>3, <3>4, <4>6
      <4>. QED  BY <1>3, <2>3, <2>5, <4>7 DEF Owes
    <3>. QED  BY <3>2, <3>5, <3>7
  <2>9. Quiet'  BY <2>8 DEF Quiet
  <2>. QED  BY <2>6, <2>7, <2>9 DEF LedgerInv
<1>. QED  BY <1>5, <1>6

LEMMA UpsertKeeps ==
    ASSUME LedgerInv, NEW p \in Actors, Diary!Upsert(p)
    PROVE  LedgerInv'
<1>. DEFINE s == proc[p]
<1>0. LedgerTyped  BY DEF LedgerInv
<1>1. p \in Diary!Busy /\ s.pc = "upsert" /\ Diary!Commits(p) /\ UNCHANGED <<sap, rule, today>>
  BY DEF Diary!Upsert, Diary!Busy
<1>2. s \in Process /\ Shaped(s)
  BY <1>0, <1>1, BusyTyped
<1>3. s.job \in Diary!Copies
  BY <1>1, <1>2 DEF Shaped, Process
<1>4. PICK x \in s.rows :
        /\ ledger' = [ledger EXCEPT ![x.e] = [kind |-> x.is.kind, day |-> x.is.day,
                                               rule |-> Diary!Classify(s.rules, x.is.kind)]]
        /\ Diary!Goto(p, [s EXCEPT !.rows = @ \ {x}])
  BY DEF Diary!Upsert
<1>. DEFINE t == [s EXCEPT !.rows = @ \ {x}]
            r == [kind |-> x.is.kind, day |-> x.is.day, rule |-> Diary!Classify(s.rules, x.is.kind)]
<1>5. x \in [e : Entries, is : SapRow] /\ x.is.day <= today
  BY <1>2, <1>3 DEF Shaped
<1>6. r \in LedgerRow /\ r.day <= today /\ r # Diary!Missing
  <2>1. s.rules \in RuleTable  BY <1>2 DEF Process
  <2>2. r \in LedgerRow
    BY <1>5, <2>1, ClassIs DEF SapRow, LedgerRow
  <2>. QED  BY <1>5, <2>2, MissingIsNoRow
<1>7. ledger' = [ledger EXCEPT ![x.e] = r]  BY <1>4
<1>8. ledger' \in [Entries -> LedgerRow \cup {Diary!Missing}]
  BY <1>0, <1>6, <1>7 DEF LedgerTyped
<1>9. /\ t \in Process /\ t.pc = "upsert" /\ t.rows = s.rows \ {x} /\ t.job = s.job
      /\ t.days = s.days /\ t.from = s.from /\ t.target = s.target /\ t.alone = s.alone
      /\ t.rules = s.rules
  BY <1>1, <1>2 DEF Process
<1>10. Diary!Goto(p, t)  BY <1>4
<1>. HIDE DEF t, r
<1>11. Shaped(t)
  BY <1>2, <1>3, <1>9 DEF Shaped, Diary!Copies
<1>17. Diary!InLedger \subseteq Diary!InLedger'
  BY <1>0, <1>6, <1>7 DEF LedgerTyped, Diary!InLedger
<1>12. /\ proc' \in [Actors -> Process \cup {Diary!Idle}]
       /\ \A q \in Diary!Busy' : Shaped(proc[q])'
       /\ proc'[p] = t
       /\ Diary!Busy' = IF t = Diary!Idle THEN Diary!Busy \ {p} ELSE Diary!Busy \cup {p}
  BY <1>0, <1>1, <1>9, <1>10, <1>11, <1>17, OneMoves
<1>13. LedgerTyped'
  <2>1. mixed' \in BOOLEAN  BY <1>0, <1>1 DEF Diary!Commits, LedgerTyped
  <2>2. holes' \subseteq Diary!Days  BY <1>0 DEF Diary!Upsert, LedgerTyped
  <2>3. \A e \in Entries : e # x.e => ledger'[e] = ledger[e]
    BY <1>0, <1>7 DEF LedgerTyped
  <2>4. ledger'[x.e] = r  BY <1>0, <1>5, <1>7 DEF LedgerTyped
  <2>5. \A e \in Diary!InLedger' : ledger'[e].day <= today
    BY <1>0, <1>6, <2>3, <2>4 DEF LedgerTyped, Diary!InLedger
  <2>. QED  BY <1>0, <1>1, <1>8, <1>12, <2>1, <2>2, <2>5 DEF LedgerTyped
<1>14. ReadsAlone'
  <2>1. t.job # "reprocess_all"  BY <1>3, <1>9 DEF Diary!Copies
  <2>. QED  BY <1>0, <1>1, <1>9, <1>10, <1>11, <1>17, <2>1, MoveKeepsReads DEF LedgerInv
<1>15. ASSUME ~mixed' PROVE /\ \A q \in Diary!Busy' : Current(proc[q])'
                            /\ \A e \in Diary!InLedger' : Right(e)' \/ \E q \in Diary!Busy' : Owes(proc[q], e)'
  <2>1. ~mixed /\ Diary!Busy = {p}
    BY <1>1, <1>15, CommitsAlone
  <2>2. Diary!Busy' = {p}
    <3>1. t # Diary!Idle  BY <1>9, MissingIsNoRow
    <3>. QED  BY <1>12, <2>1, <3>1
  <2>3. s.rules = rule
    BY <1>1, <2>1 DEF LedgerInv, Quiet, Current
  <2>4. Current(proc[p])'
    BY <1>1, <1>3, <1>9, <1>12, <2>3 DEF Current
  <2>5. \A e \in Diary!InLedger : Right(e)
    <3>1. \A e : ~Owes(s, e)  BY <1>3 DEF Owes, Diary!Copies
    <3>. QED  BY <2>1, <3>1 DEF LedgerInv, Quiet
  <2>6. ASSUME NEW e \in Diary!InLedger' PROVE Right(e)'
    <3>1. CASE e = x.e
      <4>1. ledger'[e] = r  BY <1>0, <1>5, <1>7, <3>1 DEF LedgerTyped
      <4>2. r.kind = x.is.kind /\ r.rule = Diary!Classify(rule, x.is.kind)
        BY <2>3 DEF r
      <4>3. r.rule = Diary!Classify(rule, r.kind)  BY <4>2
      <4>. QED  BY <1>1, <4>1, <4>3 DEF Right
    <3>2. CASE e # x.e
      <4>1. e \in Entries /\ ledger'[e] = ledger[e]  BY <1>0, <1>7, <3>2 DEF LedgerTyped, Diary!InLedger
      <4>2. e \in Diary!InLedger  BY <4>1 DEF Diary!InLedger
      <4>3. ledger[e].rule = Diary!Classify(rule, ledger[e].kind)  BY <2>5, <4>2 DEF Right
      <4>. QED  BY <1>1, <4>1, <4>3 DEF Right
    <3>. QED  BY <3>1, <3>2
  <2>. QED  BY <2>2, <2>4, <2>6
<1>16. Quiet'  BY <1>15 DEF Quiet
<1>. QED  BY <1>13, <1>14, <1>16 DEF LedgerInv

\* Which rows the write of the classes changes, and how.
LEMMA Reclassifies ==
    ASSUME LedgerTyped, NEW p \in Diary!Busy, NEW s, s = proc[p], s.pc = "classify",
           ledger' = Diary!Reclassified(s)
    PROVE  /\ s.job \notin Diary!Copies
           /\ ledger' \in [Entries -> LedgerRow \cup {Diary!Missing}]
           /\ Diary!InLedger' = Diary!InLedger
           /\ \A e \in Diary!InLedger : /\ ledger'[e].kind = ledger[e].kind
                                  /\ ledger'[e].day = ledger[e].day
           /\ \A e \in Diary!InLedger : IF \E x \in s.rows : x.e = e
                                  THEN ledger'[e].rule = Diary!NewClass(s, e)
                                  ELSE ledger'[e] = ledger[e]
<1>1. \A e \in Entries : ledger'[e] = IF \E x \in s.rows : x.e = e
                           THEN [ledger[e] EXCEPT !.rule = Diary!NewClass(s, e)] ELSE ledger[e]
  BY DEF Diary!Reclassified
<1>2. \A e \in Diary!InLedger : e \in Entries /\ ledger[e] \in LedgerRow
  BY DEF LedgerTyped, Diary!InLedger
<1>3. s \in Process /\ Shaped(s)  BY BusyTyped
<1>4. s.job \notin Diary!Copies  BY <1>3 DEF Shaped
<1>5. \A x \in s.rows : x.e \in Diary!InLedger  BY <1>3, <1>4 DEF Shaped
<1>6. \A e : Diary!NewClass(s, e) \in RuleIds \cup {0}
  BY <1>3, ClassIs DEF Diary!NewClass, Process
<1>7. ASSUME NEW e \in Diary!InLedger, NEW x \in s.rows, x.e = e
      PROVE  /\ ledger'[e] \in LedgerRow /\ ledger'[e].kind = ledger[e].kind
             /\ ledger'[e].day = ledger[e].day /\ ledger'[e].rule = Diary!NewClass(s, e)
  <2>. DEFINE n == Diary!NewClass(s, e)
              r == [ledger[e] EXCEPT !.rule = n]
  <2>1. ledger'[e] = r  BY <1>1, <1>2, <1>7
  <2>2. n \in RuleIds \cup {0}  BY <1>6
  <2>. HIDE DEF n
  <2>3. /\ r \in LedgerRow /\ r.kind = ledger[e].kind /\ r.day = ledger[e].day
        /\ r.rule = n
    BY <1>2, <2>2 DEF LedgerRow
  <2>. HIDE DEF r
  <2>. QED  BY <2>1, <2>3 DEF n
<1>8. \A e \in Entries : (~\E x \in s.rows : x.e = e) => ledger'[e] = ledger[e]
  BY <1>1
<1>9. \A e \in Entries \ Diary!InLedger : ledger'[e] = Diary!Missing
  <2>1. \A e \in Entries \ Diary!InLedger : ~\E x \in s.rows : x.e = e  BY <1>5
  <2>. QED  BY <1>8, <2>1 DEF Diary!InLedger
<1>10. \A e \in Diary!InLedger : /\ ledger'[e] \in LedgerRow /\ ledger'[e].kind = ledger[e].kind
                           /\ ledger'[e].day = ledger[e].day
  <2>. TAKE e \in Diary!InLedger
  <2>1. CASE \E x \in s.rows : x.e = e  BY <1>7, <2>1
  <2>2. CASE ~\E x \in s.rows : x.e = e  BY <1>2, <1>8, <2>2
  <2>. QED  BY <2>1, <2>2
<1>11. Diary!InLedger' = Diary!InLedger
  <2>1. Diary!InLedger' = {e \in Entries : ledger'[e] # Diary!Missing}  BY DEF Diary!InLedger
  <2>. QED  BY <1>2, <1>9, <1>10, <2>1, MissingIsNoRow
<1>12. ledger' \in [Entries -> LedgerRow \cup {Diary!Missing}]
  <2>1. \A e \in Entries : ledger'[e] \in LedgerRow \cup {Diary!Missing}
    BY <1>9, <1>10
  <2>. QED  BY <2>1 DEF Diary!Reclassified
<1>. QED  BY <1>2, <1>4, <1>7, <1>8, <1>10, <1>11, <1>12

\* Where what the process read still holds, the classes it writes are right.
LEMMA ReclassifiesRight ==
    ASSUME LedgerTyped, NEW p \in Diary!Busy, NEW s, s = proc[p], s.pc = "classify",
           ledger' = Diary!Reclassified(s), rule' = rule, s.rules = rule,
           \A x \in s.rows : x.is = ledger[x.e]
    PROVE  \A e \in Diary!InLedger : (\E x \in s.rows : x.e = e) =>
              Right(e)' /\ ledger'[e].rule = Diary!Classify(rule, ledger[e].kind)
<1>. TAKE e \in Diary!InLedger
<1>. HAVE \E x \in s.rows : x.e = e
<1>1. ledger'[e].rule = Diary!NewClass(s, e) /\ ledger'[e].kind = ledger[e].kind
  BY Reclassifies
<1>. DEFINE y == CHOOSE y \in s.rows : y.e = e
<1>2. y \in s.rows /\ y.e = e  OBVIOUS
<1>3. Diary!NewClass(s, e) = Diary!Classify(s.rules, y.is.kind)  BY DEF Diary!NewClass
<1>. HIDE DEF y
<1>4. y.is = ledger[e]  BY <1>2
<1>5. Diary!NewClass(s, e) = Diary!Classify(rule, ledger[e].kind)  BY <1>3, <1>4
<1>. QED  BY <1>1, <1>5 DEF Right

LEMMA WriteKeeps ==
    ASSUME LedgerInv, NEW p \in Actors, Diary!WriteClasses(p)
    PROVE  LedgerInv'
<1>. DEFINE s == proc[p]
<1>0. LedgerTyped  BY DEF LedgerInv
<1>1. /\ p \in Diary!Busy /\ s.pc = "classify" /\ ledger' = Diary!Reclassified(s) /\ Diary!Goto(p, Diary!Idle)
      /\ UNCHANGED <<sap, rule, today, holes>>
  BY DEF Diary!WriteClasses, Diary!Busy
<1>2. s \in Process /\ Shaped(s)
  BY <1>0, <1>1, BusyTyped
<1>3. /\ s.job \notin Diary!Copies
      /\ ledger' \in [Entries -> LedgerRow \cup {Diary!Missing}]
      /\ Diary!InLedger' = Diary!InLedger
      /\ \A e \in Diary!InLedger : ledger'[e].kind = ledger[e].kind /\ ledger'[e].day = ledger[e].day
      /\ \A e \in Diary!InLedger : (~\E x \in s.rows : x.e = e) => ledger'[e] = ledger[e]
  BY <1>0, <1>1, Reclassifies
<1>4. /\ proc' \in [Actors -> Process \cup {Diary!Idle}]
      /\ \A q \in Diary!Busy' : Shaped(proc[q])'
      /\ \A q \in Actors \ {p} : proc'[q] = proc[q]
      /\ Diary!Busy' = Diary!Busy \ {p}
  BY <1>0, <1>1, <1>3, OneMoves
<1>5. mixed' = IF s.job = "reprocess_all" /\ s.alone THEN FALSE
               ELSE mixed \/ (s.rows # {} /\ Diary!Busy \ {p} # {})
  BY DEF Diary!WriteClasses
<1>6. LedgerTyped'
  <2>1. mixed' \in BOOLEAN  BY <1>0, <1>5 DEF LedgerTyped
  <2>2. \A e \in Diary!InLedger' : ledger'[e].day <= today  BY <1>0, <1>3 DEF LedgerTyped
  <2>. QED  BY <1>0, <1>1, <1>3, <1>4, <2>1, <2>2 DEF LedgerTyped
<1>7. ReadsAlone'
  BY <1>0, <1>1, <1>3, MoveKeepsReads DEF LedgerInv
<1>8. CASE s.job = "reprocess_all" /\ s.alone
  <2>1. Diary!Busy = {p} /\ s.rows = Diary!Reload(Diary!InLedger) /\ s.rules = rule
    BY <1>1, <1>8 DEF LedgerInv, ReadsAlone
  <2>2. /\ \A x \in s.rows : x.is = ledger[x.e]
        /\ \A e \in Diary!InLedger : \E x \in s.rows : x.e = e
    BY <1>0, <2>1, ReloadTyped
  <2>3. \A e \in Diary!InLedger' : Right(e)'
    BY <1>0, <1>1, <1>3, <2>1, <2>2, ReclassifiesRight
  <2>4. Diary!Busy' = {}  BY <1>4, <2>1
  <2>. QED  BY <1>6, <1>7, <2>3, <2>4 DEF LedgerInv, Quiet
<1>9. CASE ~(s.job = "reprocess_all" /\ s.alone)
  <2>1. ASSUME ~mixed' PROVE /\ \A q \in Diary!Busy' : Current(proc[q])'
                             /\ \A e \in Diary!InLedger' : Right(e)' \/ \E q \in Diary!Busy' : Owes(proc[q], e)'
    <3>1. ~mixed /\ (s.rows = {} \/ Diary!Busy = {p})
      BY <1>1, <1>5, <1>9, <2>1
    <3>2. s.rules = rule /\ \A x \in s.rows : x.is = ledger[x.e]
      BY <1>1, <1>3, <3>1 DEF LedgerInv, Quiet, Current
    <3>3. \A e \in Diary!InLedger : (\E x \in s.rows : x.e = e) => Right(e)'
      BY <1>0, <1>1, <3>2, ReclassifiesRight
    <3>4. CASE s.rows = {}
      <4>1. ledger' = ledger
        <5>1. ledger' = [e \in Entries |-> ledger[e]]
          BY <1>1, <3>4 DEF Diary!Reclassified
        <5>. QED  BY <1>0, <5>1 DEF LedgerTyped
      <4>2. Diary!Idle # Diary!Idle \/ TRUE  OBVIOUS
      <4>3. \A e : ~Owes(s, e)  BY <1>1, <3>4 DEF Owes
      <4>4. mixed' = mixed  BY <1>5, <1>9, <3>4, <1>0 DEF LedgerTyped
      <4>5. Quiet'
        BY <1>0, <1>1, <4>1, <4>3, <4>4, MoveKeepsQuiet DEF LedgerInv
      <4>. QED  BY <4>5, <2>1 DEF Quiet
    <3>5. CASE Diary!Busy = {p}
      <4>1. Diary!Busy' = {}  BY <1>4, <3>5
      <4>2. \A e \in Diary!InLedger : Right(e)'
        <5>. TAKE e \in Diary!InLedger
        <5>1. CASE \E x \in s.rows : x.e = e  BY <3>3, <5>1
        <5>2. CASE ~\E x \in s.rows : x.e = e
          <6>1. ~Owes(s, e)  BY <1>1, <5>2 DEF Owes
          <6>2. Right(e)  BY <3>1, <3>5, <6>1 DEF LedgerInv, Quiet
          <6>. QED  BY <1>1, <1>3, <5>2, <6>2 DEF Right
        <5>. QED  BY <5>1, <5>2
      <4>. QED  BY <1>3, <4>1, <4>2
    <3>. QED  BY <3>1, <3>4, <3>5
  <2>. QED  BY <1>6, <1>7, <2>1 DEF LedgerInv, Quiet
<1>. QED  BY <1>8, <1>9

LEMMA LedgerStarts == Diary!Init => LedgerInv
<1>. SUFFICES ASSUME Diary!Init PROVE LedgerInv
  OBVIOUS
<1>1. Diary!Busy = {} /\ Diary!InLedger = {}
  BY DEF Diary!Init, Diary!Busy, Diary!InLedger
<1>2. 1 \in Diary!Days /\ 1 <= today /\ today = 1
  BY DiaryAssumption DEF Diary!LedgerAssumption, Diary!Init, Diary!Days
<1>3. \A e \in Entries : sap[e] # Diary!Missing => sap[e].day = 1
  BY DEF Diary!Init
<1>4. sap \in [Entries -> SapRow \cup {Diary!Missing}]
  <2>1. [kind : Kinds, day : {1}] \subseteq SapRow  BY <1>2 DEF SapRow
  <2>. QED  BY <2>1 DEF Diary!Init
<1>5. LedgerTyped
  BY <1>1, <1>2, <1>3, <1>4 DEF Diary!Init, LedgerTyped, RuleTable
<1>. QED  BY <1>1, <1>5 DEF LedgerInv, Quiet, ReadsAlone

LEMMA LedgerStays == LedgerInv /\ UNCHANGED ledgerVars => LedgerInv'
<1>. SUFFICES ASSUME LedgerInv, UNCHANGED ledgerVars PROVE LedgerInv'
  OBVIOUS
<1>. USE DEF ledgerVars
<1>1. Diary!InLedger' = Diary!InLedger /\ Diary!Busy' = Diary!Busy  BY DEF Diary!InLedger, Diary!Busy
<1>2. LedgerTyped'  BY <1>1 DEF LedgerInv, LedgerTyped, Shaped
<1>3. Quiet'
  BY <1>1 DEF LedgerInv, Quiet, Current, Owes, Right, Diary!Reload, Diary!ClaimedBy, Diary!Candidates
<1>4. ReadsAlone'  BY <1>1 DEF LedgerInv, ReadsAlone, Diary!Reload
<1>. QED  BY <1>2, <1>3, <1>4 DEF LedgerInv

LEMMA LedgerStep == LedgerInv /\ [Diary!Next]_ledgerVars => LedgerInv'
<1>. SUFFICES ASSUME LedgerInv, [Diary!Next]_ledgerVars PROVE LedgerInv'
  OBVIOUS
<1>1. ASSUME NEW p \in Actors, Diary!Copy(p) PROVE LedgerInv'
  BY <1>1, CopiesBegin, FetchKeeps, UpsertKeeps, EndItemKeeps, FailItemKeeps DEF Diary!Copy
<1>2. ASSUME NEW p \in Actors, Diary!EditRules(p) PROVE LedgerInv'
  BY <1>2, SaveRuleKeeps, DeleteBegins, LoadKeepsLedger, DeleteRuleKeeps DEF Diary!EditRules
<1>3. ASSUME NEW p \in Actors, Diary!Reprocess(p) \/ Diary!ReadRules(p) \/ Diary!WriteClasses(p) \/ Diary!Die(p)
      PROVE  LedgerInv'
  BY <1>3, ReprocessBegins, ReadRulesKeeps, WriteKeeps, DieKeeps1
<1>4. ASSUME NEW e \in Entries, NEW k \in Kinds, Diary!Change(e, k) PROVE LedgerInv'
  BY <1>4, ChangeKeeps
<1>5. CASE Diary!NextDay  BY <1>5, NextDayKeeps
<1>6. CASE UNCHANGED ledgerVars  BY <1>6, LedgerStays
<1>. QED  BY <1>1, <1>2, <1>3, <1>4, <1>5, <1>6 DEF Diary!Next, Diary!ledgerVars, ledgerVars

\* In the behaviours of the other modules the ledger stays where it begins.
LEMMA LedgerHolds == RecordsSpec => []LedgerInv
<1>1. RecordsInit => LedgerInv
  BY LedgerStarts DEF RecordsInit
<1>2. LedgerInv /\ [RecordsNext]_recordVars => LedgerInv'
  <2>1. [RecordsNext]_recordVars => [Diary!Next]_ledgerVars
    BY DEF RecordsNext, CatalogNext, AccessNext, LedgerNext, recordVars
  <2>. QED  BY <2>1, LedgerStep
<1>. QED  BY <1>1, <1>2, PTL DEF RecordsSpec

(***************************************************************************)
(* While nothing is under way, and no two processes have overlapped nor    *)
(* one died since the last complete reprocess, every entry of the ledger   *)
(* has the class the active rules give it (libro_mayor_rules_service.py):  *)
(* for any rules, kinds, entries, processes and days.                      *)
(***************************************************************************)
THEOREM EntriesAreWellClassified == RecordsSpec => []WellClassified
<1>1. LedgerInv => WellClassified
  BY DEF LedgerInv, Quiet, Right, Diary!Busy, Diary!WellClassified, WellClassified
<1>. QED  BY <1>1, LedgerHolds, PTL

LEMMA LedgerIsTyped == LedgerInv => Diary!TypeOK
<1>. SUFFICES ASSUME LedgerInv PROVE Diary!TypeOK
  OBVIOUS
<1>1. \A p \in Diary!Busy : proc[p].job \in Diary!Copies => proc[p].from \in 1..proc[p].target
  BY DEF LedgerInv, LedgerTyped, Shaped
<1>2. \A e \in Entries : sap[e] = Diary!Missing \/ sap[e] \in SapRow
  BY DEF LedgerInv, LedgerTyped
<1>3. \A e \in Entries : ledger[e] = Diary!Missing \/ ledger[e] \in LedgerRow
  BY DEF LedgerInv, LedgerTyped
<1>4. \A i \in RuleIds : rule[i] = Diary!Missing \/ rule[i] \in Diary!Rule
  BY DEF LedgerInv, LedgerTyped, RuleTable
<1>5. holes \subseteq Diary!Days  BY DEF LedgerInv, LedgerTyped
<1>. QED  BY <1>1, <1>2, <1>3, <1>4, <1>5 DEF Diary!TypeOK, Diary!Copies, SapRow, LedgerRow


\* What ends a process.
LEMMA WhoEnds ==
    ASSUME LedgerTyped, [Diary!Next]_ledgerVars, NEW p \in Diary!Busy, proc'[p] = Diary!Idle
    PROVE  Diary!EndItem(p) \/ Diary!FailItem(p) \/ Diary!LoadCandidates(p) \/ Diary!DeleteRule(p)
           \/ Diary!WriteClasses(p) \/ Diary!Die(p)
<1>1. p \in Actors /\ proc[p] # Diary!Idle /\ proc[p] \in Process
  BY BusyTyped
<1>2. proc \in [Actors -> Process \cup {Diary!Idle}]  BY DEF LedgerTyped
<1>3. \A t : t.pc # "idle" => t # Diary!Idle
  BY DEF Diary!Idle
<1>4. proc[p].pc # "idle"  BY <1>1 DEF Process
<1>5. ASSUME NEW q \in Actors, NEW s, Diary!Begin(q, s) PROVE FALSE
  <2>1. q # p  BY <1>1, <1>5 DEF Diary!Begin
  <2>2. proc'[p] = [proc[p] EXCEPT !.alone = FALSE]
    BY <1>1, <1>5, <2>1 DEF Diary!Begin
  <2>3. [proc[p] EXCEPT !.alone = FALSE].pc = proc[p].pc  BY <1>1 DEF Process
  <2>. QED  BY <1>3, <1>4, <2>2, <2>3
<1>6. ASSUME NEW q \in Actors, NEW s, Diary!Goto(q, s) PROVE q = p /\ s = Diary!Idle
  BY <1>1, <1>2, <1>6 DEF Diary!Goto
<1>7. ASSUME Diary!Fetch(p) \/ Diary!ReadRules(p) \/ Diary!Upsert(p) PROVE FALSE
  <2>1. CASE Diary!Fetch(p)
    <3>. DEFINE R == {[e |-> e, is |-> sap[e]] : e \in Diary!Selected(proc[p])}
                t == [proc[p] EXCEPT !.pc = "read_rules", !.rows = R]
    <3>1. Diary!Goto(p, t)  BY <2>1 DEF Diary!Fetch
    <3>. HIDE DEF R
    <3>2. t.pc = "read_rules"  BY <1>1 DEF Process
    <3>. QED  BY <1>1, <1>3, <1>6, <3>1, <3>2
  <2>2. CASE Diary!ReadRules(p)
    <3>. DEFINE c == IF proc[p].job \in Diary!Copies THEN "upsert" ELSE "classify"
                t == [proc[p] EXCEPT !.rules = rule, !.pc = c]
    <3>1. Diary!Goto(p, t)  BY <2>2 DEF Diary!ReadRules
    <3>2. c # "idle"  OBVIOUS
    <3>. HIDE DEF c
    <3>3. t.pc = c  BY <1>1 DEF Process
    <3>. QED  BY <1>1, <1>3, <1>6, <3>1, <3>2, <3>3
  <2>3. CASE Diary!Upsert(p)
    <3>1. PICK x \in proc[p].rows : Diary!Goto(p, [proc[p] EXCEPT !.rows = @ \ {x}])
      BY <2>3 DEF Diary!Upsert
    <3>. DEFINE t == [proc[p] EXCEPT !.rows = @ \ {x}]
    <3>2. t.pc = proc[p].pc  BY <1>1 DEF Process
    <3>. QED  BY <1>1, <1>3, <1>4, <1>6, <3>1, <3>2
  <2>. QED  BY <1>7, <2>1, <2>2, <2>3
<1>8. ASSUME NEW q \in Actors, Diary!Copy(q) PROVE Diary!EndItem(p) \/ Diary!FailItem(p)
  <2>1. ~(\E a, b \in Diary!Days : Diary!StartSync(q, a, b)) /\ ~Diary!StartDeltaJob(q) /\ ~Diary!StartDeltaNow(q)
    BY <1>5 DEF Diary!StartSync, Diary!StartDeltaJob, Diary!StartDeltaNow
  <2>2. Diary!Fetch(q) \/ Diary!Upsert(q) \/ Diary!EndItem(q) \/ Diary!FailItem(q)
    BY <1>8, <2>1 DEF Diary!Copy
  <2>3. q = p
    BY <1>6, <2>2 DEF Diary!Fetch, Diary!Upsert, Diary!EndItem, Diary!FailItem
  <2>. QED  BY <1>7, <2>2, <2>3
<1>9. ASSUME NEW q \in Actors, Diary!EditRules(q) PROVE Diary!LoadCandidates(p) \/ Diary!DeleteRule(p)
  <2>1. ~(\E i \in RuleIds, new \in Shapes : Diary!SaveRule(q, i, new)) /\ ~(\E i \in RuleIds : Diary!StartDelete(q, i))
    BY <1>5 DEF Diary!SaveRule, Diary!StartDelete
  <2>2. Diary!LoadCandidates(q) \/ Diary!DeleteRule(q)
    BY <1>9, <2>1 DEF Diary!EditRules
  <2>3. q = p
    BY <1>6, <2>2 DEF Diary!LoadCandidates, Diary!DeleteRule
  <2>. QED  BY <2>2, <2>3
<1>10. ASSUME NEW q \in Actors, Diary!Reprocess(q) PROVE FALSE
  BY <1>5, <1>10 DEF Diary!Reprocess, Diary!StartReprocess
<1>11. ASSUME NEW q \in Actors, Diary!ReadRules(q) \/ Diary!WriteClasses(q) \/ Diary!Die(q)
       PROVE  Diary!WriteClasses(p) \/ Diary!Die(p)
  <2>1. q = p
    BY <1>6, <1>11 DEF Diary!ReadRules, Diary!WriteClasses, Diary!Die
  <2>. QED  BY <1>7, <1>11, <2>1
<1>12. ASSUME NEW e \in Entries, NEW k \in Kinds, Diary!Change(e, k) PROVE FALSE
  <2>1. proc'[p] = [proc[p] EXCEPT !.touched = @ \cup {e}]
    BY <1>1, <1>12 DEF Diary!Change
  <2>2. [proc[p] EXCEPT !.touched = @ \cup {e}].pc = proc[p].pc  BY <1>1 DEF Process
  <2>. QED  BY <1>3, <1>4, <2>1, <2>2
<1>13. CASE Diary!NextDay \/ UNCHANGED ledgerVars
  BY <1>1, <1>13 DEF Diary!NextDay, ledgerVars
<1>. QED  BY <1>8, <1>9, <1>10, <1>11, <1>12, <1>13 DEF Diary!Next, Diary!ledgerVars, ledgerVars

\* A complete reprocess that overlaps nothing repairs every class, whatever
\* overlapping edits and copies, or a process that died, have left behind
\* (reprocess_all).
LEMMA ReprocessIsEnough == LedgerInv /\ [Diary!Next]_ledgerVars => Diary!ReprocessAlone
<1>. SUFFICES ASSUME LedgerInv, [Diary!Next]_ledgerVars, NEW p \in Actors, proc[p] # Diary!Idle,
                     proc[p].job = "reprocess_all", proc[p].pc = "classify",
                     proc[p].alone, proc'[p] = Diary!Idle, ~mixed'
              PROVE  \A e \in Diary!InLedger : ledger'[e].rule = Diary!Classify(rule, ledger[e].kind)
  BY DEF Diary!ReprocessAlone
<1>. DEFINE s == proc[p]
<1>1. p \in Diary!Busy /\ LedgerTyped  BY DEF Diary!Busy, LedgerInv
<1>2. Diary!WriteClasses(p)
  BY <1>1, WhoEnds DEF Diary!EndItem, Diary!FailItem, Diary!LoadCandidates, Diary!DeleteRule, Diary!Die
<1>3. s.rows = Diary!Reload(Diary!InLedger) /\ s.rules = rule
  BY <1>1 DEF LedgerInv, ReadsAlone
<1>4. /\ \A x \in s.rows : x.is = ledger[x.e]
      /\ \A e \in Diary!InLedger : \E x \in s.rows : x.e = e
  BY <1>1, <1>3, ReloadTyped
<1>5. ledger' = Diary!Reclassified(s) /\ rule' = rule  BY <1>2 DEF Diary!WriteClasses
<1>. QED  BY <1>1, <1>3, <1>4, <1>5, ReclassifiesRight

-----------------------------------------------------------------------------
(* What a delta leaves behind the mark.                                    *)

Fetched(s) == s.pc # "fetch"
Deltas == {"delta", "delta_now"}

\* The days a delta is copying.
Scope(s) == IF s.job = "delta" THEN {Diary!Item(s)} ELSE {d \in Diary!Days : d >= s.from}

\* The process has read held as what e is, and has yet to write it.
Brings(s, e, held) == \E x \in s.rows : x.e = e /\ x.is = held

\* A delta is still to copy e as held, if no fault stops it.
Pends(s, e, held) ==
    /\ s.job \in Deltas
    /\ \/ s.job = "delta" /\ held.day \in s.days \ {Diary!Item(s)}
       \/ Fetched(s) /\ Brings(s, e, held)
       \/ ~Fetched(s) /\ held.day \in Scope(s)

\* The entry changed in SAP after the process had read it, and nothing the process
\* is to write takes the mark past that day.
Late(s, e, held, mark) ==
    /\ e \in s.touched /\ mark <= held.day
    /\ s.job = "delta" => s.target <= held.day
    /\ s.job # "delta" => Fetched(s)
    /\ \A y \in s.rows : y.is.day <= held.day

\* What a copy has read is what SAP holds, or has changed late.
Reads(s, table, mark, day) ==
    /\ ~Fetched(s) => s.rows = {}
    /\ \A x \in s.rows : table[x.e] # Diary!Missing /\ (x.is = table[x.e] \/ Late(s, x.e, table[x.e], mark))
    /\ s.job \in Deltas => s.target <= day /\ \A x \in s.rows : x.is.day \in Scope(s)
    /\ s.job = "delta" => \A d \in s.days : d <= s.target

\* A delta that has read its days has what SAP held of them.
Taken(s, e, held, mark) ==
    Fetched(s) /\ held.day \in Scope(s) => Brings(s, e, held) \/ Late(s, e, held, mark)

Lags(e) == sap[e] # Diary!Missing /\ ~(ledger[e] # Diary!Missing /\ ledger[e].kind = sap[e].kind)

\* The entry is in a day known to have been missed, or a delta has yet to copy it.
Expected(e) == sap[e].day \in holes \/ \E q \in Diary!Busy : Pends(proc[q], e, sap[e])

(***************************************************************************)
(* While no two copies have raced, an entry that lags lies at the mark or  *)
(* after it, unless it is awaited; and every delta under way will leave    *)
(* only what is awaited or came late to it.                                *)
(***************************************************************************)
DeltaInv ==
    ~raced =>
        /\ \A e \in Entries : Lags(e) => Diary!Mark <= sap[e].day \/ Expected(e)
        /\ \A p \in Diary!Busy : proc[p].job \in Diary!Copies => Reads(proc[p], sap, Diary!Mark, today)
        /\ \A p \in Diary!Busy : proc[p].job \in Deltas =>
              \A e \in Entries : Lags(e) =>
                 /\ Expected(e) \/ Late(proc[p], e, sap[e], Diary!Mark)
                 /\ Taken(proc[p], e, sap[e], Diary!Mark)

\* The same work, by the same operation.
Same(s, t) ==
    /\ t.job = s.job /\ t.days = s.days /\ t.from = s.from /\ t.target = s.target
    /\ t.rows = s.rows /\ t.touched = s.touched /\ (Fetched(t) <=> Fetched(s))

LEMMA SameWork ==
    ASSUME NEW s, NEW t, Same(s, t)
    PROVE  /\ Scope(t) = Scope(s)
           /\ \A e, held : Pends(s, e, held) => Pends(t, e, held)
           /\ \A e, held, mark : Late(s, e, held, mark) => Late(t, e, held, mark)
           /\ \A e, held, mark : Taken(s, e, held, mark) => Taken(t, e, held, mark)
           /\ \A table, mark, day, later :
                 Reads(s, table, mark, day) /\ day <= later /\ day \in Nat /\ later \in Nat
                    /\ s.target \in Nat => Reads(t, table, mark, later)
<1>1. Diary!Item(t) = Diary!Item(s)  BY DEF Same, Diary!Item
<1>2. Scope(t) = Scope(s)  BY <1>1 DEF Same, Scope
<1>3. \A e, held : Brings(s, e, held) <=> Brings(t, e, held)  BY DEF Same, Brings
<1>4. \A e, held : Pends(s, e, held) => Pends(t, e, held)
  BY <1>1, <1>2, <1>3 DEF Same, Pends
<1>5. \A e, held, mark : Late(s, e, held, mark) => Late(t, e, held, mark)
  BY DEF Same, Late
<1>6. \A e, held, mark : Taken(s, e, held, mark) => Taken(t, e, held, mark)
  BY <1>2, <1>3, <1>5 DEF Same, Taken
<1>7. ASSUME NEW table, NEW mark, NEW day \in Nat, NEW later \in Nat, day <= later,
             s.target \in Nat, Reads(s, table, mark, day)
      PROVE  Reads(t, table, mark, later)
  BY <1>2, <1>5, <1>7 DEF Same, Reads
<1>. QED  BY <1>2, <1>4, <1>5, <1>6, <1>7

\* Copies go on as they were, and nothing else that counts changes.
LEMMA CopiesStill ==
    ASSUME LedgerTyped, LedgerTyped', DeltaInv, UNCHANGED <<sap, holes>>,
           Diary!Mark' = Diary!Mark, \A e \in Entries : Lags(e)' => Lags(e),
           today <= today', raced' = raced,
           \A q \in Diary!Busy' : proc'[q].job \in Diary!Copies => q \in Diary!Busy /\ Same(proc[q], proc'[q]),
           \A q \in Diary!Busy : proc[q].job \in Deltas => q \in Diary!Busy' /\ Same(proc[q], proc'[q])
    PROVE  DeltaInv'
<1>. SUFFICES ASSUME ~raced'
              PROVE  /\ \A e \in Entries : Lags(e)' => Diary!Mark' <= sap'[e].day \/ Expected(e)'
                     /\ \A p \in Diary!Busy' : proc'[p].job \in Diary!Copies => Reads(proc'[p], sap', Diary!Mark', today')
                     /\ \A p \in Diary!Busy' : proc'[p].job \in Deltas =>
                           \A e \in Entries : Lags(e)' =>
                              /\ Expected(e)' \/ Late(proc'[p], e, sap'[e], Diary!Mark')
                              /\ Taken(proc'[p], e, sap'[e], Diary!Mark')
  BY DEF DeltaInv
<1>1. \A e \in Entries : Expected(e) => Expected(e)'
  <2>. TAKE e \in Entries
  <2>. HAVE Expected(e)
  <2>1. CASE sap[e].day \in holes  BY <2>1 DEF Expected
  <2>2. ASSUME NEW q \in Diary!Busy, Pends(proc[q], e, sap[e]) PROVE Expected(e)'
    <3>1. q \in Diary!Busy' /\ Same(proc[q], proc'[q])  BY <2>2 DEF Pends
    <3>2. Pends(proc'[q], e, sap[e])  BY <2>2, <3>1, SameWork
    <3>. QED  BY <3>1, <3>2 DEF Expected
  <2>. QED  BY <2>1, <2>2 DEF Expected
<1>2. \A e \in Entries : Lags(e)' => Diary!Mark' <= sap'[e].day \/ Expected(e)'
  BY <1>1 DEF DeltaInv
<1>3. today \in Nat /\ today' \in Nat /\ \A p \in Diary!Busy : proc[p].target \in Nat
  <2>1. today \in Nat /\ today' \in Nat
    BY DiaryAssumption DEF Diary!LedgerAssumption, LedgerTyped, Diary!Days
  <2>. QED  BY <2>1, BusyTyped DEF Process
<1>4. \A p \in Diary!Busy' : proc'[p].job \in Diary!Copies => Reads(proc'[p], sap', Diary!Mark', today')
  BY <1>3, SameWork DEF DeltaInv, Same
<1>5. \A p \in Diary!Busy' : proc'[p].job \in Deltas =>
         /\ p \in Diary!Busy /\ proc[p].job \in Deltas
         /\ \A e \in Entries :
               /\ Late(proc[p], e, sap[e], Diary!Mark) => Late(proc'[p], e, sap[e], Diary!Mark)
               /\ Taken(proc[p], e, sap[e], Diary!Mark) => Taken(proc'[p], e, sap[e], Diary!Mark)
  BY SameWork DEF Deltas, Diary!Copies, Same
<1>. QED  BY <1>1, <1>2, <1>4, <1>5 DEF DeltaInv

\* What MarkIs says, before and after a step.
MarkFacts ==
    /\ Diary!Mark \in Diary!Days /\ Diary!Mark <= today
    /\ \A e \in Diary!InLedger : ledger[e].day <= Diary!Mark
    /\ Diary!InLedger = {} \/ \E e \in Diary!InLedger : ledger[e].day = Diary!Mark
    /\ Diary!InLedger = {} => Diary!Mark = 1

LEMMA MarkNow == LedgerTyped => MarkFacts
BY MarkIs DEF MarkFacts, Diary!Mark

LEMMA MarkThen == LedgerTyped' => MarkFacts'
BY MarkNow, PTL

\* The mark depends on the days of the ledger only.
LEMMA SameMark ==
    ASSUME LedgerTyped, LedgerTyped', Diary!InLedger' = Diary!InLedger,
           \A e \in Diary!InLedger : ledger'[e].day = ledger[e].day
    PROVE  Diary!Mark' = Diary!Mark
<1>1. MarkFacts /\ MarkFacts'  BY MarkNow, MarkThen
<1>2. Diary!Mark \in Nat /\ Diary!Mark' \in Nat
  BY <1>1, DiaryAssumption DEF Diary!LedgerAssumption, MarkFacts, Diary!Days
<1>3. CASE Diary!InLedger = {}  BY <1>1, <1>3 DEF MarkFacts
<1>4. CASE Diary!InLedger # {}
  <2>1. PICK e \in Diary!InLedger : ledger[e].day = Diary!Mark  BY <1>1, <1>4 DEF MarkFacts
  <2>2. PICK f \in Diary!InLedger : ledger'[f].day = Diary!Mark'  BY <1>1, <1>4 DEF MarkFacts
  <2>3. Diary!Mark <= Diary!Mark'  BY <1>1, <2>1 DEF MarkFacts
  <2>4. Diary!Mark' <= Diary!Mark  BY <1>1, <2>2 DEF MarkFacts
  <2>. QED  BY <1>2, <2>3, <2>4
<1>. QED  BY <1>3, <1>4

LEMMA SameLedger ==
    ASSUME LedgerTyped, LedgerTyped', UNCHANGED <<sap, ledger>>
    PROVE  Diary!Mark' = Diary!Mark /\ \A e \in Entries : Lags(e)' <=> Lags(e)
<1>1. Diary!InLedger' = Diary!InLedger  BY DEF Diary!InLedger
<1>. QED  BY <1>1, SameMark DEF Lags

LEMMA MoveStill ==
    ASSUME LedgerTyped, LedgerTyped', DeltaInv, UNCHANGED <<sap, holes, today, raced>>,
           Diary!Mark' = Diary!Mark, \A e \in Entries : Lags(e)' => Lags(e),
           NEW p \in Diary!Busy, NEW s, Diary!Goto(p, s),
           proc[p].job \in Diary!Copies => s # Diary!Idle /\ Same(proc[p], s),
           s # Diary!Idle /\ s.job \in Diary!Copies => proc[p].job \in Diary!Copies
    PROVE  DeltaInv'
<1>1. p \in Actors /\ proc \in [Actors -> Process \cup {Diary!Idle}]  BY DEF LedgerTyped, Diary!Busy
<1>2. proc'[p] = s /\ \A q \in Actors \ {p} : proc'[q] = proc[q]
  BY <1>1 DEF Diary!Goto
<1>3. \A r : Same(r, r)  BY DEF Same
<1>4. today <= today'
  BY DiaryAssumption DEF Diary!LedgerAssumption, LedgerTyped, Diary!Days
<1>5. \A q \in Actors : (q \in Diary!Busy <=> proc[q] # Diary!Idle) /\ (q \in Diary!Busy' <=> proc'[q] # Diary!Idle)
  BY DEF Diary!Busy
<1>6. ASSUME NEW q \in Diary!Busy', proc'[q].job \in Diary!Copies PROVE q \in Diary!Busy /\ Same(proc[q], proc'[q])
  <2>1. q \in Actors  BY DEF Diary!Busy
  <2>. QED  BY <1>2, <1>3, <1>5, <1>6, <2>1
<1>7. ASSUME NEW q \in Diary!Busy, proc[q].job \in Deltas PROVE q \in Diary!Busy' /\ Same(proc[q], proc'[q])
  <2>1. q \in Actors /\ proc[q].job \in Diary!Copies  BY <1>7 DEF Diary!Busy, Deltas, Diary!Copies
  <2>. QED  BY <1>2, <1>3, <1>5, <1>7, <2>1
<1>. QED  BY <1>4, <1>6, <1>7, CopiesStill

\* Those under way when a process begins.
LEMMA OthersBegin ==
    ASSUME LedgerTyped, NEW p \in Actors, NEW s, Diary!Begin(p, s), s.pc # "idle"
    PROVE  /\ p \notin Diary!Busy /\ Diary!Busy' = Diary!Busy \cup {p}
           /\ proc'[p] = Begun(s) /\ Begun(s).job = s.job
           /\ \A q \in Diary!Busy : Same(proc[q], proc'[q])
<1>1. proc' = [q \in Actors |-> IF q = p THEN Begun(s)
                  ELSE IF proc[q] = Diary!Idle THEN Diary!Idle ELSE [proc[q] EXCEPT !.alone = FALSE]]
  BY DEF Diary!Begin, Begun
<1>2. p \notin Diary!Busy  BY DEF Diary!Begin, Diary!Busy
<1>3. \A q \in Diary!Busy : proc'[q] = [proc[q] EXCEPT !.alone = FALSE] /\ proc[q] \in Process
  BY <1>1, <1>2, BusyTyped DEF Diary!Busy
<1>4. ASSUME NEW q \in Diary!Busy PROVE Same(proc[q], proc'[q]) /\ proc'[q].pc # "idle"
  <2>. DEFINE r == proc[q]
              t == [r EXCEPT !.alone = FALSE]
  <2>1. /\ t.pc = r.pc /\ t.job = r.job /\ t.days = r.days /\ t.from = r.from
        /\ t.target = r.target /\ t.rows = r.rows /\ t.touched = r.touched /\ r.pc # "idle"
    BY <1>3 DEF Process
  <2>2. proc'[q] = t  BY <1>3
  <2>. HIDE DEF t
  <2>. QED  BY <2>1, <2>2 DEF Same, Fetched
<1>5. proc'[p] = Begun(s) /\ Begun(s).pc = s.pc /\ Begun(s).job = s.job
  BY <1>1 DEF Begun
<1>6. Diary!Busy' = Diary!Busy \cup {p}
  <2>1. \A q \in Actors : proc'[q] # Diary!Idle <=> q \in Diary!Busy \cup {p}
    BY <1>1, <1>4, <1>5 DEF Diary!Busy, Diary!Idle
  <2>. QED  BY <2>1 DEF Diary!Busy
<1>. QED  BY <1>2, <1>4, <1>5, <1>6

LEMMA BeginStill ==
    ASSUME LedgerTyped, LedgerTyped', DeltaInv, UNCHANGED <<sap, ledger, holes, today, raced>>,
           NEW p \in Actors, NEW s, Diary!Begin(p, s), s.pc # "idle", s.job \notin Diary!Copies
    PROVE  DeltaInv'
<1>1. Diary!Mark' = Diary!Mark /\ \A e \in Entries : Lags(e)' <=> Lags(e)  BY SameLedger
<1>2. today <= today'
  BY DiaryAssumption DEF Diary!LedgerAssumption, LedgerTyped, Diary!Days
<1>3. /\ Diary!Busy' = Diary!Busy \cup {p} /\ proc'[p].job = s.job
      /\ \A q \in Diary!Busy : Same(proc[q], proc'[q])
  BY OthersBegin
<1>. QED  BY <1>1, <1>2, <1>3, CopiesStill

LEMMA EditsStill ==
    ASSUME LedgerInv, LedgerTyped', DeltaInv, NEW p \in Actors, Diary!EditRules(p) \/ Diary!Reprocess(p)
    PROVE  DeltaInv'
<1>0. LedgerTyped  BY DEF LedgerInv
<1>. USE DEF Diary!Copies
<1>1. ASSUME NEW i \in RuleIds, NEW new \in Shapes, Diary!SaveRule(p, i, new) PROVE DeltaInv'
  <2>. DEFINE s == [pc |-> "load", job |-> "save", days |-> {}, from |-> 1, target |-> i,
                    rows |-> {}]
  <2>1. Diary!Begin(p, s) /\ UNCHANGED <<sap, ledger, holes, today, raced>>  BY <1>1 DEF Diary!SaveRule
  <2>2. s.pc # "idle" /\ s.job \notin Diary!Copies  OBVIOUS
  <2>. HIDE DEF s
  <2>. QED  BY <1>0, <2>1, <2>2, BeginStill
<1>2. ASSUME NEW i \in RuleIds, Diary!StartDelete(p, i) PROVE DeltaInv'
  <2>. DEFINE R == Diary!Reload(Diary!ClaimedBy(i))
              s == [pc |-> "delete", job |-> "delete", days |-> {}, from |-> 1, target |-> i,
                    rows |-> R]
  <2>1. Diary!Begin(p, s) /\ UNCHANGED <<sap, ledger, holes, today, raced>>  BY <1>2 DEF Diary!StartDelete
  <2>2. s.pc # "idle" /\ s.job \notin Diary!Copies  OBVIOUS
  <2>. HIDE DEF s
  <2>. QED  BY <1>0, <2>1, <2>2, BeginStill
<1>3. ASSUME NEW job \in {"reprocess", "reprocess_all"}, NEW chosen, Diary!StartReprocess(p, job, chosen)
      PROVE  DeltaInv'
  <2>. DEFINE R == Diary!Reload(chosen)
              s == [pc |-> "read_rules", job |-> job, days |-> {}, from |-> 1, target |-> 0,
                    rows |-> R]
  <2>1. Diary!Begin(p, s) /\ UNCHANGED <<sap, ledger, holes, today, raced>>
    BY <1>3 DEF Diary!StartReprocess
  <2>2. s.pc # "idle" /\ s.job \notin Diary!Copies  OBVIOUS
  <2>. HIDE DEF s
  <2>. QED  BY <1>0, <2>1, <2>2, BeginStill
<1>4. ASSUME Diary!Reprocess(p) PROVE DeltaInv'
  BY <1>3, <1>4 DEF Diary!Reprocess
<1>. DEFINE r == proc[p]
<1>5. ASSUME Diary!LoadCandidates(p) \/ Diary!DeleteRule(p) PROVE DeltaInv'
  <2>1. p \in Diary!Busy /\ r.pc \in {"load", "delete"} /\ UNCHANGED <<sap, ledger, holes, today, raced>>
    BY <1>5 DEF Diary!LoadCandidates, Diary!DeleteRule, Diary!Busy
  <2>2. r \in Process /\ r.job \notin Diary!Copies
    BY <1>0, <2>1, BusyTyped DEF Shaped
  <2>3. PICK t : Diary!Goto(p, t) /\ (t = Diary!Idle \/ t.job = r.job)
    <3>1. CASE Diary!LoadCandidates(p)
      <4>. DEFINE R == Diary!Reload(Diary!Candidates(r.target))
                  t == [r EXCEPT !.pc = "read_rules", !.rows = R]
      <4>1. Diary!Goto(p, Diary!Idle) \/ Diary!Goto(p, t)  BY <3>1 DEF Diary!LoadCandidates
      <4>. HIDE DEF R
      <4>2. t.job = r.job  BY <2>2 DEF Process
      <4>. QED  BY <4>1, <4>2
    <3>2. CASE Diary!DeleteRule(p)
      <4>. DEFINE t == [r EXCEPT !.pc = "read_rules"]
      <4>1. Diary!Goto(p, Diary!Idle) \/ Diary!Goto(p, t)  BY <3>2 DEF Diary!DeleteRule
      <4>2. t.job = r.job  BY <2>2 DEF Process
      <4>. QED  BY <4>1, <4>2
    <3>. QED  BY <1>5, <3>1, <3>2
  <2>4. Diary!Mark' = Diary!Mark /\ \A e \in Entries : Lags(e)' => Lags(e)
    BY <1>0, <2>1, SameLedger
  <2>. QED  BY <1>0, <2>1, <2>2, <2>3, <2>4, MoveStill
<1>. QED  BY <1>1, <1>2, <1>4, <1>5 DEF Diary!EditRules

LEMMA WritesStill ==
    ASSUME LedgerInv, LedgerTyped', DeltaInv, NEW p \in Actors,
           Diary!ReadRules(p) \/ Diary!WriteClasses(p) \/ Diary!Die(p)
    PROVE  DeltaInv'
<1>0. LedgerTyped  BY DEF LedgerInv
<1>. DEFINE r == proc[p]
<1>1. p \in Diary!Busy /\ r \in Process /\ Shaped(r)
  BY <1>0, BusyTyped DEF Diary!ReadRules, Diary!WriteClasses, Diary!Die, Diary!Busy
<1>2. CASE Diary!ReadRules(p)
  <2>. DEFINE c == IF r.job \in Diary!Copies THEN "upsert" ELSE "classify"
              t == [r EXCEPT !.rules = rule, !.pc = c]
  <2>1. r.pc = "read_rules" /\ Diary!Goto(p, t) /\ UNCHANGED <<sap, ledger, holes, today, raced>>
    BY <1>2 DEF Diary!ReadRules
  <2>2. c \in {"upsert", "classify"}  OBVIOUS
  <2>. HIDE DEF c
  <2>3. /\ t.pc = c /\ t.rows = r.rows /\ t.job = r.job /\ t.days = r.days
        /\ t.from = r.from /\ t.target = r.target /\ t.touched = r.touched
    BY <1>1 DEF Process
  <2>. HIDE DEF t
  <2>4. Same(r, t) /\ t # Diary!Idle  BY <2>1, <2>2, <2>3 DEF Same, Fetched, Diary!Idle
  <2>5. Diary!Mark' = Diary!Mark /\ \A e \in Entries : Lags(e)' => Lags(e)
    BY <1>0, <2>1, SameLedger
  <2>. QED  BY <1>0, <1>1, <2>1, <2>3, <2>4, <2>5, MoveStill
<1>3. CASE Diary!WriteClasses(p)
  <2>1. /\ r.pc = "classify" /\ ledger' = Diary!Reclassified(r) /\ Diary!Goto(p, Diary!Idle)
        /\ UNCHANGED <<sap, holes, today, raced>>
    BY <1>3 DEF Diary!WriteClasses
  <2>2. /\ r.job \notin Diary!Copies /\ Diary!InLedger' = Diary!InLedger
        /\ \A e \in Diary!InLedger : ledger'[e].kind = ledger[e].kind /\ ledger'[e].day = ledger[e].day
    BY <1>0, <1>1, <2>1, Reclassifies
  <2>3. Diary!Mark' = Diary!Mark  BY <1>0, <2>2, SameMark
  <2>4. \A e \in Entries : Lags(e)' => Lags(e)
    BY <2>1, <2>2 DEF Lags, Diary!InLedger
  <2>. QED  BY <1>0, <1>1, <2>1, <2>2, <2>3, <2>4, MoveStill
<1>4. CASE Diary!Die(p)
  <2>1. r.job \notin Diary!Copies /\ Diary!Goto(p, Diary!Idle) /\ UNCHANGED <<sap, ledger, holes, today, raced>>
    BY <1>4 DEF Diary!Die
  <2>2. Diary!Mark' = Diary!Mark /\ \A e \in Entries : Lags(e)' => Lags(e)
    BY <1>0, <2>1, SameLedger
  <2>. QED  BY <1>0, <1>1, <2>1, <2>2, MoveStill
<1>. QED  BY <1>2, <1>3, <1>4

LEMMA DayStill ==
    ASSUME LedgerTyped, LedgerTyped', DeltaInv, Diary!NextDay \/ UNCHANGED ledgerVars
    PROVE  DeltaInv'
<1>1. UNCHANGED <<sap, ledger, holes, proc, raced>> /\ today <= today'
  BY DiaryAssumption DEF Diary!LedgerAssumption, LedgerTyped, Diary!Days, Diary!NextDay, ledgerVars
<1>2. Diary!Mark' = Diary!Mark /\ \A e \in Entries : Lags(e)' <=> Lags(e)  BY <1>1, SameLedger
<1>3. Diary!Busy' = Diary!Busy /\ \A r : Same(r, r)  BY <1>1 DEF Diary!Busy, Same
<1>. QED  BY <1>1, <1>2, <1>3, CopiesStill

\* A copy begins: a delta with every day from the mark.
LEMMA CopyJoins ==
    ASSUME LedgerInv, LedgerTyped', DeltaInv, NEW p \in Actors, NEW s, Diary!Begin(p, s),
           UNCHANGED <<sap, ledger, today, raced, holes>>,
           s.pc = "fetch", s.job \in Diary!Copies, s.rows = {}, s.target \in Diary!Days,
           s.job \in Deltas => s.from = Diary!Mark /\ s.target = today,
           s.job = "delta" => s.days = Diary!Mark..today
    PROVE  DeltaInv'
<1>0. LedgerTyped  BY DEF LedgerInv
<1>. DEFINE t == proc'[p]
<1>1. Diary!Mark' = Diary!Mark /\ \A e \in Entries : Lags(e)' <=> Lags(e)  BY <1>0, SameLedger
<1>2. /\ p \notin Diary!Busy /\ Diary!Busy' = Diary!Busy \cup {p} /\ t = Begun(s)
      /\ \A q \in Diary!Busy : Same(proc[q], proc'[q])
  BY <1>0, OthersBegin
<1>3. /\ t.pc = "fetch" /\ t.job = s.job /\ t.rows = {} /\ t.from = s.from
      /\ t.target = s.target /\ t.days = s.days
  BY <1>2 DEF Begun
<1>. SUFFICES ASSUME ~raced
              PROVE  /\ \A e \in Entries : Lags(e) => Diary!Mark <= sap[e].day \/ Expected(e)'
                     /\ \A q \in Diary!Busy' : proc'[q].job \in Diary!Copies => Reads(proc'[q], sap, Diary!Mark, today)
                     /\ \A q \in Diary!Busy' : proc'[q].job \in Deltas =>
                           \A e \in Entries : Lags(e) =>
                              /\ Expected(e)' \/ Late(proc'[q], e, sap[e], Diary!Mark)
                              /\ Taken(proc'[q], e, sap[e], Diary!Mark)
  BY <1>1 DEF DeltaInv
<1>4. \A e \in Entries : Expected(e) => Expected(e)'
  BY <1>2, SameWork DEF Expected
<1>5. today \in Nat /\ Diary!Mark \in Nat /\ \A d \in Diary!Days : d \in Nat
  BY <1>0, MarkNow, DiaryAssumption DEF Diary!LedgerAssumption, LedgerTyped, Diary!Days, MarkFacts
<1>6. Reads(t, sap, Diary!Mark, today)
  BY <1>3, <1>5 DEF Reads, Fetched, Deltas
<1>7. \A q \in Diary!Busy : proc[q].job \in Diary!Copies => Reads(proc'[q], sap, Diary!Mark, today)
  BY <1>0, <1>2, <1>5, SameWork, BusyTyped DEF DeltaInv, Process
<1>8. \A q \in Diary!Busy : proc'[q].job = proc[q].job  BY <1>2 DEF Same
<1>9. ASSUME NEW e \in Entries, Lags(e), s.job \in Deltas PROVE Expected(e)'
  <2>1. sap[e].day \in Diary!Days /\ sap[e].day <= today
    BY <1>0, <1>9 DEF Lags, LedgerTyped, SapRow
  <2>2. CASE Diary!Mark <= sap[e].day
    <3>1. sap[e].day \in Scope(t) \/ (s.job = "delta" /\ sap[e].day \in t.days \ {Diary!Item(t)})
      BY <1>3, <1>5, <1>9, <2>1, <2>2 DEF Scope, Deltas
    <3>2. Pends(t, e, sap[e])  BY <1>3, <1>9, <3>1 DEF Pends, Fetched
    <3>. QED  BY <1>2, <3>2 DEF Expected
  <2>. QED  BY <1>4, <1>9, <2>2 DEF DeltaInv
<1>10. \A e \in Entries : Taken(t, e, sap[e], Diary!Mark)
  BY <1>3 DEF Taken, Fetched
<1>11. \A q \in Diary!Busy : proc[q].job \in Deltas => \A e \in Entries : Lags(e) =>
          /\ Expected(e)' \/ Late(proc'[q], e, sap[e], Diary!Mark)
          /\ Taken(proc'[q], e, sap[e], Diary!Mark)
  BY <1>2, <1>4, SameWork DEF DeltaInv
<1>. QED  BY <1>2, <1>3, <1>4, <1>6, <1>7, <1>8, <1>9, <1>10, <1>11 DEF DeltaInv

LEMMA CopiesJoin ==
    ASSUME LedgerInv, LedgerTyped', DeltaInv, NEW p \in Actors,
           (\E a, b \in Diary!Days : Diary!StartSync(p, a, b)) \/ Diary!StartDeltaJob(p) \/ Diary!StartDeltaNow(p)
    PROVE  DeltaInv'
<1>0. LedgerTyped  BY DEF LedgerInv
<1>. USE DEF Diary!Copies
<1>1. today \in Diary!Days  BY <1>0 DEF LedgerTyped
<1>2. ASSUME NEW a \in Diary!Days, NEW b \in Diary!Days, Diary!StartSync(p, a, b) PROVE DeltaInv'
  <2>. DEFINE s == [pc |-> "fetch", job |-> "sync", days |-> {}, from |-> a, target |-> b,
                    rows |-> {}]
  <2>1. Diary!Begin(p, s) /\ UNCHANGED <<sap, ledger, today, raced, holes>>
    BY <1>2 DEF Diary!StartSync
  <2>2. /\ s.pc = "fetch" /\ s.job = "sync" /\ s.days = {} /\ s.from = a /\ s.target = b
        /\ s.rows = {}
    OBVIOUS
  <2>. HIDE DEF s
  <2>. QED  BY <2>1, <2>2, CopyJoins DEF Deltas
<1>3. ASSUME Diary!StartDeltaJob(p) PROVE DeltaInv'
  <2>. DEFINE s == [pc |-> "fetch", job |-> "delta", days |-> Diary!Mark..today, from |-> Diary!Mark,
                    target |-> today, rows |-> {}]
  <2>1. Diary!Begin(p, s) /\ UNCHANGED <<sap, ledger, today, raced, holes>>
    BY <1>3 DEF Diary!StartDeltaJob
  <2>2. /\ s.pc = "fetch" /\ s.job = "delta" /\ s.days = Diary!Mark..today /\ s.from = Diary!Mark
        /\ s.target = today /\ s.rows = {}
    OBVIOUS
  <2>. HIDE DEF s
  <2>. QED  BY <1>1, <2>1, <2>2, CopyJoins
<1>4. ASSUME Diary!StartDeltaNow(p) PROVE DeltaInv'
  <2>. DEFINE j == IF Diary!InLedger = {} THEN "sync" ELSE "delta_now"
              s == [pc |-> "fetch", job |-> j, days |-> {}, from |-> Diary!Mark,
                    target |-> today, rows |-> {}]
  <2>1. Diary!Begin(p, s) /\ UNCHANGED <<sap, ledger, today, raced, holes>>
    BY <1>4 DEF Diary!StartDeltaNow
  <2>2. /\ s.pc = "fetch" /\ s.job = j /\ s.days = {} /\ s.from = Diary!Mark
        /\ s.target = today /\ s.rows = {}
    OBVIOUS
  <2>3. j \in Diary!Copies /\ j # "delta"  OBVIOUS
  <2>. HIDE DEF s, j
  <2>. QED  BY <1>1, <2>1, <2>2, <2>3, CopyJoins
<1>. QED  BY <1>2, <1>3, <1>4

\* One process moves, the others stay.
LEMMA OnlyMoves ==
    ASSUME LedgerTyped, NEW p \in Diary!Busy, NEW s, Diary!Goto(p, s)
    PROVE  /\ proc'[p] = s /\ (p \in Diary!Busy' <=> s # Diary!Idle)
           /\ \A q \in Diary!Busy : q # p => q \in Diary!Busy' /\ proc'[q] = proc[q]
           /\ \A q \in Diary!Busy' : q # p => q \in Diary!Busy /\ proc'[q] = proc[q]
<1>1. p \in Actors /\ proc \in [Actors -> Process \cup {Diary!Idle}]  BY DEF LedgerTyped, Diary!Busy
<1>2. proc'[p] = s /\ \A q \in Actors \ {p} : proc'[q] = proc[q]
  BY <1>1 DEF Diary!Goto
<1>. QED  BY <1>1, <1>2 DEF Diary!Busy

\* A copy reads its days.
LEMMA FetchTells ==
    ASSUME LedgerInv, LedgerTyped', DeltaInv, NEW p \in Actors, Diary!Fetch(p)
    PROVE  DeltaInv'
<1>0. LedgerTyped  BY DEF LedgerInv
<1>. DEFINE s == proc[p]
            R == {[e |-> e, is |-> sap[e]] : e \in Diary!Selected(s)}
            t == [s EXCEPT !.pc = "read_rules", !.rows = R]
<1>1. p \in Diary!Busy /\ s.pc = "fetch" /\ Diary!Goto(p, t) /\ UNCHANGED <<sap, ledger, today, raced, holes>>
  BY DEF Diary!Fetch, Diary!Busy
<1>2. s \in Process /\ Shaped(s)  BY <1>0, <1>1, BusyTyped
<1>3. s.job \in Diary!Copies /\ (s.job = "delta" => s.days # {} /\ s.days \subseteq Diary!Days)
  BY <1>1, <1>2 DEF Shaped, Process
<1>4. \A x \in R : x.e \in Diary!Selected(s) /\ x.is = sap[x.e]  OBVIOUS
<1>5. ASSUME NEW e \in Diary!Selected(s) PROVE \E x \in R : x.e = e /\ x.is = sap[e]
  <2>1. [e |-> e, is |-> sap[e]] \in R  OBVIOUS
  <2>. HIDE DEF R
  <2>. QED  BY <2>1
<1>. HIDE DEF R
<1>6. /\ t.pc = "read_rules" /\ t.rows = R /\ t.job = s.job /\ t.days = s.days
      /\ t.from = s.from /\ t.target = s.target /\ t.touched = s.touched
  BY <1>2 DEF Process
<1>. HIDE DEF t
<1>7. Fetched(t) /\ ~Fetched(s) /\ t # Diary!Idle  BY <1>1, <1>6 DEF Fetched, Diary!Idle
<1>8. Diary!Item(t) = Diary!Item(s) /\ Scope(t) = Scope(s)  BY <1>6 DEF Diary!Item, Scope
<1>9. \A e \in Entries : sap[e] # Diary!Missing => sap[e] \in SapRow
  BY <1>0 DEF LedgerTyped
<1>10. s.job \in Deltas => \A e \in Entries :
          e \in Diary!Selected(s) <=> sap[e] # Diary!Missing /\ sap[e].day \in Scope(s)
  BY <1>9 DEF Diary!Selected, Scope, Deltas, SapRow
<1>11. s.job \in Deltas => \A e \in Entries :
          sap[e] # Diary!Missing /\ sap[e].day \in Scope(t) => Brings(t, e, sap[e])
  BY <1>5, <1>6, <1>8, <1>10 DEF Brings
<1>12. Diary!Mark' = Diary!Mark /\ \A e \in Entries : Lags(e)' <=> Lags(e)  BY <1>0, <1>1, SameLedger
<1>13. /\ proc'[p] = t /\ p \in Diary!Busy'
       /\ \A q \in Diary!Busy : q # p => q \in Diary!Busy' /\ proc'[q] = proc[q]
       /\ \A q \in Diary!Busy' : q # p => q \in Diary!Busy /\ proc'[q] = proc[q]
  BY <1>0, <1>1, <1>7, OnlyMoves
<1>. SUFFICES ASSUME ~raced
              PROVE  /\ \A e \in Entries : Lags(e) => Diary!Mark <= sap[e].day \/ Expected(e)'
                     /\ \A q \in Diary!Busy' : proc'[q].job \in Diary!Copies => Reads(proc'[q], sap, Diary!Mark, today)
                     /\ \A q \in Diary!Busy' : proc'[q].job \in Deltas =>
                           \A e \in Entries : Lags(e) =>
                              /\ Expected(e)' \/ Late(proc'[q], e, sap[e], Diary!Mark)
                              /\ Taken(proc'[q], e, sap[e], Diary!Mark)
  BY <1>1, <1>12 DEF DeltaInv
<1>14. ASSUME NEW e \in Entries, Lags(e), Pends(s, e, sap[e]) PROVE Pends(t, e, sap[e])
  BY <1>6, <1>7, <1>8, <1>11, <1>14 DEF Pends, Lags
<1>15. \A e \in Entries : Lags(e) /\ Expected(e) => Expected(e)'
  <2>. TAKE e \in Entries
  <2>. HAVE Lags(e) /\ Expected(e)
  <2>1. CASE sap[e].day \in holes  BY <1>1, <2>1 DEF Expected
  <2>2. ASSUME NEW q \in Diary!Busy, Pends(proc[q], e, sap[e]) PROVE Expected(e)'
    BY <1>1, <1>13, <1>14, <2>2 DEF Expected
  <2>. QED  BY <2>1, <2>2 DEF Expected
<1>16. Reads(s, sap, Diary!Mark, today)  BY <1>1, <1>3 DEF DeltaInv
<1>17. Reads(t, sap, Diary!Mark, today)
  <2>1. \A x \in R : sap[x.e] # Diary!Missing /\ x.is = sap[x.e]
    BY <1>4 DEF Diary!Selected
  <2>2. s.job \in Deltas => \A x \in R : x.is.day \in Scope(t)
    BY <1>4, <1>8, <1>10 DEF Diary!Selected
  <2>. QED  BY <1>6, <1>7, <1>16, <2>1, <2>2 DEF Reads
<1>18. ASSUME s.job \in Deltas, NEW e \in Entries, Lags(e)
       PROVE  /\ Expected(e)' \/ Late(t, e, sap[e], Diary!Mark)
              /\ Taken(t, e, sap[e], Diary!Mark)
  <2>1. Taken(t, e, sap[e], Diary!Mark)  BY <1>11, <1>18 DEF Taken, Lags
  <2>2. ASSUME Late(s, e, sap[e], Diary!Mark) PROVE Late(t, e, sap[e], Diary!Mark)
    <3>1. s.job = "delta" /\ s.target <= sap[e].day  BY <1>7, <2>2 DEF Late
    <3>2. \A x \in R : x.is.day = Diary!Item(s)
      BY <1>4, <1>10, <3>1 DEF Diary!Selected, Scope, Deltas
    <3>3. Diary!Item(s) \in s.days /\ Diary!Item(s) \in Diary!Days  BY <1>3, <3>1, ItemIs
    <3>4. Diary!Item(s) <= s.target  BY <1>16, <3>1, <3>3 DEF Reads
    <3>5. sap[e].day \in Nat /\ Diary!Item(s) \in Nat /\ s.target \in Nat
      BY <1>2, <1>9, <1>18, <3>3, DiaryAssumption DEF Diary!LedgerAssumption, Diary!Days, SapRow, Lags, Process
    <3>6. Diary!Item(s) <= sap[e].day  BY <3>1, <3>4, <3>5
    <3>. QED  BY <1>6, <2>2, <3>1, <3>2, <3>6 DEF Late
  <2>3. Expected(e) \/ Late(s, e, sap[e], Diary!Mark)  BY <1>1, <1>18 DEF DeltaInv
  <2>. QED  BY <1>15, <1>18, <2>1, <2>2, <2>3
<1>. QED  BY <1>6, <1>13, <1>15, <1>17, <1>18 DEF DeltaInv

\* A copy writes a row.
LEMMA UpsertTells ==
    ASSUME LedgerInv, LedgerTyped', DeltaInv, NEW p \in Actors, Diary!Upsert(p)
    PROVE  DeltaInv'
<1>0. LedgerTyped  BY DEF LedgerInv
<1>. DEFINE s == proc[p]
<1>1. p \in Diary!Busy /\ s.pc = "upsert" /\ UNCHANGED <<sap, today>>
  BY DEF Diary!Upsert, Diary!Busy
<1>2. s \in Process /\ Shaped(s)  BY <1>0, <1>1, BusyTyped
<1>3. s.job \in Diary!Copies  BY <1>1, <1>2 DEF Shaped, Process
<1>4. PICK x \in s.rows :
         /\ ledger' = [ledger EXCEPT ![x.e] = [kind |-> x.is.kind, day |-> x.is.day,
                                               rule |-> Diary!Classify(s.rules, x.is.kind)]]
         /\ Diary!Goto(p, [s EXCEPT !.rows = @ \ {x}])
  BY DEF Diary!Upsert
<1>. DEFINE t == [s EXCEPT !.rows = @ \ {x}]
            c == Diary!Classify(s.rules, x.is.kind)
<1>5. /\ t.pc = s.pc /\ t.rows = s.rows \ {x} /\ t.job = s.job /\ t.days = s.days
      /\ t.from = s.from /\ t.target = s.target /\ t.touched = s.touched
  BY <1>2 DEF Process
<1>6. proc'[p] = t /\ Diary!Goto(p, t)  BY <1>0, <1>1, <1>4, OnlyMoves
<1>. HIDE DEF t
<1>7. t # Diary!Idle /\ Fetched(s) /\ Fetched(t)  BY <1>1, <1>5 DEF Fetched, Diary!Idle
<1>8. /\ p \in Diary!Busy'
      /\ \A q \in Diary!Busy : q # p => q \in Diary!Busy' /\ proc'[q] = proc[q]
      /\ \A q \in Diary!Busy' : q # p => q \in Diary!Busy /\ proc'[q] = proc[q]
  BY <1>0, <1>1, <1>6, <1>7, OnlyMoves
<1>9. x.e \in Entries /\ x.is \in SapRow /\ x.is.day \in Diary!Days
  BY <1>2, <1>3, <1>4 DEF Shaped, SapRow
<1>10. \A d \in Diary!Days : d \in Nat
  BY DiaryAssumption DEF Diary!LedgerAssumption, Diary!Days
<1>11. \A e \in Entries : sap[e] # Diary!Missing => sap[e] \in SapRow /\ sap[e].day \in Diary!Days /\ sap[e].day \in Nat
  BY <1>0, <1>10 DEF LedgerTyped, SapRow
<1>. HIDE DEF c
<1>12. \A e \in Entries : e # x.e => ledger'[e] = ledger[e]
  BY <1>0, <1>4 DEF LedgerTyped
<1>13. ledger'[x.e] = [kind |-> x.is.kind, day |-> x.is.day, rule |-> c]
  BY <1>0, <1>4, <1>9 DEF LedgerTyped, c
<1>14. ledger'[x.e] # Diary!Missing /\ ledger'[x.e].kind = x.is.kind /\ ledger'[x.e].day = x.is.day
  <2>1. x.e \in Diary!InLedger'
    BY <1>9, <1>13 DEF Diary!InLedger, Diary!Missing
  <2>. QED  BY <1>13, <2>1 DEF Diary!InLedger
<1>15. Diary!Mark \in Nat /\ Diary!Mark' \in Nat /\ Diary!Mark \in Diary!Days /\ Diary!Mark' \in Diary!Days
  BY <1>0, <1>10, MarkNow, MarkThen DEF MarkFacts
<1>16. Diary!Mark' <= Diary!Mark \/ Diary!Mark' <= x.is.day
  <2>1. PICK f \in Diary!InLedger' : ledger'[f].day = Diary!Mark'
    <3>1. Diary!InLedger' # {}  BY <1>9, <1>14 DEF Diary!InLedger
    <3>. QED  BY <3>1, MarkThen DEF MarkFacts
  <2>2. CASE f = x.e  BY <1>10, <1>9, <1>14, <2>1, <2>2
  <2>3. CASE f # x.e
    <3>1. f \in Diary!InLedger /\ ledger'[f].day = ledger[f].day
      BY <1>12, <2>1, <2>3 DEF Diary!InLedger
    <3>. QED  BY <1>0, <2>1, <3>1, MarkNow DEF MarkFacts
  <2>. QED  BY <2>2, <2>3
<1>. SUFFICES ASSUME ~raced'
              PROVE  /\ \A e \in Entries : Lags(e)' => Diary!Mark' <= sap'[e].day \/ Expected(e)'
                     /\ \A q \in Diary!Busy' : proc'[q].job \in Diary!Copies => Reads(proc'[q], sap', Diary!Mark', today')
                     /\ \A q \in Diary!Busy' : proc'[q].job \in Deltas =>
                           \A e \in Entries : Lags(e)' =>
                              /\ Expected(e)' \/ Late(proc'[q], e, sap'[e], Diary!Mark')
                              /\ Taken(proc'[q], e, sap'[e], Diary!Mark')
  BY DEF DeltaInv
<1>17. ~raced /\ \A q \in Diary!Busy : q # p => proc[q].job \notin Diary!Copies
  BY DEF Diary!Upsert
<1>18. \A q \in Diary!Busy' : proc'[q].job \in Diary!Copies => q = p  BY <1>8, <1>17
<1>19. \A q \in Diary!Busy' : proc'[q].job \in Deltas => q = p  BY <1>18 DEF Deltas, Diary!Copies
<1>20. ASSUME NEW e \in Entries, sap[e] # Diary!Missing, Late(s, e, sap[e], Diary!Mark)
       PROVE  Late(t, e, sap[e], Diary!Mark') /\ Diary!Mark' <= sap[e].day
  <2>1. x.is.day <= sap[e].day /\ Diary!Mark <= sap[e].day  BY <1>20, <1>4 DEF Late
  <2>2. x.is.day \in Nat /\ sap[e].day \in Nat  BY <1>9, <1>10, <1>11, <1>20
  <2>3. Diary!Mark' <= sap[e].day  BY <1>15, <1>16, <2>1, <2>2
  <2>. QED  BY <1>5, <1>7, <1>20, <2>3 DEF Late
<1>21. Reads(s, sap, Diary!Mark, today)  BY <1>1, <1>3, <1>17 DEF DeltaInv
<1>22. Scope(t) = Scope(s) /\ Diary!Item(t) = Diary!Item(s)  BY <1>5 DEF Scope, Diary!Item
<1>23. Reads(t, sap, Diary!Mark', today)
  <2>1. \A y \in t.rows : y.e \in Entries
    BY <1>2, <1>3, <1>5 DEF Shaped
  <2>2. \A y \in t.rows : sap[y.e] # Diary!Missing /\ (y.is = sap[y.e] \/ Late(t, y.e, sap[y.e], Diary!Mark'))
    BY <1>5, <1>20, <1>21, <2>1 DEF Reads
  <2>. QED  BY <1>5, <1>7, <1>21, <1>22, <2>2 DEF Reads
<1>24. \A e \in Entries : \A r : e # x.e /\ Brings(s, e, r) => Brings(t, e, r)
  BY <1>5 DEF Brings
<1>25. ASSUME NEW e \in Entries, e = x.e, Lags(e)' PROVE Late(s, e, sap[e], Diary!Mark)
  BY <1>1, <1>4, <1>14, <1>21, <1>25 DEF Reads, Lags
<1>26. \A e \in Entries : e # x.e /\ Lags(e)' => Lags(e)
  BY <1>1, <1>12 DEF Lags
<1>27. ASSUME NEW e \in Entries, e # x.e, Expected(e) PROVE Expected(e)'
  <2>1. CASE sap[e].day \in holes
    <3>1. holes \subseteq holes'  BY DEF Diary!Upsert
    <3>. QED  BY <1>1, <2>1, <3>1 DEF Expected
  <2>2. ASSUME NEW q \in Diary!Busy, Pends(proc[q], e, sap[e]) PROVE Expected(e)'
    <3>1. q = p  BY <1>17, <2>2 DEF Pends, Deltas, Diary!Copies
    <3>2. Pends(t, e, sap[e])
      BY <1>5, <1>7, <1>22, <1>24, <1>27, <2>2, <3>1 DEF Pends
    <3>. QED  BY <1>1, <1>6, <1>8, <3>2 DEF Expected
  <2>. QED  BY <1>27, <2>1, <2>2 DEF Expected
<1>28. ASSUME NEW e \in Entries, Lags(e)' PROVE Diary!Mark' <= sap[e].day \/ Expected(e)'
  <2>1. sap[e] # Diary!Missing  BY <1>1, <1>28 DEF Lags
  <2>2. CASE e = x.e  BY <1>20, <1>25, <1>28, <2>1, <2>2
  <2>3. CASE e # x.e
    <3>1. Lags(e)  BY <1>26, <1>28, <2>3
    <3>2. Diary!Mark <= sap[e].day \/ Expected(e)  BY <1>17, <3>1 DEF DeltaInv
    <3>3. CASE s.job \in Deltas
      <4>1. Expected(e) \/ Late(s, e, sap[e], Diary!Mark)  BY <1>1, <1>17, <3>1, <3>3 DEF DeltaInv
      <4>. QED  BY <1>20, <1>27, <2>1, <2>3, <4>1
    <3>4. CASE s.job = "sync"
      <4>1. holes' = holes \cup {d \in Diary!Days : Diary!Mark <= d /\ d < Diary!Mark'}
        BY <3>4 DEF Diary!Upsert
      <4>2. sap[e].day \in Diary!Days /\ sap[e].day \in Nat  BY <1>11, <2>1
      <4>3. CASE Diary!Mark <= sap[e].day /\ ~(Diary!Mark' <= sap[e].day)
        <5>1. sap[e].day \in holes'  BY <1>15, <4>1, <4>2, <4>3
        <5>. QED  BY <1>1, <5>1 DEF Expected
      <4>. QED  BY <1>27, <2>3, <3>2, <4>3
    <3>. QED  BY <1>3, <3>3, <3>4 DEF Diary!Copies, Deltas
  <2>. QED  BY <2>2, <2>3
<1>29. ASSUME s.job \in Deltas, NEW e \in Entries, Lags(e)'
       PROVE  /\ Expected(e)' \/ Late(t, e, sap[e], Diary!Mark')
              /\ Taken(t, e, sap[e], Diary!Mark')
  <2>1. sap[e] # Diary!Missing  BY <1>1, <1>29 DEF Lags
  <2>2. CASE e = x.e  BY <1>20, <1>25, <1>29, <2>1, <2>2 DEF Taken
  <2>3. CASE e # x.e
    <3>1. Lags(e)  BY <1>26, <1>29, <2>3
    <3>2. /\ Expected(e) \/ Late(s, e, sap[e], Diary!Mark)
          /\ Taken(s, e, sap[e], Diary!Mark)
      BY <1>1, <1>17, <1>29, <3>1 DEF DeltaInv
    <3>3. Taken(t, e, sap[e], Diary!Mark')
      BY <1>7, <1>20, <1>22, <1>24, <2>1, <2>3, <3>2 DEF Taken
    <3>. QED  BY <1>20, <1>27, <2>1, <2>3, <3>2, <3>3
  <2>. QED  BY <2>2, <2>3
<1>. QED  BY <1>1, <1>5, <1>6, <1>18, <1>19, <1>23, <1>28, <1>29

\* A copy leaves an item, done or failed, for the next one or for none.
LEMMA ItemLeft ==
    ASSUME NEW s, NEW t,
           s.job = "delta" /\ s.days # {Diary!Item(s)} => t # Diary!Idle,
           t # Diary!Idle => /\ s.job = "delta" /\ t.pc = "fetch" /\ t.rows = {} /\ t.job = s.job
                       /\ t.days = s.days \ {Diary!Item(s)} /\ t.from = s.from
                       /\ t.target = s.target /\ t.touched = s.touched
    PROVE  /\ \A e, r : s.job = "delta" /\ r.day \in s.days \ {Diary!Item(s)} => t # Diary!Idle /\ Pends(t, e, r)
           /\ t # Diary!Idle => \A e, r, m : /\ Late(s, e, r, m) => Late(t, e, r, m)
                                       /\ Taken(t, e, r, m)
           /\ t # Diary!Idle => \A c, m, d : Reads(s, c, m, d) => Reads(t, c, m, d)
<1>1. t # Diary!Idle => ~Fetched(t)  BY DEF Fetched
<1>2. ASSUME NEW e, NEW r, s.job = "delta", r.day \in s.days \ {Diary!Item(s)}
      PROVE  t # Diary!Idle /\ Pends(t, e, r)
  <2>1. t # Diary!Idle  BY <1>2
  <2>2. t.job = "delta" /\ r.day \in t.days  BY <1>2, <2>1
  <2>3. Scope(t) = {Diary!Item(t)}  BY <2>2 DEF Scope
  <2>. QED  BY <1>1, <2>1, <2>2, <2>3 DEF Pends, Deltas
<1>3. t # Diary!Idle => \A e, r, m : Late(s, e, r, m) => Late(t, e, r, m)
  BY DEF Late
<1>4. t # Diary!Idle => \A e, r, m : Taken(t, e, r, m)
  BY <1>1 DEF Taken
<1>5. t # Diary!Idle => \A c, m, d : Reads(s, c, m, d) => Reads(t, c, m, d)
  BY <1>1 DEF Reads, Deltas
<1>. QED  BY <1>2, <1>3, <1>4, <1>5

\* An item, or a run, is over.
LEMMA EndItemTells ==
    ASSUME LedgerInv, LedgerTyped', DeltaInv, NEW p \in Actors, Diary!EndItem(p)
    PROVE  DeltaInv'
<1>0. LedgerTyped  BY DEF LedgerInv
<1>. DEFINE s == proc[p]
            n == [s EXCEPT !.pc = "fetch", !.days = @ \ {Diary!Item(s)}]
            t == IF s.job = "delta" /\ s.days # {Diary!Item(s)} THEN n ELSE Diary!Idle
<1>1. /\ p \in Diary!Busy /\ s.pc = "upsert" /\ s.rows = {} /\ Diary!Goto(p, t)
      /\ UNCHANGED <<sap, ledger, today>>
  BY DEF Diary!EndItem, Diary!Busy
<1>2. s \in Process /\ Shaped(s)  BY <1>0, <1>1, BusyTyped
<1>3. s.job \in Diary!Copies  BY <1>1, <1>2 DEF Shaped, Process
<1>4. /\ n.pc = "fetch" /\ n.rows = {} /\ n.job = s.job /\ n.days = s.days \ {Diary!Item(s)}
      /\ n.from = s.from /\ n.target = s.target /\ n.touched = s.touched
  BY <1>1, <1>2 DEF Process
<1>. HIDE DEF n
<1>5. n # Diary!Idle  BY <1>4 DEF Diary!Idle
<1>6. /\ s.job = "delta" /\ s.days # {Diary!Item(s)} => t # Diary!Idle
      /\ t # Diary!Idle => /\ s.job = "delta" /\ t.pc = "fetch" /\ t.rows = {} /\ t.job = s.job
                     /\ t.days = s.days \ {Diary!Item(s)} /\ t.from = s.from
                     /\ t.target = s.target /\ t.touched = s.touched
  BY <1>4, <1>5
<1>. HIDE DEF t
<1>7. /\ \A e, r : s.job = "delta" /\ r.day \in s.days \ {Diary!Item(s)} => t # Diary!Idle /\ Pends(t, e, r)
      /\ t # Diary!Idle => \A e, r, m : /\ Late(s, e, r, m) => Late(t, e, r, m)
                                  /\ Taken(t, e, r, m)
      /\ t # Diary!Idle => \A c, m, d : Reads(s, c, m, d) => Reads(t, c, m, d)
  BY <1>6, ItemLeft
<1>8. /\ proc'[p] = t /\ (p \in Diary!Busy' <=> t # Diary!Idle)
      /\ \A q \in Diary!Busy : q # p => q \in Diary!Busy' /\ proc'[q] = proc[q]
      /\ \A q \in Diary!Busy' : q # p => q \in Diary!Busy /\ proc'[q] = proc[q]
  BY <1>0, <1>1, OnlyMoves
<1>9. Diary!Mark' = Diary!Mark /\ \A e \in Entries : Lags(e)' <=> Lags(e)  BY <1>0, <1>1, SameLedger
<1>. SUFFICES ASSUME ~raced'
              PROVE  /\ \A e \in Entries : Lags(e) => Diary!Mark <= sap[e].day \/ Expected(e)'
                     /\ \A q \in Diary!Busy' : proc'[q].job \in Diary!Copies => Reads(proc'[q], sap, Diary!Mark, today)
                     /\ \A q \in Diary!Busy' : proc'[q].job \in Deltas =>
                           \A e \in Entries : Lags(e) =>
                              /\ Expected(e)' \/ Late(proc'[q], e, sap[e], Diary!Mark)
                              /\ Taken(proc'[q], e, sap[e], Diary!Mark)
  BY <1>1, <1>9 DEF DeltaInv
<1>10. ~raced /\ \A q \in Diary!Busy : q # p => proc[q].job \notin Diary!Copies
  BY DEF Diary!EndItem
<1>11. \A q \in Diary!Busy' : proc'[q].job \in Diary!Copies => q = p  BY <1>8, <1>10
<1>12. Fetched(s) /\ \A e, r : ~Brings(s, e, r)  BY <1>1 DEF Fetched, Brings
<1>13. \A e \in Entries : Expected(e) =>
          sap[e].day \in holes \/ (s.job = "delta" /\ sap[e].day \in s.days \ {Diary!Item(s)})
  <2>. TAKE e \in Entries
  <2>. HAVE Expected(e)
  <2>1. ASSUME NEW q \in Diary!Busy, Pends(proc[q], e, sap[e])
        PROVE  s.job = "delta" /\ sap[e].day \in s.days \ {Diary!Item(s)}
    <3>1. q = p  BY <1>10, <2>1 DEF Pends, Deltas, Diary!Copies
    <3>. QED  BY <1>12, <2>1, <3>1 DEF Pends
  <2>. QED  BY <2>1 DEF Expected
<1>14. \A e \in Entries : Lags(e) => sap[e].day \in Diary!Days
  BY <1>0 DEF LedgerTyped, Lags, SapRow
<1>15. \A e \in Entries : sap[e].day \in holes' => Expected(e)'
  BY <1>1 DEF Expected
<1>16. ASSUME s.job \in Deltas, NEW e \in Entries, Lags(e)
       PROVE  Expected(e)' \/ Late(s, e, sap[e], Diary!Mark)
  <2>1. /\ Expected(e) \/ Late(s, e, sap[e], Diary!Mark)
        /\ Taken(s, e, sap[e], Diary!Mark)
    BY <1>1, <1>10, <1>16 DEF DeltaInv
  <2>2. CASE s.job = "delta" /\ sap[e].day \in s.days \ {Diary!Item(s)}
    <3>1. t # Diary!Idle /\ Pends(t, e, sap[e])  BY <1>7, <2>2
    <3>. QED  BY <1>1, <1>8, <3>1 DEF Expected
  <2>3. CASE sap[e].day \in holes
    <3>1. CASE sap[e].day \in Scope(s)
      BY <1>12, <2>1, <3>1 DEF Taken
    <3>2. CASE sap[e].day \notin Scope(s)
      <4>1. holes' = holes \ Scope(s)  BY <1>16 DEF Diary!EndItem, Scope, Deltas
      <4>. QED  BY <1>15, <2>3, <3>2, <4>1
    <3>. QED  BY <3>1, <3>2
  <2>. QED  BY <1>13, <2>1, <2>2, <2>3
<1>17. ASSUME NEW e \in Entries, Lags(e) PROVE Diary!Mark <= sap[e].day \/ Expected(e)'
  <2>1. CASE s.job \in Deltas  BY <1>16, <1>17, <2>1 DEF Late
  <2>2. CASE s.job = "sync"
    <3>1. holes' = holes  BY <2>2 DEF Diary!EndItem
    <3>2. Diary!Mark <= sap[e].day \/ Expected(e)  BY <1>10, <1>17 DEF DeltaInv
    <3>. QED  BY <1>13, <1>15, <2>2, <3>1, <3>2
  <2>. QED  BY <1>3, <2>1, <2>2 DEF Diary!Copies, Deltas
<1>18. ASSUME t # Diary!Idle PROVE Reads(t, sap, Diary!Mark, today)
  <2>1. Reads(s, sap, Diary!Mark, today)  BY <1>1, <1>3, <1>10 DEF DeltaInv
  <2>. QED  BY <1>7, <1>18, <2>1
<1>19. ASSUME t # Diary!Idle, NEW e \in Entries, Lags(e)
       PROVE  /\ Expected(e)' \/ Late(t, e, sap[e], Diary!Mark)
              /\ Taken(t, e, sap[e], Diary!Mark)
  <2>1. s.job \in Deltas  BY <1>6, <1>19 DEF Deltas
  <2>. QED  BY <1>7, <1>16, <1>19, <2>1
<1>20. \A q \in Diary!Busy' : proc'[q].job \in Deltas => q = p  BY <1>11 DEF Deltas, Diary!Copies
<1>. QED  BY <1>8, <1>11, <1>17, <1>18, <1>19, <1>20

\* An item, or a run, fails.
LEMMA FailItemTells ==
    ASSUME LedgerInv, LedgerTyped', DeltaInv, NEW p \in Actors, Diary!FailItem(p)
    PROVE  DeltaInv'
<1>0. LedgerTyped  BY DEF LedgerInv
<1>. DEFINE s == proc[p]
            n == [s EXCEPT !.pc = "fetch", !.rows = {}, !.days = @ \ {Diary!Item(s)}]
            t == IF s.job = "delta" /\ s.days # {Diary!Item(s)} THEN n ELSE Diary!Idle
<1>1. /\ p \in Diary!Busy /\ s.job \in Diary!Copies /\ Diary!Goto(p, t)
      /\ UNCHANGED <<sap, ledger, today, raced>>
  BY DEF Diary!FailItem, Diary!Busy
<1>2. s \in Process /\ Shaped(s)  BY <1>0, <1>1, BusyTyped
<1>4. /\ n.pc = "fetch" /\ n.rows = {} /\ n.job = s.job /\ n.days = s.days \ {Diary!Item(s)}
      /\ n.from = s.from /\ n.target = s.target /\ n.touched = s.touched
  BY <1>2 DEF Process
<1>. HIDE DEF n
<1>5. n # Diary!Idle  BY <1>4 DEF Diary!Idle
<1>6. /\ s.job = "delta" /\ s.days # {Diary!Item(s)} => t # Diary!Idle
      /\ t # Diary!Idle => /\ s.job = "delta" /\ t.pc = "fetch" /\ t.rows = {} /\ t.job = s.job
                     /\ t.days = s.days \ {Diary!Item(s)} /\ t.from = s.from
                     /\ t.target = s.target /\ t.touched = s.touched
  BY <1>4, <1>5
<1>. HIDE DEF t
<1>7. /\ \A e, r : s.job = "delta" /\ r.day \in s.days \ {Diary!Item(s)} => t # Diary!Idle /\ Pends(t, e, r)
      /\ t # Diary!Idle => \A e, r, m : /\ Late(s, e, r, m) => Late(t, e, r, m)
                                  /\ Taken(t, e, r, m)
      /\ t # Diary!Idle => \A c, m, d : Reads(s, c, m, d) => Reads(t, c, m, d)
  BY <1>6, ItemLeft
<1>8. /\ proc'[p] = t /\ (p \in Diary!Busy' <=> t # Diary!Idle)
      /\ \A q \in Diary!Busy : q # p => q \in Diary!Busy' /\ proc'[q] = proc[q]
      /\ \A q \in Diary!Busy' : q # p => q \in Diary!Busy /\ proc'[q] = proc[q]
  BY <1>0, <1>1, OnlyMoves
<1>9. Diary!Mark' = Diary!Mark /\ \A e \in Entries : Lags(e)' <=> Lags(e)  BY <1>0, <1>1, SameLedger
<1>. SUFFICES ASSUME ~raced
              PROVE  /\ \A e \in Entries : Lags(e) => Diary!Mark <= sap[e].day \/ Expected(e)'
                     /\ \A q \in Diary!Busy' : proc'[q].job \in Diary!Copies => Reads(proc'[q], sap, Diary!Mark, today)
                     /\ \A q \in Diary!Busy' : proc'[q].job \in Deltas =>
                           \A e \in Entries : Lags(e) =>
                              /\ Expected(e)' \/ Late(proc'[q], e, sap[e], Diary!Mark)
                              /\ Taken(proc'[q], e, sap[e], Diary!Mark)
  BY <1>1, <1>9 DEF DeltaInv
<1>10. Reads(s, sap, Diary!Mark, today)  BY <1>1 DEF DeltaInv
<1>11. \A e \in Entries : sap[e].day \in holes' => Expected(e)'
  BY <1>1 DEF Expected
<1>12. holes \subseteq holes' /\ (s.job \in Deltas => Scope(s) \subseteq holes')
  BY DEF Diary!FailItem, Scope, Deltas
<1>13. ASSUME NEW e \in Entries, Pends(s, e, sap[e]) PROVE Expected(e)'
  <2>1. CASE s.job = "delta" /\ sap[e].day \in s.days \ {Diary!Item(s)}
    <3>1. t # Diary!Idle /\ Pends(t, e, sap[e])  BY <1>7, <2>1
    <3>. QED  BY <1>1, <1>8, <3>1 DEF Expected
  <2>2. CASE Brings(s, e, sap[e])
    <3>1. s.job \in Deltas  BY <1>13 DEF Pends
    <3>2. sap[e].day \in Scope(s)  BY <1>10, <2>2, <3>1 DEF Reads, Brings
    <3>. QED  BY <1>11, <1>12, <3>1, <3>2
  <2>3. CASE sap[e].day \in Scope(s)
    BY <1>11, <1>12, <1>13, <2>3 DEF Pends
  <2>. QED  BY <1>13, <2>1, <2>2, <2>3 DEF Pends
<1>14. ASSUME NEW e \in Entries, Expected(e) PROVE Expected(e)'
  <2>1. ASSUME NEW q \in Diary!Busy, q # p, Pends(proc[q], e, sap[e]) PROVE Expected(e)'
    BY <1>1, <1>8, <2>1 DEF Expected
  <2>. QED  BY <1>11, <1>12, <1>13, <1>14, <2>1 DEF Expected
<1>15. \A e \in Entries : Lags(e) => Diary!Mark <= sap[e].day \/ Expected(e)'
  BY <1>14 DEF DeltaInv
<1>16. ASSUME t # Diary!Idle PROVE Reads(t, sap, Diary!Mark, today)
  BY <1>7, <1>10, <1>16
<1>17. ASSUME t # Diary!Idle, NEW e \in Entries, Lags(e)
       PROVE  /\ Expected(e)' \/ Late(t, e, sap[e], Diary!Mark)
              /\ Taken(t, e, sap[e], Diary!Mark)
  <2>1. s.job \in Deltas  BY <1>6, <1>17 DEF Deltas
  <2>2. Expected(e) \/ Late(s, e, sap[e], Diary!Mark)  BY <1>1, <1>17, <2>1 DEF DeltaInv
  <2>. QED  BY <1>7, <1>14, <1>17, <2>2
<1>. QED  BY <1>8, <1>14, <1>15, <1>16, <1>17 DEF DeltaInv

\* An entry changes in SAP.
LEMMA ChangeTells ==
    ASSUME LedgerInv, LedgerTyped', DeltaInv, NEW f \in Entries, NEW k \in Kinds, Diary!Change(f, k)
    PROVE  DeltaInv'
<1>0. LedgerTyped  BY DEF LedgerInv
<1>. DEFINE r == [kind |-> k, day |-> today]
            u(s) == [s EXCEPT !.touched = @ \cup {f}]
<1>1. UNCHANGED <<ledger, holes, today, raced>> /\ sap' = [sap EXCEPT ![f] = r]
  BY DEF Diary!Change
<1>2. r.day = today /\ r # Diary!Missing  BY DEF Diary!Missing
<1>. HIDE DEF r
<1>3. sap'[f] = r /\ \A e \in Entries : e # f => sap'[e] = sap[e]
  BY <1>0, <1>1 DEF LedgerTyped
<1>4. \A q \in Diary!Busy : q \in Actors /\ proc[q] # Diary!Idle /\ proc[q] \in Process /\ Shaped(proc[q])
  BY <1>0, BusyTyped
<1>5. \A q \in Actors : proc'[q] = IF proc[q] = Diary!Idle THEN Diary!Idle ELSE u(proc[q])
  BY DEF Diary!Change
<1>6. ASSUME NEW s \in Process
      PROVE  /\ u(s).pc = s.pc /\ u(s).job = s.job /\ u(s).days = s.days /\ u(s).from = s.from
             /\ u(s).target = s.target /\ u(s).rows = s.rows
             /\ u(s).touched = s.touched \cup {f} /\ u(s) # Diary!Idle
  <2>1. u(s).pc = s.pc /\ s.pc # "idle"  BY DEF Process
  <2>2. /\ u(s).job = s.job /\ u(s).days = s.days /\ u(s).from = s.from
        /\ u(s).target = s.target /\ u(s).rows = s.rows /\ u(s).touched = s.touched \cup {f}
    BY DEF Process
  <2>. HIDE DEF u
  <2>. QED  BY <2>1, <2>2 DEF Diary!Idle
<1>. HIDE DEF u
<1>7. Diary!Busy' = Diary!Busy /\ \A q \in Diary!Busy : proc'[q] = u(proc[q])
  <2>1. \A q \in Actors : proc'[q] # Diary!Idle <=> proc[q] # Diary!Idle
    BY <1>4, <1>5, <1>6 DEF Diary!Busy
  <2>. QED  BY <1>4, <1>5, <2>1 DEF Diary!Busy
<1>8. Diary!Mark' = Diary!Mark
  <2>1. Diary!InLedger' = Diary!InLedger  BY <1>1 DEF Diary!InLedger
  <2>. QED  BY <1>0, <1>1, <2>1, SameMark
<1>9. \A e \in Entries : e # f => (Lags(e)' <=> Lags(e))  BY <1>1, <1>3 DEF Lags
<1>10. ASSUME NEW s \in Process
       PROVE  /\ Scope(u(s)) = Scope(s)
              /\ \A e, held : Pends(s, e, held) => Pends(u(s), e, held)
              /\ \A e, held, m : Late(s, e, held, m) => Late(u(s), e, held, m)
              /\ \A e, held, m : Taken(s, e, held, m) => Taken(u(s), e, held, m)
              /\ Fetched(u(s)) <=> Fetched(s)
  <2>1. Diary!Item(u(s)) = Diary!Item(s)  BY <1>6 DEF Diary!Item
  <2>2. Scope(u(s)) = Scope(s)  BY <1>6, <2>1 DEF Scope
  <2>3. Fetched(u(s)) <=> Fetched(s)  BY <1>6 DEF Fetched
  <2>4. \A e, held : Brings(u(s), e, held) <=> Brings(s, e, held)  BY <1>6 DEF Brings
  <2>5. \A e, held, m : Late(s, e, held, m) => Late(u(s), e, held, m)
    BY <1>6, <2>3 DEF Late
  <2>6. \A e, held : Pends(s, e, held) => Pends(u(s), e, held)
    BY <1>6, <2>1, <2>2, <2>3, <2>4 DEF Pends
  <2>. QED  BY <2>2, <2>3, <2>4, <2>5, <2>6 DEF Taken
<1>. SUFFICES ASSUME ~raced
              PROVE  /\ \A e \in Entries : Lags(e)' => Diary!Mark <= sap'[e].day \/ Expected(e)'
                     /\ \A q \in Diary!Busy' : proc'[q].job \in Diary!Copies => Reads(proc'[q], sap', Diary!Mark, today)
                     /\ \A q \in Diary!Busy' : proc'[q].job \in Deltas =>
                           \A e \in Entries : Lags(e)' =>
                              /\ Expected(e)' \/ Late(proc'[q], e, sap'[e], Diary!Mark)
                              /\ Taken(proc'[q], e, sap'[e], Diary!Mark)
  BY <1>1, <1>8 DEF DeltaInv
<1>11. Diary!Mark <= today /\ today \in Diary!Days /\ today \in Nat
  BY <1>0, MarkNow, DiaryAssumption DEF MarkFacts, LedgerTyped, Diary!LedgerAssumption, Diary!Days
<1>12. ASSUME NEW e \in Entries, e # f, Expected(e) PROVE Expected(e)'
  <2>1. CASE sap[e].day \in holes  BY <1>1, <1>3, <1>12, <2>1 DEF Expected
  <2>2. ASSUME NEW q \in Diary!Busy, Pends(proc[q], e, sap[e]) PROVE Expected(e)'
    <3>1. Pends(u(proc[q]), e, sap[e])  BY <1>4, <1>10, <2>2
    <3>. QED  BY <1>3, <1>7, <1>12, <3>1 DEF Expected
  <2>. QED  BY <1>12, <2>1, <2>2 DEF Expected
<1>13. ASSUME NEW q \in Diary!Busy, proc[q].job \in Diary!Copies PROVE Reads(proc[q], sap, Diary!Mark, today)
  BY <1>13 DEF DeltaInv
<1>14. ASSUME NEW q \in Diary!Busy, proc[q].job \in Diary!Copies, proc[q].job # "delta" => Fetched(proc[q])
       PROVE  Late(u(proc[q]), f, r, Diary!Mark)
  <2>. DEFINE s == proc[q]
  <2>1. s \in Process /\ \A y \in s.rows : y.is.day <= today
    BY <1>4, <1>14 DEF Shaped
  <2>2. s.job = "delta" => s.target <= today  BY <1>13, <1>14 DEF Reads, Deltas
  <2>. QED  BY <1>2, <1>6, <1>10, <1>11, <1>14, <2>1, <2>2 DEF Late
<1>15. ASSUME NEW q \in Diary!Busy, proc[q].job \in Diary!Copies PROVE Reads(u(proc[q]), sap', Diary!Mark, today)
  <2>. DEFINE s == proc[q]
  <2>1. s \in Process /\ \A x \in s.rows : x.e \in Entries
    BY <1>4, <1>15 DEF Shaped
  <2>2. Reads(s, sap, Diary!Mark, today)  BY <1>13, <1>15
  <2>3. ASSUME NEW x \in s.rows
        PROVE  sap'[x.e] # Diary!Missing /\ (x.is = sap'[x.e] \/ Late(u(s), x.e, sap'[x.e], Diary!Mark))
    <3>1. CASE x.e # f  BY <1>3, <1>10, <2>1, <2>2, <2>3, <3>1 DEF Reads
    <3>2. CASE x.e = f
      <4>1. Fetched(s)  BY <2>2, <2>3 DEF Reads
      <4>. QED  BY <1>2, <1>3, <1>14, <1>15, <3>2, <4>1
    <3>. QED  BY <3>1, <3>2
  <2>. QED  BY <1>6, <1>10, <2>1, <2>2, <2>3 DEF Reads
<1>16. \A e \in Entries : Lags(e)' => Diary!Mark <= sap'[e].day \/ Expected(e)'
  <2>. TAKE e \in Entries
  <2>1. CASE e = f  BY <1>2, <1>3, <1>11, <2>1
  <2>2. CASE e # f  BY <1>3, <1>9, <1>12, <2>2 DEF DeltaInv
  <2>. QED  BY <2>1, <2>2
<1>17. ASSUME NEW q \in Diary!Busy, proc[q].job \in Deltas, NEW e \in Entries, Lags(e)'
       PROVE  /\ Expected(e)' \/ Late(u(proc[q]), e, sap'[e], Diary!Mark)
              /\ Taken(u(proc[q]), e, sap'[e], Diary!Mark)
  <2>. DEFINE s == proc[q]
  <2>1. s \in Process /\ Shaped(s) /\ s.job \in Diary!Copies
    BY <1>4, <1>17 DEF Deltas, Diary!Copies
  <2>2. CASE e # f
    <3>1. Lags(e)  BY <1>9, <1>17, <2>2
    <3>2. /\ Expected(e) \/ Late(s, e, sap[e], Diary!Mark)
          /\ Taken(s, e, sap[e], Diary!Mark)
      BY <1>17, <3>1 DEF DeltaInv
    <3>. QED  BY <1>3, <1>10, <1>12, <2>1, <2>2, <3>2
  <2>3. CASE e = f /\ (s.job = "delta" \/ Fetched(s))
    <3>1. Late(u(s), e, sap'[e], Diary!Mark)  BY <1>3, <1>14, <2>1, <2>3
    <3>. QED  BY <3>1 DEF Taken
  <2>4. CASE e = f /\ s.job # "delta" /\ ~Fetched(s)
    <3>1. s.from \in 1..s.target /\ s.target <= today
      BY <1>13, <1>17, <2>1 DEF Shaped, Reads
    <3>2. s.from <= today /\ s.from \in Nat
      BY <1>11, <2>1, <3>1 DEF Process
    <3>3. today \in Scope(s)  BY <1>11, <2>4, <3>2 DEF Scope
    <3>4. Pends(u(s), e, r)
      BY <1>2, <1>6, <1>10, <1>17, <2>1, <2>4, <3>3 DEF Pends
    <3>5. Expected(e)'  BY <1>3, <1>7, <2>4, <3>4 DEF Expected
    <3>. QED  BY <1>10, <2>1, <2>4, <3>5 DEF Taken
  <2>. QED  BY <2>2, <2>3, <2>4
<1>18. \A q \in Diary!Busy' : q \in Diary!Busy /\ proc'[q] = u(proc[q]) /\ proc'[q].job = proc[q].job
  BY <1>4, <1>6, <1>7
<1>19. \A q \in Diary!Busy' : proc'[q].job \in Diary!Copies => Reads(proc'[q], sap', Diary!Mark, today)
  BY <1>15, <1>18
<1>20. \A q \in Diary!Busy' : proc'[q].job \in Deltas =>
          \A e \in Entries : Lags(e)' =>
             /\ Expected(e)' \/ Late(proc'[q], e, sap'[e], Diary!Mark)
             /\ Taken(proc'[q], e, sap'[e], Diary!Mark)
  BY <1>17, <1>18
<1>. QED  BY <1>16, <1>19, <1>20

LEMMA DeltaStep == LedgerInv /\ DeltaInv /\ [Diary!Next]_ledgerVars => DeltaInv'
<1>. SUFFICES ASSUME LedgerInv, DeltaInv, [Diary!Next]_ledgerVars PROVE DeltaInv'
  OBVIOUS
<1>0. LedgerTyped /\ LedgerTyped'  BY LedgerStep DEF LedgerInv
<1>1. ASSUME NEW p \in Actors, Diary!Copy(p) PROVE DeltaInv'
  BY <1>0, <1>1, CopiesJoin, FetchTells, UpsertTells, EndItemTells, FailItemTells DEF Diary!Copy
<1>2. ASSUME NEW p \in Actors, Diary!EditRules(p) \/ Diary!Reprocess(p) PROVE DeltaInv'
  BY <1>0, <1>2, EditsStill
<1>3. ASSUME NEW p \in Actors, Diary!ReadRules(p) \/ Diary!WriteClasses(p) \/ Diary!Die(p) PROVE DeltaInv'
  BY <1>0, <1>3, WritesStill
<1>4. ASSUME NEW e \in Entries, NEW k \in Kinds, Diary!Change(e, k) PROVE DeltaInv'
  BY <1>0, <1>4, ChangeTells
<1>5. CASE Diary!NextDay \/ UNCHANGED ledgerVars  BY <1>0, <1>5, DayStill DEF Diary!ledgerVars, ledgerVars
<1>. QED  BY <1>1, <1>2, <1>3, <1>4, <1>5 DEF Diary!Next, Diary!ledgerVars, ledgerVars

LEMMA DeltaStarts == Diary!Init => DeltaInv
<1>. SUFFICES ASSUME Diary!Init PROVE DeltaInv
  OBVIOUS
<1>1. Diary!InLedger = {} /\ Diary!Mark = 1  BY DEF Diary!Init, Diary!InLedger, Diary!Mark
<1>2. Diary!Busy = {}  BY DEF Diary!Init, Diary!Busy
<1>3. \A e \in Entries : Lags(e) => sap[e].day = 1
  BY DEF Diary!Init, Lags
<1>. QED  BY <1>1, <1>2, <1>3 DEF DeltaInv

LEMMA DeltaHolds == RecordsSpec => []DeltaInv
<1>1. RecordsInit => DeltaInv
  BY DeltaStarts DEF RecordsInit
<1>2. LedgerInv /\ DeltaInv /\ [RecordsNext]_recordVars => DeltaInv'
  <2>1. [RecordsNext]_recordVars => [Diary!Next]_ledgerVars
    BY DEF RecordsNext, CatalogNext, AccessNext, LedgerNext, recordVars
  <2>. QED  BY <2>1, DeltaStep
<1>. QED  BY <1>1, <1>2, LedgerHolds, PTL DEF RecordsSpec

\* A delta that ends alone, where no copies have raced, leaves behind only days
\* known to have been missed (enqueue_sync_delta, sync_delta).
LEMMA DeltaIsEnough == LedgerInv /\ DeltaInv /\ [Diary!Next]_ledgerVars => Diary!DeltaAlone
<1>. SUFFICES ASSUME LedgerInv, DeltaInv, [Diary!Next]_ledgerVars, NEW p \in Actors,
                     proc[p] # Diary!Idle, proc'[p] = Diary!Idle, proc[p].alone, ~raced,
                     proc[p].job \in Deltas, NEW e \in Entries, sap[e] # Diary!Missing,
                     e \notin proc[p].touched, sap[e].day \notin holes'
              PROVE  ledger'[e] # Diary!Missing /\ ledger'[e].kind = sap[e].kind
  BY DEF Diary!DeltaAlone, Deltas
<1>. DEFINE s == proc[p]
            n == [s EXCEPT !.pc = "fetch", !.rows = {}, !.days = @ \ {Diary!Item(s)}]
<1>1. p \in Diary!Busy /\ LedgerTyped /\ Diary!Busy = {p}
  BY DEF Diary!Busy, LedgerInv, ReadsAlone
<1>2. s \in Process /\ Shaped(s) /\ s.job \in Diary!Copies
  BY <1>1, BusyTyped DEF Deltas, Diary!Copies
<1>3. Diary!EndItem(p) \/ Diary!FailItem(p)
  BY <1>1, <1>2, WhoEnds DEF Diary!LoadCandidates, Diary!DeleteRule, Diary!WriteClasses, Diary!Die, Shaped
<1>4. ledger' = ledger  BY <1>3 DEF Diary!EndItem, Diary!FailItem
<1>5. SUFFICES ASSUME Lags(e) PROVE FALSE
  BY <1>4 DEF Lags
<1>6. ~Late(s, e, sap[e], Diary!Mark)  BY DEF Late
<1>7. /\ sap[e].day \in holes \/ Pends(s, e, sap[e])
      /\ Fetched(s) /\ sap[e].day \in Scope(s) => Brings(s, e, sap[e])
  BY <1>1, <1>5, <1>6 DEF DeltaInv, Expected, Taken
<1>8. s.job = "delta" => s.days = {Diary!Item(s)}
  <2>. SUFFICES ASSUME s.job = "delta", s.days # {Diary!Item(s)} PROVE FALSE
    OBVIOUS
  <2>. DEFINE m == [s EXCEPT !.pc = "fetch", !.days = @ \ {Diary!Item(s)}]
  <2>1. n.pc = "fetch" /\ m.pc = "fetch"  BY <1>2 DEF Process
  <2>. HIDE DEF n, m
  <2>2. \A t : t.pc = "fetch" => t # Diary!Idle  BY DEF Diary!Idle
  <2>3. Diary!EndItem(p) => Diary!Goto(p, m)  BY DEF Diary!EndItem, m
  <2>4. Diary!FailItem(p) => Diary!Goto(p, n)  BY DEF Diary!FailItem, n
  <2>. QED  BY <1>1, <1>3, <2>1, <2>2, <2>3, <2>4, OnlyMoves
<1>9. CASE Diary!EndItem(p)
  <2>1. Fetched(s) /\ ~Brings(s, e, sap[e])  BY <1>9 DEF Diary!EndItem, Fetched, Brings
  <2>2. sap[e].day \in holes  BY <1>7, <1>8, <2>1 DEF Pends
  <2>3. holes' = holes \ Scope(s)  BY <1>9 DEF Diary!EndItem, Scope, Deltas
  <2>. QED  BY <1>7, <2>1, <2>2, <2>3
<1>10. CASE Diary!FailItem(p)
  <2>1. holes \subseteq holes' /\ Scope(s) \subseteq holes'
    BY <1>10 DEF Diary!FailItem, Scope, Deltas
  <2>2. Reads(s, sap, Diary!Mark, today)  BY <1>1, <1>2 DEF DeltaInv
  <2>3. Brings(s, e, sap[e]) => sap[e].day \in Scope(s)
    BY <2>2 DEF Reads, Brings
  <2>. QED  BY <1>7, <1>8, <2>1, <2>3 DEF Pends
<1>. QED  BY <1>3, <1>9, <1>10

(***************************************************************************)
(* A complete reprocess of the ledger that overlaps nothing repairs every  *)
(* class (reprocess_all, libro_mayor_rules_service.py); and where no copy  *)
(* has raced another, a delta that is alone to its end leaves behind       *)
(* nothing that was in SAP when it began, but on days whose item had       *)
(* failed or that a sync by posting date had put behind the mark           *)
(* (libro_mayor_job_service.py): for any entries, rules, processes, days.  *)
(***************************************************************************)
THEOREM TheLedgerCatchesUp == RecordsSpec => LedgerCatchesUp
<1>1. LedgerInv /\ DeltaInv /\ [RecordsNext]_recordVars
         => (whose = "ledger" => Diary!ReprocessAlone /\ Diary!DeltaAlone)
  <2>1. [RecordsNext]_recordVars => [Diary!Next]_ledgerVars
    BY DEF RecordsNext, CatalogNext, AccessNext, LedgerNext, recordVars
  <2>. QED  BY <2>1, ReprocessIsEnough, DeltaIsEnough
<1>. QED  BY <1>1, LedgerHolds, DeltaHolds, PTL DEF RecordsSpec, LedgerCatchesUp
-----------------------------------------------------------------------------
(* Rows that requests write (RowStore).                                    *)

\* What is left to insert, what is free, and the table, after n inserts.
PlaceStep(s) ==
    LET w == CHOOSE w \in s.left : TRUE
    IN IF s.free = {} THEN s
       ELSE [left |-> s.left \ {w}, free |-> s.free \ {Books!Least(s.free)},
             table |-> [s.table EXCEPT ![Books!Least(s.free)] = w.is]]
InsertStart(table, new) == [left |-> new, free |-> DOMAIN table \ Books!In(table), table |-> table]
Inserting(f, n, table, new) ==
    f = [k \in 0..n |-> IF k = 0 THEN InsertStart(table, new) ELSE PlaceStep(f[k - 1])]

\* The inserts one by one: a function of their number.
LEMMA InsertingExists ==
    ASSUME NEW N \in Nat, NEW table, NEW new
    PROVE  \E f : Inserting(f, N, table, new)
<1>. DEFINE T == {n \in 0..N : ~\E f : Inserting(f, n, table, new)}
<1>. SUFFICES ASSUME T # {} PROVE FALSE
  OBVIOUS
<1>0. T \subseteq Nat  OBVIOUS
<1>. HIDE DEF T
<1>1. PICK n \in T : \A m \in T : n <= m
  BY <1>0, LeastNumber
<1>. USE DEF T
<1>2. CASE n = 0
  <2>. DEFINE g == [k \in 0..0 |-> InsertStart(table, new)]
  <2>1. g = [k \in 0..0 |-> IF k = 0 THEN InsertStart(table, new) ELSE PlaceStep(g[k - 1])]
    <3>1. \A k \in 0..0 : k = 0  OBVIOUS
    <3>. QED  BY <3>1
  <2>2. Inserting(g, 0, table, new)
    BY <2>1 DEF Inserting
  <2>. QED  BY <2>2, <1>2
<1>3. CASE n # 0
  <2>1. n \in Nat /\ n - 1 \in 0..N /\ n - 1 \notin T
    BY <1>1, <1>3
  <2>2. PICK f : Inserting(f, n - 1, table, new)
    BY <2>1
  <2>. DEFINE g == [k \in 0..n |-> IF k = n THEN PlaceStep(f[n - 1]) ELSE f[k]]
  <2>3. \A k \in 0..n : g[k] = IF k = 0 THEN InsertStart(table, new) ELSE PlaceStep(g[k - 1])
    <3>. TAKE k \in 0..n
    <3>1. f = [j \in 0..(n - 1) |-> IF j = 0 THEN InsertStart(table, new) ELSE PlaceStep(f[j - 1])]
      BY <2>2 DEF Inserting
    <3>2. CASE k = n
      <4>1. n - 1 \in 0..n /\ n - 1 # n  BY <2>1
      <4>2. g[n - 1] = f[n - 1]  BY <4>1
      <4>. QED  BY <3>2, <4>2, <1>3
    <3>3. CASE k # n
      <4>1. k \in 0..(n - 1)  BY <3>3, <2>1
      <4>2. g[k] = f[k]  BY <3>3
      <4>3. k # 0 => k - 1 \in 0..n /\ k - 1 # n  BY <4>1
      <4>4. k # 0 => g[k - 1] = f[k - 1]  BY <4>3
      <4>5. f[k] = IF k = 0 THEN InsertStart(table, new) ELSE PlaceStep(f[k - 1])
        BY <3>1, <4>1
      <4>. QED  BY <4>2, <4>4, <4>5
    <3>. QED  BY <3>2, <3>3
  <2>. HIDE DEF g
  <2>4. g = [k \in 0..n |-> g[k]]
    BY DEF g
  <2>5. Inserting(g, n, table, new)
    BY <2>3, <2>4 DEF Inserting
  <2>. QED  BY <2>5
<1>. QED  BY <1>2, <1>3

LEMMA InsertedIs ==
    ASSUME NEW table, NEW new, Cardinality(new) \in Nat
    PROVE  \E f : Inserting(f, Cardinality(new), table, new)
                   /\ Books!Inserted(table, new) = f[Cardinality(new)].table
<1>. DEFINE N == Cardinality(new)
<1>1. \E f : Inserting(f, N, table, new)
  BY InsertingExists
<1>2. PICK g : g = CHOOSE f : Inserting(f, N, table, new)
  OBVIOUS
<1>3. Inserting(g, N, table, new)
  BY <1>1, <1>2
<1>4. Books!Cardinality(new) = N
  BY DEF Books!Cardinality, Cardinality
<1>5. Books!Inserted(table, new) = g[N].table
  BY <1>2, <1>4 DEF Books!Inserted, Inserting, PlaceStep, InsertStart
<1>. QED  BY <1>3, <1>5

\* No two of the writes put the same row.
Distinct(new) == \A w, v \in new : w.is = v.is => w = v

\* After n inserts: the rows there were are there, the others are free or hold
\* one of the new rows; as long as identifiers remain, n of them are in place.
Placed(s, n, table, new) ==
    LET spare == DOMAIN table \ Books!In(table)
        room == IsFiniteSet(spare) /\ Cardinality(new) <= Cardinality(spare)
    IN
    /\ s.table = [i \in DOMAIN table |-> s.table[i]]
    /\ s.left \subseteq new /\ IsFiniteSet(s.left) /\ s.free \subseteq spare
    /\ \A i \in Books!In(table) : s.table[i] = table[i]
    /\ \A i \in spare : s.table[i] = Books!NoRow \/ \E w \in new \ s.left : s.table[i] = w.is
    /\ \A i \in s.free : s.table[i] = Books!NoRow
    /\ \A w \in new \ s.left : \E i \in spare \ s.free : s.table[i] = w.is
    /\ Distinct(new) => \A i, j \in spare : s.table[i] = s.table[j] => i = j \/ s.table[i] = Books!NoRow
    /\ s.free # {} \/ room => Cardinality(s.left) = Cardinality(new) - n
    /\ room => IsFiniteSet(s.free) /\ Cardinality(s.free) = Cardinality(spare) - n

LEMMA OnePlaced ==
    ASSUME NEW table, DOMAIN table \subseteq Nat, NEW new, IsFiniteSet(new),
           NEW n \in 1..Cardinality(new), NEW s, Placed(s, n - 1, table, new)
    PROVE  Placed(PlaceStep(s), n, table, new)
<1>. DEFINE spare == DOMAIN table \ Books!In(table)
            room == IsFiniteSet(spare) /\ Cardinality(new) <= Cardinality(spare)
            N == Cardinality(new)
<1>1. N \in Nat /\ n \in Nat /\ n - 1 \in Nat
  BY FS_CardinalityType
<1>2. /\ s.table = [i \in DOMAIN table |-> s.table[i]]
      /\ s.left \subseteq new /\ IsFiniteSet(s.left) /\ s.free \subseteq spare
      /\ \A i \in Books!In(table) : s.table[i] = table[i]
      /\ \A i \in spare : s.table[i] = Books!NoRow \/ \E w \in new \ s.left : s.table[i] = w.is
      /\ \A i \in s.free : s.table[i] = Books!NoRow
      /\ \A w \in new \ s.left : \E i \in spare \ s.free : s.table[i] = w.is
      /\ Distinct(new) =>
            \A i, j \in spare : s.table[i] = s.table[j] => i = j \/ s.table[i] = Books!NoRow
      /\ s.free # {} \/ room => Cardinality(s.left) = N - (n - 1)
      /\ room => IsFiniteSet(s.free) /\ Cardinality(s.free) = Cardinality(spare) - (n - 1)
  BY DEF Placed
<1>3. room => s.free # {}
  <2>1. ASSUME room, s.free = {} PROVE FALSE
    <3>1. Cardinality(s.free) = 0  BY <2>1, FS_EmptySet
    <3>2. Cardinality(spare) \in Nat  BY <2>1, FS_CardinalityType
    <3>3. Cardinality(spare) = n - 1  BY <1>1, <1>2, <2>1, <3>1, <3>2
    <3>. QED  BY <1>1, <2>1, <3>3
  <2>. QED  BY <2>1
<1>. HIDE DEF room
<1>4. CASE s.free = {}
  <2>1. PlaceStep(s) = s  BY <1>4 DEF PlaceStep
  <2>2. ~room  BY <1>3, <1>4
  <2>. QED  BY <1>2, <1>4, <2>1, <2>2 DEF Placed, room
<1>5. CASE s.free # {}
  <2>. DEFINE w == CHOOSE x \in s.left : TRUE
              i == Books!Least(s.free)
              t == [s.table EXCEPT ![i] = w.is]
  <2>1. i \in s.free
    <3>1. s.free \subseteq Nat  BY <1>2
    <3>2. \E x \in s.free : \A y \in s.free : x <= y  BY <3>1, <1>5, LeastNumber
    <3>. QED  BY <3>2 DEF Books!Least
  <2>2. Cardinality(s.left) = N - (n - 1)
    BY <1>2, <1>5
  <2>3. s.left # {}
    <3>1. N - (n - 1) # 0  BY <1>1
    <3>. QED  BY <2>2, <3>1, FS_EmptySet
  <2>4. w \in s.left  BY <2>3
  <2>5. PlaceStep(s) = [left |-> s.left \ {w}, free |-> s.free \ {i}, table |-> t]
    BY <1>5 DEF PlaceStep
  <2>. HIDE DEF w, i
  <2>6. /\ IsFiniteSet(s.left \ {w}) /\ Cardinality(s.left \ {w}) = N - n
    <3>1. IsFiniteSet(s.left \ {w}) /\ Cardinality(s.left \ {w}) = Cardinality(s.left) - 1
      BY <1>2, <2>4, FS_RemoveElement
    <3>2. N - (n - 1) - 1 = N - n  BY <1>1
    <3>. QED  BY <3>1, <3>2, <2>2
  <2>7. room => /\ IsFiniteSet(s.free \ {i})
                /\ Cardinality(s.free \ {i}) = Cardinality(spare) - n
    <3>1. SUFFICES ASSUME room
                   PROVE  /\ IsFiniteSet(s.free \ {i})
                          /\ Cardinality(s.free \ {i}) = Cardinality(spare) - n
      OBVIOUS
    <3>2. /\ IsFiniteSet(s.free \ {i})
          /\ Cardinality(s.free \ {i}) = Cardinality(s.free) - 1
      BY <1>2, <2>1, <3>1, FS_RemoveElement
    <3>3. Cardinality(spare) \in Nat  BY <3>1, FS_CardinalityType DEF room
    <3>4. Cardinality(s.free) = Cardinality(spare) - (n - 1)  BY <1>2, <3>1
    <3>5. Cardinality(spare) - (n - 1) - 1 = Cardinality(spare) - n
      BY <1>1, <3>3
    <3>. QED  BY <3>2, <3>4, <3>5
  <2>8. t = [j \in DOMAIN table |-> t[j]] /\ t[i] = w.is
        /\ \A j \in DOMAIN table \ {i} : t[j] = s.table[j]
    <3>1. i \in DOMAIN table /\ DOMAIN s.table = DOMAIN table  BY <1>2, <2>1
    <3>. QED  BY <3>1
  <2>. HIDE DEF t
  <2>9. \A j \in Books!In(table) : t[j] = table[j]
    <3>1. i \notin Books!In(table) /\ Books!In(table) \subseteq DOMAIN table  BY <1>2, <2>1 DEF Books!In
    <3>. QED  BY <1>2, <2>8, <3>1
  <2>10. /\ \A j \in spare : t[j] = Books!NoRow \/ \E x \in new \ (s.left \ {w}) : t[j] = x.is
         /\ \A j \in s.free \ {i} : t[j] = Books!NoRow
    <3>1. w \in new /\ i \in spare /\ spare \subseteq DOMAIN table  BY <1>2, <2>4, <2>1
    <3>2. \A j \in spare \ {i} : t[j] = s.table[j]  BY <2>8, <3>1
    <3>3. w \in new \ (s.left \ {w})  BY <3>1
    <3>4. t[i] = Books!NoRow \/ \E x \in new \ (s.left \ {w}) : t[i] = x.is  BY <2>8, <3>3
    <3>5. \A j \in spare \ {i} : t[j] = Books!NoRow \/ \E x \in new \ (s.left \ {w}) : t[j] = x.is
      BY <1>2, <3>2
    <3>. QED  BY <1>2, <3>2, <3>4, <3>5
  <2>15. ASSUME Distinct(new), NEW j \in spare, NEW k \in spare, t[j] = t[k], t[j] # Books!NoRow
         PROVE  j = k
    <3>1. spare \subseteq DOMAIN table  OBVIOUS
    <3>2. CASE j # i /\ k # i
      BY <1>2, <2>8, <2>15, <3>1, <3>2
    <3>3. ASSUME NEW m \in spare, m # i, t[m] = t[i], t[m] # Books!NoRow PROVE FALSE
      <4>1. s.table[m] = w.is /\ s.table[m] # Books!NoRow  BY <2>8, <3>1, <3>3
      <4>2. PICK x \in new \ s.left : s.table[m] = x.is  BY <1>2, <4>1
      <4>3. w \in new  BY <1>2, <2>4
      <4>4. x = w  BY <4>1, <4>2, <4>3, <2>15 DEF Distinct
      <4>. QED  BY <4>2, <4>4, <2>4
    <3>. QED  BY <2>15, <3>2, <3>3
  <2>11. \A x \in new \ (s.left \ {w}) : \E j \in spare \ (s.free \ {i}) : t[j] = x.is
    <3>. TAKE x \in new \ (s.left \ {w})
    <3>1. CASE x = w
      BY <3>1, <1>2, <2>1, <2>8
    <3>2. CASE x # w
      <4>1. PICK j \in spare \ s.free : s.table[j] = x.is  BY <1>2, <3>2
      <4>2. j # i /\ j \in DOMAIN table  BY <2>1, <4>1
      <4>. QED  BY <2>8, <4>1, <4>2
    <3>. QED  BY <3>1, <3>2
  <2>12. s.left \ {w} \subseteq new /\ s.free \ {i} \subseteq spare
    BY <1>2
  <2>. DEFINE u == [left |-> s.left \ {w}, free |-> s.free \ {i}, table |-> t]
  <2>13. u.left = s.left \ {w} /\ u.free = s.free \ {i} /\ u.table = t
    OBVIOUS
  <2>. HIDE DEF u
  <2>14. Placed(u, n, table, new)
    <3>1. u.table = [j \in DOMAIN table |-> u.table[j]]  BY <2>8, <2>13
    <3>2. u.left \subseteq new /\ IsFiniteSet(u.left) /\ u.free \subseteq spare
      BY <2>6, <2>12, <2>13
    <3>3. \A j \in Books!In(table) : u.table[j] = table[j]  BY <2>9, <2>13
    <3>4. \A j \in spare : u.table[j] = Books!NoRow \/ \E x \in new \ u.left : u.table[j] = x.is
      BY <2>10, <2>13
    <3>5. \A j \in u.free : u.table[j] = Books!NoRow  BY <2>10, <2>13
    <3>6. \A x \in new \ u.left : \E j \in spare \ u.free : u.table[j] = x.is
      BY <2>11, <2>13
    <3>7. Distinct(new) =>
             \A j, k \in spare : u.table[j] = u.table[k] => j = k \/ u.table[j] = Books!NoRow
      BY <2>13, <2>15
    <3>8. Cardinality(u.left) = Cardinality(new) - n  BY <2>6, <2>13
    <3>9. room => IsFiniteSet(u.free) /\ Cardinality(u.free) = Cardinality(spare) - n
      BY <2>7, <2>13
    <3>. HIDE DEF N, spare
    <3>. QED
      BY <3>1, <3>2, <3>3, <3>4, <3>5, <3>6, <3>7, <3>8, <3>9 DEF Placed, room, spare
  <2>. QED  BY <2>5, <2>14 DEF u
<1>. QED  BY <1>4, <1>5

\* The rows there were stay; a new row is one of those to insert, and if there
\* is room all of them are inserted.
GrownBy(after, table, new) ==
    LET spare == DOMAIN table \ Books!In(table) IN
    /\ after = [i \in DOMAIN table |-> after[i]]
    /\ \A i \in Books!In(table) : after[i] = table[i]
    /\ \A i \in spare : after[i] = Books!NoRow \/ \E w \in new : after[i] = w.is
    /\ Distinct(new) =>
          \A i, j \in spare : after[i] = after[j] => i = j \/ after[i] = Books!NoRow
    /\ IsFiniteSet(spare) /\ Cardinality(new) <= Cardinality(spare)
          => \A w \in new : \E i \in spare : after[i] = w.is

LEMMA InsertedRows ==
    ASSUME NEW table, DOMAIN table \subseteq Nat, table = [i \in DOMAIN table |-> table[i]],
           NEW new, IsFiniteSet(new)
    PROVE  GrownBy(Books!Inserted(table, new), table, new)
<1>. DEFINE N == Cardinality(new)
<1>1. N \in Nat  BY FS_CardinalityType
<1>2. PICK f : Inserting(f, N, table, new) /\ Books!Inserted(table, new) = f[N].table
  BY <1>1, InsertedIs
<1>3. \A k \in 0..N : f[k] = IF k = 0 THEN InsertStart(table, new) ELSE PlaceStep(f[k - 1])
  BY <1>2 DEF Inserting
<1>4. Placed(f[0], 0, table, new)
  <2>. DEFINE s == InsertStart(table, new)
  <2>1. f[0] = s  BY <1>1, <1>3
  <2>2. s.left = new /\ s.free = DOMAIN table \ Books!In(table) /\ s.table = table
    BY DEF InsertStart
  <2>. HIDE DEF s
  <2>3. \A i \in DOMAIN table \ Books!In(table) : table[i] = Books!NoRow  BY DEF Books!In
  <2>4. \A x : IsFiniteSet(x) => Cardinality(x) - 0 = Cardinality(x)
    BY FS_CardinalityType
  <2>. QED  BY <2>1, <2>2, <2>3, <2>4 DEF Placed
<1>. DEFINE T == {n \in 0..N : ~Placed(f[n], n, table, new)}
<1>5. T = {}
  <2>. SUFFICES ASSUME T # {} PROVE FALSE
    OBVIOUS
  <2>1. T \subseteq Nat  OBVIOUS
  <2>. HIDE DEF T
  <2>2. PICK n \in T : \A m \in T : n <= m  BY <2>1, LeastNumber
  <2>. USE DEF T
  <2>3. n # 0  BY <1>4, <2>2
  <2>4. n - 1 \in 0..N /\ n - 1 \notin T /\ n \in 1..N  BY <1>1, <2>2, <2>3
  <2>5. Placed(f[n - 1], n - 1, table, new)  BY <2>4
  <2>6. Placed(PlaceStep(f[n - 1]), n, table, new)  BY <2>4, <2>5, OnePlaced
  <2>7. f[n] = PlaceStep(f[n - 1])  BY <1>3, <2>3, <2>4
  <2>. QED  BY <2>2, <2>6, <2>7
<1>6. Placed(f[N], N, table, new)  BY <1>1, <1>5
<1>. DEFINE s == f[N]
            spare == DOMAIN table \ Books!In(table)
<1>7. IsFiniteSet(spare) /\ N <= Cardinality(spare) => s.left = {}
  <2>1. SUFFICES ASSUME IsFiniteSet(spare), N <= Cardinality(spare) PROVE s.left = {}
    OBVIOUS
  <2>2. IsFiniteSet(s.left) /\ Cardinality(s.left) = N - N
    BY <1>6, <2>1 DEF Placed
  <2>. QED  BY <1>1, <2>2, FS_EmptySet
<1>. HIDE DEF s
<1>8. Placed(s, N, table, new)  BY <1>6 DEF s
<1>9. Books!Inserted(table, new) = s.table  BY <1>2 DEF s
<1>. QED  BY <1>7, <1>8, <1>9 DEF Placed, GrownBy

\* The same operators, as the instances of the two modules that use them name them.
LEMMA SameRows ==
    /\ Doors!NoRow = Books!NoRow
    /\ \A table : Doors!In(table) = Books!In(table)
    /\ \A table, new : Doors!Inserted(table, new) = Books!Inserted(table, new)
<1>1. \A S : Doors!Cardinality(S) = Books!Cardinality(S)
  BY DEF Books!Cardinality, Doors!Cardinality
<1>2. ASSUME NEW table, NEW new PROVE Doors!Inserted(table, new) = Books!Inserted(table, new)
  BY <1>1 DEF Doors!Inserted, Books!Inserted, Doors!In, Books!In, Doors!Least, Books!Least, Books!NoRow, Doors!NoRow
<1>. QED  BY <1>2 DEF Doors!In, Books!In, Books!NoRow, Doors!NoRow


LEMMA Injected ==
    ASSUME NEW S, NEW T, IsFiniteSet(T), NEW f,
           \A x \in S : f[x] \in T, f = [x \in S |-> f[x]],
           \A x, y \in S : f[x] = f[y] => x = y
    PROVE  IsFiniteSet(S) /\ Cardinality(S) <= Cardinality(T)
<1>1. f \in [S -> T]  OBVIOUS
<1>2. f \in Injection(S, T)  BY <1>1 DEF Injection, IsInjective
<1>. QED  BY <1>2, FS_Injection

-----------------------------------------------------------------------------
(* Access.                                                                 *)

LEMMA KeysCount ==
    /\ KeyIds \subseteq Nat \ {0} /\ IsFiniteSet(KeyIds)
    /\ IsFiniteSet(Doors!Target) /\ Cardinality(Doors!Target) <= Cardinality(KeyIds)
    /\ All \notin Areas
  BY DoorsAssumption DEF Doors!AccessAssumption, Doors!IsFiniteSet, Doors!Cardinality,
                         IsFiniteSet, Cardinality

Tabs == {"role", "permission", "grant", "link", "access", "key"}

\* A write of a request in flight: an insert, a change, or a deletion of a grant.
WriteFits(w) ==
    /\ w.table \in Tabs /\ w.id \in KeyIds \cup {0}
    /\ w.id = 0 => w.is \in Doors!RowOf[w.table]
    /\ w.id # 0 => /\ w.was \in Doors!RowOf[w.table]
                   /\ w.is \in Doors!RowOf[w.table] \/ (w.is = Doors!NoRow /\ w.table = "grant")

NewIn(t, writes) == {w \in writes : w.table = t /\ w.id = 0}

DoorsTyped ==
    /\ acl = [t \in Tabs |-> acl[t]]
    /\ \A t \in Tabs : acl[t] \in [KeyIds -> Doors!RowOf[t] \cup {Doors!NoRow}]
    /\ working \subseteq Companies \cup Areas
    /\ issued \in Nat /\ replaced \subseteq 1..issued
    /\ ask = [r \in Actors |-> ask[r]]
    /\ \A r \in Actors :
          /\ \A w \in ask[r].writes : WriteFits(w)
          /\ \A t \in Tabs : IsFiniteSet(NewIn(t, ask[r].writes))

LEMMA TabsAre == DOMAIN Doors!RowOf = Tabs
  BY DEF Doors!RowOf, Tabs

LEMMA RowsOf ==
    /\ Doors!RowOf["role"] = Doors!RoleRow /\ Doors!RowOf["permission"] = Doors!PermissionRow
    /\ Doors!RowOf["grant"] = Doors!GrantRow /\ Doors!RowOf["link"] = Doors!LinkRow
    /\ Doors!RowOf["access"] = Doors!AccessRow /\ Doors!RowOf["key"] = Doors!KeyRow
  BY DEF Doors!RowOf

LEMMA NoRowIsNone == ASSUME NEW t \in Tabs PROVE Doors!NoRow \notin Doors!RowOf[t]
<1>1. ASSUME NEW x, x = [absent |-> TRUE], NEW c, c \in DOMAIN x PROVE c = "absent"
  BY <1>1
<1>2. Doors!NoRow = [absent |-> TRUE]  BY DEF Doors!NoRow
<1>3. \A x \in Doors!RoleRow \cup Doors!PermissionRow \cup Doors!LinkRow \cup Doors!AccessRow \cup Doors!KeyRow :
         "live" \in DOMAIN x
  BY DEF Doors!RoleRow, Doors!PermissionRow, Doors!LinkRow, Doors!AccessRow, Doors!KeyRow
<1>4. \A x \in Doors!GrantRow : "role" \in DOMAIN x
  BY DEF Doors!GrantRow
<1>. QED  BY <1>1, <1>2, <1>3, <1>4, RowsOf DEF Tabs

\* A row that was changed is a row of its table.
LEMMA ChangedFits ==
    ASSUME NEW t \in Tabs, NEW rec \in Doors!RowOf[t], NEW w, w.was \in Doors!RowOf[t], w.is \in Doors!RowOf[t]
    PROVE  Doors!Changed(rec, w) \in Doors!RowOf[t]
<1>. DEFINE is == w.is
            was == w.was
<1>1. Doors!Changed(rec, w) = [c \in DOMAIN rec |-> IF is[c] # was[c] THEN is[c] ELSE rec[c]]
  BY DEF Doors!Changed
<1>2. is \in Doors!RowOf[t] /\ was \in Doors!RowOf[t]
  OBVIOUS
<1>. HIDE DEF is, was
<1>3. CASE t = "role"
  BY <1>1, <1>2, <1>3, RowsOf DEF Doors!RoleRow
<1>4. CASE t = "permission"
  BY <1>1, <1>2, <1>4, RowsOf DEF Doors!PermissionRow
<1>5. CASE t = "grant"
  BY <1>1, <1>2, <1>5, RowsOf DEF Doors!GrantRow
<1>6. CASE t = "link"
  BY <1>1, <1>2, <1>6, RowsOf DEF Doors!LinkRow
<1>7. CASE t = "access"
  BY <1>1, <1>2, <1>7, RowsOf DEF Doors!AccessRow
<1>8. CASE t = "key"
  BY <1>1, <1>2, <1>8, RowsOf DEF Doors!KeyRow
<1>. QED  BY <1>3, <1>4, <1>5, <1>6, <1>7, <1>8 DEF Tabs

Mine(t, i, writes) == {w \in writes : w.table = t /\ w.id = i}

\* What a commit leaves in a table: a row nobody wrote stays, a row that was written
\* has the columns the write changed, and the others hold what was inserted.
CommitLeaves(after, t, table, writes) ==
    LET spare == KeyIds \ Doors!In(table) IN
    /\ after \in [KeyIds -> Doors!RowOf[t] \cup {Doors!NoRow}]
    /\ \A i \in Doors!In(table) : Mine(t, i, writes) = {} => after[i] = table[i]
    /\ \A i \in spare : after[i] = Doors!NoRow \/ \E w \in NewIn(t, writes) : after[i] = w.is
    /\ t # "grant" =>
         /\ Doors!In(table) \subseteq Doors!In(after)
         /\ \A i \in Doors!In(table) : Mine(t, i, writes) # {} =>
               \E w \in Mine(t, i, writes) : after[i] = Doors!Changed(table[i], w)
         /\ Distinct(NewIn(t, writes)) =>
               \A i, j \in spare : after[i] = after[j] => i = j \/ after[i] = Doors!NoRow
         /\ Cardinality(NewIn(t, writes)) <= Cardinality(spare)
               => \A w \in NewIn(t, writes) : \E i \in spare : after[i] = w.is

LEMMA AfterHere ==
    ASSUME NEW t \in Tabs, NEW table \in [KeyIds -> Doors!RowOf[t] \cup {Doors!NoRow}],
           NEW writes, \A w \in writes : WriteFits(w), IsFiniteSet(NewIn(t, writes))
    PROVE  CommitLeaves(Doors!After(t, table, writes), t, table, writes)
<1>. DEFINE mid == Doors!Written(t, table, writes)
            after == Doors!After(t, table, writes)
            spare == KeyIds \ Doors!In(table)
<1>1. after = Doors!Inserted(mid, NewIn(t, writes))
  BY DEF Doors!After, NewIn
<1>2. mid = [i \in KeyIds |-> mid[i]]
  BY DEF Doors!Written
<1>3. \A i \in KeyIds : Mine(t, i, writes) = {} \/ table[i] = Doors!NoRow => mid[i] = table[i]
  BY DEF Doors!Written, Mine
<1>4. ASSUME NEW i \in KeyIds, Mine(t, i, writes) # {}, table[i] # Doors!NoRow
      PROVE  \E w \in Mine(t, i, writes) :
                mid[i] = IF w.is = Doors!NoRow THEN Doors!NoRow ELSE Doors!Changed(table[i], w)
  <2>. DEFINE w == CHOOSE w \in Mine(t, i, writes) : TRUE
  <2>1. w \in Mine(t, i, writes)  BY <1>4
  <2>2. mid[i] = IF w.is = Doors!NoRow THEN Doors!NoRow ELSE Doors!Changed(table[i], w)
    BY <1>4 DEF Doors!Written, Mine
  <2>. QED  BY <2>1, <2>2
<1>. HIDE DEF mid, after
<1>5. ASSUME NEW i \in KeyIds, NEW w \in Mine(t, i, writes), table[i] # Doors!NoRow, w.is # Doors!NoRow
      PROVE  Doors!Changed(table[i], w) \in Doors!RowOf[t]
  <2>1. WriteFits(w) /\ w.table = t /\ w.id = i /\ i # 0
    BY KeysCount DEF Mine
  <2>2. w.was \in Doors!RowOf[t] /\ w.is \in Doors!RowOf[t]
    BY <2>1, <1>5 DEF WriteFits
  <2>3. table[i] \in Doors!RowOf[t]  BY <1>5
  <2>. QED  BY <2>2, <2>3, ChangedFits
<1>6. \A i \in KeyIds : mid[i] \in Doors!RowOf[t] \cup {Doors!NoRow}
  <2>. TAKE i \in KeyIds
  <2>1. CASE Mine(t, i, writes) = {} \/ table[i] = Doors!NoRow
    BY <2>1, <1>3
  <2>2. CASE ~(Mine(t, i, writes) = {} \/ table[i] = Doors!NoRow)
    BY <2>2, <1>4, <1>5
  <2>. QED  BY <2>1, <2>2
<1>7. \A w \in NewIn(t, writes) : w.is \in Doors!RowOf[t]
  BY DEF NewIn, WriteFits
<1>8. Doors!NoRow \notin Doors!RowOf[t]
  BY NoRowIsNone
<1>9. /\ after = [i \in KeyIds |-> after[i]]
      /\ \A i \in Doors!In(mid) : after[i] = mid[i]
      /\ \A i \in KeyIds \ Doors!In(mid) : after[i] = Doors!NoRow \/ \E w \in NewIn(t, writes) : after[i] = w.is
      /\ Distinct(NewIn(t, writes)) =>
            \A i, j \in KeyIds \ Doors!In(mid) : after[i] = after[j] => i = j \/ after[i] = Doors!NoRow
      /\ IsFiniteSet(KeyIds \ Doors!In(mid)) /\ Cardinality(NewIn(t, writes)) <= Cardinality(KeyIds \ Doors!In(mid))
            => \A w \in NewIn(t, writes) : \E i \in KeyIds \ Doors!In(mid) : after[i] = w.is
  <2>1. mid = [i \in DOMAIN mid |-> mid[i]] /\ DOMAIN mid = KeyIds /\ DOMAIN mid \subseteq Nat
    BY <1>2, KeysCount
  <2>2. GrownBy(Books!Inserted(mid, NewIn(t, writes)), mid, NewIn(t, writes))
    BY <2>1, InsertedRows
  <2>3. GrownBy(after, mid, NewIn(t, writes))
    BY <2>2, <1>1, SameRows
  <2>. QED  BY <2>1, <2>3, SameRows DEF GrownBy
<1>10. Doors!In(mid) \subseteq KeyIds /\ Doors!In(mid) \subseteq Doors!In(table) /\ Doors!In(table) \subseteq KeyIds
       /\ \A i \in KeyIds : (i \in Doors!In(mid) <=> mid[i] # Doors!NoRow) /\ (i \in Doors!In(table) <=> table[i] # Doors!NoRow)
  <2>1. DOMAIN mid = KeyIds /\ DOMAIN table = KeyIds  BY <1>2
  <2>2. \A i \in KeyIds : (i \in Doors!In(mid) <=> mid[i] # Doors!NoRow) /\ (i \in Doors!In(table) <=> table[i] # Doors!NoRow)
    BY <2>1 DEF Doors!In
  <2>3. Doors!In(mid) \subseteq KeyIds /\ Doors!In(table) \subseteq KeyIds  BY <2>1 DEF Doors!In
  <2>. QED  BY <2>2, <2>3, <1>3
<1>11. after \in [KeyIds -> Doors!RowOf[t] \cup {Doors!NoRow}]
  <2>1. \A i \in KeyIds : after[i] \in Doors!RowOf[t] \cup {Doors!NoRow}
    BY <1>6, <1>7, <1>9
  <2>. QED  BY <1>9, <2>1
<1>12. \A i \in Doors!In(table) : Mine(t, i, writes) = {} => after[i] = table[i]
  BY <1>3, <1>9, <1>10
<1>13. ASSUME t # "grant"
       PROVE  /\ Doors!In(mid) = Doors!In(table)
              /\ \A i \in Doors!In(table) : Mine(t, i, writes) # {} =>
                    \E w \in Mine(t, i, writes) : after[i] = Doors!Changed(table[i], w)
  <2>1. ASSUME NEW i \in Doors!In(table), Mine(t, i, writes) # {}
        PROVE  mid[i] # Doors!NoRow /\ \E w \in Mine(t, i, writes) : mid[i] = Doors!Changed(table[i], w)
    <3>1. i \in KeyIds /\ table[i] # Doors!NoRow  BY <1>10
    <3>2. PICK w \in Mine(t, i, writes) :
                mid[i] = IF w.is = Doors!NoRow THEN Doors!NoRow ELSE Doors!Changed(table[i], w)
      BY <3>1, <2>1, <1>4
    <3>3. WriteFits(w) /\ w.table = t /\ w.id = i /\ i # 0
      BY KeysCount, <3>1 DEF Mine
    <3>4. w.is # Doors!NoRow
      BY <3>3, <1>13, <1>8 DEF WriteFits
    <3>5. Doors!Changed(table[i], w) \in Doors!RowOf[t]  BY <3>1, <3>4, <1>5
    <3>. QED  BY <3>2, <3>4, <3>5, <1>8
  <2>2. \A i \in Doors!In(table) : mid[i] # Doors!NoRow
    <3>. TAKE i \in Doors!In(table)
    <3>1. CASE Mine(t, i, writes) = {}  BY <3>1, <1>3, <1>10
    <3>2. CASE Mine(t, i, writes) # {}  BY <3>2, <2>1
    <3>. QED  BY <3>1, <3>2
  <2>3. Doors!In(mid) = Doors!In(table)  BY <2>2, <1>10
  <2>. QED  BY <2>1, <2>3, <1>9
<1>14. ASSUME t # "grant" PROVE Doors!In(table) \subseteq Doors!In(after)
  <2>1. DOMAIN after = KeyIds  BY <1>11
  <2>. QED  BY <2>1, <1>9, <1>10, <1>13, <1>14 DEF Doors!In
<1>15. IsFiniteSet(spare)
  BY KeysCount, FS_Subset
<1>16. \A i \in spare : after[i] = Doors!NoRow \/ \E w \in NewIn(t, writes) : after[i] = w.is
  BY <1>9, <1>10
<1>. QED  BY <1>9, <1>16, <1>11, <1>12, <1>13, <1>14, <1>15 DEF after, CommitLeaves

(***************************************************************************)
(* A secret is told apart from every other: no two keys share one, those   *)
(* that a request in flight is about to put are in no row, no two requests *)
(* have the same one, and what was replaced is in no row and about to be in *)
(* none.                                                                   *)
(***************************************************************************)
Fresh(w) == w.table = "key" /\ (w.id = 0 \/ w.is.secret # w.was.secret)

SecretsApart ==
    /\ \A i \in Doors!In(acl["key"]) :
          /\ acl["key"][i].secret \in 1..issued /\ acl["key"][i].secret \notin replaced
          /\ \A j \in Doors!In(acl["key"]) : acl["key"][i].secret = acl["key"][j].secret => i = j
    /\ \A r \in Actors : \A w \in ask[r].writes :
          /\ w.table = "key" => ask[r].writes = {w} /\ w.is.secret \in 1..issued
          /\ Fresh(w) =>
                /\ w.is.secret \notin replaced
                /\ \A i \in Doors!In(acl["key"]) : acl["key"][i].secret # w.is.secret
                /\ \A q \in Actors : \A v \in ask[q].writes :
                      Fresh(v) /\ v.is.secret = w.is.secret => q = r

\* What the constraints of the tables keep.
OneOfEach == Doors!PrimaryKeys(acl) /\ Doors!Indexes(acl["access"])

\* A replacement that nothing has crossed still knows the accesses as they are.
ScopeStill ==
    \A r \in Actors :
        ask[r].op = "replace_scope" =>
            /\ ask[r].goal \subseteq Doors!Target
            /\ ~crossed => ask[r].writes = Doors!ScopeWrites(ask[r].goal)

AccessInv == DoorsTyped /\ SecretsApart /\ OneOfEach /\ ScopeStill

\* A request is asked for: nothing but its transaction changes, and a new secret
\* is one that was never issued.
LEMMA AskKeeps ==
    ASSUME AccessInv, NEW r \in Actors, NEW op, NEW writes, NEW goal,
           Doors!AskFor(r, op, writes, goal), issued' = issued \/ issued' = issued + 1,
           \A w \in writes : WriteFits(w),
           \A t \in Tabs : IsFiniteSet(NewIn(t, writes)),
           \A w \in writes : w.table = "key" =>
               /\ writes = {w} /\ w.is.secret \in 1..issued'
               /\ Fresh(w) => w.is.secret = issued + 1,
           op = "replace_scope" => goal \subseteq Doors!Target /\ writes = Doors!ScopeWrites(goal)
    PROVE  AccessInv'
<1>. DEFINE s == [op |-> op, writes |-> writes, goal |-> goal]
<1>1. /\ ask' = [ask EXCEPT ![r] = s]
      /\ UNCHANGED <<acl, working, crossed, replaced>>
  BY DEF Doors!AskFor
<1>2. ask = [q \in Actors |-> ask[q]]
  BY DEF AccessInv, DoorsTyped
<1>3. /\ ask' = [q \in Actors |-> ask'[q]]
      /\ ask'[r].op = op /\ ask'[r].writes = writes /\ ask'[r].goal = goal
      /\ \A q \in Actors \ {r} : ask'[q] = ask[q]
  BY <1>1, <1>2
<1>4. issued \in Nat /\ issued' \in Nat /\ issued' >= issued
  BY DEF AccessInv, DoorsTyped
<1>5. DoorsTyped'
  <2>1. \A q \in Actors :
          /\ \A w \in ask'[q].writes : WriteFits(w)
          /\ \A t \in Tabs : IsFiniteSet(NewIn(t, ask'[q].writes))
    BY <1>3 DEF AccessInv, DoorsTyped
  <2>2. replaced \subseteq 1..issued'
    BY <1>4 DEF AccessInv, DoorsTyped
  <2>. QED  BY <1>1, <1>3, <1>4, <2>1, <2>2 DEF AccessInv, DoorsTyped
<1>6. SecretsApart'
  <2>1. \A i \in Doors!In(acl["key"]) :
          /\ acl["key"][i].secret \in 1..issued' /\ acl["key"][i].secret \notin replaced
          /\ \A j \in Doors!In(acl["key"]) : acl["key"][i].secret = acl["key"][j].secret => i = j
    BY <1>4 DEF AccessInv, SecretsApart
  <2>2. \A i \in Doors!In(acl["key"]) : acl["key"][i].secret # issued + 1
    BY <1>4 DEF AccessInv, SecretsApart
  <2>3. issued + 1 \notin replaced
    BY <1>4 DEF AccessInv, DoorsTyped
  <2>4. \A q \in Actors : \A v \in ask[q].writes : Fresh(v) => v.is.secret # issued + 1
    BY <1>4 DEF AccessInv, SecretsApart, Fresh
  <2>5. ASSUME NEW q \in Actors, NEW w \in ask'[q].writes
        PROVE  /\ w.table = "key" => ask'[q].writes = {w} /\ w.is.secret \in 1..issued'
               /\ Fresh(w) =>
                     /\ w.is.secret \notin replaced
                     /\ \A i \in Doors!In(acl["key"]) : acl["key"][i].secret # w.is.secret
                     /\ \A p \in Actors : \A v \in ask'[p].writes :
                           Fresh(v) /\ v.is.secret = w.is.secret => p = q
    <3>1. CASE q = r
      <4>1. w \in writes  BY <3>1, <1>3
      <4>2. Fresh(w) => w.is.secret = issued + 1  BY <4>1 DEF Fresh
      <4>3. \A p \in Actors : \A v \in ask'[p].writes :
               Fresh(v) /\ v.is.secret = issued + 1 => p = r
        BY <1>3, <2>4
      <4>. QED  BY <3>1, <4>1, <4>2, <4>3, <2>2, <2>3, <1>3
    <3>2. CASE q # r
      <4>1. w \in ask[q].writes /\ ask'[q] = ask[q]  BY <3>2, <1>3
      <4>2. /\ w.table = "key" => ask[q].writes = {w} /\ w.is.secret \in 1..issued
            /\ Fresh(w) =>
                /\ w.is.secret \notin replaced
                /\ \A i \in Doors!In(acl["key"]) : acl["key"][i].secret # w.is.secret
                /\ \A p \in Actors : \A v \in ask[p].writes :
                      Fresh(v) /\ v.is.secret = w.is.secret => p = q
        BY <4>1 DEF AccessInv, SecretsApart
      <4>3. Fresh(w) => \A v \in writes : Fresh(v) => v.is.secret # w.is.secret
        BY <4>1, <2>4 DEF Fresh
      <4>4. Fresh(w) => \A p \in Actors : \A v \in ask'[p].writes :
                      Fresh(v) /\ v.is.secret = w.is.secret => p = q
        BY <4>2, <4>3, <1>3
      <4>. QED  BY <4>1, <4>2, <4>4, <1>4
    <3>. QED  BY <3>1, <3>2
  <2>. QED  BY <1>1, <2>1, <2>5 DEF SecretsApart
<1>7. OneOfEach'
  BY <1>1 DEF AccessInv, OneOfEach, Doors!PrimaryKeys, Doors!Indexes
<1>8. ScopeStill'
  <2>1. \A g : Doors!ScopeWrites(g)' = Doors!ScopeWrites(g)
    BY <1>1 DEF Doors!ScopeWrites, Doors!Turn, Doors!Rows
  <2>2. ASSUME NEW q \in Actors, ask'[q].op = "replace_scope"
        PROVE  /\ ask'[q].goal \subseteq Doors!Target
               /\ ~crossed => ask'[q].writes = Doors!ScopeWrites(ask'[q].goal)
    BY <2>2, <1>3 DEF AccessInv, ScopeStill
  <2>3. ASSUME NEW q \in Actors, ask'[q].op = "replace_scope", ~crossed'
        PROVE  ask'[q].writes = Doors!ScopeWrites(ask[q].goal)'
    <3>1. acl' = acl  BY <1>1
    <3>2. ask'[q].writes = Doors!ScopeWrites(ask'[q].goal)  BY <2>2, <2>3, <1>1
    <3>. QED  BY <3>1, <3>2 DEF Doors!ScopeWrites, Doors!Turn, Doors!Rows
  <2>. QED  BY <1>1, <2>2, <2>3 DEF ScopeStill
<1>. QED  BY <1>5, <1>6, <1>7, <1>8 DEF AccessInv

LEMMA TablesHold ==
    ASSUME DoorsTyped, NEW t \in Tabs
    PROVE  /\ acl[t] \in [KeyIds -> Doors!RowOf[t] \cup {Doors!NoRow}]
           /\ Doors!In(acl[t]) \subseteq KeyIds
           /\ \A i \in Doors!In(acl[t]) : acl[t][i] \in Doors!RowOf[t] /\ i # 0
           /\ \A i \in KeyIds : i \in Doors!In(acl[t]) <=> acl[t][i] # Doors!NoRow
<1>1. acl[t] \in [KeyIds -> Doors!RowOf[t] \cup {Doors!NoRow}]
  BY DEF DoorsTyped
<1>2. DOMAIN acl[t] = KeyIds  BY <1>1
<1>3. Doors!In(acl[t]) = {i \in KeyIds : acl[t][i] # Doors!NoRow}
  BY <1>2 DEF Doors!In
<1>. QED  BY <1>1, <1>3, KeysCount

\* Writes none of which inserts.
LEMMA NoneInserted ==
    ASSUME NEW writes, \A w \in writes : w.id # 0, NEW t
    PROVE  IsFiniteSet(NewIn(t, writes))
<1>1. NewIn(t, writes) = {}  BY DEF NewIn
<1>. QED  BY <1>1, FS_EmptySet

LEMMA OneWrite ==
    ASSUME NEW w, NEW t
    PROVE  IsFiniteSet(NewIn(t, {w}))
<1>1. NewIn(t, {w}) = {} \/ NewIn(t, {w}) = {w}  BY DEF NewIn
<1>. QED  BY <1>1, FS_EmptySet, FS_Singleton

Living == {"role", "permission", "link", "access", "key"}

LEMMA TurnFits ==
    ASSUME DoorsTyped, NEW t \in Living, NEW i \in Doors!In(acl[t]), NEW live \in BOOLEAN
    PROVE  /\ WriteFits(Doors!Turn(t, i, live)) /\ Doors!Turn(t, i, live).table = t
           /\ Doors!Turn(t, i, live).id = i /\ i \in KeyIds \ {0}
           /\ t = "key" => /\ Doors!Turn(t, i, live).is.secret = acl[t][i].secret
                           /\ Doors!Turn(t, i, live).was.secret = acl[t][i].secret
<1>. DEFINE rec == acl[t][i]
            is == [rec EXCEPT !.live = live]
<1>1. rec \in Doors!RowOf[t] /\ i \in KeyIds \ {0} /\ t \in Tabs
  BY TablesHold, KeysCount DEF Living, Tabs
<1>2. Doors!Turn(t, i, live) = [table |-> t, id |-> i, was |-> rec, is |-> is]
  BY DEF Doors!Turn, Doors!Update
<1>3. is \in Doors!RowOf[t] /\ (t = "key" => is.secret = rec.secret)
  <2>. HIDE DEF rec
  <2>1. CASE t = "role"  BY <1>1, <2>1, RowsOf DEF Doors!RoleRow
  <2>2. CASE t = "permission"  BY <1>1, <2>2, RowsOf DEF Doors!PermissionRow
  <2>3. CASE t = "link"  BY <1>1, <2>3, RowsOf DEF Doors!LinkRow
  <2>4. CASE t = "access"  BY <1>1, <2>4, RowsOf DEF Doors!AccessRow
  <2>5. CASE t = "key"  BY <1>1, <2>5, RowsOf DEF Doors!KeyRow
  <2>. QED  BY <2>1, <2>2, <2>3, <2>4, <2>5 DEF Living
<1>. HIDE DEF rec, is
<1>. QED  BY <1>1, <1>2, <1>3 DEF WriteFits, rec

\* Switching on a row of another table than the keys.
LEMMA TurnsOn ==
    ASSUME DoorsTyped, NEW t \in Living, t # "key", NEW i \in Doors!In(acl[t])
    PROVE  LET w == Doors!Turn(t, i, TRUE) IN WriteFits(w) /\ w.table # "key" /\ w.id # 0
<1>1. PICK live \in BOOLEAN : live = TRUE
  OBVIOUS
<1>2. /\ WriteFits(Doors!Turn(t, i, live)) /\ Doors!Turn(t, i, live).table = t
      /\ Doors!Turn(t, i, live).id = i /\ i # 0
  BY TurnFits
<1>3. Doors!Turn(t, i, live) = Doors!Turn(t, i, TRUE)
  BY <1>1
<1>. QED  BY <1>2, <1>3

\* A request about other tables than the keys.
LEMMA PlainAsk ==
    ASSUME AccessInv, NEW r \in Actors, NEW op, op # "replace_scope", NEW writes,
           Doors!Ask(r, op, writes), UNCHANGED issued,
           \A w \in writes : WriteFits(w) /\ w.table # "key",
           \A t \in Tabs : IsFiniteSet(NewIn(t, writes))
    PROVE  AccessInv'
  BY AskKeeps DEF Doors!Ask

LEMMA AssignRoleKeeps ==
    ASSUME AccessInv, NEW r \in Actors, NEW name \in Doors!Roles, Doors!AssignRole(r, name)
    PROVE  AccessInv'
<1>. DEFINE links == Doors!Where(acl["link"], "role", name)
            rec == [role |-> name, live |-> TRUE]
            turns == {Doors!Turn("link", i, TRUE) : i \in links}
<1>1. UNCHANGED issued
      /\ Doors!Ask(r, "assign_role", IF links = {} THEN {Doors!Insert("link", rec)} ELSE turns)
  BY DEF Doors!AssignRole
<1>2. links \subseteq Doors!In(acl["link"])  BY DEF Doors!Where
<1>3. CASE links = {}
  <2>1. Doors!Insert("link", rec) = [table |-> "link", id |-> 0, was |-> Doors!NoRow, is |-> rec]
    BY DEF Doors!Insert
  <2>2. rec \in Doors!RowOf["link"]  BY RowsOf DEF Doors!LinkRow
  <2>. HIDE DEF rec
  <2>3. WriteFits(Doors!Insert("link", rec)) /\ Doors!Insert("link", rec).table # "key"
    BY <2>1, <2>2 DEF WriteFits, Tabs
  <2>4. \A t \in Tabs : IsFiniteSet(NewIn(t, {Doors!Insert("link", rec)}))
    BY OneWrite
  <2>5. Doors!Ask(r, "assign_role", {Doors!Insert("link", rec)})  BY <1>1, <1>3
  <2>. QED  BY <1>1, <2>3, <2>4, <2>5, PlainAsk
<1>4. CASE links # {}
  <2>1. \A w \in turns : WriteFits(w) /\ w.table # "key" /\ w.id # 0
    <3>1. DoorsTyped /\ "link" \in Living  BY DEF AccessInv, Living
    <3>2. ASSUME NEW i \in links
          PROVE  LET w == Doors!Turn("link", i, TRUE) IN
                 WriteFits(w) /\ w.table # "key" /\ w.id # 0
      <4>1. i \in Doors!In(acl["link"])  BY <1>2
      <4>. QED  BY <3>1, <4>1, TurnsOn
    <3>. QED  BY <3>2
  <2>2. \A t \in Tabs : IsFiniteSet(NewIn(t, turns))
    BY <2>1, NoneInserted
  <2>3. Doors!Ask(r, "assign_role", turns)  BY <1>1, <1>4
  <2>. HIDE DEF turns
  <2>. QED  BY <1>1, <2>1, <2>2, <2>3, PlainAsk
<1>. QED  BY <1>3, <1>4

\* A request that turns one row on or off.
LEMMA TurnKeeps ==
    ASSUME AccessInv, NEW r \in Actors, NEW op, op # "replace_scope",
           NEW t \in Living, NEW i \in Doors!In(acl[t]), NEW live \in BOOLEAN,
           Doors!Ask(r, op, {Doors!Turn(t, i, live)}), UNCHANGED issued
    PROVE  AccessInv'
<1>. DEFINE w == Doors!Turn(t, i, live)
<1>1. DoorsTyped  BY DEF AccessInv
<1>2. WriteFits(w) /\ w.table = t /\ w.id # 0
      /\ (t = "key" => w.is.secret = acl[t][i].secret /\ w.was.secret = acl[t][i].secret)
  BY <1>1, TurnFits
<1>3. t = "key" => w.is.secret \in 1..issued /\ ~Fresh(w)
  BY <1>2 DEF AccessInv, SecretsApart, Fresh
<1>4. \A u \in Tabs : IsFiniteSet(NewIn(u, {w}))
  BY OneWrite
<1>5. Doors!AskFor(r, op, {w}, {})  BY DEF Doors!Ask
<1>. HIDE DEF w
<1>. QED  BY <1>2, <1>3, <1>4, <1>5, AskKeeps

LEMMA RolesKeep ==
    ASSUME AccessInv, NEW r \in Actors, Doors!Security(r)
    PROVE  AccessInv'
<1>0. DoorsTyped  BY DEF AccessInv
<1>1. CASE \E name \in Doors!Roles : Doors!AssignRole(r, name)
  BY <1>1, AssignRoleKeeps
<1>2. CASE \E name \in Doors!Roles : Doors!GrantPermission(r, name)
  <2>1. PICK name \in Doors!Roles : Doors!GrantPermission(r, name)  BY <1>2
  <2>. DEFINE rec == [role |-> name]
              w == Doors!Insert("grant", rec)
  <2>2. Doors!Ask(r, "grant", {w}) /\ UNCHANGED issued
    BY <2>1 DEF Doors!GrantPermission
  <2>3. w = [table |-> "grant", id |-> 0, was |-> Doors!NoRow, is |-> rec]
    BY DEF Doors!Insert
  <2>4. rec \in Doors!RowOf["grant"]  BY RowsOf DEF Doors!GrantRow
  <2>. HIDE DEF rec
  <2>5. WriteFits(w) /\ w.table # "key"
    BY <2>3, <2>4 DEF WriteFits, Tabs
  <2>6. \A t \in Tabs : IsFiniteSet(NewIn(t, {w}))
    BY OneWrite
  <2>. HIDE DEF w
  <2>. QED  BY <2>2, <2>5, <2>6, PlainAsk
<1>3. CASE \E i \in KeyIds : Doors!RemoveRole(r, i)
  <2>1. PICK i \in KeyIds : Doors!RemoveRole(r, i)  BY <1>3
  <2>2. i \in Doors!In(acl["link"]) /\ Doors!Ask(r, "remove_role", {Doors!Turn("link", i, FALSE)})
        /\ UNCHANGED issued
    BY <2>1 DEF Doors!RemoveRole
  <2>3. "link" \in Living  BY DEF Living
  <2>. QED  BY <2>2, <2>3, TurnKeeps
<1>4. CASE \E i \in KeyIds : Doors!RevokePermission(r, i)
  <2>1. PICK i \in KeyIds : Doors!RevokePermission(r, i)  BY <1>4
  <2>. DEFINE w == Doors!Update("grant", i, acl["grant"][i], Doors!NoRow)
  <2>2. i \in Doors!In(acl["grant"]) /\ Doors!Ask(r, "revoke", {w}) /\ UNCHANGED issued
    BY <2>1 DEF Doors!RevokePermission
  <2>3. w = [table |-> "grant", id |-> i, was |-> acl["grant"][i], is |-> Doors!NoRow]
    BY DEF Doors!Update
  <2>4. acl["grant"][i] \in Doors!RowOf["grant"] /\ i # 0
    BY <1>0, <2>2, TablesHold DEF Tabs
  <2>5. WriteFits(w) /\ w.table # "key"
    BY <2>3, <2>4, <2>1 DEF WriteFits, Tabs
  <2>6. \A t \in Tabs : IsFiniteSet(NewIn(t, {w}))
    BY OneWrite
  <2>. HIDE DEF w
  <2>. QED  BY <2>2, <2>5, <2>6, PlainAsk
<1>5. CASE \E i \in KeyIds : \E t \in {"role", "permission"}, live \in BOOLEAN :
              Doors!SwitchRow(r, t, i, live)
  <2>1. PICK i \in KeyIds, t \in {"role", "permission"}, live \in BOOLEAN :
              Doors!SwitchRow(r, t, i, live)
    BY <1>5
  <2>2. i \in Doors!In(acl[t]) /\ Doors!Ask(r, "switch", {Doors!Turn(t, i, live)}) /\ UNCHANGED issued
    BY <2>1 DEF Doors!SwitchRow
  <2>3. t \in Living  BY DEF Living
  <2>. QED  BY <2>2, <2>3, TurnKeeps
<1>. QED  BY <1>1, <1>2, <1>3, <1>4, <1>5 DEF Doors!Security

\* A request about one key, with a new secret or the one the key has.
LEMMA KeyAsk ==
    ASSUME AccessInv, NEW r \in Actors, NEW op, op # "replace_scope", NEW w,
           Doors!Ask(r, op, {w}), WriteFits(w), w.table = "key",
           issued' = issued \/ issued' = issued + 1, w.is.secret \in 1..issued',
           Fresh(w) => w.is.secret = issued + 1
    PROVE  AccessInv'
<1>1. \A t \in Tabs : IsFiniteSet(NewIn(t, {w}))  BY OneWrite
<1>2. Doors!AskFor(r, op, {w}, {})  BY DEF Doors!Ask
<1>. QED  BY <1>1, <1>2, AskKeeps

\* A key as a request changes it.
LEMMA KeyChange ==
    ASSUME AccessInv, NEW r \in Actors, NEW op, op # "replace_scope",
           NEW i \in Doors!In(acl["key"]), NEW rec \in Doors!KeyRow,
           Doors!Ask(r, op, {Doors!Update("key", i, acl["key"][i], rec)}),
           \/ issued' = issued /\ rec.secret = acl["key"][i].secret
           \/ issued' = issued + 1 /\ rec.secret = issued + 1
    PROVE  AccessInv'
<1>. DEFINE w == Doors!Update("key", i, acl["key"][i], rec)
<1>1. w = [table |-> "key", id |-> i, was |-> acl["key"][i], is |-> rec]
  BY DEF Doors!Update
<1>2. DoorsTyped /\ "key" \in Tabs  BY DEF AccessInv, Tabs
<1>3. acl["key"][i] \in Doors!KeyRow /\ i # 0 /\ i \in KeyIds
  BY <1>2, TablesHold, RowsOf
<1>4. w.table = "key" /\ w.id = i /\ w.was = acl["key"][i] /\ w.is = rec
  BY <1>1
<1>. HIDE DEF w
<1>5. WriteFits(w)
  BY <1>2, <1>3, <1>4, RowsOf DEF WriteFits
<1>6. issued \in Nat /\ acl["key"][i].secret \in 1..issued
  BY DEF AccessInv, DoorsTyped, SecretsApart
<1>7. w.is.secret \in 1..issued'
  BY <1>4, <1>6
<1>8. Fresh(w) => w.is.secret = issued + 1
  BY <1>3, <1>4 DEF Fresh
<1>. QED  BY <1>4, <1>5, <1>7, <1>8, KeyAsk DEF w

LEMMA KeysKeep ==
    ASSUME AccessInv, NEW r \in Actors, Doors!ApiKeys(r)
    PROVE  AccessInv'
<1>0. DoorsTyped /\ "key" \in Tabs  BY DEF AccessInv, Tabs
<1>1. issued \in Nat  BY DEF AccessInv, DoorsTyped
<1>2. ASSUME NEW i \in Doors!In(acl["key"]) PROVE acl["key"][i] \in Doors!KeyRow /\ acl["key"][i].secret \in Nat
  <2>1. acl["key"][i] \in Doors!KeyRow  BY <1>0, TablesHold, RowsOf
  <2>. QED  BY <2>1 DEF Doors!KeyRow
<1>3. CASE Doors!CreateKey(r)
  <2>. DEFINE rec == [secret |-> issued + 1, live |-> TRUE, expired |-> FALSE]
              w == Doors!Insert("key", rec)
  <2>1. Doors!Ask(r, "create_key", {w}) /\ issued' = issued + 1
    BY <1>3 DEF Doors!CreateKey
  <2>2. w = [table |-> "key", id |-> 0, was |-> Doors!NoRow, is |-> rec]
    BY DEF Doors!Insert
  <2>3. rec \in Doors!KeyRow /\ rec.secret = issued + 1
    BY <1>1 DEF Doors!KeyRow
  <2>. HIDE DEF rec
  <2>4. w.table = "key" /\ w.id = 0 /\ w.is = rec
    BY <2>2
  <2>. HIDE DEF w
  <2>5. WriteFits(w)
    BY <1>0, <2>3, <2>4, RowsOf DEF WriteFits
  <2>6. w.is.secret \in 1..issued'
    BY <1>1, <2>1, <2>3, <2>4
  <2>. QED  BY <2>1, <2>3, <2>4, <2>5, <2>6, KeyAsk
<1>4. CASE \E i \in KeyIds : Doors!RotateKey(r, i)
  <2>1. PICK i \in KeyIds : Doors!RotateKey(r, i)  BY <1>4
  <2>. DEFINE rec == [acl["key"][i] EXCEPT !.secret = issued + 1, !.live = TRUE]
  <2>2. /\ i \in Doors!In(acl["key"]) /\ issued' = issued + 1
        /\ Doors!Ask(r, "rotate_key", {Doors!Update("key", i, acl["key"][i], rec)})
    BY <2>1 DEF Doors!RotateKey
  <2>3. rec \in Doors!KeyRow /\ rec.secret = issued + 1
    <3>1. \A old \in Doors!KeyRow : \A n \in Nat :
             /\ [old EXCEPT !.secret = n, !.live = TRUE] \in Doors!KeyRow
             /\ [old EXCEPT !.secret = n, !.live = TRUE].secret = n
      BY DEF Doors!KeyRow
    <3>2. issued + 1 \in Nat /\ acl["key"][i] \in Doors!KeyRow  BY <1>1, <1>2, <2>2
    <3>. QED  BY <3>1, <3>2
  <2>. HIDE DEF rec
  <2>. QED  BY <2>2, <2>3, KeyChange
<1>5. CASE \E i \in KeyIds : Doors!DeactivateKey(r, i)
  <2>1. PICK i \in KeyIds : Doors!DeactivateKey(r, i)  BY <1>5
  <2>2. i \in Doors!In(acl["key"]) /\ Doors!Ask(r, "deactivate_key", {Doors!Turn("key", i, FALSE)})
        /\ UNCHANGED issued
    BY <2>1 DEF Doors!DeactivateKey
  <2>3. "key" \in Living  BY DEF Living
  <2>. QED  BY <2>2, <2>3, TurnKeeps
<1>6. CASE \E i \in KeyIds : \E live, expired \in BOOLEAN : Doors!UpdateKey(r, i, live, expired)
  <2>1. PICK i \in KeyIds, live \in BOOLEAN, expired \in BOOLEAN : Doors!UpdateKey(r, i, live, expired)
    BY <1>6
  <2>. DEFINE rec == [acl["key"][i] EXCEPT !.live = live, !.expired = expired]
  <2>2. /\ i \in Doors!In(acl["key"]) /\ issued' = issued
        /\ Doors!Ask(r, "update_key", {Doors!Update("key", i, acl["key"][i], rec)})
    BY <2>1 DEF Doors!UpdateKey
  <2>3. rec \in Doors!KeyRow /\ rec.secret = acl["key"][i].secret
    BY <1>2, <2>2 DEF Doors!KeyRow
  <2>. HIDE DEF rec
  <2>. QED  BY <2>2, <2>3, KeyChange
<1>. QED  BY <1>3, <1>4, <1>5, <1>6 DEF Doors!ApiKeys

\* The writes of a replacement are well formed.
LEMMA ScopeFits ==
    ASSUME DoorsTyped, NEW wanted \in SUBSET Doors!Target
    PROVE  /\ \A w \in Doors!ScopeWrites(wanted) : WriteFits(w) /\ w.table = "access"
           /\ \A t \in Tabs : IsFiniteSet(NewIn(t, Doors!ScopeWrites(wanted)))
<1>. DEFINE lacking == wanted \ {x.target : x \in Doors!Rows("access")}
            put(t) == Doors!Insert("access", [target |-> t, live |-> TRUE])
<1>1. ASSUME NEW i \in Doors!In(acl["access"])
      PROVE  LET w == Doors!Turn("access", i, acl["access"][i].target \in wanted)
             IN  WriteFits(w) /\ w.table = "access" /\ w.id # 0
  <2>. DEFINE b == acl["access"][i].target \in wanted
  <2>1. "access" \in Living /\ b \in BOOLEAN  BY DEF Living
  <2>. HIDE DEF b
  <2>2. /\ WriteFits(Doors!Turn("access", i, b)) /\ Doors!Turn("access", i, b).table = "access"
        /\ Doors!Turn("access", i, b).id = i /\ i \in KeyIds \ {0}
    BY <2>1, TurnFits
  <2>. QED  BY <2>2 DEF b
<1>2. ASSUME NEW t \in wanted PROVE WriteFits(put(t)) /\ put(t).table = "access"
  <2>. DEFINE rec == [target |-> t, live |-> TRUE]
  <2>1. rec \in Doors!RowOf["access"]  BY RowsOf DEF Doors!AccessRow
  <2>. HIDE DEF rec
  <2>2. put(t) = [table |-> "access", id |-> 0, was |-> Doors!NoRow, is |-> rec]
    BY DEF Doors!Insert, rec
  <2>. QED  BY <2>1, <2>2 DEF WriteFits, Tabs
<1>3. \A w \in Doors!ScopeWrites(wanted) :
         \/ \E i \in Doors!In(acl["access"]) :
               w = Doors!Turn("access", i, acl["access"][i].target \in wanted)
         \/ \E t \in lacking : w = put(t)
  BY DEF Doors!ScopeWrites
<1>. HIDE DEF put
<1>4. \A w \in Doors!ScopeWrites(wanted) : WriteFits(w) /\ w.table = "access"
  BY <1>1, <1>2, <1>3
<1>5. ASSUME NEW t \in Tabs PROVE IsFiniteSet(NewIn(t, Doors!ScopeWrites(wanted)))
  <2>. DEFINE f == [x \in lacking |-> put(x)]
              S == {put(x) : x \in lacking}
  <2>1. f \in Surjection(lacking, S)  BY DEF Surjection
  <2>2. IsFiniteSet(lacking)  BY KeysCount, FS_Subset
  <2>3. IsFiniteSet(S)  BY <2>1, <2>2, FS_Surjection
  <2>4. NewIn(t, Doors!ScopeWrites(wanted)) \subseteq S
    BY <1>1, <1>3 DEF NewIn
  <2>. HIDE DEF S
  <2>. QED  BY <2>3, <2>4, FS_Subset
<1>. QED  BY <1>4, <1>5

LEMMA ScopesKeep ==
    ASSUME AccessInv, NEW r \in Actors, Doors!Scope(r)
    PROVE  AccessInv'
<1>0. DoorsTyped  BY DEF AccessInv
<1>1. CASE \E t \in Doors!Target : Doors!AssignAccess(r, t)
  <2>1. PICK target \in Doors!Target : Doors!AssignAccess(r, target)  BY <1>1
  <2>. DEFINE same == Doors!Where(acl["access"], "target", target)
              rec == [target |-> target, live |-> TRUE]
              turns == {Doors!Turn("access", i, TRUE) : i \in same}
  <2>2. UNCHANGED issued
        /\ Doors!Ask(r, "assign_access", IF same = {} THEN {Doors!Insert("access", rec)} ELSE turns)
    BY <2>1 DEF Doors!AssignAccess
  <2>3. same \subseteq Doors!In(acl["access"])  BY DEF Doors!Where
  <2>4. CASE same = {}
    <3>1. Doors!Insert("access", rec) = [table |-> "access", id |-> 0, was |-> Doors!NoRow, is |-> rec]
      BY DEF Doors!Insert
    <3>2. rec \in Doors!RowOf["access"]  BY RowsOf DEF Doors!AccessRow
    <3>. HIDE DEF rec
    <3>3. WriteFits(Doors!Insert("access", rec)) /\ Doors!Insert("access", rec).table # "key"
      BY <3>1, <3>2 DEF WriteFits, Tabs
    <3>4. \A t \in Tabs : IsFiniteSet(NewIn(t, {Doors!Insert("access", rec)}))
      BY OneWrite
    <3>5. Doors!Ask(r, "assign_access", {Doors!Insert("access", rec)})  BY <2>2, <2>4
    <3>. QED  BY <2>2, <3>3, <3>4, <3>5, PlainAsk
  <2>5. CASE same # {}
    <3>1. "access" \in Living  BY DEF Living
    <3>2. ASSUME NEW i \in same
          PROVE  LET w == Doors!Turn("access", i, TRUE) IN
                 WriteFits(w) /\ w.table # "key" /\ w.id # 0
      <4>1. i \in Doors!In(acl["access"])  BY <2>3
      <4>. QED  BY <1>0, <3>1, <4>1, TurnsOn
    <3>3. \A w \in turns : WriteFits(w) /\ w.table # "key" /\ w.id # 0
      BY <3>2
    <3>4. \A t \in Tabs : IsFiniteSet(NewIn(t, turns))
      BY <3>3, NoneInserted
    <3>5. Doors!Ask(r, "assign_access", turns)  BY <2>2, <2>5
    <3>. HIDE DEF turns
    <3>. QED  BY <2>2, <3>3, <3>4, <3>5, PlainAsk
  <2>. QED  BY <2>4, <2>5
<1>2. CASE \E wanted \in SUBSET Doors!Target : Doors!ReplaceScope(r, wanted)
  <2>1. PICK wanted \in SUBSET Doors!Target : Doors!ReplaceScope(r, wanted)  BY <1>2
  <2>2. Doors!AskFor(r, "replace_scope", Doors!ScopeWrites(wanted), wanted) /\ UNCHANGED issued
    BY <2>1 DEF Doors!ReplaceScope
  <2>. DEFINE writes == Doors!ScopeWrites(wanted)
  <2>3. /\ \A w \in writes : WriteFits(w) /\ w.table = "access"
        /\ \A t \in Tabs : IsFiniteSet(NewIn(t, writes))
    BY <1>0, ScopeFits
  <2>4. \A w \in writes : w.table # "key"  BY <2>3
  <2>5. wanted \subseteq Doors!Target /\ writes = Doors!ScopeWrites(wanted)  OBVIOUS
  <2>. HIDE DEF writes
  <2>. QED  BY <2>2, <2>3, <2>4, <2>5, AskKeeps
<1>3. CASE \E i \in KeyIds, live \in BOOLEAN : Doors!SetAccessActive(r, i, live)
  <2>1. PICK i \in KeyIds, live \in BOOLEAN : Doors!SetAccessActive(r, i, live)  BY <1>3
  <2>2. i \in Doors!In(acl["access"]) /\ Doors!Ask(r, "set_access", {Doors!Turn("access", i, live)})
        /\ UNCHANGED issued
    BY <2>1 DEF Doors!SetAccessActive
  <2>3. "access" \in Living  BY DEF Living
  <2>. QED  BY <2>2, <2>3, TurnKeeps
<1>. QED  BY <1>1, <1>2, <1>3 DEF Doors!Scope

\* The writes of a replacement depend on the accesses alone.
LEMMA StillStill ==
    ASSUME ScopeStill, acl'["access"] = acl["access"], UNCHANGED <<ask, crossed>>
    PROVE  ScopeStill'
<1>1. ASSUME NEW r \in Actors, ask[r].op = "replace_scope"
      PROVE  /\ ask[r].goal \subseteq Doors!Target
             /\ ~crossed => ask'[r].writes = Doors!ScopeWrites(ask[r].goal)'
  <2>1. /\ ask[r].goal \subseteq Doors!Target
        /\ ~crossed => ask[r].writes = Doors!ScopeWrites(ask[r].goal)
    BY <1>1 DEF ScopeStill
  <2>2. Doors!ScopeWrites(ask[r].goal)' = Doors!ScopeWrites(ask[r].goal)
    BY DEF Doors!ScopeWrites, Doors!Turn, Doors!Rows
  <2>. QED  BY <2>1, <2>2
<1>. QED  BY <1>1 DEF ScopeStill

LEMMA ExpireKeeps ==
    ASSUME AccessInv, NEW i \in KeyIds, Doors!Expire(i)
    PROVE  AccessInv'
<1>. DEFINE old == acl["key"][i]
            rec == [old EXCEPT !.expired = TRUE]
<1>0. DoorsTyped /\ "key" \in Tabs  BY DEF AccessInv, Tabs
<1>1. /\ i \in Doors!In(acl["key"]) /\ acl' = [acl EXCEPT !["key"][i].expired = TRUE]
      /\ UNCHANGED <<working, ask, moves, crossed, replaced, issued>>
  BY DEF Doors!Expire
<1>2. old \in Doors!KeyRow  BY <1>0, <1>1, TablesHold, RowsOf
<1>3. rec \in Doors!KeyRow /\ rec.secret = old.secret /\ rec \in Doors!RowOf["key"]
  BY <1>2, RowsOf DEF Doors!KeyRow
<1>4. acl = [t \in Tabs |-> acl[t]] /\ acl["key"] \in [KeyIds -> Doors!RowOf["key"] \cup {Doors!NoRow}]
  BY <1>0 DEF DoorsTyped
<1>5. /\ acl' = [t \in Tabs |-> acl'[t]] /\ \A t \in Tabs \ {"key"} : acl'[t] = acl[t]
      /\ acl'["key"] = [acl["key"] EXCEPT ![i] = rec]
  BY <1>0, <1>1, <1>4
<1>. HIDE DEF rec
<1>6. acl'["key"] \in [KeyIds -> Doors!RowOf["key"] \cup {Doors!NoRow}] /\ acl'["key"][i] = rec
      /\ \A j \in KeyIds \ {i} : acl'["key"][j] = acl["key"][j]
  BY <1>3, <1>4, <1>5
<1>7. Doors!In(acl'["key"]) = Doors!In(acl["key"])
      /\ \A j \in Doors!In(acl["key"]) : acl'["key"][j].secret = acl["key"][j].secret
  <2>1. rec # Doors!NoRow  BY <1>0, <1>3, NoRowIsNone
  <2>2. DOMAIN acl'["key"] = KeyIds /\ DOMAIN acl["key"] = KeyIds  BY <1>4, <1>6
  <2>3. Doors!In(acl["key"]) = {j \in KeyIds : acl["key"][j] # Doors!NoRow}  BY <2>2 DEF Doors!In
  <2>4. Doors!In(acl'["key"]) = {j \in KeyIds : acl'["key"][j] # Doors!NoRow}  BY <2>2 DEF Doors!In
  <2>5. \A j \in KeyIds : acl'["key"][j] # Doors!NoRow <=> acl["key"][j] # Doors!NoRow
    BY <1>1, <1>6, <2>1, <2>3
  <2>6. \A j \in Doors!In(acl["key"]) : j \in KeyIds  BY <2>3
  <2>. QED  BY <1>3, <1>6, <2>3, <2>4, <2>5, <2>6
<1>8. DoorsTyped'
  BY <1>1, <1>5, <1>6 DEF AccessInv, DoorsTyped
<1>9. SecretsApart'
  <2>1. \A j \in Doors!In(acl'["key"]) :
          /\ acl'["key"][j].secret \in 1..issued /\ acl'["key"][j].secret \notin replaced
          /\ \A k \in Doors!In(acl'["key"]) : acl'["key"][j].secret = acl'["key"][k].secret => j = k
    BY <1>7 DEF AccessInv, SecretsApart
  <2>2. \A r \in Actors : \A w \in ask[r].writes :
          /\ w.table = "key" => ask[r].writes = {w} /\ w.is.secret \in 1..issued
          /\ Fresh(w) =>
                /\ w.is.secret \notin replaced
                /\ \A j \in Doors!In(acl'["key"]) : acl'["key"][j].secret # w.is.secret
                /\ \A q \in Actors : \A v \in ask[q].writes :
                      Fresh(v) /\ v.is.secret = w.is.secret => q = r
    BY <1>7 DEF AccessInv, SecretsApart
  <2>3. ask' = ask /\ replaced' = replaced /\ issued' = issued  BY <1>1
  <2>. QED  BY <2>1, <2>2, <2>3 DEF SecretsApart
<1>10. acl'["link"] = acl["link"] /\ acl'["grant"] = acl["grant"] /\ acl'["access"] = acl["access"]
  BY <1>5 DEF Tabs
<1>11. OneOfEach'
  BY <1>10 DEF AccessInv, OneOfEach, Doors!PrimaryKeys, Doors!Indexes
<1>12. ScopeStill'
  BY <1>1, <1>10, StillStill DEF AccessInv
<1>. QED  BY <1>8, <1>9, <1>11, <1>12 DEF AccessInv

LEMMA MasterKeeps ==
    ASSUME AccessInv, NEW m \in Companies \cup Areas, Doors!SwitchMaster(m)
    PROVE  AccessInv'
<1>1. UNCHANGED <<acl, ask, crossed, replaced, issued>>
      /\ working' \subseteq Companies \cup Areas
  BY DEF Doors!SwitchMaster, AccessInv, DoorsTyped
<1>2. DoorsTyped' /\ SecretsApart' /\ OneOfEach'
  BY <1>1 DEF AccessInv, DoorsTyped, SecretsApart, OneOfEach, Doors!PrimaryKeys, Doors!Indexes
<1>4. ScopeStill'
  BY <1>1, StillStill DEF AccessInv
<1>. QED  BY <1>2, <1>4 DEF AccessInv

-----------------------------------------------------------------------------
(* The commit of a request.                                                *)

Committed(r) == [t \in Tabs |-> Doors!After(t, acl[t], ask[r].writes)]

LEMMA CommitIs ==
    ASSUME AccessInv, NEW r \in Actors, Doors!CommitAsk(r)
    PROVE  /\ ask[r] # Doors!Resting /\ ask' = [ask EXCEPT ![r] = Doors!Resting]
           /\ \/ acl' = acl
              \/ acl' = Committed(r) /\ OneOfEach'
           /\ \A t \in Tabs : CommitLeaves(Committed(r)[t], t, acl[t], ask[r].writes)
           /\ replaced' = replaced \cup
                 ({acl["key"][i].secret : i \in Doors!In(acl["key"])}
                    \ {acl'["key"][i].secret : i \in Doors!In(acl'["key"])})
           /\ crossed' = (crossed \/ (acl' # acl /\ \E q \in Actors \ {r} : ask[q] # Doors!Resting))
           /\ UNCHANGED <<working, moves, issued>>
<1>1. DOMAIN acl = Tabs
  <2>1. acl = [t \in Tabs |-> acl[t]]  BY DEF AccessInv, DoorsTyped
  <2>. QED  BY <2>1
<1>2. acl' = IF Doors!PrimaryKeys(Committed(r)) /\ Doors!Indexes(Committed(r)["access"]) THEN Committed(r) ELSE acl
  BY <1>1 DEF Doors!CommitAsk, Committed
<1>3. \/ acl' = acl
      \/ acl' = Committed(r) /\ Doors!PrimaryKeys(Committed(r)) /\ Doors!Indexes(Committed(r)["access"])
  BY <1>2
<1>4. ASSUME acl' = Committed(r), Doors!PrimaryKeys(Committed(r)), Doors!Indexes(Committed(r)["access"])
      PROVE  OneOfEach'
  <2>. HIDE DEF Committed
  <2>. QED  BY <1>4 DEF OneOfEach, Doors!PrimaryKeys, Doors!Indexes
<1>5. ASSUME NEW t \in Tabs PROVE CommitLeaves(Committed(r)[t], t, acl[t], ask[r].writes)
  <2>1. Committed(r)[t] = Doors!After(t, acl[t], ask[r].writes)  BY DEF Committed
  <2>2. /\ acl[t] \in [KeyIds -> Doors!RowOf[t] \cup {Doors!NoRow}]
        /\ \A w \in ask[r].writes : WriteFits(w)
        /\ IsFiniteSet(NewIn(t, ask[r].writes))
    BY DEF AccessInv, DoorsTyped
  <2>. QED  BY <2>1, <2>2, AfterHere
<1>6. /\ ask[r] # Doors!Resting /\ ask' = [ask EXCEPT ![r] = Doors!Resting]
      /\ replaced' = replaced \cup
                 ({acl["key"][i].secret : i \in Doors!In(acl["key"])}
                    \ {acl'["key"][i].secret : i \in Doors!In(acl'["key"])})
      /\ crossed' = (crossed \/ (acl' # acl /\ \E q \in Actors \ {r} : ask[q] # Doors!Resting))
      /\ UNCHANGED <<working, moves, issued>>
  BY DEF Doors!CommitAsk
<1>. QED  BY <1>3, <1>4, <1>5, <1>6

\* What a commit that goes through leaves of the keys: the secrets there were, and
\* at most one that was never in a row.
LEMMA KeysAfter ==
    ASSUME AccessInv, NEW r \in Actors, NEW after,
           CommitLeaves(after, "key", acl["key"], ask[r].writes)
    PROVE  \A i \in Doors!In(after) :
              \/ i \in Doors!In(acl["key"]) /\ after[i].secret = acl["key"][i].secret
              \/ \E w \in ask[r].writes :
                    /\ Fresh(w) /\ after[i].secret = w.is.secret
                    /\ \A j \in Doors!In(after) : after[j].secret = w.is.secret => j = i
<1>. DEFINE writes == ask[r].writes
            table == acl["key"]
<1>0. DoorsTyped /\ "key" \in Tabs  BY DEF AccessInv, Tabs
<1>1. after \in [KeyIds -> Doors!RowOf["key"] \cup {Doors!NoRow}]
  BY DEF CommitLeaves
<1>2. /\ Doors!In(table) \subseteq KeyIds /\ Doors!In(after) \subseteq KeyIds
      /\ \A i \in KeyIds : (i \in Doors!In(table) <=> table[i] # Doors!NoRow) /\ (i \in Doors!In(after) <=> after[i] # Doors!NoRow)
  <2>1. DOMAIN after = KeyIds  BY <1>1
  <2>2. Doors!In(after) = {i \in KeyIds : after[i] # Doors!NoRow}  BY <2>1 DEF Doors!In
  <2>. QED  BY <1>0, <2>2, TablesHold
<1>3. /\ \A i \in Doors!In(table) : Mine("key", i, writes) = {} => after[i] = table[i]
      /\ \A i \in Doors!In(table) : Mine("key", i, writes) # {} =>
              \E w \in Mine("key", i, writes) : after[i] = Doors!Changed(table[i], w)
      /\ \A i \in KeyIds \ Doors!In(table) : after[i] = Doors!NoRow \/ \E w \in NewIn("key", writes) : after[i] = w.is
      /\ Distinct(NewIn("key", writes)) =>
            \A i, j \in KeyIds \ Doors!In(table) : after[i] = after[j] => i = j \/ after[i] = Doors!NoRow
  BY DEF CommitLeaves
<1>4. ASSUME NEW w \in writes, w.table = "key"
      PROVE  writes = {w} /\ WriteFits(w)
             /\ (Fresh(w) => \A j \in Doors!In(table) : table[j].secret # w.is.secret)
  BY <1>4 DEF AccessInv, SecretsApart, DoorsTyped
<1>. HIDE DEF writes, table
<1>5. Distinct(NewIn("key", writes))
  <2>1. \A w, v \in NewIn("key", writes) : w = v  BY <1>4 DEF NewIn
  <2>. QED  BY <2>1 DEF Distinct
<1>6. ASSUME NEW i \in Doors!In(table), NEW w \in Mine("key", i, writes)
      PROVE  after[i].secret = IF w.is.secret # w.was.secret THEN w.is.secret ELSE table[i].secret
  <2>1. table[i] \in Doors!KeyRow  BY <1>0, TablesHold, RowsOf DEF table
  <2>2. "secret" \in DOMAIN table[i]  BY <2>1 DEF Doors!KeyRow
  <2>3. w \in writes /\ w.table = "key"  BY DEF Mine
  <2>4. Mine("key", i, writes) = {w}  BY <2>3, <1>4 DEF Mine
  <2>5. after[i] = Doors!Changed(table[i], w)  BY <1>3, <2>4
  <2>. QED  BY <2>2, <2>5 DEF Doors!Changed
<1>7. ASSUME NEW i \in Doors!In(after), ~(i \in Doors!In(table) /\ after[i].secret = table[i].secret)
      PROVE  \E w \in writes :
                    /\ Fresh(w) /\ after[i].secret = w.is.secret
                    /\ \A j \in Doors!In(after) : after[j].secret = w.is.secret => j = i
  <2>1. CASE i \in Doors!In(table)
    <3>1. Mine("key", i, writes) # {}  BY <1>3, <1>7, <2>1
    <3>2. PICK w \in Mine("key", i, writes) : TRUE  BY <3>1
    <3>3. w \in writes /\ w.table = "key" /\ w.id = i /\ w.is.secret # w.was.secret
          /\ after[i].secret = w.is.secret
      BY <1>6, <1>7, <2>1 DEF Mine
    <3>4. writes = {w} /\ Fresh(w)  BY <3>3, <1>4 DEF Fresh
    <3>5. ASSUME NEW j \in Doors!In(after), after[j].secret = w.is.secret PROVE j = i
      <4>1. NewIn("key", writes) = {}
        <5>1. i # 0  BY <1>2, <2>1, KeysCount
        <5>. QED  BY <3>3, <3>4, <5>1 DEF NewIn
      <4>2. j \in Doors!In(table)  BY <1>2, <1>3, <4>1
      <4>3. SUFFICES ASSUME j # i PROVE FALSE
        OBVIOUS
      <4>4. Mine("key", j, writes) = {}  BY <3>3, <3>4, <4>3 DEF Mine
      <4>5. after[j] = table[j]  BY <1>3, <4>2, <4>4
      <4>. QED  BY <1>4, <3>3, <3>4, <3>5, <4>2, <4>5
    <3>. QED  BY <3>3, <3>4, <3>5
  <2>2. CASE i \notin Doors!In(table)
    <3>1. PICK w \in NewIn("key", writes) : after[i] = w.is  BY <1>2, <1>3, <2>2
    <3>2. w \in writes /\ w.table = "key" /\ w.id = 0  BY DEF NewIn
    <3>3. writes = {w} /\ Fresh(w)  BY <3>2, <1>4 DEF Fresh
    <3>4. ASSUME NEW j \in Doors!In(after), after[j].secret = w.is.secret PROVE j = i
      <4>1. CASE j \in Doors!In(table)
        <5>1. Mine("key", j, writes) = {}
          <6>1. j # 0  BY <1>2, <4>1, KeysCount
          <6>. QED  BY <3>2, <3>3, <6>1 DEF Mine
        <5>2. after[j] = table[j]  BY <1>3, <4>1, <5>1
        <5>. QED  BY <1>4, <3>2, <3>3, <3>4, <4>1, <5>2
      <4>2. CASE j \notin Doors!In(table)
        <5>1. PICK v \in NewIn("key", writes) : after[j] = v.is  BY <1>2, <1>3, <4>2
        <5>2. v = w  BY <3>3, <5>1 DEF NewIn
        <5>3. after[j] = after[i] /\ after[i] # Doors!NoRow  BY <3>1, <5>1, <5>2, <1>2
        <5>. QED  BY <1>2, <1>3, <1>5, <2>2, <4>2, <5>3
      <4>. QED  BY <4>1, <4>2
    <3>. QED  BY <3>1, <3>2, <3>3, <3>4
  <2>. QED  BY <2>1, <2>2
<1>. QED  BY <1>7 DEF writes, table

LEMMA CommitKeeps ==
    ASSUME AccessInv, NEW r \in Actors, Doors!CommitAsk(r)
    PROVE  AccessInv'
<1>. DEFINE after == Committed(r)
            old == {acl["key"][i].secret : i \in Doors!In(acl["key"])}
            cur == {acl'["key"][i].secret : i \in Doors!In(acl'["key"])}
<1>1. /\ ask[r] # Doors!Resting /\ ask' = [ask EXCEPT ![r] = Doors!Resting]
      /\ \/ acl' = acl
         \/ acl' = after /\ OneOfEach'
      /\ \A t \in Tabs : CommitLeaves(after[t], t, acl[t], ask[r].writes)
      /\ replaced' = replaced \cup (old \ cur)
      /\ crossed' = (crossed \/ (acl' # acl /\ \E q \in Actors \ {r} : ask[q] # Doors!Resting))
      /\ UNCHANGED <<working, moves, issued>>
  BY CommitIs
<1>2. ask = [q \in Actors |-> ask[q]] /\ acl = [t \in Tabs |-> acl[t]]
  BY DEF AccessInv, DoorsTyped
<1>3. /\ ask' = [q \in Actors |-> ask'[q]] /\ ask'[r].writes = {} /\ ask'[r].op = "idle"
      /\ \A q \in Actors \ {r} : ask'[q] = ask[q]
  BY <1>1, <1>2 DEF Doors!Resting
<1>4. after = [t \in Tabs |-> after[t]]
  BY DEF Committed
<1>. HIDE DEF after
<1>5. acl' = [t \in Tabs |-> acl'[t]]
      /\ \A t \in Tabs : acl'[t] \in [KeyIds -> Doors!RowOf[t] \cup {Doors!NoRow}]
  <2>1. CASE acl' = acl  BY <2>1, <1>2 DEF AccessInv, DoorsTyped
  <2>2. CASE acl' = after  BY <2>2, <1>1, <1>4 DEF CommitLeaves
  <2>. QED  BY <1>1, <2>1, <2>2
<1>6. \A i \in Doors!In(acl'["key"]) :
         \/ i \in Doors!In(acl["key"]) /\ acl'["key"][i].secret = acl["key"][i].secret
         \/ \E w \in ask[r].writes :
               /\ Fresh(w) /\ acl'["key"][i].secret = w.is.secret
               /\ \A j \in Doors!In(acl'["key"]) : acl'["key"][j].secret = w.is.secret => j = i
  <2>1. CASE acl' = acl  BY <2>1
  <2>2. CASE acl' = after
    <3>1. "key" \in Tabs  BY DEF Tabs
    <3>2. CommitLeaves(after["key"], "key", acl["key"], ask[r].writes)  BY <1>1, <3>1
    <3>. QED  BY <2>2, <3>2, KeysAfter
  <2>. QED  BY <1>1, <2>1, <2>2
<1>7. /\ old \subseteq 1..issued /\ old \cap replaced = {}
      /\ \A i, j \in Doors!In(acl["key"]) : acl["key"][i].secret = acl["key"][j].secret => i = j
  BY DEF AccessInv, SecretsApart
<1>8. \A q \in Actors : \A w \in ask[q].writes :
         /\ w.table = "key" => ask[q].writes = {w} /\ w.is.secret \in 1..issued
         /\ Fresh(w) => /\ w.is.secret \notin replaced /\ w.is.secret \notin old
                        /\ \A p \in Actors : \A v \in ask[p].writes :
                              Fresh(v) /\ v.is.secret = w.is.secret => p = q
  BY DEF AccessInv, SecretsApart
<1>9. DoorsTyped'
  <2>1. \A q \in Actors :
          /\ \A w \in ask'[q].writes : WriteFits(w)
          /\ \A t \in Tabs : IsFiniteSet(NewIn(t, ask'[q].writes))
    <3>. TAKE q \in Actors
    <3>1. CASE q = r  BY <3>1, <1>3, NoneInserted
    <3>2. CASE q # r  BY <3>2, <1>3 DEF AccessInv, DoorsTyped
    <3>. QED  BY <3>1, <3>2
  <2>2. replaced' \subseteq 1..issued'
    BY <1>1, <1>7 DEF AccessInv, DoorsTyped
  <2>. QED  BY <1>1, <1>3, <1>5, <2>1, <2>2 DEF AccessInv, DoorsTyped
<1>10. SecretsApart'
  <2>1. ASSUME NEW i \in Doors!In(acl'["key"])
        PROVE  /\ acl'["key"][i].secret \in 1..issued /\ acl'["key"][i].secret \notin replaced'
               /\ \A j \in Doors!In(acl'["key"]) : acl'["key"][i].secret = acl'["key"][j].secret => i = j
    <3>1. acl'["key"][i].secret \in cur  OBVIOUS
    <3>2. CASE i \in Doors!In(acl["key"]) /\ acl'["key"][i].secret = acl["key"][i].secret
      <4>1. acl'["key"][i].secret \in old  BY <3>2
      <4>2. ASSUME NEW j \in Doors!In(acl'["key"]), acl'["key"][i].secret = acl'["key"][j].secret
            PROVE  i = j
        BY <1>6, <1>7, <3>2, <4>2
      <4>. QED  BY <1>1, <1>7, <3>1, <4>1, <4>2
    <3>3. CASE \E w \in ask[r].writes :
                  /\ Fresh(w) /\ acl'["key"][i].secret = w.is.secret
                  /\ \A j \in Doors!In(acl'["key"]) : acl'["key"][j].secret = w.is.secret => j = i
      <4>1. PICK w \in ask[r].writes :
                  /\ Fresh(w) /\ acl'["key"][i].secret = w.is.secret
                  /\ \A j \in Doors!In(acl'["key"]) : acl'["key"][j].secret = w.is.secret => j = i
        BY <3>3
      <4>2. w.table = "key"  BY <4>1 DEF Fresh
      <4>3. w.is.secret \in 1..issued /\ w.is.secret \notin replaced  BY <1>8, <4>1, <4>2
      <4>. QED  BY <1>1, <3>1, <4>1, <4>3
    <3>. QED  BY <1>6, <3>2, <3>3
  <2>2. ASSUME NEW q \in Actors, NEW w \in ask'[q].writes
        PROVE  /\ w.table = "key" => ask'[q].writes = {w} /\ w.is.secret \in 1..issued
               /\ Fresh(w) =>
                     /\ w.is.secret \notin replaced'
                     /\ \A i \in Doors!In(acl'["key"]) : acl'["key"][i].secret # w.is.secret
                     /\ \A p \in Actors : \A v \in ask'[p].writes :
                           Fresh(v) /\ v.is.secret = w.is.secret => p = q
    <3>1. q # r /\ ask'[q] = ask[q] /\ w \in ask[q].writes  BY <1>3
    <3>2. w.table = "key" => ask'[q].writes = {w} /\ w.is.secret \in 1..issued
      BY <1>8, <3>1
    <3>3. ASSUME Fresh(w)
          PROVE  /\ w.is.secret \notin replaced'
                 /\ \A i \in Doors!In(acl'["key"]) : acl'["key"][i].secret # w.is.secret
                 /\ \A p \in Actors : \A v \in ask'[p].writes :
                       Fresh(v) /\ v.is.secret = w.is.secret => p = q
      <4>1. /\ w.is.secret \notin replaced /\ w.is.secret \notin old
            /\ \A p \in Actors : \A v \in ask[p].writes :
                  Fresh(v) /\ v.is.secret = w.is.secret => p = q
        BY <1>8, <3>1, <3>3
      <4>2. w.is.secret \notin replaced'  BY <1>1, <4>1
      <4>3. \A i \in Doors!In(acl'["key"]) : acl'["key"][i].secret # w.is.secret
        BY <1>6, <3>1, <4>1
      <4>4. \A p \in Actors : \A v \in ask'[p].writes :
               Fresh(v) /\ v.is.secret = w.is.secret => p = q
        BY <1>3, <4>1
      <4>. QED  BY <4>2, <4>3, <4>4
    <3>. QED  BY <3>2, <3>3
  <2>. QED  BY <1>1, <2>1, <2>2 DEF SecretsApart
<1>11. OneOfEach'
  BY <1>1 DEF AccessInv, OneOfEach, Doors!PrimaryKeys, Doors!Indexes
<1>12. ScopeStill'
  <2>1. ASSUME NEW q \in Actors, ask'[q].op = "replace_scope"
        PROVE  /\ ask'[q].goal \subseteq Doors!Target
               /\ ~crossed' => ask'[q].writes = Doors!ScopeWrites(ask[q].goal)'
    <3>1. q # r /\ ask'[q] = ask[q]  BY <2>1, <1>3
    <3>2. /\ ask[q].goal \subseteq Doors!Target
          /\ ~crossed => ask[q].writes = Doors!ScopeWrites(ask[q].goal)
      BY <2>1, <3>1 DEF AccessInv, ScopeStill
    <3>3. ASSUME ~crossed' PROVE ask'[q].writes = Doors!ScopeWrites(ask[q].goal)'
      <4>1. ask[q] # Doors!Resting  BY <2>1, <3>1 DEF Doors!Resting
      <4>2. acl' = acl /\ ~crossed  BY <1>1, <3>1, <3>3, <4>1
      <4>. QED  BY <3>1, <3>2, <4>2 DEF Doors!ScopeWrites, Doors!Turn, Doors!Rows
    <3>. QED  BY <3>1, <3>2, <3>3
  <2>. QED  BY <2>1 DEF ScopeStill
<1>. QED  BY <1>9, <1>10, <1>11, <1>12 DEF AccessInv

LEMMA DoorsStart == ASSUME Doors!Init PROVE AccessInv
<1>0. acl = [t \in Tabs |->
              [i \in KeyIds |->
                  CASE t = "role" /\ i = 1 -> [name |-> "Admin", live |-> TRUE]
                    [] t = "role" /\ i = 2 -> [name |-> "Staff", live |-> TRUE]
                    [] t = "permission" /\ i = 1 -> [live |-> TRUE]
                    [] t = "grant" /\ i = 1 -> [role |-> "Admin"]
                    [] OTHER -> Doors!NoRow]]
  BY TabsAre DEF Doors!Init
<1>1. /\ working = Companies \cup Areas
      /\ ask = [r \in Actors |-> Doors!Resting]
      /\ issued = 0 /\ crossed = FALSE /\ replaced = {}
  BY DEF Doors!Init
<1>2. /\ acl = [t \in Tabs |-> acl[t]]
      /\ \A t \in Tabs : acl[t] = [i \in KeyIds |-> acl[t][i]]
  BY <1>0
<1>11. ASSUME NEW t \in Tabs, NEW i \in KeyIds
       PROVE  \/ t = "role" /\ acl[t][i] \in Doors!RoleRow
              \/ t = "permission" /\ acl[t][i] \in Doors!PermissionRow
              \/ t = "grant" /\ i = 1 /\ acl[t][i] \in Doors!GrantRow
              \/ acl[t][i] = Doors!NoRow
  <2>. DEFINE x == acl[t][i]
  <2>2. CASE t = "role" /\ i = 1
    <3>1. x = [name |-> "Admin", live |-> TRUE]  BY <1>0, <2>2
    <3>. QED  BY <2>2, <3>1 DEF Doors!RoleRow, Doors!Roles, x
  <2>3. CASE t = "role" /\ i = 2
    <3>1. x = [name |-> "Staff", live |-> TRUE]  BY <1>0, <2>3
    <3>. QED  BY <2>3, <3>1 DEF Doors!RoleRow, Doors!Roles, x
  <2>4. CASE t = "permission" /\ i = 1
    <3>1. x = [live |-> TRUE]  BY <1>0, <2>4
    <3>. QED  BY <2>4, <3>1 DEF Doors!PermissionRow, x
  <2>5. CASE t = "grant" /\ i = 1
    <3>1. x = [role |-> "Admin"]  BY <1>0, <2>5
    <3>. QED  BY <2>5, <3>1 DEF Doors!GrantRow, Doors!Roles, x
  <2>6. CASE /\ ~(t = "role" /\ i = 1) /\ ~(t = "role" /\ i = 2)
             /\ ~(t = "permission" /\ i = 1) /\ ~(t = "grant" /\ i = 1)
    <3>1. x = Doors!NoRow  BY <1>0, <2>6, Zenon
    <3>. QED  BY <3>1 DEF x
  <2>. QED  BY <2>2, <2>3, <2>4, <2>5, <2>6
<1>3. ASSUME NEW t \in Tabs PROVE acl[t] \in [KeyIds -> Doors!RowOf[t] \cup {Doors!NoRow}]
  <2>1. \A i \in KeyIds : acl[t][i] \in Doors!RowOf[t] \cup {Doors!NoRow}
    BY <1>11, RowsOf
  <2>. QED  BY <1>2, <2>1
<1>4. Doors!In(acl["key"]) = {} /\ Doors!In(acl["link"]) = {} /\ Doors!In(acl["access"]) = {}
  <2>1. \A t \in {"key", "link", "access"} : \A i \in KeyIds : acl[t][i] = Doors!NoRow
    BY <1>11 DEF Tabs
  <2>2. \A t \in {"key", "link", "access"} : DOMAIN acl[t] = KeyIds
    BY <1>3 DEF Tabs
  <2>. QED  BY <2>1, <2>2 DEF Doors!In
<1>5. \A i, j \in Doors!In(acl["grant"]) : i = j
  <2>1. "grant" \in Tabs  BY DEF Tabs
  <2>2. \A i \in KeyIds : acl["grant"][i] # Doors!NoRow => i = 1
    BY <1>11, <2>1
  <2>3. DOMAIN acl["grant"] = KeyIds  BY <1>3, <2>1
  <2>. QED  BY <2>2, <2>3 DEF Doors!In
<1>6. OneOfEach
  BY <1>4, <1>5 DEF OneOfEach, Doors!PrimaryKeys, Doors!Indexes, Doors!UniqueBy
<1>7. \A r \in Actors : ask[r].writes = {} /\ ask[r].op = "idle"
  BY <1>1 DEF Doors!Resting
<1>8. DoorsTyped
  <2>1. acl = [t \in Tabs |-> acl[t]] /\ ask = [r \in Actors |-> ask[r]]  BY <1>1, <1>2
  <2>2. \A r \in Actors :
          /\ \A w \in ask[r].writes : WriteFits(w)
          /\ \A t \in Tabs : IsFiniteSet(NewIn(t, ask[r].writes))
    BY <1>7, NoneInserted
  <2>. QED  BY <1>1, <1>3, <2>1, <2>2 DEF DoorsTyped
<1>9. SecretsApart  BY <1>4, <1>7 DEF SecretsApart
<1>10. ScopeStill  BY <1>7 DEF ScopeStill
<1>. QED  BY <1>6, <1>8, <1>9, <1>10 DEF AccessInv

LEMMA DoorsStep == ASSUME AccessInv, Doors!Next PROVE AccessInv'
<1>1. CASE \E r \in Actors : Doors!Security(r) \/ Doors!ApiKeys(r) \/ Doors!Scope(r) \/ Doors!CommitAsk(r)
  BY <1>1, RolesKeep, KeysKeep, ScopesKeep, CommitKeeps
<1>2. CASE \E i \in KeyIds : Doors!Expire(i)  BY <1>2, ExpireKeeps
<1>3. CASE \E m \in Companies \cup Areas : Doors!SwitchMaster(m)  BY <1>3, MasterKeeps
<1>4. CASE UNCHANGED <<acl, working, ask, moves, crossed, replaced, issued>>
  <2>1. DoorsTyped' /\ SecretsApart' /\ OneOfEach'
    BY <1>4 DEF AccessInv, DoorsTyped, SecretsApart, OneOfEach, Doors!PrimaryKeys, Doors!Indexes
  <2>2. ScopeStill'  BY <1>4, StillStill DEF AccessInv
  <2>. QED  BY <2>1, <2>2 DEF AccessInv
<1>. QED  BY <1>1, <1>2, <1>3, <1>4 DEF Doors!Next, Doors!accessVars

\* In the behaviours of the other modules users, roles and keys stay where they begin.
LEMMA AccessHolds == RecordsSpec => []AccessInv
<1>1. RecordsInit => AccessInv
  BY DoorsStart DEF RecordsInit
<1>2. AccessInv /\ [RecordsNext]_recordVars => AccessInv'
  <2>1. [RecordsNext]_recordVars => Doors!Next \/ UNCHANGED accessVars
    BY DEF RecordsNext, CatalogNext, AccessNext, LedgerNext, recordVars
  <2>2. AccessInv /\ UNCHANGED accessVars => AccessInv'
    <3>. SUFFICES ASSUME AccessInv, UNCHANGED accessVars PROVE AccessInv'
      OBVIOUS
    <3>1. UNCHANGED <<acl, working, ask, moves, crossed, replaced, issued>>
      BY DEF accessVars
    <3>2. DoorsTyped' /\ SecretsApart' /\ OneOfEach'
      BY <3>1 DEF AccessInv, DoorsTyped, SecretsApart, OneOfEach, Doors!PrimaryKeys, Doors!Indexes
    <3>3. ScopeStill'  BY <3>1, StillStill DEF AccessInv
    <3>. QED  BY <3>2, <3>3 DEF AccessInv
  <2>. QED  BY <2>1, <2>2, DoorsStep
<1>. QED  BY <1>1, <1>2, PTL DEF RecordsSpec

LEMMA AccessIsTyped == AccessInv => Doors!TypeOK
<1>. SUFFICES ASSUME AccessInv PROVE Doors!TypeOK
  OBVIOUS
<1>1. \A t \in Tabs : \A i \in Doors!In(acl[t]) : acl[t][i] \in Doors!RowOf[t]
  BY TablesHold DEF AccessInv
<1>. QED  BY <1>1, TabsAre DEF AccessInv, DoorsTyped, Doors!TypeOK

LEMMA OneRowEach == AccessInv => Doors!OneRowPerAccess
  BY DEF AccessInv, OneOfEach, Doors!Indexes, Doors!UniqueBy, Doors!OneRowPerAccess

\* Only the row that has a secret opens with it, and no row has one put out of use.
LEMMA SecretsDie == AccessInv => Doors!DeadSecrets
<1>. SUFFICES ASSUME AccessInv PROVE Doors!DeadSecrets
  OBVIOUS
<1>1. \A i \in Doors!In(acl["key"]) :
        /\ acl["key"][i].secret \notin replaced
        /\ \A j \in Doors!In(acl["key"]) : acl["key"][i].secret = acl["key"][j].secret => i = j
  BY DEF AccessInv, SecretsApart
<1>2. \A s : Doors!Accepts(s) => \E i \in Doors!In(acl["key"]) :
          acl["key"][i].secret = s /\ acl["key"][i].live /\ ~acl["key"][i].expired
  BY DEF Doors!Accepts, Doors!Rows
<1>. QED  BY <1>1, <1>2 DEF Doors!DeadSecrets

LEMMA GatesAreOne == Doors!GatesAgree
  BY DEF Doors!GatesAgree, Doors!Checker, Doors!AnyChecker, Doors!Me

\* The scope of requests, of lists and of the forms is read off the same accesses.
LEMMA ScopeIsOne == AccessInv => Doors!ScopeSurfacesAgree
<1>. SUFFICES ASSUME AccessInv, NEW c \in Companies, NEW a \in Areas
              PROVE  /\ Doors!Allows(c, a) <=> Doors!Listed(c, a)
                     /\ c \in working /\ a \in working =>
                           (Doors!Allows(c, a) <=> c \in DOMAIN Doors!Detail /\ a \in Doors!Detail[c])
  BY DEF Doors!ScopeSurfacesAgree
<1>1. \A g \in Doors!Granted : g \in Doors!Target /\ g = <<g[1], g[2]>>
  <2>1. \A i \in Doors!In(acl["access"]) : acl["access"][i].target \in Doors!Target
    <3>1. \A i \in Doors!In(acl["access"]) : acl["access"][i] \in Doors!AccessRow
      BY TablesHold, RowsOf DEF AccessInv, Tabs
    <3>. QED  BY <3>1 DEF Doors!AccessRow
  <2>2. \A g \in Doors!Granted : g \in Doors!Target  BY <2>1 DEF Doors!Granted, Doors!Rows
  <2>. QED  BY <2>2 DEF Doors!Target
<1>2. All \notin Areas /\ a # All  BY KeysCount
<1>3. Doors!Allows(c, a) <=> <<c, All>> \in Doors!Granted \/ <<c, a>> \in Doors!Granted
  BY <1>2 DEF Doors!Allows, Doors!Whole, Doors!Pairs
<1>4. Doors!Allows(c, a) <=> Doors!Listed(c, a)
  <2>1. \A t \in Doors!Pairs : t = <<t[1], t[2]>>  BY <1>1 DEF Doors!Pairs
  <2>. QED  BY <2>1 DEF Doors!Allows, Doors!Listed, Doors!ScopeEmpty
<1>5. ASSUME c \in working, a \in working
      PROVE  Doors!Allows(c, a) <=> c \in DOMAIN Doors!Detail /\ a \in Doors!Detail[c]
  <2>1. c \in DOMAIN Doors!Detail <=> \E g \in Doors!Granted : g[1] = c
    BY <1>5 DEF Doors!Detail
  <2>2. c \in DOMAIN Doors!Detail =>
          (a \in Doors!Detail[c] <=> <<c, All>> \in Doors!Granted \/ <<c, a>> \in Doors!Granted)
    <3>. SUFFICES ASSUME c \in DOMAIN Doors!Detail
                  PROVE  a \in Doors!Detail[c] <=> <<c, All>> \in Doors!Granted \/ <<c, a>> \in Doors!Granted
      OBVIOUS
    <3>1. Doors!Detail[c] = IF <<c, All>> \in Doors!Granted THEN Areas \cap working
                      ELSE {t[2] : t \in {g \in Doors!Granted : g[1] = c}} \cap working
      BY DEF Doors!Detail
    <3>2. a \in {t[2] : t \in {g \in Doors!Granted : g[1] = c}} <=> <<c, a>> \in Doors!Granted
      BY <1>1
    <3>. QED  BY <1>5, <3>1, <3>2
  <2>3. <<c, All>> \in Doors!Granted \/ <<c, a>> \in Doors!Granted => \E g \in Doors!Granted : g[1] = c
    OBVIOUS
  <2>. QED  BY <1>3, <2>1, <2>2, <2>3
<1>. QED  BY <1>4, <1>5

-----------------------------------------------------------------------------
(* The accesses a replacement leaves.                                        *)

\* Every access of the user has an identifier of its own, and one is left for
\* each access that may still be added.
LEMMA RoomForScope ==
    ASSUME AccessInv, NEW goal \in SUBSET Doors!Target, NEW new, Distinct(new),
           \A w \in new : /\ w.is.target \in goal \ {x.target : x \in Doors!Rows("access")}
                          /\ w.is = [target |-> w.is.target, live |-> TRUE]
    PROVE  Cardinality(new) <= Cardinality(KeyIds \ Doors!In(acl["access"]))
<1>. DEFINE table == acl["access"]
            had == {x.target : x \in Doors!Rows("access")}
            f == [w \in new |-> w.is.target]
            h == [i \in Doors!In(table) |-> table[i].target]
<1>1. /\ Doors!In(table) \subseteq KeyIds
      /\ \A i \in Doors!In(table) : table[i].target \in Doors!Target
      /\ \A i, j \in Doors!In(table) : table[i].target = table[j].target => i = j
  <2>1. \A i \in Doors!In(table) : table[i] \in Doors!AccessRow
    BY TablesHold, RowsOf DEF AccessInv, Tabs
  <2>2. "access" \in Tabs  BY DEF Tabs
  <2>3. Doors!In(table) \subseteq KeyIds  BY <2>2, TablesHold DEF AccessInv
  <2>. QED  BY <2>1, <2>3 DEF Doors!AccessRow, AccessInv, OneOfEach, Doors!Indexes, Doors!UniqueBy
<1>2. had = {table[i].target : i \in Doors!In(table)}
  BY DEF Doors!Rows
<1>3. IsFiniteSet(KeyIds) /\ IsFiniteSet(Doors!Target) /\ Cardinality(Doors!Target) <= Cardinality(KeyIds)
  BY KeysCount
<1>. HIDE DEF table, had
<1>4. had \subseteq Doors!Target  BY <1>1, <1>2
<1>5. /\ IsFiniteSet(Doors!In(table)) /\ IsFiniteSet(had) /\ IsFiniteSet(Doors!Target \ had)
      /\ IsFiniteSet(goal \ had)
  BY <1>1, <1>3, <1>4, FS_Subset
<1>6. Cardinality(Doors!In(table)) <= Cardinality(had)
  <2>1. h = [i \in Doors!In(table) |-> h[i]] /\ \A i \in Doors!In(table) : h[i] = table[i].target
    OBVIOUS
  <2>2. \A i \in Doors!In(table) : h[i] \in had  BY <1>2, <2>1
  <2>3. \A i, j \in Doors!In(table) : h[i] = h[j] => i = j  BY <1>1, <2>1
  <2>. HIDE DEF h
  <2>. QED  BY <1>5, <2>1, <2>2, <2>3, Injected
<1>7. IsFiniteSet(new) /\ Cardinality(new) <= Cardinality(goal \ had)
  <2>1. f = [w \in new |-> f[w]] /\ \A w \in new : f[w] = w.is.target
    OBVIOUS
  <2>2. \A w \in new : f[w] \in goal \ had  BY <2>1 DEF had
  <2>3. \A w, v \in new : f[w] = f[v] => w = v
    <3>. TAKE w, v \in new
    <3>1. w.is = [target |-> w.is.target, live |-> TRUE] /\ v.is = [target |-> v.is.target, live |-> TRUE]
      OBVIOUS
    <3>. QED  BY <2>1, <3>1 DEF Distinct
  <2>. HIDE DEF f
  <2>. QED  BY <1>5, <2>1, <2>2, <2>3, Injected
<1>8. Cardinality(goal \ had) <= Cardinality(Doors!Target \ had)
  <2>1. (goal \ had) \in SUBSET (Doors!Target \ had)  OBVIOUS
  <2>. QED  BY <1>5, <2>1, FS_Subset
<1>9. Cardinality(Doors!Target \ had) = Cardinality(Doors!Target) - Cardinality(had)
  <2>1. Doors!Target \cap had = had  BY <1>4
  <2>. QED  BY <1>3, <2>1, FS_Difference
<1>10. Cardinality(KeyIds \ Doors!In(table)) = Cardinality(KeyIds) - Cardinality(Doors!In(table))
  <2>1. KeyIds \cap Doors!In(table) = Doors!In(table)  BY <1>1
  <2>. QED  BY <1>3, <2>1, FS_Difference
<1>11. /\ Cardinality(KeyIds) \in Nat /\ Cardinality(Doors!Target) \in Nat
       /\ Cardinality(had) \in Nat /\ Cardinality(Doors!In(table)) \in Nat
  BY <1>3, <1>5, FS_CardinalityType
<1>12. Cardinality(new) \in Nat /\ Cardinality(goal \ had) \in Nat
  BY <1>5, <1>7, FS_CardinalityType
<1>. QED  BY <1>3, <1>6, <1>7, <1>8, <1>9, <1>10, <1>11, <1>12 DEF table

\* The writes of a replacement, and what their commit leaves of the accesses.
LEMMA ScopeAfter ==
    ASSUME AccessInv, NEW goal \in SUBSET Doors!Target, NEW after,
           CommitLeaves(after, "access", acl["access"], Doors!ScopeWrites(goal))
    PROVE  /\ \A i \in Doors!In(acl["access"]) :
                 /\ i \in Doors!In(after) /\ after[i].target = acl["access"][i].target
                 /\ after[i].live = (acl["access"][i].target \in goal)
           /\ \A i \in Doors!In(after) \ Doors!In(acl["access"]) :
                 /\ after[i].target \in goal /\ after[i].live = TRUE
           /\ \A t \in goal :
                 \/ \E i \in Doors!In(acl["access"]) : acl["access"][i].target = t
                 \/ \E i \in Doors!In(after) : after[i].target = t
           /\ \A i, j \in Doors!In(after) : after[i].target = after[j].target => i = j
<1>. DEFINE table == acl["access"]
            had == {x.target : x \in Doors!Rows("access")}
            turn(i) == Doors!Turn("access", i, table[i].target \in goal)
            put(t) == Doors!Insert("access", [target |-> t, live |-> TRUE])
            new == NewIn("access", Doors!ScopeWrites(goal))
<1>0. /\ \A i \in Doors!In(table) : table[i] \in Doors!AccessRow /\ i \in KeyIds \ {0}
      /\ Doors!In(table) \subseteq KeyIds
      /\ \A i, j \in Doors!In(table) : table[i].target = table[j].target => i = j
  <2>1. "access" \in Tabs  BY DEF Tabs
  <2>2. \A i \in Doors!In(table) : table[i] \in Doors!AccessRow /\ i \in KeyIds
    BY <2>1, TablesHold, RowsOf DEF AccessInv
  <2>. QED  BY <2>1, <2>2, TablesHold, KeysCount DEF AccessInv, OneOfEach, Doors!Indexes, Doors!UniqueBy
<1>1. had = {table[i].target : i \in Doors!In(table)}
  BY DEF Doors!Rows
<1>2. Doors!ScopeWrites(goal) = {turn(i) : i \in Doors!In(table)} \cup {put(t) : t \in goal \ had}
  BY DEF Doors!ScopeWrites
<1>3. \A i \in Doors!In(table) : turn(i) = [table |-> "access", id |-> i, was |-> table[i],
                                 is |-> [table[i] EXCEPT !.live = (table[i].target \in goal)]]
  BY DEF Doors!Turn, Doors!Update
<1>4. \A t : put(t) = [table |-> "access", id |-> 0, was |-> Doors!NoRow,
                       is |-> [target |-> t, live |-> TRUE]]
  BY DEF Doors!Insert
<1>. HIDE DEF table, turn, put, had
<1>5. \A w \in new : \E t \in goal \ had : w = put(t)
  <2>1. \A i \in Doors!In(table) : turn(i).id # 0  BY <1>0, <1>3
  <2>. QED  BY <1>2, <2>1 DEF NewIn
<1>6. \A t \in goal \ had : put(t) \in new
  BY <1>2, <1>4 DEF NewIn
<1>7. \A i \in Doors!In(table) : Mine("access", i, Doors!ScopeWrites(goal)) = {turn(i)}
  <2>. TAKE i \in Doors!In(table)
  <2>1. turn(i) \in Mine("access", i, Doors!ScopeWrites(goal))
    BY <1>2, <1>3 DEF Mine
  <2>2. ASSUME NEW w \in Mine("access", i, Doors!ScopeWrites(goal)) PROVE w = turn(i)
    <3>1. w \in Doors!ScopeWrites(goal) /\ w.id = i  BY DEF Mine
    <3>2. CASE \E j \in Doors!In(table) : w = turn(j)  BY <3>1, <3>2, <1>3
    <3>3. CASE \E t \in goal \ had : w = put(t)  BY <3>1, <3>3, <1>0, <1>4
    <3>. QED  BY <3>1, <3>2, <3>3, <1>2
  <2>. QED  BY <2>1, <2>2
<1>8. ASSUME NEW i \in Doors!In(table)
      PROVE  Doors!Changed(table[i], turn(i)) = [table[i] EXCEPT !.live = (table[i].target \in goal)]
  <2>. DEFINE rec == table[i]
              is == [rec EXCEPT !.live = (rec.target \in goal)]
  <2>1. Doors!Changed(rec, turn(i)) = [c \in DOMAIN rec |-> IF is[c] # rec[c] THEN is[c] ELSE rec[c]]
    BY <1>3 DEF Doors!Changed
  <2>2. is = [c \in DOMAIN rec |-> is[c]]
    BY <1>0 DEF Doors!AccessRow
  <2>3. [c \in DOMAIN rec |-> IF is[c] # rec[c] THEN is[c] ELSE rec[c]] = [c \in DOMAIN rec |-> is[c]]
    <3>. HIDE DEF is, rec
    <3>. QED  OBVIOUS
  <2>. QED  BY <2>1, <2>2, <2>3
<1>9. /\ after \in [KeyIds -> Doors!RowOf["access"] \cup {Doors!NoRow}]
      /\ Doors!In(table) \subseteq Doors!In(after)
      /\ \A i \in Doors!In(table) : \E w \in {turn(i)} : after[i] = Doors!Changed(table[i], w)
      /\ \A i \in KeyIds \ Doors!In(table) : after[i] = Doors!NoRow \/ \E w \in new : after[i] = w.is
      /\ Distinct(new) =>
            \A i, j \in KeyIds \ Doors!In(table) : after[i] = after[j] => i = j \/ after[i] = Doors!NoRow
      /\ Cardinality(new) <= Cardinality(KeyIds \ Doors!In(table))
            => \A w \in new : \E i \in KeyIds \ Doors!In(table) : after[i] = w.is
  BY <1>7 DEF CommitLeaves, table
<1>. HIDE DEF new
<1>10. Distinct(new)
  <2>. SUFFICES ASSUME NEW w \in new, NEW v \in new, w.is = v.is PROVE w = v
    BY DEF Distinct
  <2>1. PICK s \in goal \ had, t \in goal \ had : w = put(s) /\ v = put(t)
    BY <1>5
  <2>. QED  BY <2>1, <1>4
<1>11. /\ DOMAIN after = KeyIds /\ Doors!In(after) \subseteq KeyIds
       /\ \A i \in KeyIds : i \in Doors!In(after) <=> after[i] # Doors!NoRow
  <2>1. DOMAIN after = KeyIds  BY <1>9
  <2>. QED  BY <2>1 DEF Doors!In
<1>12. ASSUME NEW i \in Doors!In(table)
       PROVE  /\ i \in Doors!In(after) /\ after[i].target = table[i].target
              /\ after[i].live = (table[i].target \in goal)
  <2>1. after[i] = [table[i] EXCEPT !.live = (table[i].target \in goal)]  BY <1>8, <1>9
  <2>. QED  BY <2>1, <1>0, <1>9 DEF Doors!AccessRow
<1>13. ASSUME NEW i \in Doors!In(after) \ Doors!In(table)
       PROVE  /\ after[i].target \in goal \ had /\ after[i].live = TRUE
              /\ after[i] = [target |-> after[i].target, live |-> TRUE]
  <2>1. PICK w \in new : after[i] = w.is  BY <1>9, <1>11
  <2>2. PICK t \in goal \ had : w = put(t)  BY <1>5
  <2>3. after[i] = [target |-> t, live |-> TRUE]  BY <2>1, <2>2, <1>4
  <2>4. after[i].target = t /\ after[i].live = TRUE  BY <2>3
  <2>. QED  BY <2>3, <2>4
<1>14. \A w \in new : \E i \in KeyIds \ Doors!In(table) : after[i] = w.is
  <2>1. ASSUME NEW w \in new
        PROVE  /\ w.is.target \in goal \ had
               /\ w.is = [target |-> w.is.target, live |-> TRUE]
    <3>1. PICK t \in goal \ had : w = put(t)  BY <1>5
    <3>2. w.is = [target |-> t, live |-> TRUE]  BY <3>1, <1>4
    <3>3. w.is.target = t  BY <3>2
    <3>. QED  BY <3>2, <3>3
  <2>2. Cardinality(new) <= Cardinality(KeyIds \ Doors!In(table))
    BY <2>1, <1>10, RoomForScope DEF table, had
  <2>. QED  BY <2>2, <1>9
<1>15. ASSUME NEW t \in goal \ had PROVE \E i \in Doors!In(after) : after[i].target = t
  <2>1. PICK i \in KeyIds \ Doors!In(table) : after[i] = put(t).is  BY <1>6, <1>14
  <2>2. after[i] = [target |-> t, live |-> TRUE]  BY <2>1, <1>4
  <2>3. after[i] # Doors!NoRow
    <3>1. "access" \in Tabs /\ after[i] \in Doors!RowOf["access"]
      BY <2>2, RowsOf DEF Tabs, Doors!AccessRow
    <3>. QED  BY <3>1, NoRowIsNone
  <2>. QED  BY <2>2, <2>3, <1>11
<1>16. ASSUME NEW i \in Doors!In(after), NEW j \in Doors!In(after), after[i].target = after[j].target
       PROVE  i = j
  <2>1. CASE i \in Doors!In(table) /\ j \in Doors!In(table)  BY <2>1, <1>0, <1>12, <1>16
  <2>2. CASE i \notin Doors!In(table) /\ j \notin Doors!In(table)
    <3>1. /\ after[i] = [target |-> after[i].target, live |-> TRUE]
          /\ after[j] = [target |-> after[j].target, live |-> TRUE]
      BY <2>2, <1>13
    <3>2. after[i] = after[j] /\ after[i] # Doors!NoRow  BY <3>1, <1>11, <1>16
    <3>. QED  BY <2>2, <3>2, <1>9, <1>10, <1>11
  <2>0. \A k \in Doors!In(table) : after[k].target \in had  BY <1>1, <1>12
  <2>3. CASE i \in Doors!In(table) /\ j \notin Doors!In(table)  BY <2>0, <2>3, <1>13, <1>16
  <2>4. CASE i \notin Doors!In(table) /\ j \in Doors!In(table)  BY <2>0, <2>4, <1>13, <1>16
  <2>. QED  BY <2>1, <2>2, <2>3, <2>4
<1>17. \A i \in Doors!In(after) \ Doors!In(table) : after[i].target \in goal \ had /\ after[i].live = TRUE
  BY <1>13
<1>18. \A t \in goal : t \in had \/ \E i \in Doors!In(after) : after[i].target = t
  BY <1>15
<1>. QED  BY <1>1, <1>12, <1>16, <1>17, <1>18 DEF table

\* The rows change as time goes by or when a request commits, and only its commit
\* ends a request.
LEMMA OnlyCommits ==
    ASSUME AccessInv, Doors!Next
    PROVE  \/ /\ acl' = acl
              /\ \A r \in Actors : ask[r] # Doors!Resting => ask'[r] = ask[r]
           \/ \E i \in KeyIds : Doors!Expire(i)
           \/ \E r \in Actors : Doors!CommitAsk(r)
<1>1. ASSUME NEW r \in Actors, NEW op, NEW writes, NEW goal, Doors!AskFor(r, op, writes, goal)
      PROVE  /\ acl' = acl
             /\ \A q \in Actors : ask[q] # Doors!Resting => ask'[q] = ask[q]
  <2>1. ask = [q \in Actors |-> ask[q]]  BY DEF AccessInv, DoorsTyped
  <2>. QED  BY <1>1, <2>1 DEF Doors!AskFor
<1>2. ASSUME NEW r \in Actors, Doors!Security(r) \/ Doors!ApiKeys(r) \/ Doors!Scope(r)
      PROVE  \E op, writes, goal : Doors!AskFor(r, op, writes, goal)
  <2>1. CASE Doors!Security(r)
    BY <2>1 DEF Doors!Security, Doors!AssignRole, Doors!GrantPermission, Doors!RemoveRole, Doors!RevokePermission,
                Doors!SwitchRow, Doors!Ask
  <2>2. CASE Doors!ApiKeys(r)
    BY <2>2 DEF Doors!ApiKeys, Doors!CreateKey, Doors!RotateKey, Doors!DeactivateKey, Doors!UpdateKey, Doors!Ask
  <2>3. CASE Doors!Scope(r)
    BY <2>3 DEF Doors!Scope, Doors!AssignAccess, Doors!ReplaceScope, Doors!SetAccessActive, Doors!Ask
  <2>. QED  BY <1>2, <2>1, <2>2, <2>3
<1>3. ASSUME NEW m, Doors!SwitchMaster(m) PROVE acl' = acl /\ ask' = ask
  BY <1>3 DEF Doors!SwitchMaster
<1>4. CASE UNCHANGED <<acl, working, ask, moves, crossed, replaced, issued>>
  BY <1>4
<1>. QED  BY <1>1, <1>2, <1>3, <1>4 DEF Doors!Next, Doors!accessVars

LEMMA OnlyHisCommit ==
    ASSUME AccessInv, NEW r \in Actors, Doors!CommitAsk(r)
    PROVE  ask'[r] = Doors!Resting /\ \A q \in Actors \ {r} : ask'[q] = ask[q]
<1>1. ask = [q \in Actors |-> ask[q]]  BY DEF AccessInv, DoorsTyped
<1>2. ask' = [ask EXCEPT ![r] = Doors!Resting]  BY DEF Doors!CommitAsk
<1>. QED  BY <1>1, <1>2

\* A row is active again only by a request that had read it inactive.
LEMMA NothingRevives ==
    ASSUME AccessInv, Doors!Next
    PROVE  Doors!Reactivated
<1>. SUFFICES ASSUME NEW t \in {"key", "link", "access"}, NEW i \in Doors!In(acl[t]),
                     i \in Doors!In(acl'[t]), ~acl[t][i].live, acl'[t][i].live
              PROVE  \E r \in Actors : \E w \in ask[r].writes :
                        ask'[r] = Doors!Resting /\ w.table = t /\ w.id = i /\ ~w.was.live
  BY DEF Doors!Reactivated
<1>0. t \in Tabs /\ acl = [s \in Tabs |-> acl[s]] /\ DoorsTyped
  BY DEF Tabs, AccessInv, DoorsTyped
<1>1. acl[t][i] \in Doors!RowOf[t] /\ i \in KeyIds /\ i # 0
  BY <1>0, TablesHold
<1>2. \A x \in Doors!RowOf[t] : "live" \in DOMAIN x /\ x.live \in BOOLEAN
  <2>1. CASE t = "key"  BY <2>1, RowsOf DEF Doors!KeyRow
  <2>2. CASE t = "link"  BY <2>2, RowsOf DEF Doors!LinkRow
  <2>3. CASE t = "access"  BY <2>3, RowsOf DEF Doors!AccessRow
  <2>. QED  BY <2>1, <2>2, <2>3
<1>3. ASSUME NEW k \in KeyIds, Doors!Expire(k) PROVE FALSE
  <2>1. acl' = [acl EXCEPT !["key"][k].expired = TRUE]  BY <1>3 DEF Doors!Expire
  <2>2. acl'[t][i].live = acl[t][i].live
    <3>1. CASE t = "key" /\ i = k
      <4>1. acl["key"] \in [KeyIds -> Doors!RowOf["key"] \cup {Doors!NoRow}]  BY <1>0 DEF DoorsTyped, Tabs
      <4>2. acl'[t][i] = [acl[t][i] EXCEPT !.expired = TRUE]
        BY <1>0, <1>1, <2>1, <3>1, <4>1
      <4>3. acl[t][i] \in Doors!KeyRow  BY <1>1, <3>1, RowsOf
      <4>. QED  BY <4>2, <4>3 DEF Doors!KeyRow
    <3>2. CASE ~(t = "key" /\ i = k)
      <4>1. acl["key"] \in [KeyIds -> Doors!RowOf["key"] \cup {Doors!NoRow}]  BY <1>0 DEF DoorsTyped, Tabs
      <4>2. acl'[t][i] = acl[t][i]  BY <1>0, <1>1, <2>1, <3>2, <4>1
      <4>. QED  BY <4>2
    <3>. QED  BY <3>1, <3>2
  <2>. QED  BY <2>2
<1>4. ASSUME NEW r \in Actors, Doors!CommitAsk(r)
      PROVE  \E w \in ask[r].writes : w.table = t /\ w.id = i /\ ~w.was.live
  <2>. DEFINE after == Committed(r)[t]
  <2>1. /\ acl' = acl \/ acl'[t] = after
        /\ CommitLeaves(after, t, acl[t], ask[r].writes)
    BY <1>0, <1>4, CommitIs
  <2>. HIDE DEF after
  <2>2. acl'[t] = after  BY <2>1
  <2>3. Mine(t, i, ask[r].writes) # {}  BY <2>1, <2>2 DEF CommitLeaves
  <2>4. PICK w \in Mine(t, i, ask[r].writes) : after[i] = Doors!Changed(acl[t][i], w)
    BY <2>1, <2>3 DEF CommitLeaves
  <2>5. w \in ask[r].writes /\ w.table = t /\ w.id = i /\ WriteFits(w)
    BY <1>0 DEF Mine, DoorsTyped
  <2>6. w.was.live \in BOOLEAN
    BY <1>1, <1>2, <2>5 DEF WriteFits
  <2>7. Doors!Changed(acl[t][i], w).live =
          IF w.is.live # w.was.live THEN w.is.live ELSE acl[t][i].live
    BY <1>1, <1>2 DEF Doors!Changed
  <2>8. w.is.live # w.was.live /\ w.is.live
    BY <2>2, <2>4, <2>7
  <2>9. w.is.live \in BOOLEAN
    BY <1>1, <1>2, <2>5 DEF WriteFits
  <2>. QED  BY <2>5, <2>6, <2>8, <2>9
<1>5. ~(acl' = acl)  OBVIOUS
<1>6. PICK r \in Actors : Doors!CommitAsk(r)  BY <1>3, <1>5, OnlyCommits
<1>. QED  BY <1>4, <1>6, OnlyHisCommit

\* A table none of the writes is about stays as it is.
LEMMA OthersStay ==
    ASSUME AccessInv, NEW t \in Tabs, NEW after, NEW writes,
           CommitLeaves(after, t, acl[t], writes), \A w \in writes : w.table # t
    PROVE  after = acl[t]
<1>1. acl[t] \in [KeyIds -> Doors!RowOf[t] \cup {Doors!NoRow}] /\ \A i \in KeyIds : i \in Doors!In(acl[t]) <=> acl[t][i] # Doors!NoRow
  BY TablesHold DEF AccessInv
<1>2. after \in [KeyIds -> Doors!RowOf[t] \cup {Doors!NoRow}]
  BY DEF CommitLeaves
<1>3. \A i \in Doors!In(acl[t]) : after[i] = acl[t][i]
  BY DEF CommitLeaves, Mine
<1>4. \A i \in KeyIds \ Doors!In(acl[t]) : after[i] = Doors!NoRow
  BY DEF CommitLeaves, NewIn
<1>5. \A i \in KeyIds : after[i] = acl[t][i]  BY <1>1, <1>3, <1>4
<1>. QED  BY <1>1, <1>2, <1>5

\* A replacement that nothing crosses cannot fail, and leaves what it was given.
LEMMA ScopeIsReplaced ==
    ASSUME AccessInv, Doors!Next
    PROVE  Doors!Replaced
<1>. SUFFICES ASSUME NEW r \in Actors, ask[r].op = "replace_scope",
                     ask'[r] = Doors!Resting, ~crossed'
              PROVE  ask[r].goal = {acl'["access"][i].target :
                             i \in {k \in Doors!In(acl'["access"]) : acl'["access"][k].live}}
  BY DEF Doors!Replaced
<1>. DEFINE goal == ask[r].goal
            after == Committed(r)
            table == acl["access"]
<1>1. ask[r] # Doors!Resting  BY DEF Doors!Resting
<1>2. Doors!CommitAsk(r)
  <2>1. \A i \in KeyIds : Doors!Expire(i) => ask' = ask  BY DEF Doors!Expire
  <2>2. ~(ask'[r] = ask[r])  BY <1>1
  <2>. QED  BY <1>1, <2>1, <2>2, OnlyCommits, OnlyHisCommit
<1>3. ~crossed  BY <1>2, CommitIs
<1>4. goal \in SUBSET Doors!Target /\ ask[r].writes = Doors!ScopeWrites(goal)
  BY <1>3 DEF AccessInv, ScopeStill
<1>5. \A t \in Tabs : CommitLeaves(after[t], t, acl[t], Doors!ScopeWrites(goal))
  BY <1>2, <1>4, CommitIs
<1>. HIDE DEF goal, after
<1>6. CommitLeaves(after["access"], "access", table, Doors!ScopeWrites(goal))
  BY <1>5 DEF Tabs
<1>7. after["link"] = acl["link"] /\ after["grant"] = acl["grant"]
  <2>1. \A w \in Doors!ScopeWrites(goal) : w.table = "access"
    BY <1>4, ScopeFits DEF AccessInv
  <2>2. {"link", "grant"} \subseteq Tabs  BY DEF Tabs
  <2>. QED  BY <1>5, <2>1, <2>2, OthersStay
<1>8. acl' = after
  <2>1. acl = [t \in Tabs |-> acl[t]]  BY DEF AccessInv, DoorsTyped
  <2>2. acl' = IF Doors!PrimaryKeys(Committed(r)) /\ Doors!Indexes(Committed(r)["access"])
               THEN Committed(r) ELSE acl
    BY <1>2, <2>1 DEF Doors!CommitAsk, Committed
  <2>3. Doors!PrimaryKeys(after)
    BY <1>7 DEF AccessInv, OneOfEach, Doors!PrimaryKeys
  <2>4. Doors!Indexes(after["access"])
    BY <1>4, <1>6, ScopeAfter DEF Doors!Indexes, Doors!UniqueBy
  <2>. QED  BY <2>2, <2>3, <2>4 DEF after
<1>. DEFINE accesses == after["access"]
<1>0. CommitLeaves(accesses, "access", acl["access"], Doors!ScopeWrites(goal))
  BY <1>6
<1>. HIDE DEF accesses
<1>9. /\ \A i \in Doors!In(table) :
            /\ i \in Doors!In(accesses) /\ accesses[i].target = table[i].target
            /\ accesses[i].live = (table[i].target \in goal)
      /\ \A i \in Doors!In(accesses) \ Doors!In(table) :
            /\ accesses[i].target \in goal /\ accesses[i].live = TRUE
  BY <1>0, <1>4, ScopeAfter
<1>10. \A t \in goal :
         \/ \E i \in Doors!In(acl["access"]) : acl["access"][i].target = t
         \/ \E i \in Doors!In(accesses) : accesses[i].target = t
  BY <1>0, <1>4, ScopeAfter, Zenon
<1>11. ASSUME NEW t \in goal
       PROVE  \E i \in Doors!In(accesses) : accesses[i].live /\ accesses[i].target = t
  <2>1. CASE \E i \in Doors!In(table) : table[i].target = t  BY <1>9, <2>1
  <2>2. CASE t \notin {table[i].target : i \in Doors!In(table)}
    <3>1. \E i \in Doors!In(accesses) : accesses[i].target = t
      <4>1. ~\E i \in Doors!In(acl["access"]) : acl["access"][i].target = t  BY <2>2
      <4>. QED  BY <1>10, <4>1
    <3>2. PICK i \in Doors!In(accesses) : accesses[i].target = t  BY <3>1
    <3>3. i \notin Doors!In(table)  BY <1>9, <2>2, <3>2
    <3>. QED  BY <1>9, <3>2, <3>3
  <2>. QED  BY <2>1, <2>2
<1>12. ASSUME NEW i \in Doors!In(accesses), accesses[i].live
       PROVE  accesses[i].target \in goal
  BY <1>9, <1>12
<1>. QED  BY <1>8, <1>11, <1>12 DEF goal, accesses

(***************************************************************************)
(* A replaced, expired or inactive secret opens nothing, whatever           *)
(* rotations, updates and deactivations overlap (api_keys_service.py): for  *)
(* any number of keys and requests in flight.                              *)
(***************************************************************************)
THEOREM DeadSecretsStayDead == RecordsSpec => []DeadSecrets
<1>1. AccessInv => DeadSecrets
  BY SecretsDie DEF DeadSecrets
<1>. QED  BY <1>1, AccessHolds, PTL

(***************************************************************************)
(* A request that read a row before its deactivation does not undo it: only *)
(* one that had read it inactive turns it on.  And a replacement of the     *)
(* scope that no other commit crosses goes through, its accesses find an    *)
(* identifier and violate no constraint, and leaves exactly what it was     *)
(* given (user_scope_service.py, replace_user_scope).                       *)
(***************************************************************************)
THEOREM RightsAreAsSet == RecordsSpec => RightsStayAsSet
<1>1. AccessInv /\ [RecordsNext]_recordVars =>
        [whose = "access" => Doors!Reactivated /\ Doors!Replaced]_recordVars
  <2>. SUFFICES ASSUME AccessInv, RecordsNext, whose = "access"
                PROVE  Doors!Reactivated /\ Doors!Replaced
    OBVIOUS
  <2>1. Doors!Next  BY DEF RecordsNext, CatalogNext, AccessNext, LedgerNext
  <2>. QED  BY <2>1, NothingRevives, ScopeIsReplaced
<1>. QED  BY <1>1, AccessHolds, PTL DEF RecordsSpec, RightsStayAsSet

-----------------------------------------------------------------------------
(* Catalog.                                                                *)

Runners == Actors \cup Seeds

\* A write of a request or a seed in flight: an insert, a change, or a link removed.
EditFits(w) ==
    /\ w.table \in Tables /\ w.id \in RowIds \cup {0}
    /\ w.id = 0 => w.is \in Books!Row
    /\ w.id # 0 => w.was \in Books!Row /\ (w.is \in Books!Row \/ (w.is = Books!NoRow /\ w.table = "link"))

CatalogTyped ==
    /\ rows \in [Tables -> [RowIds -> Books!Row \cup {Books!NoRow}]]
    /\ made \in 0 .. Edits /\ overlapped \in BOOLEAN /\ seeded \in BOOLEAN
    /\ tx = [p \in Runners |-> tx[p]]
    /\ \A p \in Runners :
          /\ tx[p] = [op |-> tx[p].op, writes |-> tx[p].writes, left |-> tx[p].left]
          /\ tx[p].left \subseteq Tables
          /\ \A w \in tx[p].writes : EditFits(w) /\ w.table \notin tx[p].left
          /\ \A w, v \in tx[p].writes : w.id = 0 /\ v.id = 0 /\ w.table = v.table => w = v

\* Codes are kept, and about to be written, as their table keeps them.
CodesKept ==
    /\ \A t \in Tables : /\ Books!Unique(rows[t])
                         /\ \A i \in Books!In(rows[t]) : Books!Meaning(t, rows[t][i].code) = rows[t][i].code
    /\ \A p \in Runners : \A w \in tx[p].writes :
          w.is # Books!NoRow => Books!Meaning(w.table, w.is.code) = w.is.code

\* Only a request to switch a module writes the column that says whether it is on.
WhoWrites ==
    /\ \A s \in Seeds : tx[s] = Books!Idle \/ tx[s].op = "seed"
    /\ \A r \in Actors : tx[r].op # "seed"
    /\ \A p \in Runners : \A w \in tx[p].writes :
          w.table = "module" /\ w.id # 0 /\ w.is.live # w.was.live
          => p \in Actors /\ tx[p].op = "switch"

\* What a seed has read is still so, as long as nothing has overlapped.
SeedStill ==
    \A s \in Seeds :
        tx[s] # Books!Idle /\ ~overlapped =>
            /\ tx[s].writes = UNION {Books!SeedWrites(t) : t \in Tables \ tx[s].left}
            /\ \A t \in Tables \ tx[s].left :
                  Books!WithCode(t, "A") # {} \/ \E i \in RowIds : rows[t][i] = Books!NoRow

\* A table as the seed leaves it.
AsSeeded(t, table) ==
    /\ \E i \in Books!In(table) : table[i].code = "A"
    /\ \A i \in Books!In(table) : table[i].code = "A" => Books!Reseeded(t, table[i]) = table[i]
    /\ t = "schedule" => \A i \in Books!In(table) : table[i].code = "B" => ~table[i].live

\* The seed's own row is there, and active where the seed activates.
HasFirst(t, table) ==
    \E i \in RowIds :
        /\ table[i] # Books!NoRow /\ table[i].code = "A"
        /\ t \in {"company", "role", "schedule"} => table[i].live

SeedDone == seeded /\ ~overlapped => \A t \in Tables : AsSeeded(t, rows[t])

CatalogInv == CatalogTyped /\ CodesKept /\ WhoWrites /\ SeedStill /\ SeedDone

LEMMA IdsCount ==
    /\ Tables \subseteq Books!AllTables /\ Edits \in Nat
    /\ RowIds \subseteq Nat \ {0} /\ IsFiniteSet(RowIds)
    /\ Actors \cap Seeds = {} /\ IsFiniteSet(Runners)
  BY BooksAssumption DEF Books!CatalogAssumption, Books!IsFiniteSet, IsFiniteSet, Runners

LEMMA NoneIsNoRow == Books!NoRow \notin Books!Row
<1>1. ASSUME NEW x, x = [absent |-> TRUE], NEW c, c \in DOMAIN x PROVE c = "absent"
  BY <1>1
<1>2. Books!NoRow = [absent |-> TRUE]  BY DEF Books!NoRow
<1>3. \A x \in Books!Row : "code" \in DOMAIN x  BY DEF Books!Row
<1>. QED  BY <1>1, <1>2, <1>3

LEMMA RowChanged ==
    ASSUME NEW rec \in Books!Row, NEW w, w.was \in Books!Row, w.is \in Books!Row
    PROVE  /\ Books!Changed(rec, w) \in Books!Row
           /\ Books!Changed(rec, w).code \in {rec.code, w.is.code}
           /\ w.is.code = w.was.code => Books!Changed(rec, w).code = rec.code
           /\ Books!Changed(rec, w).live = IF w.is.live # w.was.live THEN w.is.live ELSE rec.live
           /\ rec = w.was => Books!Changed(rec, w) = w.is
<1>. DEFINE is == w.is
            was == w.was
<1>1. Books!Changed(rec, w) = [c \in DOMAIN rec |-> IF is[c] # was[c] THEN is[c] ELSE rec[c]]
  BY DEF Books!Changed
<1>2. is \in Books!Row /\ was \in Books!Row
  OBVIOUS
<1>. HIDE DEF is, was
<1>3. Books!Changed(rec, w) \in Books!Row
  BY <1>1, <1>2 DEF Books!Row
<1>4. DOMAIN rec = {"code", "live", "text", "own"} /\ DOMAIN is = DOMAIN rec
      /\ is = [c \in DOMAIN is |-> is[c]]
  BY <1>2 DEF Books!Row
<1>5. rec = was => Books!Changed(rec, w) = is
  BY <1>1, <1>4
<1>. QED  BY <1>1, <1>3, <1>4, <1>5 DEF is, was

\* At most one of the writes inserts into a table.
OneNew(writes) == \A w, v \in writes : w.id = 0 /\ v.id = 0 /\ w.table = v.table => w = v

\* What a commit leaves in a table: a row nobody wrote stays, one that was written
\* has the columns the write changed or, if the write deletes, is gone, and the
\* others hold what was inserted.
TableLeft(after, t, table, writes) ==
    LET spare == RowIds \ Books!In(table) IN
    /\ after \in [RowIds -> Books!Row \cup {Books!NoRow}]
    /\ \A i \in Books!In(table) : Mine(t, i, writes) = {} => after[i] = table[i]
    /\ \A i \in Books!In(table) : Mine(t, i, writes) # {} =>
          \/ \E w \in Mine(t, i, writes) : w.is # Books!NoRow /\ after[i] = Books!Changed(table[i], w)
          \/ after[i] = Books!NoRow
          \/ \E w \in NewIn(t, writes) : after[i] = w.is
    /\ \A i \in spare : after[i] = Books!NoRow \/ \E w \in NewIn(t, writes) : after[i] = w.is
    /\ (\A w \in writes : w.table = t => w.is # Books!NoRow) =>
         /\ \A i \in Books!In(table) : Mine(t, i, writes) # {} =>
               \E w \in Mine(t, i, writes) : after[i] = Books!Changed(table[i], w)
         /\ \A i, j \in spare : after[i] = after[j] => i = j \/ after[i] = Books!NoRow
         /\ spare # {} => \A w \in NewIn(t, writes) : \E i \in spare : after[i] = w.is

LEMMA TableAfter ==
    ASSUME NEW t \in Tables, NEW table \in [RowIds -> Books!Row \cup {Books!NoRow}],
           NEW writes, \A w \in writes : EditFits(w), OneNew(writes)
    PROVE  TableLeft(Books!After(t, table, writes), t, table, writes)
<1>. DEFINE mid == Books!Written(t, table, writes)
            after == Books!After(t, table, writes)
            new == NewIn(t, writes)
            spare == RowIds \ Books!In(table)
<1>1. after = Books!Inserted(mid, new)
  BY DEF Books!After, NewIn
<1>2. mid = [i \in RowIds |-> mid[i]]
  BY DEF Books!Written
<1>3. \A i \in RowIds : Mine(t, i, writes) = {} \/ table[i] = Books!NoRow => mid[i] = table[i]
  BY DEF Books!Written, Mine
<1>4. ASSUME NEW i \in RowIds, Mine(t, i, writes) # {}, table[i] # Books!NoRow
      PROVE  \E w \in Mine(t, i, writes) :
                mid[i] = IF w.is = Books!NoRow THEN Books!NoRow ELSE Books!Changed(table[i], w)
  <2>. DEFINE w == CHOOSE w \in Mine(t, i, writes) : TRUE
  <2>1. w \in Mine(t, i, writes)  BY <1>4
  <2>2. mid[i] = IF w.is = Books!NoRow THEN Books!NoRow ELSE Books!Changed(table[i], w)
    BY <1>4 DEF Books!Written, Mine
  <2>. QED  BY <2>1, <2>2
<1>5. \A w, v \in new : w = v
  BY DEF NewIn, OneNew
<1>6. \A w \in new : w.is \in Books!Row
  BY DEF NewIn, EditFits
<1>. HIDE DEF mid, after, new
<1>7. ASSUME NEW i \in RowIds, NEW w \in Mine(t, i, writes), table[i] # Books!NoRow, w.is # Books!NoRow
      PROVE  Books!Changed(table[i], w) \in Books!Row
  <2>1. w.was \in Books!Row /\ w.is \in Books!Row
    BY <1>7, IdsCount DEF Mine, EditFits
  <2>2. table[i] \in Books!Row  BY <1>7
  <2>. QED  BY <2>1, <2>2, RowChanged
<1>8. \A i \in RowIds : mid[i] \in Books!Row \cup {Books!NoRow}
  <2>. TAKE i \in RowIds
  <2>1. CASE Mine(t, i, writes) = {} \/ table[i] = Books!NoRow  BY <2>1, <1>3
  <2>2. CASE ~(Mine(t, i, writes) = {} \/ table[i] = Books!NoRow)  BY <2>2, <1>4, <1>7
  <2>. QED  BY <2>1, <2>2
<1>9. IsFiniteSet(new) /\ Cardinality(new) <= 1
  <2>1. CASE new = {}  BY <2>1, FS_EmptySet
  <2>2. CASE new # {}
    <3>1. PICK w : w \in new  BY <2>2
    <3>2. new = {w}  BY <1>5, <3>1
    <3>3. IsFiniteSet({w}) /\ Cardinality({w}) = 1  BY FS_Singleton
    <3>4. Cardinality(new) = 1  BY <3>2, <3>3
    <3>. QED  BY <3>2, <3>3, <3>4
  <2>. QED  BY <2>1, <2>2
<1>10. /\ after = [i \in RowIds |-> after[i]]
       /\ \A i \in Books!In(mid) : after[i] = mid[i]
       /\ \A i \in RowIds \ Books!In(mid) : after[i] = Books!NoRow \/ \E w \in new : after[i] = w.is
       /\ Distinct(new) =>
             \A i, j \in RowIds \ Books!In(mid) : after[i] = after[j] => i = j \/ after[i] = Books!NoRow
       /\ IsFiniteSet(RowIds \ Books!In(mid)) /\ Cardinality(new) <= Cardinality(RowIds \ Books!In(mid))
             => \A w \in new : \E i \in RowIds \ Books!In(mid) : after[i] = w.is
  <2>1. mid = [i \in DOMAIN mid |-> mid[i]] /\ DOMAIN mid = RowIds /\ DOMAIN mid \subseteq Nat
    BY <1>2, IdsCount
  <2>2. GrownBy(Books!Inserted(mid, new), mid, new)
    BY <2>1, <1>9, InsertedRows
  <2>3. GrownBy(after, mid, new)
    BY <2>2, <1>1, SameRows
  <2>. QED  BY <2>1, <2>3, SameRows DEF GrownBy
<1>11. Books!In(mid) \subseteq RowIds /\ Books!In(mid) \subseteq Books!In(table) /\ Books!In(table) \subseteq RowIds
       /\ \A i \in RowIds : (i \in Books!In(mid) <=> mid[i] # Books!NoRow) /\ (i \in Books!In(table) <=> table[i] # Books!NoRow)
  <2>1. DOMAIN mid = RowIds /\ DOMAIN table = RowIds  BY <1>2
  <2>2. \A i \in RowIds : (i \in Books!In(mid) <=> mid[i] # Books!NoRow) /\ (i \in Books!In(table) <=> table[i] # Books!NoRow)
    BY <2>1 DEF Books!In
  <2>3. Books!In(mid) \subseteq RowIds /\ Books!In(table) \subseteq RowIds  BY <2>1 DEF Books!In
  <2>. QED  BY <2>2, <2>3, <1>3
<1>12. after \in [RowIds -> Books!Row \cup {Books!NoRow}]
  <2>1. \A i \in RowIds : after[i] \in Books!Row \cup {Books!NoRow}
    BY <1>6, <1>8, <1>10
  <2>. QED  BY <1>10, <2>1
<1>13. \A i \in Books!In(table) : Mine(t, i, writes) = {} => after[i] = table[i]
  BY <1>3, <1>10, <1>11
<1>14. ASSUME NEW i \in Books!In(table), Mine(t, i, writes) # {}
       PROVE  \/ \E w \in Mine(t, i, writes) : w.is # Books!NoRow /\ after[i] = Books!Changed(table[i], w)
              \/ after[i] = Books!NoRow
              \/ \E w \in new : after[i] = w.is
  <2>1. i \in RowIds /\ table[i] # Books!NoRow  BY <1>11
  <2>2. PICK w \in Mine(t, i, writes) :
              mid[i] = IF w.is = Books!NoRow THEN Books!NoRow ELSE Books!Changed(table[i], w)
    BY <2>1, <1>4, <1>14
  <2>3. CASE mid[i] = Books!NoRow  BY <2>1, <2>3, <1>10, <1>11
  <2>4. CASE mid[i] # Books!NoRow
    <3>1. w.is # Books!NoRow /\ mid[i] = Books!Changed(table[i], w)  BY <2>2, <2>4
    <3>2. after[i] = mid[i]  BY <2>1, <2>4, <1>10, <1>11
    <3>. QED  BY <3>1, <3>2
  <2>. QED  BY <2>3, <2>4
<1>15. \A i \in spare : after[i] = Books!NoRow \/ \E w \in new : after[i] = w.is
  BY <1>10, <1>11
<1>16. ASSUME \A w \in writes : w.table = t => w.is # Books!NoRow
       PROVE  /\ Books!In(mid) = Books!In(table)
              /\ \A i \in Books!In(table) : Mine(t, i, writes) # {} =>
                    \E w \in Mine(t, i, writes) : after[i] = Books!Changed(table[i], w)
  <2>1. ASSUME NEW i \in Books!In(table), Mine(t, i, writes) # {}
        PROVE  mid[i] # Books!NoRow /\ \E w \in Mine(t, i, writes) : mid[i] = Books!Changed(table[i], w)
    <3>1. i \in RowIds /\ table[i] # Books!NoRow  BY <1>11
    <3>2. PICK w \in Mine(t, i, writes) :
                mid[i] = IF w.is = Books!NoRow THEN Books!NoRow ELSE Books!Changed(table[i], w)
      BY <3>1, <2>1, <1>4
    <3>3. w.is # Books!NoRow  BY <1>16 DEF Mine
    <3>4. Books!Changed(table[i], w) \in Books!Row  BY <3>1, <3>3, <1>7
    <3>. QED  BY <3>2, <3>3, <3>4, NoneIsNoRow
  <2>2. \A i \in Books!In(table) : mid[i] # Books!NoRow
    <3>. TAKE i \in Books!In(table)
    <3>1. CASE Mine(t, i, writes) = {}  BY <3>1, <1>3, <1>11
    <3>2. CASE Mine(t, i, writes) # {}  BY <3>2, <2>1
    <3>. QED  BY <3>1, <3>2
  <2>3. Books!In(mid) = Books!In(table)  BY <2>2, <1>11
  <2>. QED  BY <2>1, <2>3, <1>10
<1>17. Distinct(new)  BY <1>5 DEF Distinct
<1>18. IsFiniteSet(spare) /\ (spare # {} => Cardinality(new) <= Cardinality(spare))
  <2>1. IsFiniteSet(spare) /\ Cardinality(spare) \in Nat
    BY IdsCount, FS_Subset, FS_CardinalityType
  <2>2. spare # {} => Cardinality(spare) >= 1  BY <2>1, FS_EmptySet
  <2>3. Cardinality(new) \in Nat  BY <1>9, FS_CardinalityType
  <2>. HIDE DEF spare
  <2>. QED  BY <2>1, <2>2, <2>3, <1>9
<1>. QED  BY <1>10, <1>12, <1>13, <1>14, <1>15, <1>16, <1>17, <1>18 DEF after, new, TableLeft

-----------------------------------------------------------------------------
(* What operators ask for.                                                 *)

\* The writes of a seed depend on the rows alone.
LEMMA SeedSame ==
    ASSUME rows' = rows
    PROVE  \A t : /\ Books!SeedWrites(t)' = Books!SeedWrites(t)
                  /\ Books!WithCode(t, "A")' = Books!WithCode(t, "A") /\ Books!WithCode(t, "B")' = Books!WithCode(t, "B")
  BY DEF Books!SeedWrites, Books!WithCode, Books!Legacy

LEMMA SeedsStay ==
    ASSUME CatalogInv, UNCHANGED <<rows, overlapped, seeded>>,
           \A s \in Seeds : tx'[s] = tx[s]
    PROVE  SeedStill' /\ SeedDone'
<1>1. ASSUME NEW s \in Seeds, tx'[s] # Books!Idle, ~overlapped'
      PROVE  /\ tx'[s].writes = UNION {Books!SeedWrites(t) : t \in Tables \ tx[s].left}'
             /\ \A t \in Tables \ tx'[s].left :
                   Books!WithCode(t, "A")' # {} \/ \E i \in RowIds : rows'[t][i] = Books!NoRow
  <2>1. /\ tx[s].writes = UNION {Books!SeedWrites(t) : t \in Tables \ tx[s].left}
        /\ \A t \in Tables \ tx[s].left : Books!WithCode(t, "A") # {} \/ \E i \in RowIds : rows[t][i] = Books!NoRow
    BY <1>1 DEF CatalogInv, SeedStill
  <2>2. tx'[s] = tx[s]  OBVIOUS
  <2>3. UNION {Books!SeedWrites(t) : t \in Tables \ tx[s].left}'
          = UNION {Books!SeedWrites(t) : t \in Tables \ tx[s].left}
    BY <2>2, SeedSame
  <2>. QED  BY <2>1, <2>2, <2>3, SeedSame
<1>2. ASSUME seeded', ~overlapped', NEW t \in Tables PROVE AsSeeded(t, rows'[t])
  BY <1>2 DEF CatalogInv, SeedDone
<1>. QED  BY <1>1, <1>2 DEF SeedStill, SeedDone

LEMMA BookBegins ==
    ASSUME CatalogInv, NEW r \in Actors, NEW op, op # "seed", NEW writes,
           Books!Begin(r, op, writes), OneNew(writes),
           \A w \in writes :
              /\ EditFits(w)
              /\ w.is # Books!NoRow => Books!Meaning(w.table, w.is.code) = w.is.code
              /\ w.table = "module" /\ w.id # 0 /\ w.is.live # w.was.live => op = "switch"
    PROVE  CatalogInv'
<1>. DEFINE s == [op |-> op, writes |-> writes, left |-> {}]
<1>1. made < Edits /\ made' = made + 1 /\ tx' = [tx EXCEPT ![r] = s]
      /\ UNCHANGED <<rows, locked, overlapped, seeded>>
  BY DEF Books!Begin
<1>2. tx = [p \in Runners |-> tx[p]] /\ r \in Runners /\ r \notin Seeds
  BY IdsCount DEF CatalogInv, CatalogTyped, Runners
<1>3. /\ tx' = [p \in Runners |-> tx'[p]] /\ tx'[r] = s
      /\ \A p \in Runners \ {r} : tx'[p] = tx[p]
  BY <1>1, <1>2
<1>4. CatalogTyped'
  <2>1. made' \in 0 .. Edits  BY <1>1, IdsCount DEF CatalogInv, CatalogTyped
  <2>2. ASSUME NEW p \in Runners
        PROVE  /\ tx'[p] = [op |-> tx'[p].op, writes |-> tx'[p].writes, left |-> tx'[p].left]
               /\ tx'[p].left \subseteq Tables
               /\ \A w \in tx'[p].writes : EditFits(w) /\ w.table \notin tx'[p].left
               /\ \A w, v \in tx'[p].writes : w.id = 0 /\ v.id = 0 /\ w.table = v.table => w = v
    <3>1. CASE p = r  BY <1>3, <3>1 DEF OneNew
    <3>2. CASE p # r  BY <1>3, <3>2 DEF CatalogInv, CatalogTyped
    <3>. QED  BY <3>1, <3>2
  <2>. QED  BY <1>1, <1>3, <2>1, <2>2 DEF CatalogInv, CatalogTyped
<1>5. CodesKept'
  <2>1. ASSUME NEW p \in Runners, NEW w \in tx'[p].writes, w.is # Books!NoRow
        PROVE  Books!Meaning(w.table, w.is.code) = w.is.code
    <3>1. CASE p = r  BY <1>3, <2>1, <3>1
    <3>2. CASE p # r  BY <1>3, <2>1, <3>2 DEF CatalogInv, CodesKept
    <3>. QED  BY <3>1, <3>2
  <2>. QED  BY <1>1, <2>1 DEF CatalogInv, CodesKept
<1>6. WhoWrites'
  <2>1. \A q \in Seeds : q \in Runners \ {r}  BY <1>2 DEF Runners
  <2>2. \A q \in Seeds : tx'[q] = Books!Idle \/ tx'[q].op = "seed"
    BY <1>3, <2>1 DEF CatalogInv, WhoWrites
  <2>3. \A q \in Actors : tx'[q].op # "seed"
    BY <1>3 DEF CatalogInv, WhoWrites, Runners
  <2>4. \A p \in Runners : \A w \in tx'[p].writes :
          w.table = "module" /\ w.id # 0 /\ w.is.live # w.was.live
          => p \in Actors /\ tx'[p].op = "switch"
    BY <1>3 DEF CatalogInv, WhoWrites
  <2>. QED  BY <2>2, <2>3, <2>4 DEF WhoWrites
<1>7. SeedStill' /\ SeedDone'
  <2>1. \A q \in Seeds : tx'[q] = tx[q]  BY <1>2, <1>3 DEF Runners
  <2>. QED  BY <1>1, <2>1, SeedsStay
<1>. QED  BY <1>4, <1>5, <1>6, <1>7 DEF CatalogInv

\* A single insert, change or deletion asked for.
LEMMA OneAsked ==
    ASSUME CatalogInv, NEW r \in Actors, NEW op, op # "seed", NEW w,
           Books!Begin(r, op, {w}), EditFits(w),
           w.is # Books!NoRow => Books!Meaning(w.table, w.is.code) = w.is.code,
           w.table = "module" /\ w.id # 0 /\ w.is.live # w.was.live => op = "switch"
    PROVE  CatalogInv'
<1>1. OneNew({w})  BY DEF OneNew
<1>. QED  BY <1>1, BookBegins

LEMMA TableHolds ==
    ASSUME CatalogInv, NEW t \in Tables
    PROVE  /\ rows[t] \in [RowIds -> Books!Row \cup {Books!NoRow}]
           /\ Books!In(rows[t]) \subseteq RowIds
           /\ \A i \in Books!In(rows[t]) : rows[t][i] \in Books!Row /\ i \in RowIds \ {0}
           /\ \A i \in Books!In(rows[t]) : Books!Meaning(t, rows[t][i].code) = rows[t][i].code
           /\ \A i \in RowIds : i \in Books!In(rows[t]) <=> rows[t][i] # Books!NoRow
<1>1. rows[t] \in [RowIds -> Books!Row \cup {Books!NoRow}]
  BY DEF CatalogInv, CatalogTyped
<1>2. DOMAIN rows[t] = RowIds  BY <1>1
<1>3. Books!In(rows[t]) = {i \in RowIds : rows[t][i] # Books!NoRow}
  BY <1>2 DEF Books!In
<1>. QED  BY <1>1, <1>3, IdsCount DEF CatalogInv, CodesKept

\* What is stored says what was written, once.
LEMMA StoredIsKept ==
    ASSUME NEW t \in Books!Created, NEW c \in Books!Spellings(t)
    PROVE  Books!Stored(t, c) \in Books!Spelling /\ Books!Meaning(t, Books!Stored(t, c)) = Books!Stored(t, c)
<1>1. c \in Books!Spelling  BY DEF Books!Spellings, Books!Spelling
<1>2. CASE t = "link"
  BY <1>2 DEF Books!Stored, Books!Meaning, Books!Spellings, Books!Spelling, Books!UpperCased, Books!LowerCased
<1>3. CASE t = "schedule"
  BY <1>1, <1>3 DEF Books!Stored, Books!Meaning, Books!Spelling, Books!UpperCased, Books!LowerCased
<1>4. CASE t \in {"role", "mailing"}
  BY <1>1, <1>4 DEF Books!Stored, Books!Meaning, Books!Spelling, Books!UpperCased, Books!LowerCased
<1>5. CASE t \in Books!UpperCased \cup Books!LowerCased
  BY <1>1, <1>5 DEF Books!Stored, Books!Meaning, Books!Spelling, Books!UpperCased, Books!LowerCased
<1>. QED  BY <1>2, <1>3, <1>4, <1>5 DEF Books!Created, Books!UpperCased, Books!LowerCased

LEMMA UpdateFits ==
    ASSUME CatalogInv, NEW t \in Tables, NEW i \in Books!In(rows[t]),
           NEW is \in Books!Row \cup {Books!NoRow}, is = Books!NoRow => t = "link"
    PROVE  LET w == Books!Update(t, i, rows[t][i], is)
           IN  EditFits(w) /\ w.table = t /\ w.id = i /\ w.id # 0 /\ w.is = is /\ w.was = rows[t][i]
<1>. DEFINE rec == rows[t][i]
            w == Books!Update(t, i, rec, is)
<1>1. rec \in Books!Row /\ i \in RowIds \ {0}  BY TableHolds
<1>. HIDE DEF rec
<1>2. w = [table |-> t, id |-> i, was |-> rec, is |-> is]  BY DEF Books!Update
<1>. HIDE DEF w
<1>3. w.table = t /\ w.id = i /\ w.was = rec /\ w.is = is  BY <1>2
<1>4. EditFits(w)  BY <1>1, <1>3 DEF EditFits
<1>. QED  BY <1>1, <1>3, <1>4 DEF w, rec

LEMMA UpdateAsked ==
    ASSUME CatalogInv, NEW r \in Actors, NEW op, op # "seed", NEW t \in Tables, t # "module",
           NEW i \in Books!In(rows[t]), NEW is \in Books!Row \cup {Books!NoRow}, is = Books!NoRow => t = "link",
           is # Books!NoRow => Books!Meaning(t, is.code) = is.code,
           Books!Begin(r, op, {Books!Update(t, i, rows[t][i], is)})
    PROVE  CatalogInv'
<1>. DEFINE w == Books!Update(t, i, rows[t][i], is)
<1>1. EditFits(w) /\ w.table = t /\ w.is = is  BY UpdateFits
<1>2. Books!Begin(r, op, {w})  OBVIOUS
<1>. HIDE DEF w
<1>. QED  BY <1>1, <1>2, OneAsked

LEMMA InsertFits ==
    ASSUME NEW t \in Tables, NEW is \in Books!Row
    PROVE  LET w == Books!Insert(t, is)
           IN  EditFits(w) /\ w.table = t /\ w.id = 0 /\ w.is = is
<1>. DEFINE w == Books!Insert(t, is)
<1>1. w = [table |-> t, id |-> 0, was |-> Books!NoRow, is |-> is]  BY DEF Books!Insert
<1>. HIDE DEF w
<1>2. w.table = t /\ w.id = 0 /\ w.is = is  BY <1>1
<1>3. EditFits(w)  BY <1>2 DEF EditFits
<1>. QED  BY <1>2, <1>3 DEF w

LEMMA EditsKeep ==
    ASSUME CatalogInv, NEW r \in Actors, NEW t \in Tables,
           \/ \E c \in Books!Spellings(t) : Books!Create(r, t, c)
           \/ \E i \in RowIds :
                \/ \E c \in Books!Spellings(t) : Books!Edit(r, t, i, c)
                \/ \E live \in BOOLEAN : Books!SetActive(r, t, i, live)
                \/ Books!Unlink(r, t, i)
                \/ Books!Advance(r, t, i)
    PROVE  CatalogInv'
<1>1. ASSUME NEW c \in Books!Spellings(t), Books!Create(r, t, c) PROVE CatalogInv'
  <2>. DEFINE is == [code |-> Books!Stored(t, c), live |-> TRUE, text |-> "operator", own |-> "none"]
              w == Books!Insert(t, is)
  <2>1. t \in Books!Created /\ Books!Begin(r, "create", {w})  BY <1>1 DEF Books!Create
  <2>2. is \in Books!Row /\ is.code = Books!Stored(t, c)  BY <2>1, StoredIsKept DEF Books!Row
  <2>3. Books!Meaning(t, is.code) = is.code  BY <2>1, <2>2, StoredIsKept
  <2>. HIDE DEF is
  <2>4. EditFits(w) /\ w.table = t /\ w.id = 0 /\ w.is = is  BY <2>2, InsertFits
  <2>. HIDE DEF w
  <2>. QED  BY <2>1, <2>3, <2>4, OneAsked
<1>2. ASSUME NEW i \in RowIds, NEW c \in Books!Spellings(t), Books!Edit(r, t, i, c) PROVE CatalogInv'
  <2>. DEFINE rec == rows[t][i]
              is == [rec EXCEPT !.code = Books!Stored(t, c), !.text = "operator"]
  <2>1. t \in Books!Created /\ t # "module" /\ i \in Books!In(rows[t])
        /\ Books!Begin(r, "edit", {Books!Update(t, i, rows[t][i], is)})
    BY <1>2 DEF Books!Edit, Books!Edited, Books!Created
  <2>2. rec \in Books!Row  BY <2>1, TableHolds
  <2>. HIDE DEF rec
  <2>3. is \in Books!Row /\ is.code = Books!Stored(t, c)  BY <2>1, <2>2, StoredIsKept DEF Books!Row
  <2>4. Books!Meaning(t, is.code) = is.code  BY <2>1, <2>3, StoredIsKept
  <2>. HIDE DEF is
  <2>. QED  BY <2>1, <2>3, <2>4, NoneIsNoRow, UpdateAsked
<1>3. ASSUME NEW i \in RowIds, NEW live \in BOOLEAN, Books!SetActive(r, t, i, live) PROVE CatalogInv'
  <2>. DEFINE rec == rows[t][i]
              is == [rec EXCEPT !.live = live]
  <2>1. t # "module" /\ i \in Books!In(rows[t]) /\ Books!Begin(r, "set_active", {Books!Update(t, i, rows[t][i], is)})
    BY <1>3 DEF Books!SetActive, Books!Switched, Books!Edited, Books!Created
  <2>2. rec \in Books!Row /\ Books!Meaning(t, rec.code) = rec.code  BY <2>1, TableHolds
  <2>. HIDE DEF rec
  <2>3. is \in Books!Row /\ is.code = rec.code  BY <2>2 DEF Books!Row
  <2>. HIDE DEF is
  <2>. QED  BY <2>1, <2>2, <2>3, NoneIsNoRow, UpdateAsked
<1>4. ASSUME NEW i \in RowIds, Books!Unlink(r, t, i) PROVE CatalogInv'
  <2>1. t = "link" /\ t # "module" /\ i \in Books!In(rows[t]) /\ Books!Begin(r, "unlink", {Books!Update(t, i, rows[t][i], Books!NoRow)})
    BY <1>4 DEF Books!Unlink
  <2>. QED  BY <2>1, UpdateAsked
<1>5. ASSUME NEW i \in RowIds, Books!Advance(r, t, i) PROVE CatalogInv'
  <2>. DEFINE rec == rows[t][i]
              is == [rec EXCEPT !.own = "set"]
  <2>1. t # "module" /\ i \in Books!In(rows[t]) /\ Books!Begin(r, "advance", {Books!Update(t, i, rows[t][i], is)})
    BY <1>5 DEF Books!Advance
  <2>2. rec \in Books!Row /\ Books!Meaning(t, rec.code) = rec.code  BY <2>1, TableHolds
  <2>. HIDE DEF rec
  <2>3. is \in Books!Row /\ is.code = rec.code  BY <2>2 DEF Books!Row
  <2>. HIDE DEF is
  <2>. QED  BY <2>1, <2>2, <2>3, NoneIsNoRow, UpdateAsked
<1>. QED  BY <1>1, <1>2, <1>3, <1>4, <1>5

LEMMA SwitchKeeps ==
    ASSUME CatalogInv, NEW r \in Actors, NEW c \in Books!Catalogued, NEW enabled \in BOOLEAN,
           NEW own \in {"none", "set"}, Books!SetModuleEnabled(r, c, enabled, own)
    PROVE  CatalogInv'
<1>. DEFINE reason == IF enabled THEN "none" ELSE own
            same == Books!WithCode("module", c)
<1>1. "module" \in Tables /\ c = "A" /\ reason \in {"none", "set"}
  BY DEF Books!SetModuleEnabled, Books!Catalogued
<1>2. CASE same = {}
  <2>. DEFINE is == [code |-> c, live |-> enabled, text |-> "seed", own |-> reason]
              w == Books!Insert("module", is)
  <2>1. Books!Begin(r, "switch", {w})  BY <1>2 DEF Books!SetModuleEnabled
  <2>2. is \in Books!Row /\ is.code = "A"  BY <1>1 DEF Books!Row, Books!Spelling
  <2>3. Books!Meaning("module", "A") = "A"  BY DEF Books!Meaning
  <2>. HIDE DEF is, reason
  <2>4. EditFits(w) /\ w.table = "module" /\ w.id = 0 /\ w.is = is  BY <1>1, <2>2, InsertFits
  <2>. HIDE DEF w
  <2>. QED  BY <2>1, <2>2, <2>3, <2>4, OneAsked
<1>3. CASE same # {}
  <2>. DEFINE is(i) == [rows["module"][i] EXCEPT !.live = enabled, !.own = reason]
              put(i) == Books!Update("module", i, rows["module"][i], is(i))
              writes == {put(i) : i \in same}
  <2>1. Books!Begin(r, "switch", writes)  BY <1>3 DEF Books!SetModuleEnabled
  <2>2. ASSUME NEW i \in same
        PROVE  /\ EditFits(put(i)) /\ put(i).table = "module" /\ put(i).id # 0
               /\ Books!Meaning("module", put(i).is.code) = put(i).is.code
    <3>. DEFINE rec == rows["module"][i]
    <3>1. i \in Books!In(rows["module"])  BY DEF Books!WithCode
    <3>2. rec \in Books!Row /\ Books!Meaning("module", rec.code) = rec.code  BY <1>1, <3>1, TableHolds
    <3>. DEFINE new == [rec EXCEPT !.live = enabled, !.own = reason]
    <3>3. put(i) = Books!Update("module", i, rows["module"][i], new)  OBVIOUS
    <3>. HIDE DEF rec, reason, put, is
    <3>4. new \in Books!Row /\ new.code = rec.code  BY <1>1, <3>2 DEF Books!Row
    <3>. HIDE DEF new
    <3>5. /\ EditFits(put(i)) /\ put(i).table = "module" /\ put(i).id # 0 /\ put(i).is = new
      BY <1>1, <3>1, <3>3, <3>4, NoneIsNoRow, UpdateFits
    <3>. QED  BY <3>2, <3>4, <3>5
  <2>. HIDE DEF put, is, same
  <2>3. \A w \in writes : /\ EditFits(w) /\ w.id # 0 /\ w.table = "module"
                          /\ Books!Meaning(w.table, w.is.code) = w.is.code
    BY <2>2
  <2>4. OneNew(writes)  BY <2>3 DEF OneNew
  <2>. HIDE DEF writes
  <2>. QED  BY <2>1, <2>3, <2>4, BookBegins
<1>. QED  BY <1>2, <1>3

-----------------------------------------------------------------------------
(* The seed.                                                               *)

LEMMA TurnIsLeft ==
    ASSUME NEW left, left \subseteq Books!AllTables, left # {}
    PROVE  Books!Turn(left) \in left
<1>. DEFINE T == {n \in 1 .. 11 : Books!SeedOrder[n] \in left}
<1>1. DOMAIN Books!SeedOrder = 1 .. 11  BY DEF Books!SeedOrder
<1>2. \A t \in Books!AllTables : \E n \in 1 .. 11 : Books!SeedOrder[n] = t
  <2>1. /\ Books!SeedOrder[1] = "permission" /\ Books!SeedOrder[2] = "role" /\ Books!SeedOrder[3] = "user"
        /\ Books!SeedOrder[4] = "link" /\ Books!SeedOrder[5] = "company" /\ Books!SeedOrder[6] = "area"
        /\ Books!SeedOrder[7] = "currency" /\ Books!SeedOrder[8] = "module" /\ Books!SeedOrder[9] = "mailing"
        /\ Books!SeedOrder[10] = "status" /\ Books!SeedOrder[11] = "schedule"
    BY DEF Books!SeedOrder
  <2>2. {1, 2, 3, 4, 5, 6, 7, 8, 9, 10, 11} \subseteq 1 .. 11  OBVIOUS
  <2>. QED  BY <2>1, <2>2 DEF Books!AllTables
<1>3. T \subseteq Nat /\ T # {}  BY <1>2
<1>4. PICK x \in T : \A y \in T : x <= y  BY <1>3, LeastNumber
<1>5. /\ x \in DOMAIN Books!SeedOrder /\ Books!SeedOrder[x] \in left
      /\ \A k \in 1 .. (x - 1) : Books!SeedOrder[k] \notin left
  <2>1. ASSUME NEW k \in 1 .. (x - 1), Books!SeedOrder[k] \in left PROVE FALSE
    <3>1. k \in T /\ k < x  BY <2>1
    <3>. QED  BY <1>4, <3>1
  <2>. QED  BY <1>1, <2>1
<1>. QED  BY <1>5 DEF Books!Turn

\* A place is free: those that pending inserts will take are counted.
LEMMA SpaceIsFree ==
    ASSUME CatalogInv, NEW t \in Tables, Books!Space(t)
    PROVE  \E i \in RowIds : rows[t][i] = Books!NoRow
<1>. DEFINE pend == {w \in Books!Pending : w.table = t /\ w.id = 0}
            f == [w \in pend |-> CHOOSE p \in Runners : w \in tx[p].writes]
<1>1. DOMAIN rows[t] = RowIds  BY TableHolds
<1>2. Cardinality(Books!In(rows[t])) + Cardinality(pend) < Cardinality(RowIds)
  BY <1>1 DEF Books!Space, Books!Room, Books!Cardinality, Cardinality
<1>3. IsFiniteSet(pend)
  <2>1. \A w \in pend : f[w] \in Runners /\ w \in tx[f[w]].writes
    BY DEF Books!Pending, Runners
  <2>2. f = [w \in pend |-> f[w]]  OBVIOUS
  <2>3. \A w, v \in pend : f[w] = f[v] => w = v
    <3>1. \A p \in Runners : \A w, v \in tx[p].writes :
            w.id = 0 /\ v.id = 0 /\ w.table = v.table => w = v
      BY DEF CatalogInv, CatalogTyped
    <3>2. \A w \in pend : w.id = 0 /\ w.table = t  OBVIOUS
    <3>. HIDE DEF f, pend
    <3>. QED  BY <2>1, <3>1, <3>2
  <2>4. IsFiniteSet(Runners)  BY IdsCount
  <2>. HIDE DEF f, pend
  <2>. QED  BY <2>1, <2>2, <2>3, <2>4, Injected
<1>4. Cardinality(pend) \in Nat /\ Cardinality(RowIds) \in Nat
  BY <1>3, IdsCount, FS_CardinalityType
<1>. HIDE DEF pend
<1>5. ASSUME \A i \in RowIds : rows[t][i] # Books!NoRow PROVE FALSE
  <2>1. Books!In(rows[t]) = RowIds  BY <1>5, TableHolds
  <2>. QED  BY <1>2, <1>4, <2>1
<1>. QED  BY <1>5

\* What a seed writes in a table, read as it is: it deletes nothing, changes no
\* code and turns no module on or off.
SeedWrite(t, w) ==
    /\ EditFits(w) /\ w.table = t /\ w.is \in Books!Row
    /\ Books!Meaning(t, w.is.code) = w.is.code
    /\ w.id = 0 => w.is = Books!FirstRow /\ Books!WithCode(t, "A") = {}
    /\ w.id # 0 => /\ w.id \in Books!In(rows[t]) /\ w.was = rows[t][w.id]
                   /\ w.is.code = w.was.code /\ w.was.code \in {"A", "B"}
    /\ w.id # 0 /\ w.was.code = "A" => w.is = Books!Reseeded(t, w.was)
    /\ w.id # 0 /\ w.was.code = "B" => t = "schedule" /\ w.is = [w.was EXCEPT !.live = FALSE]
    /\ t = "module" /\ w.id # 0 => w.is.live = w.was.live

LEMMA SeedFits ==
    ASSUME CatalogInv, NEW t \in Tables
    PROVE  /\ \A w \in Books!SeedWrites(t) : SeedWrite(t, w)
           /\ OneNew(Books!SeedWrites(t))
           /\ Books!WithCode(t, "A") = {} => Books!Insert(t, Books!FirstRow) \in Books!SeedWrites(t)
           /\ \A i \in Books!WithCode(t, "A") : \E w \in Books!SeedWrites(t) : w.table = t /\ w.id = i
           /\ t = "schedule" => \A i \in Books!WithCode(t, "B") : \E w \in Books!SeedWrites(t) : w.table = t /\ w.id = i
<1>. DEFINE legacy(i) == Books!Update(t, i, rows[t][i], [rows[t][i] EXCEPT !.live = FALSE])
            again(i) == Books!Update(t, i, rows[t][i], Books!Reseeded(t, rows[t][i]))
            first == Books!Insert(t, Books!FirstRow)
<1>1. ASSUME NEW i \in Books!WithCode(t, "B"), t = "schedule"
      PROVE  /\ EditFits(legacy(i)) /\ legacy(i).table = t /\ legacy(i).id = i /\ i # 0
             /\ i \in Books!In(rows[t]) /\ legacy(i).was = rows[t][i] /\ legacy(i).was.code = "B"
             /\ legacy(i).is = [legacy(i).was EXCEPT !.live = FALSE]
             /\ legacy(i).is \in Books!Row /\ legacy(i).is.code = "B"
             /\ Books!Meaning(t, legacy(i).is.code) = legacy(i).is.code
  <2>. DEFINE rec == rows[t][i]
              is == [rec EXCEPT !.live = FALSE]
  <2>1. i \in Books!In(rows[t]) /\ rec.code = "B"  BY DEF Books!WithCode
  <2>2. rec \in Books!Row /\ Books!Meaning(t, rec.code) = rec.code  BY <2>1, TableHolds
  <2>3. is \in Books!Row /\ is.code = rec.code
    <3>. HIDE DEF rec
    <3>. QED  BY <2>2 DEF Books!Row
  <2>. DEFINE w == legacy(i)
  <2>4. w = Books!Update(t, i, rows[t][i], is)  OBVIOUS
  <2>5. is = [rec EXCEPT !.live = FALSE]  OBVIOUS
  <2>. HIDE DEF legacy, is
  <2>6. EditFits(w) /\ w.table = t /\ w.id = i /\ w.id # 0 /\ w.is = is /\ w.was = rows[t][i]
    BY <2>1, <2>3, <2>4, NoneIsNoRow, UpdateFits
  <2>. QED  BY <2>1, <2>2, <2>3, <2>5, <2>6
<1>2. ASSUME NEW i \in Books!WithCode(t, "A")
      PROVE  /\ EditFits(again(i)) /\ again(i).table = t /\ again(i).id = i /\ i # 0
             /\ i \in Books!In(rows[t]) /\ again(i).was = rows[t][i] /\ again(i).was.code = "A"
             /\ again(i).is = Books!Reseeded(t, again(i).was)
             /\ again(i).is \in Books!Row /\ again(i).is.code = "A"
             /\ Books!Meaning(t, again(i).is.code) = again(i).is.code
             /\ t = "module" => again(i).is.live = again(i).was.live
  <2>. DEFINE rec == rows[t][i]
              is == Books!Reseeded(t, rec)
  <2>1. i \in Books!In(rows[t]) /\ rec.code = "A"  BY DEF Books!WithCode
  <2>2. rec \in Books!Row /\ Books!Meaning(t, rec.code) = rec.code  BY <2>1, TableHolds
  <2>3. is \in Books!Row /\ is.code = rec.code /\ (t = "module" => is.live = rec.live)
    <3>. HIDE DEF rec
    <3>1. [rec EXCEPT !.live = TRUE, !.text = "seed"] \in Books!Row
          /\ [rec EXCEPT !.live = TRUE, !.text = "seed"].code = rec.code
      BY <2>2 DEF Books!Row
    <3>2. [rec EXCEPT !.live = TRUE] \in Books!Row /\ [rec EXCEPT !.live = TRUE].code = rec.code
      BY <2>2 DEF Books!Row
    <3>3. [rec EXCEPT !.text = "seed"] \in Books!Row /\ [rec EXCEPT !.text = "seed"].code = rec.code
          /\ [rec EXCEPT !.text = "seed"].live = rec.live
      BY <2>2 DEF Books!Row
    <3>4. \/ t # "module" /\ is = [rec EXCEPT !.live = TRUE, !.text = "seed"]
          \/ t # "module" /\ is = [rec EXCEPT !.live = TRUE]
          \/ t # "module" /\ is = rec
          \/ is = [rec EXCEPT !.text = "seed"]
      <4>1. CASE t = "permission"  BY <4>1 DEF Books!Reseeded, Books!SeedSecurity
      <4>2. CASE t \in {"role", "user"}  BY <4>2 DEF Books!Reseeded, Books!SeedSecurity
      <4>3. CASE t = "link"  BY <4>3 DEF Books!Reseeded, Books!SeedSecurity
      <4>4. CASE t = "status"  BY <4>4 DEF Books!Reseeded, Books!SeedStatus
      <4>5. CASE t = "schedule"  BY <4>5 DEF Books!Reseeded, Books!SeedSchedule
      <4>6. CASE t = "module"  BY <4>6 DEF Books!Reseeded, Books!SeedMaster
      <4>7. CASE t \in {"company", "area", "currency", "mailing"}
        BY <4>7 DEF Books!Reseeded, Books!SeedMaster
      <4>. QED  BY <4>1, <4>2, <4>3, <4>4, <4>5, <4>6, <4>7, IdsCount DEF Books!AllTables
    <3>. HIDE DEF is
    <3>. QED  BY <2>2, <3>1, <3>2, <3>3, <3>4
  <2>. DEFINE w == again(i)
  <2>4. w = Books!Update(t, i, rows[t][i], is)  OBVIOUS
  <2>5. is = Books!Reseeded(t, rec)  OBVIOUS
  <2>. HIDE DEF again, is
  <2>6. EditFits(w) /\ w.table = t /\ w.id = i /\ w.id # 0 /\ w.is = is /\ w.was = rows[t][i]
    BY <2>1, <2>3, <2>4, NoneIsNoRow, UpdateFits
  <2>. QED  BY <2>1, <2>2, <2>3, <2>5, <2>6
<1>3. /\ EditFits(first) /\ first.table = t /\ first.id = 0 /\ first.is = Books!FirstRow
      /\ Books!FirstRow \in Books!Row /\ Books!FirstRow.code = "A" /\ Books!Meaning(t, "A") = "A"
  <2>1. Books!FirstRow \in Books!Row /\ Books!FirstRow.code = "A"  BY DEF Books!FirstRow, Books!Row, Books!Spelling
  <2>2. Books!Meaning(t, "A") = "A"  BY DEF Books!Meaning
  <2>. QED  BY <2>1, <2>2, InsertFits
<1>4. /\ t # "schedule" => Books!Legacy(t) = {}
      /\ t = "schedule" => Books!Legacy(t) = {legacy(i) : i \in Books!WithCode(t, "B")}
  BY DEF Books!Legacy
<1>5. /\ Books!WithCode(t, "A") = {} => Books!SeedWrites(t) = Books!Legacy(t) \cup {first}
      /\ Books!WithCode(t, "A") # {} => Books!SeedWrites(t) = Books!Legacy(t) \cup {again(i) : i \in Books!WithCode(t, "A")}
  BY DEF Books!SeedWrites
<1>. HIDE DEF legacy, again, first
<1>6. ASSUME NEW w \in Books!SeedWrites(t)
      PROVE  \/ t = "schedule" /\ \E i \in Books!WithCode(t, "B") : w = legacy(i)
             \/ \E i \in Books!WithCode(t, "A") : w = again(i)
             \/ w = first /\ Books!WithCode(t, "A") = {}
  BY <1>4, <1>5
<1>7. ASSUME NEW w \in Books!SeedWrites(t)
      PROVE  /\ EditFits(w) /\ w.table = t /\ w.is \in Books!Row
             /\ Books!Meaning(t, w.is.code) = w.is.code
             /\ w.id = 0 => w.is = Books!FirstRow /\ Books!WithCode(t, "A") = {} /\ w = first
             /\ w.id # 0 => /\ w.id \in Books!In(rows[t]) /\ w.was = rows[t][w.id]
                            /\ w.is.code = w.was.code /\ w.was.code \in {"A", "B"}
             /\ w.id # 0 /\ w.was.code = "A" => w.is = Books!Reseeded(t, w.was)
             /\ w.id # 0 /\ w.was.code = "B" => t = "schedule" /\ w.is = [w.was EXCEPT !.live = FALSE]
             /\ t = "module" /\ w.id # 0 => w.is.live = w.was.live
  <2>1. CASE t = "schedule" /\ \E i \in Books!WithCode(t, "B") : w = legacy(i)
    <3>1. PICK i \in Books!WithCode(t, "B") : w = legacy(i)  BY <2>1
    <3>. QED  BY <1>1, <2>1, <3>1
  <2>2. CASE \E i \in Books!WithCode(t, "A") : w = again(i)
    <3>1. PICK i \in Books!WithCode(t, "A") : w = again(i)  BY <2>2
    <3>. QED  BY <1>2, <3>1
  <2>3. CASE w = first /\ Books!WithCode(t, "A") = {}  BY <1>3, <2>3
  <2>. QED  BY <1>6, <2>1, <2>2, <2>3
<1>8. OneNew(Books!SeedWrites(t))  BY <1>7 DEF OneNew
<1>9. Books!WithCode(t, "A") = {} => Books!Insert(t, Books!FirstRow) \in Books!SeedWrites(t)  BY <1>5 DEF first
<1>10. \A i \in Books!WithCode(t, "A") : \E w \in Books!SeedWrites(t) : w.table = t /\ w.id = i
  BY <1>2, <1>5
<1>11. t = "schedule" => \A i \in Books!WithCode(t, "B") : \E w \in Books!SeedWrites(t) : w.table = t /\ w.id = i
  <2>1. Books!Legacy(t) \subseteq Books!SeedWrites(t)
    BY <1>5
  <2>2. ASSUME t = "schedule", NEW i \in Books!WithCode(t, "B")
        PROVE  legacy(i) \in Books!SeedWrites(t) /\ legacy(i).table = t /\ legacy(i).id = i
    <3>1. legacy(i) \in Books!Legacy(t)
      BY <1>4, <2>2
    <3>2. legacy(i).table = t /\ legacy(i).id = i
      BY <1>1, <2>2
    <3>. QED  BY <2>1, <3>1, <3>2
  <2>. QED  BY <2>2
<1>12. \A w \in Books!SeedWrites(t) : SeedWrite(t, w)  BY <1>7 DEF SeedWrite
<1>. QED  BY <1>8, <1>9, <1>10, <1>11, <1>12

LEMMA RunSeedKeeps ==
    ASSUME CatalogInv, NEW s \in Seeds, Books!RunSeed(s)
    PROVE  CatalogInv'
<1>. DEFINE begun == [op |-> "seed", writes |-> {}, left |-> Tables]
<1>1. made < Edits /\ made' = made + 1 /\ tx' = [tx EXCEPT ![s] = begun]
      /\ UNCHANGED <<rows, locked, overlapped, seeded>>
  BY DEF Books!RunSeed
<1>2. tx = [p \in Runners |-> tx[p]] /\ s \in Runners /\ s \notin Actors
  BY IdsCount DEF CatalogInv, CatalogTyped, Runners
<1>3. /\ tx' = [p \in Runners |-> tx'[p]] /\ tx'[s] = begun
      /\ \A p \in Runners \ {s} : tx'[p] = tx[p]
  BY <1>1, <1>2
<1>4. CatalogTyped'
  <2>1. made' \in 0 .. Edits  BY <1>1, IdsCount DEF CatalogInv, CatalogTyped
  <2>2. ASSUME NEW p \in Runners
        PROVE  /\ tx'[p] = [op |-> tx'[p].op, writes |-> tx'[p].writes, left |-> tx'[p].left]
               /\ tx'[p].left \subseteq Tables
               /\ \A w \in tx'[p].writes : EditFits(w) /\ w.table \notin tx'[p].left
               /\ \A w, v \in tx'[p].writes : w.id = 0 /\ v.id = 0 /\ w.table = v.table => w = v
    <3>1. CASE p = s  BY <1>3, <3>1
    <3>2. CASE p # s  BY <1>3, <3>2 DEF CatalogInv, CatalogTyped
    <3>. QED  BY <3>1, <3>2
  <2>. QED  BY <1>1, <1>3, <2>1, <2>2 DEF CatalogInv, CatalogTyped
<1>5. \A p \in Runners : \A w \in tx'[p].writes : p # s /\ w \in tx[p].writes /\ tx'[p] = tx[p]
  BY <1>3
<1>6. CodesKept'
  BY <1>1, <1>5 DEF CatalogInv, CodesKept
<1>7. WhoWrites'
  <2>1. \A q \in Seeds : tx'[q] = Books!Idle \/ tx'[q].op = "seed"
    BY <1>3 DEF CatalogInv, WhoWrites, Runners
  <2>2. \A q \in Actors : tx'[q].op # "seed"
    BY <1>2, <1>3 DEF CatalogInv, WhoWrites, Runners
  <2>3. \A p \in Runners : \A w \in tx'[p].writes :
          w.table = "module" /\ w.id # 0 /\ w.is.live # w.was.live
          => p \in Actors /\ tx'[p].op = "switch"
    BY <1>5 DEF CatalogInv, WhoWrites
  <2>. QED  BY <2>1, <2>2, <2>3 DEF WhoWrites
<1>8. SeedStill' /\ SeedDone'
  <2>1. SeedDone'  BY <1>1 DEF CatalogInv, SeedDone
  <2>2. ASSUME NEW q \in Seeds, tx'[q] # Books!Idle, ~overlapped'
        PROVE  /\ tx'[q].writes = UNION {Books!SeedWrites(t) : t \in Tables \ tx[q].left}'
               /\ \A t \in Tables \ tx'[q].left :
                     Books!WithCode(t, "A")' # {} \/ \E i \in RowIds : rows'[t][i] = Books!NoRow
    <3>1. CASE q = s
      <4>1. Tables \ tx'[q].left = {} /\ tx'[q].writes = {}  BY <1>3, <3>1
      <4>. QED  BY <4>1
    <3>2. CASE q # s
      <4>1. tx'[q] = tx[q]  BY <1>3, <3>2 DEF Runners
      <4>2. /\ tx[q].writes = UNION {Books!SeedWrites(t) : t \in Tables \ tx[q].left}
            /\ \A t \in Tables \ tx[q].left : Books!WithCode(t, "A") # {} \/ \E i \in RowIds : rows[t][i] = Books!NoRow
        BY <1>1, <2>2, <4>1 DEF CatalogInv, SeedStill
      <4>3. UNION {Books!SeedWrites(t) : t \in Tables \ tx[q].left}'
              = UNION {Books!SeedWrites(t) : t \in Tables \ tx[q].left}
        BY <1>1, <4>1, SeedSame
      <4>. QED  BY <1>1, <4>1, <4>2, <4>3, SeedSame
    <3>. QED  BY <3>1, <3>2
  <2>. QED  BY <2>1, <2>2 DEF SeedStill
<1>. QED  BY <1>4, <1>6, <1>7, <1>8 DEF CatalogInv

LEMMA EnsureKeeps ==
    ASSUME CatalogInv, NEW s \in Seeds, Books!Ensure(s)
    PROVE  CatalogInv'
<1>. DEFINE t == Books!Turn(tx[s].left)
            left == tx[s].left \ {t}
            writes == tx[s].writes \cup Books!SeedWrites(t)
<1>1. /\ tx[s].left # {}
      /\ Books!WithCode(t, "A") # {} \/ Books!Space(t)
      /\ tx' = [tx EXCEPT ![s].left = @ \ {t}, ![s].writes = @ \cup Books!SeedWrites(t)]
      /\ UNCHANGED <<rows, locked, made, overlapped, seeded>>
  BY DEF Books!Ensure
<1>2. /\ tx = [p \in Runners |-> tx[p]] /\ s \in Runners /\ s \notin Actors
      /\ tx[s] = [op |-> tx[s].op, writes |-> tx[s].writes, left |-> tx[s].left]
      /\ tx[s].left \subseteq Tables /\ tx[s].left \subseteq Books!AllTables
  BY IdsCount DEF CatalogInv, CatalogTyped, Runners
<1>3. t \in tx[s].left /\ t \in Tables
  BY <1>1, <1>2, TurnIsLeft
<1>4. tx[s] # Books!Idle /\ tx[s].op = "seed"
  <2>1. Books!Idle.left = {}  BY DEF Books!Idle
  <2>. QED  BY <1>1, <2>1 DEF CatalogInv, WhoWrites
<1>. HIDE DEF t
<1>5. /\ tx' = [p \in Runners |-> tx'[p]]
      /\ tx'[s] = [op |-> "seed", writes |-> writes, left |-> left]
      /\ \A p \in Runners \ {s} : tx'[p] = tx[p]
  BY <1>1, <1>2, <1>4
<1>6. /\ \A w \in Books!SeedWrites(t) :
            /\ EditFits(w) /\ w.table = t /\ w.is \in Books!Row
            /\ Books!Meaning(t, w.is.code) = w.is.code
            /\ t = "module" /\ w.id # 0 => w.is.live = w.was.live
      /\ OneNew(Books!SeedWrites(t))
  <2>1. OneNew(Books!SeedWrites(t))  BY <1>3, SeedFits
  <2>2. ASSUME NEW w \in Books!SeedWrites(t)
        PROVE  /\ EditFits(w) /\ w.table = t /\ w.is \in Books!Row
               /\ Books!Meaning(t, w.is.code) = w.is.code
               /\ t = "module" /\ w.id # 0 => w.is.live = w.was.live
    <3>1. SeedWrite(t, w)  BY <1>3, SeedFits
    <3>. QED  BY <3>1 DEF SeedWrite
  <2>. QED  BY <2>1, <2>2
<1>7. \A w \in tx[s].writes : w.table \notin tx[s].left /\ EditFits(w)
  BY <1>2 DEF CatalogInv, CatalogTyped
<1>8. CatalogTyped'
  <2>1. ASSUME NEW p \in Runners
        PROVE  /\ tx'[p] = [op |-> tx'[p].op, writes |-> tx'[p].writes, left |-> tx'[p].left]
               /\ tx'[p].left \subseteq Tables
               /\ \A w \in tx'[p].writes : EditFits(w) /\ w.table \notin tx'[p].left
               /\ \A w, v \in tx'[p].writes : w.id = 0 /\ v.id = 0 /\ w.table = v.table => w = v
    <3>1. CASE p = s
      <4>1. \A w \in writes : EditFits(w) /\ w.table \notin left  BY <1>6, <1>7
      <4>2. ASSUME NEW w \in writes, NEW v \in writes, w.id = 0, v.id = 0, w.table = v.table
            PROVE  w = v
        <5>1. CASE w \in tx[s].writes /\ v \in tx[s].writes
          BY <1>2, <4>2, <5>1 DEF CatalogInv, CatalogTyped
        <5>2. CASE w \in Books!SeedWrites(t) /\ v \in Books!SeedWrites(t)
          BY <1>6, <4>2, <5>2 DEF OneNew
        <5>3. CASE \/ w \in tx[s].writes /\ v \in Books!SeedWrites(t)
                   \/ v \in tx[s].writes /\ w \in Books!SeedWrites(t)
          BY <1>3, <1>6, <1>7, <4>2, <5>3
        <5>. QED  BY <5>1, <5>2, <5>3
      <4>3. left \subseteq Tables  BY <1>2
      <4>. HIDE DEF writes, left
      <4>. QED  BY <1>5, <3>1, <4>1, <4>2, <4>3
    <3>2. CASE p # s  BY <1>5, <3>2 DEF CatalogInv, CatalogTyped
    <3>. QED  BY <3>1, <3>2
  <2>. QED  BY <1>1, <1>5, <2>1 DEF CatalogInv, CatalogTyped
<1>9. CodesKept'
  <2>1. ASSUME NEW p \in Runners, NEW w \in tx'[p].writes, w.is # Books!NoRow
        PROVE  Books!Meaning(w.table, w.is.code) = w.is.code
    <3>1. CASE w \in tx[p].writes  BY <2>1, <3>1 DEF CatalogInv, CodesKept
    <3>2. CASE w \notin tx[p].writes  BY <1>5, <1>6, <2>1, <3>2
    <3>. QED  BY <3>1, <3>2
  <2>. QED  BY <1>1, <2>1 DEF CatalogInv, CodesKept
<1>10. WhoWrites'
  <2>1. \A q \in Seeds : tx'[q] = Books!Idle \/ tx'[q].op = "seed"
    BY <1>5 DEF CatalogInv, WhoWrites, Runners
  <2>2. \A q \in Actors : tx'[q].op # "seed"
    BY <1>2, <1>5 DEF CatalogInv, WhoWrites, Runners
  <2>3. ASSUME NEW p \in Runners, NEW w \in tx'[p].writes,
               w.table = "module", w.id # 0, w.is.live # w.was.live
        PROVE  p \in Actors /\ tx'[p].op = "switch"
    <3>1. CASE w \in tx[p].writes
      <4>1. p \in Actors /\ tx[p].op = "switch"
        BY <2>3, <3>1 DEF CatalogInv, WhoWrites
      <4>. QED  BY <1>2, <1>5, <4>1
    <3>2. CASE w \notin tx[p].writes  BY <1>5, <1>6, <2>3, <3>2
    <3>. QED  BY <3>1, <3>2
  <2>. QED  BY <2>1, <2>2, <2>3 DEF WhoWrites
<1>11. SeedDone'  BY <1>1 DEF CatalogInv, SeedDone
<1>12. SeedStill'
  <2>1. ASSUME NEW q \in Seeds, tx'[q] # Books!Idle, ~overlapped'
        PROVE  /\ tx'[q].writes = UNION {Books!SeedWrites(u) : u \in Tables \ tx[q].left}'
               /\ \A u \in Tables \ tx'[q].left :
                     Books!WithCode(u, "A")' # {} \/ \E i \in RowIds : rows'[u][i] = Books!NoRow
    <3>0. tx[q] # Books!Idle /\ ~overlapped
      BY <1>1, <1>4, <1>5, <2>1 DEF Runners
    <3>1. /\ tx[q].writes = UNION {Books!SeedWrites(u) : u \in Tables \ tx[q].left}
          /\ \A u \in Tables \ tx[q].left : Books!WithCode(u, "A") # {} \/ \E i \in RowIds : rows[u][i] = Books!NoRow
      BY <3>0 DEF CatalogInv, SeedStill
    <3>2. UNION {Books!SeedWrites(u) : u \in Tables \ tx[q].left}'
              = UNION {Books!SeedWrites(u) : u \in Tables \ tx'[q].left}
      BY <1>1, SeedSame
    <3>3. CASE q = s
      <4>1. Tables \ tx'[q].left = (Tables \ tx[q].left) \cup {t}
        BY <1>3, <1>5, <3>3
      <4>2. tx'[q].writes = tx[q].writes \cup Books!SeedWrites(t)  BY <1>5, <3>3
      <4>3. UNION {Books!SeedWrites(u) : u \in Tables \ tx'[q].left}
              = (UNION {Books!SeedWrites(u) : u \in Tables \ tx[q].left}) \cup Books!SeedWrites(t)
        BY <4>1
      <4>4. Books!WithCode(t, "A") # {} \/ \E i \in RowIds : rows[t][i] = Books!NoRow
        BY <1>1, <1>3, SpaceIsFree
      <4>. QED  BY <1>1, <3>1, <3>2, <4>1, <4>2, <4>3, <4>4, SeedSame
    <3>4. CASE q # s
      <4>1. tx'[q] = tx[q]  BY <1>5, <3>4 DEF Runners
      <4>. QED  BY <1>1, <3>1, <3>2, <4>1, SeedSame
    <3>. QED  BY <3>3, <3>4
  <2>. QED  BY <2>1 DEF SeedStill
<1>. QED  BY <1>8, <1>9, <1>10, <1>11, <1>12 DEF CatalogInv

LEMMA ReseededTwice ==
    ASSUME NEW t \in Tables, NEW rec \in Books!Row
    PROVE  /\ Books!Reseeded(t, rec) \in Books!Row /\ Books!Reseeded(t, rec).code = rec.code
           /\ Books!Reseeded(t, Books!Reseeded(t, rec)) = Books!Reseeded(t, rec)
           /\ t \in {"company", "role", "schedule"} => Books!Reseeded(t, rec).live = TRUE
<1>. DEFINE both(x) == [x EXCEPT !.live = TRUE, !.text = "seed"]
            on(x) == [x EXCEPT !.live = TRUE]
            text(x) == [x EXCEPT !.text = "seed"]
<1>1. /\ both(rec) \in Books!Row /\ both(rec).code = rec.code /\ both(rec).live = TRUE
      /\ both(both(rec)) = both(rec)
  BY DEF Books!Row
<1>2. /\ on(rec) \in Books!Row /\ on(rec).code = rec.code /\ on(rec).live = TRUE
      /\ on(on(rec)) = on(rec)
  BY DEF Books!Row
<1>3. text(rec) \in Books!Row /\ text(rec).code = rec.code /\ text(text(rec)) = text(rec)
  BY DEF Books!Row
<1>4. \/ \A x : Books!Reseeded(t, x) = both(x)
      \/ \A x : Books!Reseeded(t, x) = on(x)
      \/ t \in {"module", "status"} /\ \A x : Books!Reseeded(t, x) = text(x)
      \/ t = "link" /\ \A x : Books!Reseeded(t, x) = x
  <2>1. CASE t = "permission"  BY <2>1 DEF Books!Reseeded, Books!SeedSecurity
  <2>2. CASE t \in {"role", "user"}  BY <2>2 DEF Books!Reseeded, Books!SeedSecurity
  <2>3. CASE t = "link"  BY <2>3 DEF Books!Reseeded, Books!SeedSecurity
  <2>4. CASE t = "status"  BY <2>4 DEF Books!Reseeded, Books!SeedStatus
  <2>5. CASE t = "schedule"  BY <2>5 DEF Books!Reseeded, Books!SeedSchedule
  <2>6. CASE t = "module"  BY <2>6 DEF Books!Reseeded, Books!SeedMaster
  <2>7. CASE t \in {"company", "area", "currency", "mailing"}
    BY <2>7 DEF Books!Reseeded, Books!SeedMaster
  <2>. QED  BY <2>1, <2>2, <2>3, <2>4, <2>5, <2>6, <2>7, IdsCount DEF Books!AllTables
<1>. HIDE DEF both, on, text
<1>. QED  BY <1>1, <1>2, <1>3, <1>4

\* The commit of a seed that knew the table as it is.
LEMMA SeededTable ==
    ASSUME CatalogInv, NEW t \in Tables, NEW after, NEW writes,
           TableLeft(after, t, rows[t], writes),
           {w \in writes : w.table = t} = Books!SeedWrites(t),
           Books!WithCode(t, "A") # {} \/ \E i \in RowIds : rows[t][i] = Books!NoRow
    PROVE  /\ AsSeeded(t, after) /\ Books!Unique(after)
           /\ HasFirst(t, after)
           /\ AsSeeded(t, rows[t]) => after = rows[t]
<1>. DEFINE table == rows[t]
            off(x) == [x EXCEPT !.live = FALSE]
<1>1. /\ table \in [RowIds -> Books!Row \cup {Books!NoRow}]
      /\ Books!In(table) \subseteq RowIds
      /\ \A i \in Books!In(table) : table[i] \in Books!Row /\ i \in RowIds \ {0}
      /\ \A i \in RowIds : i \in Books!In(table) <=> table[i] # Books!NoRow
      /\ Books!Unique(table)
  <2>1. Books!Unique(table)  BY DEF CatalogInv, CodesKept
  <2>. QED  BY <2>1, TableHolds
<1>2. /\ after \in [RowIds -> Books!Row \cup {Books!NoRow}]
      /\ \A i \in Books!In(table) : Mine(t, i, writes) = {} => after[i] = table[i]
      /\ \A i \in RowIds \ Books!In(table) : after[i] = Books!NoRow \/ \E w \in NewIn(t, writes) : after[i] = w.is
  BY DEF TableLeft
<1>3. \A i \in RowIds : i \in Books!In(after) <=> after[i] # Books!NoRow
  <2>1. DOMAIN after = RowIds  BY <1>2
  <2>. QED  BY <2>1 DEF Books!In
<1>4. Books!In(after) \subseteq RowIds
  <2>1. DOMAIN after = RowIds  BY <1>2
  <2>. QED  BY <2>1 DEF Books!In
<1>5. \A w \in writes : w.table = t => w \in Books!SeedWrites(t) /\ SeedWrite(t, w)
  BY SeedFits
<1>6. \A w \in Books!SeedWrites(t) : w \in writes /\ w.table = t
  OBVIOUS
<1>7. /\ \A i \in Books!In(table) : Mine(t, i, writes) # {} =>
            \E w \in Mine(t, i, writes) : after[i] = Books!Changed(table[i], w)
      /\ \A i, j \in RowIds \ Books!In(table) : after[i] = after[j] => i = j \/ after[i] = Books!NoRow
      /\ RowIds \ Books!In(table) # {} =>
            \A w \in NewIn(t, writes) : \E i \in RowIds \ Books!In(table) : after[i] = w.is
  <2>1. \A w \in writes : w.table = t => w.is # Books!NoRow
    <3>1. \A w \in writes : w.table = t => w.is \in Books!Row  BY <1>5 DEF SeedWrite
    <3>. QED  BY <3>1, NoneIsNoRow
  <2>. QED  BY <2>1 DEF TableLeft
<1>. HIDE DEF table, off
<1>8. ASSUME NEW i \in Books!In(table), NEW w \in Mine(t, i, writes), after[i] = Books!Changed(table[i], w)
      PROVE  \/ table[i].code = "A" /\ after[i] = Books!Reseeded(t, table[i])
             \/ t = "schedule" /\ table[i].code = "B" /\ after[i] = off(table[i])
  <2>1. w.id = i /\ w.id # 0 /\ SeedWrite(t, w)  BY <1>1, <1>5 DEF Mine
  <2>2. /\ w.was = table[i] /\ w.was.code \in {"A", "B"} /\ w.was \in Books!Row /\ w.is \in Books!Row
        /\ w.was.code = "A" => w.is = Books!Reseeded(t, w.was)
        /\ w.was.code = "B" => t = "schedule" /\ w.is = off(w.was)
    BY <1>1, <2>1 DEF SeedWrite, table, off
  <2>3. after[i] = w.is  BY <1>8, <2>2, RowChanged
  <2>. QED  BY <2>2, <2>3
<1>9. ASSUME NEW i \in Books!In(table)
      PROVE  /\ table[i].code = "A" => after[i] = Books!Reseeded(t, table[i])
             /\ t = "schedule" /\ table[i].code = "B" => after[i] = off(table[i])
             /\ table[i].code # "A" /\ ~(t = "schedule" /\ table[i].code = "B") => after[i] = table[i]
  <2>1. CASE Mine(t, i, writes) # {}
    <3>1. PICK w \in Mine(t, i, writes) : after[i] = Books!Changed(table[i], w)  BY <1>7, <2>1
    <3>. QED  BY <1>8, <3>1
  <2>2. CASE Mine(t, i, writes) = {}
    <3>1. table[i].code # "A"
      <4>1. SUFFICES ASSUME table[i].code = "A" PROVE FALSE
        OBVIOUS
      <4>2. i \in Books!WithCode(t, "A")  BY <4>1 DEF Books!WithCode, table
      <4>3. PICK w \in Books!SeedWrites(t) : w.table = t /\ w.id = i  BY <4>2, SeedFits
      <4>. QED  BY <1>6, <2>2, <4>3 DEF Mine
    <3>2. ~(t = "schedule" /\ table[i].code = "B")
      <4>1. SUFFICES ASSUME t = "schedule", table[i].code = "B" PROVE FALSE
        OBVIOUS
      <4>2. i \in Books!WithCode(t, "B")  BY <4>1 DEF Books!WithCode, table
      <4>3. PICK w \in Books!SeedWrites(t) : w.table = t /\ w.id = i  BY <4>1, <4>2, SeedFits
      <4>. QED  BY <1>6, <2>2, <4>3 DEF Mine
    <3>. QED  BY <1>2, <2>2, <3>1, <3>2
  <2>. QED  BY <2>1, <2>2
<1>10. \A x \in Books!Row : off(x) \in Books!Row /\ off(x).code = x.code /\ off(x).live = FALSE
                      /\ (~x.live => off(x) = x)
  BY DEF Books!Row, off
<1>11. ASSUME NEW i \in Books!In(table)
       PROVE  i \in Books!In(after) /\ after[i].code = table[i].code
  <2>1. table[i] \in Books!Row  BY <1>1
  <2>2. after[i] \in Books!Row /\ after[i].code = table[i].code
    <3>0. Books!Reseeded(t, table[i]) \in Books!Row /\ Books!Reseeded(t, table[i]).code = table[i].code
      BY <2>1, ReseededTwice
    <3>1. CASE table[i].code = "A"
      <4>1. after[i] = Books!Reseeded(t, table[i])  BY <1>9, <3>1
      <4>. QED  BY <3>0, <4>1
    <3>2. CASE t = "schedule" /\ table[i].code = "B"
      <4>1. after[i] = off(table[i])  BY <1>9, <3>2
      <4>. QED  BY <1>10, <2>1, <4>1
    <3>3. CASE table[i].code # "A" /\ ~(t = "schedule" /\ table[i].code = "B")
      BY <1>9, <2>1, <3>3
    <3>. QED  BY <3>1, <3>2, <3>3
  <2>. QED  BY <1>1, <1>3, <2>2, NoneIsNoRow
<1>12. Books!FirstRow \in Books!Row /\ Books!FirstRow.code = "A" /\ Books!FirstRow.live = TRUE
       /\ Books!Reseeded(t, Books!FirstRow) = Books!FirstRow
  <2>1. Books!FirstRow \in Books!Row /\ Books!FirstRow.code = "A" /\ Books!FirstRow.live = TRUE
    BY DEF Books!FirstRow, Books!Row, Books!Spelling
  <2>2. /\ [Books!FirstRow EXCEPT !.live = TRUE, !.text = "seed"] = Books!FirstRow
        /\ [Books!FirstRow EXCEPT !.live = TRUE] = Books!FirstRow
        /\ [Books!FirstRow EXCEPT !.text = "seed"] = Books!FirstRow
    <3>1. Books!FirstRow.text = "seed"  BY DEF Books!FirstRow
    <3>2. \A x \in Books!Row : x.live = TRUE /\ x.text = "seed" =>
             /\ [x EXCEPT !.live = TRUE, !.text = "seed"] = x
             /\ [x EXCEPT !.live = TRUE] = x
             /\ [x EXCEPT !.text = "seed"] = x
      BY DEF Books!Row
    <3>. QED  BY <2>1, <3>1, <3>2
  <2>3. Books!Reseeded(t, Books!FirstRow) = Books!FirstRow
    <3>. HIDE DEF Books!FirstRow
    <3>1. CASE t = "permission"  BY <2>2, <3>1 DEF Books!Reseeded, Books!SeedSecurity
    <3>2. CASE t \in {"role", "user"}  BY <2>2, <3>2 DEF Books!Reseeded, Books!SeedSecurity
    <3>3. CASE t = "link"  BY <3>3 DEF Books!Reseeded, Books!SeedSecurity
    <3>4. CASE t = "status"  BY <2>2, <3>4 DEF Books!Reseeded, Books!SeedStatus
    <3>5. CASE t = "schedule"  BY <2>2, <3>5 DEF Books!Reseeded, Books!SeedSchedule
    <3>6. CASE t = "module"  BY <2>2, <3>6 DEF Books!Reseeded, Books!SeedMaster
    <3>7. CASE t \in {"company", "area", "currency", "mailing"}
      BY <2>2, <3>7 DEF Books!Reseeded, Books!SeedMaster
    <3>. QED  BY <3>1, <3>2, <3>3, <3>4, <3>5, <3>6, <3>7, IdsCount DEF Books!AllTables
  <2>. QED  BY <2>1, <2>3
<1>13. ASSUME NEW i \in Books!In(after), i \notin Books!In(table)
       PROVE  after[i] = Books!FirstRow /\ Books!WithCode(t, "A") = {}
  <2>1. PICK w \in NewIn(t, writes) : after[i] = w.is  BY <1>2, <1>3, <1>4, <1>13
  <2>2. w.id = 0 /\ SeedWrite(t, w)  BY <1>5 DEF NewIn
  <2>. QED  BY <2>1, <2>2 DEF SeedWrite
<1>14. Books!WithCode(t, "A") = {i \in Books!In(table) : table[i].code = "A"}
  BY DEF Books!WithCode, table
<1>15. \E i \in Books!In(after) : after[i].code = "A"
  <2>1. CASE Books!WithCode(t, "A") # {}  BY <1>11, <1>14, <2>1
  <2>2. CASE Books!WithCode(t, "A") = {}
    <3>1. Books!Insert(t, Books!FirstRow) \in Books!SeedWrites(t)  BY <2>2, SeedFits
    <3>2. Books!Insert(t, Books!FirstRow).is = Books!FirstRow /\ Books!Insert(t, Books!FirstRow).id = 0
      BY InsertFits, <1>12
    <3>3. Books!Insert(t, Books!FirstRow) \in NewIn(t, writes)  BY <1>6, <3>1, <3>2 DEF NewIn
    <3>4. RowIds \ Books!In(table) # {}  BY <1>1, <2>2 DEF table
    <3>5. PICK i \in RowIds \ Books!In(table) : after[i] = Books!FirstRow  BY <1>7, <3>2, <3>3, <3>4
    <3>. QED  BY <1>3, <1>12, <3>5, NoneIsNoRow
  <2>. QED  BY <2>1, <2>2
<1>16. ASSUME NEW i \in Books!In(after)
       PROVE  /\ after[i].code = "A" => Books!Reseeded(t, after[i]) = after[i]
              /\ after[i].code = "A" /\ t \in {"company", "role", "schedule"} => after[i].live = TRUE
              /\ t = "schedule" /\ after[i].code = "B" => ~after[i].live
  <2>1. CASE i \in Books!In(table)
    <3>1. table[i] \in Books!Row /\ after[i].code = table[i].code  BY <1>1, <1>11, <2>1
    <3>2. CASE table[i].code = "A"  BY <1>9, <2>1, <3>1, <3>2, ReseededTwice
    <3>3. CASE t = "schedule" /\ table[i].code = "B"  BY <1>9, <1>10, <2>1, <3>1, <3>3
    <3>. QED  BY <3>1, <3>2, <3>3
  <2>2. CASE i \notin Books!In(table)  BY <1>12, <1>13, <2>2
  <2>. QED  BY <2>1, <2>2
<1>17. Books!Unique(after)
  <2>. SUFFICES ASSUME NEW i \in Books!In(after), NEW j \in Books!In(after), after[i].code = after[j].code
                PROVE  i = j
    BY DEF Books!Unique, Books!UniqueBy
  <2>1. CASE i \in Books!In(table) /\ j \in Books!In(table)
    BY <1>1, <1>11, <2>1 DEF Books!Unique, Books!UniqueBy
  <2>2. CASE i \notin Books!In(table) /\ j \notin Books!In(table)
    <3>1. after[i] = after[j] /\ after[i] # Books!NoRow  BY <1>3, <1>4, <1>13, <2>2
    <3>. QED  BY <1>4, <1>7, <2>2, <3>1
  <2>3. \A k \in Books!In(table) : after[k].code = "A" => Books!WithCode(t, "A") # {}
    BY <1>11, <1>14
  <2>. QED  BY <1>12, <1>13, <2>1, <2>2, <2>3
<1>18. ASSUME AsSeeded(t, table) PROVE after = table
  <2>1. /\ Books!WithCode(t, "A") # {}
        /\ \A i \in Books!In(table) : table[i].code = "A" => Books!Reseeded(t, table[i]) = table[i]
        /\ t = "schedule" => \A i \in Books!In(table) : table[i].code = "B" => ~table[i].live
    BY <1>14, <1>18 DEF AsSeeded
  <2>2. \A i \in Books!In(table) : after[i] = table[i]
    BY <1>1, <1>9, <1>10, <2>1
  <2>3. \A i \in RowIds \ Books!In(table) : after[i] = Books!NoRow /\ table[i] = Books!NoRow
    BY <1>1, <1>3, <1>13, <2>1
  <2>4. \A i \in RowIds : after[i] = table[i]  BY <2>2, <2>3
  <2>. QED  BY <1>1, <1>2, <2>4
<1>19. AsSeeded(t, after)  BY <1>15, <1>16 DEF AsSeeded
<1>20. HasFirst(t, after)
  BY <1>3, <1>4, <1>15, <1>16 DEF HasFirst
<1>. QED  BY <1>17, <1>18, <1>19, <1>20 DEF table

\* The tables as the commit of p would leave them.
Left(p) == [t \in Tables |-> Books!After(t, rows[t], tx[p].writes)]

LEMMA LeftBy ==
    ASSUME CatalogInv, NEW p \in Runners, NEW t \in Tables
    PROVE  TableLeft(Left(p)[t], t, rows[t], tx[p].writes)
<1>1. \A w \in tx[p].writes : EditFits(w)
  BY DEF CatalogInv, CatalogTyped
<1>2. OneNew(tx[p].writes)
  BY DEF CatalogInv, CatalogTyped, OneNew
<1>3. rows[t] \in [RowIds -> Books!Row \cup {Books!NoRow}]  BY TableHolds
<1>4. Left(p)[t] = Books!After(t, rows[t], tx[p].writes)  BY DEF Left
<1>. QED  BY <1>1, <1>2, <1>3, <1>4, TableAfter

\* A row of the table that is left: one that stayed, one with columns changed, one inserted.
LEMMA RowLeft ==
    ASSUME CatalogInv, NEW p \in Runners, NEW t \in Tables, NEW i \in RowIds, Left(p)[t][i] # Books!NoRow
    PROVE  \/ i \in Books!In(rows[t]) /\ Left(p)[t][i] = rows[t][i]
           \/ /\ i \in Books!In(rows[t])
              /\ \E w \in Mine(t, i, tx[p].writes) : /\ w.is \in Books!Row /\ w.was \in Books!Row /\ w.id # 0
                                                     /\ Left(p)[t][i] = Books!Changed(rows[t][i], w)
           \/ \E w \in NewIn(t, tx[p].writes) : w.is \in Books!Row /\ Left(p)[t][i] = w.is
<1>. DEFINE after == Left(p)[t]
            writes == tx[p].writes
<1>1. TableLeft(after, t, rows[t], writes)  BY LeftBy
<1>2. \A w \in writes : EditFits(w)  BY DEF CatalogInv, CatalogTyped
<1>3. \A w \in NewIn(t, writes) : w.is \in Books!Row  BY <1>2 DEF NewIn, EditFits
<1>4. \A w \in Mine(t, i, writes) : w.is # Books!NoRow => w.is \in Books!Row /\ w.was \in Books!Row /\ w.id # 0
  BY <1>2, IdsCount DEF Mine, EditFits
<1>. HIDE DEF after, writes
<1>5. CASE i \in Books!In(rows[t]) /\ Mine(t, i, writes) = {}
  BY <1>1, <1>5 DEF TableLeft, after, writes
<1>6. CASE i \in Books!In(rows[t]) /\ Mine(t, i, writes) # {}
  <2>1. \/ \E w \in Mine(t, i, writes) : w.is # Books!NoRow /\ after[i] = Books!Changed(rows[t][i], w)
        \/ \E w \in NewIn(t, writes) : after[i] = w.is
    BY <1>1, <1>6 DEF TableLeft, after
  <2>. QED  BY <1>3, <1>4, <1>6, <2>1 DEF after, writes
<1>7. CASE i \notin Books!In(rows[t])
  <2>1. \E w \in NewIn(t, writes) : after[i] = w.is
    BY <1>1, <1>7 DEF TableLeft, after
  <2>. QED  BY <1>3, <2>1 DEF after, writes
<1>. QED  BY <1>5, <1>6, <1>7

LEMMA LeftIsKept ==
    ASSUME CatalogInv, NEW p \in Runners, NEW t \in Tables
    PROVE  /\ Left(p)[t] \in [RowIds -> Books!Row \cup {Books!NoRow}]
           /\ \A i \in Books!In(Left(p)[t]) : Books!Meaning(t, Left(p)[t][i].code) = Left(p)[t][i].code
<1>. DEFINE after == Left(p)[t]
<1>1. after \in [RowIds -> Books!Row \cup {Books!NoRow}]
  BY LeftBy DEF TableLeft
<1>2. \A i \in Books!In(after) : i \in RowIds /\ after[i] # Books!NoRow
  BY <1>1 DEF Books!In
<1>3. ASSUME NEW i \in RowIds, after[i] # Books!NoRow PROVE Books!Meaning(t, after[i].code) = after[i].code
  <2>1. CASE i \in Books!In(rows[t]) /\ after[i] = rows[t][i]
    BY <2>1, TableHolds
  <2>2. ASSUME i \in Books!In(rows[t]), NEW w \in Mine(t, i, tx[p].writes), w.is \in Books!Row, w.was \in Books!Row,
               after[i] = Books!Changed(rows[t][i], w)
        PROVE  Books!Meaning(t, after[i].code) = after[i].code
    <3>1. rows[t][i] \in Books!Row /\ Books!Meaning(t, rows[t][i].code) = rows[t][i].code
      BY <2>2, TableHolds
    <3>2. Books!Changed(rows[t][i], w).code \in {rows[t][i].code, w.is.code}
      BY <2>2, <3>1, RowChanged
    <3>3. w \in tx[p].writes /\ w.table = t  BY DEF Mine
    <3>4. Books!Meaning(t, w.is.code) = w.is.code
      BY <2>2, <3>3, NoneIsNoRow DEF CatalogInv, CodesKept
    <3>. QED  BY <2>2, <3>1, <3>2, <3>4
  <2>3. ASSUME NEW w \in NewIn(t, tx[p].writes), w.is \in Books!Row, after[i] = w.is
        PROVE  Books!Meaning(t, after[i].code) = after[i].code
    <3>1. w \in tx[p].writes /\ w.table = t  BY DEF NewIn
    <3>. QED  BY <2>3, <3>1, NoneIsNoRow DEF CatalogInv, CodesKept
  <2>. QED  BY <1>3, <2>1, <2>2, <2>3, RowLeft
<1>. QED  BY <1>1, <1>2, <1>3

\* A seed that commits with nothing beside it since it began.
LEMMA SeedLands ==
    ASSUME CatalogInv, NEW p \in Seeds, tx[p] # Books!Idle, tx[p].left = {}, ~overlapped
    PROVE  \A t \in Tables :
              /\ AsSeeded(t, Left(p)[t]) /\ Books!Unique(Left(p)[t])
              /\ HasFirst(t, Left(p)[t])
              /\ AsSeeded(t, rows[t]) => Left(p)[t] = rows[t]
<1>. DEFINE writes == tx[p].writes
<1>1. /\ writes = UNION {Books!SeedWrites(t) : t \in Tables}
      /\ \A t \in Tables : Books!WithCode(t, "A") # {} \/ \E i \in RowIds : rows[t][i] = Books!NoRow
  <2>1. Tables \ tx[p].left = Tables  OBVIOUS
  <2>. QED  BY <2>1 DEF CatalogInv, SeedStill
<1>2. \A t \in Tables : \A w \in Books!SeedWrites(t) : w.table = t
  BY SeedFits DEF SeedWrite
<1>. HIDE DEF writes
<1>3. ASSUME NEW t \in Tables PROVE {w \in writes : w.table = t} = Books!SeedWrites(t)
  BY <1>1, <1>2
<1>. TAKE t \in Tables
<1>4. TableLeft(Left(p)[t], t, rows[t], writes)
  BY LeftBy DEF writes, Runners
<1>. DEFINE after == Left(p)[t]
<1>. HIDE DEF after
<1>. QED  BY <1>1, <1>3, <1>4, SeededTable DEF after

LEMMA BookCommits ==
    ASSUME CatalogInv, NEW p \in Runners, Books!Commit(p)
    PROVE  /\ CatalogInv'
           /\ \A t \in Tables : rows'[t] = rows[t] \/ rows'[t] = Left(p)[t]
           /\ \A q \in Runners : q # p => tx'[q] = tx[q]
<1>. DEFINE fine == \A t \in Tables : Books!Unique(Left(p)[t])
<1>1. /\ tx[p] # Books!Idle /\ tx[p].left = {}
      /\ rows' = IF fine THEN Left(p) ELSE rows
      /\ tx' = [tx EXCEPT ![p] = Books!Idle]
      /\ overlapped' = (overlapped \/ (rows' # rows /\ \E q \in Runners : q # p /\ tx[q] # Books!Idle))
      /\ seeded' = IF tx[p].op = "seed" THEN TRUE ELSE seeded /\ rows' = rows
      /\ UNCHANGED <<locked, made>>
  BY DEF Books!Commit, Left, Runners
<1>2. /\ tx = [q \in Runners |-> tx[q]]
      /\ rows = [t \in Tables |-> rows[t]] /\ Left(p) = [t \in Tables |-> Left(p)[t]]
      /\ overlapped \in BOOLEAN /\ seeded \in BOOLEAN
  BY DEF CatalogInv, CatalogTyped, Left
<1>3. tx' = [q \in Runners |-> tx'[q]] /\ tx'[p] = Books!Idle /\ \A q \in Runners \ {p} : tx'[q] = tx[q]
  BY <1>1, <1>2
<1>4. /\ \A t \in Tables : rows'[t] = rows[t] \/ (fine /\ rows'[t] = Left(p)[t])
      /\ rows' = [t \in Tables |-> rows'[t]]
  <2>1. CASE fine  BY <1>1, <1>2, <2>1
  <2>2. CASE ~fine  BY <1>1, <1>2, <2>2
  <2>. QED  BY <2>1, <2>2
<1>. HIDE DEF fine
<1>5. \A q \in Runners : \A w \in tx'[q].writes : q # p /\ w \in tx[q].writes
  BY <1>3 DEF Books!Idle
<1>6. CatalogTyped'
  <2>1. \A t \in Tables : rows'[t] \in [RowIds -> Books!Row \cup {Books!NoRow}]
    BY <1>4, LeftIsKept, TableHolds
  <2>2. rows' \in [Tables -> [RowIds -> Books!Row \cup {Books!NoRow}]]
    BY <1>4, <2>1
  <2>3. overlapped' \in BOOLEAN /\ seeded' \in BOOLEAN
    BY <1>1, <1>2
  <2>4. ASSUME NEW q \in Runners
        PROVE  /\ tx'[q] = [op |-> tx'[q].op, writes |-> tx'[q].writes, left |-> tx'[q].left]
               /\ tx'[q].left \subseteq Tables
               /\ \A w \in tx'[q].writes : EditFits(w) /\ w.table \notin tx'[q].left
               /\ \A w, v \in tx'[q].writes : w.id = 0 /\ v.id = 0 /\ w.table = v.table => w = v
    <3>1. CASE q = p  BY <1>3, <3>1 DEF Books!Idle
    <3>2. CASE q # p  BY <1>3, <3>2 DEF CatalogInv, CatalogTyped
    <3>. QED  BY <3>1, <3>2
  <2>. QED  BY <1>1, <1>3, <2>2, <2>3, <2>4 DEF CatalogInv, CatalogTyped
<1>7. CodesKept'
  <2>1. \A t \in Tables : /\ Books!Unique(rows'[t])
                          /\ \A i \in Books!In(rows'[t]) : Books!Meaning(t, rows'[t][i].code) = rows'[t][i].code
    <3>. TAKE t \in Tables
    <3>1. CASE rows'[t] = rows[t]  BY <3>1 DEF CatalogInv, CodesKept
    <3>2. CASE fine /\ rows'[t] = Left(p)[t]  BY <3>2, LeftIsKept DEF fine
    <3>. QED  BY <1>4, <3>1, <3>2
  <2>2. \A q \in Runners : \A w \in tx'[q].writes : w.is # Books!NoRow => Books!Meaning(w.table, w.is.code) = w.is.code
    BY <1>5 DEF CatalogInv, CodesKept
  <2>. QED  BY <2>1, <2>2 DEF CodesKept
<1>8. WhoWrites'
  <2>1. \A q \in Seeds : tx'[q] = Books!Idle \/ tx'[q].op = "seed"
    BY <1>3 DEF CatalogInv, WhoWrites, Runners
  <2>2. \A q \in Actors : tx'[q].op # "seed"
    BY <1>3 DEF CatalogInv, WhoWrites, Runners, Books!Idle
  <2>3. \A q \in Runners : \A w \in tx'[q].writes :
          w.table = "module" /\ w.id # 0 /\ w.is.live # w.was.live
          => q \in Actors /\ tx'[q].op = "switch"
    BY <1>3, <1>5 DEF CatalogInv, WhoWrites
  <2>. QED  BY <2>1, <2>2, <2>3 DEF WhoWrites
<1>9. SeedStill'
  <2>1. ASSUME NEW q \in Seeds, tx'[q] # Books!Idle, ~overlapped'
        PROVE  /\ tx'[q].writes = UNION {Books!SeedWrites(u) : u \in Tables \ tx[q].left}'
               /\ \A u \in Tables \ tx'[q].left :
                     Books!WithCode(u, "A")' # {} \/ \E i \in RowIds : rows'[u][i] = Books!NoRow
    <3>1. q # p /\ tx'[q] = tx[q] /\ tx[q] # Books!Idle  BY <1>3, <2>1 DEF Runners
    <3>2. rows' = rows /\ ~overlapped  BY <1>1, <1>2, <2>1, <3>1 DEF Runners
    <3>3. /\ tx[q].writes = UNION {Books!SeedWrites(u) : u \in Tables \ tx[q].left}
          /\ \A u \in Tables \ tx[q].left : Books!WithCode(u, "A") # {} \/ \E i \in RowIds : rows[u][i] = Books!NoRow
      BY <3>1, <3>2 DEF CatalogInv, SeedStill
    <3>4. UNION {Books!SeedWrites(u) : u \in Tables \ tx[q].left}'
            = UNION {Books!SeedWrites(u) : u \in Tables \ tx[q].left}
      BY <3>1, <3>2, SeedSame
    <3>. QED  BY <3>1, <3>2, <3>3, <3>4, SeedSame
  <2>. QED  BY <2>1 DEF SeedStill
<1>10. SeedDone'
  <2>1. ASSUME seeded', ~overlapped', NEW t \in Tables PROVE AsSeeded(t, rows'[t])
    <3>1. ~overlapped  BY <1>1, <1>2, <2>1
    <3>2. CASE tx[p].op = "seed"
      <4>1. p \in Seeds  BY <3>2 DEF CatalogInv, WhoWrites, Runners
      <4>2. \A u \in Tables : AsSeeded(u, Left(p)[u]) /\ Books!Unique(Left(p)[u])
        BY <1>1, <3>1, <4>1, SeedLands
      <4>3. fine  BY <4>2 DEF fine
      <4>. QED  BY <1>1, <4>2, <4>3
    <3>3. CASE tx[p].op # "seed"
      <4>1. seeded /\ rows' = rows  BY <1>1, <2>1, <3>3
      <4>. QED  BY <3>1, <4>1 DEF CatalogInv, SeedDone
    <3>. QED  BY <3>2, <3>3
  <2>. QED  BY <2>1 DEF SeedDone
<1>11. \A q \in Runners : q # p => tx'[q] = tx[q]  BY <1>3
<1>. QED  BY <1>4, <1>6, <1>7, <1>8, <1>9, <1>10, <1>11 DEF CatalogInv

LEMMA BooksStart == Books!Init => CatalogInv
<1>. SUFFICES ASSUME Books!Init PROVE CatalogInv
  OBVIOUS
<1>. DEFINE one == [i \in RowIds |-> IF i = 1 THEN Books!FirstRow ELSE Books!NoRow]
            none == [i \in RowIds |-> Books!NoRow]
<1>1. /\ rows \in [Tables -> {none, one}]
      /\ tx = [p \in Runners |-> Books!Idle] /\ made = 0 /\ overlapped = FALSE /\ seeded = FALSE
  BY DEF Books!Init, Runners
<1>2. Books!FirstRow \in Books!Row /\ Books!FirstRow.code = "A"  BY DEF Books!FirstRow, Books!Row, Books!Spelling
<1>3. none \in [RowIds -> Books!Row \cup {Books!NoRow}] /\ one \in [RowIds -> Books!Row \cup {Books!NoRow}]
  BY <1>2
<1>4. ASSUME NEW t \in Tables, NEW i \in Books!In(rows[t])
      PROVE  i = 1 /\ rows[t][i] = Books!FirstRow
  <2>1. rows[t] \in {none, one}  BY <1>1
  <2>2. i \in RowIds /\ rows[t][i] # Books!NoRow  BY <1>3, <2>1, <1>4 DEF Books!In
  <2>. QED  BY <2>1, <2>2
<1>5. \A t \in Tables : rows[t] \in [RowIds -> Books!Row \cup {Books!NoRow}]  BY <1>1, <1>3
<1>6. rows \in [Tables -> [RowIds -> Books!Row \cup {Books!NoRow}]]  BY <1>1, <1>5
<1>7. \A p \in Runners : tx[p] = Books!Idle  BY <1>1
<1>. HIDE DEF none, one
<1>8. CatalogTyped
  <2>1. \A p \in Runners : tx[p].writes = {} /\ tx[p].left = {}
                           /\ tx[p] = [op |-> tx[p].op, writes |-> tx[p].writes, left |-> tx[p].left]
    BY <1>7 DEF Books!Idle
  <2>2. made \in 0 .. Edits  BY <1>1, IdsCount
  <2>3. tx = [p \in Runners |-> tx[p]]  BY <1>1
  <2>. QED  BY <1>1, <1>6, <2>1, <2>2, <2>3 DEF CatalogTyped
<1>9. CodesKept
  <2>1. \A t : Books!Meaning(t, "A") = "A"  BY DEF Books!Meaning
  <2>2. \A t \in Tables : Books!Unique(rows[t])  BY <1>4 DEF Books!Unique, Books!UniqueBy
  <2>3. \A t \in Tables : \A i \in Books!In(rows[t]) : Books!Meaning(t, rows[t][i].code) = rows[t][i].code
    BY <1>2, <1>4, <2>1
  <2>4. \A p \in Runners : tx[p].writes = {}  BY <1>7 DEF Books!Idle
  <2>. QED  BY <2>2, <2>3, <2>4 DEF CodesKept
<1>10. WhoWrites
  <2>1. \A p \in Runners : tx[p].writes = {} /\ tx[p].op = "idle"  BY <1>7 DEF Books!Idle
  <2>2. \A s \in Seeds : tx[s] = Books!Idle  BY <1>7 DEF Runners
  <2>3. \A r \in Actors : tx[r].op = "idle"  BY <2>1 DEF Runners
  <2>. QED  BY <2>1, <2>2, <2>3 DEF WhoWrites
<1>11. SeedStill /\ SeedDone
  BY <1>1, <1>7 DEF SeedStill, SeedDone, Runners
<1>. QED  BY <1>8, <1>9, <1>10, <1>11 DEF CatalogInv

\* Nothing of the catalogue changes.
LEMMA BooksStill ==
    ASSUME CatalogInv, UNCHANGED catalogVars PROVE CatalogInv'
<1>1. UNCHANGED <<rows, locked, tx, made, overlapped, seeded>>
  BY DEF catalogVars
<1>2. CatalogTyped' /\ CodesKept' /\ WhoWrites'
  BY <1>1 DEF CatalogInv, CatalogTyped, CodesKept, WhoWrites
<1>3. SeedStill' /\ SeedDone'  BY <1>1, SeedsStay
<1>. QED  BY <1>2, <1>3 DEF CatalogInv

LEMMA BooksStep ==
    ASSUME CatalogInv, Books!Next PROVE CatalogInv'
<1>1. ASSUME NEW r \in Actors, NEW t \in Tables,
             \/ \E c \in Books!Spellings(t) : Books!Create(r, t, c)
             \/ \E i \in RowIds :
                  \/ \E c \in Books!Spellings(t) : Books!Edit(r, t, i, c)
                  \/ \E live \in BOOLEAN : Books!SetActive(r, t, i, live)
                  \/ Books!Unlink(r, t, i)
                  \/ Books!Advance(r, t, i)
      PROVE  CatalogInv'
  BY <1>1, EditsKeep
<1>2. ASSUME NEW r \in Actors, NEW c \in Books!Catalogued, NEW enabled \in BOOLEAN,
             NEW own \in {"none", "set"}, Books!SetModuleEnabled(r, c, enabled, own)
      PROVE  CatalogInv'
  BY <1>2, SwitchKeeps
<1>3. ASSUME NEW s \in Seeds, Books!RunSeed(s) PROVE CatalogInv'
  BY <1>3, RunSeedKeeps
<1>4. ASSUME NEW s \in Seeds, Books!Ensure(s) PROVE CatalogInv'
  BY <1>4, EnsureKeeps
<1>5. ASSUME NEW p \in Runners, Books!Commit(p) PROVE CatalogInv'
  BY <1>5, BookCommits
<1>6. ASSUME UNCHANGED <<rows, locked, tx, made, overlapped, seeded>> PROVE CatalogInv'
  BY <1>6, BooksStill DEF catalogVars
<1>. QED  BY <1>1, <1>2, <1>3, <1>4, <1>5, <1>6 DEF Books!Next, Runners, Books!catalogVars

\* In the behaviours of the other modules the catalogue stays where it begins.
LEMMA CatalogHolds == RecordsSpec => []CatalogInv
<1>1. RecordsInit => CatalogInv
  BY BooksStart DEF RecordsInit
<1>2. CatalogInv /\ [RecordsNext]_recordVars => CatalogInv'
  <2>1. [RecordsNext]_recordVars => Books!Next \/ UNCHANGED catalogVars
    BY DEF RecordsNext, CatalogNext, AccessNext, LedgerNext, recordVars
  <2>. QED  BY <2>1, BooksStep, BooksStill
<1>. QED  BY <1>1, <1>2, PTL DEF RecordsSpec

LEMMA CatalogIsTyped == CatalogInv => Books!TypeOK
<1>. SUFFICES ASSUME CatalogInv PROVE Books!TypeOK
  OBVIOUS
<1>1. \A p \in Runners : \A w \in tx[p].writes : w.table \in Tables /\ w.id \in RowIds \cup {0}
  BY DEF CatalogInv, CatalogTyped, EditFits
<1>. QED  BY <1>1 DEF CatalogInv, CatalogTyped, Books!TypeOK, Runners

LEMMA CodesAreOne == CatalogInv => Books!NoTwins
<1>. SUFFICES ASSUME CatalogInv, NEW t \in Tables, NEW i \in Books!In(rows[t]), NEW j \in Books!In(rows[t]),
                     Books!Meaning(t, rows[t][i].code) = Books!Meaning(t, rows[t][j].code)
              PROVE  i = j
  BY DEF Books!NoTwins
<1>1. rows[t][i].code = rows[t][j].code  BY TableHolds
<1>. QED  BY <1>1 DEF CatalogInv, CodesKept, Books!Unique, Books!UniqueBy

LEMMA PanelIsGate == Books!PanelAgreesWithGate
<1>. SUFFICES ASSUME NEW c \in Books!Catalogued
              PROVE  /\ (c \in Books!EnabledCodes) <=> (Books!DisabledReason(c) = "on")
                     /\ Books!Panel(c).enabled <=> (c \in Books!EnabledCodes)
                     /\ Books!Panel(c).reason = Books!DisabledReason(c)
  BY DEF Books!PanelAgreesWithGate
<1>1. c \in Books!EnabledCodes <=> c \notin locked /\ (Books!ModuleRow(c) = Books!NoRow \/ Books!ModuleRow(c).live)
  BY DEF Books!EnabledCodes
<1>2. /\ Books!Panel(c).enabled <=> Books!Panel(c).reason = "on"
      /\ Books!Panel(c).reason = Books!DisabledReason(c)
  BY DEF Books!Panel, Books!DisabledReason
<1>. QED  BY <1>1, <1>2 DEF Books!DisabledReason

\* A seed that has ended is one whose transaction has committed.
LEMMA SeedCommits ==
    ASSUME CatalogInv, Books!Next, NEW s \in Seeds, tx[s] # Books!Idle, tx'[s] = Books!Idle
    PROVE  Books!Commit(s)
<1>0. s \in Runners /\ s \notin Actors /\ tx = [p \in Runners |-> tx[p]]
  BY IdsCount DEF CatalogInv, CatalogTyped, Runners
<1>1. ASSUME NEW r \in Actors, NEW op, NEW writes, Books!Begin(r, op, writes) PROVE FALSE
  <2>1. tx'[s] = tx[s]  BY <1>0, <1>1 DEF Books!Begin
  <2>. QED  BY <2>1
<1>2. ASSUME NEW r \in Actors, NEW t \in Tables,
             \/ \E c \in Books!Spellings(t) : Books!Create(r, t, c)
             \/ \E i \in RowIds :
                  \/ \E c \in Books!Spellings(t) : Books!Edit(r, t, i, c)
                  \/ \E live \in BOOLEAN : Books!SetActive(r, t, i, live)
                  \/ Books!Unlink(r, t, i)
                  \/ Books!Advance(r, t, i)
      PROVE  FALSE
  <2>1. \E op, writes : Books!Begin(r, op, writes)
    BY <1>2 DEF Books!Create, Books!Edit, Books!SetActive, Books!Unlink, Books!Advance
  <2>. QED  BY <1>1, <2>1
<1>3. ASSUME NEW r \in Actors, NEW c \in Books!Catalogued, NEW enabled \in BOOLEAN,
             NEW own \in {"none", "set"}, Books!SetModuleEnabled(r, c, enabled, own)
      PROVE  FALSE
  <2>1. \E op, writes : Books!Begin(r, op, writes)  BY <1>3 DEF Books!SetModuleEnabled
  <2>. QED  BY <1>1, <2>1
<1>4. ASSUME NEW q \in Seeds, Books!RunSeed(q) PROVE FALSE
  <2>1. tx'[s].left = Tables \/ tx'[s] = tx[s]  BY <1>0, <1>4 DEF Books!RunSeed
  <2>2. tx'[s].op = "seed" \/ tx'[s] = tx[s]  BY <1>0, <1>4 DEF Books!RunSeed
  <2>. QED  BY <2>2 DEF Books!Idle
<1>5. ASSUME NEW q \in Seeds, Books!Ensure(q) PROVE FALSE
  <2>1. tx'[s].op = tx[s].op
    <3>1. CASE q = s
      <4>1. tx[s] = [op |-> tx[s].op, writes |-> tx[s].writes, left |-> tx[s].left]
        BY <1>0 DEF CatalogInv, CatalogTyped
      <4>. DEFINE t == Books!Turn(tx[s].left)
      <4>2. tx'[s].op = tx[s].op
        <5>1. tx' = [tx EXCEPT ![s].left = @ \ {t}, ![s].writes = @ \cup Books!SeedWrites(t)]
          BY <1>5, <3>1 DEF Books!Ensure
        <5>. HIDE DEF t
        <5>. QED  BY <1>0, <4>1, <5>1
      <4>. QED  BY <4>2
    <3>2. CASE q # s  BY <1>0, <1>5, <3>2 DEF Books!Ensure
    <3>. QED  BY <3>1, <3>2
  <2>2. tx[s].op = "seed"  BY DEF CatalogInv, WhoWrites
  <2>. QED  BY <2>1, <2>2 DEF Books!Idle
<1>6. ASSUME NEW p \in Runners, Books!Commit(p) PROVE p = s
  <2>1. p # s => tx'[s] = tx[s]  BY <1>0, <1>6, BookCommits
  <2>. QED  BY <2>1
<1>7. ~ UNCHANGED <<rows, locked, tx, made, overlapped, seeded>>
  OBVIOUS
<1>. QED  BY <1>2, <1>3, <1>4, <1>5, <1>6, <1>7 DEF Books!Next, Runners, Books!catalogVars

\* A seed alone leaves its codes everywhere, and after a seed it changes nothing.
LEMMA SeedIsAlone ==
    ASSUME CatalogInv, Books!Next
    PROVE  Books!SeedAgain /\ Books!SeedAlone
<1>1. ASSUME NEW s \in Seeds, tx[s] # Books!Idle, tx'[s] = Books!Idle, ~overlapped'
      PROVE  /\ ~overlapped /\ rows' = Left(s)
             /\ \A t \in Tables : AsSeeded(t, rows[t]) => Left(s)[t] = rows[t]
             /\ \A t \in Tables : HasFirst(t, Left(s)[t])
  <2>1. Books!Commit(s)  BY <1>1, SeedCommits
  <2>2. tx[s].left = {}  BY <2>1 DEF Books!Commit
  <2>3. ~overlapped
    <3>1. overlapped' = (overlapped \/ (rows' # rows /\ \E q \in Runners : q # s /\ tx[q] # Books!Idle))
      BY <2>1 DEF Books!Commit, Runners
    <3>2. overlapped \in BOOLEAN  BY DEF CatalogInv, CatalogTyped
    <3>. QED  BY <1>1, <3>1, <3>2
  <2>4. \A t \in Tables : /\ Books!Unique(Left(s)[t]) /\ HasFirst(t, Left(s)[t])
                          /\ AsSeeded(t, rows[t]) => Left(s)[t] = rows[t]
    <3>. SUFFICES ASSUME NEW t \in Tables
                  PROVE  /\ Books!Unique(Left(s)[t]) /\ HasFirst(t, Left(s)[t])
                         /\ AsSeeded(t, rows[t]) => Left(s)[t] = rows[t]
      OBVIOUS
    <3>. QED  BY <1>1, <2>2, <2>3, SeedLands
  <2>5. rows' = IF \A t \in Tables : Books!Unique(Left(s)[t]) THEN Left(s) ELSE rows
    BY <2>1 DEF Books!Commit, Left
  <2>6. rows' = Left(s)  BY <2>4, <2>5
  <2>. QED  BY <2>3, <2>4, <2>6
<1>2. ASSUME NEW s \in Seeds, tx[s] # Books!Idle, tx'[s] = Books!Idle, seeded, ~overlapped'
      PROVE  rows' = rows
  <2>1. \A t \in Tables : AsSeeded(t, rows[t])
    BY <1>1, <1>2 DEF CatalogInv, SeedDone
  <2>2. \A t \in Tables : Left(s)[t] = rows[t]  BY <1>1, <1>2, <2>1
  <2>3. Left(s) = [t \in Tables |-> Left(s)[t]] /\ rows = [t \in Tables |-> rows[t]]
    BY DEF Left, CatalogInv, CatalogTyped
  <2>4. Left(s) = rows  BY <2>2, <2>3
  <2>. QED  BY <1>1, <1>2, <2>4
<1>3. ASSUME NEW s \in Seeds, tx[s] # Books!Idle, tx'[s] = Books!Idle, ~overlapped'
      PROVE  \A t \in Tables : HasFirst(t, rows'[t])
  <2>. QED  BY <1>1, <1>3
<1>4. Books!SeedAgain  BY <1>2 DEF Books!SeedAgain
<1>5. Books!SeedAlone  BY <1>3 DEF Books!SeedAlone, HasFirst
<1>. QED  BY <1>4, <1>5

\* A row of a module that is off stays off, unless a request to switch it commits.
LEMMA OnlySwitchesSwitch ==
    ASSUME CatalogInv, Books!Next
    PROVE  Books!SwitchedOn
<1>. SUFFICES ASSUME "module" \in Tables, NEW i \in RowIds, i \in Books!In(rows["module"]),
                     ~rows["module"][i].live, rows'["module"][i].live
              PROVE  \E r \in Actors : tx[r].op = "switch" /\ tx'[r] = Books!Idle
  BY DEF Books!SwitchedOn
<1>1. PICK p \in Runners : Books!Commit(p)
  <2>1. rows' # rows  OBVIOUS
  <2>2. ASSUME NEW r, NEW op, NEW writes, Books!Begin(r, op, writes) PROVE FALSE
    BY <2>1, <2>2 DEF Books!Begin
  <2>3. ASSUME NEW r \in Actors, NEW t \in Tables,
               \/ \E c \in Books!Spellings(t) : Books!Create(r, t, c)
               \/ \E j \in RowIds :
                    \/ \E c \in Books!Spellings(t) : Books!Edit(r, t, j, c)
                    \/ \E live \in BOOLEAN : Books!SetActive(r, t, j, live)
                    \/ Books!Unlink(r, t, j)
                    \/ Books!Advance(r, t, j)
        PROVE  FALSE
    <3>1. \E op, writes : Books!Begin(r, op, writes)
      BY <2>3 DEF Books!Create, Books!Edit, Books!SetActive, Books!Unlink, Books!Advance
    <3>. QED  BY <2>2, <3>1
  <2>4. ASSUME NEW r \in Actors, NEW c \in Books!Catalogued, NEW enabled \in BOOLEAN,
               NEW own \in {"none", "set"}, Books!SetModuleEnabled(r, c, enabled, own)
        PROVE  FALSE
    <3>1. \E op, writes : Books!Begin(r, op, writes)  BY <2>4 DEF Books!SetModuleEnabled
    <3>. QED  BY <2>2, <3>1
  <2>5. ASSUME NEW s \in Seeds, Books!RunSeed(s) \/ Books!Ensure(s) PROVE FALSE
    BY <2>1, <2>5 DEF Books!RunSeed, Books!Ensure
  <2>. QED  BY <2>1, <2>3, <2>4, <2>5 DEF Books!Next, Books!catalogVars, Runners
<1>2. rows'["module"] = Left(p)["module"]  BY <1>1, BookCommits
<1>. DEFINE after == Left(p)["module"]
            writes == tx[p].writes
<1>3. TableLeft(after, "module", rows["module"], writes)  BY LeftBy
<1>4. rows["module"][i] \in Books!Row  BY TableHolds
<1>5. \A w \in writes : w.table = "module" => w.is # Books!NoRow
  BY NoneIsNoRow DEF CatalogInv, CatalogTyped, EditFits
<1>6. /\ Mine("module", i, writes) = {} => after[i] = rows["module"][i]
      /\ Mine("module", i, writes) # {} =>
            \E w \in Mine("module", i, writes) : after[i] = Books!Changed(rows["module"][i], w)
  BY <1>3, <1>5 DEF TableLeft
<1>7. PICK w \in Mine("module", i, writes) : after[i] = Books!Changed(rows["module"][i], w)
  BY <1>2, <1>6
<1>8. w \in writes /\ w.table = "module" /\ w.id = i /\ w.id # 0
  BY IdsCount DEF Mine
<1>9. w.was \in Books!Row /\ w.is \in Books!Row
  BY <1>5, <1>8 DEF CatalogInv, CatalogTyped, EditFits
<1>10. after[i].live = IF w.is.live # w.was.live THEN w.is.live ELSE rows["module"][i].live
  BY <1>4, <1>7, <1>9, RowChanged
<1>11. w.is.live # w.was.live  BY <1>2, <1>10
<1>12. p \in Actors /\ tx[p].op = "switch"
  BY <1>8, <1>11 DEF CatalogInv, WhoWrites
<1>13. tx'[p] = Books!Idle
  BY <1>1 DEF Books!Commit, CatalogInv, CatalogTyped
<1>. QED  BY <1>12, <1>13

\* Catalog: a seed after a seed changes nothing, a seed alone leaves its codes in
\* every table, and only a request to switch a module turns it on.
THEOREM SeedRespectsOperators == RecordsSpec => SeedKeepsDecisions
<1>1. CatalogInv /\ [RecordsNext]_recordVars
        => [whose = "catalog" => Books!SeedAgain /\ Books!SwitchedOn /\ Books!SeedAlone]_recordVars
  <2>. SUFFICES ASSUME CatalogInv, RecordsNext, whose = "catalog"
                PROVE  Books!SeedAgain /\ Books!SwitchedOn /\ Books!SeedAlone
    OBVIOUS
  <2>1. Books!Next  BY DEF RecordsNext, CatalogNext, AccessNext, LedgerNext
  <2>. QED  BY <2>1, SeedIsAlone, OnlySwitchesSwitch
<1>. QED  BY <1>1, CatalogHolds, PTL DEF RecordsSpec, SeedKeepsDecisions

-----------------------------------------------------------------------------
(* The three modules together.                                             *)

\* Every row keeps its columns, and every request the fields of its step.
THEOREM RecordsTypes == RecordsSpec => []RowsTyped
<1>1. CatalogInv /\ AccessInv /\ LedgerInv => RowsTyped
  BY CatalogIsTyped, AccessIsTyped, LedgerIsTyped DEF RowsTyped
<1>. QED  BY <1>1, CatalogHolds, AccessHolds, LedgerHolds, PTL

\* No code of a table is there under two spellings, and no user has two rows for
\* one company and area, whatever creations, renames, seeds and replacements overlap.
THEOREM OneThingOneRow == RecordsSpec => []NoTwins
<1>1. CatalogInv /\ AccessInv => NoTwins
  BY CodesAreOne, OneRowEach DEF NoTwins
<1>. QED  BY <1>1, CatalogHolds, AccessHolds, PTL

\* Gate, menu and panel agree on the modules that are on; the gates on a
\* permission; creation, lists and forms on the scope.
THEOREM SurfacesAreOne == RecordsSpec => []SurfacesAgree
<1>1. AccessInv => SurfacesAgree
  BY PanelIsGate, GatesAreOne, ScopeIsOne DEF SurfacesAgree
<1>. QED  BY <1>1, AccessHolds, PTL
=============================================================================
