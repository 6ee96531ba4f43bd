----------------------------- MODULE JobCreation ------------------------------
(***************************************************************************)
(* JobService.create_job: a look-up by idempotency key, one commit that a  *)
(* unique constraint protects, then the dispatch, whose inside is the      *)
(* module JobEngine.  Endpoints and the scheduler call it from sessions of *)
(* their own, so two calls with one key interleave.                        *)
(***************************************************************************)
EXTENDS Naturals, Sequences

CONSTANT Callers    \* sessions that may call create_job

VARIABLES
    jobs,           \* jobs.jobs in order of creation; an index is a job id
    call            \* the create_job call of each session

creationVars == <<jobs, call>>

NoKey == <<>>
NoJob == 0
NoCall == [pc |-> "none", owner |-> NoJob, key |-> NoKey, about |-> NoKey, job |-> NoJob]

CallPC == {"none", "lookup", "insert", "dispatch", "created"}
JobIds == DOMAIN jobs

\* The jobs a key names: uq_jobs_creator_type_idempotency.
SameKey(c) == {j \in JobIds : c.key # NoKey /\ jobs[j].owner = c.owner /\ jobs[j].key = c.key}

\* The endpoint has validated the request; about is what the job carries.
BeginCreate(p, owner, key, about) ==
    call' = [call EXCEPT ![p] = [NoCall EXCEPT !.pc = "lookup", !.owner = owner,
                                               !.key = key, !.about = about]]

Found(c) == [c EXCEPT !.pc = "created", !.job = CHOOSE j \in SameKey(c) : TRUE]

LookupKey(p) ==
    /\ call[p].pc = "lookup"
    /\ call' = [call EXCEPT ![p] = IF SameKey(@) # {} THEN Found(@)
                                   ELSE [@ EXCEPT !.pc = "insert"]]
    /\ UNCHANGED jobs

\* The second of two inserts is rolled back and answers with the first's job.
Inserted(c) == Append(jobs, [owner |-> c.owner, key |-> c.key, about |-> c.about,
                             status |-> "QUEUED", sent |-> 0])
InsertJob(p) ==
    /\ call[p].pc = "insert"
    /\ IF SameKey(call[p]) # {}
       THEN call' = [call EXCEPT ![p] = Found(@)] /\ UNCHANGED jobs
       ELSE /\ jobs' = Inserted(call[p])
            /\ call' = [call EXCEPT ![p].pc = "dispatch", ![p].job = Len(jobs) + 1]

\* _dispatch keeps a failure of the broker from its caller.
DispatchJob(p) ==
    /\ call[p].pc = "dispatch"
    /\ \/ jobs' = [jobs EXCEPT ![call[p].job].sent = @ + 1]
       \/ jobs' = [jobs EXCEPT ![call[p].job].status = "DISPATCH_FAILED"]
    /\ call' = [call EXCEPT ![p].pc = "created"]

CreateStep(p) == LookupKey(p) \/ InsertJob(p) \/ DispatchJob(p)

CreationInit == jobs = <<>> /\ call = [p \in Callers |-> NoCall]

-----------------------------------------------------------------------------
\* One user's key names one job, dispatched once, however many requests carry
\* it and however they interleave (create_job's comment on double clicks).
SameOperation ==
    /\ \A i, j \in JobIds : i # j /\ jobs[i].key # NoKey
            => <<jobs[i].owner, jobs[i].key>> # <<jobs[j].owner, jobs[j].key>>
    /\ \A j \in JobIds : jobs[j].sent <= 1
=============================================================================
