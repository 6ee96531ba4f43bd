------------------------------- MODULE Ingestion -------------------------------
(***************************************************************************)
(* AnalyticsIngestionService: a request becomes one ingestion run a table,   *)
(* with an item a day, and one job whose items name the runs.  The runs are  *)
(* flushed before create_job looks its key up, become visible with the      *)
(* commit that creates the job, and learn the job's id in a commit after it *)
(* has been dispatched.  JobCreation is create_job.                        *)
(***************************************************************************)
EXTENDS JobCreation, FiniteSets

CONSTANTS
    Owners,
    Keys,           \* idempotency keys a client may send
    LastDay,        \* the last day of a behaviour; a behaviour begins on day 2
    MaxRequests     \* bound on the requests

VARIABLES
    today,          \* the date in Lima
    runs,           \* committed rows of analytics.ingestion_runs, with their items
    session,        \* session[p]: the runs p's session holds, flushed or committed
    requests

IngestionAssumption == LastDay \in Nat \ {0, 1} /\ MaxRequests \in Nat /\ NoKey \notin Keys

ingestionVars == <<jobs, call, today, runs, session, requests>>
-----------------------------------------------------------------------------
\* albventacab is transactional, almacen a master; names come in any case.
Names == {"albventacab", "ALBVENTACAB", "almacen"}
Normalized(name) == IF name = "ALBVENTACAB" THEN "albventacab" ELSE name
Master(table) == table = "almacen"
Modes == {"snapshot", "incremental", "reprocess"}

NoDate == 0
Lookback == 1       \* ICG_INCREMENTAL_LOOKBACK_DAYS
Dates == 1..LastDay + 1

\* _resolve_dates: the dates given, those of the mode where there are none.
Resolved(r) ==
    IF r.mode = "incremental"
    THEN [start |-> IF r.start = NoDate THEN today - Lookback ELSE r.start,
          end |-> IF r.end = NoDate THEN today ELSE r.end]
    ELSE [start |-> r.start, end |-> r.end]

InRange(range) == range.start <= range.end /\ range.start <= today /\ range.end <= today

Accepts(table, r) ==
    IF Master(table)
    THEN r.mode = "snapshot" /\ r.start = NoDate /\ r.end = NoDate
    ELSE /\ r.mode # "snapshot"
         /\ r.mode = "reprocess" => r.start # NoDate /\ r.end # NoDate
         /\ InRange(Resolved(r))

\* _build_payloads: what an item is for.
Days(table, r) ==
    IF Master(table) THEN {NoDate} ELSE Resolved(r).start..Resolved(r).end
Payloads(run) == {[table |-> run.table, day |-> d, run |-> run.id] : d \in run.days}

\* _prepare_run, for every table once.
Prepared(r) ==
    {[id |-> <<requests, table>>, table |-> table, days |-> Days(table, r),
      key |-> r.key, job |-> NoJob] : table \in {Normalized(name) : name \in r.names}}

Committed(new) == runs

Request(p, owner, r) ==
    /\ requests < MaxRequests /\ call[p].pc = "none"
    /\ \A name \in r.names : Accepts(Normalized(name), r)
    /\ LET new == Prepared(r) IN
          /\ BeginCreate(p, owner, r.key, UNION {Payloads(run) : run \in new})
          /\ session' = [session EXCEPT ![p] = new]
          /\ runs' = Committed(new)
    /\ requests' = requests + 1
    /\ UNCHANGED <<jobs, today>>
-----------------------------------------------------------------------------
Lookup(p) == LookupKey(p) /\ UNCHANGED <<today, runs, session, requests>>

\* The job's commit is the runs' too; losing a race for the key rolls them back.
X_WithJob(p) == runs
WithJob(p) == runs \cup session[p]

Insert(p) ==
    /\ InsertJob(p)
    /\ IF SameKey(call[p]) # {}
       THEN session' = [session EXCEPT ![p] = {}] /\ UNCHANGED runs
       ELSE runs' = WithJob(p) /\ UNCHANGED session
    /\ UNCHANGED <<today, requests>>

Dispatch(p) == DispatchJob(p) /\ UNCHANGED <<today, runs, session, requests>>

\* run.job_id = job.id, commit.
Link(p) ==
    /\ call[p].pc = "created"
    /\ runs' = (runs \ session[p]) \cup {[run EXCEPT !.job = call[p].job] : run \in session[p]}
    /\ session' = [session EXCEPT ![p] = {}]
    /\ call' = [call EXCEPT ![p] = NoCall]
    /\ UNCHANGED <<jobs, today, requests>>

\* The process dies; what its session had not committed is gone.
Die(p) ==
    /\ call[p].pc # "none"
    /\ session' = [session EXCEPT ![p] = {}]
    /\ call' = [call EXCEPT ![p] = NoCall]
    /\ UNCHANGED <<jobs, today, runs, requests>>

Midnight ==
    /\ today < LastDay
    /\ today' = today + 1
    /\ UNCHANGED <<jobs, call, runs, session, requests>>

Init ==
    /\ CreationInit
    /\ today = 2 /\ runs = {} /\ requests = 0
    /\ session = [p \in Callers |-> {}]

RequestsOf(names) ==
    [names : names, mode : Modes, start : {NoDate} \cup Dates, end : {NoDate} \cup Dates,
     key : {NoKey} \cup Keys]

Next ==
    \/ \E p \in Callers : Lookup(p) \/ Insert(p) \/ Dispatch(p) \/ Link(p) \/ Die(p)
    \/ \E p \in Callers, owner \in Owners, r \in RequestsOf(SUBSET Names \ {{}}) :
          Request(p, owner, r)
    \/ Midnight
    \/ requests = MaxRequests /\ today = LastDay /\ UNCHANGED ingestionVars

Spec == Init /\ [][Next]_ingestionVars
-----------------------------------------------------------------------------
(* Jobs, runs and sessions are well formed.                                   *)
TypeOK ==
    /\ today \in 2..LastDay /\ requests \in 0..MaxRequests
    /\ \A p \in Callers : call[p].pc \in CallPC
    /\ \A run \in runs : run.job \in {NoJob} \cup JobIds /\ run.days \subseteq {NoDate} \cup Dates

(* Whatever an endpoint that dies between its commits has left, a worker that    *)
(* takes an item of an ingestion finds the run and the row it has to report in. *)
WorkIsRecorded ==
    \A j \in JobIds : \A item \in jobs[j].about :
        \E run \in runs : run.id = item.run /\ run.table = item.table /\ item.day \in run.days

(* A run that no job works for repeats the key of the job it names: neither a    *)
(* lost race, nor a failure, nor a death of the endpoint leaves one.          *)
IdleRunsRepeatAKey ==
    \A run \in runs :
        \/ \E j \in JobIds : \E item \in jobs[j].about : item.run = run.id
        \/ run.job # NoJob /\ run.key # NoKey /\ jobs[run.job].key = run.key

(* Every day a transactional run covers has come, in Lima, and no run is empty:   *)
(* an empty one has no item and is never finished.                           *)
RunsCoverDays ==
    \A run \in runs :
        /\ run.days # {}
        /\ Master(run.table) <=> run.days = {NoDate}
        /\ \A d \in run.days : d <= today
=============================================================================
