--------------------------- MODULE MCServices_proofs ---------------------------
(***************************************************************************)
(* What the services around the jobs promise, for any number of resends,    *)
(* sessions, keys, days and requests: theorems about SapClient and          *)
(* Ingestion, and what these and the theorems about ChannelSkus, PlainJobs   *)
(* and SalesLake say of the behaviours of MCServices.  MCServices and this   *)
(* module instantiate each of the three, one alone and one with its proofs;  *)
(* the lemmas Same... say that the two instances are the same formulas.      *)
(***************************************************************************)
EXTENDS MCServices, Integers, Sequences, TLAPS

-----------------------------------------------------------------------------
(* SapClient.                                                              *)

\* What the operation has used up: resends, and the login after a 401.
Used == (Retries - retries) + (IF retry THEN 0 ELSE 1)

(***************************************************************************)
(* AttemptsBounded is not inductive: it does not know how many attempts    *)
(* the two counters still allow.  While the operation runs, every request  *)
(* sent has used up a resend or the second login.                          *)
(***************************************************************************)
Accounted ==
    /\ pc \in {"login", "send"} => sent = Used
    /\ sent <= Used + 1
    /\ pc = "login" => logins <= (IF retry THEN 0 ELSE 1)
    /\ logins <= (IF retry THEN 1 ELSE 2)

ClientInv == TypeOK /\ Accounted /\ OkMeansActed

LEMMA InitClientInv == Init => ClientInv
<1>. SUFFICES ASSUME Init PROVE ClientInv
  OBVIOUS
<1>1. TypeOK
  <2>1. token \in BOOLEAN /\ alive \in BOOLEAN /\ retry \in BOOLEAN
    BY Zenon DEF Init
  <2>. QED  BY <2>1, ClientAssumption DEF Init, TypeOK, Outcome, ClientAssumption
<1>2. Used = 0
  BY ClientAssumption DEF Init, Used, ClientAssumption
<1>3. Accounted
  BY <1>2 DEF Init, Accounted
<1>4. OkMeansActed
  BY DEF Init, OkMeansActed
<1>. QED  BY <1>1, <1>3, <1>4 DEF ClientInv

LEMMA StepClientInv == ClientInv /\ [Next]_vars => ClientInv'
<1>. SUFFICES ASSUME ClientInv, [Next]_vars PROVE ClientInv'
  OBVIOUS
<1>. USE ClientAssumption
     DEF ClientAssumption, ClientInv, TypeOK, Accounted, OkMeansActed, Used, Outcome
<1>1. CASE Begin
  BY <1>1 DEF Begin
<1>2. CASE Login
  <2>1. CASE LoginAccepted
    BY <1>2, <2>1 DEF Login, LoginAccepted
  <2>2. CASE LoginRefused
    BY <1>2, <2>2 DEF Login, LoginRefused, Return
  <2>. QED  BY <1>2, <2>1, <2>2 DEF Login
<1>3. CASE Send
  <2>1. CASE Answered
    BY <1>3, <2>1 DEF Send, Answered, Return
  <2>2. CASE Rejected
    BY <1>3, <2>2 DEF Send, Rejected, Return
  <2>3. CASE Unauthorized
    <3>1. /\ pc = "send" /\ pc' = "login" /\ sent' = sent + 1
          /\ UNCHANGED <<retries, outcome, begun, logins, acted, alive>>
      BY <1>3, <2>3 DEF Send, Unauthorized
    <3>2. token' \in BOOLEAN /\ retry' \in BOOLEAN
      BY <2>3, Zenon DEF Unauthorized
    <3>3. retry /\ ~retry'
      BY <2>3, Zenon DEF Unauthorized
    <3>4. sent = Retries - retries /\ logins <= 1
      BY <3>1, <3>3
    <3>5. Used' = Retries - retries + 1
      BY <3>1, <3>3
    <3>. QED  BY <3>1, <3>2, <3>3, <3>4, <3>5
  <2>4. CASE Unanswered
    <3>1. acted' \in Nat /\ acted' >= acted
      BY <2>4 DEF Unanswered
    <3>2. CASE retries > 0
      BY <1>3, <2>4, <3>1, <3>2 DEF Send, Unanswered
    <3>3. CASE ~(retries > 0)
      BY <1>3, <2>4, <3>1, <3>3 DEF Send, Unanswered, Return
    <3>. QED  BY <3>2, <3>3
  <2>. QED  BY <1>3, <2>1, <2>2, <2>3, <2>4 DEF Send
<1>4. CASE Expire
  BY <1>4 DEF Expire
<1>5. CASE Close
  BY <1>5 DEF Close
<1>6. CASE UNCHANGED vars
  BY <1>6 DEF vars
<1>. QED  BY <1>1, <1>2, <1>3, <1>4, <1>5, <1>6 DEF Next

\* One operation sends at most Retries + 2 requests and logs in at most twice,
\* whatever SAP answers or loses and whenever the session expires (_request).
THEOREM AttemptsAreBounded == Spec => []AttemptsBounded
<1>1. ClientInv => AttemptsBounded
  BY ClientAssumption
  DEF ClientInv, TypeOK, Accounted, Used, AttemptsBounded, ClientAssumption
<1>. QED  BY <1>1, InitClientInv, StepClientInv, PTL DEF Spec

\* A normal return means that SAP carried the operation out.
THEOREM OkIsReal == Spec => []OkMeansActed
<1>1. ClientInv => OkMeansActed
  BY DEF ClientInv
<1>. QED  BY <1>1, InitClientInv, StepClientInv, PTL DEF Spec

(* Both together, which is what a worker relies on (sap_job_service.py calls   *)
(* the client and records SUCCEEDED when it returns).                        *)
THEOREM AnswersAreSound == Spec => []AnswersSound
BY AttemptsAreBounded, OkIsReal, PTL DEF AnswersSound

-----------------------------------------------------------------------------
(* Ingestion.                                                              *)

Tables == {"albventacab", "almacen"}
RunIds == Nat \X Tables
RunItems == [table : Tables, day : Nat, run : RunIds]
Runs == [id : RunIds, table : Tables, days : SUBSET Nat, key : RequestKeys \cup {Intake!NoKey},
         job : Nat]
JobRows == [owner : Owners \cup {Intake!NoJob}, key : RequestKeys \cup {Intake!NoKey},
            about : SUBSET RunItems, status : {"QUEUED", "DISPATCH_FAILED"}, sent : Nat]
Calls == [pc : Intake!CallPC, owner : Owners \cup {Intake!NoJob},
          key : RequestKeys \cup {Intake!NoKey},
          about : (SUBSET RunItems) \cup {Intake!NoKey}, job : Nat]

\* The days of a run have come, and only those of a transactional table are days.
Covers(r, day) ==
    /\ r.days # {} /\ r.days \subseteq {Intake!NoDate} \cup Intake!Dates
    /\ Intake!Master(r.table) <=> r.days = {Intake!NoDate}
    /\ \A d \in r.days : d <= day

\* A job works for the run, or the run repeats the key of job j.
Worked(r, rows) == \E j \in DOMAIN rows : \E x \in rows[j].about : x.run = r.id
Repeats(r, j, rows) ==
    j \in DOMAIN rows /\ r.key # Intake!NoKey /\ rows[j].key = r.key

IntakeTypes ==
    /\ created \in Seq(JobRows)
    /\ creating \in [Actors -> Calls]
    /\ ingested \subseteq Runs
    /\ held \in [Actors -> SUBSET Runs]
    /\ today \in 2..LastDay /\ requests \in 0..MaxRequests

\* What a session holds: the runs its call is about, and then those that its call made
\* a job for, or found one for by their key.
Holds(p) ==
    /\ creating[p].pc \in {"lookup", "insert"} =>
         /\ creating[p].about = UNION {Intake!Payloads(r) : r \in held[p]}
         /\ \A r \in held[p] : r.key = creating[p].key
    /\ creating[p].pc \in {"dispatch", "created"} =>
         /\ creating[p].job \in DOMAIN created
         /\ \A r \in held[p] : Worked(r, created) \/ Repeats(r, creating[p].job, created)

IntakeInv ==
    /\ IntakeTypes
    /\ \A r \in ingested : Covers(r, today) /\ r.job \in {Intake!NoJob} \cup DOMAIN created
    /\ \A p \in Actors : \A r \in held[p] : Covers(r, today) /\ r.job = Intake!NoJob
    /\ \A p \in Actors : Holds(p)
    /\ Intake!WorkIsRecorded
    /\ \A r \in ingested : Worked(r, created) \/ Repeats(r, r.job, created)

\* A request prepares runs that have work.
LEMMA PreparedRuns ==
  ASSUME Intake!IngestionAssumption, today \in 2..LastDay, requests \in Nat,
         NEW req \in Intake!RequestsOf(SUBSET Intake!Names \ {{}}),
         \A name \in req.names : Intake!Accepts(Intake!Normalized(name), req)
  PROVE  /\ Intake!Prepared(req) \in SUBSET Runs
         /\ \A r \in Intake!Prepared(req) :
               Covers(r, today) /\ r.job = Intake!NoJob /\ r.key = req.key
<1>. SUFFICES ASSUME NEW name \in req.names,
                     NEW table, table = Intake!Normalized(name),
                     NEW r, r = [id |-> <<requests, table>>, table |-> table,
                                 days |-> Intake!Days(table, req), key |-> req.key,
                                 job |-> Intake!NoJob]
              PROVE  /\ r \in Runs /\ Covers(r, today)
                     /\ r.job = Intake!NoJob /\ r.key = req.key
  BY Zenon DEF Intake!Prepared
<1>1. /\ req.mode \in Intake!Modes /\ req.key \in RequestKeys \cup {Intake!NoKey}
      /\ req.start \in {Intake!NoDate} \cup Intake!Dates
      /\ req.end \in {Intake!NoDate} \cup Intake!Dates
      /\ name \in Intake!Names
  BY DEF Intake!RequestsOf
<1>2. table \in Tables
  BY <1>1 DEF Intake!Normalized, Intake!Names, Tables
<1>3. Intake!Accepts(table, req)
  OBVIOUS
<1>4. CASE Intake!Master(table)
  <2>1. Intake!Days(table, req) = {0}
    BY <1>4 DEF Intake!Days, Intake!NoDate
  <2>. QED  BY <1>1, <1>2, <1>4, <2>1
         DEF Runs, RunIds, Covers, Intake!NoDate, Intake!NoJob
<1>5. CASE ~Intake!Master(table)
  <2>1. PICK range : range = Intake!Resolved(req)
    OBVIOUS
  <2>2. /\ req.mode \in {"incremental", "reprocess"}
        /\ req.mode = "reprocess" => req.start # 0 /\ req.end # 0
        /\ range.start <= range.end /\ range.end <= today
    BY <1>1, <1>3, <1>5, <2>1
       DEF Intake!Accepts, Intake!Modes, Intake!NoDate, Intake!InRange
  <2>3. range.start \in 1..LastDay + 1 /\ range.end \in 1..LastDay + 1
    BY <1>1, <2>1, <2>2
       DEF Intake!Resolved, Intake!Lookback, Intake!Dates, Intake!NoDate, Intake!IngestionAssumption
  <2>4. Intake!Days(table, req) = range.start..range.end
    BY <1>5, <2>1 DEF Intake!Days
  <2>5. /\ range.start..range.end \subseteq 1..LastDay + 1
        /\ range.start \in range.start..range.end
        /\ \A d \in range.start..range.end : d <= today /\ d # 0
    BY <2>2, <2>3 DEF Intake!IngestionAssumption
  <2>. QED  BY <1>1, <1>2, <1>5, <2>4, <2>5
         DEF Runs, RunIds, Covers, Intake!NoDate, Intake!NoJob, Intake!Dates, Intake!IngestionAssumption
<1>. QED  BY <1>4, <1>5

\* Jobs are only added, and keep what they are about and their key.
Grows(old, new) ==
    /\ DOMAIN old \subseteq DOMAIN new
    /\ \A j \in DOMAIN old : new[j].about = old[j].about /\ new[j].key = old[j].key

LEMMA GrowsKeeps ==
  ASSUME NEW old, NEW new, Grows(old, new), NEW r
  PROVE  /\ Worked(r, old) => Worked(r, new)
         /\ \A j : Repeats(r, j, old) => Repeats(r, j, new)
BY Zenon DEF Grows, Worked, Repeats

\* A step of a session leaves what the others hold.
LEMMA OthersHold ==
  ASSUME NEW p \in Actors, Holds(p), Grows(created, created'),
         creating'[p] = creating[p], held'[p] = held[p]
  PROVE  Holds(p)'
BY GrowsKeeps DEF Holds, Grows

LEMMA InitIntakeInv == Intake!Init => IntakeInv
<1>. SUFFICES ASSUME Intake!Init PROVE IntakeInv
  OBVIOUS
<1>. USE DEF Intake!Init, Intake!CreationInit, Intake!NoCall, Intake!NoJob, Intake!NoKey
<1>1. created = <<>> /\ DOMAIN created = {} /\ ingested = {}
  OBVIOUS
<1>2. \A p \in Actors : creating[p] = Intake!NoCall /\ held[p] = {}
  OBVIOUS
<1>3. IntakeTypes
  <2>1. Intake!NoCall \in Calls
    BY DEF Calls, Intake!CallPC
  <2>. QED  BY <2>1, IntakeAssumption DEF IntakeTypes, Intake!IngestionAssumption
<1>4. \A p \in Actors : Holds(p)
  BY <1>2 DEF Holds
<1>. QED  BY <1>1, <1>2, <1>3, <1>4 DEF IntakeInv, Intake!WorkIsRecorded, Intake!JobIds

\* A call that finds a job by its key holds runs that repeat this key.
LEMMA FoundIsHeld ==
  ASSUME NEW p \in Actors, created \in Seq(JobRows), creating[p] \in Calls, Holds(p),
         creating[p].pc \in {"lookup", "insert"}, Intake!SameKey(creating[p]) # {},
         created' = created, creating'[p] = Intake!Found(creating[p]),
         held'[p] \in {{}, held[p]}
  PROVE  creating'[p] \in Calls /\ Holds(p)'
<1>1. PICK j : j = CHOOSE i \in Intake!SameKey(creating[p]) : TRUE
  OBVIOUS
<1>2. j \in Intake!SameKey(creating[p])
  BY <1>1
<1>3. /\ j \in DOMAIN created /\ j \in Nat
      /\ creating[p].key # Intake!NoKey /\ created[j].key = creating[p].key
  BY <1>2 DEF Intake!SameKey, Intake!JobIds
<1>4. creating'[p] = [creating[p] EXCEPT !.pc = "created", !.job = j]
  BY <1>1 DEF Intake!Found
<1>5. creating'[p] \in Calls
  BY <1>3, <1>4 DEF Calls, Intake!CallPC
<1>6. creating'[p].pc = "created" /\ creating'[p].job = j
  BY <1>4 DEF Calls
<1>7. \A r \in held'[p] : Repeats(r, j, created)
  BY <1>3 DEF Holds, Repeats
<1>. QED  BY <1>3, <1>5, <1>6, <1>7 DEF Holds

LEMMA RequestKeeps ==
  ASSUME IntakeInv, NEW p \in Actors, NEW owner \in Owners,
         NEW req \in Intake!RequestsOf(SUBSET Intake!Names \ {{}}),
         Intake!Request(p, owner, req)
  PROVE  IntakeInv'
<1>. USE IntakeAssumption
<1>1. IntakeTypes
  BY DEF IntakeInv
<1>2. PICK new : new = Intake!Prepared(req)
  OBVIOUS
<1>3. /\ \A name \in req.names : Intake!Accepts(Intake!Normalized(name), req)
      /\ requests < MaxRequests /\ creating[p].pc = "none"
      /\ held' = [held EXCEPT ![p] = new]
      /\ creating' = [creating EXCEPT ![p] =
            [Intake!NoCall EXCEPT !.pc = "lookup", !.owner = owner, !.key = req.key,
                                  !.about = UNION {Intake!Payloads(r) : r \in new}]]
      /\ ingested' = ingested /\ created' = created /\ today' = today /\ requests' = requests + 1
  BY <1>2, Zenon DEF Intake!Request, Intake!BeginCreate, Intake!Committed
<1>4. /\ new \in SUBSET Runs
      /\ \A r \in new : Covers(r, today) /\ r.job = Intake!NoJob /\ r.key = req.key
  <2>1. today \in 2..LastDay /\ requests \in Nat
    BY <1>1 DEF IntakeTypes
  <2>. QED  BY <1>2, <1>3, <2>1, PreparedRuns
<1>5. creating'[p] = [pc |-> "lookup", owner |-> owner, key |-> req.key,
                      about |-> UNION {Intake!Payloads(r) : r \in new}, job |-> Intake!NoJob]
  BY <1>1, <1>3 DEF IntakeTypes, Intake!NoCall
<1>6. UNION {Intake!Payloads(r) : r \in new} \in SUBSET RunItems
  BY <1>4 DEF Intake!Payloads, Runs, RunItems
<1>7. held'[p] = new /\ \A q \in Actors \ {p} : held'[q] = held[q] /\ creating'[q] = creating[q]
  BY <1>1, <1>3 DEF IntakeTypes
<1>8. IntakeTypes'
  <2>1. creating'[p] \in Calls
    BY <1>5, <1>6 DEF Calls, Intake!CallPC, Intake!NoJob, Intake!RequestsOf
  <2>2. creating' \in [Actors -> Calls]
    BY <1>1, <1>3, <2>1 DEF IntakeTypes
  <2>3. held' \in [Actors -> SUBSET Runs]
    BY <1>1, <1>3, <1>4 DEF IntakeTypes
  <2>4. requests' \in 0..MaxRequests
    BY <1>1, <1>3 DEF IntakeTypes, Intake!IngestionAssumption
  <2>. QED  BY <1>1, <1>3, <2>2, <2>3, <2>4 DEF IntakeTypes
<1>9. \A q \in Actors : Holds(q)'
  <2>1. Holds(p)'
    BY <1>4, <1>5, <1>7 DEF Holds
  <2>2. Grows(created, created')
    BY <1>3 DEF Grows
  <2>3. ASSUME NEW q \in Actors \ {p} PROVE Holds(q)'
    <3>1. Holds(q)
      BY DEF IntakeInv
    <3>. QED  BY <1>7, <2>2, <3>1, OthersHold
  <2>. QED  BY <2>1, <2>3
<1>10. \A q \in Actors : \A r \in held'[q] : Covers(r, today') /\ r.job = Intake!NoJob
  BY <1>3, <1>4, <1>7 DEF IntakeInv
<1>11. Intake!WorkIsRecorded'
  BY <1>3, Zenon DEF IntakeInv, Intake!WorkIsRecorded, Intake!JobIds
<1>. QED  BY <1>3, <1>8, <1>9, <1>10, <1>11 DEF IntakeInv

LEMMA LookupKeeps ==
  ASSUME IntakeInv, NEW p \in Actors, Intake!Lookup(p)
  PROVE  IntakeInv'
<1>. USE IntakeAssumption
<1>1. IntakeTypes /\ Holds(p)
  BY DEF IntakeInv
<1>2. /\ creating[p].pc = "lookup"
      /\ creating' = [creating EXCEPT ![p] = IF Intake!SameKey(@) # {} THEN Intake!Found(@)
                                             ELSE [@ EXCEPT !.pc = "insert"]]
      /\ UNCHANGED <<created, today, ingested, held, requests>>
  BY DEF Intake!Lookup, Intake!LookupKey
<1>3. creating[p] \in Calls
  BY <1>1 DEF IntakeTypes
<1>4. Grows(created, created')
  BY <1>2 DEF Grows
<1>5. creating'[p] \in Calls /\ Holds(p)'
  <2>1. CASE Intake!SameKey(creating[p]) = {}
    <3>1. creating'[p] = [creating[p] EXCEPT !.pc = "insert"]
      BY <1>1, <1>2, <2>1 DEF IntakeTypes
    <3>. QED  BY <1>1, <1>2, <1>3, <3>1 DEF Calls, Holds, Intake!CallPC
  <2>2. CASE Intake!SameKey(creating[p]) # {}
    <3>1. creating'[p] = Intake!Found(creating[p])
      BY <1>1, <1>2, <2>2 DEF IntakeTypes
    <3>. QED  BY <1>1, <1>2, <1>3, <2>2, <3>1, FoundIsHeld DEF IntakeTypes
  <2>. QED  BY <2>1, <2>2
<1>6. creating' \in [Actors -> Calls]
  BY <1>1, <1>2, <1>5 DEF IntakeTypes
<1>7. \A q \in Actors : Holds(q)'
  <2>1. ASSUME NEW q \in Actors \ {p} PROVE Holds(q)'
    <3>1. Holds(q)
      BY DEF IntakeInv
    <3>2. creating'[q] = creating[q] /\ held'[q] = held[q]
      BY <1>1, <1>2 DEF IntakeTypes
    <3>. QED  BY <1>4, <3>1, <3>2, OthersHold
  <2>. QED  BY <1>5, <2>1
<1>8. Intake!WorkIsRecorded'
  BY <1>2, Zenon DEF IntakeInv, Intake!WorkIsRecorded, Intake!JobIds
<1>. QED  BY <1>2, <1>6, <1>7, <1>8 DEF IntakeInv, IntakeTypes

LEMMA InsertKeeps ==
  ASSUME IntakeInv, NEW p \in Actors, Intake!Insert(p)
  PROVE  IntakeInv'
<1>. USE IntakeAssumption
<1>1. IntakeTypes /\ Holds(p)
  BY DEF IntakeInv
<1>2. creating[p] \in Calls /\ held[p] \in SUBSET Runs /\ created \in Seq(JobRows)
  BY <1>1 DEF IntakeTypes
<1>3. creating[p].pc = "insert" /\ UNCHANGED <<today, requests>>
  BY DEF Intake!Insert, Intake!InsertJob
\* The call lost a race: its runs are rolled back.
<1>4. CASE Intake!SameKey(creating[p]) # {}
  <2>1. /\ creating' = [creating EXCEPT ![p] = Intake!Found(@)]
        /\ held' = [held EXCEPT ![p] = {}]
        /\ created' = created /\ ingested' = ingested
    BY <1>4 DEF Intake!Insert, Intake!InsertJob
  <2>2. creating'[p] = Intake!Found(creating[p]) /\ held'[p] = {}
    BY <1>1, <2>1 DEF IntakeTypes
  <2>3. creating'[p] \in Calls /\ Holds(p)'
    BY <1>1, <1>2, <1>3, <1>4, <2>1, <2>2, FoundIsHeld
  <2>4. IntakeTypes'
    BY <1>1, <1>3, <2>1, <2>3 DEF IntakeTypes
  <2>5. \A q \in Actors \ {p} : creating'[q] = creating[q] /\ held'[q] = held[q]
    BY <1>1, <2>1 DEF IntakeTypes
  <2>6. \A q \in Actors : Holds(q)'
    <3>1. Grows(created, created')
      BY <2>1 DEF Grows
    <3>2. ASSUME NEW q \in Actors \ {p} PROVE Holds(q)'
      <4>1. Holds(q)
        BY DEF IntakeInv
      <4>. QED  BY <2>5, <3>1, <4>1, OthersHold
    <3>. QED  BY <2>3, <3>2
  <2>7. Intake!WorkIsRecorded'
    BY <2>1, Zenon DEF IntakeInv, Intake!WorkIsRecorded, Intake!JobIds
  <2>8. \A q \in Actors : \A r \in held'[q] : r \in held[q]
    BY <2>2, <2>5
  <2>. QED  BY <1>3, <2>1, <2>4, <2>6, <2>7, <2>8 DEF IntakeInv
\* The commit of the job is its runs' too.
<1>5. CASE Intake!SameKey(creating[p]) = {}
  <2>1. PICK row : row = [owner |-> creating[p].owner, key |-> creating[p].key,
                          about |-> creating[p].about, status |-> "QUEUED", sent |-> 0]
    OBVIOUS
  <2>2. PICK n : n = Len(created) + 1
    OBVIOUS
  <2>3. /\ created' = Append(created, row)
        /\ creating' = [creating EXCEPT ![p].pc = "dispatch", ![p].job = n]
        /\ ingested' = ingested \cup held[p] /\ held' = held
    BY <1>5, <2>1, <2>2
       DEF Intake!Insert, Intake!InsertJob, Intake!Inserted, Intake!WithJob
  <2>4. /\ creating[p].about = UNION {Intake!Payloads(r) : r \in held[p]}
        /\ \A r \in held[p] : r.key = creating[p].key
    BY <1>1, <1>3 DEF Holds
  <2>5. row \in JobRows
    <3>1. creating[p].about \in SUBSET RunItems
      BY <1>2, <2>4 DEF Intake!Payloads, Runs, RunItems
    <3>. QED  BY <1>2, <2>1, <3>1 DEF JobRows, Calls
  <2>6. /\ created' \in Seq(JobRows)
        /\ DOMAIN created' = DOMAIN created \cup {n} /\ n \in Nat /\ n \notin DOMAIN created
        /\ created'[n] = row /\ \A j \in DOMAIN created : created'[j] = created[j]
    BY <1>2, <2>2, <2>3, <2>5
  <2>7. Grows(created, created')
    BY <2>6 DEF Grows
  <2>8. creating'[p] = [creating[p] EXCEPT !.pc = "dispatch", !.job = n]
    BY <1>1, <2>3 DEF IntakeTypes
  <2>9. creating'[p] \in Calls /\ creating'[p].pc = "dispatch" /\ creating'[p].job = n
    BY <1>2, <2>6, <2>8 DEF Calls, Intake!CallPC
  <2>10. \A r \in held[p] : Worked(r, created')
    <3>1. SUFFICES ASSUME NEW r \in held[p] PROVE \E x \in row.about : x.run = r.id
      BY <2>6 DEF Worked
    <3>2. PICK d : d \in r.days
      BY DEF IntakeInv, Covers
    <3>3. [table |-> r.table, day |-> d, run |-> r.id] \in Intake!Payloads(r)
      BY <3>2 DEF Intake!Payloads
    <3>. QED  BY <2>1, <2>4, <3>3
  <2>11. IntakeTypes'
    <3>1. creating' \in [Actors -> Calls]
      BY <1>1, <2>3, <2>9 DEF IntakeTypes
    <3>. QED  BY <1>1, <1>2, <1>3, <2>3, <2>6, <3>1 DEF IntakeTypes
  <2>12. \A q \in Actors : Holds(q)'
    <3>1. Holds(p)'
      BY <2>3, <2>6, <2>9, <2>10 DEF Holds
    <3>2. ASSUME NEW q \in Actors \ {p} PROVE Holds(q)'
      <4>1. Holds(q)
        BY DEF IntakeInv
      <4>2. creating'[q] = creating[q] /\ held'[q] = held[q]
        BY <1>1, <2>3 DEF IntakeTypes
      <4>. QED  BY <2>7, <4>1, <4>2, OthersHold
    <3>. QED  BY <3>1, <3>2
  <2>13. Intake!WorkIsRecorded'
    <3>. SUFFICES ASSUME NEW j \in DOMAIN created', NEW x \in created'[j].about
                  PROVE  \E r \in ingested' : r.id = x.run /\ r.table = x.table /\ x.day \in r.days
      BY DEF Intake!WorkIsRecorded, Intake!JobIds
    <3>1. CASE j \in DOMAIN created
      BY <2>3, <2>6, <3>1 DEF IntakeInv, Intake!WorkIsRecorded, Intake!JobIds
    <3>2. CASE j = n
      <4>1. PICK r \in held[p] : x \in Intake!Payloads(r)
        BY <2>1, <2>4, <2>6, <3>2
      <4>2. r.id = x.run /\ r.table = x.table /\ x.day \in r.days
        BY <4>1 DEF Intake!Payloads
      <4>. QED  BY <2>3, <4>2
    <3>. QED  BY <2>6, <3>1, <3>2
  <2>14. \A r \in ingested' : Covers(r, today') /\ r.job \in {Intake!NoJob} \cup DOMAIN created'
    BY <1>3, <2>3, <2>6 DEF IntakeInv
  <2>15. \A r \in ingested' : Worked(r, created') \/ Repeats(r, r.job, created')
    <3>1. ASSUME NEW r \in ingested PROVE Worked(r, created') \/ Repeats(r, r.job, created')
      <4>1. Worked(r, created) \/ Repeats(r, r.job, created)
        BY DEF IntakeInv
      <4>. QED  BY <2>7, <4>1, GrowsKeeps
    <3>. QED  BY <2>3, <2>10, <3>1
  <2>. QED  BY <1>3, <2>3, <2>11, <2>12, <2>13, <2>14, <2>15 DEF IntakeInv
<1>. QED  BY <1>4, <1>5

LEMMA DispatchKeeps ==
  ASSUME IntakeInv, NEW p \in Actors, Intake!Dispatch(p)
  PROVE  IntakeInv'
<1>1. IntakeTypes /\ Holds(p)
  BY DEF IntakeInv
<1>2. PICK n : n = creating[p].job
  OBVIOUS
<1>3. /\ creating[p].pc = "dispatch"
      /\ \/ created' = [created EXCEPT ![n].sent = @ + 1]
         \/ created' = [created EXCEPT ![n].status = "DISPATCH_FAILED"]
      /\ creating' = [creating EXCEPT ![p].pc = "created"]
      /\ UNCHANGED <<today, ingested, held, requests>>
  BY <1>2 DEF Intake!Dispatch, Intake!DispatchJob
<1>4. n \in DOMAIN created /\ created \in Seq(JobRows) /\ created[n] \in JobRows
  BY <1>1, <1>2, <1>3 DEF Holds, IntakeTypes
<1>5. /\ created' \in Seq(JobRows) /\ DOMAIN created' = DOMAIN created
      /\ \A j \in DOMAIN created :
            created'[j].about = created[j].about /\ created'[j].key = created[j].key
  <2>1. PICK row : /\ created' = [created EXCEPT ![n] = row]
                   /\ row \in {[created[n] EXCEPT !.sent = @ + 1],
                               [created[n] EXCEPT !.status = "DISPATCH_FAILED"]}
    BY <1>3
  <2>2. row \in JobRows /\ row.about = created[n].about /\ row.key = created[n].key
    BY <1>4, <2>1 DEF JobRows
  <2>. QED  BY <1>4, <2>1, <2>2
<1>6. Grows(created, created')
  BY <1>5 DEF Grows
<1>7. creating'[p] = [creating[p] EXCEPT !.pc = "created"] /\ creating[p] \in Calls
  BY <1>1, <1>3 DEF IntakeTypes
<1>8. creating'[p] \in Calls /\ creating'[p].pc = "created" /\ creating'[p].job = n
  BY <1>2, <1>7 DEF Calls, Intake!CallPC
<1>9. IntakeTypes'
  <2>1. creating' \in [Actors -> Calls]
    BY <1>1, <1>3, <1>7, <1>8 DEF IntakeTypes
  <2>. QED  BY <1>1, <1>3, <1>5, <2>1 DEF IntakeTypes
<1>10. \A q \in Actors : Holds(q)'
  <2>1. Holds(p)'
    <3>1. \A r \in held[p] : Worked(r, created) \/ Repeats(r, n, created)
      BY <1>1, <1>2, <1>3 DEF Holds
    <3>2. \A r \in held[p] : Worked(r, created') \/ Repeats(r, n, created')
      BY <1>6, <3>1, GrowsKeeps
    <3>. QED  BY <1>3, <1>4, <1>5, <1>8, <3>2 DEF Holds
  <2>2. ASSUME NEW q \in Actors \ {p} PROVE Holds(q)'
    <3>1. Holds(q)
      BY DEF IntakeInv
    <3>2. creating'[q] = creating[q] /\ held'[q] = held[q]
      BY <1>1, <1>3 DEF IntakeTypes
    <3>. QED  BY <1>6, <3>1, <3>2, OthersHold
  <2>. QED  BY <2>1, <2>2
<1>11. Intake!WorkIsRecorded'
  BY <1>3, <1>5 DEF IntakeInv, Intake!WorkIsRecorded, Intake!JobIds
<1>12. \A r \in ingested' : Worked(r, created') \/ Repeats(r, r.job, created')
  BY <1>3, <1>6, GrowsKeeps DEF IntakeInv
<1>. QED  BY <1>3, <1>5, <1>9, <1>10, <1>11, <1>12 DEF IntakeInv

LEMMA LinkKeeps ==
  ASSUME IntakeInv, NEW p \in Actors, Intake!Link(p)
  PROVE  IntakeInv'
<1>. USE IntakeAssumption
<1>1. IntakeTypes /\ Holds(p)
  BY DEF IntakeInv
<1>2. PICK n : n = creating[p].job
  OBVIOUS
<1>3. PICK linked : linked = {[r EXCEPT !.job = n] : r \in held[p]}
  OBVIOUS
<1>4. /\ creating[p].pc = "created"
      /\ ingested' = (ingested \ held[p]) \cup linked
      /\ held' = [held EXCEPT ![p] = {}]
      /\ creating' = [creating EXCEPT ![p] = Intake!NoCall]
      /\ UNCHANGED <<created, today, requests>>
  BY <1>2, <1>3 DEF Intake!Link
<1>5. /\ n \in DOMAIN created /\ n \in Nat
      /\ \A r \in held[p] : Worked(r, created) \/ Repeats(r, n, created)
  BY <1>1, <1>2, <1>4 DEF Holds, IntakeTypes
<1>6. ASSUME NEW r \in held[p]
      PROVE  LET l == [r EXCEPT !.job = n]
             IN  /\ l \in Runs /\ l.job = n /\ l.id = r.id /\ l.table = r.table
                 /\ l.days = r.days /\ l.key = r.key
  <2>1. r \in Runs
    BY <1>1 DEF IntakeTypes
  <2>. QED  BY <1>5, <2>1, SMTT(30) DEF Runs
<1>7. \A l \in linked : \E r \in held[p] :
          /\ l \in Runs /\ l.job = n /\ l.id = r.id /\ l.table = r.table
          /\ l.days = r.days /\ l.key = r.key
  <2>. TAKE l \in linked
  <2>1. PICK r \in held[p] : l = [r EXCEPT !.job = n]
    BY <1>3
  <2>. QED  BY <1>6, <2>1
<1>8. \A l \in linked : /\ l \in Runs /\ l.job = n /\ Covers(l, today)
                        /\ Worked(l, created) \/ Repeats(l, l.job, created)
  <2>. SUFFICES ASSUME NEW l \in linked
                PROVE  /\ l \in Runs /\ l.job = n /\ Covers(l, today)
                       /\ Worked(l, created) \/ Repeats(l, n, created)
    BY <1>7
  <2>1. PICK r \in held[p] : /\ l \in Runs /\ l.job = n /\ l.id = r.id /\ l.table = r.table
                             /\ l.days = r.days /\ l.key = r.key
    BY <1>7
  <2>2. Covers(r, today) /\ (Worked(r, created) \/ Repeats(r, n, created))
    BY <1>5 DEF IntakeInv
  <2>. QED  BY <2>1, <2>2 DEF Covers, Worked, Repeats
<1>9. \A q \in Actors \ {p} : creating'[q] = creating[q] /\ held'[q] = held[q]
  BY <1>1, <1>4 DEF IntakeTypes
<1>10. creating'[p] = Intake!NoCall /\ held'[p] = {}
  BY <1>1, <1>4 DEF IntakeTypes
<1>11. IntakeTypes'
  <2>1. Intake!NoCall \in Calls
    BY DEF Calls, Intake!CallPC, Intake!NoCall, Intake!NoJob, Intake!NoKey
  <2>. QED  BY <1>1, <1>4, <1>8, <2>1 DEF IntakeTypes
<1>12. \A q \in Actors : Holds(q)'
  <2>1. Holds(p)'
    BY <1>10 DEF Holds, Intake!NoCall
  <2>2. Grows(created, created')
    BY <1>4 DEF Grows
  <2>3. ASSUME NEW q \in Actors \ {p} PROVE Holds(q)'
    <3>1. Holds(q)
      BY DEF IntakeInv
    <3>. QED  BY <1>9, <2>2, <3>1, OthersHold
  <2>. QED  BY <2>1, <2>3
<1>13. Intake!WorkIsRecorded'
  <2>. SUFFICES ASSUME NEW j \in DOMAIN created, NEW x \in created[j].about
                PROVE  \E r \in ingested' : r.id = x.run /\ r.table = x.table /\ x.day \in r.days
    BY <1>4 DEF Intake!WorkIsRecorded, Intake!JobIds
  <2>1. PICK r \in ingested : r.id = x.run /\ r.table = x.table /\ x.day \in r.days
    BY DEF IntakeInv, Intake!WorkIsRecorded, Intake!JobIds
  <2>2. CASE r \in held[p]
    <3>1. [r EXCEPT !.job = n] \in ingested'
      BY <1>3, <1>4, <2>2
    <3>. QED  BY <1>6, <2>1, <2>2, <3>1
  <2>3. CASE r \notin held[p]
    BY <1>4, <2>1, <2>3
  <2>. QED  BY <2>2, <2>3
<1>14. \A r \in ingested' : /\ Covers(r, today') /\ r.job \in {Intake!NoJob} \cup DOMAIN created'
                            /\ Worked(r, created') \/ Repeats(r, r.job, created')
  BY <1>4, <1>5, <1>8 DEF IntakeInv
<1>15. \A q \in Actors : \A r \in held'[q] : r \in held[q]
  BY <1>9, <1>10
<1>. QED  BY <1>4, <1>11, <1>12, <1>13, <1>14, <1>15 DEF IntakeInv

LEMMA DieKeeps ==
  ASSUME IntakeInv, NEW p \in Actors, Intake!Die(p)
  PROVE  IntakeInv'
<1>1. IntakeTypes
  BY DEF IntakeInv
<1>2. /\ held' = [held EXCEPT ![p] = {}]
      /\ creating' = [creating EXCEPT ![p] = Intake!NoCall]
      /\ UNCHANGED <<created, today, ingested, requests>>
  BY DEF Intake!Die
<1>3. \A q \in Actors \ {p} : creating'[q] = creating[q] /\ held'[q] = held[q]
  BY <1>1, <1>2 DEF IntakeTypes
<1>4. creating'[p] = Intake!NoCall /\ held'[p] = {}
  BY <1>1, <1>2 DEF IntakeTypes
<1>5. IntakeTypes'
  <2>1. Intake!NoCall \in Calls
    BY DEF Calls, Intake!CallPC, Intake!NoCall, Intake!NoJob, Intake!NoKey
  <2>. QED  BY <1>1, <1>2, <2>1 DEF IntakeTypes
<1>6. \A q \in Actors : Holds(q)'
  <2>1. Holds(p)'
    BY <1>4 DEF Holds, Intake!NoCall
  <2>2. Grows(created, created')
    BY <1>2 DEF Grows
  <2>3. ASSUME NEW q \in Actors \ {p} PROVE Holds(q)'
    <3>1. Holds(q)
      BY DEF IntakeInv
    <3>. QED  BY <1>3, <2>2, <3>1, OthersHold
  <2>. QED  BY <2>1, <2>3
<1>7. \A q \in Actors : \A r \in held'[q] : r \in held[q]
  BY <1>3, <1>4
<1>8. Intake!WorkIsRecorded'
  BY <1>2, Zenon DEF IntakeInv, Intake!WorkIsRecorded, Intake!JobIds
<1>. QED  BY <1>2, <1>5, <1>6, <1>7, <1>8 DEF IntakeInv

LEMMA MidnightKeeps ==
  ASSUME IntakeInv, Intake!Midnight
  PROVE  IntakeInv'
<1>1. /\ today < LastDay /\ today' = today + 1
      /\ UNCHANGED <<created, creating, ingested, held, requests>>
  BY DEF Intake!Midnight
<1>2. IntakeTypes /\ IntakeTypes'
  BY <1>1, IntakeAssumption DEF IntakeInv, IntakeTypes, Intake!IngestionAssumption
<1>3. \A r \in Runs : Covers(r, today) => Covers(r, today')
  BY <1>1, <1>2 DEF Covers, Runs, IntakeTypes
<1>4. \A r \in ingested : Covers(r, today')
  BY <1>2, <1>3 DEF IntakeInv, IntakeTypes
<1>5. \A p \in Actors : \A r \in held[p] : Covers(r, today')
  BY <1>2, <1>3 DEF IntakeInv, IntakeTypes
<1>6. \A p \in Actors : Holds(p)'
  BY <1>1 DEF IntakeInv, Holds
<1>7. Intake!WorkIsRecorded'
  BY <1>1, Zenon DEF IntakeInv, Intake!WorkIsRecorded, Intake!JobIds
<1>. QED  BY <1>1, <1>2, <1>4, <1>5, <1>6, <1>7 DEF IntakeInv

LEMMA IntakeInvInductive == IntakeInv /\ [Intake!Next]_ingestionVars => IntakeInv'
<1>. SUFFICES ASSUME IntakeInv, [Intake!Next]_ingestionVars PROVE IntakeInv'
  OBVIOUS
<1>1. ASSUME UNCHANGED ingestionVars PROVE IntakeInv'
  <2>1. UNCHANGED <<created, creating, today, ingested, held, requests>>
    BY <1>1 DEF ingestionVars
  <2>2. Intake!WorkIsRecorded' /\ IntakeTypes' /\ \A p \in Actors : Holds(p)'
    BY <2>1, Zenon
       DEF IntakeInv, Intake!WorkIsRecorded, Intake!JobIds, IntakeTypes, Holds
  <2>. QED  BY <2>1, <2>2 DEF IntakeInv
<1>2. CASE \E p \in Actors : \/ Intake!Lookup(p) \/ Intake!Insert(p) \/ Intake!Dispatch(p)
                             \/ Intake!Link(p) \/ Intake!Die(p)
  BY <1>2, LookupKeeps, InsertKeeps, DispatchKeeps, LinkKeeps, DieKeeps
<1>3. CASE \E p \in Actors, owner \in Owners,
               req \in Intake!RequestsOf(SUBSET Intake!Names \ {{}}) : Intake!Request(p, owner, req)
  BY <1>3, RequestKeeps
<1>4. CASE Intake!Midnight
  BY <1>4, MidnightKeeps
<1>. QED  BY <1>1, <1>2, <1>3, <1>4, Zenon DEF Intake!Next, Intake!ingestionVars, ingestionVars

\* A worker that takes an item of an ingestion finds the run and the row it has to
\* report in, whatever an endpoint that died between its commits has left.
THEOREM WorkIsThere == Intake!Spec => []Intake!WorkIsRecorded
<1>1. IntakeInv => Intake!WorkIsRecorded
  BY DEF IntakeInv
<1>. QED  BY <1>1, InitIntakeInv, IntakeInvInductive, PTL
        DEF Intake!Spec, Intake!ingestionVars, ingestionVars

LEMMA IntakeRuns ==
  ASSUME IntakeInv
  PROVE  Intake!WorkIsRecorded /\ Intake!IdleRunsRepeatAKey /\ Intake!RunsCoverDays
<1>1. Intake!WorkIsRecorded
  BY DEF IntakeInv
<1>2. Intake!IdleRunsRepeatAKey
  <2>. SUFFICES ASSUME NEW r \in ingested
                PROVE  \/ \E j \in DOMAIN created : \E x \in created[j].about : x.run = r.id
                       \/ /\ r.job # Intake!NoJob /\ r.key # Intake!NoKey
                          /\ created[r.job].key = r.key
    BY DEF Intake!IdleRunsRepeatAKey, Intake!JobIds
  <2>1. Worked(r, created) \/ Repeats(r, r.job, created)
    BY DEF IntakeInv
  <2>2. Intake!NoJob \notin DOMAIN created
    BY DEF IntakeInv, IntakeTypes, Intake!NoJob
  <2>. QED  BY <2>1, <2>2 DEF Worked, Repeats
<1>3. Intake!RunsCoverDays
  BY DEF IntakeInv, Covers, Intake!RunsCoverDays
<1>. QED  BY <1>1, <1>2, <1>3

\* No run is left that nobody works for, other than one that repeats its job's key.
THEOREM RunsAreWorkedFor == Intake!Spec => []Intake!IdleRunsRepeatAKey
BY IntakeRuns, InitIntakeInv, IntakeInvInductive, PTL
DEF Intake!Spec, Intake!ingestionVars, ingestionVars

\* No run is empty, and none covers a day that has not come.
THEOREM RunsHaveDays == Intake!Spec => []Intake!RunsCoverDays
BY IntakeRuns, InitIntakeInv, IntakeInvInductive, PTL
DEF Intake!Spec, Intake!ingestionVars, ingestionVars

-----------------------------------------------------------------------------
(* The behaviours of MCServices.                                           *)

\* A step of another module leaves the ingestion where it is.
LEMMA ServicesIntake ==
  /\ ServicesInit => Intake!Init
  /\ [ServicesNext]_allVars => [Intake!Next]_ingestionVars
BY Zenon DEF ServicesInit, ServicesNext, ClientNext, PlainNext, CalendarNext, IngestionNext, LakeNext,
             ReportsNext, SkusNext, allVars

(* The three together, as MCServices states them: what a request leaves behind is *)
(* a run with work, a job that works for it, or the key of one.               *)
THEOREM RunsHaveTheirWork == ServicesSpec => []RunsHaveWork
<1>1. IntakeInv => RunsHaveWork
  BY IntakeRuns DEF RunsHaveWork
<1>. QED  BY <1>1, ServicesIntake, InitIntakeInv, IntakeInvInductive, PTL DEF ServicesSpec

-----------------------------------------------------------------------------
(* ChannelSkus.                                                            *)

ShelfP == INSTANCE ChannelSkus_proofs
    WITH Keys <- Labels, Sheets <- Workbooks, Sessions <- Actors, MaxOps <- 3

\* The module and the one with its proofs are instantiated alike.
LEMMA SameShelf ==
  /\ Shelf!Next = ShelfP!Next /\ Shelf!Init = ShelfP!Init
  /\ Shelf!ChannelAssumption = ShelfP!ChannelAssumption
  /\ Shelf!PromotionsHaveParents = ShelfP!PromotionsHaveParents
  /\ Shelf!ReaderSatisfiesSchema = ShelfP!ReaderSatisfiesSchema
  /\ Shelf!SnapshotAlone = ShelfP!SnapshotAlone
  /\ Shelf!ImportAlone = ShelfP!ImportAlone
  /\ Shelf!IdWritten = ShelfP!IdWritten
<1>1. Shelf!Next = ShelfP!Next
  BY Zenon DEF Shelf!channelVars, ShelfP!channelVars, Shelf!Names, ShelfP!Names, Shelf!Casefold, ShelfP!Casefold,
         Shelf!Blank, ShelfP!Blank, Shelf!NoSku, ShelfP!NoSku,
         Shelf!SkuRow, ShelfP!SkuRow, Shelf!Exists, ShelfP!Exists,
         Shelf!Active, ShelfP!Active, Shelf!NoReport, ShelfP!NoReport,
         Shelf!NoPlan, ShelfP!NoPlan, Shelf!Idle, ShelfP!Idle,
         Shelf!Planned, ShelfP!Planned, Shelf!Plan, ShelfP!Plan,
         Shelf!Answer, ShelfP!Answer, Shelf!ExternalId, ShelfP!ExternalId,
         Shelf!Create, ShelfP!Create, Shelf!Update, ShelfP!Update,
         Shelf!Bit, ShelfP!Bit, Shelf!Switches, ShelfP!Switches,
         Shelf!SetActive, ShelfP!SetActive, Shelf!Omitted, ShelfP!Omitted,
         Shelf!SkusOf, ShelfP!SkusOf, Shelf!Received, ShelfP!Received,
         Shelf!BulkPlan, ShelfP!BulkPlan, Shelf!CreatePromo, ShelfP!CreatePromo,
         Shelf!DeletePromo, ShelfP!DeletePromo, Shelf!Unknown, ShelfP!Unknown,
         Shelf!PromoPlan, ShelfP!PromoPlan, Shelf!Seen, ShelfP!Seen,
         Shelf!RowErrors, ShelfP!RowErrors, Shelf!ReaderRefuses, ShelfP!ReaderRefuses,
         Shelf!SchemaRefuses, ShelfP!SchemaRefuses, Shelf!Items, ShelfP!Items,
         Shelf!ImportSkus, ShelfP!ImportSkus,
         Shelf!ImportPromotions, ShelfP!ImportPromotions,
         Shelf!Collides, ShelfP!Collides, Shelf!Written, ShelfP!Written,
         Shelf!Commit, ShelfP!Commit, Shelf!Rollback, ShelfP!Rollback,
         Shelf!Next, ShelfP!Next
<1>2. Shelf!Init = ShelfP!Init
  BY SMT DEF Shelf!Exists, ShelfP!Exists, Shelf!Casefold, ShelfP!Casefold,
         Shelf!Init, ShelfP!Init, Shelf!SkuRow, ShelfP!SkuRow,
         Shelf!NoSku, ShelfP!NoSku, Shelf!Blank, ShelfP!Blank,
         Shelf!Names, ShelfP!Names, Shelf!NoPlan, ShelfP!NoPlan,
         Shelf!NoReport, ShelfP!NoReport, Shelf!Idle, ShelfP!Idle
<1>3. Shelf!ChannelAssumption = ShelfP!ChannelAssumption
  BY Zenon DEF Shelf!ChannelAssumption, ShelfP!ChannelAssumption,
         Shelf!Blank, ShelfP!Blank, Shelf!Names, ShelfP!Names
<1>4. /\ Shelf!PromotionsHaveParents = ShelfP!PromotionsHaveParents
      /\ Shelf!ReaderSatisfiesSchema = ShelfP!ReaderSatisfiesSchema
      /\ Shelf!IdWritten = ShelfP!IdWritten
  BY Zenon DEF Shelf!PromotionsHaveParents, ShelfP!PromotionsHaveParents,
         Shelf!ReaderSatisfiesSchema, ShelfP!ReaderSatisfiesSchema,
         Shelf!IdWritten, ShelfP!IdWritten, Shelf!NoSku, ShelfP!NoSku,
         Shelf!Exists, ShelfP!Exists, Shelf!Blank, ShelfP!Blank
<1>5. Shelf!SnapshotAlone = ShelfP!SnapshotAlone /\ Shelf!ImportAlone = ShelfP!ImportAlone
  BY Zenon DEF Shelf!Planned, ShelfP!Planned, Shelf!SnapshotAlone, ShelfP!SnapshotAlone,
         Shelf!ImportAlone, ShelfP!ImportAlone, Shelf!Applies, ShelfP!Applies,
         Shelf!NoSku, ShelfP!NoSku, Shelf!Exists, ShelfP!Exists,
         Shelf!Active, ShelfP!Active
<1>. QED  BY <1>1, <1>2, <1>3, <1>4, <1>5

LEMMA ServicesShelf ==
  /\ ServicesInit => ShelfP!Init
  /\ [ServicesNext]_allVars => [ShelfP!Next]_channelVars
BY SameShelf, Zenon
DEF ServicesInit, ServicesNext, ClientNext, PlainNext, CalendarNext, IngestionNext, LakeNext,
    ReportsNext, SkusNext, allVars

LEMMA ShelfInvHolds ==
  /\ ServicesInit => ShelfP!SkuInv
  /\ ShelfP!SkuInv /\ [ServicesNext]_allVars => ShelfP!SkuInv'
<1>1. ShelfP!ChannelAssumption
  BY ShelfAssumption, SameShelf
<1>2. ServicesInit => ShelfP!SkuInv
  BY <1>1, ServicesShelf, ShelfP!SkuInvInit, Zenon
<1>3. ASSUME ShelfP!SkuInv, [ServicesNext]_allVars PROVE ShelfP!SkuInv'
  <2>1. [ShelfP!Next]_ShelfP!channelVars
    BY <1>3, ServicesShelf, Zenon DEF ShelfP!channelVars, channelVars
  <2>. QED  BY <1>1, <1>3, <2>1, ShelfP!SkuInvInductive, Zenon
<1>. QED  BY <1>2, <1>3

(* Every promotion has its SKU, and the reader of workbooks lets through nothing  *)
(* that the schema of the request refuses (ParentsAreThere and ReaderIsEnough of  *)
(* ChannelSkus_proofs, in the behaviours of MCServices).                      *)
THEOREM ShelfStaysSound == ServicesSpec => []ShelfIsSound
<1>1. ShelfP!SkuInv => ShelfIsSound
  <2>1. ShelfP!SkuInv => ShelfP!PromotionsHaveParents /\ ShelfP!ReaderSatisfiesSchema
    BY ShelfP!InvIsEnough, Zenon
  <2>. QED  BY <2>1, SameShelf, Zenon DEF ShelfIsSound
<1>. QED  BY <1>1, ShelfInvHolds, PTL DEF ServicesSpec

(* A snapshot and an import that are alone do what they say, and the identifier     *)
(* written is the SKU (SnapshotsAreExact, ReportsAreTrue and IdsAreTheSkus).      *)
THEOREM SkusEndAsListed == ServicesSpec => SkusAsListed
<1>1. ASSUME ShelfP!SkuInv, [ServicesNext]_allVars
      PROVE  Shelf!SnapshotAlone /\ Shelf!ImportAlone /\ Shelf!IdWritten
  <2>1. [ShelfP!Next]_ShelfP!channelVars
    BY <1>1, ServicesShelf, Zenon DEF ShelfP!channelVars, channelVars
  <2>. QED  BY <1>1, <2>1, SameShelf, ShelfP!SnapshotIsExact, ShelfP!ReportIsWhatItDid,
               ShelfP!IdIsWritten, Zenon
<1>2. ShelfP!SkuInv /\ [ServicesNext]_allVars
      => [part = "skus" => Shelf!SnapshotAlone /\ Shelf!ImportAlone /\ Shelf!IdWritten]_allVars
  BY <1>1
<1>. QED  BY <1>2, ShelfInvHolds, PTL DEF ServicesSpec, SkusAsListed

-----------------------------------------------------------------------------
(* SalesLake.                                                              *)

LakeP == INSTANCE SalesLake_proofs
    WITH SalesDays <- Today, Docs <- Things, Workers <- Actors, LakeBound <- 6,
         worker <- writer, begun <- started

LEMMA SameLake ==
  /\ Lake!Next = LakeP!Next /\ Lake!Init = LakeP!Init
  /\ Lake!WriteAlone = LakeP!WriteAlone /\ Lake!BuildAlone = LakeP!BuildAlone
  /\ Lake!Kept = LakeP!Kept /\ Lake!Ready = LakeP!Ready
<1>1. Lake!Next = LakeP!Next
  BY Zenon DEF Lake!lakeVars, LakeP!lakeVars, Lake!Bronze, LakeP!Bronze,
         Lake!Silver, LakeP!Silver, Lake!Paths, LakeP!Paths, Lake!Frames, LakeP!Frames,
         Lake!Gone, LakeP!Gone, Lake!Bare, LakeP!Bare, Lake!Holding, LakeP!Holding,
         Lake!HasFile, LakeP!HasFile, Lake!Asleep, LakeP!Asleep, Lake!Busy, LakeP!Busy,
         Lake!DayOf, LakeP!DayOf, Lake!Working, LakeP!Working, Lake!Begin, LakeP!Begin,
         Lake!Continue, LakeP!Continue, Lake!Fail, LakeP!Fail,
         Lake!Target, LakeP!Target, Lake!Replacement, LakeP!Replacement,
         Lake!NameTaken, LakeP!NameTaken, Lake!WriteTemp, LakeP!WriteTemp,
         Lake!Look, LakeP!Look, Lake!Unlink, LakeP!Unlink,
         Lake!RemoveDir, LakeP!RemoveDir, Lake!Stopped, LakeP!Stopped,
         Lake!Rename, LakeP!Rename, Lake!Ingest, LakeP!Ingest,
         Lake!StartBuild, LakeP!StartBuild, Lake!Register, LakeP!Register,
         Lake!Readable, LakeP!Readable, Lake!Table, LakeP!Table,
         Lake!Documents, LakeP!Documents, Lake!Lines, LakeP!Lines,
         Lake!ReadDocuments, LakeP!ReadDocuments, Lake!ReadLines, LakeP!ReadLines,
         Lake!HasTemp, LakeP!HasTemp, Lake!Crash, LakeP!Crash,
         Lake!LateDocument, LakeP!LateDocument, Lake!Write, LakeP!Write,
         Lake!Build, LakeP!Build, Lake!Next, LakeP!Next
<1>2. Lake!Init = LakeP!Init
  BY SMT DEF Lake!Init, LakeP!Init, Lake!Paths, LakeP!Paths, Lake!Bronze, LakeP!Bronze,
         Lake!Silver, LakeP!Silver, Lake!Gone, LakeP!Gone, Lake!Asleep, LakeP!Asleep,
         Lake!Frames, LakeP!Frames
<1>3. Lake!WriteAlone = LakeP!WriteAlone /\ Lake!BuildAlone = LakeP!BuildAlone
  BY Zenon DEF Lake!WriteAlone, LakeP!WriteAlone, Lake!BuildAlone, LakeP!BuildAlone,
         Lake!Asleep, LakeP!Asleep, Lake!HasFile, LakeP!HasFile, Lake!Gone, LakeP!Gone,
         Lake!Bare, LakeP!Bare, Lake!Holding, LakeP!Holding, Lake!DayOf, LakeP!DayOf,
         Lake!Target, LakeP!Target, Lake!Replacement, LakeP!Replacement
<1>4. Lake!Kept = LakeP!Kept /\ Lake!Ready = LakeP!Ready
  BY Zenon DEF Lake!Kept, LakeP!Kept, Lake!Ready, LakeP!Ready, Lake!Paths, LakeP!Paths,
         Lake!Bronze, LakeP!Bronze, Lake!Silver, LakeP!Silver,
         Lake!HasFile, LakeP!HasFile, Lake!HasTemp, LakeP!HasTemp,
         Lake!Gone, LakeP!Gone, Lake!Bare, LakeP!Bare, Lake!Nothing, LakeP!Nothing,
         Lake!Holding, LakeP!Holding, Lake!Target, LakeP!Target,
         Lake!Replacement, LakeP!Replacement, Lake!Asleep, LakeP!Asleep
<1>. QED  BY <1>1, <1>2, <1>3, <1>4

LEMMA ServicesLake ==
  /\ ServicesInit => LakeP!Init
  /\ [ServicesNext]_allVars => [LakeP!Next]_LakeP!lakeVars
BY SameLake, Zenon
DEF ServicesInit, ServicesNext, ClientNext, PlainNext, CalendarNext, IngestionNext, LakeNext,
    ReportsNext, SkusNext, allVars, lakeVars, LakeP!lakeVars

LEMMA SameStore ==
  /\ Lake!Store!Init = LakeP!Store!Init /\ Lake!Store!Next = LakeP!Store!Next
  /\ Lake!Store!storeVars = <<LakeP!Kept, LakeP!Ready>>
  /\ Lake!Store!storeVars' = <<LakeP!Kept, LakeP!Ready>>'
<1>. USE DEF Lake!Paths, LakeP!Paths, Lake!Bronze, LakeP!Bronze, Lake!Silver, LakeP!Silver,
             Lake!Nothing, LakeP!Nothing, Lake!Frames, LakeP!Frames, Lake!Holding, LakeP!Holding
<1>1. Lake!Kept = LakeP!Kept /\ Lake!Ready = LakeP!Ready
  BY SameLake
<1>2. Lake!Kept' = LakeP!Kept' /\ Lake!Ready' = LakeP!Ready'
  BY Zenon
  DEF Lake!Kept, LakeP!Kept, Lake!Ready, LakeP!Ready, Lake!HasFile, LakeP!HasFile,
      Lake!HasTemp, LakeP!HasTemp, Lake!Gone, LakeP!Gone, Lake!Bare, LakeP!Bare,
      Lake!Target, LakeP!Target, Lake!Replacement, LakeP!Replacement, Lake!Asleep, LakeP!Asleep
<1>3. Lake!Store!Init = LakeP!Store!Init
  BY <1>1, Zenon DEF Lake!Store!Init, LakeP!Store!Init
<1>4. Lake!Store!Next = LakeP!Store!Next
  BY <1>1, <1>2, Zenon
  DEF Lake!Store!Next, LakeP!Store!Next, Lake!Store!Prepare, LakeP!Store!Prepare,
      Lake!Store!Drop, LakeP!Store!Drop, Lake!Store!Install, LakeP!Store!Install,
      Lake!Store!Abandon, LakeP!Store!Abandon
<1>. QED  BY <1>1, <1>2, <1>3, <1>4 DEF Lake!Store!storeVars

(* The lake keeps the promises of PartitionStore (LakeIsAStore of                *)
(* SalesLake_proofs, in the behaviours of MCServices).                        *)
THEOREM LakeStaysAStore == ServicesSpec => ImplementsStore
<1>1. ServicesInit => LakeP!Types /\ Lake!Store!Init
  BY SameStore, ServicesLake, LakeP!InitTypes, LakeP!InitStore, Zenon
<1>2. LakeP!Types /\ [ServicesNext]_allVars
      => LakeP!Types' /\ [Lake!Store!Next]_Lake!Store!storeVars
  BY SameStore, ServicesLake, LakeP!StepTypes, LakeP!StepStore, Zenon
<1>. QED  BY <1>1, <1>2, PTL DEF ServicesSpec, ImplementsStore, Lake!ImplementsStore, Lake!Store!Spec

(* A write and a build that are alone with their day do what they should          *)
(* (AloneSucceeds).                                                          *)
THEOREM AloneStaysEnough == ServicesSpec => AloneIsEnough
<1>1. ServicesInit => LakeP!AloneInv
  BY ServicesLake, LakeP!InitAlone, Zenon
<1>2. LakeP!AloneInv /\ [ServicesNext]_allVars
      => LakeP!AloneInv' /\ [part = "lake" => Lake!WriteAlone /\ Lake!BuildAlone]_allVars
  BY SameLake, ServicesLake, LakeP!StepAlone, Zenon
<1>. QED  BY <1>1, <1>2, PTL DEF ServicesSpec, AloneIsEnough

-----------------------------------------------------------------------------
(* PlainJobs.                                                              *)

PlainP == INSTANCE PlainJobs_proofs
    WITH NumBatches <- 1, Items <- Things, BatchOf <- OneBatch, Workers <- Actors,
         Cancellers <- {Canceller}, Retriers <- {}, MaxRetries <- 1,
         Budgets <- CrashOrAbort, Kinds <- PlainKinds, acted <- executed

LEMMA SamePlain ==
  /\ Plain!Next = PlainP!Next /\ Plain!Init = PlainP!Init
  /\ PlainP!EngineAssumption
  /\ Plain!WorkIsDoneOnce = PlainP!WorkIsDoneOnce
  /\ Plain!MirrorFollowsItems = PlainP!MirrorFollowsItems
  /\ Plain!RunFollowsItems = PlainP!RunFollowsItems
  /\ Plain!LastBatchClosesJob = PlainP!LastBatchClosesJob
<1>1. Plain!Next = PlainP!Next
  BY Zenon DEF Plain!Cardinality, PlainP!Cardinality, Plain!Faults, PlainP!Faults, Plain!Batches, PlainP!Batches,
         Plain!Requests, PlainP!Requests, Plain!Processes, PlainP!Processes,
         Plain!TerminalJob, PlainP!TerminalJob,
         Plain!TerminalBatch, PlainP!TerminalBatch,
         Plain!TerminalItem, PlainP!TerminalItem, Plain!NoTask, PlainP!NoTask,
         Plain!NoBatchRow, PlainP!NoBatchRow, Plain!NoMsg, PlainP!NoMsg,
         Plain!NoRow, PlainP!NoRow, Plain!dbVars, PlainP!dbVars,
         Plain!brokerVars, PlainP!brokerVars, Plain!engineVars, PlainP!engineVars,
         Plain!Idle, PlainP!Idle, Plain!Column, PlainP!Column,
         Plain!FlushJob, PlainP!FlushJob, Plain!SetItems, PlainP!SetItems,
         Plain!Become, PlainP!Become, Plain!Goto, PlainP!Goto,
         Plain!Spend, PlainP!Spend, Plain!ItemCount, PlainP!ItemCount,
         Plain!CountItems, PlainP!CountItems,
         Plain!FinishedBatches, PlainP!FinishedBatches,
         Plain!FinalStatus, PlainP!FinalStatus,
         Plain!CountBatches, PlainP!CountBatches,
         Plain!SaveProgress, PlainP!SaveProgress,
         Plain!RefreshProgress, PlainP!RefreshProgress,
         Plain!Dispatchable, PlainP!Dispatchable,
         Plain!DispatchLoad, PlainP!DispatchLoad,
         Plain!ModuleDisabled, PlainP!ModuleDisabled,
         Plain!MarkQueued, PlainP!MarkQueued, Plain!Publish, PlainP!Publish,
         Plain!PublishFails, PlainP!PublishFails,
         Plain!DispatchFailed, PlainP!DispatchFailed, Plain!Dispatch, PlainP!Dispatch,
         Plain!CancelLoad, PlainP!CancelLoad, Plain!Cancellable, PlainP!Cancellable,
         Plain!CancelCommit, PlainP!CancelCommit, Plain!Revoke, PlainP!Revoke,
         Plain!RetryLoad, PlainP!RetryLoad, Plain!RetryRequeue, PlainP!RetryRequeue,
         Plain!RequestCrash, PlainP!RequestCrash,
         Plain!RequestProgress, PlainP!RequestProgress,
         Plain!RequestNext, PlainP!RequestNext, Plain!Discard, PlainP!Discard,
         Plain!Ack, PlainP!Ack, Plain!WorkerCrash, PlainP!WorkerCrash,
         Plain!CancelSeen, PlainP!CancelSeen, Plain!Mine, PlainP!Mine,
         Plain!Remember, PlainP!Remember, Plain!SetBatchStatus, PlainP!SetBatchStatus,
         Plain!Loaded, PlainP!Loaded, Plain!StaleTask, PlainP!StaleTask,
         Plain!Claimable, PlainP!Claimable, Plain!ClaimedStatus, PlainP!ClaimedStatus,
         Plain!Unfinished, PlainP!Unfinished, Plain!BatchOutcome, PlainP!BatchOutcome,
         Plain!outside, PlainP!outside, Plain!vars, PlainP!vars,
         Plain!Ingests, PlainP!Ingests, Plain!KnownJob, PlainP!KnownJob,
         Plain!MarkIngestionItems, PlainP!MarkIngestionItems,
         Plain!Receive, PlainP!Receive, Plain!Claim, PlainP!Claim,
         Plain!StartBatch, PlainP!StartBatch, Plain!Waiting, PlainP!Waiting,
         Plain!CheckCancel, PlainP!CheckCancel, Plain!StartItem, PlainP!StartItem,
         Plain!Execute, PlainP!Execute, Plain!Verdict, PlainP!Verdict,
         Plain!RecordItem, PlainP!RecordItem, Plain!FinishBatch, PlainP!FinishBatch,
         Plain!CancelPending, PlainP!CancelPending, Plain!AbortTask, PlainP!AbortTask,
         Plain!Republish, PlainP!Republish, Plain!AfterFailure, PlainP!AfterFailure,
         Plain!FailBatch, PlainP!FailBatch, Plain!RunVerdict, PlainP!RunVerdict,
         Plain!Statuses, PlainP!Statuses, Plain!RefreshRun, PlainP!RefreshRun,
         Plain!Finish, PlainP!Finish, Plain!WorkerProgress, PlainP!WorkerProgress,
         Plain!WorkerFault, PlainP!WorkerFault, Plain!Next, PlainP!Next
<1>2. Plain!Init = PlainP!Init
  <2>1. /\ Plain!NoRow = PlainP!NoRow /\ Plain!NoTask = PlainP!NoTask
        /\ Plain!Batches = PlainP!Batches /\ Plain!Processes = PlainP!Processes
        /\ \A l : Plain!Idle(l) = PlainP!Idle(l)
    BY Zenon DEF Plain!NoRow, PlainP!NoRow, Plain!NoTask, PlainP!NoTask,
         Plain!Batches, PlainP!Batches, Plain!Processes, PlainP!Processes,
         Plain!Requests, PlainP!Requests, Plain!Idle, PlainP!Idle,
         Plain!NoMsg, PlainP!NoMsg, Plain!NoBatchRow, PlainP!NoBatchRow
  <2>2. Plain!EngineInit = PlainP!EngineInit
    BY <2>1, Zenon DEF Plain!EngineInit, PlainP!EngineInit
  <2>. QED  BY <2>2, Zenon DEF Plain!Init, PlainP!Init
<1>3. PlainP!EngineAssumption
  BY PlainEngine, Zenon
  DEF Plain!EngineAssumption, PlainP!EngineAssumption, Plain!Batches, PlainP!Batches,
      Plain!Faults, PlainP!Faults, Plain!Requests, PlainP!Requests,
      Plain!IsFiniteSet, PlainP!IsFiniteSet
<1>4. Plain!WorkIsDoneOnce = PlainP!WorkIsDoneOnce
  BY Zenon DEF Plain!WorkIsDoneOnce, PlainP!WorkIsDoneOnce,
         Plain!NoPhantomSuccess, PlainP!NoPhantomSuccess,
         Plain!NeverRepeated, PlainP!NeverRepeated
<1>5. Plain!Resting = PlainP!Resting
  BY Zenon DEF Plain!Resting, PlainP!Resting, Plain!Processes, PlainP!Processes,
         Plain!Requests, PlainP!Requests
<1>6. Plain!MirrorFollowsItems = PlainP!MirrorFollowsItems
  BY <1>5, Zenon DEF Plain!MirrorFollowsItems, PlainP!MirrorFollowsItems,
         Plain!Ingests, PlainP!Ingests, Plain!TerminalItem, PlainP!TerminalItem
<1>7. Plain!RunFollowsItems = PlainP!RunFollowsItems
  BY <1>5, Zenon DEF Plain!RunFollowsItems, PlainP!RunFollowsItems,
         Plain!Ingests, PlainP!Ingests, Plain!TerminalItem, PlainP!TerminalItem,
         Plain!Statuses, PlainP!Statuses, Plain!RunVerdict, PlainP!RunVerdict
<1>8. Plain!LastBatchClosesJob = PlainP!LastBatchClosesJob
  BY <1>5, Zenon DEF Plain!LastBatchClosesJob, PlainP!LastBatchClosesJob,
         Plain!Batches, PlainP!Batches, Plain!TerminalBatch, PlainP!TerminalBatch,
         Plain!TerminalJob, PlainP!TerminalJob
<1>. QED  BY <1>1, <1>2, <1>3, <1>4, <1>6, <1>7, <1>8

LEMMA ServicesPlain ==
  /\ ServicesInit => PlainP!Init
  /\ [ServicesNext]_allVars => [PlainP!Next]_PlainP!vars
<1>1. ServicesInit => PlainP!Init
  BY SamePlain, Zenon DEF ServicesInit
<1>2. [ServicesNext]_allVars => [PlainP!Next]_plainVars
  BY SamePlain, Zenon
  DEF ServicesNext, ClientNext, PlainNext, CalendarNext, IngestionNext, LakeNext, ReportsNext,
      SkusNext, allVars
<1>3. UNCHANGED plainVars => UNCHANGED PlainP!vars
  BY Zenon DEF plainVars, PlainP!vars, PlainP!engineVars, PlainP!outside
<1>. QED  BY <1>1, <1>2, <1>3

\* No task is retried after an abort and redelivered after a crash in one behaviour.
LEMMA PlainIsSingle == PlainP!SingleDelivery
BY DEF PlainP!SingleDelivery, CrashOrAbort, Once

(* Whatever the broker redelivers, an item recorded SUCCEEDED did its work, once  *)
(* (DoneOnce of PlainJobs_proofs, in the behaviours of MCServices).            *)
THEOREM WorkStaysDoneOnce == ServicesSpec => []WorkIsDoneOnce
<1>1. PlainP!EngineAssumption
  BY SamePlain
<1>2. ServicesInit => PlainP!OnceInv
  BY <1>1, ServicesPlain, PlainIsSingle, PlainP!OnceInit, Zenon
<1>3. PlainP!OnceInv /\ [ServicesNext]_allVars => PlainP!OnceInv'
  BY <1>1, ServicesPlain, PlainIsSingle, PlainP!OnceStep, Zenon
<1>4. PlainP!OnceInv => WorkIsDoneOnce
  BY <1>1, SamePlain, PlainP!OnceIsEnough, Zenon DEF WorkIsDoneOnce
<1>. QED  BY <1>2, <1>3, <1>4, PTL DEF ServicesSpec

\* One batch, dispatched once; of the faults, a worker dies or a task is aborted.
LEMMA PlainIsOneDispatch == PlainP!OneDispatch /\ PlainP!Settles
BY DEF PlainP!OneDispatch, PlainP!Settles, CrashOrAbort, Once

(* The ingestion's items and run follow those of the job, and the job is final once *)
(* its batch is (RunKeepsUp and LastBatchCloses of PlainJobs_proofs, in the       *)
(* behaviours of MCServices).                                               *)
THEOREM RunsFollowJobs == ServicesSpec => []RunFollowsJob
<1>1. PlainP!EngineAssumption
  BY SamePlain
<1>2. ServicesInit => PlainP!MirrorInv /\ PlainP!CloseInv
  BY <1>1, ServicesPlain, PlainIsOneDispatch, PlainP!MirrorInit, PlainP!CloseInit, Zenon
<1>3. PlainP!MirrorInv /\ [ServicesNext]_allVars => PlainP!MirrorInv'
  BY <1>1, ServicesPlain, PlainP!MirrorStep, Zenon
<1>4. PlainP!CloseInv /\ [ServicesNext]_allVars => PlainP!CloseInv'
  BY <1>1, ServicesPlain, PlainIsOneDispatch, PlainP!CloseStep, Zenon
<1>5. PlainP!MirrorInv => PlainP!MirrorFollowsItems /\ PlainP!RunFollowsItems
  BY <1>1, PlainP!MirrorIsEnough, Zenon
<1>6. PlainP!CloseInv => PlainP!LastBatchClosesJob
  BY <1>1, PlainIsOneDispatch, PlainP!CloseIsEnough, Zenon
<1>7. PlainP!MirrorInv /\ PlainP!CloseInv => RunFollowsJob
  BY <1>5, <1>6, SamePlain, Zenon DEF RunFollowsJob
<1>. QED  BY <1>2, <1>3, <1>4, <1>7, PTL DEF ServicesSpec

-----------------------------------------------------------------------------
(* SalesReports.                                                           *)

LEMMA ServicesReports ==
  /\ ServicesInit => Reports!Init
  /\ [ServicesNext]_allVars => [Reports!Next]_reportVars
BY Zenon DEF ServicesInit, ServicesNext, ClientNext, PlainNext, CalendarNext, IngestionNext, LakeNext,
             ReportsNext, SkusNext, allVars

LEMMA InitReports == Reports!Init => Reports!TypeOK
BY SMT DEF Reports!Init, Reports!TypeOK

LEMMA StepReports == Reports!TypeOK /\ [Reports!Next]_reportVars => Reports!TypeOK'
<1>. SUFFICES ASSUME Reports!TypeOK, [Reports!Next]_reportVars PROVE Reports!TypeOK'
  OBVIOUS
<1>1. CASE UNCHANGED reportVars
  BY <1>1 DEF reportVars, Reports!TypeOK
<1>2. ASSUME NEW d \in Reports!Documents, Reports!NextDocument(d) PROVE Reports!TypeOK'
  BY <1>2, Zenon DEF Reports!NextDocument, Reports!TypeOK
<1>3. ASSUME NEW p \in Products, NEW amount \in SmallAndLarge, Reports!AddLine(p, amount)
      PROVE  Reports!TypeOK'
  <2>1. sold[p] + amount * Reports!Signo(doc) \in Int
    BY SMT DEF Reports!TypeOK, SmallAndLarge, Reports!Signo
  <2>2. sold' \in [Products -> Int]
    BY <1>3, <2>1 DEF Reports!TypeOK, Reports!AddLine
  <2>3. lines' \in 0..4 /\ doc' = doc
    BY <1>3, SMT DEF Reports!TypeOK, Reports!AddLine
  <2>. QED  BY <2>2, <2>3, Zenon DEF Reports!TypeOK
<1>. QED
  BY <1>1, <1>2, <1>3, Zenon DEF Reports!Next, Reports!reportVars, reportVars

(* The two classifications of a sale, kept in two CASE expressions, agree, for any  *)
(* number of lines (documentos_venta).                                       *)
THEOREM ChannelsAgree == ServicesSpec => []Reports!EcommerceConsistent
<1>1. Reports!TypeOK => Reports!EcommerceConsistent
  BY SMT DEF Reports!TypeOK, Reports!EcommerceConsistent, Reports!Documents, Reports!Canal,
             Reports!EsEcommerce, Reports!CreditNote, Reports!EcommerceChannels
<1>. QED
  BY <1>1, ServicesReports, InitReports, StepReports, PTL DEF ServicesSpec

-----------------------------------------------------------------------------
(* The types of the seven.                                                 *)

LEMMA ServicesClient ==
  /\ ServicesInit => Init
  /\ [ServicesNext]_allVars => [Next]_vars
BY Zenon DEF ServicesInit, ServicesNext, ClientNext, PlainNext, CalendarNext, IngestionNext, LakeNext,
             ReportsNext, SkusNext, allVars

LEMMA SameTypes ==
  /\ PlainP!TypeOK => Plain!TypeOK
  /\ LakeP!TypeOK => Lake!TypeOK
  /\ ShelfP!TypeOK => Shelf!TypeOK
<1>1. PlainP!TypeOK => Plain!TypeOK
  BY Zenon DEF Plain!TypeOK, PlainP!TypeOK, Plain!JobRow, PlainP!JobRow,
         Plain!BatchRow, PlainP!BatchRow, Plain!Batches, PlainP!Batches,
         Plain!ItemStatus, PlainP!ItemStatus, Plain!RunStatus, PlainP!RunStatus,
         Plain!JobStatus, PlainP!JobStatus, Plain!BatchStatus, PlainP!BatchStatus,
         Plain!NoTask, PlainP!NoTask
<1>2. LakeP!TypeOK => Lake!TypeOK
  BY Zenon DEF Lake!TypeOK, LakeP!TypeOK, Lake!Frames, LakeP!Frames, Lake!Paths, LakeP!Paths,
         Lake!Bronze, LakeP!Bronze, Lake!Silver, LakeP!Silver, Lake!Gone, LakeP!Gone,
         Lake!Bare, LakeP!Bare, Lake!Holding, LakeP!Holding, Lake!Busy, LakeP!Busy,
         Lake!Asleep, LakeP!Asleep, Lake!HasTemp, LakeP!HasTemp,
         Lake!Target, LakeP!Target, Lake!Replacement, LakeP!Replacement
<1>3. ShelfP!TypeOK => Shelf!TypeOK
  BY Zenon DEF Shelf!TypeOK, ShelfP!TypeOK, Shelf!Exists, ShelfP!Exists, Shelf!NoSku, ShelfP!NoSku,
         Shelf!Names, ShelfP!Names, Shelf!Casefold, ShelfP!Casefold, Shelf!Blank, ShelfP!Blank
<1>. QED  BY <1>1, <1>2, <1>3

\* IntakeInv says of the rows what TypeOK of Ingestion says of their links.
LEMMA IntakeIsTyped == IntakeInv => Intake!TypeOK
<1>. SUFFICES ASSUME IntakeInv PROVE Intake!TypeOK
  OBVIOUS
<1>1. \A p \in Actors : creating[p].pc \in Intake!CallPC
  BY DEF IntakeInv, IntakeTypes, Calls
<1>2. \A r \in ingested : /\ r.job \in {Intake!NoJob} \cup DOMAIN created
                          /\ r.days \subseteq {Intake!NoDate} \cup Intake!Dates
  BY DEF IntakeInv, Covers
<1>. QED  BY <1>1, <1>2, Zenon DEF Intake!TypeOK, IntakeInv, IntakeTypes, Intake!JobIds

(* In the behaviours of MCServices every module stays well typed: the client's      *)
(* resends never run below zero, rows keep their columns and links, sessions the   *)
(* fields of their step (TypesOK).                                           *)
THEOREM TypesStayOK == ServicesSpec => []TypesOK
<1>1. ServicesInit => /\ ClientInv /\ PlainP!TruthInv /\ IntakeInv /\ LakeP!Types
                      /\ Reports!TypeOK /\ ShelfP!SkuInv
  BY ServicesClient, ServicesPlain, ServicesIntake, ServicesLake, ServicesReports, SamePlain,
     InitClientInv, PlainP!TruthInit, InitIntakeInv, LakeP!InitTypes, InitReports, ShelfInvHolds, Zenon
<1>2. ClientInv /\ [ServicesNext]_allVars => ClientInv'
  BY ServicesClient, StepClientInv, Zenon
<1>3. PlainP!TruthInv /\ [ServicesNext]_allVars => PlainP!TruthInv'
  BY ServicesPlain, SamePlain, PlainP!TruthStep, Zenon
<1>4. IntakeInv /\ [ServicesNext]_allVars => IntakeInv'
  BY ServicesIntake, IntakeInvInductive, Zenon
<1>5. LakeP!Types /\ [ServicesNext]_allVars => LakeP!Types'
  BY ServicesLake, LakeP!StepTypes, Zenon
<1>6. Reports!TypeOK /\ [ServicesNext]_allVars => Reports!TypeOK'
  BY ServicesReports, StepReports, Zenon
<1>7. ClientInv /\ PlainP!TruthInv /\ IntakeInv /\ LakeP!Types /\ Reports!TypeOK /\ ShelfP!SkuInv
      => TypesOK
  BY SameTypes, SamePlain, IntakeIsTyped, PlainP!TruthIsTyped, LakeP!TypesAreEnough,
     ShelfP!SkuInvIsTyped, Zenon
     DEF TypesOK, ClientInv
<1>. QED  BY <1>1, <1>2, <1>3, <1>4, <1>5, <1>6, <1>7, ShelfInvHolds, PTL DEF ServicesSpec

===============================================================================
