---------------------------- MODULE PlainJobs_proofs ----------------------------
(***************************************************************************)
(* Proofs about PlainJobs, for every number of batches, items, workers,     *)
(* requests, retries and faults, and for all four processors.               *)
(***************************************************************************)
EXTENDS PlainJobs, JobEngine_proofs

Place == {"idle", "claim", "claimed", "loop", "start", "call", "record", "cancelPending",
          "failing", "republish", "ack"} \cup RequestPC \cup RefreshPC
Outcome == {"none", "early", "ok", "failed", "settled"}

Decided == {"ok", "failed"}

(***************************************************************************)
(* A verdict in memory belongs to the item in hand, and an "ok" to work     *)
(* that took effect.  mark_failed commits such a verdict too, so that the    *)
(* witness has to survive from Execute into the failure of the task.        *)
(***************************************************************************)
Sound(s, done) ==
    /\ s \in SessionShape(Place, Outcome)
    /\ s.pc \in {"call", "record"} => s.cur \in Items
    /\ s.out \in Decided => s.pc \in {"record", "failing", "republish"} /\ s.cur \in Items
    /\ s.out = "ok" => s.cur \in done

TruthInv ==
    /\ EngineTypes(Place, Outcome)
    /\ mirror \in [Items -> ItemStatus]
    /\ run \in RunStatus
    /\ acted \subseteq Items
    /\ runs \in [Items -> Nat]
    /\ \A p \in Processes : Sound(ses[p], acted)
    /\ NoPhantomSuccess

LEMMA EngineOK ==
  ASSUME TruthInv
  PROVE  EngineTypes(Place, Outcome) /\ Places(Place, Outcome)
  BY DEF TruthInv, Places, Place, Outcome

LEMMA IdleSound ==
  ASSUME NEW l \in Place \ {"call", "record"}, NEW done
  PROVE  Sound(Idle(l), done)
  BY IdleType DEF Sound, Outcome, Decided

LEMMA LoadedOK ==
  ASSUME TruthInv, NEW s \in SessionShape(Place, Outcome), NEW row \in JobRow,
         NEW t, t = Loaded(s, row)
  PROVE  /\ t \in SessionShape(Place, Outcome)
         /\ t.pc = s.pc /\ t.msg = s.msg /\ t.cur = s.cur /\ t.out = s.out
         /\ \A i \in Items :
               t.item[i] = IF BatchOf[i] = s.msg.batch THEN item[i] ELSE "EXPIRED"
<1>1. EngineTypes(Place, Outcome)
  BY DEF TruthInv
<1>. QED  BY <1>1, LoadedShape

LEMMA MarkType ==
  ASSUME mirror \in [Items -> ItemStatus], NEW S, NEW s \in ItemStatus,
         MarkIngestionItems(S, s)
  PROVE  mirror' \in [Items -> ItemStatus]
  BY DEF MarkIngestionItems

\* A step of one process: the others keep their sessions and their witnesses.
LEMMA MoveSound ==
  ASSUME TruthInv, NEW p \in Processes, acted \subseteq acted',
         NEW s, Become(p, s), Sound(s, acted')
  PROVE  /\ ses' \in [Processes -> SessionShape(Place, Outcome)]
         /\ \A q \in Processes : Sound(ses'[q], acted')
<1>1. /\ ses' \in [Processes -> SessionShape(Place, Outcome)] /\ ses'[p] = s
      /\ \A q \in Processes : q # p => ses'[q] = ses[q]
  BY BecomeType DEF TruthInv, Sound
<1>2. ASSUME NEW q \in Processes PROVE Sound(ses'[q], acted')
  <2>1. CASE q = p
    BY <1>1, <2>1
  <2>2. CASE q # p
    <3>1. PICK t : t = ses[q] /\ t = ses'[q]
      BY <1>1, <2>2
    <3>2. Sound(t, acted)
      BY <3>1 DEF TruthInv
    <3>. QED  BY <3>1, <3>2 DEF Sound
  <2>. QED  BY <2>1, <2>2
<1>. QED  BY <1>1, <1>2

\* The engine's own steps make no verdict and take no item in hand.
LEMMA EngineStepTruth ==
  ASSUME TruthInv, NEW p \in Processes, EngineTypes(Place, Outcome)', UNCHANGED outside,
         ses'[p].pc \notin {"call", "record"}, ses'[p].out \notin Decided,
         \A q \in Processes : q # p => ses'[q] = ses[q],
         \A i \in Items : item'[i] \in {item[i], "CANCELLED"}
  PROVE  TruthInv'
<1>1. ASSUME NEW q \in Processes PROVE Sound(ses'[q], acted')
  <2>1. PICK t : t = ses'[q] /\ t \in SessionShape(Place, Outcome)
    BY DEF EngineTypes
  <2>2. CASE q = p
    BY <2>1, <2>2 DEF Sound, Decided
  <2>3. CASE q # p
    BY <2>1, <2>3 DEF TruthInv, Sound, outside
  <2>. QED  BY <2>1, <2>2, <2>3
<1>2. NoPhantomSuccess'
  BY DEF TruthInv, NoPhantomSuccess, outside
<1>. QED  BY <1>1, <1>2 DEF TruthInv, outside

LEMMA RefreshTruth ==
  ASSUME TruthInv, NEW p \in Processes, RefreshProgress(p), UNCHANGED outside
  PROVE  TruthInv'
<1>1. /\ EngineTypes(Place, Outcome)' /\ ses[p].pc \in RefreshPC
      /\ ses'[p].pc \in RefreshPC \cup {"ack", "revoke"} /\ ses'[p].out = ses[p].out
      /\ \A q \in Processes : q # p => ses'[q] = ses[q]
      /\ UNCHANGED item
  BY EngineOK, RefreshType
<1>2. ses[p].out \notin Decided
  BY <1>1 DEF TruthInv, Sound, RefreshPC
<1>. QED  BY <1>1, <1>2, EngineStepTruth DEF RefreshPC

LEMMA RequestTruth ==
  ASSUME TruthInv, NEW r \in Requests, RequestNext(r), UNCHANGED outside
  PROVE  TruthInv'
<1>1. /\ EngineTypes(Place, Outcome)' /\ ses'[r].pc \in RequestPC \cup RefreshPC
      /\ \/ ses'[r].out = "none"
         \/ ses'[r].out = ses[r].out /\ ses[r].pc \in RequestPC \cup RefreshPC
      /\ \A q \in Processes : q # r => ses'[q] = ses[q]
      /\ \A i \in Items : item'[i] \in {item[i], "CANCELLED"}
  BY EngineOK, RequestMoves, RequestType
<1>2. r \in Processes /\ Sound(ses[r], acted)
  BY DEF TruthInv, Processes
<1>3. ses'[r].out \notin Decided /\ ses'[r].pc \notin {"call", "record"}
  BY <1>1, <1>2 DEF Sound, Decided, RequestPC, RefreshPC
<1>. QED  BY <1>1, <1>2, <1>3, EngineStepTruth

\* What a worker commits about items: verdicts of its own, or failures,
\* cancellations and starts.
LEMMA WorkTruth ==
  ASSUME TruthInv, NEW w \in Workers, acted \subseteq acted', acted' \subseteq Items,
         NEW s, Become(w, s), Sound(s, acted'),
         job' \in JobRow, batch' \in [Batches -> BatchRow], item' \in [Items -> ItemStatus],
         queue' \subseteq Message, UNCHANGED <<revoked, nextTask>>,
         budget' \in [Faults -> Nat],
         mirror' \in [Items -> ItemStatus], run' \in RunStatus, runs' \in [Items -> Nat],
         \A i \in Items : item'[i] = "SUCCEEDED" => item[i] = "SUCCEEDED" \/ i \in acted'
  PROVE  TruthInv'
<1>1. /\ ses' \in [Processes -> SessionShape(Place, Outcome)]
      /\ \A q \in Processes : Sound(ses'[q], acted')
  BY MoveSound DEF Processes
<1>2. EngineTypes(Place, Outcome)'
  BY <1>1 DEF TruthInv, EngineTypes
<1>3. NoPhantomSuccess'
  BY DEF TruthInv, NoPhantomSuccess
<1>. QED  BY <1>1, <1>2, <1>3 DEF TruthInv

LEMMA WorkerTruth ==
  ASSUME TruthInv, NEW w \in Workers, WorkerProgress(w) \/ AbortTask(w)
  PROVE  TruthInv'
<1>. DEFINE W == SessionShape(Place, Outcome)
<1>0. /\ w \in Processes /\ ses[w] \in W /\ Sound(ses[w], acted)
      /\ EngineTypes(Place, Outcome) /\ Places(Place, Outcome)
      /\ job \in JobRow /\ batch \in [Batches -> BatchRow] /\ item \in [Items -> ItemStatus]
      /\ queue \subseteq Message /\ budget \in [Faults -> Nat]
      /\ mirror \in [Items -> ItemStatus] /\ run \in RunStatus /\ runs \in [Items -> Nat]
      /\ acted \subseteq Items
  BY EngineOK DEF TruthInv, Processes, EngineTypes, Sound
<1>1. ASSUME NEW s, Become(w, s), Sound(s, acted), UNCHANGED <<revoked, nextTask, acted, runs>>,
             job' \in JobRow, batch' \in [Batches -> BatchRow], item' \in [Items -> ItemStatus],
             queue' \subseteq Message, budget' \in [Faults -> Nat],
             mirror' \in [Items -> ItemStatus], run' \in RunStatus,
             \A i \in Items : item'[i] = "SUCCEEDED" => item[i] = "SUCCEEDED" \/ i \in acted
      PROVE  TruthInv'
  BY <1>0, <1>1, WorkTruth
\* The session goes on without a verdict, and no row of the job changes.
<1>2. ASSUME NEW s \in W, Become(w, s), s.pc \notin {"call", "record"}, s.out \notin Decided,
             UNCHANGED <<job, batch, item, revoked, nextTask, mirror, run, acted, runs>>,
             queue' \subseteq Message, budget' \in [Faults -> Nat]
      PROVE  TruthInv'
  <2>1. Sound(s, acted)
    BY <1>2 DEF Sound, Decided
  <2>. QED  BY <1>0, <1>1, <1>2, <2>1
<1>3. CASE Receive(w)
  <2>1. CASE UNCHANGED ses
    <3>1. UNCHANGED <<job, batch, item, revoked, nextTask, budget, outside, ses>> /\ queue' \subseteq queue
      BY <1>3, <2>1 DEF Receive, dbVars
    <3>. QED  BY <3>1 DEF TruthInv, EngineTypes, NoPhantomSuccess, outside
  <2>2. CASE ~UNCHANGED ses
    <3>1. PICK m, l, o, x, s :
            /\ m \in queue /\ queue' = queue \ {m}
            /\ l \in {"cancelPending", "claim"} /\ o \in {"early", "none"}
            /\ x = [Idle(l) EXCEPT !.msg = m, !.out = o] /\ s = Loaded(x, job) /\ Become(w, s)
      <4>1. PICK m \in queue, stop \in BOOLEAN :
              /\ queue' = queue \ {m}
              /\ Become(w, Loaded([Idle(IF stop THEN "cancelPending" ELSE "claim")
                                     EXCEPT !.msg = m, !.out = IF stop THEN "early" ELSE "none"],
                                  job))
        BY <1>3, <2>2 DEF Receive
      <4>. QED  BY <4>1
    <3>2. Idle(l) \in W /\ Idle(l).pc = l
      BY <1>0, <3>1, IdleType DEF Place, Outcome
    <3>3. x \in W /\ x.pc = l /\ x.out = o
      BY <1>0, <3>1, <3>2 DEF SessionShape, Outcome
    <3>4. s \in W /\ s.pc = l /\ s.out = o
      <4>1. x \in SessionShape(Place, Outcome) /\ job \in JobRow /\ s = Loaded(x, job)
        BY <1>0, <3>1, <3>3
      <4>2. s \in SessionShape(Place, Outcome) /\ s.pc = x.pc /\ s.out = x.out
        BY <4>1, LoadedOK
      <4>. QED  BY <3>3, <4>2
    <3>5. UNCHANGED <<job, batch, item, revoked, nextTask, budget, outside>>
      BY <1>3 DEF Receive, dbVars
    <3>. QED  BY <1>0, <1>2, <3>1, <3>4, <3>5 DEF outside, Decided
  <2>. QED  BY <2>1, <2>2
<1>4. CASE Claim(w)
  <2>1. PICK l \in {"claimed", "ack"} : Goto(w, l)
    BY <1>4 DEF Claim
  <2>2. PICK s : s = [ses[w] EXCEPT !.pc = l] /\ Become(w, s)
    BY <2>1 DEF Goto
  <2>3. Sound(s, acted)
    BY <1>0, <1>4, <2>2 DEF Claim, Sound, SessionShape, Place, Outcome, Decided
  <2>4. batch' \in [Batches -> BatchRow]
    <3>1. \/ UNCHANGED batch
          \/ batch' = [batch EXCEPT ![ses[w].msg.batch].status = "RUNNING"]
      BY <1>4 DEF Claim
    <3>. QED  BY <1>0, <3>1 DEF BatchRow, BatchStatus
  <2>5. job' \in JobRow
    <3>1. UNCHANGED job \/ job' = [job EXCEPT !.status = ClaimedStatus(job.status)]
      BY <1>4 DEF Claim
    <3>2. ClaimedStatus(job.status) \in JobStatus \cup {"EXPIRED"}
      BY <1>0 DEF ClaimedStatus, JobRow, JobStatus
    <3>. QED  BY <1>0, <3>1, <3>2 DEF JobRow
  <2>. QED  BY <1>0, <1>1, <1>4, <2>2, <2>3, <2>4, <2>5 DEF Claim, brokerVars, outside
<1>5. CASE StartBatch(w)
  <2>1. PICK x, l, s :
          /\ x = Loaded(ses[w], job)
          /\ l = IF kind = "email" /\ CancelSeen(job) THEN "cancelPending" ELSE "loop"
          /\ s = [x EXCEPT !.pc = l] /\ Become(w, s)
    BY <1>5 DEF StartBatch
  <2>2. l \in {"cancelPending", "loop"}
    BY <2>1
  <2>3. x \in W /\ x.out = ses[w].out
    BY <1>0, <2>1, LoadedOK
  <2>4. s \in W /\ s.pc = l /\ s.out = ses[w].out
    BY <2>1, <2>2, <2>3 DEF SessionShape, Place
  <2>5. ses[w].out \notin Decided
    BY <1>0, <1>5 DEF StartBatch, Sound
  <2>. QED
    BY <1>0, <1>2, <1>5, <2>1, <2>2, <2>4, <2>5 DEF StartBatch, dbVars, brokerVars, outside
<1>6. CASE CheckCancel(w)
  <2>1. PICK row, l, s :
          /\ row = [KnownJob(w) EXCEPT !.status = job.status]
          /\ l = IF CancelSeen(row) THEN "cancelPending" ELSE "start"
          /\ s = [ses[w] EXCEPT !.job = row, !.pc = l] /\ Become(w, s)
    BY <1>6 DEF CheckCancel
  <2>2. l \in {"cancelPending", "start"}
    BY <2>1
  <2>3. row \in JobRow
    BY <1>0, <2>1 DEF KnownJob, SessionShape, JobRow
  <2>4. s \in W /\ s.pc = l /\ s.out = ses[w].out
    BY <1>0, <2>1, <2>2, <2>3 DEF SessionShape, Place
  <2>5. ses[w].out \notin Decided
    BY <1>0, <1>6 DEF CheckCancel, Sound
  <2>. QED
    BY <1>0, <1>2, <1>6, <2>1, <2>2, <2>4, <2>5 DEF CheckCancel, dbVars, brokerVars, outside
<1>7. CASE StartItem(w)
  <2>1. PICK i, k, s :
          /\ i \in Waiting(w) /\ item' = SetItems({i}, "RUNNING")
          /\ MarkIngestionItems({i}, "RUNNING") /\ k = Remember(w, {i}, "RUNNING")
          /\ s = [ses[w] EXCEPT !.pc = "call", !.cur = i, !.item = k] /\ Become(w, s)
    BY <1>7 DEF StartItem
  <2>2. i \in Items
    BY <2>1 DEF Waiting, Mine
  <2>3. k \in [Items -> ItemStatus \cup {"EXPIRED"}]
    <3>1. "RUNNING" \in ItemStatus
      BY DEF ItemStatus
    <3>. QED  BY <1>0, <2>1, <3>1, RememberShape
  <2>4. s \in W /\ s.pc = "call" /\ s.cur = i /\ s.out = ses[w].out
    BY <1>0, <2>1, <2>2, <2>3 DEF SessionShape, Place
  <2>5. Sound(s, acted)
    BY <1>0, <1>7, <2>2, <2>4 DEF StartItem, Sound, Decided
  <2>6. /\ item' \in [Items -> ItemStatus] /\ mirror' \in [Items -> ItemStatus]
        /\ \A j \in Items : item'[j] = "SUCCEEDED" => item[j] = "SUCCEEDED"
    BY <1>0, <2>1, MarkType, SetItemsType DEF SetItems, ItemStatus
  <2>. QED  BY <1>0, <1>1, <1>7, <2>1, <2>5, <2>6 DEF StartItem, brokerVars
<1>8. CASE Execute(w)
  <2>o. PICK o \in {"ok", "failed"} :
          /\ acted' \in {acted \cup {ses[w].cur}} \cup (IF o = "ok" THEN {} ELSE {acted})
          /\ Become(w, [(IF o = "failed" /\ kind # "email"
                          THEN Loaded(ses[w], NoRow) ELSE ses[w])
                        EXCEPT !.pc = "record", !.out = o])
    BY <1>8 DEF Execute
  <2>x. PICK x : x = IF o = "failed" /\ kind # "email" THEN Loaded(ses[w], NoRow) ELSE ses[w]
    OBVIOUS
  <2>1. PICK s : s = [x EXCEPT !.pc = "record", !.out = o] /\ Become(w, s)
    BY <2>o, <2>x
  <2>2. ses[w].cur \in Items
    BY <1>0, <1>8 DEF Execute, Sound
  <2>3. x \in W /\ x.cur = ses[w].cur
    BY <1>0, <2>x, NoRowType, LoadedOK
  <2>4. s \in W /\ s.pc = "record" /\ s.out = o /\ s.cur = ses[w].cur
    BY <2>o, <2>1, <2>3 DEF SessionShape, Place, Outcome
  <2>5. /\ acted \subseteq acted' /\ acted' \subseteq Items
        /\ o = "ok" => ses[w].cur \in acted'
    BY <1>0, <2>o, <2>2
  <2>6. Sound(s, acted')
    BY <2>2, <2>4, <2>5 DEF Sound
  <2>7. runs' \in [Items -> Nat]
    <3>1. \A i \in Items : runs[i] + 1 \in Nat
      BY <1>0
    <3>2. runs' = [runs EXCEPT ![ses[w].cur] = runs[ses[w].cur] + 1]
      BY <1>8 DEF Execute
    <3>. QED  BY <1>0, <2>2, <3>1, <3>2
  <2>. QED
    BY <1>0, <1>8, <2>1, <2>5, <2>6, <2>7, WorkTruth DEF Execute, dbVars, brokerVars
<1>9. CASE RecordItem(w)
  <2>1. PICK i, v, k, s :
          /\ i = ses[w].cur /\ v = Verdict(ses[w].out) /\ item' = SetItems({i}, v)
          /\ MarkIngestionItems({i}, v) /\ k = Remember(w, {i}, v)
          /\ s = [ses[w] EXCEPT !.pc = "loop", !.cur = None, !.out = "none", !.item = k]
          /\ Become(w, s)
    BY <1>9, Zenon DEF RecordItem
  <2>2. /\ v \in ItemStatus /\ i \in Items
        /\ v = "SUCCEEDED" => i \in acted
    BY <1>0, <1>9, <2>1 DEF RecordItem, Sound, Verdict, ItemStatus
  <2>3. k \in [Items -> ItemStatus \cup {"EXPIRED"}]
    BY <1>0, <2>1, <2>2, RememberShape
  <2>4. s \in W /\ s.pc = "loop" /\ s.out = "none"
    BY <1>0, <2>1, <2>3 DEF SessionShape, Place, Outcome
  <2>5. Sound(s, acted)
    BY <2>4 DEF Sound, Decided
  <2>6. /\ item' \in [Items -> ItemStatus] /\ mirror' \in [Items -> ItemStatus]
        /\ \A j \in Items : item'[j] = "SUCCEEDED" => item[j] = "SUCCEEDED" \/ j \in acted
    BY <1>0, <2>1, <2>2, MarkType, SetItemsType DEF SetItems
  <2>7. job' \in JobRow
    <3>1. PICK a, b, c : /\ a = job.proc + 1
                         /\ b = (IF v = "SUCCEEDED" THEN job.succ + 1 ELSE job.succ)
                         /\ c = (IF v = "FAILED" THEN job.fail + 1 ELSE job.fail)
                         /\ job' = [job EXCEPT !.proc = a, !.succ = b, !.fail = c]
      BY <1>9, <2>1, Zenon DEF RecordItem
    <3>2. a \in Nat /\ b \in Nat /\ c \in Nat
      BY <1>0, <3>1 DEF JobRow
    <3>. QED  BY <1>0, <3>1, <3>2 DEF JobRow
  <2>. QED  BY <1>0, <1>1, <1>9, <2>1, <2>5, <2>6, <2>7 DEF RecordItem, brokerVars
<1>10. CASE FinishBatch(w)
  <2>1. PICK s : /\ \/ s = [ses[w] EXCEPT !.pc = "cancelPending"]
                    \/ s = [ses[w] EXCEPT !.pc = "count", !.out = "settled"]
                 /\ Become(w, s)
    BY <1>10 DEF FinishBatch, Goto
  <2>2. s \in W /\ s.pc \in {"cancelPending", "count"} /\ s.out \in {ses[w].out, "settled"}
    BY <1>0, <2>1 DEF SessionShape, Place, Outcome, RefreshPC
  <2>3. Sound(s, acted)
    BY <1>0, <1>10, <2>2 DEF FinishBatch, Sound, Decided
  <2>4. batch' \in [Batches -> BatchRow]
    <3>1. BatchOutcome(w) \in BatchStatus
      BY DEF BatchOutcome, BatchStatus
    <3>. QED  BY <1>0, <1>10, <3>1, BatchStatusSet DEF FinishBatch
  <2>. QED  BY <1>0, <1>1, <1>10, <2>1, <2>3, <2>4 DEF FinishBatch, brokerVars, outside
<1>11. CASE CancelPending(w)
  <2>1. PICK S, k, o, s :
          /\ S = Mine(w, "PENDING") /\ item' = SetItems(S, "CANCELLED")
          /\ MarkIngestionItems(S, "CANCELLED") /\ k = Remember(w, S, "CANCELLED")
          /\ o = IF ses[w].out = "early" THEN "none" ELSE "settled"
          /\ s = [ses[w] EXCEPT !.pc = "count", !.item = k, !.out = o] /\ Become(w, s)
    BY <1>11 DEF CancelPending
  <2>2. "CANCELLED" \in ItemStatus /\ "CANCELLED" \in BatchStatus /\ o \in {"none", "settled"}
    BY <2>1 DEF ItemStatus, BatchStatus
  <2>3. k \in [Items -> ItemStatus \cup {"EXPIRED"}]
    BY <1>0, <2>1, <2>2, RememberShape
  <2>4. s \in W /\ s.pc = "count" /\ s.out = o
    BY <1>0, <2>1, <2>2, <2>3 DEF SessionShape, Place, Outcome, RefreshPC
  <2>5. Sound(s, acted)
    BY <2>2, <2>4 DEF Sound, Decided
  <2>6. /\ item' \in [Items -> ItemStatus] /\ mirror' \in [Items -> ItemStatus]
        /\ \A j \in Items : item'[j] = "SUCCEEDED" => item[j] = "SUCCEEDED"
    BY <1>0, <2>1, <2>2, MarkType, SetItemsType DEF SetItems
  <2>7. batch' \in [Batches -> BatchRow]
    BY <1>0, <1>11, <2>2, BatchStatusSet DEF CancelPending
  <2>. QED  BY <1>0, <1>1, <1>11, <2>1, <2>5, <2>6, <2>7 DEF CancelPending, brokerVars
<1>12. CASE AbortTask(w)
  <2>1. PICK l \in {"failing", "republish"} : Goto(w, l)
    BY <1>12 DEF AbortTask
  <2>2. PICK s : s = [ses[w] EXCEPT !.pc = l] /\ Become(w, s)
    BY <2>1 DEF Goto
  <2>3. Sound(s, acted)
    BY <1>0, <1>12, <2>1, <2>2 DEF AbortTask, Sound, SessionShape, Place, Outcome, Decided
  <2>4. budget' \in [Faults -> Nat]
    BY <1>0, <1>12, SpendType DEF AbortTask
  <2>. QED
    BY <1>0, <1>1, <1>12, <2>2, <2>3, <2>4 DEF AbortTask, dbVars, brokerVars, outside
<1>13. CASE Republish(w)
  <2>1. PICK m, s : /\ m = [ses[w].msg EXCEPT !.tries = ses[w].msg.tries + 1]
                    /\ queue' = queue \cup {m}
                    /\ s = [ses[w] EXCEPT !.pc = "ack", !.cur = None, !.out = "none"]
                    /\ Become(w, s)
    BY <1>13 DEF Republish
  <2>2. m \in Message
    <3>1. ses[w].msg \in Message /\ ses[w].msg.tries + 1 \in Nat
      BY <1>0 DEF SessionShape, Message
    <3>. QED  BY <2>1, <3>1 DEF Message
  <2>3. s \in W /\ s.pc = "ack" /\ s.out = "none"
    BY <1>0, <2>1 DEF SessionShape, Place, Outcome
  <2>. QED
    BY <1>0, <1>2, <1>13, <2>1, <2>2, <2>3 DEF Republish, dbVars, outside, Decided
<1>14. CASE FailBatch(w)
  <2>d. PICK D, L, v : /\ D = (IF ses[w].out \in Decided THEN {ses[w].cur} ELSE {})
                       /\ L = Unfinished(w) \ D /\ v = Verdict(ses[w].out)
    OBVIOUS
  <2>i. item' = [i \in Items |-> IF i \in D THEN v ELSE IF i \in L THEN "FAILED" ELSE item[i]]
    BY <1>14, <2>d DEF FailBatch, Decided
  <2>m. mirror' = IF ~Ingests THEN mirror
                  ELSE [i \in Items |-> IF i \in D THEN v
                                        ELSE IF i \in L THEN "FAILED" ELSE mirror[i]]
    BY <1>14, <2>d DEF FailBatch, Decided
  <2>1. PICK s : /\ s = [ses[w] EXCEPT !.pc = "count", !.cur = None, !.out = "settled"]
                 /\ Become(w, s)
    BY <1>14 DEF FailBatch, AfterFailure
  <2>2. /\ v \in ItemStatus /\ "FAILED" \in ItemStatus /\ "FAILED" \in BatchStatus
        /\ v = "SUCCEEDED" => \A i \in D : i \in acted
    BY <1>0, <2>d DEF Sound, Verdict, ItemStatus, BatchStatus
  <2>3. s \in W /\ s.pc = "count" /\ s.out = "settled"
    BY <1>0, <2>1 DEF SessionShape, Place, Outcome, RefreshPC
  <2>4. Sound(s, acted)
    BY <2>3 DEF Sound, Decided
  <2>5. /\ item' \in [Items -> ItemStatus] /\ mirror' \in [Items -> ItemStatus]
        /\ \A j \in Items : item'[j] = "SUCCEEDED" => item[j] = "SUCCEEDED" \/ j \in acted
    BY <1>0, <2>i, <2>m, <2>2
  <2>6. batch' \in [Batches -> BatchRow]
    BY <1>0, <1>14, <2>2, BatchStatusSet DEF FailBatch
  <2>. QED  BY <1>0, <1>1, <1>14, <2>1, <2>4, <2>5, <2>6 DEF FailBatch, brokerVars
<1>15. CASE RefreshRun(w)
  <2>1. PICK s : s = [ses[w] EXCEPT !.out = "none"] /\ Become(w, s)
    BY <1>15 DEF RefreshRun
  <2>2. s \in W /\ s.pc = "ack" /\ s.out = "none"
    BY <1>0, <1>15, <2>1 DEF RefreshRun, SessionShape, Outcome
  <2>3. run' \in RunStatus
    BY <1>0, <1>15 DEF RefreshRun, RunVerdict, RunStatus
  <2>4. Sound(s, acted)
    BY <2>2 DEF Sound, Decided
  <2>. QED  BY <1>0, <1>1, <1>15, <2>1, <2>3, <2>4 DEF RefreshRun, dbVars, brokerVars
<1>16. CASE RefreshProgress(w) /\ UNCHANGED outside
  BY <1>0, <1>16, RefreshTruth
<1>17. CASE Finish(w) /\ UNCHANGED outside
  <2>1. PICK s : s = Idle("idle") /\ Become(w, s)
    BY <1>17 DEF Finish, Ack
  <2>2. Idle("idle") \in W /\ Idle("idle").pc = "idle" /\ Idle("idle").out = "none"
    BY <1>0, IdleType DEF Place, Outcome
  <2>. QED
    BY <1>0, <1>2, <1>17, <2>1, <2>2 DEF Finish, Ack, dbVars, brokerVars, outside, Decided
<1>. QED
  BY <1>3, <1>4, <1>5, <1>6, <1>7, <1>8, <1>9, <1>10, <1>11, <1>12, <1>13, <1>14, <1>15,
     <1>16, <1>17 DEF WorkerProgress

LEMMA BrokerTruth ==
  ASSUME TruthInv, NEW w \in Workers, WorkerCrash(w) \/ Discard(w), UNCHANGED outside
  PROVE  TruthInv'
<1>. USE DEF dbVars, outside
<1>0. w \in Processes /\ ses[w] \in SessionShape(Place, Outcome) /\ EngineTypes(Place, Outcome)
  BY DEF TruthInv, Processes, EngineTypes
<1>1. CASE WorkerCrash(w)
  <2>1. PICK s : s = Idle("idle") /\ Become(w, s)
    BY <1>1 DEF WorkerCrash
  <2>2. Sound(s, acted)
    BY <2>1, IdleSound DEF Place
  <2>3. budget' \in [Faults -> Nat] /\ queue' \subseteq Message
    BY <1>0, <1>1, SpendType DEF WorkerCrash, EngineTypes, SessionShape
  <2>. QED  BY <1>1, <2>1, <2>2, <2>3, WorkTruth DEF WorkerCrash, TruthInv, EngineTypes
<1>2. CASE Discard(w)
  <2>1. queue' \subseteq queue /\ UNCHANGED <<ses, job, batch, item, revoked, nextTask, budget>>
    BY <1>2 DEF Discard
  <2>. QED  BY <2>1 DEF TruthInv, EngineTypes, NoPhantomSuccess
<1>. QED  BY <1>1, <1>2

LEMMA TruthInit == Init => TruthInv
<1>. SUFFICES ASSUME Init PROVE TruthInv
  OBVIOUS
<1>1. /\ ses = [p \in Processes |-> Idle(IF p = Creator THEN "dispatch" ELSE "idle")]
      /\ item = [i \in Items |-> "PENDING"] /\ budget \in Budgets
  BY DEF Init, EngineInit
<1>2. /\ Idle("dispatch") \in SessionShape(Place, Outcome) /\ Sound(Idle("dispatch"), acted)
      /\ Idle("idle") \in SessionShape(Place, Outcome) /\ Sound(Idle("idle"), acted)
  BY IdleSound DEF Sound, Place, RequestPC
<1>3. /\ ses \in [Processes -> SessionShape(Place, Outcome)]
      /\ \A p \in Processes : Sound(ses[p], acted)
  BY <1>1, <1>2
<1>4. EngineTypes(Place, Outcome)
  <2>1. job \in JobRow
    BY DEF Init, EngineInit, NoRow, JobRow, JobStatus
  <2>2. batch \in [Batches -> BatchRow]
    BY DEF Init, EngineInit, BatchRow, BatchStatus, NoTask
  <2>. QED
    BY <1>1, <1>3, <2>1, <2>2, EngineAssumption
       DEF EngineTypes, Init, EngineInit, EngineAssumption, ItemStatus
<1>. QED
  BY <1>1, <1>3, <1>4 DEF TruthInv, Init, RunStatus, ItemStatus, NoPhantomSuccess

LEMMA TruthStep == TruthInv /\ [Next]_vars => TruthInv'
<1>. SUFFICES ASSUME TruthInv, [Next]_vars PROVE TruthInv'
  OBVIOUS
<1>1. CASE UNCHANGED vars
  BY <1>1 DEF vars, engineVars, outside, TruthInv, EngineTypes, NoPhantomSuccess
<1>2. ASSUME NEW w \in Workers, WorkerProgress(w) \/ WorkerFault(w)
      PROVE  TruthInv'
  BY <1>2, WorkerTruth, BrokerTruth DEF WorkerFault
<1>3. ASSUME NEW r \in Requests, RequestNext(r), UNCHANGED outside
      PROVE  TruthInv'
  BY <1>3, RequestTruth
<1>. QED  BY <1>1, <1>2, <1>3 DEF Next

LEMMA TruthAlways == Spec => []TruthInv
  BY TruthInit, TruthStep, PTL DEF Spec

LEMMA TruthIsTyped == TruthInv => TypeOK
BY DEF TruthInv, TypeOK, EngineTypes, Sound, Processes

\* Whatever the processor, the faults and their interleaving, the rows of the job
\* and of the ingestion keep their types, and a worker that executes or records
\* an item has one in hand.
THEOREM TypeCorrect == Spec => []TypeOK
BY TruthIsTyped, TruthAlways, PTL

\* An item recorded SUCCEEDED did its work: no crash, retry, abort or failure of
\* the task records a success that did not happen.
THEOREM SuccessIsReal == Spec => []NoPhantomSuccess
<1>1. TruthInv => NoPhantomSuccess
  BY DEF TruthInv
<1>. QED  BY <1>1, TruthAlways, PTL

-----------------------------------------------------------------------------
(***************************************************************************)
(* Once.  With one dispatch, and without the combination of crashes and     *)
(* retried tasks, the worker of a batch is alone with it (OneInCharge).  An  *)
(* item it remembers as PENDING has not been executed, whatever a request    *)
(* cancelled meanwhile, and the item in hand left PENDING for good when the  *)
(* commit before its work made it RUNNING.  Only the e-mail task is retried: *)
(* the other processors need the first assumption only.                      *)
(***************************************************************************)
SingleDelivery ==
    /\ Retriers = {}
    /\ \A f \in Budgets :
          f["crash"] = 0 \/ MaxRetries = 0 \/ f["abort"] = 0 \/ "email" \notin Kinds

NoRetry == /\ MaxRetries = 0 \/ budget["abort"] = 0 \/ kind # "email"
           /\ \A w \in Workers : ses[w].pc # "republish"

Calm == budget["crash"] = 0 \/ NoRetry

Own(b) == {i \in Items : BatchOf[i] = b}

\* What the session s of a worker knows of the items of its batch.
Knows(s, it, rn) ==
    s.pc \in WorkPC =>
        /\ \A i \in Items : s.item[i] # "EXPIRED" => i \in Own(s.msg.batch)
        /\ \A i \in Items : s.item[i] = "PENDING" => rn[i] = 0
        /\ s.pc = "call" => /\ s.item[s.cur] = "RUNNING"
                            /\ it[s.cur] # "PENDING" /\ rn[s.cur] = 0
        /\ (s.pc = "record" \/ s.out \in Decided) => s.cur \in Own(s.msg.batch)

Kept(it, rn) == \A i \in Items : (it[i] = "PENDING" => rn[i] = 0) /\ rn[i] <= 1

Aware == \A w \in Workers : Knows(ses[w], item, runs)

OnceInv == TruthInv /\ OneInCharge /\ Calm /\ Aware /\ Kept(item, runs)

\* A worker goes on with its batch: what it does to the items concerns that
\* batch only, it knows what it has done, and it retries the task only where a
\* retry does no harm.
Works(w) ==
    /\ \A q \in Processes : q # w => ses'[q] = ses[q]
    /\ ses[w].pc \in WorkPC
    /\ ses'[w].pc \in WorkPC \cup RefreshPC \cup {"ack"}
    /\ ses'[w].msg = ses[w].msg
    /\ UNCHANGED <<queue, kind>>
    /\ \A f \in Faults : budget[f] = 0 => budget'[f] = 0
    /\ \A i \in Items : i \notin Own(ses[w].msg.batch) => item'[i] = item[i] /\ runs'[i] = runs[i]
    /\ Knows(ses'[w], item', runs')
    /\ Kept(item', runs')
    /\ ses'[w].pc = "republish" => MaxRetries # 0 /\ budget["abort"] # 0 /\ kind = "email"

LEMMA WorksInv ==
  ASSUME OnceInv, NEW w \in Workers, Works(w)
  PROVE  OneInCharge' /\ Calm' /\ Aware' /\ Kept(item', runs')
<1>1. OneInCharge'
  BY WorkOn DEF OnceInv, Works, Faults
<1>2. Calm'
  <2>1. CASE budget["crash"] = 0
    BY <2>1 DEF Calm, Works, Faults
  <2>2. CASE NoRetry
    BY <2>2 DEF Calm, NoRetry, Works, Faults, Processes
  <2>. QED  BY <2>1, <2>2 DEF OnceInv, Calm
<1>3. ASSUME NEW v \in Workers, v # w
      PROVE  Knows(ses'[v], item', runs')
  <2>1. PICK s : s = ses[v] /\ s = ses'[v] /\ Sound(s, acted)
    BY <1>3 DEF Works, Processes, OnceInv, TruthInv
  <2>2. CASE s.pc \notin WorkPC
    BY <2>1, <2>2 DEF Knows
  <2>3. CASE s.pc \in WorkPC
    <3>1. s.msg.batch # ses[w].msg.batch
      BY <1>3, <2>1, <2>3, Apart DEF OnceInv, Works
    <3>2. \A i \in Own(s.msg.batch) : item'[i] = item[i] /\ runs'[i] = runs[i]
      BY <3>1 DEF Works, Own
    <3>3. Knows(s, item, runs)
      BY <2>1 DEF OnceInv, Aware
    <3>4. /\ s.pc = "call" => s.cur \in Own(s.msg.batch)
          /\ \A i \in Items : s.item[i] = "PENDING" => i \in Own(s.msg.batch)
      BY <2>1, <2>3, <3>3 DEF Knows, Sound
    <3>5. Knows(s, item', runs')
      BY <2>3, <3>2, <3>3, <3>4 DEF Knows
    <3>. QED  BY <2>1, <3>5
  <2>. QED  BY <2>2, <2>3
<1>. QED  BY <1>1, <1>2, <1>3 DEF Works, Aware

\* The steps of the processor and of the task, one by one.
LEMMA WorkerWorks ==
  ASSUME OnceInv, NEW w \in Workers,
         \/ Claim(w) \/ StartBatch(w) \/ CheckCancel(w) \/ StartItem(w) \/ Execute(w)
         \/ RecordItem(w) \/ FinishBatch(w) \/ CancelPending(w) \/ FailBatch(w) \/ AbortTask(w)
  PROVE  Works(w)
<1>. DEFINE b == ses[w].msg.batch
<1>0. /\ w \in Processes /\ ses[w] \in SessionShape(Place, Outcome) /\ Sound(ses[w], acted)
      /\ Knows(ses[w], item, runs) /\ Kept(item, runs)
      /\ item \in [Items -> ItemStatus] /\ runs \in [Items -> Nat]
  BY DEF OnceInv, TruthInv, Processes, Sound, Aware, EngineTypes
<1>1. ASSUME NEW s, Become(w, s), ses[w].pc \in WorkPC,
             s.pc \in WorkPC \cup RefreshPC \cup {"ack"}, s.msg = ses[w].msg,
             UNCHANGED <<queue, kind>>,
             \A f \in Faults : budget[f] = 0 => budget'[f] = 0,
             \A i \in Items : i \notin Own(b) => item'[i] = item[i] /\ runs'[i] = runs[i],
             Knows(s, item', runs'), Kept(item', runs'),
             s.pc = "republish" => MaxRetries # 0 /\ budget["abort"] # 0 /\ kind = "email"
      PROVE  Works(w)
  <2>1. ses'[w] = s /\ \A q \in Processes : q # w => ses'[q] = ses[q]
    BY <1>0, <1>1 DEF Become, OnceInv, TruthInv, EngineTypes
  <2>. QED  BY <1>1, <2>1 DEF Works
\* Steps that change no item.
<1>2. ASSUME NEW s, Become(w, s), ses[w].pc \in WorkPC,
             s.pc \in WorkPC \cup RefreshPC \cup {"ack"}, s.pc \notin {"call", "republish"},
             s.msg = ses[w].msg, UNCHANGED <<queue, kind, budget, item, runs>>,
             Knows(s, item, runs)
      PROVE  Works(w)
  BY <1>0, <1>1, <1>2
<1>. HIDE DEF b
<1>3. CASE Claim(w)
  <2>1. PICK l \in {"claimed", "ack"} : Goto(w, l)
    BY <1>3 DEF Claim
  <2>2. PICK s : s = [ses[w] EXCEPT !.pc = l] /\ Become(w, s)
    BY <2>1 DEF Goto
  <2>3. /\ s.pc = l /\ s.msg = ses[w].msg /\ s.item = ses[w].item
        /\ s.out = ses[w].out /\ s.cur = ses[w].cur
    BY <1>0, <2>2 DEF SessionShape
  <2>4. ses[w].pc = "claim" /\ UNCHANGED <<queue, kind, budget, item, runs>>
    BY <1>3 DEF Claim, brokerVars, outside
  <2>5. Knows(s, item, runs)
    BY <1>0, <2>1, <2>3, <2>4 DEF Knows, WorkPC
  <2>. QED  BY <1>2, <2>1, <2>2, <2>3, <2>4, <2>5 DEF WorkPC
<1>4. CASE StartBatch(w)
  <2>1. PICK x, l, s :
          /\ x = Loaded(ses[w], job)
          /\ l = IF kind = "email" /\ CancelSeen(job) THEN "cancelPending" ELSE "loop"
          /\ s = [x EXCEPT !.pc = l] /\ Become(w, s)
    BY <1>4 DEF StartBatch
  <2>2. l \in {"cancelPending", "loop"}
    BY <2>1
  <2>3. ses[w].pc = "claimed" /\ UNCHANGED <<queue, kind, budget, item, runs>>
    BY <1>4 DEF StartBatch, dbVars, brokerVars, outside
  <2>4. /\ x \in SessionShape(Place, Outcome) /\ x.msg = ses[w].msg /\ x.out = ses[w].out
        /\ \A i \in Items : x.item[i] = IF BatchOf[i] = b THEN item[i] ELSE "EXPIRED"
    <3>1. job \in JobRow
      BY DEF OnceInv, TruthInv, EngineTypes
    <3>. QED  BY <1>0, <2>1, <3>1, LoadedOK DEF OnceInv, b
  <2>5. s.pc = l /\ s.msg = ses[w].msg /\ s.item = x.item /\ s.out = ses[w].out
    BY <2>1, <2>4 DEF SessionShape
  <2>6. s.out \notin Decided
    BY <1>0, <2>3, <2>5 DEF Sound
  <2>7. Knows(s, item, runs)
    BY <1>0, <2>2, <2>4, <2>5, <2>6 DEF Knows, Kept, Own, b
  <2>. QED  BY <1>2, <2>1, <2>2, <2>3, <2>5, <2>7 DEF WorkPC
<1>5. CASE CheckCancel(w)
  <2>1. PICK row, l, s :
          /\ l = IF CancelSeen(row) THEN "cancelPending" ELSE "start"
          /\ s = [ses[w] EXCEPT !.job = row, !.pc = l] /\ Become(w, s)
    BY <1>5 DEF CheckCancel
  <2>2. l \in {"cancelPending", "start"}
    BY <2>1
  <2>3. /\ s.pc = l /\ s.msg = ses[w].msg /\ s.item = ses[w].item
        /\ s.out = ses[w].out /\ s.cur = ses[w].cur
    BY <1>0, <2>1 DEF SessionShape
  <2>4. ses[w].pc = "loop" /\ UNCHANGED <<queue, kind, budget, item, runs>>
    BY <1>5 DEF CheckCancel, dbVars, brokerVars, outside
  <2>5. Knows(s, item, runs)
    BY <1>0, <2>2, <2>3, <2>4 DEF Knows, WorkPC
  <2>. QED  BY <1>2, <2>1, <2>2, <2>3, <2>4, <2>5 DEF WorkPC
<1>6. CASE StartItem(w)
  <2>1. PICK i, k, s :
          /\ i \in Items /\ ses[w].item[i] = "PENDING" /\ item' = SetItems({i}, "RUNNING")
          /\ k = Remember(w, {i}, "RUNNING")
          /\ s = [ses[w] EXCEPT !.pc = "call", !.cur = i, !.item = k] /\ Become(w, s)
    BY <1>6 DEF StartItem, Waiting, Mine
  <2>2. s.pc = "call" /\ s.msg = ses[w].msg /\ s.item = k /\ s.out = ses[w].out /\ s.cur = i
    BY <1>0, <2>1 DEF SessionShape
  <2>3. ses[w].pc = "start" /\ UNCHANGED <<queue, kind, budget, runs>>
    BY <1>6 DEF StartItem, brokerVars
  <2>4. i \in Own(b) /\ runs[i] = 0 /\ ses[w].out \notin Decided
    BY <1>0, <2>1, <2>3 DEF Knows, WorkPC, Sound, b
  <2>5. /\ \A j \in Items : j \notin Own(b) => item'[j] = item[j]
        /\ Kept(item', runs)
    BY <1>0, <2>1, <2>4 DEF Kept, SetItems
  <2>6. Knows(s, item', runs)
    BY <1>0, <2>1, <2>2, <2>3, <2>4 DEF Knows, WorkPC, SetItems, Remember, b
  <2>. QED  BY <1>1, <2>1, <2>2, <2>3, <2>5, <2>6 DEF WorkPC
<1>7. CASE Execute(w)
  <2>1. PICK o \in {"ok", "failed"} :
          Become(w, [(IF o = "failed" /\ kind # "email" THEN Loaded(ses[w], NoRow) ELSE ses[w])
                     EXCEPT !.pc = "record", !.out = o])
    BY <1>7 DEF Execute
  <2>2. PICK i, x : /\ i = ses[w].cur
                    /\ x = IF o = "failed" /\ kind # "email" THEN Loaded(ses[w], NoRow) ELSE ses[w]
    OBVIOUS
  <2>3. PICK s : s = [x EXCEPT !.pc = "record", !.out = o] /\ Become(w, s)
    BY <2>1, <2>2
  <2>4. /\ ses[w].pc = "call" /\ i \in Items /\ UNCHANGED <<queue, kind, budget, item>>
        /\ runs' = [runs EXCEPT ![i] = runs[i] + 1]
    BY <1>0, <1>7, <2>2 DEF Execute, dbVars, brokerVars, Sound
  <2>5. /\ x \in SessionShape(Place, Outcome) /\ x.msg = ses[w].msg /\ x.cur = i
        /\ \/ x.item = ses[w].item
           \/ \A j \in Items : x.item[j] = IF BatchOf[j] = b THEN item[j] ELSE "EXPIRED"
    BY <1>0, <2>2, NoRowType, LoadedOK DEF OnceInv, b
  <2>6. s.pc = "record" /\ s.msg = ses[w].msg /\ s.item = x.item /\ s.out = o /\ s.cur = i
    BY <2>3, <2>5 DEF SessionShape
  <2>7. /\ ses[w].item[i] = "RUNNING" /\ item[i] # "PENDING" /\ runs[i] = 0 /\ i \in Own(b)
        /\ \A j \in Items : ses[w].item[j] # "EXPIRED" => j \in Own(b)
        /\ \A j \in Items : ses[w].item[j] = "PENDING" => runs[j] = 0
    BY <1>0, <2>2, <2>4 DEF Knows, WorkPC, b
  <2>8. /\ \A j \in Items : j # i => runs'[j] = runs[j]
        /\ runs'[i] = 1
    BY <1>0, <2>4, <2>7
  <2>9. Kept(item', runs')
    BY <1>0, <2>4, <2>7, <2>8 DEF Kept
  <2>10. Knows(s, item', runs')
    BY <1>0, <2>4, <2>5, <2>6, <2>7, <2>8 DEF Knows, Kept, Own, b
  <2>. QED  BY <1>1, <2>3, <2>4, <2>6, <2>7, <2>8, <2>9, <2>10 DEF WorkPC
<1>8. CASE RecordItem(w)
  <2>1. PICK i, v, k, s :
          /\ i = ses[w].cur /\ v = Verdict(ses[w].out) /\ item' = SetItems({i}, v)
          /\ k = Remember(w, {i}, v)
          /\ s = [ses[w] EXCEPT !.pc = "loop", !.cur = None, !.out = "none", !.item = k]
          /\ Become(w, s)
    BY <1>8, Zenon DEF RecordItem
  <2>2. s.pc = "loop" /\ s.msg = ses[w].msg /\ s.item = k /\ s.out = "none"
    BY <1>0, <2>1 DEF SessionShape
  <2>3. ses[w].pc = "record" /\ UNCHANGED <<queue, kind, budget, runs>>
    BY <1>8 DEF RecordItem, brokerVars
  <2>4. i \in Own(b) /\ v # "PENDING"
    BY <1>0, <2>1, <2>3 DEF Knows, WorkPC, Verdict, b
  <2>5. /\ \A j \in Items : j \notin Own(b) => item'[j] = item[j]
        /\ Kept(item', runs)
    BY <1>0, <2>1, <2>4 DEF Kept, SetItems
  <2>6. Knows(s, item', runs)
    BY <1>0, <2>1, <2>2, <2>3, <2>4 DEF Knows, WorkPC, Remember, Decided, b
  <2>. QED  BY <1>1, <2>1, <2>2, <2>3, <2>5, <2>6 DEF WorkPC
<1>9. CASE FinishBatch(w)
  <2>1. PICK s : /\ \/ s = [ses[w] EXCEPT !.pc = "cancelPending"]
                    \/ s = [ses[w] EXCEPT !.pc = "count", !.out = "settled"]
                 /\ Become(w, s)
    BY <1>9 DEF FinishBatch, Goto
  <2>2. /\ s.pc \in {"cancelPending", "count"} /\ s.msg = ses[w].msg /\ s.item = ses[w].item
        /\ s.out \in {ses[w].out, "settled"} /\ s.cur = ses[w].cur
    BY <1>0, <2>1 DEF SessionShape
  <2>3. ses[w].pc = "loop" /\ UNCHANGED <<queue, kind, budget, item, runs>>
    BY <1>9 DEF FinishBatch, brokerVars, outside
  <2>4. Knows(s, item, runs)
    BY <1>0, <2>2, <2>3 DEF Knows, WorkPC, Decided
  <2>. QED  BY <1>2, <2>1, <2>2, <2>3, <2>4 DEF WorkPC, RefreshPC
<1>10. CASE CancelPending(w)
  <2>1. PICK S, k, o, s :
          /\ S = Mine(w, "PENDING") /\ item' = SetItems(S, "CANCELLED")
          /\ s = [ses[w] EXCEPT !.pc = "count", !.item = k, !.out = o] /\ Become(w, s)
    BY <1>10 DEF CancelPending
  <2>2. s.pc = "count" /\ s.msg = ses[w].msg
    BY <1>0, <2>1 DEF SessionShape
  <2>3. ses[w].pc = "cancelPending" /\ UNCHANGED <<queue, kind, budget, runs>>
    BY <1>10 DEF CancelPending, brokerVars
  <2>4. S \subseteq Own(b)
    BY <1>0, <2>1, <2>3 DEF Knows, WorkPC, Mine, b
  <2>5. /\ \A j \in Items : j \notin Own(b) => item'[j] = item[j]
        /\ Kept(item', runs)
    BY <1>0, <2>1, <2>4 DEF Kept, SetItems
  <2>6. Knows(s, item', runs)
    BY <2>2 DEF Knows, WorkPC
  <2>. QED  BY <1>1, <2>1, <2>2, <2>3, <2>5, <2>6 DEF WorkPC, RefreshPC
<1>11. CASE FailBatch(w)
  <2>1. PICK D, L, v : /\ D = (IF ses[w].out \in Decided THEN {ses[w].cur} ELSE {})
                       /\ L = Unfinished(w) \ D /\ v = Verdict(ses[w].out)
    OBVIOUS
  <2>2. item' = [i \in Items |-> IF i \in D THEN v ELSE IF i \in L THEN "FAILED" ELSE item[i]]
    BY <1>11, <2>1 DEF FailBatch, Decided
  <2>3. PICK s : /\ s = [ses[w] EXCEPT !.pc = "count", !.cur = None, !.out = "settled"]
                 /\ Become(w, s)
    BY <1>11 DEF FailBatch, AfterFailure
  <2>4. s.pc = "count" /\ s.msg = ses[w].msg
    BY <1>0, <2>3 DEF SessionShape
  <2>5. ses[w].pc = "failing" /\ UNCHANGED <<queue, kind, budget, runs>>
    BY <1>11 DEF FailBatch, brokerVars
  <2>6. D \cup L \subseteq Own(b) /\ v # "PENDING"
    BY <1>0, <2>1, <2>5 DEF Knows, WorkPC, Unfinished, Mine, Verdict, b
  <2>7. /\ \A j \in Items : j \notin Own(b) => item'[j] = item[j]
        /\ Kept(item', runs)
    BY <1>0, <2>2, <2>6 DEF Kept
  <2>8. Knows(s, item', runs)
    BY <2>4 DEF Knows, WorkPC
  <2>. QED  BY <1>1, <2>3, <2>4, <2>5, <2>7, <2>8 DEF WorkPC, RefreshPC
<1>12. CASE AbortTask(w)
  <2>1. PICK l : /\ Goto(w, l)
                 /\ \/ l = "failing"
                    \/ l = "republish" /\ kind = "email" /\ ses[w].msg.tries < MaxRetries
    BY <1>12 DEF AbortTask
  <2>2. PICK s : s = [ses[w] EXCEPT !.pc = l] /\ Become(w, s)
    BY <2>1 DEF Goto
  <2>3. /\ s.pc = l /\ s.msg = ses[w].msg /\ s.item = ses[w].item
        /\ s.out = ses[w].out /\ s.cur = ses[w].cur
    BY <1>0, <2>2 DEF SessionShape
  <2>4. /\ ses[w].pc \in {"loop", "start", "record"} /\ UNCHANGED <<queue, kind, item, runs>>
        /\ budget["abort"] # 0 /\ \A f \in Faults : budget[f] = 0 => budget'[f] = 0
    <3>1. EngineTypes(Place, Outcome) /\ Spend("abort")
      BY <1>12 DEF AbortTask, OnceInv, TruthInv
    <3>. QED
      BY <1>12, <3>1, SpendType DEF AbortTask, Spend, dbVars, brokerVars, outside, EngineTypes
  <2>5. Knows(s, item, runs)
    BY <1>0, <2>1, <2>3, <2>4 DEF Knows, WorkPC
  <2>6. l = "republish" => MaxRetries # 0
    <3>1. ses[w].msg.tries \in Nat
      BY <1>0 DEF SessionShape, Message
    <3>. QED  BY <2>1, <3>1
  <2>. QED  BY <1>0, <1>1, <2>1, <2>2, <2>3, <2>4, <2>5, <2>6 DEF WorkPC
<1>. QED  BY <1>3, <1>4, <1>5, <1>6, <1>7, <1>8, <1>9, <1>10, <1>11, <1>12

LEMMA ItemsStay ==
  ASSUME OnceInv, UNCHANGED <<item, runs>>, NEW w \in Workers,
         \A q \in Processes : q # w => ses'[q] = ses[q], Knows(ses'[w], item, runs)
  PROVE  Aware' /\ Kept(item', runs')
<1>1. ASSUME NEW v \in Workers PROVE Knows(ses'[v], item, runs)
  BY <1>1 DEF OnceInv, Aware, Processes
<1>. QED  BY <1>1 DEF OnceInv, Aware

LEMMA CalmStays ==
  ASSUME Calm, NEW w \in Workers, \A q \in Processes : q # w => ses'[q] = ses[q],
         \A f \in Faults : budget[f] = 0 => budget'[f] = 0,
         ses'[w].pc # "republish", UNCHANGED kind
  PROVE  Calm'
  BY DEF Calm, NoRetry, Faults, Processes

\* Deliveries, their end and the refresh of the progress.
LEMMA BrokerInv ==
  ASSUME OnceInv, NEW w \in Workers,
         \/ Receive(w) \/ Republish(w) \/ RefreshRun(w)
         \/ (RefreshProgress(w) \/ Finish(w) \/ WorkerCrash(w) \/ Discard(w)) /\ UNCHANGED outside
  PROVE  OneInCharge' /\ Calm' /\ Aware' /\ Kept(item', runs')
<1>. DEFINE Goal == OneInCharge' /\ Calm' /\ Aware' /\ Kept(item', runs')
<1>0. /\ w \in Processes /\ ses[w] \in SessionShape(Place, Outcome) /\ Sound(ses[w], acted)
      /\ EngineTypes(Place, Outcome) /\ Places(Place, Outcome) /\ Kept(item, runs)
      /\ item \in [Items -> ItemStatus] /\ OneInCharge /\ Calm
      /\ job \in JobRow /\ queue \subseteq Message
  BY EngineOK DEF OnceInv, TruthInv, Processes, EngineTypes, Sound
<1>1. ASSUME NEW s, Become(w, s)
      PROVE  ses'[w] = s /\ \A q \in Processes : q # w => ses'[q] = ses[q]
  BY <1>0, <1>1 DEF Become, EngineTypes
<1>. SUFFICES Goal
  OBVIOUS
<1>2. CASE Receive(w) /\ ~UNCHANGED ses
  <2>1. PICK m \in queue, stop \in BOOLEAN :
          /\ queue' = queue \ {m}
          /\ Become(w, Loaded([Idle(IF stop THEN "cancelPending" ELSE "claim")
                                 EXCEPT !.msg = m, !.out = IF stop THEN "early" ELSE "none"],
                              job))
    BY <1>2 DEF Receive
  <2>2. PICK l, o, x, s :
          /\ l \in {"cancelPending", "claim"} /\ o \in {"early", "none"}
          /\ x = [Idle(l) EXCEPT !.msg = m, !.out = o] /\ s = Loaded(x, job) /\ Become(w, s)
    BY <2>1
  <2>3. Idle(l) \in SessionShape(Place, Outcome) /\ Idle(l).pc = l
    BY <1>0, <2>2, IdleType DEF Place, Outcome
  <2>4. x \in SessionShape(Place, Outcome) /\ x.pc = l /\ x.out = o /\ x.msg = m
    BY <1>0, <2>2, <2>3 DEF SessionShape, Outcome
  <2>5. s = Loaded(x, job)
    BY <2>2
  <2>6. /\ s.pc = x.pc /\ s.out = x.out /\ s.msg = x.msg
        /\ \A i \in Items : s.item[i] = IF BatchOf[i] = x.msg.batch THEN item[i] ELSE "EXPIRED"
    BY <1>0, <2>4, <2>5, LoadedOK DEF OnceInv
  <2>7. /\ UNCHANGED <<item, runs, budget, kind>>
        /\ ses'[w] = s /\ \A q \in Processes : q # w => ses'[q] = ses[q]
    BY <1>1, <1>2, <2>2 DEF Receive, dbVars, outside
  <2>8. Knows(s, item, runs)
    BY <1>0, <2>2, <2>4, <2>6 DEF Knows, Kept, Own, Decided
  <2>9. Aware' /\ Kept(item', runs')
    BY <2>7, <2>8, ItemsStay
  <2>10. s.pc \in WorkPC /\ s.msg = m /\ s.pc # "republish"
    BY <2>2, <2>4, <2>6 DEF WorkPC
  <2>11. OneInCharge' /\ Calm'
    BY <1>0, <2>1, <2>7, <2>10, Pick, CalmStays
  <2>. QED  BY <2>9, <2>11
<1>3. CASE (Receive(w) \/ (Discard(w) /\ UNCHANGED outside)) /\ UNCHANGED ses
  <2>1. queue' \subseteq queue /\ UNCHANGED <<item, runs, budget, kind, ses>>
    BY <1>3 DEF Receive, Discard, dbVars, outside
  <2>2. OneInCharge'
    BY <1>0, <2>1, Drop
  <2>. QED  BY <1>0, <2>1, <2>2 DEF OnceInv, Aware, Calm, NoRetry
<1>4. CASE Republish(w)
  <2>1. PICK m, s : /\ m = [ses[w].msg EXCEPT !.tries = ses[w].msg.tries + 1]
                    /\ queue' = queue \cup {m}
                    /\ s = [ses[w] EXCEPT !.pc = "ack", !.cur = None, !.out = "none"]
                    /\ Become(w, s)
    BY <1>4 DEF Republish
  <2>2. s.pc = "ack" /\ s.msg = ses[w].msg /\ m.batch = s.msg.batch
    BY <1>0, <2>1 DEF SessionShape, Message
  <2>3. /\ ses[w].pc = "republish" /\ UNCHANGED <<item, runs, budget, kind>>
        /\ ses'[w] = s /\ \A q \in Processes : q # w => ses'[q] = ses[q]
    BY <1>1, <1>4, <2>1 DEF Republish, dbVars, outside
  <2>4. budget["crash"] = 0
    BY <1>0, <2>3 DEF Calm, NoRetry
  <2>5. OneInCharge' /\ Calm'
    BY <1>0, <2>1, <2>2, <2>3, <2>4, PublishAgain, CalmStays DEF WorkPC
  <2>6. Knows(s, item, runs)
    BY <2>2 DEF Knows, WorkPC
  <2>. QED  BY <2>3, <2>5, <2>6, ItemsStay
<1>5. CASE RefreshRun(w)
  <2>1. PICK s : s = [ses[w] EXCEPT !.out = "none"] /\ Become(w, s)
    BY <1>5 DEF RefreshRun
  <2>2. ses[w].pc = "ack" /\ s.pc = "ack" /\ s.msg = ses[w].msg
    BY <1>0, <1>5, <2>1 DEF RefreshRun, SessionShape
  <2>3. /\ UNCHANGED <<queue, item, runs, budget, kind>>
        /\ ses'[w] = s /\ \A q \in Processes : q # w => ses'[q] = ses[q]
    BY <1>1, <1>5, <2>1 DEF RefreshRun, dbVars, brokerVars
  <2>4. OneInCharge'
    <3>1. Orderly(w, s) /\ Charge(s, MayCrash') \subseteq Charge(ses[w], MayCrash)
      BY <1>0, <2>2, <2>3 DEF OneInCharge, Orderly, Charge, MayCrash, WorkPC, RefreshPC
    <3>. QED  BY <1>0, <2>3, <3>1, LetGo DEF Calmly
  <2>5. Calm' /\ Knows(s, item, runs)
    BY <1>0, <2>2, <2>3, CalmStays DEF Knows, WorkPC
  <2>. QED  BY <2>3, <2>4, <2>5, ItemsStay
<1>6. CASE RefreshProgress(w) /\ UNCHANGED outside
  <2>1. /\ ses[w].pc \in RefreshPC /\ ses'[w].pc \in RefreshPC \cup {"ack"}
        /\ ses'[w].msg = ses[w].msg
        /\ \A q \in Processes : q # w => ses'[q] = ses[q]
        /\ UNCHANGED <<item, queue, budget, runs, kind>>
    BY <1>0, <1>6, RefreshType DEF brokerVars, outside
  <2>2. OneInCharge' /\ Calm'
    BY <1>0, <2>1, WorkOn, CalmStays DEF RefreshPC
  <2>3. PICK s : s = ses'[w]
    OBVIOUS
  <2>4. Knows(s, item, runs)
    BY <2>1, <2>3 DEF Knows, WorkPC, RefreshPC
  <2>. QED  BY <2>1, <2>2, <2>3, <2>4, ItemsStay
<1>7. CASE (Finish(w) \/ WorkerCrash(w)) /\ UNCHANGED outside
  <2>1. PICK s : s = Idle("idle") /\ Become(w, s)
    BY <1>7 DEF Finish, Ack, WorkerCrash
  <2>2. s.pc = "idle"
    BY <2>1 DEF Idle
  <2>3. /\ UNCHANGED <<item, runs, kind>>
        /\ ses'[w] = s /\ \A q \in Processes : q # w => ses'[q] = ses[q]
        /\ \A f \in Faults : budget[f] = 0 => budget'[f] = 0
    BY <1>0, <1>1, <1>7, <2>1, SpendType DEF Finish, Ack, WorkerCrash, dbVars, outside
  <2>4. OneInCharge'
    <3>1. CASE Finish(w)
      BY <1>0, <2>2, <2>3, <3>1, LayDown DEF Finish, Ack, brokerVars, Faults
    <3>2. CASE WorkerCrash(w)
      <4>1. budget["crash"] # 0 /\ ses[w].pc # "idle" /\ queue' = queue \cup {ses[w].msg}
        BY <1>0, <3>2 DEF WorkerCrash, Spend, EngineTypes
      <4>. QED  BY <1>0, <2>2, <2>3, <4>1, Redeliver
    <3>. QED  BY <1>7, <3>1, <3>2
  <2>5. Calm' /\ Knows(s, item, runs)
    BY <1>0, <2>2, <2>3, CalmStays DEF Knows, WorkPC
  <2>. QED  BY <2>3, <2>4, <2>5, ItemsStay
<1>8. Discard(w) => UNCHANGED ses
  BY DEF Discard
<1>. HIDE DEF Goal
<1>. QED  BY <1>2, <1>3, <1>4, <1>5, <1>6, <1>7, <1>8

\* A request changes items only to CANCELLED, and executes none.
LEMMA RequestInv ==
  ASSUME OnceInv, Retriers = {}, NEW r \in Requests, RequestNext(r), UNCHANGED outside
  PROVE  OneInCharge' /\ Calm' /\ Aware' /\ Kept(item', runs')
<1>0. /\ r \notin Workers /\ r \in Processes
      /\ \A q \in Processes : q # r => ses'[q] = ses[q]
      /\ \A i \in Items : item'[i] = item[i] \/ item'[i] = "CANCELLED"
      /\ \A f \in Faults : budget[f] = 0 => budget'[f] = 0
      /\ UNCHANGED <<runs, kind>>
  BY EngineOK, RequestMoves, RequestType, EngineAssumption
     DEF OnceInv, EngineAssumption, Processes, outside
<1>1. OneInCharge'
  BY EngineOK, RequestCharge DEF OnceInv
<1>2. Calm'
  BY <1>0 DEF OnceInv, Calm, NoRetry, Faults, Processes
<1>3. ASSUME NEW v \in Workers
      PROVE  Knows(ses'[v], item', runs')
  <2>1. PICK s : s = ses[v] /\ s = ses'[v] /\ Sound(s, acted)
    BY <1>0 DEF Processes, OnceInv, TruthInv
  <2>2. Knows(s, item, runs)
    BY <2>1 DEF OnceInv, Aware
  <2>. QED  BY <1>0, <2>1, <2>2 DEF Knows, Sound
<1>4. Kept(item', runs')
  BY <1>0 DEF OnceInv, Kept
<1>. QED  BY <1>1, <1>2, <1>3, <1>4 DEF Aware

LEMMA OnceInit == SingleDelivery /\ Init => OnceInv
<1>. SUFFICES ASSUME SingleDelivery, Init PROVE OnceInv
  OBVIOUS
<1>1. TruthInv /\ OneInCharge
  BY TruthInit, InitCharge DEF Init
<1>2. \A w \in Workers : ses[w].pc = "idle"
  <2>1. /\ \A p \in Processes : ses[p] = Idle(IF p = Creator THEN "dispatch" ELSE "idle")
        /\ Creator \notin Workers /\ \A l : Idle(l).pc = l
    BY EngineAssumption DEF Init, EngineInit, EngineAssumption, Requests, Idle
  <2>. QED  BY <2>1 DEF Processes
<1>3. Calm
  <2>1. budget \in Budgets /\ kind \in Kinds
    BY DEF Init, EngineInit
  <2>. QED  BY <1>2, <2>1 DEF SingleDelivery, Calm, NoRetry
<1>4. Aware
  BY <1>2 DEF Aware, Knows, WorkPC
<1>5. Kept(item, runs)
  BY DEF Kept, Init
<1>. QED  BY <1>1, <1>3, <1>4, <1>5 DEF OnceInv

LEMMA OnceStep == SingleDelivery /\ OnceInv /\ [Next]_vars => OnceInv'
<1>. SUFFICES ASSUME SingleDelivery, OnceInv, [Next]_vars PROVE OnceInv'
  OBVIOUS
<1>0. TruthInv'
  BY TruthStep DEF OnceInv
<1>1. CASE UNCHANGED vars
  BY <1>0, <1>1
     DEF vars, engineVars, outside, OnceInv, OneInCharge, MayCrash, Calm, NoRetry, Aware
<1>2. ASSUME NEW w \in Workers, WorkerProgress(w) \/ WorkerFault(w)
      PROVE  OneInCharge' /\ Calm' /\ Aware' /\ Kept(item', runs')
  <2>1. \/ Claim(w) \/ StartBatch(w) \/ CheckCancel(w) \/ StartItem(w) \/ Execute(w)
        \/ RecordItem(w) \/ FinishBatch(w) \/ CancelPending(w) \/ FailBatch(w) \/ AbortTask(w)
        \/ Receive(w) \/ Republish(w) \/ RefreshRun(w)
        \/ (RefreshProgress(w) \/ Finish(w) \/ WorkerCrash(w) \/ Discard(w)) /\ UNCHANGED outside
    BY <1>2 DEF WorkerProgress, WorkerFault
  <2>. QED  BY <1>2, <2>1, WorkerWorks, WorksInv, BrokerInv
<1>3. ASSUME NEW r \in Requests, RequestNext(r), UNCHANGED outside
      PROVE  OneInCharge' /\ Calm' /\ Aware' /\ Kept(item', runs')
  BY <1>3, RequestInv DEF SingleDelivery
<1>. QED  BY <1>0, <1>1, <1>2, <1>3 DEF OnceInv, Next

LEMMA OnceIsEnough == OnceInv => WorkIsDoneOnce
BY DEF OnceInv, TruthInv, Kept, WorkIsDoneOnce, NeverRepeated

\* With one dispatch, and no retried task as long as a worker may die, no item is
\* executed twice and none is recorded SUCCEEDED unless it was executed: nobody
\* gets a mail twice, whatever was redelivered, aborted or cancelled.
THEOREM DoneOnce == ASSUME SingleDelivery PROVE Spec => []WorkIsDoneOnce
<1>1. Init => OnceInv
  BY OnceInit
<1>2. OnceInv /\ [Next]_vars => OnceInv'
  BY OnceStep
<1>. QED  BY <1>1, <1>2, OnceIsEnough, PTL DEF Spec

-----------------------------------------------------------------------------
(***************************************************************************)
(* The ingestion's own rows.  Until a cancellation is committed, whoever     *)
(* writes an item writes its mirror in the same transaction, and a run whose *)
(* items are all decided is either up to date or in the debt of a worker that *)
(* has not come to _refresh_batch_runs yet.                                 *)
(***************************************************************************)
Settles == \A f \in Budgets : f["module"] = 0

\* What a session believes about the cancellation is no more than was committed.
Believes(s, jb) ==
    /\ s.job.cancelReq => jb.cancelReq
    /\ s.pc \in {"countBatches", "save"} => s.new.cancelReq = s.job.cancelReq
    /\ CancelSeen(s.job) => jb.cancelReq
    /\ s.pc \in {"countBatches", "save"} /\ CancelSeen(s.new) => jb.cancelReq
    /\ s.out = "early" => jb.cancelReq

Owes(s) ==
    \/ s.pc \in {"loop", "start", "call", "record", "failing"}
    \/ s.pc = "cancelPending" /\ s.out # "early"
    \/ s.pc \in RefreshPC \cup {"ack"} /\ s.out = "settled"

UpToDate ==
    Ingests /\ ~job.cancelReq /\ ~crashed /\ Statuses \subseteq TerminalItem
        => run = RunVerdict(Statuses) \/ \E w \in Workers : Owes(ses[w])

MirrorInv ==
    /\ TruthInv
    /\ budget["module"] = 0
    /\ CancelSeen(job) => job.cancelReq
    /\ \A p \in Processes : Believes(ses[p], job)
    /\ \A w \in Workers : ses[w].pc = "republish" => kind = "email"
    /\ Ingests /\ ~job.cancelReq => mirror = item
    /\ UpToDate

\* What a step of p has to do for it.
Mirrors(p) ==
    /\ \A q \in Processes : q # p => ses'[q] = ses[q]
    /\ UNCHANGED kind
    /\ budget["module"] = 0 => budget'["module"] = 0
    /\ job.cancelReq => job'.cancelReq
    /\ CancelSeen(job') => job'.cancelReq
    /\ Believes(ses'[p], job')
    /\ p \in Workers /\ ses'[p].pc = "republish" => kind = "email"
    /\ Ingests /\ ~job'.cancelReq => mirror' = item'
    /\ crashed => crashed'
    /\ \/ p \in Workers /\ Owes(ses'[p])
       \/ /\ UNCHANGED <<mirror, run>>
          /\ p \in Workers /\ Owes(ses[p]) => crashed' \/ kind # "ingestion"
       \/ /\ UNCHANGED mirror
          /\ Ingests /\ Statuses \subseteq TerminalItem => run' = RunVerdict(Statuses)
       \/ job'.cancelReq

LEMMA MirrorsInv ==
  ASSUME MirrorInv, TruthInv', NEW p \in Processes, Mirrors(p)
  PROVE  MirrorInv'
<1>1. ASSUME NEW q \in Processes PROVE Believes(ses'[q], job')
  <2>1. CASE q = p
    BY <2>1 DEF Mirrors
  <2>2. CASE q # p
    <3>1. PICK s : s = ses[q] /\ s = ses'[q] /\ Believes(s, job)
      BY <2>2 DEF Mirrors, MirrorInv
    <3>. QED  BY <3>1 DEF Mirrors, Believes
  <2>. QED  BY <2>1, <2>2
<1>2. ASSUME NEW w \in Workers, ses'[w].pc = "republish" PROVE kind = "email"
  BY <1>2 DEF Mirrors, MirrorInv, Processes
<1>3. UpToDate'
  <2>1. SUFFICES ASSUME Ingests, ~job'.cancelReq, ~crashed', Statuses' \subseteq TerminalItem
                 PROVE  run' = RunVerdict(Statuses') \/ \E w \in Workers : Owes(ses'[w])
    BY DEF UpToDate, Mirrors, Ingests
  <2>2. ~job.cancelReq /\ ~crashed
    BY <2>1 DEF Mirrors
  <2>3. CASE p \in Workers /\ Owes(ses'[p])
    BY <2>3
  <2>4. CASE UNCHANGED <<mirror, run>> /\ (p \in Workers => ~Owes(ses[p]))
    <3>1. UNCHANGED Statuses
      BY <2>4 DEF Statuses
    <3>2. run = RunVerdict(Statuses) \/ \E w \in Workers : Owes(ses[w])
      BY <2>1, <2>2, <3>1 DEF MirrorInv, UpToDate
    <3>3. \A w \in Workers : Owes(ses[w]) => ses'[w] = ses[w]
      BY <2>4 DEF Mirrors, Processes
    <3>. QED  BY <2>4, <3>1, <3>2, <3>3
  <2>5. CASE UNCHANGED mirror /\ run' = RunVerdict(Statuses)
    BY <2>5 DEF Statuses
  <2>6. UNCHANGED mirror => UNCHANGED Statuses
    BY DEF Statuses
  <2>. QED  BY <2>1, <2>3, <2>4, <2>5, <2>6 DEF Mirrors, Ingests
<1>. QED  BY <1>1, <1>2, <1>3 DEF Mirrors, MirrorInv, Ingests

\* refresh_progress writes to the cancellation what the session believes of it.
LEMMA RefreshBelieves ==
  ASSUME MirrorInv, NEW p \in Processes, RefreshProgress(p)
  PROVE  /\ job.cancelReq => job'.cancelReq
         /\ CancelSeen(job') => job'.cancelReq
         /\ Believes(ses'[p], job')
<1>0. /\ Believes(ses[p], job) /\ ses[p] \in SessionShape(Place, Outcome)
      /\ EngineTypes(Place, Outcome) /\ Places(Place, Outcome)
      /\ CancelSeen(job) => job.cancelReq
  BY EngineOK DEF MirrorInv, Believes, EngineTypes
<1>1. ses'[p].out = ses[p].out
  BY <1>0, RefreshType
<1>2. CASE Counted(p)
  BY <1>0, <1>1, <1>2 DEF Counted, Believes, CancelSeen
<1>3. CASE Judged(p)
  <2>1. FinalStatus(ses[p].new) = "CANCELLED" => ses[p].new.cancelReq
    BY DEF FinalStatus
  <2>2. FinalStatus(ses[p].new) # "CANCEL_REQUESTED"
    BY DEF FinalStatus
  <2>. QED  BY <1>0, <1>1, <1>3, <2>1, <2>2 DEF Judged, Believes, CancelSeen
<1>4. CASE Saved(p)
  <2>1. job'.cancelReq = job.cancelReq
    BY <1>0, <1>4, Flushed DEF Saved, Believes, Column
  <2>2. job'.status \in {job.status, ses[p].new.status}
    BY <1>4, Flushed DEF Saved, Column
  <2>3. ses'[p].pc \notin {"countBatches", "save"}
    BY <1>4 DEF Saved
  <2>. QED  BY <1>0, <1>1, <1>4, <2>1, <2>2, <2>3 DEF Saved, Believes, CancelSeen
<1>. QED  BY <1>0, <1>2, <1>3, <1>4, RefreshRow
\* The steps of the processor and of the task, one by one.
LEMMA WorkerMirrors ==
  ASSUME MirrorInv, NEW w \in Workers, UNCHANGED crashed,
         WorkerProgress(w) \/ AbortTask(w)
  PROVE  Mirrors(w)
<1>0. /\ w \in Processes /\ ses[w] \in SessionShape(Place, Outcome) /\ Sound(ses[w], acted)
      /\ Believes(ses[w], job) /\ job \in JobRow /\ item \in [Items -> ItemStatus]
      /\ mirror \in [Items -> ItemStatus] /\ EngineTypes(Place, Outcome)
      /\ CancelSeen(job) => job.cancelReq
      /\ Ingests /\ ~job.cancelReq => mirror = item
      /\ ses[w].pc = "republish" => kind = "email"
      /\ budget["module"] = 0
  BY DEF MirrorInv, TruthInv, Processes, EngineTypes, Sound
<1>a. ASSUME NEW s, Become(w, s)
      PROVE  ses'[w] = s /\ \A q \in Processes : q # w => ses'[q] = ses[q]
  BY <1>0, <1>a DEF Become, EngineTypes
\* A step after which the worker owes the run a refresh, if not before it.
<1>1. ASSUME NEW s, Become(w, s), UNCHANGED kind,
             budget["module"] = 0 => budget'["module"] = 0,
             job'.cancelReq = job.cancelReq, CancelSeen(job') => CancelSeen(job),
             Believes(s, job), s.pc = "republish" => kind = "email",
             Ingests /\ ~job.cancelReq => mirror' = item',
             \/ Owes(s) \/ job.cancelReq
             \/ UNCHANGED <<mirror, run>> /\ (~Owes(ses[w]) \/ kind # "ingestion")
      PROVE  Mirrors(w)
  <2>1. ses'[w] = s /\ \A q \in Processes : q # w => ses'[q] = ses[q]
    BY <1>a, <1>1
  <2>2. Believes(s, job')
    BY <1>1 DEF Believes
  <2>. QED  BY <1>0, <1>1, <2>1, <2>2 DEF Mirrors
\* A step that changes no row.
<1>2. ASSUME NEW s, Become(w, s), UNCHANGED <<kind, job, item, mirror, run>>,
             budget["module"] = 0 => budget'["module"] = 0,
             Believes(s, job), s.pc = "republish" => kind = "email",
             Owes(s) \/ job.cancelReq \/ ~Owes(ses[w]) \/ kind # "ingestion"
      PROVE  Mirrors(w)
  BY <1>0, <1>1, <1>2
<1>3. CASE Receive(w)
  <2>1. UNCHANGED <<kind, job, item, mirror, run, budget>> /\ ~Owes(ses[w])
    <3>1. ses[w].pc = "idle"
      BY <1>3 DEF Receive
    <3>. QED  BY <1>3, <3>1 DEF Receive, dbVars, outside, Owes, RefreshPC
  <2>2. CASE UNCHANGED ses
    BY <1>0, <2>1, <2>2 DEF Mirrors
  <2>3. CASE ~UNCHANGED ses
    <3>1. PICK m, stop, l, o, x, s :
            /\ m \in queue /\ stop = (kind # "email" /\ CancelSeen(job))
            /\ l = (IF stop THEN "cancelPending" ELSE "claim")
            /\ o = (IF stop THEN "early" ELSE "none")
            /\ x = [Idle(l) EXCEPT !.msg = m, !.out = o] /\ s = Loaded(x, job) /\ Become(w, s)
      BY <1>3, <2>3 DEF Receive
    <3>2. s.job = job /\ s.pc = l /\ s.out = o
      <4>1. x.pc = l /\ x.out = o /\ x.job = NoRow
        BY <3>1 DEF Idle
      <4>. QED  BY <3>1, <4>1 DEF Loaded, Idle
    <3>3. Believes(s, job)
      BY <1>0, <3>1, <3>2 DEF Believes
    <3>4. s.pc # "republish"
      BY <3>1, <3>2
    <3>. QED  BY <1>2, <2>1, <3>1, <3>3, <3>4
  <2>. QED  BY <2>2, <2>3
<1>4. CASE Claim(w)
  <2>1. PICK l, s : /\ l \in {"claimed", "ack"} /\ s = [ses[w] EXCEPT !.pc = l] /\ Become(w, s)
    BY <1>4 DEF Claim, Goto
  <2>2. s.pc = l /\ s.job = ses[w].job /\ s.out = ses[w].out
    BY <1>0, <2>1 DEF SessionShape
  <2>3. /\ ses[w].pc = "claim" /\ UNCHANGED <<kind, item, mirror, run, budget>>
        /\ UNCHANGED job \/ job' = [job EXCEPT !.status = ClaimedStatus(job.status)]
    BY <1>4 DEF Claim, outside
  <2>4. job'.cancelReq = job.cancelReq /\ (CancelSeen(job') => CancelSeen(job))
    BY <1>0, <2>3 DEF JobRow, CancelSeen, ClaimedStatus
  <2>5. Believes(s, job) /\ ~Owes(ses[w]) /\ s.pc # "republish"
    BY <1>0, <2>1, <2>2, <2>3 DEF Believes, Owes, RefreshPC
  <2>. QED  BY <1>0, <1>1, <2>1, <2>3, <2>4, <2>5
<1>5. CASE StartBatch(w)
  <2>1. PICK x, l, s :
          /\ x = Loaded(ses[w], job)
          /\ l = (IF kind = "email" /\ CancelSeen(job) THEN "cancelPending" ELSE "loop")
          /\ s = [x EXCEPT !.pc = l] /\ Become(w, s)
    BY <1>5 DEF StartBatch
  <2>2. x \in SessionShape(Place, Outcome) /\ x.job = job /\ x.out = ses[w].out
    <3>1. x \in SessionShape(Place, Outcome) /\ x.out = ses[w].out
      BY <1>0, <2>1, LoadedOK DEF MirrorInv
    <3>2. x.job = job
      BY <1>0, <2>1 DEF Loaded, SessionShape
    <3>. QED  BY <3>1, <3>2
  <2>3. s.pc = l /\ s.job = job /\ s.out = ses[w].out /\ l \in {"cancelPending", "loop"}
    BY <2>1, <2>2 DEF SessionShape
  <2>4. ses[w].pc = "claimed" /\ UNCHANGED <<kind, job, item, mirror, run, budget>>
    BY <1>5 DEF StartBatch, dbVars, outside
  <2>5. Believes(s, job) /\ ~Owes(ses[w]) /\ s.pc # "republish"
    BY <1>0, <2>3, <2>4 DEF Believes, Owes, RefreshPC
  <2>. QED  BY <1>2, <2>1, <2>4, <2>5
<1>6. CASE CheckCancel(w)
  <2>1. PICK row, l, s :
          /\ row = [KnownJob(w) EXCEPT !.status = job.status]
          /\ l = (IF CancelSeen(row) THEN "cancelPending" ELSE "start")
          /\ s = [ses[w] EXCEPT !.job = row, !.pc = l] /\ Become(w, s)
    BY <1>6 DEF CheckCancel
  <2>2. KnownJob(w) \in JobRow /\ (KnownJob(w).cancelReq => job.cancelReq)
    BY <1>0 DEF KnownJob, SessionShape, Believes
  <2>3. row.status = job.status /\ (row.cancelReq => job.cancelReq)
    BY <2>1, <2>2 DEF JobRow
  <2>4. s.pc = l /\ s.job = row /\ s.out = ses[w].out /\ l \in {"cancelPending", "start"}
    BY <1>0, <2>1 DEF SessionShape
  <2>5. ses[w].pc = "loop" /\ UNCHANGED <<kind, job, item, mirror, run, budget>>
    BY <1>6 DEF CheckCancel, dbVars, outside
  <2>6. Believes(s, job) /\ (Owes(s) \/ job.cancelReq) /\ s.pc # "republish"
    BY <1>0, <2>3, <2>4, <2>5 DEF Believes, Owes, CancelSeen
  <2>. QED  BY <1>2, <2>1, <2>5, <2>6
<1>7. CASE StartItem(w)
  <2>1. PICK i, k, s :
          /\ i \in Waiting(w) /\ item' = SetItems({i}, "RUNNING")
          /\ MarkIngestionItems({i}, "RUNNING") /\ k = Remember(w, {i}, "RUNNING")
          /\ s = [ses[w] EXCEPT !.pc = "call", !.cur = i, !.item = k] /\ Become(w, s)
    BY <1>7 DEF StartItem
  <2>2. s.pc = "call" /\ s.job = ses[w].job /\ s.out = ses[w].out
    BY <1>0, <2>1 DEF SessionShape
  <2>3. ses[w].pc = "start" /\ UNCHANGED <<kind, job, run, budget>>
    BY <1>7 DEF StartItem
  <2>4. Believes(s, job) /\ Owes(s) /\ s.pc # "republish"
    BY <1>0, <2>2, <2>3 DEF Believes, Owes
  <2>5. Ingests /\ ~job.cancelReq => mirror' = item'
    BY <1>0, <2>1 DEF MarkIngestionItems, SetItems
  <2>. QED  BY <1>1, <2>1, <2>3, <2>4, <2>5
<1>8. CASE Execute(w)
  <2>1. PICK o \in {"ok", "failed"} :
          Become(w, [(IF o = "failed" /\ kind # "email" THEN Loaded(ses[w], NoRow) ELSE ses[w])
                     EXCEPT !.pc = "record", !.out = o])
    BY <1>8 DEF Execute
  <2>2. PICK x : x = IF o = "failed" /\ kind # "email" THEN Loaded(ses[w], NoRow) ELSE ses[w]
    OBVIOUS
  <2>3. PICK s : s = [x EXCEPT !.pc = "record", !.out = o] /\ Become(w, s)
    BY <2>1, <2>2
  <2>4. x \in SessionShape(Place, Outcome) /\ (x.job = NoRow \/ x.job = ses[w].job)
    <3>1. x \in SessionShape(Place, Outcome)
      BY <1>0, <2>2, NoRowType, LoadedOK DEF MirrorInv
    <3>2. Loaded(ses[w], NoRow).job = NoRow
      BY <1>0 DEF Loaded, SessionShape
    <3>. QED  BY <2>2, <3>1, <3>2
  <2>5. s.pc = "record" /\ s.job = x.job /\ s.out = o
    BY <2>3, <2>4 DEF SessionShape
  <2>6. ses[w].pc = "call" /\ UNCHANGED <<kind, job, item, mirror, run, budget>>
    BY <1>8 DEF Execute, dbVars
  <2>7. Believes(s, job) /\ Owes(s) /\ s.pc # "republish"
    BY <1>0, <2>1, <2>4, <2>5 DEF Believes, Owes, NoRow, CancelSeen
  <2>. QED  BY <1>2, <2>3, <2>6, <2>7
<1>9. CASE RecordItem(w)
  <2>1. PICK i, v, k, s :
          /\ i = ses[w].cur /\ v = Verdict(ses[w].out) /\ item' = SetItems({i}, v)
          /\ MarkIngestionItems({i}, v) /\ k = Remember(w, {i}, v)
          /\ s = [ses[w] EXCEPT !.pc = "loop", !.cur = None, !.out = "none", !.item = k]
          /\ Become(w, s)
    BY <1>9, Zenon DEF RecordItem
  <2>2. s.pc = "loop" /\ s.job = ses[w].job /\ s.out = "none"
    BY <1>0, <2>1 DEF SessionShape
  <2>3. ses[w].pc = "record" /\ UNCHANGED <<kind, run, budget>>
    BY <1>9 DEF RecordItem
  <2>4. job'.cancelReq = job.cancelReq /\ job'.status = job.status
    <3>1. PICK a, b, c : job' = [job EXCEPT !.proc = a, !.succ = b, !.fail = c]
      BY <1>9 DEF RecordItem
    <3>. QED  BY <1>0, <3>1 DEF JobRow
  <2>5. Believes(s, job) /\ Owes(s) /\ s.pc # "republish"
    BY <1>0, <2>2 DEF Believes, Owes
  <2>6. Ingests /\ ~job.cancelReq => mirror' = item'
    BY <1>0, <2>1 DEF MarkIngestionItems, SetItems
  <2>. QED  BY <1>1, <2>1, <2>3, <2>4, <2>5, <2>6 DEF CancelSeen
<1>10. CASE FinishBatch(w)
  <2>1. PICK s : /\ Become(w, s)
                 /\ \/ s = [ses[w] EXCEPT !.pc = "cancelPending"]
                    \/ s = [ses[w] EXCEPT !.pc = "count", !.out = "settled"]
    BY <1>10 DEF FinishBatch, Goto
  <2>2. /\ s.job = ses[w].job
        /\ \/ s.pc = "cancelPending" /\ s.out = ses[w].out
           \/ s.pc = "count" /\ s.out = "settled"
    BY <1>0, <2>1 DEF SessionShape
  <2>3. ses[w].pc = "loop" /\ UNCHANGED <<kind, job, item, mirror, run, budget>>
    BY <1>10 DEF FinishBatch, outside
  <2>4. Believes(s, job) /\ (Owes(s) \/ job.cancelReq) /\ s.pc # "republish"
    BY <1>0, <2>2, <2>3 DEF Believes, Owes, RefreshPC
  <2>. QED  BY <1>2, <2>1, <2>3, <2>4
<1>11. CASE CancelPending(w)
  <2>1. PICK S, k, o, s :
          /\ S = Mine(w, "PENDING") /\ item' = SetItems(S, "CANCELLED")
          /\ MarkIngestionItems(S, "CANCELLED")
          /\ o = (IF ses[w].out = "early" THEN "none" ELSE "settled")
          /\ s = [ses[w] EXCEPT !.pc = "count", !.item = k, !.out = o] /\ Become(w, s)
    BY <1>11 DEF CancelPending
  <2>2. s.pc = "count" /\ s.job = ses[w].job /\ s.out = o
    BY <1>0, <2>1 DEF SessionShape
  <2>3. ses[w].pc = "cancelPending" /\ UNCHANGED <<kind, job, run, budget>>
    BY <1>11 DEF CancelPending
  <2>4. Believes(s, job) /\ (Owes(s) \/ job.cancelReq) /\ s.pc # "republish"
    BY <1>0, <2>1, <2>2, <2>3 DEF Believes, Owes, RefreshPC
  <2>5. Ingests /\ ~job.cancelReq => mirror' = item'
    BY <1>0, <2>1 DEF MarkIngestionItems, SetItems
  <2>. QED  BY <1>1, <2>1, <2>3, <2>4, <2>5
<1>12. CASE AbortTask(w)
  <2>1. PICK l, s : /\ l = "failing" \/ (l = "republish" /\ kind = "email")
                    /\ s = [ses[w] EXCEPT !.pc = l] /\ Become(w, s)
    BY <1>12 DEF AbortTask, Goto
  <2>2. s.pc = l /\ s.job = ses[w].job /\ s.out = ses[w].out
    BY <1>0, <2>1 DEF SessionShape
  <2>3. UNCHANGED <<kind, job, item, mirror, run>>
    BY <1>12 DEF AbortTask, dbVars, outside
  <2>4. budget["module"] = 0 => budget'["module"] = 0
    BY <1>0, <1>12, SpendType DEF AbortTask, Faults
  <2>5. /\ Owes(s) \/ kind # "ingestion"
        /\ s.pc = "republish" => kind = "email"
    BY <1>0, <2>1, <2>2 DEF Believes, Owes
  <2>6. Believes(s, job)
    BY <1>0, <2>1, <2>2 DEF Believes
  <2>. QED  BY <1>2, <2>1, <2>3, <2>4, <2>5, <2>6
<1>13. CASE Republish(w)
  <2>1. PICK s : /\ s = [ses[w] EXCEPT !.pc = "ack", !.cur = None, !.out = "none"]
                 /\ Become(w, s)
    BY <1>13 DEF Republish
  <2>2. s.pc = "ack" /\ s.job = ses[w].job /\ s.out = "none"
    BY <1>0, <2>1 DEF SessionShape
  <2>3. ses[w].pc = "republish" /\ UNCHANGED <<kind, job, item, mirror, run, budget>>
    BY <1>13 DEF Republish, dbVars, outside
  <2>4. Believes(s, job) /\ kind = "email"
    BY <1>0, <2>2, <2>3 DEF Believes
  <2>. QED  BY <1>2, <2>1, <2>3, <2>4
<1>14. CASE FailBatch(w)
  <2>d. PICK D, L, v : /\ D = (IF ses[w].out \in Decided THEN {ses[w].cur} ELSE {})
                       /\ L = Unfinished(w) \ D /\ v = Verdict(ses[w].out)
    OBVIOUS
  <2>i. item' = [i \in Items |-> IF i \in D THEN v ELSE IF i \in L THEN "FAILED" ELSE item[i]]
    BY <1>14, <2>d DEF FailBatch, Decided
  <2>m. mirror' = IF ~Ingests THEN mirror
                  ELSE [i \in Items |-> IF i \in D THEN v
                                        ELSE IF i \in L THEN "FAILED" ELSE mirror[i]]
    BY <1>14, <2>d DEF FailBatch, Decided
  <2>1. PICK s : /\ s = [ses[w] EXCEPT !.pc = "count", !.cur = None, !.out = "settled"]
                 /\ Become(w, s)
    BY <1>14 DEF FailBatch, AfterFailure
  <2>2. s.pc = "count" /\ s.job = ses[w].job /\ s.out = "settled"
    BY <1>0, <2>1 DEF SessionShape
  <2>3. UNCHANGED <<kind, job, run, budget>>
    BY <1>14 DEF FailBatch
  <2>4. Believes(s, job) /\ Owes(s) /\ s.pc # "republish"
    BY <1>0, <2>2 DEF Believes, Owes, RefreshPC
  <2>5. Ingests /\ ~job.cancelReq => mirror' = item'
    BY <1>0, <2>i, <2>m
  <2>. QED  BY <1>1, <2>1, <2>3, <2>4, <2>5
<1>15. CASE RefreshRun(w)
  <2>1. PICK s : s = [ses[w] EXCEPT !.out = "none"] /\ Become(w, s)
    BY <1>15 DEF RefreshRun
  <2>2. s.pc = "ack" /\ s.job = ses[w].job /\ s.out = "none"
    BY <1>0, <1>15, <2>1 DEF SessionShape, RefreshRun
  <2>3. UNCHANGED <<kind, job, item, mirror, budget>>
    BY <1>15 DEF RefreshRun, dbVars
  <2>4. Believes(s, job)
    BY <1>0, <2>2 DEF Believes
  <2>5. Ingests /\ Statuses \subseteq TerminalItem => run' = RunVerdict(Statuses)
    BY <1>15 DEF RefreshRun
  <2>6. ses'[w] = s /\ \A q \in Processes : q # w => ses'[q] = ses[q]
    BY <1>a, <2>1
  <2>. QED  BY <1>0, <2>2, <2>3, <2>4, <2>5, <2>6 DEF Mirrors
<1>16. CASE RefreshProgress(w) /\ UNCHANGED outside
  <2>1. /\ ses[w].pc \in RefreshPC /\ ses'[w].pc \in RefreshPC \cup {"ack"}
        /\ ses'[w].out = ses[w].out
        /\ \A q \in Processes : q # w => ses'[q] = ses[q]
        /\ UNCHANGED <<item, budget, kind, mirror, run>>
    BY <1>0, <1>16, EngineOK, RefreshType DEF MirrorInv, outside
  <2>2. /\ job.cancelReq => job'.cancelReq
        /\ CancelSeen(job') => job'.cancelReq
        /\ Believes(ses'[w], job')
    BY <1>0, <1>16, RefreshBelieves
  <2>3. Owes(ses[w]) => Owes(ses'[w])
    BY <2>1 DEF Owes, RefreshPC
  <2>4. Ingests /\ ~job'.cancelReq => mirror' = item'
    BY <1>0, <2>1, <2>2
  <2>. QED  BY <1>0, <2>1, <2>2, <2>3, <2>4 DEF Mirrors, RefreshPC
<1>17. CASE Finish(w) /\ UNCHANGED outside
  <2>1. PICK s : s = Idle("idle") /\ Become(w, s)
    BY <1>17 DEF Finish, Ack
  <2>2. s.pc = "idle" /\ s.job = NoRow /\ s.out = "none"
    BY <2>1 DEF Idle
  <2>3. /\ ses[w].pc = "ack" /\ ses[w].out = "none"
        /\ UNCHANGED <<kind, job, item, mirror, run, budget>>
    BY <1>17 DEF Finish, Ack, dbVars, outside
  <2>4. Believes(s, job) /\ ~Owes(ses[w])
    BY <2>2, <2>3 DEF Believes, Owes, NoRow, CancelSeen, RefreshPC
  <2>. QED  BY <1>2, <2>1, <2>2, <2>3, <2>4
<1>. QED
  BY <1>3, <1>4, <1>5, <1>6, <1>7, <1>8, <1>9, <1>10, <1>11, <1>12, <1>13, <1>14, <1>15,
     <1>16, <1>17 DEF WorkerProgress

LEMMA BrokerMirrors ==
  ASSUME MirrorInv, NEW w \in Workers, UNCHANGED outside,
         \/ WorkerCrash(w) /\ crashed' = TRUE
         \/ Discard(w) /\ UNCHANGED crashed
  PROVE  Mirrors(w)
<1>. USE DEF dbVars, outside
<1>0. /\ w \in Processes /\ EngineTypes(Place, Outcome) /\ Believes(ses[w], job)
      /\ CancelSeen(job) => job.cancelReq
      /\ Ingests /\ ~job.cancelReq => mirror = item
      /\ ses[w].pc = "republish" => kind = "email"
  BY DEF MirrorInv, TruthInv, Processes
<1>1. CASE WorkerCrash(w) /\ crashed' = TRUE
  <2>1. PICK s : s = Idle("idle") /\ Become(w, s)
    BY <1>1 DEF WorkerCrash
  <2>2. s.pc = "idle" /\ s.job = NoRow /\ s.out = "none"
    BY <2>1 DEF Idle
  <2>3. ses'[w] = s /\ \A q \in Processes : q # w => ses'[q] = ses[q]
    BY <1>0, <2>1 DEF Become, EngineTypes
  <2>4. Believes(s, job)
    BY <2>2 DEF Believes, NoRow, CancelSeen
  <2>5. budget["module"] = 0 => budget'["module"] = 0
    BY <1>0, <1>1, SpendType DEF WorkerCrash, Faults
  <2>. QED  BY <1>0, <1>1, <2>2, <2>3, <2>4, <2>5 DEF Mirrors, WorkerCrash
<1>2. CASE Discard(w) /\ UNCHANGED crashed
  <2>1. ~Owes(ses[w])
    BY <1>2 DEF Discard, Owes, RefreshPC
  <2>. QED  BY <1>0, <1>2, <2>1 DEF Mirrors, Discard
<1>. QED  BY <1>1, <1>2

LEMMA RequestMirrors ==
  ASSUME MirrorInv, NEW r \in Requests, RequestNext(r), UNCHANGED <<outside, crashed>>
  PROVE  Mirrors(r)
<1>. USE DEF dbVars
<1>0. /\ r \in Processes /\ r \notin Workers /\ ses[r] \in SessionShape(Place, Outcome)
      /\ EngineTypes(Place, Outcome) /\ Believes(ses[r], job) /\ job \in JobRow
      /\ CancelSeen(job) => job.cancelReq
      /\ Ingests /\ ~job.cancelReq => mirror = item
      /\ budget["module"] = 0
      /\ UNCHANGED <<kind, mirror, run, crashed>>
  BY EngineAssumption
     DEF MirrorInv, TruthInv, Processes, EngineTypes, EngineAssumption, outside
<1>a. /\ \A q \in Processes : q # r => ses'[q] = ses[q]
      /\ \/ ses'[r].out = "none"
         \/ ses'[r].out = ses[r].out /\ ses[r].pc \in RequestPC \cup RefreshPC
      /\ budget'["module"] = 0
  BY <1>0, EngineOK, RequestMoves, RequestType DEF MirrorInv, Faults
<1>b. ses'[r].out # "early" \/ job.cancelReq
  BY <1>0, <1>a DEF Believes
<1>1. ASSUME job.cancelReq => job'.cancelReq, CancelSeen(job') => job'.cancelReq,
             Believes(ses'[r], job'), Ingests /\ ~job'.cancelReq => mirror' = item'
      PROVE  Mirrors(r)
  BY <1>0, <1>a, <1>1 DEF Mirrors
\* Steps that read the job, or have nothing to do with it.
<1>2. ASSUME NEW s, ses'[r] = s, s.pc \notin {"countBatches", "save"},
             s.job \in {ses[r].job, NoRow, job},
             job'.cancelReq = job.cancelReq, CancelSeen(job') => CancelSeen(job), UNCHANGED item
      PROVE  Mirrors(r)
  <2>1. Believes(s, job')
    BY <1>0, <1>b, <1>2 DEF Believes, NoRow, CancelSeen
  <2>. QED  BY <1>0, <1>1, <1>2, <2>1
<1>3. CASE RefreshProgress(r)
  <2>1. UNCHANGED item
    BY <1>0, <1>3, EngineOK, RefreshType DEF MirrorInv
  <2>. QED  BY <1>0, <1>1, <1>3, <2>1, RefreshBelieves
<1>4. CASE DispatchLoad(r)
  <2>1. PICK l : l = (IF Dispatchable = {} THEN "done" ELSE "mark")
    OBVIOUS
  <2>2. ses'[r] = [ses[r] EXCEPT !.todo = Dispatchable, !.pc = l]
    BY <1>0, <1>4, <2>1 DEF DispatchLoad, Become, EngineTypes
  <2>3. l \in {"done", "mark"}
    BY <2>1
  <2>4. ses'[r].pc = l /\ ses'[r].job = ses[r].job
    BY <1>0, <2>2 DEF SessionShape
  <2>. QED  BY <1>2, <1>4, <2>3, <2>4 DEF DispatchLoad
<1>10. CASE MarkQueued(r)
  <2>1. PICK b : ses'[r] = [ses[r] EXCEPT !.pc = "publish", !.todo = @ \ {b},
                              !.msg = [batch |-> b, task |-> nextTask, tries |-> 0]]
    BY <1>0, <1>10 DEF MarkQueued, Become, EngineTypes
  <2>2. ses'[r].pc = "publish" /\ ses'[r].job = ses[r].job
    BY <1>0, <2>1 DEF SessionShape
  <2>. QED  BY <1>2, <1>10, <2>2 DEF MarkQueued
<1>5. CASE Publish(r) \/ PublishFails(r) \/ DispatchFailed(r)
  <2>1. PICK l, s : /\ l \in {"done", "mark", "dispatchFailed"}
                    /\ s = [ses[r] EXCEPT !.pc = l] /\ Become(r, s)
    BY <1>5 DEF Publish, PublishFails, DispatchFailed, Goto
  <2>2. s.pc = l /\ s.job = ses[r].job /\ ses'[r] = s
    BY <1>0, <2>1 DEF SessionShape, Become, EngineTypes
  <2>3. /\ job'.cancelReq = job.cancelReq /\ (CancelSeen(job') => CancelSeen(job))
        /\ UNCHANGED item
    BY <1>0, <1>5 DEF Publish, PublishFails, DispatchFailed, JobRow, CancelSeen
  <2>. QED  BY <1>2, <2>1, <2>2, <2>3
<1>6. CASE ModuleDisabled(r)
  BY <1>0, <1>6 DEF ModuleDisabled, Spend
<1>7. CASE CancelLoad(r) \/ RetryLoad(r) \/ RequestCrash(r) \/ Revoke(r)
  <2>1. PICK s : /\ Become(r, s)
                 /\ \/ s = Idle("done")
                    \/ s = [Idle("cancel") EXCEPT !.job = job, !.batch = batch, !.item = item]
                    \/ s = [Idle("retry") EXCEPT !.job = job]
    BY <1>7 DEF CancelLoad, RetryLoad, RequestCrash, Revoke
  <2>2. s.pc \in {"done", "cancel", "retry"} /\ s.job \in {NoRow, job}
    <3>1. CASE s = Idle("done")
      BY <3>1 DEF Idle
    <3>2. CASE s = [Idle("cancel") EXCEPT !.job = job, !.batch = batch, !.item = item]
      BY <3>2 DEF Idle
    <3>3. CASE s = [Idle("retry") EXCEPT !.job = job]
      BY <3>3 DEF Idle
    <3>. QED  BY <2>1, <3>1, <3>2, <3>3
  <2>3. ses'[r] = s /\ UNCHANGED <<job, item>>
    BY <1>0, <1>7, <2>1 DEF Become, EngineTypes, CancelLoad, RetryLoad, RequestCrash, Revoke
  <2>. QED  BY <1>2, <2>2, <2>3
<1>8. CASE RetryRequeue(r)
  <2>1. PICK l, s : l \in {"dispatch", "done"} /\ s = Idle(l) /\ Become(r, s)
    BY <1>8 DEF RetryRequeue
  <2>2. s.pc \in {"dispatch", "done"} /\ s.job = NoRow /\ ses'[r] = s
    BY <1>0, <2>1 DEF Idle, Become, EngineTypes
  <2>3. job'.cancelReq = job.cancelReq /\ (CancelSeen(job') => CancelSeen(job))
    <3>1. CASE UNCHANGED job
      BY <3>1
    <3>2. PICK new : new = [ses[r].job EXCEPT !.status = "QUEUED"]
      OBVIOUS
    <3>3. new.status = "QUEUED" /\ new.cancelReq = ses[r].job.cancelReq
      BY <1>0, <3>2 DEF SessionShape, JobRow
    <3>4. CASE job' = FlushJob(ses[r].job, new)
      BY <3>3, <3>4, Flushed DEF Column, CancelSeen
    <3>. QED  BY <1>8, <3>1, <3>2, <3>4 DEF RetryRequeue
  <2>. QED  BY <1>2, <1>8, <2>2, <2>3 DEF RetryRequeue
<1>9. CASE CancelCommit(r)
  <2>1. PICK new, s : /\ new = [ses[r].job EXCEPT !.status = "CANCEL_REQUESTED", !.cancelReq = TRUE]
                      /\ job' = FlushJob(ses[r].job, new)
                      /\ s = [ses[r] EXCEPT !.pc = "count", !.job = new] /\ Become(r, s)
    BY <1>9 DEF CancelCommit
  <2>2. s.pc = "count" /\ ses'[r] = s
    BY <1>0, <2>1 DEF SessionShape, Become, EngineTypes
  <2>3. job'.cancelReq
    <3>1. FlushJob(ses[r].job, new).cancelReq
             = Column(job.cancelReq, ses[r].job.cancelReq, new.cancelReq)
      BY Flushed
    <3>2. job'.cancelReq = Column(job.cancelReq, ses[r].job.cancelReq, new.cancelReq)
      BY <2>1, <3>1
    <3>3. ses[r].job.cancelReq \in BOOLEAN /\ (ses[r].job.cancelReq => job.cancelReq)
      BY <1>0 DEF SessionShape, JobRow, Believes
    <3>4. new.cancelReq = TRUE
      BY <1>0, <2>1 DEF SessionShape, JobRow
    <3>. QED  BY <1>0, <3>2, <3>3, <3>4 DEF Column, JobRow
  <2>. QED  BY <1>1, <2>2, <2>3 DEF Believes
<1>. QED
  BY <1>3, <1>4, <1>5, <1>6, <1>7, <1>8, <1>9, <1>10 DEF RequestNext, RequestProgress

LEMMA MirrorInit == Settles /\ Init => MirrorInv
<1>. SUFFICES ASSUME Settles, Init PROVE MirrorInv
  OBVIOUS
<1>1. /\ \A p \in Processes : ses[p] = Idle(IF p = Creator THEN "dispatch" ELSE "idle")
      /\ budget \in Budgets /\ job = [NoRow EXCEPT !.status = "QUEUED"]
      /\ item = [i \in Items |-> "PENDING"] /\ mirror = [i \in Items |-> "PENDING"]
  BY DEF Init, EngineInit
<1>2. \A l : Idle(l).pc = l /\ Idle(l).job = NoRow /\ Idle(l).out = "none"
  BY DEF Idle
<1>3. job.status = "QUEUED" /\ ~job.cancelReq
  BY <1>1 DEF NoRow
<1>4. ASSUME NEW p \in Processes
      PROVE  Believes(ses[p], job) /\ ses[p].pc \in {"dispatch", "idle"}
  BY <1>1, <1>2 DEF Believes, NoRow, CancelSeen
<1>5. UpToDate
  <2>1. PICK i \in Items : TRUE
    BY EngineAssumption DEF EngineAssumption, Batches
  <2>2. "PENDING" \in Statuses
    BY <1>1, <2>1 DEF Statuses
  <2>. QED  BY <2>2 DEF UpToDate, TerminalItem
<1>. QED
  BY <1>1, <1>3, <1>4, <1>5, TruthInit DEF MirrorInv, CancelSeen, Settles, Processes

LEMMA MirrorStep == MirrorInv /\ [Next]_vars => MirrorInv'
<1>. SUFFICES ASSUME MirrorInv, [Next]_vars PROVE MirrorInv'
  OBVIOUS
<1>0. TruthInv'
  BY TruthStep DEF MirrorInv
<1>1. CASE UNCHANGED vars
  BY <1>0, <1>1 DEF vars, engineVars, outside, MirrorInv, UpToDate, Ingests, Statuses
<1>2. ASSUME NEW w \in Workers, (WorkerProgress(w) /\ UNCHANGED crashed) \/ WorkerFault(w)
      PROVE  MirrorInv'
  <2>1. Mirrors(w)
    BY <1>2, WorkerMirrors, BrokerMirrors DEF WorkerFault
  <2>. QED  BY <1>0, <2>1, MirrorsInv DEF Processes
<1>3. ASSUME NEW r \in Requests, RequestNext(r), UNCHANGED <<outside, crashed>>
      PROVE  MirrorInv'
  BY <1>0, <1>3, RequestMirrors, MirrorsInv DEF Processes
<1>. QED  BY <1>1, <1>2, <1>3 DEF Next

LEMMA MirrorIsEnough == MirrorInv => MirrorFollowsItems /\ RunFollowsItems
<1>. SUFFICES ASSUME MirrorInv PROVE MirrorFollowsItems /\ RunFollowsItems
  OBVIOUS
<1>1. MirrorFollowsItems
  BY DEF MirrorInv, MirrorFollowsItems
<1>2. Resting => \A w \in Workers : ~Owes(ses[w])
  BY DEF Resting, Owes, Processes, RefreshPC
<1>. QED  BY <1>1, <1>2 DEF MirrorInv, RunFollowsItems, UpToDate

\* Unless the module of the job is switched off while it is dispatched: at rest,
\* the ingestion's items say what the items of the job say, and a run whose items
\* are all decided carries their verdict, however many batches, workers,
\* cancellations and retries there are.
THEOREM RunKeepsUp == ASSUME Settles PROVE Spec => [](MirrorFollowsItems /\ RunFollowsItems)
<1>1. Init => MirrorInv
  BY MirrorInit
<1>. QED  BY <1>1, MirrorStep, MirrorIsEnough, PTL DEF Spec

-----------------------------------------------------------------------------
(***************************************************************************)
(* Who closes the job.  With one batch and one dispatch, the batch stays     *)
(* over once it is, unless a cancellation came before the dispatch had it     *)
(* queued: then it is queued all the same, with the job cancelled or about    *)
(* to be.  No cancellation still to commit may then reopen the job behind a    *)
(* worker that has read it as closed.                                       *)
(***************************************************************************)
OneDispatch ==
    /\ NumBatches = 1 /\ Retriers = {}
    /\ \A f \in Budgets : f["module"] = 0 /\ f["request"] = 0 /\ f["publish"] = 0

Over(row) == row.status \in TerminalJob
BatchOver == batch[1].status \in TerminalBatch

\* Who may be where: only the creator dispatches, only a canceller cancels.
Roles ==
    /\ ses[Creator].pc \in {"dispatch", "mark", "publish", "done"}
    /\ ses[Creator].pc = "publish" => ses[Creator].todo = {}
    /\ \A r \in Requests \ {Creator} :
          ses[r].pc \in {"idle", "cancel", "revoke", "done"} \cup RefreshPC

\* Whoever handles a batch handles the one there is.
Carries(s) == s.pc \notin {"idle", "dispatch", "mark", "done"} => s.msg.batch = 1
Addressed == /\ \A m \in queue : m.batch = 1
             /\ \A p \in Workers \cup {Creator} : Carries(ses[p])

\* Before the creator has queued the batch there is no delivery of it.
Waits(s) == s.pc \in {"dispatch", "mark"}
Untouched ==
    /\ batch[1].status = "PENDING" /\ job.status = "QUEUED"
    /\ \A r \in Requests : /\ ses[r].pc \notin RefreshPC
                           /\ ses[r].pc = "cancel" => ses[r].job.status = "QUEUED"
Unqueued ==
    /\ queue = {} /\ \A w \in Workers : ses[w].pc = "idle" /\ ~Over(ses[w].job)
    /\ batch[1].status \in {"PENDING", "CANCELLED"}
    /\ Untouched \/ CancelSeen(job)

\* The cancellation s is about to commit leaves the status alone or ends the batch.
Harmless(s) ==
    s.pc = "cancel" => s.job.status = "CANCEL_REQUESTED" \/ s.batch[1].status \in Cancellable

\* A final status the session has read, or is about to write.
Final(s) == Over(s.job) \/ (s.pc = "save" /\ Over(s.new))

Reopened ==
    ~BatchOver /\ (Over(job) \/ \E p \in Processes : Final(ses[p])) =>
        /\ CancelSeen(job)
        /\ \A p \in Processes :
              /\ Harmless(ses[p])
              /\ Over(ses[p].job) => Over(job) /\ ses[p].job.status = "CANCELLED"
              /\ ses[p].pc = "save" /\ Over(ses[p].new) => ses[p].new.status = "CANCELLED"

\* What refresh_progress is about to write.
Coherent(p, s) ==
    /\ s.pc = "countBatches" => s.new.status = s.job.status
    /\ s.pc = "save" => s.new.status = s.job.status \/ Over(s.new)
    /\ p \in Requests => ~Over(s.job)
    /\ p \in Requests /\ s.pc \in RefreshPC =>
          /\ s.job.status = "CANCEL_REQUESTED" /\ s.job.cancelReq
          /\ s.pc = "countBatches" => s.new.cancelReq
          /\ s.pc = "save" => CancelSeen(s.new)

Closing(s) ==
    /\ s.pc \in RefreshPC /\ ~Over(s.job)
    /\ s.pc = "save" => Over(s.new)

Closed == BatchOver => Over(job) \/ \E p \in Processes : Closing(ses[p])

Tended ==
    /\ \A f \in {"module", "request", "publish"} : budget[f] = 0
    /\ Roles /\ Addressed
    /\ Waits(ses[Creator]) => Unqueued /\ \A p \in Processes : Harmless(ses[p])
    /\ \A p \in Processes : Coherent(p, ses[p])
    /\ Reopened
    /\ Closed

CloseInv == TruthInv /\ (~crashed => Tended)

\* What a step of p that is neither a dispatch nor a cancellation does for it.
Serves(p) ==
    /\ \A q \in Processes : q # p => ses'[q] = ses[q]
    /\ Coherent(p, ses'[p])
    /\ ses'[p].pc # "cancel"
    /\ BatchOver => BatchOver'
    /\ Over(ses'[p].job) => ses'[p].job.status \in {ses[p].job.status, job.status}
    /\ ses'[p].pc = "save" /\ Over(ses'[p].new)
          => BatchOver' \/ ses'[p].new.status = ses[p].job.status
    /\ \/ job'.status = job.status
       \/ job'.status = "RUNNING" /\ ~CancelSeen(job) /\ ~BatchOver'
       \/ ses[p].pc = "save" /\ job'.status = ses[p].new.status /\ Over(ses[p].new)
    /\ BatchOver' => \/ Closing(ses'[p]) \/ Over(job')
                     \/ ~Closing(ses[p]) /\ (BatchOver \/ Over(ses[p].job))

LEMMA ServesTended ==
  ASSUME Tended, NEW p \in Processes, Serves(p)
  PROVE  /\ \A q \in Processes : Coherent(q, ses'[q])
         /\ Reopened' /\ Closed'
<1>1. \A q \in Processes : Coherent(q, ses'[q])
  <2>1. ASSUME NEW q \in Processes PROVE Coherent(q, ses'[q])
    <3>1. CASE q = p
      BY <3>1 DEF Serves
    <3>2. CASE q # p
      BY <3>2 DEF Serves, Tended
    <3>. QED  BY <3>1, <3>2
  <2>. QED  BY <2>1
<1>2. Reopened'
  <2>1. SUFFICES ASSUME ~BatchOver', Over(job') \/ \E q \in Processes : Final(ses'[q])
                 PROVE  /\ CancelSeen(job')
                        /\ \A q \in Processes :
                              /\ Harmless(ses'[q])
                              /\ Over(ses'[q].job) => Over(job') /\ ses'[q].job.status = "CANCELLED"
                              /\ ses'[q].pc = "save" /\ Over(ses'[q].new)
                                    => ses'[q].new.status = "CANCELLED"
    BY DEF Reopened
  <2>2. ~BatchOver
    BY <2>1 DEF Serves
  <2>3. Over(job') => Over(job) \/ Final(ses[p])
    BY DEF Serves, Over, TerminalJob, Final
  <2>4. Final(ses'[p]) => Over(job) \/ Final(ses[p])
    BY <2>1 DEF Serves, Over, Final
  <2>5. \A q \in Processes : Final(ses'[q]) => Over(job) \/ Final(ses[q])
    BY <2>4 DEF Serves
  <2>6. /\ CancelSeen(job)
        /\ \A q \in Processes :
              /\ Harmless(ses[q])
              /\ Over(ses[q].job) => Over(job) /\ ses[q].job.status = "CANCELLED"
              /\ ses[q].pc = "save" /\ Over(ses[q].new) => ses[q].new.status = "CANCELLED"
    BY <2>1, <2>2, <2>3, <2>5 DEF Reopened, Tended
  <2>7. job'.status \in {job.status, "CANCELLED"}
    BY <2>6 DEF Serves
  <2>8. CancelSeen(job') /\ (Over(job) => Over(job') /\ job.status = "CANCELLED")
    BY <2>6, <2>7 DEF CancelSeen, Over, TerminalJob
  <2>9. ASSUME NEW q \in Processes
        PROVE  /\ Harmless(ses'[q])
               /\ Over(ses'[q].job) => Over(job') /\ ses'[q].job.status = "CANCELLED"
               /\ ses'[q].pc = "save" /\ Over(ses'[q].new) => ses'[q].new.status = "CANCELLED"
    <3>1. CASE q # p
      BY <2>6, <2>8, <3>1 DEF Serves
    <3>2. CASE q = p
      <4>1. Over(ses'[p].job) => /\ Over(job) \/ Over(ses[p].job)
                                 /\ ses'[p].job.status \in {ses[p].job.status, job.status}
        BY DEF Serves, Over
      <4>2. Over(ses'[p].job) => Over(job') /\ ses'[p].job.status = "CANCELLED"
        BY <2>6, <2>8, <4>1 DEF Over
      <4>3. ses'[p].pc = "save" /\ Over(ses'[p].new) => ses'[p].new.status = "CANCELLED"
        BY <2>1, <2>6 DEF Serves, Over
      <4>. QED  BY <3>2, <4>2, <4>3 DEF Serves, Harmless
    <3>. QED  BY <3>1, <3>2
  <2>. QED  BY <2>8, <2>9
<1>3. Closed'
  <2>1. SUFFICES ASSUME BatchOver' PROVE Over(job') \/ \E q \in Processes : Closing(ses'[q])
    BY DEF Closed
  <2>2. Over(job) => Over(job')
    BY <2>1 DEF Serves, Over
  <2>3. CASE Closing(ses'[p]) \/ Over(job')
    BY <2>3
  <2>4. CASE ~Closing(ses[p]) /\ BatchOver
    <3>1. Over(job) \/ \E q \in Processes : q # p /\ Closing(ses[q])
      BY <2>4 DEF Tended, Closed
    <3>. QED  BY <2>2, <3>1 DEF Serves
  <2>5. CASE ~BatchOver /\ Over(ses[p].job)
    <3>1. Over(job)
      BY <2>5 DEF Tended, Reopened, Final
    <3>. QED  BY <2>2, <3>1
  <2>. QED  BY <2>1, <2>3, <2>4, <2>5 DEF Serves
<1>. QED  BY <1>1, <1>2, <1>3

\* With one batch the aggregate query tells whether it is over.
LEMMA OneBatch ==
  ASSUME NumBatches = 1
  PROVE  Batches = {1} /\ (FinishedBatches = NumBatches <=> BatchOver)
<1>1. Batches = {1}
  BY DEF Batches
<1>2. CASE BatchOver
  <2>1. {b \in Batches : batch[b].status \in TerminalBatch} = {1}
    BY <1>1, <1>2 DEF BatchOver
  <2>. QED  BY <1>1, <1>2, <2>1, FS_Singleton DEF FinishedBatches
<1>3. CASE ~BatchOver
  <2>1. {b \in Batches : batch[b].status \in TerminalBatch} = {}
    BY <1>1, <1>3 DEF BatchOver
  <2>. QED  BY <1>1, <1>3, <2>1, FS_EmptySet DEF FinishedBatches
<1>. QED  BY <1>1, <1>2, <1>3

LEMMA RefreshServes ==
  ASSUME OneDispatch, TruthInv, Tended, NEW p \in Processes, RefreshProgress(p)
  PROVE  Serves(p)
<1>0. /\ ses[p] \in SessionShape(Place, Outcome) /\ EngineTypes(Place, Outcome)
      /\ Places(Place, Outcome) /\ Coherent(p, ses[p]) /\ Reopened /\ job \in JobRow
      /\ NumBatches = 1
  BY EngineOK DEF Tended, EngineTypes, OneDispatch
<1>1. /\ \A q \in Processes : q # p => ses'[q] = ses[q]
      /\ UNCHANGED batch
  BY <1>0, RefreshType
<1>2. CASE Counted(p)
  <2>1. ses'[p].job.status \in {ses[p].job.status, job.status}
    BY <1>2 DEF Counted
  <2>2. p \in Requests => ses'[p].job = ses[p].job
    BY <1>0, <1>2 DEF Counted, Coherent, RefreshPC
  <2>3. Coherent(p, ses'[p])
    BY <1>0, <1>2, <2>2 DEF Counted, Coherent, RefreshPC
  <2>4. Closing(ses[p]) => Closing(ses'[p]) \/ Over(job)
    BY <1>2 DEF Counted, Closing, RefreshPC, Over
  <2>5. BatchOver' <=> BatchOver
    BY <1>1 DEF BatchOver
  <2>. QED  BY <1>1, <1>2, <2>1, <2>3, <2>4, <2>5 DEF Serves, Counted
<1>3. CASE Judged(p)
  <2>1. BatchOver' <=> BatchOver
    BY <1>1 DEF BatchOver
  <2>2. ses'[p].new.status = IF BatchOver THEN FinalStatus(ses[p].new) ELSE ses[p].job.status
    BY <1>0, <1>3, OneBatch DEF Judged, Coherent
  <2>3. FinalStatus(ses[p].new) \in TerminalJob
    BY DEF FinalStatus, TerminalJob
  <2>4. p \in Requests => FinalStatus(ses[p].new) = "CANCELLED"
    BY <1>0, <1>3 DEF Judged, Coherent, FinalStatus, RefreshPC
  <2>5. Coherent(p, ses'[p])
    BY <1>0, <1>3, <2>2, <2>3, <2>4 DEF Judged, Coherent, RefreshPC, CancelSeen, Over
  <2>6. BatchOver /\ Closing(ses[p]) => Closing(ses'[p])
    BY <1>3, <2>2, <2>3 DEF Judged, Closing, RefreshPC, Over
  <2>. QED  BY <1>1, <1>3, <2>1, <2>2, <2>5, <2>6 DEF Serves, Judged
<1>4. CASE Saved(p)
  <2>1. BatchOver' <=> BatchOver
    BY <1>1 DEF BatchOver
  <2>2. job'.status = Column(job.status, ses[p].job.status, ses[p].new.status)
    BY <1>4, Flushed DEF Saved
  <2>3. \/ job'.status = job.status
        \/ job'.status = ses[p].new.status /\ Over(ses[p].new)
    BY <1>0, <1>4, <2>2 DEF Saved, Coherent, Column
  <2>4. Closing(ses[p]) => Over(job')
    BY <1>4, <2>2 DEF Saved, Closing, Column, Over
  <2>5. Coherent(p, ses'[p])
    BY <1>0, <1>4 DEF Saved, Coherent, RefreshPC
  <2>. QED  BY <1>1, <1>4, <2>1, <2>3, <2>4, <2>5 DEF Serves, Saved
<1>. QED  BY <1>0, <1>2, <1>3, <1>4, RefreshRow

\* A delivery exists only once the creator has queued the batch.
LEMMA WorkerAfterDispatch ==
  ASSUME CloseInv, ~crashed, NEW w \in Workers, ses[w].pc # "idle" \/ queue # {}
  PROVE  ~Waits(ses[Creator])
  BY DEF CloseInv, Tended, Unqueued

\* Whoever finishes the batch goes on to refresh the job, and nobody else does.
LEMMA SettleStatus ==
  ASSUME TruthInv, NumBatches = 1, NEW w, NEW s \in TerminalBatch, SetBatchStatus(w, s)
  PROVE  BatchOver => BatchOver'
<1>1. batch \in [Batches -> BatchRow] /\ Batches = {1}
  BY OneBatch DEF TruthInv, EngineTypes
<1>2. PICK b, t : /\ t \in {batch[b].status, s}
                  /\ batch' = [batch EXCEPT ![b].status = t]
  BY DEF SetBatchStatus, Column
<1>3. CASE b = 1
  <2>1. batch'[1].status = t
    BY <1>1, <1>2, <1>3 DEF BatchRow
  <2>. QED  BY <1>2, <1>3, <2>1 DEF BatchOver
<1>4. CASE b # 1
  <2>1. batch'[1] = batch[1]
    BY <1>1, <1>2, <1>4
  <2>. QED  BY <2>1 DEF BatchOver
<1>. QED  BY <1>3, <1>4

\* The message in hand or in the queue stays addressed.
Passes(w) == Carries(ses'[w]) /\ \A m \in queue' : m.batch = 1

LEMMA WorkerServes ==
  ASSUME OneDispatch, CloseInv, ~crashed, NEW w \in Workers,
         WorkerProgress(w) \/ AbortTask(w) \/ Discard(w)
  PROVE  Serves(w) /\ ~Waits(ses[Creator]) /\ Passes(w)
<1>0. /\ w \in Processes /\ w \notin Requests /\ ses[w] \in SessionShape(Place, Outcome)
      /\ Coherent(w, ses[w]) /\ job \in JobRow /\ EngineTypes(Place, Outcome) /\ TruthInv
      /\ batch \in [Batches -> BatchRow] /\ Batches = {1} /\ NumBatches = 1
      /\ Addressed /\ Carries(ses[w])
  BY EngineAssumption, OneBatch
     DEF CloseInv, Tended, TruthInv, Processes, EngineTypes, EngineAssumption, OneDispatch,
         Addressed
<1>a. ASSUME NEW s, Become(w, s)
      PROVE  ses'[w] = s /\ \A q \in Processes : q # w => ses'[q] = ses[q]
  BY <1>0, <1>a DEF Become, EngineTypes
<1>b. ASSUME ses[w].pc # "idle" PROVE ~Waits(ses[Creator])
  BY <1>b, WorkerAfterDispatch
<1>c. (UNCHANGED batch) => (BatchOver <=> BatchOver')
  BY DEF BatchOver
\* A step that is not part of refresh_progress: it may read the job again.
<1>1. ASSUME NEW s, Become(w, s), s.pc \notin {"countBatches", "save", "cancel"},
             ses[w].pc \notin RefreshPC \cup RequestPC,
             \/ job'.status = job.status
             \/ job'.status = "RUNNING" /\ ~CancelSeen(job) /\ ~BatchOver',
             s.job.status \in {ses[w].job.status, job.status, "EXPIRED"},
             \/ BatchOver' <=> BatchOver
             \/ (BatchOver => BatchOver') /\ s.pc = "count" /\ s.job = ses[w].job,
             s.pc = "idle" \/ s.msg = ses[w].msg, \A m \in queue' : m.batch = 1
      PROVE  Serves(w) /\ ~Waits(ses[Creator]) /\ Passes(w)
  <2>0. Carries(s)
    BY <1>0, <1>1 DEF Carries, RequestPC
  <2>1. ses'[w] = s /\ \A q \in Processes : q # w => ses'[q] = ses[q]
    BY <1>a, <1>1
  <2>2. ~Over(s.job) \/ s.job.status \in {ses[w].job.status, job.status}
    BY <1>1 DEF Over, TerminalJob
  <2>3. ~Closing(ses[w])
    BY <1>1 DEF Closing
  <2>4. Coherent(w, s)
    BY <1>0, <1>1 DEF Coherent
  <2>5. s.pc = "count" /\ s.job = ses[w].job => Closing(s) \/ Over(ses[w].job)
    BY DEF Closing, RefreshPC
  <2>6. BatchOver' => Closing(s) \/ BatchOver \/ Over(ses[w].job)
    BY <1>1, <2>5
  <2>7. (BatchOver => BatchOver') /\ s.pc \notin {"save", "cancel"}
    BY <1>1
  <2>8. ses[w].pc # "idle"
    BY <1>1 DEF RequestPC
  <2>. QED
    BY <1>0, <1>1, <1>b, <2>0, <2>1, <2>2, <2>3, <2>4, <2>6, <2>7, <2>8 DEF Serves, Passes
<1>2. ASSUME NEW s, Become(w, s), s.pc \notin {"countBatches", "save", "cancel"},
             ses[w].pc \notin RefreshPC \cup RequestPC, UNCHANGED <<batch, queue>>,
             job'.status = job.status,
             s.job.status \in {ses[w].job.status, job.status, "EXPIRED"},
             s.pc = "idle" \/ s.msg = ses[w].msg
      PROVE  Serves(w) /\ ~Waits(ses[Creator]) /\ Passes(w)
  BY <1>0, <1>1, <1>2, <1>c DEF Addressed
<1>3. CASE Receive(w)
  <2>1. UNCHANGED <<job, batch>> /\ ses[w].pc = "idle" /\ queue # {} /\ queue' \subseteq queue
    BY <1>3 DEF Receive, dbVars
  <2>2. ~Waits(ses[Creator])
    BY <2>1, WorkerAfterDispatch
  <2>3. ~Closing(ses[w])
    BY <2>1 DEF Closing, RefreshPC
  <2>4. CASE UNCHANGED ses
    <3>1. Coherent(w, ses'[w]) /\ ses'[w].pc = "idle" /\ Passes(w)
      BY <1>0, <2>1, <2>4 DEF Passes, Addressed, Carries
    <3>. QED  BY <1>c, <2>1, <2>2, <2>3, <2>4, <3>1 DEF Serves
  <2>5. CASE ~UNCHANGED ses
    <3>1. PICK m, stop, l, o, x, s :
            /\ m \in queue /\ stop = (kind # "email" /\ CancelSeen(job))
            /\ l = (IF stop THEN "cancelPending" ELSE "claim")
            /\ o = (IF stop THEN "early" ELSE "none")
            /\ x = [Idle(l) EXCEPT !.msg = m, !.out = o] /\ s = Loaded(x, job) /\ Become(w, s)
      BY <1>3, <2>5 DEF Receive
    <3>2. s.job = job /\ s.pc \in {"cancelPending", "claim"} /\ s.msg = m
      <4>1. x.pc = l /\ x.out = o /\ x.job = NoRow /\ x.msg = m
        BY <3>1 DEF Idle
      <4>. QED  BY <3>1, <4>1 DEF Loaded, Idle
    <3>3. ses'[w] = s /\ \A q \in Processes : q # w => ses'[q] = ses[q]
      BY <1>a, <3>1
    <3>4. Coherent(w, s) /\ Carries(s) /\ (\A n \in queue' : n.batch = 1)
      BY <1>0, <2>1, <3>1, <3>2 DEF Coherent, Carries, Addressed
    <3>. QED  BY <1>0, <1>c, <2>1, <2>2, <2>3, <3>2, <3>3, <3>4 DEF Serves, Passes
  <2>. QED  BY <2>4, <2>5
<1>18. CASE Discard(w)
  <2>1. UNCHANGED <<job, batch, ses>> /\ ses[w].pc = "idle" /\ queue # {} /\ queue' \subseteq queue
    BY <1>18 DEF Discard, dbVars
  <2>2. ~Waits(ses[Creator])
    BY <2>1, WorkerAfterDispatch
  <2>3. ~Closing(ses[w])
    BY <2>1 DEF Closing, RefreshPC
  <2>4. Passes(w)
    BY <1>0, <2>1 DEF Passes, Addressed, Carries
  <2>. QED  BY <1>0, <1>c, <2>1, <2>2, <2>3, <2>4 DEF Serves
<1>4. CASE Claim(w)
  <2>1. PICK l, s : /\ l \in {"claimed", "ack"} /\ s = [ses[w] EXCEPT !.pc = l] /\ Become(w, s)
    BY <1>4 DEF Claim, Goto
  <2>2. s.pc = l /\ s.job = ses[w].job /\ s.msg = ses[w].msg
    BY <1>0, <2>1 DEF SessionShape
  <2>3. ses[w].pc = "claim" /\ ses[w].pc \notin RefreshPC \cup RequestPC /\ UNCHANGED queue
    BY <1>4 DEF Claim, RefreshPC, RequestPC, brokerVars
  <2>4. CASE UNCHANGED <<job, batch>>
    BY <1>2, <2>1, <2>2, <2>3, <2>4
  <2>5. CASE ~UNCHANGED <<job, batch>>
    <3>1. /\ batch[1].status \in Claimable
          /\ batch' = [batch EXCEPT ![1].status = "RUNNING"]
          /\ job' = [job EXCEPT !.status = ClaimedStatus(job.status)]
      <4>1. ses[w].msg.batch = 1
        BY <1>0, <2>3 DEF Carries
      <4>. QED  BY <1>4, <2>5, <4>1 DEF Claim
    <3>2. ~BatchOver /\ ~BatchOver'
      <4>1. batch'[1].status = "RUNNING"
        BY <1>0, <3>1 DEF BatchRow
      <4>. QED  BY <3>1, <4>1 DEF BatchOver, TerminalBatch, Claimable
    <3>3. job'.status = ClaimedStatus(job.status)
      BY <1>0, <3>1 DEF JobRow
    <3>4. job'.status = job.status \/ (job'.status = "RUNNING" /\ ~CancelSeen(job))
      BY <3>3 DEF ClaimedStatus, CancelSeen
    <3>5. \A m \in queue' : m.batch = 1
      BY <1>0, <2>3 DEF Addressed
    <3>. QED  BY <1>1, <2>1, <2>2, <2>3, <3>2, <3>4, <3>5
  <2>. QED  BY <2>4, <2>5
<1>5. CASE StartBatch(w)
  <2>1. PICK x, l, s :
          /\ x = Loaded(ses[w], job)
          /\ l = (IF kind = "email" /\ CancelSeen(job) THEN "cancelPending" ELSE "loop")
          /\ s = [x EXCEPT !.pc = l] /\ Become(w, s)
    BY <1>5 DEF StartBatch
  <2>2. x \in SessionShape(Place, Outcome) /\ x.job = job /\ x.msg = ses[w].msg
    <3>1. x \in SessionShape(Place, Outcome) /\ x.msg = ses[w].msg
      BY <1>0, <2>1, LoadedOK
    <3>2. x.job = job
      BY <1>0, <2>1 DEF Loaded, SessionShape
    <3>. QED  BY <3>1, <3>2
  <2>3. s.pc = l /\ s.job = job /\ s.msg = ses[w].msg /\ l \in {"cancelPending", "loop"}
    BY <2>1, <2>2 DEF SessionShape
  <2>4. ses[w].pc \notin RefreshPC \cup RequestPC /\ UNCHANGED <<job, batch, queue>>
    BY <1>5 DEF StartBatch, RefreshPC, RequestPC, dbVars, brokerVars
  <2>. QED  BY <1>2, <2>1, <2>3, <2>4
<1>6. CASE CheckCancel(w)
  <2>1. PICK row, l, s :
          /\ row = [KnownJob(w) EXCEPT !.status = job.status]
          /\ l = (IF CancelSeen(row) THEN "cancelPending" ELSE "start")
          /\ s = [ses[w] EXCEPT !.job = row, !.pc = l] /\ Become(w, s)
    BY <1>6 DEF CheckCancel
  <2>2. row.status = job.status
    <3>1. KnownJob(w) \in JobRow
      BY <1>0 DEF KnownJob, SessionShape
    <3>. QED  BY <2>1, <3>1 DEF JobRow
  <2>3. s.pc = l /\ s.job = row /\ s.msg = ses[w].msg /\ l \in {"cancelPending", "start"}
    BY <1>0, <2>1 DEF SessionShape
  <2>4. ses[w].pc \notin RefreshPC \cup RequestPC /\ UNCHANGED <<job, batch, queue>>
    BY <1>6 DEF CheckCancel, RefreshPC, RequestPC, dbVars, brokerVars
  <2>. QED  BY <1>2, <2>1, <2>2, <2>3, <2>4
<1>7. CASE StartItem(w)
  <2>1. PICK i, k, s :
          /\ k = Remember(w, {i}, "RUNNING")
          /\ s = [ses[w] EXCEPT !.pc = "call", !.cur = i, !.item = k] /\ Become(w, s)
    BY <1>7 DEF StartItem
  <2>2. s.pc = "call" /\ s.job = ses[w].job /\ s.msg = ses[w].msg
    BY <1>0, <2>1 DEF SessionShape
  <2>3. ses[w].pc \notin RefreshPC \cup RequestPC /\ UNCHANGED <<job, batch, queue>>
    BY <1>7 DEF StartItem, RefreshPC, RequestPC, brokerVars
  <2>. QED  BY <1>2, <2>1, <2>2, <2>3
<1>8. CASE Execute(w)
  <2>1. PICK o \in {"ok", "failed"} :
          Become(w, [(IF o = "failed" /\ kind # "email" THEN Loaded(ses[w], NoRow) ELSE ses[w])
                     EXCEPT !.pc = "record", !.out = o])
    BY <1>8 DEF Execute
  <2>2. PICK x : x = IF o = "failed" /\ kind # "email" THEN Loaded(ses[w], NoRow) ELSE ses[w]
    OBVIOUS
  <2>3. PICK s : s = [x EXCEPT !.pc = "record", !.out = o] /\ Become(w, s)
    BY <2>1, <2>2
  <2>4. /\ x \in SessionShape(Place, Outcome) /\ (x.job = NoRow \/ x.job = ses[w].job)
        /\ x.msg = ses[w].msg
    <3>1. x \in SessionShape(Place, Outcome) /\ x.msg = ses[w].msg
      BY <1>0, <2>2, NoRowType, LoadedOK
    <3>2. Loaded(ses[w], NoRow).job = NoRow
      BY <1>0 DEF Loaded, SessionShape
    <3>. QED  BY <2>2, <3>1, <3>2
  <2>5. s.pc = "record" /\ s.job.status \in {ses[w].job.status, "EXPIRED"} /\ s.msg = ses[w].msg
    BY <2>3, <2>4 DEF SessionShape, NoRow
  <2>6. ses[w].pc \notin RefreshPC \cup RequestPC /\ UNCHANGED <<job, batch, queue>>
    BY <1>8 DEF Execute, RefreshPC, RequestPC, dbVars, brokerVars
  <2>. QED  BY <1>2, <2>3, <2>5, <2>6
<1>9. CASE RecordItem(w)
  <2>1. PICK i, v, k, s :
          /\ i = ses[w].cur /\ v = Verdict(ses[w].out) /\ k = Remember(w, {i}, v)
          /\ s = [ses[w] EXCEPT !.pc = "loop", !.cur = None, !.out = "none", !.item = k]
          /\ Become(w, s)
    BY <1>9, Zenon DEF RecordItem
  <2>2. s.pc = "loop" /\ s.job = ses[w].job /\ s.msg = ses[w].msg
    BY <1>0, <2>1 DEF SessionShape
  <2>3. ses[w].pc \notin RefreshPC \cup RequestPC /\ UNCHANGED <<batch, queue>>
    BY <1>9 DEF RecordItem, RefreshPC, RequestPC, brokerVars
  <2>4. job'.status = job.status
    <3>1. PICK a, b, c : job' = [job EXCEPT !.proc = a, !.succ = b, !.fail = c]
      BY <1>9 DEF RecordItem
    <3>. QED  BY <1>0, <3>1 DEF JobRow
  <2>. QED  BY <1>2, <2>1, <2>2, <2>3, <2>4
\* The three ways to finish the batch.
<1>10. ASSUME NEW s, Become(w, s), s.pc = "count", s.job = ses[w].job, s.msg = ses[w].msg,
              NEW v \in TerminalBatch, SetBatchStatus(w, v), UNCHANGED <<job, queue>>,
              ses[w].pc \notin RefreshPC \cup RequestPC
       PROVE  Serves(w) /\ ~Waits(ses[Creator]) /\ Passes(w)
  <2>1. BatchOver => BatchOver'
    BY <1>0, <1>10, SettleStatus
  <2>. QED  BY <1>0, <1>1, <1>10, <2>1 DEF Addressed
<1>11. CASE FinishBatch(w)
  <2>1. ses[w].pc \notin RefreshPC \cup RequestPC /\ UNCHANGED <<job, queue>>
    BY <1>11 DEF FinishBatch, RefreshPC, RequestPC, brokerVars
  <2>2. CASE CancelSeen(KnownJob(w))
    <3>1. PICK s : s = [ses[w] EXCEPT !.pc = "cancelPending"] /\ Become(w, s) /\ UNCHANGED batch
      BY <1>11, <2>2 DEF FinishBatch, Goto
    <3>2. s.pc = "cancelPending" /\ s.job = ses[w].job /\ s.msg = ses[w].msg
      BY <1>0, <3>1 DEF SessionShape
    <3>. QED  BY <1>2, <2>1, <3>1, <3>2
  <2>3. CASE ~CancelSeen(KnownJob(w))
    <3>1. PICK s : /\ s = [ses[w] EXCEPT !.pc = "count", !.out = "settled"] /\ Become(w, s)
                   /\ SetBatchStatus(w, BatchOutcome(w))
      BY <1>11, <2>3 DEF FinishBatch
    <3>2. s.pc = "count" /\ s.job = ses[w].job /\ s.msg = ses[w].msg
      BY <1>0, <3>1 DEF SessionShape
    <3>3. BatchOutcome(w) \in TerminalBatch
      BY DEF BatchOutcome, TerminalBatch
    <3>. QED  BY <1>10, <2>1, <3>1, <3>2, <3>3
  <2>. QED  BY <2>2, <2>3
<1>12. CASE CancelPending(w)
  <2>1. PICK k, o, s : s = [ses[w] EXCEPT !.pc = "count", !.item = k, !.out = o] /\ Become(w, s)
    BY <1>12 DEF CancelPending
  <2>2. s.pc = "count" /\ s.job = ses[w].job /\ s.msg = ses[w].msg
    BY <1>0, <2>1 DEF SessionShape
  <2>3. /\ ses[w].pc \notin RefreshPC \cup RequestPC /\ UNCHANGED <<job, queue>>
        /\ SetBatchStatus(w, "CANCELLED") /\ "CANCELLED" \in TerminalBatch
    BY <1>12 DEF CancelPending, RefreshPC, RequestPC, brokerVars, TerminalBatch
  <2>. QED  BY <1>10, <2>1, <2>2, <2>3
<1>13. CASE FailBatch(w)
  <2>1. PICK s : /\ s = [ses[w] EXCEPT !.pc = "count", !.cur = None, !.out = "settled"]
                 /\ Become(w, s)
    BY <1>13 DEF FailBatch, AfterFailure
  <2>2. s.pc = "count" /\ s.job = ses[w].job /\ s.msg = ses[w].msg
    BY <1>0, <2>1 DEF SessionShape
  <2>3. /\ ses[w].pc \notin RefreshPC \cup RequestPC /\ UNCHANGED <<job, queue>>
        /\ SetBatchStatus(w, "FAILED") /\ "FAILED" \in TerminalBatch
    BY <1>13 DEF FailBatch, RefreshPC, RequestPC, brokerVars, TerminalBatch
  <2>. QED  BY <1>10, <2>1, <2>2, <2>3
<1>14. CASE AbortTask(w)
  <2>1. PICK l, s : l \in {"failing", "republish"} /\ s = [ses[w] EXCEPT !.pc = l] /\ Become(w, s)
    BY <1>14 DEF AbortTask, Goto
  <2>2. s.pc = l /\ s.job = ses[w].job /\ s.msg = ses[w].msg
    BY <1>0, <2>1 DEF SessionShape
  <2>3. ses[w].pc \notin RefreshPC \cup RequestPC /\ UNCHANGED <<job, batch, queue>>
    BY <1>14 DEF AbortTask, RefreshPC, RequestPC, dbVars, brokerVars
  <2>. QED  BY <1>2, <2>1, <2>2, <2>3
<1>15. CASE Republish(w)
  <2>1. PICK m, s : /\ m = [ses[w].msg EXCEPT !.tries = ses[w].msg.tries + 1]
                    /\ s = [ses[w] EXCEPT !.pc = "ack", !.cur = None, !.out = "none"]
                    /\ queue' = queue \cup {m} /\ Become(w, s)
    BY <1>15 DEF Republish
  <2>2. s.pc = "ack" /\ s.job = ses[w].job /\ s.msg = ses[w].msg /\ m.batch = ses[w].msg.batch
    BY <1>0, <2>1 DEF SessionShape, Message
  <2>3. /\ ses[w].pc = "republish" /\ ses[w].pc \notin RefreshPC \cup RequestPC
        /\ UNCHANGED <<job, batch>>
    BY <1>15 DEF Republish, RefreshPC, RequestPC, dbVars
  <2>4. \A n \in queue' : n.batch = 1
    BY <1>0, <2>1, <2>2, <2>3 DEF Addressed, Carries
  <2>. QED  BY <1>1, <1>c, <2>1, <2>2, <2>3, <2>4
<1>16. CASE RefreshRun(w) \/ (Finish(w) /\ UNCHANGED outside)
  <2>1. PICK s : /\ s = [ses[w] EXCEPT !.out = "none"] \/ s = Idle("idle")
                 /\ Become(w, s)
    BY <1>16 DEF RefreshRun, Finish, Ack
  <2>2. /\ ses[w].pc = "ack" /\ ses[w].pc \notin RefreshPC \cup RequestPC
        /\ UNCHANGED <<job, batch, queue>>
    BY <1>16 DEF RefreshRun, Finish, Ack, RefreshPC, RequestPC, dbVars, brokerVars
  <2>3. CASE s = [ses[w] EXCEPT !.out = "none"]
    <3>1. s.pc = "ack" /\ s.job = ses[w].job /\ s.msg = ses[w].msg
      BY <1>0, <2>2, <2>3 DEF SessionShape
    <3>. QED  BY <1>2, <2>1, <2>2, <3>1
  <2>4. CASE s = Idle("idle")
    <3>1. s.pc = "idle" /\ s.job.status = "EXPIRED"
      BY <2>4 DEF Idle, NoRow
    <3>. QED  BY <1>2, <2>1, <2>2, <3>1
  <2>. QED  BY <2>1, <2>3, <2>4
<1>17. CASE RefreshProgress(w) /\ UNCHANGED outside
  <2>1. /\ ses[w].pc \in RefreshPC /\ ses'[w].msg = ses[w].msg
        /\ UNCHANGED queue
    BY <1>0, <1>17, EngineOK, RefreshType DEF brokerVars
  <2>2. Passes(w)
    BY <1>0, <2>1 DEF Passes, Carries, RefreshPC, Addressed
  <2>3. ~Waits(ses[Creator])
    BY <1>b, <2>1 DEF RefreshPC
  <2>. QED  BY <1>0, <1>17, <2>2, <2>3, RefreshServes DEF CloseInv
<1>. QED
  BY <1>3, <1>4, <1>5, <1>6, <1>7, <1>8, <1>9, <1>11, <1>12, <1>13, <1>14, <1>15, <1>16, <1>17,
     <1>18 DEF WorkerProgress

LEMMA RolesKept ==
  ASSUME Roles, NEW r \in Requests, \A q \in Processes : q # r => ses'[q] = ses[q],
         r = Creator => \/ ses'[r].pc \in {"mark", "done"}
                        \/ ses'[r].pc = "publish" /\ ses'[r].todo = {},
         r # Creator => ses'[r].pc \in {"idle", "cancel", "revoke", "done"} \cup RefreshPC
  PROVE  Roles'
<1>1. Creator \in Requests /\ Requests \subseteq Processes
  BY DEF Requests, Processes
<1>2. CASE r = Creator
  BY <1>1, <1>2 DEF Roles
<1>3. CASE r # Creator
  <2>1. ses'[Creator] = ses[Creator]
    BY <1>1, <1>3
  <2>2. ASSUME NEW q \in Requests \ {Creator}
        PROVE  ses'[q].pc \in {"idle", "cancel", "revoke", "done"} \cup RefreshPC
    <3>1. CASE q = r
      BY <1>3, <3>1
    <3>2. CASE q # r
      BY <1>1, <3>2 DEF Roles
    <3>. QED  BY <3>1, <3>2
  <2>. QED  BY <2>1, <2>2 DEF Roles
<1>. QED  BY <1>2, <1>3

\* A canceller's step, but for the commit of the cancellation itself.
LEMMA CancellerTends ==
  ASSUME OneDispatch, TruthInv, Tended, NEW r \in Requests \ {Creator},
         RefreshProgress(r) \/ Revoke(r) \/ CancelLoad(r)
  PROVE  Tended'
<1>0. /\ r \in Processes /\ r \notin Workers /\ Creator \in Processes /\ Creator \notin Workers
      /\ Workers \subseteq Processes /\ Requests \subseteq Processes
      /\ ses[r] \in SessionShape(Place, Outcome) /\ EngineTypes(Place, Outcome)
      /\ Places(Place, Outcome) /\ Coherent(r, ses[r])
  BY EngineAssumption, EngineOK
     DEF Tended, TruthInv, Processes, EngineTypes, EngineAssumption, Requests
<1>1. ASSUME \A q \in Processes : q # r => ses'[q] = ses[q], UNCHANGED <<queue, budget>>,
             ses'[r].pc \in {"idle", "cancel", "revoke", "done"} \cup RefreshPC
      PROVE  /\ \A f \in {"module", "request", "publish"} : budget'[f] = 0
             /\ Roles' /\ Addressed' /\ ses'[Creator] = ses[Creator]
             /\ \A w \in Workers : ses'[w] = ses[w]
  <2>1. Roles'
    BY <1>1, RolesKept DEF Tended
  <2>2. ses'[Creator] = ses[Creator] /\ \A w \in Workers : ses'[w] = ses[w]
    BY <1>0, <1>1
  <2>3. Addressed'
    BY <1>1, <2>2 DEF Tended, Addressed
  <2>. QED  BY <1>1, <2>1, <2>2, <2>3 DEF Tended
<1>2. CASE RefreshProgress(r)
  <2>1. /\ ses[r].pc \in RefreshPC /\ ses'[r].pc \in RefreshPC \cup {"revoke"}
        /\ \A q \in Processes : q # r => ses'[q] = ses[q]
        /\ UNCHANGED <<batch, queue, budget>>
    BY <1>0, <1>2, RefreshType DEF brokerVars
  <2>3. Serves(r)
    BY <1>0, <1>2, RefreshServes
  <2>4. CancelSeen(job) => CancelSeen(job')
    BY <1>0, <2>1, <2>3 DEF Serves, Coherent, CancelSeen
  <2>5. ASSUME Waits(ses[Creator])
        PROVE  Unqueued' /\ \A p \in Processes : Harmless(ses'[p])
    <3>1. Unqueued /\ \A p \in Processes : Harmless(ses[p])
      BY <2>5 DEF Tended
    <3>2. ~Untouched
      BY <2>1 DEF Untouched
    <3>3. Unqueued'
      BY <1>1, <2>1, <2>4, <3>1, <3>2 DEF Unqueued
    <3>4. Harmless(ses'[r])
      BY <2>3 DEF Serves, Harmless
    <3>. QED  BY <2>1, <3>1, <3>3, <3>4
  <2>6. /\ \A q \in Processes : Coherent(q, ses'[q])
        /\ Reopened' /\ Closed'
    BY <1>0, <2>3, ServesTended
  <2>7. ses'[r].pc \in {"idle", "cancel", "revoke", "done"} \cup RefreshPC
    BY <2>1
  <2>8. /\ \A f \in {"module", "request", "publish"} : budget'[f] = 0
        /\ Roles' /\ Addressed' /\ ses'[Creator] = ses[Creator]
    BY <1>1, <2>1, <2>7
  <2>. QED  BY <2>5, <2>6, <2>8 DEF Tended
<1>3. CASE Revoke(r)
  <2>1. /\ ses[r].pc = "revoke" /\ UNCHANGED <<job, batch, item, queue, budget>>
        /\ ses' = [ses EXCEPT ![r] = Idle("done")]
    BY <1>3 DEF Revoke, Become, dbVars
  <2>2. /\ ses'[r].pc = "done" /\ ses'[r].job.status = "EXPIRED"
        /\ \A q \in Processes : q # r => ses'[q] = ses[q]
    BY <1>0, <2>1 DEF Idle, NoRow, EngineTypes
  <2>3. Serves(r)
    <3>1. BatchOver' <=> BatchOver
      BY <2>1 DEF BatchOver
    <3>2. ~Closing(ses[r])
      BY <2>1 DEF Closing, RefreshPC
    <3>3. Coherent(r, ses'[r]) /\ ~Over(ses'[r].job)
      BY <2>2 DEF Coherent, RefreshPC, Over, TerminalJob
    <3>. QED  BY <2>1, <2>2, <3>1, <3>2, <3>3 DEF Serves
  <2>4. ASSUME Waits(ses[Creator])
        PROVE  Unqueued' /\ \A p \in Processes : Harmless(ses'[p])
    <3>1. Unqueued /\ \A p \in Processes : Harmless(ses[p])
      BY <2>4 DEF Tended
    <3>2. Untouched => Untouched'
      BY <1>0, <2>1, <2>2 DEF Untouched, RefreshPC
    <3>3. Unqueued'
      BY <1>1, <2>1, <2>2, <3>1, <3>2 DEF Unqueued, CancelSeen
    <3>4. Harmless(ses'[r])
      BY <2>2 DEF Harmless
    <3>. QED  BY <2>2, <3>1, <3>3, <3>4
  <2>5. /\ \A q \in Processes : Coherent(q, ses'[q])
        /\ Reopened' /\ Closed'
    BY <1>0, <2>3, ServesTended
  <2>6. /\ \A f \in {"module", "request", "publish"} : budget'[f] = 0
        /\ Roles' /\ Addressed' /\ ses'[Creator] = ses[Creator]
    BY <1>1, <2>1, <2>2
  <2>. QED  BY <2>4, <2>5, <2>6 DEF Tended
<1>4. CASE CancelLoad(r)
  <2>1. PICK s : /\ ses' = [ses EXCEPT ![r] = s]
                 /\ s = IF job.status \in TerminalJob THEN Idle("done")
                        ELSE [Idle("cancel") EXCEPT !.job = job, !.batch = batch, !.item = item]
    BY <1>4 DEF CancelLoad, Become
  <2>2. /\ ses[r].pc = "idle" /\ UNCHANGED <<job, batch, queue, budget>>
    BY <1>4 DEF CancelLoad, dbVars, brokerVars
  <2>3. ses'[r] = s /\ \A q \in Processes : q # r => ses'[q] = ses[q]
    BY <1>0, <2>1 DEF EngineTypes
  <2>4. \/ s.pc = "done" /\ s.job.status = "EXPIRED"
        \/ s.pc = "cancel" /\ s.job = job /\ s.batch = batch /\ ~Over(job)
    BY <2>1 DEF Idle, NoRow, Over
  <2>5. ~Over(s.job) /\ s.pc \in {"done", "cancel"}
    BY <2>4 DEF Over, TerminalJob
  <2>6. Coherent(r, s) /\ ~Final(s) /\ ~Closing(ses[r]) /\ ~Final(ses'[r])
    BY <2>2, <2>3, <2>5 DEF Coherent, Final, Closing, RefreshPC
  <2>7. CancelSeen(job) => Harmless(s)
    BY <2>4 DEF CancelSeen, Harmless, Over, TerminalJob
  <2>8. Reopened'
    <3>1. SUFFICES ASSUME ~BatchOver', Over(job') \/ \E q \in Processes : Final(ses'[q])
                   PROVE  /\ CancelSeen(job')
                          /\ \A q \in Processes :
                                /\ Harmless(ses'[q])
                                /\ Over(ses'[q].job) => Over(job') /\ ses'[q].job.status = "CANCELLED"
                                /\ ses'[q].pc = "save" /\ Over(ses'[q].new)
                                      => ses'[q].new.status = "CANCELLED"
      BY DEF Reopened
    <3>2. ~BatchOver /\ (Over(job) \/ \E q \in Processes : Final(ses[q]))
      BY <2>2, <2>3, <2>6, <3>1 DEF BatchOver
    <3>3. /\ CancelSeen(job)
          /\ \A q \in Processes :
                /\ Harmless(ses[q])
                /\ Over(ses[q].job) => Over(job) /\ ses[q].job.status = "CANCELLED"
                /\ ses[q].pc = "save" /\ Over(ses[q].new) => ses[q].new.status = "CANCELLED"
      BY <3>2 DEF Tended, Reopened
    <3>4. ASSUME NEW q \in Processes
          PROVE  /\ Harmless(ses'[q])
                 /\ Over(ses'[q].job) => Over(job') /\ ses'[q].job.status = "CANCELLED"
                 /\ ses'[q].pc = "save" /\ Over(ses'[q].new) => ses'[q].new.status = "CANCELLED"
      <4>1. CASE q = r
        BY <2>3, <2>5, <2>7, <3>3, <4>1
      <4>2. CASE q # r
        BY <2>2, <2>3, <3>3, <4>2
      <4>. QED  BY <4>1, <4>2
    <3>. QED  BY <2>2, <3>3, <3>4
  <2>9. Closed'
    BY <2>2, <2>3, <2>6 DEF Tended, Closed, BatchOver
  <2>10. ASSUME Waits(ses[Creator])
         PROVE  Unqueued' /\ \A p \in Processes : Harmless(ses'[p])
    <3>1. Unqueued /\ \A p \in Processes : Harmless(ses[p])
      BY <2>10 DEF Tended
    <3>2. Untouched => Untouched' /\ Harmless(s)
      <4>1. ASSUME Untouched PROVE Harmless(s)
        BY <2>4, <4>1 DEF Untouched, Harmless, Cancellable
      <4>2. ASSUME Untouched, NEW q \in Requests
            PROVE  /\ ses'[q].pc \notin RefreshPC
                   /\ ses'[q].pc = "cancel" => ses'[q].job.status = "QUEUED"
        <5>1. CASE q = r
          BY <2>3, <2>4, <4>2, <5>1 DEF Untouched, RefreshPC
        <5>2. CASE q # r
          BY <1>0, <2>3, <4>2, <5>2 DEF Untouched
        <5>. QED  BY <5>1, <5>2
      <4>. QED  BY <2>2, <4>1, <4>2 DEF Untouched
    <3>3. Unqueued'
      BY <1>1, <2>2, <2>3, <2>5, <3>1, <3>2 DEF Unqueued, CancelSeen
    <3>4. Harmless(s)
      BY <2>7, <3>1, <3>2 DEF Unqueued
    <3>. QED  BY <2>3, <3>1, <3>3, <3>4
  <2>11. \A q \in Processes : Coherent(q, ses'[q])
    <3>1. ASSUME NEW q \in Processes PROVE Coherent(q, ses'[q])
      BY <2>3, <2>6 DEF Tended
    <3>. QED  BY <3>1
  <2>. QED  BY <1>1, <2>2, <2>3, <2>5, <2>8, <2>9, <2>10, <2>11 DEF Tended
<1>. QED  BY <1>2, <1>3, <1>4

\* The commit of a cancellation: whoever made it refreshes the job next.
LEMMA CommitTends ==
  ASSUME OneDispatch, TruthInv, Tended, NEW r \in Requests \ {Creator}, CancelCommit(r)
  PROVE  Tended'
<1>0. /\ r \in Processes /\ r \notin Workers /\ Creator \in Processes /\ Creator \notin Workers
      /\ Workers \subseteq Processes /\ Requests \subseteq Processes
      /\ ses[r] \in SessionShape(Place, Outcome) /\ EngineTypes(Place, Outcome)
      /\ Coherent(r, ses[r]) /\ batch \in [Batches -> BatchRow] /\ 1 \in Batches
  BY EngineAssumption, OneBatch
     DEF Tended, TruthInv, Processes, EngineTypes, EngineAssumption, Requests, OneDispatch
<1>1. PICK new, s :
        /\ new = [ses[r].job EXCEPT !.status = "CANCEL_REQUESTED", !.cancelReq = TRUE]
        /\ job' = FlushJob(ses[r].job, new)
        /\ s = [ses[r] EXCEPT !.pc = "count", !.job = new] /\ Become(r, s)
  BY DEF CancelCommit
<1>2. PICK hit : /\ hit = {b \in Batches : ses[r].batch[b].status \in Cancellable}
                 /\ batch' = [b \in Batches |-> IF b \in hit THEN [batch[b] EXCEPT !.status = "CANCELLED"]
                                                ELSE batch[b]]
  BY DEF CancelCommit
<1>3. ses[r].pc = "cancel" /\ UNCHANGED <<queue, budget>>
  BY DEF CancelCommit, brokerVars
<1>4. new.status = "CANCEL_REQUESTED" /\ new.cancelReq
  BY <1>0, <1>1 DEF SessionShape, JobRow
<1>5. s.pc = "count" /\ s.job = new /\ ses'[r] = s /\ \A q \in Processes : q # r => ses'[q] = ses[q]
  BY <1>0, <1>1 DEF SessionShape, Become, EngineTypes
<1>6. job'.status = IF ses[r].job.status = "CANCEL_REQUESTED" THEN job.status ELSE "CANCEL_REQUESTED"
  <2>1. job'.status = Column(job.status, ses[r].job.status, new.status)
    <3>1. job' = FlushJob(ses[r].job, new)
      BY <1>1
    <3>. QED  BY <3>1, Flushed
  <2>. QED  BY <1>4, <2>1 DEF Column
<1>7. batch'[1].status = IF ses[r].batch[1].status \in Cancellable THEN "CANCELLED" ELSE batch[1].status
  BY <1>0, <1>2 DEF BatchRow
<1>8. Coherent(r, s) /\ ~Final(s) /\ Closing(s) /\ Harmless(s)
  BY <1>4, <1>5 DEF Coherent, Final, Closing, Harmless, RefreshPC, Over, TerminalJob
<1>9. ses'[Creator] = ses[Creator] /\ \A w \in Workers : ses'[w] = ses[w]
  BY <1>0, <1>5
<1>10. Roles' /\ Addressed'
  <2>1. Roles'
    BY <1>5, RolesKept DEF Tended, RefreshPC
  <2>. QED  BY <1>3, <1>9, <2>1 DEF Tended, Addressed
<1>11. \A q \in Processes : Coherent(q, ses'[q])
  <2>1. ASSUME NEW q \in Processes PROVE Coherent(q, ses'[q])
    BY <1>5, <1>8 DEF Tended
  <2>. QED  BY <2>1
<1>12. Reopened'
  <2>1. SUFFICES ASSUME ~BatchOver', Over(job') \/ \E q \in Processes : Final(ses'[q])
                 PROVE  /\ CancelSeen(job')
                        /\ \A q \in Processes :
                              /\ Harmless(ses'[q])
                              /\ Over(ses'[q].job) => Over(job') /\ ses'[q].job.status = "CANCELLED"
                              /\ ses'[q].pc = "save" /\ Over(ses'[q].new)
                                    => ses'[q].new.status = "CANCELLED"
    BY DEF Reopened
  <2>2. ses[r].batch[1].status \notin Cancellable /\ ~BatchOver
    BY <1>7, <2>1 DEF BatchOver, TerminalBatch
  <2>3. Over(job) \/ \E q \in Processes : Final(ses[q])
    BY <1>5, <1>6, <1>8, <2>1 DEF Over, TerminalJob
  <2>4. /\ CancelSeen(job)
        /\ \A q \in Processes :
              /\ Harmless(ses[q])
              /\ Over(ses[q].job) => Over(job) /\ ses[q].job.status = "CANCELLED"
              /\ ses[q].pc = "save" /\ Over(ses[q].new) => ses[q].new.status = "CANCELLED"
    BY <2>2, <2>3 DEF Tended, Reopened
  <2>5. job'.status = job.status
    BY <1>0, <1>3, <1>6, <2>2, <2>4 DEF Harmless
  <2>6. ASSUME NEW q \in Processes
        PROVE  /\ Harmless(ses'[q])
               /\ Over(ses'[q].job) => Over(job') /\ ses'[q].job.status = "CANCELLED"
               /\ ses'[q].pc = "save" /\ Over(ses'[q].new) => ses'[q].new.status = "CANCELLED"
    <3>1. CASE q = r
      BY <1>4, <1>5, <1>8, <3>1 DEF Over, TerminalJob
    <3>2. CASE q # r
      BY <1>5, <2>4, <2>5, <3>2 DEF Over
    <3>. QED  BY <3>1, <3>2
  <2>. QED  BY <2>4, <2>5, <2>6 DEF CancelSeen
<1>13. Closed'
  BY <1>0, <1>5, <1>8 DEF Closed
<1>14. ASSUME Waits(ses[Creator])
       PROVE  Unqueued' /\ \A p \in Processes : Harmless(ses'[p])
  <2>1. Unqueued /\ \A p \in Processes : Harmless(ses[p])
    BY <1>14 DEF Tended
  <2>2. Untouched => ses[r].job.status = "QUEUED"
    BY <1>3 DEF Untouched
  <2>3. CancelSeen(job')
    BY <1>6, <2>1, <2>2 DEF Unqueued, CancelSeen
  <2>4. Unqueued'
    BY <1>3, <1>7, <1>9, <2>1, <2>3 DEF Unqueued
  <2>. QED  BY <1>5, <1>8, <2>1, <2>4
<1>15. \A f \in {"module", "request", "publish"} : budget'[f] = 0
  BY <1>3 DEF Tended
<1>. QED  BY <1>9, <1>10, <1>11, <1>12, <1>13, <1>14, <1>15 DEF Tended

\* The creator's dispatch.
LEMMA CreatorTends ==
  ASSUME OneDispatch, TruthInv, Tended,
         DispatchLoad(Creator) \/ MarkQueued(Creator) \/ Publish(Creator)
  PROVE  Tended'
<1>. DEFINE r == Creator
<1>0. /\ r \in Requests /\ r \in Processes /\ r \notin Workers
      /\ Workers \subseteq Processes /\ Requests \subseteq Processes
      /\ ses[r] \in SessionShape(Place, Outcome) /\ EngineTypes(Place, Outcome)
      /\ Coherent(r, ses[r]) /\ batch \in [Batches -> BatchRow] /\ Batches = {1}
  BY EngineAssumption, OneBatch
     DEF Tended, TruthInv, Processes, EngineTypes, EngineAssumption, Requests, OneDispatch
<1>1. CASE DispatchLoad(r) \/ Publish(r)
  <2>1. PICK l, t :
          /\ l \in {"done", "mark"} /\ (DispatchLoad(r) \/ l = "done")
          /\ Become(r, [ses[r] EXCEPT !.todo = t, !.pc = l])
    <3>1. CASE DispatchLoad(r)
      BY <3>1 DEF DispatchLoad
    <3>2. CASE Publish(r)
      <4>1. Become(r, [ses[r] EXCEPT !.pc = "done"])
        BY <3>2 DEF Publish, Tended, Roles, Goto
      <4>2. [ses[r] EXCEPT !.pc = "done"] = [ses[r] EXCEPT !.todo = ses[r].todo, !.pc = "done"]
        BY <1>0 DEF SessionShape
      <4>. QED  BY <4>1, <4>2
    <3>. QED  BY <1>1, <3>1, <3>2
  <2>2. PICK s : s = [ses[r] EXCEPT !.todo = t, !.pc = l] /\ Become(r, s)
    BY <2>1
  <2>3. /\ s.pc = l /\ s.job = ses[r].job /\ s.new = ses[r].new /\ ses'[r] = s
        /\ \A q \in Processes : q # r => ses'[q] = ses[q]
    BY <1>0, <2>2 DEF SessionShape, Become, EngineTypes
  <2>4. /\ ses[r].pc \in {"dispatch", "publish"} /\ UNCHANGED <<job, batch, budget>>
        /\ DispatchLoad(r) => UNCHANGED queue /\ ses[r].pc = "dispatch"
        /\ ~DispatchLoad(r) => queue' = queue \cup {ses[r].msg} /\ ses[r].pc = "publish"
    BY <1>1 DEF DispatchLoad, Publish, dbVars, brokerVars
  <2>5. Serves(r)
    <3>1. BatchOver' <=> BatchOver
      BY <2>4 DEF BatchOver
    <3>2. ~Closing(ses[r])
      BY <2>4 DEF Closing, RefreshPC
    <3>3. Coherent(r, s) /\ s.pc \notin {"cancel", "save"}
      BY <1>0, <2>1, <2>3 DEF Coherent, RefreshPC
    <3>. QED  BY <2>3, <2>4, <3>1, <3>2, <3>3 DEF Serves
  <2>6. /\ \A q \in Processes : Coherent(q, ses'[q])
        /\ Reopened' /\ Closed'
    BY <1>0, <2>5, ServesTended
  <2>7. Roles'
    BY <1>0, <2>1, <2>3, RolesKept DEF Tended
  <2>8. Addressed'
    <3>1. ~DispatchLoad(r) => ses[r].msg.batch = 1
      BY <2>4 DEF Tended, Addressed, Carries
    <3>2. \A m \in queue' : m.batch = 1
      BY <2>4, <3>1 DEF Tended, Addressed
    <3>3. Carries(ses'[r]) /\ \A w \in Workers : Carries(ses'[w])
      BY <1>0, <2>1, <2>3 DEF Tended, Addressed, Carries
    <3>. QED  BY <3>2, <3>3 DEF Addressed
  <2>9. ASSUME Waits(ses'[r])
        PROVE  Unqueued' /\ \A p \in Processes : Harmless(ses'[p])
    <3>1. DispatchLoad(r) /\ Waits(ses[r]) /\ UNCHANGED queue
      BY <2>1, <2>3, <2>4, <2>9 DEF Waits
    <3>2. Unqueued /\ \A p \in Processes : Harmless(ses[p])
      BY <3>1 DEF Tended
    <3>3. Untouched => Untouched'
      <4>1. ASSUME Untouched, NEW q \in Requests
            PROVE  /\ ses'[q].pc \notin RefreshPC
                   /\ ses'[q].pc = "cancel" => ses'[q].job.status = "QUEUED"
        <5>1. CASE q = r
          BY <2>1, <2>3, <5>1 DEF RefreshPC
        <5>2. CASE q # r
          BY <1>0, <2>3, <4>1, <5>2 DEF Untouched
        <5>. QED  BY <5>1, <5>2
      <4>. QED  BY <2>4, <4>1 DEF Untouched
    <3>4. \A w \in Workers : ses'[w] = ses[w]
      BY <1>0, <2>3
    <3>5. Unqueued'
      BY <2>4, <3>1, <3>2, <3>3, <3>4 DEF Unqueued, CancelSeen
    <3>6. Harmless(ses'[r])
      BY <2>1, <2>3 DEF Harmless
    <3>. QED  BY <2>3, <3>2, <3>5, <3>6
  <2>. QED  BY <2>4, <2>6, <2>7, <2>8, <2>9 DEF Tended
<1>2. CASE MarkQueued(r)
  <2>1. PICK b : /\ b \in ses[r].todo
                 /\ batch' = [batch EXCEPT ![b] = [status |-> "QUEUED", task |-> nextTask]]
                 /\ Become(r, [ses[r] EXCEPT !.pc = "publish", !.todo = @ \ {b},
                                             !.msg = [batch |-> b, task |-> nextTask, tries |-> 0]])
    BY <1>2 DEF MarkQueued
  <2>2. ses[r].todo \subseteq {1} /\ b = 1
    BY <1>0, <2>1 DEF SessionShape
  <2>3. /\ ses'[r].pc = "publish" /\ ses'[r].job = ses[r].job /\ ses'[r].new = ses[r].new
        /\ ses'[r].todo = {} /\ ses'[r].msg.batch = 1
        /\ \A q \in Processes : q # r => ses'[q] = ses[q]
    BY <1>0, <2>1, <2>2 DEF SessionShape, Become, EngineTypes
  <2>4. ses[r].pc = "mark" /\ UNCHANGED <<job, queue, budget>>
    BY <1>2 DEF MarkQueued
  <2>5. batch'[1].status = "QUEUED"
    BY <1>0, <2>1, <2>2
  <2>6. Unqueued /\ \A p \in Processes : Harmless(ses[p])
    BY <2>4 DEF Tended, Waits
  <2>7. Coherent(r, ses'[r]) /\ Harmless(ses'[r]) /\ ~Final(ses'[r])
    BY <1>0, <2>3 DEF Coherent, Harmless, Final, RefreshPC
  <2>8. \A q \in Processes : Coherent(q, ses'[q])
    <3>1. ASSUME NEW q \in Processes PROVE Coherent(q, ses'[q])
      BY <2>3, <2>7 DEF Tended
    <3>. QED  BY <3>1
  <2>9. Roles'
    BY <1>0, <2>3, RolesKept DEF Tended
  <2>10. Addressed'
    <3>1. Carries(ses'[r]) /\ \A w \in Workers : Carries(ses'[w])
      BY <1>0, <2>3 DEF Tended, Addressed, Carries
    <3>. QED  BY <2>4, <3>1 DEF Tended, Addressed
  <2>11. Closed'
    BY <2>5 DEF Closed, BatchOver, TerminalBatch
  <2>12. Reopened'
    <3>1. ASSUME NEW q \in Processes
          PROVE  /\ Harmless(ses'[q]) /\ ~Over(ses'[q].job)
                 /\ ses'[q].pc = "save" =>
                       /\ Untouched => ~Over(ses'[q].new)
                       /\ Over(ses'[q].new) => ses'[q].new.status = "CANCELLED"
      <4>1. CASE q = r
        BY <1>0, <2>3, <2>7, <4>1 DEF Coherent
      <4>2. CASE q \in Workers
        <5>1. ses'[q] = ses[q]
          BY <1>0, <2>3, <4>2
        <5>. QED  BY <2>6, <4>2, <5>1 DEF Unqueued
      <4>3. CASE q \in Requests /\ q # r
        <5>1. ses'[q] = ses[q] /\ Coherent(q, ses[q])
          BY <2>3, <4>3 DEF Tended
        <5>2. ses[q].pc = "save" /\ Over(ses[q].new) => ses[q].new.status = "CANCELLED"
          BY <4>3, <5>1 DEF Coherent, RefreshPC, CancelSeen, Over, TerminalJob
        <5>3. Untouched => ses[q].pc # "save"
          BY <4>3 DEF Untouched, RefreshPC
        <5>4. ~Over(ses[q].job)
          BY <4>3, <5>1 DEF Coherent
        <5>. QED  BY <2>6, <5>1, <5>2, <5>3, <5>4
      <4>. QED  BY <4>1, <4>2, <4>3 DEF Processes
    <3>2. Untouched => ~Over(job)
      BY DEF Untouched, Over, TerminalJob
    <3>3. Over(job') \/ (\E q \in Processes : Final(ses'[q])) => CancelSeen(job)
      BY <2>4, <2>6, <3>1, <3>2 DEF Unqueued, Final
    <3>. QED  BY <2>4, <3>1, <3>3 DEF Reopened
  <2>13. ~Waits(ses'[r])
    BY <2>3 DEF Waits
  <2>. QED  BY <2>4, <2>8, <2>9, <2>10, <2>11, <2>12, <2>13 DEF Tended
<1>. QED  BY <1>1, <1>2

LEMMA RequestTends ==
  ASSUME OneDispatch, TruthInv, Tended, NEW r \in Requests, RequestNext(r)
  PROVE  Tended'
<1>1. /\ budget["module"] = 0 /\ budget["request"] = 0 /\ budget["publish"] = 0
      /\ Retriers = {} /\ Creator \notin Cancellers
  BY EngineAssumption DEF Tended, OneDispatch, EngineAssumption
<1>2. ~ModuleDisabled(r) /\ ~PublishFails(r) /\ ~RequestCrash(r) /\ ~RetryLoad(r)
  BY <1>1 DEF ModuleDisabled, PublishFails, RequestCrash, RetryLoad, Spend
<1>3. CASE r = Creator
  <2>1. ses[r].pc \in {"dispatch", "mark", "publish", "done"}
    BY <1>3 DEF Tended, Roles
  <2>2. DispatchLoad(r) \/ MarkQueued(r) \/ Publish(r)
    BY <1>1, <1>2, <1>3, <2>1
       DEF RequestNext, RequestProgress, DispatchFailed, CancelCommit, RefreshProgress, CountItems,
           CountBatches, SaveProgress, Revoke, RetryRequeue, CancelLoad
  <2>. QED  BY <1>3, <2>2, CreatorTends
<1>4. CASE r # Creator
  <2>1. ses[r].pc \in {"idle", "cancel", "revoke", "done"} \cup RefreshPC
    BY <1>4 DEF Tended, Roles
  <2>2. RefreshProgress(r) \/ Revoke(r) \/ CancelLoad(r) \/ CancelCommit(r)
    BY <1>2, <2>1
       DEF RequestNext, RequestProgress, DispatchLoad, MarkQueued, Publish, DispatchFailed,
           RetryRequeue, RefreshPC
  <2>. QED  BY <1>4, <2>2, CancellerTends, CommitTends
<1>. QED  BY <1>3, <1>4

LEMMA WorkerTends ==
  ASSUME OneDispatch, CloseInv, ~crashed, NEW w \in Workers,
         WorkerProgress(w) \/ AbortTask(w) \/ Discard(w)
  PROVE  Tended'
<1>0. /\ w \in Processes /\ w \notin Requests /\ Creator \in Requests /\ Creator \in Processes
      /\ Requests \subseteq Processes /\ Workers \subseteq Processes
      /\ EngineTypes(Place, Outcome) /\ Tended /\ TruthInv
  BY EngineAssumption
     DEF CloseInv, TruthInv, Processes, EngineTypes, EngineAssumption, Requests
<1>1. Serves(w) /\ ~Waits(ses[Creator]) /\ Passes(w)
  BY WorkerServes
<1>2. \A q \in Processes : q # w => ses'[q] = ses[q]
  BY <1>1 DEF Serves
<1>3. ses'[Creator] = ses[Creator] /\ \A r \in Requests : ses'[r] = ses[r]
  BY <1>0, <1>2
<1>4. Roles'
  BY <1>0, <1>3 DEF Tended, Roles
<1>5. Addressed'
  <2>1. \A q \in Workers \cup {Creator} : Carries(ses'[q])
    BY <1>0, <1>1, <1>2 DEF Tended, Addressed, Passes
  <2>. QED  BY <1>1, <2>1 DEF Addressed, Passes
<1>6. /\ \A q \in Processes : Coherent(q, ses'[q])
      /\ Reopened' /\ Closed'
  BY <1>0, <1>1, ServesTended
<1>7. \A f \in {"module", "request", "publish"} : budget'[f] = 0
  <2>1. CASE AbortTask(w)
    BY <1>0, <2>1, SpendType DEF AbortTask, Tended, Faults
  <2>2. CASE ~AbortTask(w)
    <3>1. UNCHANGED budget
      BY <2>2 DEF WorkerProgress, Discard, Receive, Claim, StartBatch, CheckCancel, StartItem,
                  Execute, RecordItem, FinishBatch, CancelPending, Republish, FailBatch,
                  RefreshRun, RefreshProgress, CountItems, CountBatches, SaveProgress, Finish, Ack
    <3>. QED  BY <1>0, <3>1 DEF Tended
  <2>. QED  BY <2>1, <2>2
<1>. QED  BY <1>1, <1>3, <1>4, <1>5, <1>6, <1>7 DEF Tended

LEMMA CloseInit == OneDispatch /\ Init => CloseInv
<1>. SUFFICES ASSUME OneDispatch, Init PROVE CloseInv
  OBVIOUS
<1>1. /\ \A p \in Processes : ses[p] = Idle(IF p = Creator THEN "dispatch" ELSE "idle")
      /\ budget \in Budgets /\ job = [NoRow EXCEPT !.status = "QUEUED"] /\ queue = {}
      /\ batch = [b \in Batches |-> [status |-> "PENDING", task |-> NoTask]]
  BY DEF Init, EngineInit
<1>2. \A l : Idle(l).pc = l /\ Idle(l).job.status = "EXPIRED"
  BY DEF Idle, NoRow
<1>3. job.status = "QUEUED" /\ batch[1].status = "PENDING"
  BY <1>1, OneBatch DEF NoRow, OneDispatch
<1>4. ASSUME NEW p \in Processes
      PROVE  /\ ses[p].pc = (IF p = Creator THEN "dispatch" ELSE "idle")
             /\ ~Over(ses[p].job) /\ ~Final(ses[p]) /\ Harmless(ses[p]) /\ Coherent(p, ses[p])
             /\ Carries(ses[p])
  BY <1>1, <1>2 DEF Over, TerminalJob, Final, Harmless, Coherent, RefreshPC, Carries
<1>5. Creator \in Processes /\ Requests \subseteq Processes /\ Workers \subseteq Processes
      /\ Creator \notin Workers
  BY EngineAssumption DEF Processes, Requests, EngineAssumption
<1>6. Roles /\ Addressed
  BY <1>1, <1>4, <1>5 DEF Roles, Addressed
<1>7. Untouched
  BY <1>3, <1>4, <1>5 DEF Untouched, RefreshPC
<1>8. Unqueued
  BY <1>1, <1>3, <1>4, <1>5, <1>7 DEF Unqueued
<1>9. Reopened /\ Closed
  BY <1>3, <1>4 DEF Reopened, Closed, BatchOver, TerminalBatch, Over, TerminalJob
<1>. QED
  BY <1>1, <1>4, <1>6, <1>8, <1>9, TruthInit DEF CloseInv, Tended, OneDispatch

LEMMA CloseStep == OneDispatch /\ CloseInv /\ [Next]_vars => CloseInv'
<1>. SUFFICES ASSUME OneDispatch, CloseInv, [Next]_vars PROVE CloseInv'
  OBVIOUS
<1>1. TruthInv'
  BY TruthStep DEF CloseInv
<1>2. CASE UNCHANGED vars
  <2>1. Tended => Tended'
    BY <1>2 DEF vars, engineVars, Tended, Roles, Addressed, Unqueued, Untouched, Reopened, Closed,
                BatchOver
  <2>. QED  BY <1>1, <1>2, <2>1 DEF CloseInv, vars
<1>3. ASSUME NEW w \in Workers, (WorkerProgress(w) /\ UNCHANGED crashed) \/ WorkerFault(w)
      PROVE  CloseInv'
  <2>1. CASE WorkerCrash(w) /\ crashed' = TRUE
    BY <1>1, <2>1 DEF CloseInv
  <2>2. CASE (WorkerProgress(w) \/ AbortTask(w) \/ Discard(w)) /\ UNCHANGED crashed
    BY <1>1, <2>2, WorkerTends DEF CloseInv
  <2>. QED  BY <1>3, <2>1, <2>2 DEF WorkerFault
<1>4. ASSUME NEW r \in Requests, RequestNext(r), UNCHANGED <<outside, crashed>>
      PROVE  CloseInv'
  BY <1>1, <1>4, RequestTends DEF CloseInv
<1>. QED  BY <1>2, <1>3, <1>4 DEF Next

LEMMA CloseIsEnough == ASSUME OneDispatch PROVE CloseInv => LastBatchClosesJob
<1>. SUFFICES ASSUME CloseInv, Resting, ~crashed, \A b \in Batches : batch[b].status \in TerminalBatch
              PROVE  job.status \in TerminalJob
  BY DEF LastBatchClosesJob
<1>1. BatchOver
  BY OneBatch DEF OneDispatch, BatchOver
<1>2. \A p \in Processes : ~Closing(ses[p])
  BY DEF Resting, Closing, RefreshPC
<1>. QED  BY <1>1, <1>2 DEF CloseInv, Tended, Closed, Over

\* A job of one batch, dispatched once, by a broker and an API that do not fail:
\* with nothing left to run and no worker lost, the job is final once its batch
\* is, whatever the cancellations, the aborted tasks and the retried mails did.
THEOREM LastBatchCloses == ASSUME OneDispatch PROVE Spec => []LastBatchClosesJob
<1>1. Init => CloseInv
  BY CloseInit
<1>2. CloseInv /\ [Next]_vars => CloseInv'
  BY CloseStep
<1>3. CloseInv => LastBatchClosesJob
  BY CloseIsEnough
<1>. QED  BY <1>1, <1>2, <1>3, PTL DEF Spec
=============================================================================
