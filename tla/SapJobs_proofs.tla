---------------------------- MODULE SapJobs_proofs ----------------------------
(***************************************************************************)
(* Proofs about SapJobs, for every number of batches, items, workers,      *)
(* requests, retries and faults.                                           *)
(***************************************************************************)
EXTENDS SapJobs, JobEngine_proofs

Place == WorkerPC \cup RequestPC \cup RefreshPC

\* The places where no item is in hand.
PC == Place \ {"call", "record"}

LEMMA EngineOK ==
  ASSUME TypeOK
  PROVE  EngineTypes(Place, Outcome) /\ Places(Place, Outcome)
<1>1. ses \in [Processes -> SessionShape(Place, Outcome)]
  BY DEF TypeOK, Session, SessionRow, SessionShape, Place
<1>. QED  BY <1>1 DEF TypeOK, EngineTypes, Places, Place, WorkerPC, Outcome

LEMMA IdleSession ==
  ASSUME NEW l \in PC
  PROVE  Idle(l) \in Session
<1>1. Idle(l) \in SessionShape(Place, Outcome) /\ Idle(l).pc = l
  BY IdleType DEF PC, Outcome
<1>. QED  BY <1>1 DEF Session, SessionRow, SessionShape, Place, PC

\* A process that moves to a well-formed session leaves all of them so.
LEMMA MoveType ==
  ASSUME TypeOK, NEW p, NEW s \in Session, Become(p, s)
  PROVE  ses' \in [Processes -> Session]
  BY DEF TypeOK, Become

LEMMA GoType ==
  ASSUME TypeOK, NEW p \in Processes, NEW l \in PC, Goto(p, l)
  PROVE  ses' \in [Processes -> Session]
<1>1. ses[p] \in Session
  BY DEF TypeOK
<1>2. [ses[p] EXCEPT !.pc = l] \in Session
  BY <1>1 DEF Session, SessionRow, PC, Place
<1>. QED  BY <1>2, MoveType DEF Goto

LEMMA BudgetType ==
  ASSUME TypeOK, NEW f, Spend(f)
  PROVE  budget' \in [Faults -> Nat]
  BY EngineOK, SpendType

LEMMA LoadedType ==
  ASSUME TypeOK, NEW s \in Session, NEW row \in JobRow
  PROVE  Loaded(s, row) \in Session
<1>1. s \in SessionShape(Place, Outcome)
  BY DEF Session, SessionRow, SessionShape, Place
<1>2. /\ Loaded(s, row) \in SessionShape(Place, Outcome)
      /\ Loaded(s, row).pc = s.pc /\ Loaded(s, row).cur = s.cur
  <2>1. EngineTypes(Place, Outcome)
    BY EngineOK
  <2>. HIDE DEF Place, Outcome
  <2>. QED  BY <1>1, <2>1, LoadedShape
<1>. QED  BY <1>2 DEF Session, SessionRow, SessionShape, Place

LEMMA RememberType ==
  ASSUME TypeOK, NEW w \in Processes, NEW S, NEW s \in ItemStatus
  PROVE  Remember(w, S, s) \in [Items -> ItemStatus \cup {"EXPIRED"}]
  BY EngineOK, RememberShape

LEMMA SetBatchStatusType ==
  ASSUME TypeOK, NEW w, NEW s \in BatchStatus, SetBatchStatus(w, s)
  PROVE  batch' \in [Batches -> BatchRow]
  BY EngineOK, BatchStatusSet

-----------------------------------------------------------------------------
\* A step of the engine that takes no item in hand keeps the types.
LEMMA EngineStepType ==
  ASSUME TypeOK, NEW p \in Processes, EngineTypes(Place, Outcome)', UNCHANGED history,
         ses'[p].pc \in PC, \A q \in Processes : q # p => ses'[q] = ses[q]
  PROVE  TypeOK'
<1>1. ses' \in [Processes -> Session]
  <2>1. ASSUME NEW q \in Processes PROVE ses'[q] \in Session
    <3>1. ses'[q] \in SessionRow
      BY DEF EngineTypes, SessionShape, SessionRow, Place
    <3>. QED  BY <3>1 DEF TypeOK, Session, PC
  <2>2. ses' = [q \in Processes |-> ses'[q]]
    BY DEF EngineTypes
  <2>. QED  BY <2>1, <2>2
<1>. QED  BY <1>1 DEF TypeOK, EngineTypes, history

LEMMA RefreshStepType ==
  ASSUME TypeOK, NEW p \in Processes, RefreshProgress(p), UNCHANGED history
  PROVE  TypeOK'
<1>1. /\ EngineTypes(Place, Outcome)' /\ ses'[p].pc \in PC
      /\ \A q \in Processes : q # p => ses'[q] = ses[q]
  BY EngineOK, RefreshType DEF PC, Place, RefreshPC, WorkerPC, RequestPC
<1>. QED  BY <1>1, EngineStepType

\* Every step of an HTTP request keeps the types.
LEMMA RequestStepType ==
  ASSUME TypeOK, NEW r \in Requests, RequestNext(r), UNCHANGED history
  PROVE  TypeOK'
<1>1. /\ EngineTypes(Place, Outcome)' /\ ses'[r].pc \in PC
      /\ \A q \in Processes : q # r => ses'[q] = ses[q]
  BY EngineOK, RequestType, RequestMoves DEF PC, Place, RefreshPC, RequestPC
<1>. QED  BY <1>1, EngineStepType DEF Processes

-----------------------------------------------------------------------------
\* Every step of a worker keeps the types.
LEMMA WorkerProgressType ==
  ASSUME TypeOK, NEW w \in Workers, WorkerProgress(w)
  PROVE  TypeOK'
<1>. USE DEF TypeOK, dbVars, brokerVars, history
<1>0. w \in Processes /\ ses[w] \in Session
  BY DEF Processes
<1>1. CASE Receive(w)
  <2>1. PICK m \in queue :
          /\ queue' = queue \ {m}
          /\ \/ UNCHANGED ses
             \/ Become(w, Loaded([Idle("loaded") EXCEPT !.msg = m], job))
    BY <1>1 DEF Receive
  <2>2. Idle("loaded") \in Session
    BY IdleSession DEF PC, Place, WorkerPC
  <2>3. [Idle("loaded") EXCEPT !.msg = m] \in Session
    BY <2>2 DEF Session, SessionRow
  <2>4. Loaded([Idle("loaded") EXCEPT !.msg = m], job) \in Session
    BY <2>3, LoadedType
  <2>5. ses' \in [Processes -> Session]
    BY <2>1, <2>4, MoveType
  <2>. QED  BY <1>1, <2>1, <2>5 DEF Receive
<1>2. CASE MarkUncertain(w)
  <2>. DEFINE kept == Remember(w, Mine(w, "RUNNING"), UncertainVerdict)
              l == IF CancelSeen(ses[w].job) THEN "cancelPending" ELSE "claim"
  <2>1. item' \in [Items -> ItemStatus]
    BY <1>2, SetItemsType DEF MarkUncertain, UncertainVerdict, ItemStatus
  <2>2. kept \in [Items -> ItemStatus \cup {"EXPIRED"}]
    BY <1>0, RememberType DEF UncertainVerdict, ItemStatus
  <2>3. [ses[w] EXCEPT !.item = kept, !.pc = l] \in Session
    <3>. HIDE DEF kept
    <3>. QED  BY <1>0, <2>2 DEF Session, SessionRow, WorkerPC
  <2>4. ses' \in [Processes -> Session]
    BY <1>2, <2>3, MoveType DEF MarkUncertain
  <2>. QED  BY <1>2, <2>1, <2>4 DEF MarkUncertain
<1>3. CASE Claim(w)
  <2>1. batch' \in [Batches -> BatchRow]
    <3>1. \/ UNCHANGED batch
          \/ batch' = [batch EXCEPT ![ses[w].msg.batch].status = "RUNNING"]
      BY <1>3 DEF Claim
    <3>2. ASSUME NEW b \in Batches
          PROVE  [batch EXCEPT ![b].status = "RUNNING"] \in [Batches -> BatchRow]
      <4>1. batch[b] \in BatchRow /\ "RUNNING" \in BatchStatus
        BY DEF BatchStatus
      <4>2. [batch[b] EXCEPT !.status = "RUNNING"] \in BatchRow
        BY <4>1 DEF BatchRow
      <4>. QED  BY <4>2
    <3>3. CASE ses[w].msg.batch \in Batches
      BY <3>1, <3>2, <3>3
    <3>4. CASE ses[w].msg.batch \notin Batches
      <4>1. [batch EXCEPT ![ses[w].msg.batch].status = "RUNNING"] = batch
        BY <3>4
      <4>. QED  BY <3>1, <4>1
    <3>. QED  BY <3>3, <3>4
  <2>2. job' \in JobRow
    <3>1. UNCHANGED job \/ job' = [job EXCEPT !.status = ClaimedStatus(job.status)]
      BY <1>3 DEF Claim
    <3>2. ClaimedStatus(job.status) \in JobStatus \cup {"EXPIRED"}
      BY DEF ClaimedStatus, JobRow, JobStatus
    <3>. QED  BY <3>1, <3>2 DEF JobRow
  <2>. DEFINE o == IF CancelSeen(job) THEN "notStarted" ELSE "started"
  <2>3. [ses[w] EXCEPT !.pc = "claimed", !.out = o] \in Session
    <3>1. ses[w] \in SessionRow /\ "claimed" \in PC /\ o \in Outcome
      BY <1>0 DEF Session, PC, Place, WorkerPC, Outcome
    <3>. HIDE DEF o
    <3>2. [ses[w] EXCEPT !.pc = "claimed", !.out = o] \in SessionRow
      BY <3>1 DEF SessionRow, PC, Place
    <3>3. [ses[w] EXCEPT !.pc = "claimed", !.out = o].pc = "claimed"
      BY <3>1 DEF SessionRow
    <3>. QED  BY <3>2, <3>3 DEF Session
  <2>4. ses' \in [Processes -> Session]
    BY <1>0, <1>3, <2>3, MoveType, GoType DEF Claim, PC, Place, WorkerPC
  <2>. QED  BY <1>3, <2>1, <2>2, <2>4 DEF Claim
<1>4. CASE StartBatch(w)
  <2>. DEFINE s == Loaded(ses[w], job)
              l == IF ses[w].out = "notStarted" \/ CancelSeen(job)
                      THEN "cancelPending" ELSE "loop"
  <2>1. s \in Session
    BY <1>0, LoadedType
  <2>2. [s EXCEPT !.pc = l, !.out = "none"] \in Session
    <3>. HIDE DEF s
    <3>1. s \in SessionRow /\ l \in PC /\ "none" \in Outcome
      BY <2>1 DEF Session, PC, Place, WorkerPC, Outcome
    <3>. HIDE DEF l
    <3>2. [s EXCEPT !.pc = l, !.out = "none"] \in SessionRow
      BY <3>1 DEF SessionRow, PC, Place
    <3>3. [s EXCEPT !.pc = l, !.out = "none"].pc = l
      BY <3>1 DEF SessionRow
    <3>. QED  BY <3>1, <3>2, <3>3 DEF Session, PC
  <2>3. ses' \in [Processes -> Session]
    BY <1>4, <2>2, MoveType DEF StartBatch
  <2>. QED  BY <1>4, <2>3 DEF StartBatch
<1>5. CASE CheckCancel(w)
  <2>. DEFINE row == [ses[w].job EXCEPT !.status = StatusBeforeItem(w)]
              l == IF CancelSeen(row) THEN "cancelPending" ELSE "start"
  <2>1. row \in JobRow
    BY <1>0 DEF Session, SessionRow, JobRow, StatusBeforeItem
  <2>2. [ses[w] EXCEPT !.job = row, !.pc = l] \in Session
    <3>. HIDE DEF row
    <3>. QED  BY <1>0, <2>1 DEF Session, SessionRow, WorkerPC
  <2>3. ses' \in [Processes -> Session]
    BY <1>5, <2>2, MoveType DEF CheckCancel
  <2>. QED  BY <1>5, <2>3 DEF CheckCancel
<1>6. CASE StartItem(w)
  <2>1. PICK i \in Mine(w, "PENDING") :
          /\ item' = SetItems({i}, "RUNNING")
          /\ Become(w, [ses[w] EXCEPT !.pc = "call", !.cur = i,
                                      !.item = Remember(w, {i}, "RUNNING")])
    BY <1>6 DEF StartItem
  <2>2. i \in Items /\ item' \in [Items -> ItemStatus]
    BY <2>1, SetItemsType DEF Mine, ItemStatus
  <2>. DEFINE kept == Remember(w, {i}, "RUNNING")
  <2>3. kept \in [Items -> ItemStatus \cup {"EXPIRED"}]
    BY <1>0, RememberType DEF ItemStatus
  <2>4. [ses[w] EXCEPT !.pc = "call", !.cur = i, !.item = kept] \in Session
    <3>. HIDE DEF kept
    <3>. QED  BY <1>0, <2>2, <2>3 DEF Session, SessionRow, WorkerPC
  <2>5. ses' \in [Processes -> Session]
    BY <2>1, <2>4, MoveType
  <2>. QED  BY <1>6, <2>2, <2>5 DEF StartItem
<1>7. CASE SapCall(w)
  <2>. DEFINE i == ses[w].cur
  <2>1. PICK o \in {"ok", "rejected", "lost", "auth"} :
          /\ IF o = "lost" THEN Spend("conn") ELSE UNCHANGED budget
          /\ effected' \in {effected \cup {i}} \cup (IF o = "ok" THEN {} ELSE {effected})
          /\ calls' = [calls EXCEPT ![i] = @ + 1]
          /\ drops' = IF o = "lost" THEN [drops EXCEPT ![i] = @ + 1] ELSE drops
          /\ Become(w, [ses[w] EXCEPT !.pc = "record", !.out = o])
    BY <1>7 DEF SapCall
  <2>2. budget' \in [Faults -> Nat]
    BY <2>1, BudgetType
  <2>3. i \in Items
    BY <1>0, <1>7 DEF SapCall, Session
  <2>4. /\ effected' \subseteq Items
        /\ calls' \in [Items -> Nat]
        /\ drops' \in [Items -> Nat]
        /\ late' \in [Workers -> Nat]
    <3>1. calls[i] + 1 \in Nat /\ drops[i] + 1 \in Nat
      BY <2>3
    <3>2. late' \in [Workers -> Nat]
      <4>1. late[w] + 1 \in Nat /\ late \in [Workers -> Nat]
        BY <1>0
      <4>2. late' = IF job.cancelReq THEN [late EXCEPT ![w] = late[w] + 1] ELSE late
        BY <1>7 DEF SapCall
      <4>. QED  BY <4>1, <4>2
    <3>. HIDE DEF i
    <3>. QED  BY <2>1, <2>3, <3>1, <3>2
  <2>5. [ses[w] EXCEPT !.pc = "record", !.out = o] \in Session
    BY <1>0, <2>3 DEF Session, SessionRow, WorkerPC, Outcome
  <2>6. ses' \in [Processes -> Session]
    BY <2>1, <2>5, MoveType
  <2>. QED  BY <1>7, <2>2, <2>4, <2>6 DEF SapCall
<1>8. CASE ItemDone(w)
  <2>. DEFINE v == ItemVerdict(ses[w].out)
              i == ses[w].cur
              kept == Remember(w, {i}, v)
  <2>1. v \in ItemStatus
    BY DEF ItemVerdict, ItemStatus
  <2>2. RecordResult(w, v)
    BY <1>8 DEF ItemDone
  <2>3. item' \in [Items -> ItemStatus]
    BY <2>1, <2>2, SetItemsType DEF RecordResult
  <2>4. job' \in JobRow
    <3>. HIDE DEF v
    <3>1. PICK a \in Nat, b \in Nat, c \in Nat :
            job' = [job EXCEPT !.proc = a, !.succ = b, !.fail = c]
      <4>1. job.proc + 1 \in Nat /\ job.succ + 1 \in Nat /\ job.fail + 1 \in Nat
        BY DEF JobRow
      <4>2. /\ (IF v = "SUCCEEDED" THEN job.succ + 1 ELSE job.succ) \in Nat
            /\ (IF v = "FAILED" THEN job.fail + 1 ELSE job.fail) \in Nat
        BY DEF JobRow
      <4>3. job' = [job EXCEPT
               !.proc = job.proc + 1,
               !.succ = IF v = "SUCCEEDED" THEN job.succ + 1 ELSE job.succ,
               !.fail = IF v = "FAILED" THEN job.fail + 1 ELSE job.fail]
        BY <2>2 DEF RecordResult
      <4>. QED  BY <4>1, <4>2, <4>3, Zenon
    <3>. QED  BY <3>1 DEF JobRow
  <2>5. kept \in [Items -> ItemStatus \cup {"EXPIRED"}]
    BY <1>0, <2>1, RememberType
  <2>6. [ses[w] EXCEPT !.pc = "loop", !.cur = None, !.out = "none", !.item = kept] \in Session
    <3>. HIDE DEF kept
    <3>. QED  BY <1>0, <2>5 DEF Session, SessionRow, WorkerPC, Outcome
  <2>7. ses' \in [Processes -> Session]
    BY <2>2, <2>6, MoveType DEF RecordResult
  <2>. QED  BY <1>8, <2>3, <2>4, <2>7 DEF ItemDone
<1>9. CASE ItemLost(w)
  <2>1. item' \in [Items -> ItemStatus]
    BY <1>9, SetItemsType DEF ItemLost, ItemStatus
  <2>2. [ses[w] EXCEPT !.pc = "connLost", !.cur = None, !.out = "none"] \in Session
    BY <1>0 DEF Session, SessionRow, WorkerPC, Outcome
  <2>3. ses' \in [Processes -> Session]
    BY <1>9, <2>2, MoveType DEF ItemLost
  <2>. QED  BY <1>9, <2>1, <2>3 DEF ItemLost
<1>10. CASE AuthError(w)
  <2>1. [ses[w] EXCEPT !.pc = "authFailed", !.cur = None, !.out = "none"] \in Session
    BY <1>0 DEF Session, SessionRow, WorkerPC, Outcome
  <2>2. ses' \in [Processes -> Session]
    BY <1>10, <2>1, MoveType DEF AuthError
  <2>. QED  BY <1>10, <2>2 DEF AuthError
<1>11. CASE FailPending(w)
  <2>. DEFINE kept == Remember(w, Unfinished(w), "FAILED")
              l == IF ses[w].pc = "authFailed" THEN "loop" ELSE "failBatch"
  <2>1. item' \in [Items -> ItemStatus]
    BY <1>11, SetItemsType DEF FailPending, ItemStatus
  <2>2. kept \in [Items -> ItemStatus \cup {"EXPIRED"}]
    BY <1>0, RememberType DEF ItemStatus
  <2>3. [ses[w] EXCEPT !.item = kept, !.pc = l] \in Session
    <3>. HIDE DEF kept
    <3>. QED  BY <1>0, <2>2 DEF Session, SessionRow, WorkerPC
  <2>4. ses' \in [Processes -> Session]
    BY <1>11, <2>3, MoveType DEF FailPending
  <2>. QED  BY <1>11, <2>1, <2>4 DEF FailPending
<1>12. CASE FinishBatch(w)
  <2>1. batch' \in [Batches -> BatchRow]
    BY <1>12, SetBatchStatusType DEF FinishBatch, BatchOutcome, BatchStatus
  <2>2. ses' \in [Processes -> Session]
    BY <1>0, <1>12, GoType DEF FinishBatch, PC, Place, RefreshPC
  <2>. QED  BY <1>12, <2>1, <2>2 DEF FinishBatch
<1>13. CASE CancelPending(w)
  <2>. DEFINE kept == Remember(w, Mine(w, "PENDING"), "CANCELLED")
  <2>1. item' \in [Items -> ItemStatus]
    BY <1>13, SetItemsType DEF CancelPending, ItemStatus
  <2>2. batch' \in [Batches -> BatchRow]
    BY <1>13, SetBatchStatusType DEF CancelPending, BatchStatus
  <2>3. kept \in [Items -> ItemStatus \cup {"EXPIRED"}]
    BY <1>0, RememberType DEF ItemStatus
  <2>4. [ses[w] EXCEPT !.pc = "count", !.item = kept] \in Session
    <3>. HIDE DEF kept
    <3>. QED  BY <1>0, <2>3 DEF Session, SessionRow, RefreshPC
  <2>5. ses' \in [Processes -> Session]
    BY <1>13, <2>4, MoveType DEF CancelPending
  <2>. QED  BY <1>13, <2>1, <2>2, <2>5 DEF CancelPending
<1>14. CASE ConnectionLost(w)
  <2>. DEFINE s == Loaded(ses[w], NoRow)
              l == IF ses[w].msg.tries >= MaxRetries THEN "failing" ELSE "retrying"
  <2>1. s \in Session
    BY <1>0, NoRowType, LoadedType
  <2>2. [s EXCEPT !.pc = l] \in Session
    <3>1. l \in {"failing", "retrying"}
      OBVIOUS
    <3>. HIDE DEF s, l
    <3>. QED  BY <2>1, <3>1 DEF Session, SessionRow, WorkerPC
  <2>3. ses' \in [Processes -> Session]
    BY <1>14, <2>2, MoveType DEF ConnectionLost
  <2>. QED  BY <1>14, <2>3 DEF ConnectionLost
<1>15. CASE MarkRetrying(w)
  <2>1. item' \in [Items -> ItemStatus]
    BY <1>15, SetItemsType DEF MarkRetrying, ItemStatus
  <2>2. batch' \in [Batches -> BatchRow]
    BY <1>15, SetBatchStatusType DEF MarkRetrying, BatchStatus
  <2>3. ses' \in [Processes -> Session]
    BY <1>0, <1>15, GoType DEF MarkRetrying, PC, Place, WorkerPC
  <2>. QED  BY <1>15, <2>1, <2>2, <2>3 DEF MarkRetrying
<1>16. CASE Republish(w)
  <2>1. [ses[w].msg EXCEPT !.tries = @ + 1] \in Message
    <3>1. ses[w].msg \in Message /\ ses[w].msg.tries + 1 \in Nat
      BY <1>0 DEF Session, SessionRow, Message
    <3>. QED  BY <3>1 DEF Message
  <2>2. queue' \subseteq Message
    BY <1>16, <2>1 DEF Republish
  <2>3. ses' \in [Processes -> Session]
    BY <1>0, <1>16, GoType DEF Republish, PC, Place, WorkerPC
  <2>. QED  BY <1>16, <2>2, <2>3 DEF Republish
<1>17. CASE MarkFailedSkipped(w)
  <2>1. ses' \in [Processes -> Session]
    BY <1>0, <1>17, GoType DEF MarkFailedSkipped, PC, Place, WorkerPC
  <2>. QED  BY <1>17, <2>1 DEF MarkFailedSkipped
<1>18. CASE FailBatch(w)
  <2>1. batch' \in [Batches -> BatchRow]
    BY <1>18, SetBatchStatusType DEF FailBatch, BatchStatus
  <2>2. ses' \in [Processes -> Session]
    BY <1>0, <1>18, GoType DEF FailBatch, PC, Place, RefreshPC
  <2>. QED  BY <1>18, <2>1, <2>2 DEF FailBatch
<1>19. CASE RefreshProgress(w) /\ UNCHANGED history
  BY <1>0, <1>19, RefreshStepType
<1>20. CASE Ack(w) /\ UNCHANGED history
  <2>1. ses' \in [Processes -> Session]
    BY <1>20, IdleSession, MoveType DEF Ack, PC, Place, WorkerPC
  <2>. QED  BY <1>20, <2>1 DEF Ack
<1>. QED
  BY <1>1, <1>2, <1>3, <1>4, <1>5, <1>6, <1>7, <1>8, <1>9, <1>10, <1>11, <1>12,
     <1>13, <1>14, <1>15, <1>16, <1>17, <1>18, <1>19, <1>20
  DEF WorkerProgress

LEMMA WorkerFaultType ==
  ASSUME TypeOK, NEW w \in Workers, WorkerFault(w)
  PROVE  TypeOK'
<1>. USE DEF TypeOK, dbVars, brokerVars, history
<1>0. w \in Processes /\ ses[w] \in Session
  BY DEF Processes
<1>1. CASE AbortTask(w)
  <2>1. budget' \in [Faults -> Nat]
    BY <1>1, BudgetType DEF AbortTask
  <2>2. [ses[w] EXCEPT !.pc = "failing", !.cur = None, !.out = "none"] \in Session
    BY <1>0 DEF Session, SessionRow, WorkerPC, Outcome
  <2>3. ses' \in [Processes -> Session]
    BY <1>1, <2>2, MoveType DEF AbortTask
  <2>. QED  BY <1>1, <2>1, <2>3 DEF AbortTask
<1>2. CASE WorkerCrash(w) /\ UNCHANGED history
  <2>1. budget' \in [Faults -> Nat]
    BY <1>2, BudgetType DEF WorkerCrash
  <2>2. queue' \subseteq Message
    BY <1>0, <1>2 DEF WorkerCrash, Session, SessionRow
  <2>3. ses' \in [Processes -> Session]
    BY <1>2, IdleSession, MoveType DEF WorkerCrash, PC, Place, WorkerPC
  <2>. QED  BY <1>2, <2>1, <2>2, <2>3 DEF WorkerCrash
<1>3. CASE Discard(w) /\ UNCHANGED history
  BY <1>3 DEF Discard
<1>. QED  BY <1>1, <1>2, <1>3 DEF WorkerFault

LEMMA InitTypeOK == Init => TypeOK
<1>. SUFFICES ASSUME Init PROVE TypeOK
  OBVIOUS
<1>1. job \in JobRow
  BY DEF Init, EngineInit, NoRow, JobRow, JobStatus
<1>2. batch \in [Batches -> BatchRow]
  BY DEF Init, EngineInit, BatchRow, BatchStatus, NoTask
<1>3. ses \in [Processes -> Session]
  BY IdleSession DEF Init, EngineInit, PC, Place, RequestPC
<1>. QED
  BY <1>1, <1>2, <1>3, EngineAssumption
  DEF TypeOK, Init, EngineInit, EngineAssumption, ItemStatus

LEMMA StepTypeOK == TypeOK /\ [Next]_vars => TypeOK'
<1>. SUFFICES ASSUME TypeOK, [Next]_vars PROVE TypeOK'
  OBVIOUS
<1>1. CASE UNCHANGED vars
  BY <1>1 DEF vars, engineVars, history, TypeOK
<1>2. ASSUME NEW w \in Workers, WorkerProgress(w) \/ WorkerFault(w)
      PROVE  TypeOK'
  BY <1>2, WorkerProgressType, WorkerFaultType
<1>3. ASSUME NEW r \in Requests, RequestNext(r), UNCHANGED history
      PROVE  TypeOK'
  BY <1>3, RequestStepType
<1>. QED  BY <1>1, <1>2, <1>3 DEF Next

\* Whatever the requests, workers, faults and their interleaving, every row,
\* message and session keeps its type; a worker that calls SAP or records a
\* result always has an item of the job in hand.
THEOREM TypeCorrect == Spec => []TypeOK
  BY InitTypeOK, StepTypeOK, PTL DEF Spec

-----------------------------------------------------------------------------
(***************************************************************************)
(* NoPhantomSuccess is not inductive by itself: a worker that has an "ok"  *)
(* in memory is about to record a success, so the invariant must also say  *)
(* that this "ok" belongs to a call SAP did act on.                        *)
(***************************************************************************)
Witnessed ==
    \A p \in Processes :
        ses[p].out = "ok" => ses[p].pc = "record" /\ ses[p].cur \in effected

SuccessInv == TypeOK /\ Witnessed /\ NoPhantomSuccess

LEMMA WitnessedStep ==
  ASSUME TypeOK, Witnessed, NEW p, NEW s, Become(p, s), effected \subseteq effected',
         s.out = "ok" => s.pc = "record" /\ s.cur \in effected'
  PROVE  Witnessed'
  BY DEF TypeOK, Witnessed, Become

\* A session that does not move to another item keeps its witness.
LEMMA GotoWitnessed ==
  ASSUME TypeOK, Witnessed, NEW p \in Processes, NEW l, Goto(p, l),
         UNCHANGED effected, ses[p].pc # "record"
  PROVE  Witnessed'
<1>1. ses[p].out # "ok"
  BY DEF Witnessed
<1>2. [ses[p] EXCEPT !.pc = l].out # "ok"
  BY <1>1 DEF TypeOK, Session, SessionRow
<1>. QED  BY <1>2, WitnessedStep DEF Goto

LEMMA IdleWitnessed ==
  ASSUME TypeOK, Witnessed, NEW p, NEW l, Become(p, Idle(l)), UNCHANGED effected
  PROVE  Witnessed'
<1>1. Idle(l).out # "ok"
  BY DEF Idle
<1>. QED  BY <1>1, WitnessedStep

LEMMA NoOtherSuccess ==
  ASSUME NoPhantomSuccess, effected \subseteq effected',
         NEW S, NEW s, s # "SUCCEEDED", item' = SetItems(S, s)
  PROVE  NoPhantomSuccess'
  BY DEF NoPhantomSuccess, SetItems

LEMMA SameSuccess ==
  ASSUME NoPhantomSuccess, effected \subseteq effected', UNCHANGED item
  PROVE  NoPhantomSuccess'
  BY DEF NoPhantomSuccess

LEMMA RefreshWitnessed ==
  ASSUME SuccessInv, NEW p \in Processes, RefreshProgress(p), UNCHANGED effected
  PROVE  Witnessed' /\ NoPhantomSuccess'
<1>. USE DEF SuccessInv
<1>0. ses[p] \in SessionRow /\ ses[p].pc # "record" /\ ses[p].out # "ok" /\ UNCHANGED item
  BY DEF TypeOK, Session, Witnessed, RefreshProgress, CountItems, CountBatches,
         SaveProgress, dbVars
<1>1. NoPhantomSuccess'
  BY <1>0, SameSuccess
<1>2. CASE SaveProgress(p)
  BY <1>0, <1>1, <1>2, GotoWitnessed DEF SaveProgress
<1>3. CASE CountItems(p)
  <2>1. PICK a, b : Become(p, [ses[p] EXCEPT !.pc = "countBatches", !.job = a, !.new = b])
    BY <1>3 DEF CountItems
  <2>2. [ses[p] EXCEPT !.pc = "countBatches", !.job = a, !.new = b].out # "ok"
    BY <1>0 DEF SessionRow
  <2>. QED  BY <1>1, <2>1, <2>2, WitnessedStep
<1>4. CASE CountBatches(p)
  <2>1. PICK b : Become(p, [ses[p] EXCEPT !.pc = "save", !.new = b])
    BY <1>4 DEF CountBatches
  <2>2. [ses[p] EXCEPT !.pc = "save", !.new = b].out # "ok"
    BY <1>0 DEF SessionRow
  <2>. QED  BY <1>1, <2>1, <2>2, WitnessedStep
<1>. QED  BY <1>1, <1>2, <1>3, <1>4 DEF RefreshProgress

\* No request records a success.
LEMMA RequestWitnessed ==
  ASSUME SuccessInv, NEW r \in Requests, RequestNext(r), UNCHANGED effected
  PROVE  Witnessed' /\ NoPhantomSuccess'
<1>. USE DEF SuccessInv
<1>0. r \in Processes /\ ses[r] \in SessionRow
  BY DEF TypeOK, Session, Processes
<1>1. CASE RefreshProgress(r)
  BY <1>0, <1>1, RefreshWitnessed
<1>2. CASE CancelCommit(r)
  <2>1. NoPhantomSuccess'
    BY <1>2, NoOtherSuccess DEF CancelCommit
  <2>2. PICK row : Become(r, [ses[r] EXCEPT !.pc = "count", !.job = row])
    BY <1>2 DEF CancelCommit
  <2>3. [ses[r] EXCEPT !.pc = "count", !.job = row].out # "ok"
    BY <1>0, <1>2 DEF CancelCommit, Witnessed, SessionRow
  <2>. QED  BY <2>1, <2>2, <2>3, WitnessedStep
<1>3. ASSUME UNCHANGED item, NEW s, Become(r, s), s.out # "ok"
      PROVE  Witnessed' /\ NoPhantomSuccess'
  BY <1>3, SameSuccess, WitnessedStep
<1>4. ASSUME UNCHANGED item, ses[r].pc # "record", NEW l, Goto(r, l)
      PROVE  Witnessed' /\ NoPhantomSuccess'
  BY <1>0, <1>4, SameSuccess, GotoWitnessed
<1>5. CASE DispatchLoad(r)
  <2>1. PICK t, l : Become(r, [ses[r] EXCEPT !.todo = t, !.pc = l])
    BY <1>5 DEF DispatchLoad
  <2>2. [ses[r] EXCEPT !.todo = t, !.pc = l].out # "ok"
    BY <1>0, <1>5 DEF DispatchLoad, Witnessed, SessionRow
  <2>. QED  BY <1>3, <1>5, <2>1, <2>2 DEF DispatchLoad, dbVars
<1>6. CASE MarkQueued(r)
  <2>1. PICK t, m : Become(r, [ses[r] EXCEPT !.pc = "publish", !.todo = t, !.msg = m])
    BY <1>6 DEF MarkQueued
  <2>2. [ses[r] EXCEPT !.pc = "publish", !.todo = t, !.msg = m].out # "ok"
    BY <1>0, <1>6 DEF MarkQueued, Witnessed, SessionRow
  <2>. QED  BY <1>3, <1>6, <2>1, <2>2 DEF MarkQueued
<1>7. CASE CancelLoad(r)
  <2>1. PICK j, b, i : \/ Become(r, Idle("done"))
                       \/ Become(r, [Idle("cancel") EXCEPT !.job = j, !.batch = b, !.item = i])
    BY <1>7 DEF CancelLoad
  <2>2. /\ [Idle("cancel") EXCEPT !.job = j, !.batch = b, !.item = i].out # "ok"
        /\ Idle("done").out # "ok"
    BY DEF Idle
  <2>. QED  BY <1>3, <1>7, <2>1, <2>2 DEF CancelLoad, dbVars
<1>8. CASE RetryLoad(r)
  <2>1. [Idle("retry") EXCEPT !.job = job].out # "ok"
    BY DEF Idle
  <2>. QED  BY <1>3, <1>8, <2>1 DEF RetryLoad, dbVars
<1>9. CASE Revoke(r) \/ RequestCrash(r) \/ RetryRequeue(r)
  <2>1. \E l : Become(r, Idle(l))
    BY <1>9 DEF Revoke, RequestCrash, RetryRequeue
  <2>2. \A l : Idle(l).out # "ok"
    BY DEF Idle
  <2>. QED  BY <1>3, <1>9, <2>1, <2>2 DEF Revoke, RequestCrash, RetryRequeue, dbVars
<1>10. CASE ModuleDisabled(r)
  BY <1>4, <1>10 DEF ModuleDisabled
<1>11. CASE Publish(r)
  BY <1>4, <1>11 DEF Publish, dbVars
<1>12. CASE PublishFails(r) \/ DispatchFailed(r)
  BY <1>4, <1>12 DEF PublishFails, DispatchFailed
<1>. QED
  BY <1>1, <1>2, <1>5, <1>6, <1>7, <1>8, <1>9, <1>10, <1>11, <1>12
  DEF RequestNext, RequestProgress

\* Only ItemDone records a success, and only when the outcome in hand is "ok".
LEMMA WorkerWitnessed ==
  ASSUME SuccessInv, NEW w \in Workers, WorkerProgress(w) \/ WorkerFault(w)
  PROVE  Witnessed' /\ NoPhantomSuccess'
<1>. USE DEF SuccessInv
<1>0. w \in Processes /\ ses[w] \in SessionRow
  BY DEF TypeOK, Session, Processes
<1>1. CASE ItemDone(w)
  <2>. DEFINE i == ses[w].cur
              v == ItemVerdict(ses[w].out)
  <2>1. PICK k : Become(w, [ses[w] EXCEPT !.pc = "loop", !.cur = None,
                                          !.out = "none", !.item = k])
    BY <1>1 DEF ItemDone, RecordResult
  <2>2. [ses[w] EXCEPT !.pc = "loop", !.cur = None, !.out = "none", !.item = k].out # "ok"
    BY <1>0 DEF SessionRow
  <2>3. UNCHANGED effected /\ item' = SetItems({i}, v)
    BY <1>1 DEF ItemDone, RecordResult, history
  <2>4. CASE v = "SUCCEEDED"
    <3>1. i \in effected
      BY <1>0, <2>4 DEF ItemVerdict, Witnessed
    <3>2. NoPhantomSuccess'
      BY <2>3, <3>1 DEF NoPhantomSuccess, SetItems
    <3>. QED  BY <2>1, <2>2, <2>3, <3>2, WitnessedStep
  <2>5. CASE v # "SUCCEEDED"
    <3>1. NoPhantomSuccess'
      BY <2>3, <2>5, NoOtherSuccess
    <3>. QED  BY <2>1, <2>2, <2>3, <3>1, WitnessedStep
  <2>. QED  BY <2>4, <2>5
<1>2. CASE SapCall(w)
  <2>1. PICK o \in {"ok", "rejected", "lost", "auth"} :
          /\ effected' \in {effected \cup {ses[w].cur}}
                            \cup (IF o = "ok" THEN {} ELSE {effected})
          /\ Become(w, [ses[w] EXCEPT !.pc = "record", !.out = o])
    BY <1>2 DEF SapCall
  <2>2. effected \subseteq effected' /\ (o = "ok" => ses[w].cur \in effected')
    BY <2>1
  <2>. DEFINE s == [ses[w] EXCEPT !.pc = "record", !.out = o]
  <2>3. s.out = o /\ s.pc = "record" /\ s.cur = ses[w].cur
    BY <1>0 DEF SessionRow
  <2>4. Witnessed'
    <3>. HIDE DEF s
    <3>1. Become(w, s)
      BY <2>1 DEF s
    <3>. QED  BY <2>2, <2>3, <3>1, WitnessedStep
  <2>. QED  BY <1>2, <2>2, <2>4, SameSuccess DEF SapCall, dbVars
<1>3. ASSUME UNCHANGED effected, NEW s, Become(w, s), s.out # "ok",
             \/ UNCHANGED item
             \/ \E S, v : v # "SUCCEEDED" /\ item' = SetItems(S, v)
      PROVE  Witnessed' /\ NoPhantomSuccess'
  <2>1. NoPhantomSuccess'
    BY <1>3, SameSuccess, NoOtherSuccess
  <2>. QED  BY <1>3, <2>1, WitnessedStep
<1>4. ASSUME ses[w].pc # "record" PROVE ses[w].out # "ok"
  BY <1>0, <1>4 DEF Witnessed
<1>5. ASSUME UNCHANGED effected, ses[w].pc # "record", NEW l, Goto(w, l),
             \/ UNCHANGED item
             \/ \E S, v : v # "SUCCEEDED" /\ item' = SetItems(S, v)
      PROVE  Witnessed' /\ NoPhantomSuccess'
  <2>1. [ses[w] EXCEPT !.pc = l].out # "ok"
    BY <1>0, <1>4, <1>5 DEF SessionRow
  <2>. QED  BY <1>3, <1>5, <2>1 DEF Goto
<1>6. CASE Receive(w)
  <2>1. \/ UNCHANGED ses
        \/ \E m : Become(w, Loaded([Idle("loaded") EXCEPT !.msg = m], job))
    BY <1>6 DEF Receive
  <2>2. \A m : Loaded([Idle("loaded") EXCEPT !.msg = m], job).out # "ok"
    BY DEF Loaded, Idle
  <2>3. CASE UNCHANGED ses
    BY <1>6, <2>3, SameSuccess DEF Receive, Witnessed, history, dbVars
  <2>. QED  BY <1>3, <1>6, <2>1, <2>2, <2>3 DEF Receive, history, dbVars
<1>7. CASE MarkUncertain(w)
  <2>1. PICK k, l : Become(w, [ses[w] EXCEPT !.item = k, !.pc = l])
    BY <1>7 DEF MarkUncertain
  <2>2. [ses[w] EXCEPT !.item = k, !.pc = l].out # "ok"
    BY <1>0, <1>4, <1>7 DEF MarkUncertain, SessionRow
  <2>3. \E S, v : v # "SUCCEEDED" /\ item' = SetItems(S, v)
    BY <1>7 DEF MarkUncertain, UncertainVerdict
  <2>. QED  BY <1>3, <1>7, <2>1, <2>2, <2>3 DEF MarkUncertain, history
<1>8. CASE Claim(w)
  <2>1. [ses[w] EXCEPT !.pc = "claimed",
                       !.out = IF CancelSeen(job) THEN "notStarted" ELSE "started"].out # "ok"
    BY <1>0 DEF SessionRow
  <2>. QED  BY <1>3, <1>5, <1>8, <2>1 DEF Claim, history
<1>9. CASE StartBatch(w)
  <2>. DEFINE s == Loaded(ses[w], job)
  <2>1. PICK l : Become(w, [s EXCEPT !.pc = l, !.out = "none"])
    BY <1>9 DEF StartBatch
  <2>2. [s EXCEPT !.pc = l, !.out = "none"].out # "ok"
    BY <1>0 DEF Loaded, SessionRow
  <2>. QED  BY <1>3, <1>9, <2>1, <2>2 DEF StartBatch, history, dbVars
<1>10. CASE CheckCancel(w)
  <2>1. PICK row, l : Become(w, [ses[w] EXCEPT !.job = row, !.pc = l])
    BY <1>10 DEF CheckCancel
  <2>2. [ses[w] EXCEPT !.job = row, !.pc = l].out # "ok"
    BY <1>0, <1>4, <1>10 DEF CheckCancel, SessionRow
  <2>. QED  BY <1>3, <1>10, <2>1, <2>2 DEF CheckCancel, history, dbVars
<1>11. CASE StartItem(w)
  <2>1. PICK i, k : /\ item' = SetItems({i}, "RUNNING")
                    /\ Become(w, [ses[w] EXCEPT !.pc = "call", !.cur = i, !.item = k])
    BY <1>11 DEF StartItem
  <2>2. [ses[w] EXCEPT !.pc = "call", !.cur = i, !.item = k].out # "ok"
    BY <1>0, <1>4, <1>11 DEF StartItem, SessionRow
  <2>. QED  BY <1>3, <1>11, <2>1, <2>2 DEF StartItem, history
<1>12. CASE ItemLost(w) \/ AuthError(w) \/ AbortTask(w)
  <2>1. \E l : Become(w, [ses[w] EXCEPT !.pc = l, !.cur = None, !.out = "none"])
    BY <1>12 DEF ItemLost, AuthError, AbortTask
  <2>2. \A l : [ses[w] EXCEPT !.pc = l, !.cur = None, !.out = "none"].out # "ok"
    BY <1>0 DEF SessionRow
  <2>3. UNCHANGED item \/ \E S, v : v # "SUCCEEDED" /\ item' = SetItems(S, v)
    BY <1>12 DEF ItemLost, AuthError, AbortTask, dbVars
  <2>. QED  BY <1>3, <1>12, <2>1, <2>2, <2>3 DEF ItemLost, AuthError, AbortTask, history
<1>13. CASE FailPending(w) \/ CancelPending(w)
  <2>1. PICK k, l : Become(w, [ses[w] EXCEPT !.item = k, !.pc = l])
    BY <1>13 DEF FailPending, CancelPending
  <2>2. [ses[w] EXCEPT !.item = k, !.pc = l].out # "ok"
    BY <1>0, <1>4, <1>13 DEF FailPending, CancelPending, SessionRow
  <2>3. \E S, v : v # "SUCCEEDED" /\ item' = SetItems(S, v)
    BY <1>13 DEF FailPending, CancelPending
  <2>. QED  BY <1>3, <1>13, <2>1, <2>2, <2>3 DEF FailPending, CancelPending, history
<1>14. CASE ConnectionLost(w)
  <2>. DEFINE s == Loaded(ses[w], NoRow)
  <2>1. PICK l : Become(w, [s EXCEPT !.pc = l])
    BY <1>14 DEF ConnectionLost
  <2>2. [s EXCEPT !.pc = l].out # "ok"
    BY <1>0, <1>4, <1>14 DEF ConnectionLost, Loaded, SessionRow
  <2>. QED  BY <1>3, <1>14, <2>1, <2>2 DEF ConnectionLost, history, dbVars
<1>15. CASE MarkRetrying(w)
  BY <1>5, <1>15 DEF MarkRetrying, history
<1>16. CASE FinishBatch(w) \/ FailBatch(w)
  BY <1>5, <1>16 DEF FinishBatch, FailBatch, history
<1>17. CASE Republish(w) \/ MarkFailedSkipped(w)
  BY <1>5, <1>17 DEF Republish, MarkFailedSkipped, history, dbVars
<1>18. CASE RefreshProgress(w) /\ UNCHANGED history
  BY <1>0, <1>18, RefreshWitnessed DEF history
<1>19. CASE (Ack(w) \/ WorkerCrash(w)) /\ UNCHANGED history
  BY <1>19, SameSuccess, IdleWitnessed DEF Ack, WorkerCrash, history, dbVars
<1>20. CASE Discard(w) /\ UNCHANGED history
  BY <1>20, SameSuccess DEF Discard, history, dbVars, Witnessed
<1>. QED
  BY <1>1, <1>2, <1>6, <1>7, <1>8, <1>9, <1>10, <1>11, <1>12, <1>13, <1>14,
     <1>15, <1>16, <1>17, <1>18, <1>19, <1>20
  DEF WorkerProgress, WorkerFault

LEMMA SuccessAlways == Spec => []SuccessInv
<1>1. Init => SuccessInv
  <2>1. Init => TypeOK
    BY InitTypeOK
  <2>2. Init => Witnessed /\ NoPhantomSuccess
    BY DEF Init, EngineInit, Witnessed, NoPhantomSuccess, Idle
  <2>. QED  BY <2>1, <2>2 DEF SuccessInv
<1>2. SuccessInv /\ [Next]_vars => SuccessInv'
  <2>. SUFFICES ASSUME SuccessInv, [Next]_vars PROVE SuccessInv'
    OBVIOUS
  <2>1. TypeOK'
    BY StepTypeOK DEF SuccessInv
  <2>2. CASE UNCHANGED vars
    BY <2>1, <2>2 DEF SuccessInv, Witnessed, NoPhantomSuccess, vars, engineVars, history
  <2>3. ASSUME NEW w \in Workers, WorkerProgress(w) \/ WorkerFault(w)
        PROVE  Witnessed' /\ NoPhantomSuccess'
    BY <2>3, WorkerWitnessed
  <2>4. ASSUME NEW r \in Requests, RequestNext(r), UNCHANGED history
        PROVE  Witnessed' /\ NoPhantomSuccess'
    BY <2>4, RequestWitnessed DEF history
  <2>. QED  BY <2>1, <2>2, <2>3, <2>4 DEF SuccessInv, Next
<1>. QED  BY <1>1, <1>2, PTL DEF Spec

\* A SUCCEEDED item was acted on by SAP: no crash, redelivery, retry, abort or
\* cancellation, in any number, makes a worker record a success it has not got.
THEOREM SuccessIsReal == Spec => []NoPhantomSuccess
<1>1. SuccessInv => NoPhantomSuccess
  BY DEF SuccessInv
<1>. QED  BY <1>1, SuccessAlways, PTL

-----------------------------------------------------------------------------
(***************************************************************************)
(* One delivery at a time.  With one dispatch and without the combination   *)
(* of crashes and retried tasks (a worker that dies between publishing its  *)
(* retry and acknowledging leaves two messages for one batch), OneInCharge  *)
(* is an invariant: the worker of a batch is alone with it.  So what its    *)
(* session remembers of the items stays right, but for the cancellations of *)
(* a request, and it calls SAP only for items not under way.                *)
(***************************************************************************)
SingleDelivery ==
    /\ Retriers = {}
    /\ \A f \in Budgets : f["crash"] = 0 \/ MaxRetries = 0 \/ f["conn"] = 0

\* As long as a worker may die no task is retried.
NoRetry ==
    \/ /\ MaxRetries = 0
       /\ \A w \in Workers : ses[w].pc \notin {"retrying", "republish"}
    \/ /\ budget["conn"] = 0
       /\ \A w \in Workers : /\ ses[w].pc \notin {"connLost", "retrying", "republish"}
                             /\ ses[w].out # "lost"

Calm == budget["crash"] = 0 \/ NoRetry

Reported == {"COMPLETED", "COMPLETED_WITH_ERRORS"}
Own(b) == {i \in Items : BatchOf[i] = b}

\* Where a worker may remember an item as RUNNING.
InDoubt == {"loaded", "call", "record", "connLost", "authFailed", "failing"}

\* What the session s of a worker knows of an item of its batch,
KnowsItem(s, i, it, cl, dr) ==
    /\ it[i] = "RUNNING" => s.item[i] = "RUNNING"
    /\ s.item[i] \in TerminalItem => it[i] \in TerminalItem
    /\ s.item[i] = "PENDING" => cl[i] <= dr[i]
    /\ s.item[i] = "RUNNING" => s.pc \in InDoubt
    /\ Cancellers = {} /\ s.pc # "connLost" => s.item[i] = it[i]
    /\ s.pc = "connLost" => it[i] # "RUNNING"

\* of the item in hand,
InHand(s, it, cl, dr) ==
    /\ s.item[s.cur] = "RUNNING" /\ it[s.cur] # "PENDING"
    /\ \A i \in Items : s.item[i] = "RUNNING" => i = s.cur
    /\ s.pc = "call" \/ s.out = "lost" => cl[s.cur] <= dr[s.cur]

\* and of its batch.
Knows(s, bt, it, cl, dr) ==
    s.pc \in WorkPC \ {"failBatch"} =>
        /\ bt[s.msg.batch].status \notin Reported
        /\ \A i \in Items : (s.item[i] # "EXPIRED") <=> (i \in Own(s.msg.batch))
        /\ \A i \in Own(s.msg.batch) : KnowsItem(s, i, it, cl, dr)
        /\ s.pc \in {"call", "record"} => InHand(s, it, cl, dr)

\* NoBlindReplay and FinishedBatchSettled for the items of batch b.
Kept(b, bt, it, cl, dr) ==
    \A i \in Own(b) :
        /\ it[i] = "PENDING" => cl[i] <= dr[i]
        /\ cl[i] <= 1 + dr[i]
        /\ bt[b].status \in Reported => it[i] \in TerminalItem

Aware == \A w \in Workers : Knows(ses[w], batch, item, calls, drops)
AllKept == \A b \in Batches : Kept(b, batch, item, calls, drops)

OnceInv == TypeOK /\ OneInCharge /\ Calm /\ Aware /\ AllKept

\* A worker goes on with its batch: what it does to the database concerns that
\* batch only, and it knows what it has done.
Works(w) ==
    /\ \A q \in Processes : q # w => ses'[q] = ses[q]
    /\ ses[w].pc \in WorkPC
    /\ ses'[w].pc \in WorkPC \cup RefreshPC \cup {"ack"}
    /\ ses'[w].msg = ses[w].msg
    /\ UNCHANGED queue
    /\ \A f \in Faults : budget[f] = 0 => budget'[f] = 0
    /\ \A b \in Batches : b # ses[w].msg.batch => batch'[b] = batch[b]
    /\ \A i \in Items : i \notin Own(ses[w].msg.batch) =>
          item'[i] = item[i] /\ calls'[i] = calls[i] /\ drops'[i] = drops[i]
    /\ Knows(ses'[w], batch', item', calls', drops')
    /\ Kept(ses[w].msg.batch, batch', item', calls', drops')

\* ... and takes its task towards a retry only after a lost connection.
Hesitates(w) ==
    /\ ses'[w].pc = "retrying" => ses[w].pc = "connLost" /\ MaxRetries # 0
    /\ ses'[w].pc = "republish" => ses[w].pc = "retrying"
    /\ ses'[w].pc = "connLost" \/ ses'[w].out = "lost"
          => ses[w].out = "lost" \/ budget["conn"] # 0

LEMMA WorksInv ==
  ASSUME OnceInv, NEW w \in Workers, Works(w)
  PROVE  OneInCharge' /\ Aware' /\ AllKept'
<1>1. OneInCharge'
  BY WorkOn DEF OnceInv, Works, Faults
<1>2. ASSUME NEW v \in Workers, v # w
      PROVE  Knows(ses'[v], batch', item', calls', drops')
  <2>1. PICK s : s = ses[v] /\ s = ses'[v] /\ s \in SessionRow
    BY <1>2 DEF Works, Processes, OnceInv, TypeOK, Session
  <2>2. CASE s.pc \notin WorkPC
    BY <2>1, <2>2 DEF Knows
  <2>3. CASE s.pc \in WorkPC
    <3>1. s.msg.batch # ses[w].msg.batch /\ s.msg.batch \in Batches
      BY <1>2, <2>1, <2>3, Apart DEF OnceInv, Works, OneInCharge, Orderly, Processes, WorkPC
    <3>2. /\ batch'[s.msg.batch] = batch[s.msg.batch]
          /\ \A i \in Own(s.msg.batch) :
                item'[i] = item[i] /\ calls'[i] = calls[i] /\ drops'[i] = drops[i]
      BY <3>1 DEF Works, Own
    <3>3. Knows(s, batch, item, calls, drops)
      BY <2>1 DEF OnceInv, Aware
    <3>4. s.pc \in {"call", "record"} /\ s.pc # "failBatch" => s.cur \in Own(s.msg.batch)
      BY <2>1, <3>3 DEF Knows, InHand, OnceInv, TypeOK, Session, Processes, WorkPC
    <3>5. Knows(s, batch', item', calls', drops')
      BY <3>2, <3>3, <3>4 DEF Knows, KnowsItem, InHand
    <3>. QED  BY <2>1, <3>5
  <2>. QED  BY <2>2, <2>3
<1>3. Aware'
  BY <1>2 DEF Works, Aware
<1>4. AllKept'
  <2>1. ASSUME NEW b \in Batches PROVE Kept(b, batch', item', calls', drops')
    BY DEF Works, Kept, Own, OnceInv, AllKept
  <2>. QED  BY <2>1 DEF AllKept
<1>. QED  BY <1>1, <1>3, <1>4

\* The steps of the processor and of the task, one by one.
LEMMA WorkerWorks ==
  ASSUME OnceInv, NEW w \in Workers,
         \/ MarkUncertain(w) \/ Claim(w) \/ StartBatch(w) \/ CheckCancel(w) \/ StartItem(w)
         \/ SapCall(w) \/ ItemDone(w) \/ ItemLost(w) \/ AuthError(w) \/ FailPending(w)
         \/ FinishBatch(w) \/ CancelPending(w) \/ ConnectionLost(w) \/ MarkRetrying(w)
         \/ MarkFailedSkipped(w) \/ FailBatch(w) \/ AbortTask(w)
  PROVE  Works(w) /\ Hesitates(w)
<1>. DEFINE b == ses[w].msg.batch
<1>0. /\ w \in Processes /\ ses[w] \in Session /\ ses[w] \in SessionRow
      /\ ses[w].pc # "idle" => b \in Batches
      /\ Knows(ses[w], batch, item, calls, drops)
      /\ item \in [Items -> ItemStatus]
  BY DEF OnceInv, TypeOK, Session, Processes, OneInCharge, Orderly, Aware
<1>1. ses[w].pc # "idle" => Kept(b, batch, item, calls, drops)
  BY <1>0 DEF OnceInv, AllKept
<1>2. ASSUME NEW s, Become(w, s), ses[w].pc \in WorkPC,
             s.pc \in WorkPC \cup RefreshPC \cup {"ack"}, s.msg = ses[w].msg, UNCHANGED queue,
             \A f \in Faults : budget[f] = 0 => budget'[f] = 0,
             \A c \in Batches : c # b => batch'[c] = batch[c],
             \A i \in Items : i \notin Own(b) =>
                item'[i] = item[i] /\ calls'[i] = calls[i] /\ drops'[i] = drops[i],
             Knows(s, batch', item', calls', drops'), Kept(b, batch', item', calls', drops'),
             s.pc = "retrying" => ses[w].pc = "connLost" /\ MaxRetries # 0,
             s.pc = "republish" => ses[w].pc = "retrying",
             s.pc = "connLost" \/ s.out = "lost" => ses[w].out = "lost" \/ budget["conn"] # 0
      PROVE  Works(w) /\ Hesitates(w)
  <2>1. ses'[w] = s /\ \A q \in Processes : q # w => ses'[q] = ses[q]
    BY <1>0, <1>2 DEF Become, OnceInv, TypeOK
  <2>. QED  BY <1>2, <2>1 DEF Works, Hesitates
<1>3. ASSUME NEW s, Become(w, s), ses[w].pc \in WorkPC,
             s.pc \in WorkPC \cup RefreshPC \cup {"ack"}, s.msg = ses[w].msg,
             UNCHANGED <<queue, budget, calls, drops>>,
             \A c \in Batches : c # b => batch'[c] = batch[c],
             \A i \in Items : i \notin Own(b) => item'[i] = item[i],
             Knows(s, batch', item', calls, drops), Kept(b, batch', item', calls, drops),
             s.pc \notin {"retrying", "republish", "connLost"},
             s.out \in {ses[w].out, "none", "started", "notStarted"}
      PROVE  Works(w) /\ Hesitates(w)
  BY <1>2, <1>3
<1>. HIDE DEF b
<1>4. CASE MarkUncertain(w)
  <2>. DEFINE U == Mine(w, "RUNNING")
  <2>1. PICK k, l, s : /\ k = Remember(w, U, "FAILED") /\ l \in {"cancelPending", "claim"}
                       /\ s = [ses[w] EXCEPT !.item = k, !.pc = l] /\ Become(w, s)
    BY <1>4 DEF MarkUncertain, UncertainVerdict
  <2>2. s.item = k /\ s.pc = l /\ s.msg = ses[w].msg /\ s.out = ses[w].out
    BY <1>0, <2>1 DEF SessionRow
  <2>3. /\ ses[w].pc = "loaded" /\ item' = SetItems(U, "FAILED")
        /\ UNCHANGED <<batch, queue, budget, calls, drops>>
    BY <1>4 DEF MarkUncertain, UncertainVerdict, brokerVars, history
  <2>4. U \subseteq Own(b)
    BY <1>0, <2>3 DEF Knows, WorkPC, Mine, b
  <2>5. /\ \A i \in Items : i \notin Own(b) => item'[i] = item[i]
        /\ Kept(b, batch', item', calls, drops)
    BY <1>1, <2>3, <2>4 DEF Kept, Own, SetItems, TerminalItem
  <2>6. Knows(s, batch', item', calls, drops)
    <3>1. \A i \in Items : /\ s.item[i] = IF i \in U THEN "FAILED" ELSE ses[w].item[i]
                           /\ item'[i] = IF i \in U THEN "FAILED" ELSE item[i]
      BY <2>1, <2>2, <2>3 DEF Remember, SetItems
    <3>2. \A i \in Items : i \notin U => ses[w].item[i] # "RUNNING"
      BY DEF Mine
    <3>3. Knows(ses[w], batch, item, calls, drops) /\ ses[w].pc \in WorkPC \ {"failBatch", "connLost"}
      BY <1>0, <2>3 DEF WorkPC
    <3>4. \A i \in Own(b) : KnowsItem(ses[w], i, item, calls, drops) /\ i \in Items
      BY <3>3 DEF Knows, Own, b
    <3>5. s.pc \notin {"connLost", "call", "record"}
      BY <2>1, <2>2
    <3>. HIDE DEF U
    <3>6. ASSUME NEW i \in Own(b) PROVE KnowsItem(s, i, item', calls, drops)
      <4>1. CASE i \in U
        BY <3>1, <3>4, <3>5, <4>1 DEF KnowsItem, TerminalItem
      <4>2. CASE i \notin U
        BY <3>1, <3>2, <3>3, <3>4, <3>5, <4>2 DEF KnowsItem
      <4>. QED  BY <4>1, <4>2
    <3>7. \A i \in Items : (s.item[i] # "EXPIRED") <=> (i \in Own(b))
      BY <2>4, <3>1, <3>3 DEF Knows, b
    <3>8. batch'[s.msg.batch].status \notin Reported /\ s.msg.batch = b
      BY <2>2, <2>3, <3>3 DEF Knows, b
    <3>. QED  BY <3>5, <3>6, <3>7, <3>8 DEF Knows
  <2>. QED  BY <1>3, <2>1, <2>2, <2>3, <2>5, <2>6 DEF WorkPC
<1>5. CASE Claim(w)
  <2>1. PICK s : /\ \/ s = [ses[w] EXCEPT !.pc = "claimed", !.out = "notStarted"]
                    \/ s = [ses[w] EXCEPT !.pc = "claimed", !.out = "started"]
                    \/ s = [ses[w] EXCEPT !.pc = "ack"]
                 /\ Become(w, s)
    BY <1>5 DEF Claim, Goto
  <2>2. /\ s.pc \in {"claimed", "ack"} /\ s.msg = ses[w].msg /\ s.item = ses[w].item
        /\ s.out \in {ses[w].out, "started", "notStarted"}
    BY <1>0, <2>1 DEF SessionRow
  <2>3. /\ ses[w].pc = "claim" /\ UNCHANGED <<item, queue, budget, calls, drops>>
        /\ \/ UNCHANGED batch
           \/ batch' = [batch EXCEPT ![b].status = "RUNNING"]
    BY <1>5 DEF Claim, brokerVars, history, b
  <2>4. /\ \A c \in Batches : c # b => batch'[c] = batch[c]
        /\ batch'[b].status \in {batch[b].status, "RUNNING"}
    BY <1>0, <2>3 DEF OnceInv, TypeOK, BatchRow
  <2>5. Kept(b, batch', item', calls, drops)
    BY <1>1, <2>3, <2>4 DEF Kept, Reported
  <2>6. Knows(s, batch', item', calls, drops)
    BY <1>0, <2>2, <2>3, <2>4 DEF Knows, KnowsItem, WorkPC, Reported, InDoubt, b
  <2>. QED  BY <1>3, <2>1, <2>2, <2>3, <2>4, <2>5, <2>6 DEF WorkPC
<1>6. CASE StartBatch(w)
  <2>1. PICK l, s :
          /\ l = IF ses[w].out = "notStarted" \/ CancelSeen(job) THEN "cancelPending" ELSE "loop"
          /\ s = [Loaded(ses[w], job) EXCEPT !.pc = l, !.out = "none"] /\ Become(w, s)
    BY <1>6 DEF StartBatch
  <2>2. l \in {"cancelPending", "loop"}
    BY <2>1
  <2>3. /\ s.pc = l /\ s.msg = ses[w].msg /\ s.out = "none"
        /\ s.item = [i \in Items |-> IF BatchOf[i] = b THEN item[i] ELSE "EXPIRED"]
    BY <1>0, <2>1 DEF SessionRow, Loaded, b
  <2>4. ses[w].pc = "claimed" /\ UNCHANGED <<item, batch, queue, budget, calls, drops>>
    BY <1>6 DEF StartBatch, brokerVars, history, dbVars
  <2>5. Knows(s, batch', item', calls, drops)
    BY <1>0, <1>1, <2>3, <2>4, <2>2
       DEF Knows, KnowsItem, Kept, WorkPC, Own, InDoubt, ItemStatus, b
  <2>. QED  BY <1>1, <1>3, <2>1, <2>3, <2>4, <2>5, <2>2 DEF WorkPC
<1>7. CASE CheckCancel(w)
  <2>1. PICK row, l, s :
          /\ l = IF CancelSeen(row) THEN "cancelPending" ELSE "start"
          /\ s = [ses[w] EXCEPT !.job = row, !.pc = l] /\ Become(w, s)
    BY <1>7 DEF CheckCancel
  <2>2. l \in {"cancelPending", "start"}
    BY <2>1
  <2>3. s.pc = l /\ s.msg = ses[w].msg /\ s.out = ses[w].out /\ s.item = ses[w].item
    BY <1>0, <2>1 DEF SessionRow
  <2>4. ses[w].pc = "loop" /\ UNCHANGED <<item, batch, queue, budget, calls, drops>>
    BY <1>7 DEF CheckCancel, brokerVars, history, dbVars
  <2>5. Knows(s, batch', item', calls, drops)
    BY <1>0, <2>3, <2>4, <2>2 DEF Knows, KnowsItem, WorkPC, InDoubt
  <2>. QED  BY <1>1, <1>3, <2>1, <2>3, <2>4, <2>5, <2>2 DEF WorkPC
<1>8. CASE StartItem(w)
  <2>1. PICK i, k, s :
          /\ i \in Mine(w, "PENDING")
          /\ item' = SetItems({i}, "RUNNING") /\ k = Remember(w, {i}, "RUNNING")
          /\ s = [ses[w] EXCEPT !.pc = "call", !.cur = i, !.item = k] /\ Become(w, s)
    BY <1>8 DEF StartItem
  <2>2. /\ s.pc = "call" /\ s.msg = ses[w].msg /\ s.out = ses[w].out /\ s.item = k /\ s.cur = i
    BY <1>0, <2>1 DEF SessionRow
  <2>3. ses[w].pc = "start" /\ UNCHANGED <<batch, queue, budget, calls, drops>>
    BY <1>8 DEF StartItem, brokerVars, history
  <2>4. i \in Own(b) /\ calls[i] <= drops[i]
    BY <1>0, <2>1, <2>3 DEF Knows, KnowsItem, WorkPC, Mine, b
  <2>5. /\ \A j \in Items : j \notin Own(b) => item'[j] = item[j]
        /\ Kept(b, batch', item', calls, drops)
    BY <1>0, <1>1, <2>1, <2>3, <2>4 DEF Knows, WorkPC, Kept, Own, SetItems, b
  <2>6. Knows(s, batch', item', calls, drops)
    BY <1>0, <2>1, <2>2, <2>3, <2>4
       DEF Knows, KnowsItem, InHand, InDoubt, WorkPC, Own, SetItems, Remember, Mine, TerminalItem, b
  <2>. QED  BY <1>3, <2>1, <2>2, <2>3, <2>5, <2>6 DEF WorkPC
<1>9. CASE SapCall(w)
  <2>1. PICK i, o, s :
          /\ i = ses[w].cur /\ o \in {"ok", "rejected", "lost", "auth"}
          /\ IF o = "lost" THEN Spend("conn") ELSE UNCHANGED budget
          /\ calls' = [calls EXCEPT ![i] = calls[i] + 1]
          /\ drops' = IF o = "lost" THEN [drops EXCEPT ![i] = drops[i] + 1] ELSE drops
          /\ s = [ses[w] EXCEPT !.pc = "record", !.out = o] /\ Become(w, s)
    BY <1>9 DEF SapCall
  <2>2. s.pc = "record" /\ s.msg = ses[w].msg /\ s.out = o /\ s.item = ses[w].item /\ s.cur = i
    BY <1>0, <2>1 DEF SessionRow
  <2>3. ses[w].pc = "call" /\ UNCHANGED <<item, batch, queue>>
    BY <1>9 DEF SapCall, brokerVars, dbVars
  <2>4. /\ i \in Own(b) /\ calls[i] <= drops[i] /\ item[i] # "PENDING"
        /\ ses[w].item[i] = "RUNNING"
    BY <1>0, <2>1, <2>3 DEF Knows, InHand, WorkPC, Session, b
  <2>5. /\ calls \in [Items -> Nat] /\ drops \in [Items -> Nat] /\ i \in Items
        /\ \A f \in Faults : budget[f] = 0 => budget'[f] = 0
        /\ o = "lost" => budget["conn"] # 0
    BY <1>0, <2>1, <2>4, EngineOK, SpendType DEF OnceInv, TypeOK, Own, Spend
  <2>6. /\ \A j \in Items : j # i => calls'[j] = calls[j] /\ drops'[j] = drops[j]
        /\ calls'[i] = calls[i] + 1 /\ drops'[i] \in Nat /\ calls[i] \in Nat /\ drops[i] \in Nat
        /\ drops'[i] = IF o = "lost" THEN drops[i] + 1 ELSE drops[i]
    BY <2>1, <2>5
  <2>7. Kept(b, batch', item', calls', drops')
    BY <1>1, <1>0, <2>3, <2>4, <2>6 DEF Kept, Own, WorkPC
  <2>8. Knows(s, batch', item', calls', drops')
    <3>1. Knows(ses[w], batch, item, calls, drops) /\ ses[w].pc \in WorkPC \ {"failBatch", "connLost"}
      BY <1>0, <2>3 DEF WorkPC
    <3>2. InHand(ses[w], item, calls, drops) /\ ses[w].cur = i
      BY <2>1, <2>3, <3>1 DEF Knows
    <3>3. \A j \in Own(b) : KnowsItem(ses[w], j, item, calls, drops) /\ j \in Items
      BY <3>1 DEF Knows, Own, b
    <3>4. \A j \in Own(b) : KnowsItem(s, j, item', calls', drops')
      <4>. TAKE j \in Own(b)
      <4>1. CASE j = i
        BY <2>2, <2>3, <2>4, <3>1, <3>3, <4>1 DEF KnowsItem, InDoubt
      <4>2. CASE j # i
        BY <2>2, <2>3, <2>6, <3>1, <3>3, <4>2 DEF KnowsItem, InDoubt
      <4>. QED  BY <4>1, <4>2
    <3>5. s.out = "lost" => calls'[i] <= drops'[i]
      BY <2>2, <2>4, <2>6
    <3>6. InHand(s, item', calls', drops')
      BY <2>2, <2>3, <2>4, <3>2, <3>5 DEF InHand
    <3>7. /\ batch'[s.msg.batch].status \notin Reported /\ s.msg.batch = b
          /\ \A j \in Items : (s.item[j] # "EXPIRED") <=> (j \in Own(b))
      BY <2>2, <2>3, <3>1 DEF Knows, b
    <3>. QED  BY <3>4, <3>6, <3>7 DEF Knows
  <2>9. \A j \in Items : j \notin Own(b) => calls'[j] = calls[j] /\ drops'[j] = drops[j]
    BY <2>4, <2>6
  <2>. QED  BY <1>2, <2>1, <2>2, <2>3, <2>5, <2>7, <2>8, <2>9 DEF WorkPC
<1>10. CASE ItemDone(w)
  <2>1. PICK i, v, k, s :
          /\ i = ses[w].cur /\ v \in {"SUCCEEDED", "FAILED"}
          /\ item' = SetItems({i}, v) /\ k = Remember(w, {i}, v)
          /\ s = [ses[w] EXCEPT !.pc = "loop", !.cur = None, !.out = "none", !.item = k]
          /\ Become(w, s)
    BY <1>10 DEF ItemDone, RecordResult, ItemVerdict
  <2>2. s.pc = "loop" /\ s.msg = ses[w].msg /\ s.out = "none" /\ s.item = k
    BY <1>0, <2>1 DEF SessionRow
  <2>3. ses[w].pc = "record" /\ UNCHANGED <<batch, queue, budget, calls, drops>>
    BY <1>10 DEF ItemDone, brokerVars, history
  <2>4. i \in Own(b)
    BY <1>0, <2>1, <2>3 DEF Knows, InHand, WorkPC, Session, b
  <2>5. /\ \A j \in Items : j \notin Own(b) => item'[j] = item[j]
        /\ Kept(b, batch', item', calls, drops)
    BY <1>1, <1>0, <2>1, <2>3, <2>4 DEF Kept, Own, SetItems, WorkPC, TerminalItem
  <2>6. Knows(s, batch', item', calls, drops)
    BY <1>0, <2>1, <2>2, <2>3, <2>4
       DEF Knows, KnowsItem, InHand, InDoubt, WorkPC, Own, SetItems, Remember, TerminalItem, b
  <2>. QED  BY <1>3, <2>1, <2>2, <2>3, <2>5, <2>6 DEF WorkPC
<1>11. CASE ItemLost(w)
  <2>1. PICK i, s :
          /\ i = ses[w].cur /\ item' = SetItems({i}, "PENDING")
          /\ s = [ses[w] EXCEPT !.pc = "connLost", !.cur = None, !.out = "none"] /\ Become(w, s)
    BY <1>11 DEF ItemLost
  <2>2. s.pc = "connLost" /\ s.msg = ses[w].msg /\ s.out = "none" /\ s.item = ses[w].item
    BY <1>0, <2>1 DEF SessionRow
  <2>3. /\ ses[w].pc = "record" /\ ses[w].out = "lost"
        /\ UNCHANGED <<batch, queue, budget, calls, drops>>
    BY <1>11 DEF ItemLost, brokerVars, history
  <2>4. i \in Own(b) /\ calls[i] <= drops[i] /\ ses[w].item[i] = "RUNNING"
    BY <1>0, <2>1, <2>3 DEF Knows, InHand, WorkPC, Session, b
  <2>5. /\ \A j \in Items : j \notin Own(b) => item'[j] = item[j]
        /\ Kept(b, batch', item', calls, drops)
    BY <1>1, <1>0, <2>1, <2>3, <2>4 DEF Knows, Kept, Own, SetItems, WorkPC, b
  <2>6. Knows(s, batch', item', calls, drops)
    BY <1>0, <2>1, <2>2, <2>3, <2>4
       DEF Knows, KnowsItem, InHand, InDoubt, WorkPC, Own, SetItems, TerminalItem, b
  <2>. QED  BY <1>2, <2>1, <2>2, <2>3, <2>5, <2>6 DEF WorkPC
<1>12. CASE AuthError(w)
  <2>1. PICK s : /\ s = [ses[w] EXCEPT !.pc = "authFailed", !.cur = None, !.out = "none"]
                 /\ Become(w, s)
    BY <1>12 DEF AuthError
  <2>2. s.pc = "authFailed" /\ s.msg = ses[w].msg /\ s.out = "none" /\ s.item = ses[w].item
    BY <1>0, <2>1 DEF SessionRow
  <2>3. ses[w].pc = "record" /\ UNCHANGED <<item, batch, queue, budget, calls, drops>>
    BY <1>12 DEF AuthError, brokerVars, dbVars, history
  <2>4. Knows(s, batch', item', calls, drops)
    BY <1>0, <2>2, <2>3 DEF Knows, KnowsItem, WorkPC, InDoubt
  <2>. QED  BY <1>1, <1>3, <2>1, <2>2, <2>3, <2>4 DEF WorkPC
<1>13. CASE FailPending(w)
  <2>. DEFINE U == Unfinished(w)
  <2>1. PICK k, l, s : /\ k = Remember(w, U, "FAILED")
                       /\ \/ ses[w].pc = "authFailed" /\ l = "loop"
                          \/ ses[w].pc = "failing" /\ l = "failBatch"
                       /\ s = [ses[w] EXCEPT !.item = k, !.pc = l] /\ Become(w, s)
    BY <1>13 DEF FailPending
  <2>2. s.pc = l /\ s.msg = ses[w].msg /\ s.out = ses[w].out /\ s.item = k
    BY <1>0, <2>1 DEF SessionRow
  <2>3. item' = SetItems(U, "FAILED") /\ UNCHANGED <<batch, queue, budget, calls, drops>>
    BY <1>13 DEF FailPending, brokerVars, history
  <2>4. U \subseteq Own(b)
    BY <1>0, <2>1 DEF Knows, WorkPC, Unfinished, Mine, b
  <2>5. /\ \A i \in Items : i \notin Own(b) => item'[i] = item[i]
        /\ Kept(b, batch', item', calls, drops)
    BY <1>1, <2>1, <2>3, <2>4 DEF Kept, Own, SetItems, TerminalItem
  <2>6. Knows(s, batch', item', calls, drops)
    <3>1. \A i \in Items : /\ s.item[i] = IF i \in U THEN "FAILED" ELSE ses[w].item[i]
                           /\ item'[i] = IF i \in U THEN "FAILED" ELSE item[i]
      BY <2>1, <2>2, <2>3 DEF Remember, SetItems
    <3>2. \A i \in Items : i \notin U => ses[w].item[i] \notin {"PENDING", "RUNNING"}
      BY DEF Unfinished, Mine
    <3>3. Knows(ses[w], batch, item, calls, drops) /\ ses[w].pc \in WorkPC \ {"failBatch", "connLost"}
      BY <1>0, <2>1 DEF WorkPC
    <3>4. \A i \in Own(b) : KnowsItem(ses[w], i, item, calls, drops)
      BY <3>3 DEF Knows, b
    <3>5. \A i \in Own(b) : i \in Items
      BY DEF Own
    <3>6. s.pc \notin {"connLost", "call", "record"}
      BY <2>1, <2>2
    <3>. HIDE DEF U
    <3>7. ASSUME NEW i \in Own(b) PROVE KnowsItem(s, i, item', calls, drops)
      <4>1. CASE i \in U
        BY <3>1, <3>5, <3>6, <4>1 DEF KnowsItem, TerminalItem
      <4>2. CASE i \notin U
        BY <3>1, <3>2, <3>3, <3>4, <3>5, <3>6, <4>2 DEF KnowsItem
      <4>. QED  BY <4>1, <4>2
    <3>8. \A i \in Items : (s.item[i] # "EXPIRED") <=> (i \in Own(b))
      BY <2>4, <3>1, <3>3 DEF Knows, b
    <3>9. batch'[s.msg.batch].status \notin Reported /\ s.msg.batch = b
      BY <2>2, <2>3, <3>3 DEF Knows, b
    <3>. QED  BY <3>6, <3>7, <3>8, <3>9 DEF Knows
  <2>. QED  BY <1>3, <2>1, <2>2, <2>3, <2>5, <2>6 DEF WorkPC
<1>14. CASE FinishBatch(w)
  <2>1. PICK s : s = [ses[w] EXCEPT !.pc = "count"] /\ Become(w, s)
    BY <1>14 DEF FinishBatch, Goto
  <2>2. s.pc = "count" /\ s.msg = ses[w].msg /\ s.out = ses[w].out
    BY <1>0, <2>1 DEF SessionRow
  <2>3. /\ ses[w].pc = "loop" /\ Mine(w, "PENDING") = {}
        /\ UNCHANGED <<item, queue, budget, calls, drops>>
        /\ \A c \in Batches : c # b => batch'[c] = batch[c]
    BY <1>14 DEF FinishBatch, SetBatchStatus, brokerVars, history, OnceInv, TypeOK, b
  <2>4. \A i \in Own(b) : item[i] \in TerminalItem
    <3>1. ASSUME NEW i \in Own(b)
          PROVE  ses[w].item[i] \in TerminalItem
      <4>1. i \in Items /\ ses[w].item[i] \in ItemStatus \cup {"EXPIRED"}
        BY <1>0 DEF SessionRow, Own
      <4>. QED
        BY <1>0, <2>3, <4>1
           DEF Knows, KnowsItem, WorkPC, InDoubt, Mine, ItemStatus, TerminalItem, b
    <3>. QED  BY <1>0, <2>3, <3>1 DEF Knows, KnowsItem, WorkPC, b
  <2>5. Kept(b, batch', item', calls, drops) /\ Knows(s, batch', item', calls, drops)
    BY <1>1, <2>2, <2>3, <2>4 DEF Kept, Knows, WorkPC, TerminalItem
  <2>. QED  BY <1>3, <2>1, <2>2, <2>3, <2>5 DEF WorkPC, RefreshPC
<1>15. CASE CancelPending(w)
  <2>. DEFINE U == Mine(w, "PENDING")
  <2>1. PICK k, s : s = [ses[w] EXCEPT !.pc = "count", !.item = k] /\ Become(w, s)
    BY <1>15 DEF CancelPending
  <2>2. s.pc = "count" /\ s.msg = ses[w].msg /\ s.out = ses[w].out
    BY <1>0, <2>1 DEF SessionRow
  <2>3. /\ ses[w].pc = "cancelPending" /\ item' = SetItems(U, "CANCELLED")
        /\ UNCHANGED <<queue, budget, calls, drops>>
        /\ \A c \in Batches : c # b => batch'[c] = batch[c]
        /\ batch'[b].status \in {batch[b].status, "CANCELLED"}
    BY <1>0, <1>15
       DEF CancelPending, SetBatchStatus, Column, brokerVars, history, OnceInv, TypeOK, BatchRow, b
  <2>4. U \subseteq Own(b)
    BY <1>0, <2>3 DEF Knows, WorkPC, Mine, b
  <2>5. /\ \A i \in Items : i \notin Own(b) => item'[i] = item[i]
        /\ Kept(b, batch', item', calls, drops)
    BY <1>1, <1>0, <2>3, <2>4 DEF Kept, Own, SetItems, TerminalItem, Reported, WorkPC
  <2>6. Knows(s, batch', item', calls, drops)
    BY <2>2 DEF Knows, WorkPC
  <2>. QED  BY <1>3, <2>1, <2>2, <2>3, <2>5, <2>6 DEF WorkPC, RefreshPC
<1>16. CASE ConnectionLost(w)
  <2>1. PICK l, s : /\ l = IF ses[w].msg.tries >= MaxRetries THEN "failing" ELSE "retrying"
                    /\ s = [Loaded(ses[w], NoRow) EXCEPT !.pc = l] /\ Become(w, s)
    BY <1>16 DEF ConnectionLost
  <2>2. /\ s.pc = l /\ s.msg = ses[w].msg /\ s.out = ses[w].out
        /\ s.item = [i \in Items |-> IF BatchOf[i] = b THEN item[i] ELSE "EXPIRED"]
    BY <1>0, <2>1 DEF SessionRow, Loaded, b
  <2>3. ses[w].pc = "connLost" /\ UNCHANGED <<item, batch, queue, budget, calls, drops>>
    BY <1>16 DEF ConnectionLost, brokerVars, history, dbVars
  <2>4. Knows(s, batch', item', calls, drops)
    BY <1>0, <1>1, <2>1, <2>2, <2>3
       DEF Knows, KnowsItem, Kept, WorkPC, Own, InDoubt, ItemStatus, b
  <2>5. l = "retrying" => MaxRetries # 0
    <3>1. ses[w].msg.tries \in Nat
      BY <1>0 DEF SessionRow, Message
    <3>. QED  BY <2>1, <3>1
  <2>6. l \in {"failing", "retrying"}
    BY <2>1
  <2>. QED  BY <1>1, <1>2, <2>1, <2>2, <2>3, <2>4, <2>5, <2>6 DEF WorkPC
<1>17. CASE MarkRetrying(w)
  <2>1. PICK s : s = [ses[w] EXCEPT !.pc = "republish"] /\ Become(w, s)
    BY <1>17 DEF MarkRetrying, Goto
  <2>2. s.pc = "republish" /\ s.msg = ses[w].msg /\ s.out = ses[w].out /\ s.item = ses[w].item
    BY <1>0, <2>1 DEF SessionRow
  <2>3. /\ ses[w].pc = "retrying" /\ item' = SetItems(Mine(w, "RUNNING"), "PENDING")
        /\ UNCHANGED <<queue, budget, calls, drops>>
        /\ \A c \in Batches : c # b => batch'[c] = batch[c]
        /\ batch'[b].status \in {batch[b].status, "RETRYING"}
    BY <1>0, <1>17
       DEF MarkRetrying, Requeued, SetBatchStatus, Column, brokerVars, history, OnceInv, TypeOK,
           BatchRow, b
  <2>4. UNCHANGED item
    <3>1. Mine(w, "RUNNING") = {}
      BY <1>0, <2>3 DEF Knows, KnowsItem, WorkPC, InDoubt, Mine
    <3>. QED  BY <1>0, <2>3, <3>1 DEF SetItems
  <2>5. Kept(b, batch', item', calls, drops)
    BY <1>1, <2>3, <2>4 DEF Kept, Reported
  <2>6. Knows(s, batch', item', calls, drops)
    BY <1>0, <2>2, <2>3, <2>4 DEF Knows, KnowsItem, WorkPC, InDoubt, Reported, b
  <2>. QED  BY <1>2, <2>1, <2>2, <2>3, <2>4, <2>5, <2>6 DEF WorkPC
<1>18. CASE MarkFailedSkipped(w)
  <2>1. PICK s : s = [ses[w] EXCEPT !.pc = "ack"] /\ Become(w, s)
    BY <1>18 DEF MarkFailedSkipped, Goto
  <2>2. s.pc = "ack" /\ s.msg = ses[w].msg /\ s.out = ses[w].out
    BY <1>0, <2>1 DEF SessionRow
  <2>3. ses[w].pc = "failing" /\ UNCHANGED <<item, batch, queue, budget, calls, drops>>
    BY <1>18 DEF MarkFailedSkipped, brokerVars, history, dbVars
  <2>. QED  BY <1>1, <1>3, <2>1, <2>2, <2>3 DEF WorkPC, Knows
<1>19. CASE FailBatch(w)
  <2>1. PICK s : s = [ses[w] EXCEPT !.pc = "count"] /\ Become(w, s)
    BY <1>19 DEF FailBatch, Goto
  <2>2. s.pc = "count" /\ s.msg = ses[w].msg /\ s.out = ses[w].out
    BY <1>0, <2>1 DEF SessionRow
  <2>3. /\ ses[w].pc = "failBatch" /\ UNCHANGED <<item, queue, budget, calls, drops>>
        /\ \A c \in Batches : c # b => batch'[c] = batch[c]
        /\ batch'[b].status \in {batch[b].status, "FAILED"}
    BY <1>0, <1>19
       DEF FailBatch, SetBatchStatus, Column, brokerVars, history, OnceInv, TypeOK, BatchRow, b
  <2>4. Kept(b, batch', item', calls, drops) /\ Knows(s, batch', item', calls, drops)
    BY <1>1, <2>2, <2>3 DEF Kept, Reported, Knows, WorkPC
  <2>. QED  BY <1>3, <2>1, <2>2, <2>3, <2>4 DEF WorkPC, RefreshPC
<1>20. CASE AbortTask(w)
  <2>1. PICK s : /\ s = [ses[w] EXCEPT !.pc = "failing", !.cur = None, !.out = "none"]
                 /\ Become(w, s)
    BY <1>20 DEF AbortTask
  <2>2. s.pc = "failing" /\ s.msg = ses[w].msg /\ s.out = "none" /\ s.item = ses[w].item
    BY <1>0, <2>1 DEF SessionRow
  <2>3. /\ ses[w].pc \in {"loop", "call", "record"} /\ Spend("abort")
        /\ UNCHANGED <<item, batch, queue, calls, drops>>
    BY <1>20 DEF AbortTask, brokerVars, dbVars, history
  <2>4. \A f \in Faults : budget[f] = 0 => budget'[f] = 0
    BY <2>3, EngineOK, SpendType DEF OnceInv
  <2>5. Knows(s, batch', item', calls, drops)
    BY <1>0, <2>2, <2>3 DEF Knows, KnowsItem, WorkPC, InDoubt
  <2>. QED  BY <1>1, <1>2, <2>1, <2>2, <2>3, <2>4, <2>5 DEF WorkPC
<1>. QED
  BY <1>4, <1>5, <1>6, <1>7, <1>8, <1>9, <1>10, <1>11, <1>12, <1>13, <1>14, <1>15, <1>16, <1>17,
     <1>18, <1>19, <1>20

\* Steps that leave the rows alone: only the mover may have to learn something.
LEMMA RowsStay ==
  ASSUME OnceInv, NEW p \in Processes, UNCHANGED <<batch, item, calls, drops>>,
         \A q \in Processes : q # p => ses'[q] = ses[q],
         p \in Workers => Knows(ses'[p], batch, item, calls, drops)
  PROVE  Aware' /\ AllKept'
<1>1. ASSUME NEW v \in Workers PROVE Knows(ses'[v], batch, item, calls, drops)
  BY DEF OnceInv, Aware, Processes
<1>. QED  BY <1>1 DEF OnceInv, Aware, AllKept

\* The broker's side of a worker, and the refresh that ends a batch.
LEMMA BrokerInv ==
  ASSUME OnceInv, NEW w \in Workers,
         \/ Receive(w) \/ Republish(w)
         \/ (RefreshProgress(w) \/ Ack(w) \/ WorkerCrash(w) \/ Discard(w)) /\ UNCHANGED history
  PROVE  /\ OneInCharge' /\ Aware' /\ AllKept'
         /\ \A f \in Faults : budget[f] = 0 => budget'[f] = 0
         /\ \A q \in Processes : q # w => ses'[q] = ses[q]
         /\ ses'[w].pc \notin {"connLost", "retrying", "republish"}
         /\ ses'[w].out = "lost" => ses[w].out = "lost"
<1>. DEFINE Goal == /\ OneInCharge' /\ Aware' /\ AllKept'
                    /\ \A f \in Faults : budget[f] = 0 => budget'[f] = 0
                    /\ \A q \in Processes : q # w => ses'[q] = ses[q]
                    /\ ses'[w].pc \notin {"connLost", "retrying", "republish"}
                    /\ ses'[w].out = "lost" => ses[w].out = "lost"
<1>0. /\ w \in Processes /\ ses[w] \in Session /\ ses[w] \in SessionRow
      /\ ses[w].pc # "idle" => ses[w].msg.batch \in Batches
      /\ item \in [Items -> ItemStatus] /\ OneInCharge
  BY DEF OnceInv, TypeOK, Session, Processes, OneInCharge, Orderly
<1>1. ASSUME NEW s, Become(w, s)
      PROVE  ses'[w] = s /\ \A q \in Processes : q # w => ses'[q] = ses[q]
  BY <1>0, <1>1 DEF Become, OnceInv, TypeOK
<1>. SUFFICES Goal
  OBVIOUS
<1>2. CASE Receive(w) /\ ~UNCHANGED ses
  <2>1. PICK m, x, s :
          /\ m \in queue
          /\ queue' = queue \ {m} /\ batch[m.batch].status \notin TerminalBatch
          /\ x = [Idle("loaded") EXCEPT !.msg = m] /\ s = Loaded(x, job) /\ Become(w, s)
    BY <1>2 DEF Receive
  <2>2. x.pc = "loaded" /\ x.msg = m /\ x.out = "none"
    BY <2>1 DEF Idle
  <2>3. x \in SessionRow
    <3>1. Idle("loaded") \in SessionRow /\ m \in Message
      BY <2>1, IdleSession DEF PC, Place, WorkerPC, Session, OnceInv, TypeOK
    <3>. QED  BY <2>1, <3>1 DEF SessionRow
  <2>4. /\ s.pc = "loaded" /\ s.msg = m /\ s.out = "none"
        /\ s.item = [i \in Items |-> IF BatchOf[i] = m.batch THEN item[i] ELSE "EXPIRED"]
    BY <2>1, <2>2, <2>3 DEF Loaded, SessionRow
  <2>5. /\ UNCHANGED <<batch, item, calls, drops, budget>> /\ m.batch \in Batches
        /\ ses'[w] = s /\ \A q \in Processes : q # w => ses'[q] = ses[q]
    BY <1>0, <1>1, <1>2, <2>1 DEF Receive, dbVars, history, OneInCharge
  <2>6. Knows(s, batch, item, calls, drops)
    BY <1>0, <2>1, <2>4, <2>5
       DEF Knows, KnowsItem, WorkPC, Own, InDoubt, ItemStatus, Reported, TerminalBatch, OnceInv,
           AllKept, Kept
  <2>7. Aware' /\ AllKept'
    BY <1>0, <2>5, <2>6, RowsStay
  <2>8. OneInCharge'
    BY <1>0, <2>1, <2>4, <2>5, Pick DEF WorkPC
  <2>. QED  BY <2>4, <2>5, <2>7, <2>8
<1>3. CASE (Receive(w) \/ (Discard(w) /\ UNCHANGED history)) /\ UNCHANGED ses
  <2>1. queue' \subseteq queue /\ UNCHANGED <<batch, item, calls, drops, budget, ses>>
    BY <1>3 DEF Receive, Discard, dbVars, history
  <2>2. OneInCharge'
    BY <1>0, <2>1, Drop
  <2>3. Aware' /\ AllKept'
    BY <2>1 DEF OnceInv, Aware, AllKept
  <2>4. ses[w].pc = "idle"
    BY <1>3 DEF Receive, Discard
  <2>. QED  BY <2>1, <2>2, <2>3, <2>4
<1>4. CASE Republish(w)
  <2>1. PICK m, s : /\ m = [ses[w].msg EXCEPT !.tries = ses[w].msg.tries + 1]
                    /\ queue' = queue \cup {m}
                    /\ s = [ses[w] EXCEPT !.pc = "ack"] /\ Become(w, s)
    BY <1>4 DEF Republish, Goto
  <2>2. /\ s.pc = "ack" /\ s.msg = ses[w].msg /\ s.out = ses[w].out /\ m.batch = s.msg.batch
    BY <1>0, <2>1 DEF SessionRow, Message
  <2>3. /\ ses[w].pc = "republish" /\ UNCHANGED <<batch, item, calls, drops, budget>>
        /\ ses'[w] = s /\ \A q \in Processes : q # w => ses'[q] = ses[q]
    BY <1>1, <1>4, <2>1 DEF Republish, dbVars, history
  <2>4. budget["crash"] = 0
    BY <2>3 DEF OnceInv, Calm, NoRetry
  <2>5. OneInCharge'
    BY <1>0, <2>1, <2>2, <2>3, <2>4, PublishAgain DEF WorkPC
  <2>6. Aware' /\ AllKept'
    BY <1>0, <2>2, <2>3, RowsStay DEF Knows, WorkPC
  <2>. QED  BY <2>2, <2>3, <2>5, <2>6
<1>5. CASE RefreshProgress(w) /\ UNCHANGED history
  <2>1. /\ ses[w].pc \in RefreshPC /\ ses'[w].pc \in RefreshPC \cup {"ack"}
        /\ ses'[w].msg = ses[w].msg /\ ses'[w].out = ses[w].out
        /\ \A q \in Processes : q # w => ses'[q] = ses[q]
        /\ UNCHANGED <<batch, item, queue, budget, calls, drops>>
    BY <1>0, <1>5, EngineOK, RefreshType DEF OnceInv, brokerVars, history
  <2>2. OneInCharge'
    BY <1>0, <2>1, WorkOn
  <2>3. Aware' /\ AllKept'
    BY <1>0, <2>1, RowsStay DEF Knows, WorkPC, RefreshPC
  <2>. QED  BY <2>1, <2>2, <2>3 DEF RefreshPC
<1>6. CASE (Ack(w) \/ WorkerCrash(w)) /\ UNCHANGED history
  <2>1. PICK s : s = Idle("idle") /\ Become(w, s)
    BY <1>6 DEF Ack, WorkerCrash
  <2>2. s.pc = "idle" /\ s.out = "none"
    BY <2>1 DEF Idle
  <2>3. /\ UNCHANGED <<batch, item, calls, drops>>
        /\ ses'[w] = s /\ \A q \in Processes : q # w => ses'[q] = ses[q]
        /\ \A f \in Faults : budget[f] = 0 => budget'[f] = 0
    BY <1>1, <1>6, <2>1, EngineOK, SpendType DEF Ack, WorkerCrash, dbVars, history, OnceInv
  <2>4. OneInCharge'
    <3>1. CASE Ack(w)
      BY <1>0, <2>2, <2>3, <3>1, LayDown DEF Ack, brokerVars, Faults
    <3>2. CASE WorkerCrash(w)
      <4>1. budget["crash"] # 0 /\ ses[w].pc # "idle" /\ queue' = queue \cup {ses[w].msg}
        BY <3>2 DEF WorkerCrash, Spend, OnceInv, TypeOK
      <4>. QED  BY <1>0, <2>2, <2>3, <4>1, Redeliver
    <3>. QED  BY <1>6, <3>1, <3>2
  <2>5. Aware' /\ AllKept'
    BY <1>0, <2>2, <2>3, RowsStay DEF Knows, WorkPC
  <2>. QED  BY <2>2, <2>3, <2>4, <2>5
<1>7. Discard(w) => UNCHANGED ses
  BY DEF Discard
<1>. HIDE DEF Goal
<1>. QED  BY <1>2, <1>3, <1>4, <1>5, <1>6, <1>7

\* A request changes items of a batch at work only to CANCELLED, and the status
\* of the batch to nothing that reports it as done.
LEMMA RequestInv ==
  ASSUME OnceInv, Retriers = {}, NEW r \in Requests, RequestNext(r), UNCHANGED history
  PROVE  OneInCharge' /\ Calm' /\ Aware' /\ AllKept'
<1>0. /\ r \notin Workers /\ r \in Processes
      /\ \A q \in Processes : q # r => ses'[q] = ses[q]
      /\ \A i \in Items : item'[i] = item[i]
                         \/ (item'[i] = "CANCELLED" /\ ses[r].pc = "cancel")
      /\ \A b \in Batches : batch'[b].status \in {batch[b].status, "QUEUED", "PENDING", "CANCELLED"}
      /\ \A f \in Faults : budget[f] = 0 => budget'[f] = 0
      /\ UNCHANGED <<calls, drops>>
  BY EngineOK, RequestMoves, RequestType, EngineAssumption
     DEF OnceInv, EngineAssumption, Processes, history
<1>1. OneInCharge'
  BY EngineOK, RequestCharge DEF OnceInv
<1>2. Calm'
  BY <1>0 DEF OnceInv, Calm, NoRetry, Faults, Processes
<1>3. ses[r].pc = "cancel" => Cancellers # {}
  BY <1>0 DEF OnceInv, OneInCharge, Orderly
<1>4. ASSUME NEW v \in Workers
      PROVE  Knows(ses'[v], batch', item', calls', drops')
  <2>1. PICK s : s = ses[v] /\ s = ses'[v] /\ s \in Session
    BY <1>0 DEF Processes, OnceInv, TypeOK
  <2>2. CASE s.pc \notin WorkPC
    BY <2>1, <2>2 DEF Knows
  <2>3. CASE s.pc \in WorkPC
    <3>1. s.msg.batch \in Batches /\ Knows(s, batch, item, calls, drops)
      BY <2>1, <2>3 DEF OnceInv, OneInCharge, Orderly, Processes, WorkPC, Aware
    <3>2. s.pc \in {"call", "record"} => s.cur \in Items
      BY <2>1 DEF Session
    <3>. QED
      BY <1>0, <1>3, <2>1, <3>1, <3>2
         DEF Knows, KnowsItem, InHand, Own, Reported, TerminalItem
  <2>. QED  BY <2>2, <2>3
<1>5. ASSUME NEW b \in Batches
      PROVE  Kept(b, batch', item', calls', drops')
  BY <1>0 DEF OnceInv, AllKept, Kept, Own, Reported, TerminalItem
<1>. QED  BY <1>1, <1>2, <1>4, <1>5 DEF Aware, AllKept

LEMMA CalmStep ==
  ASSUME Calm, NEW w \in Workers, \A q \in Processes : q # w => ses'[q] = ses[q],
         \A f \in Faults : budget[f] = 0 => budget'[f] = 0, Hesitates(w)
  PROVE  Calm'
<1>1. CASE budget["crash"] = 0
  BY <1>1 DEF Calm, Faults
<1>2. CASE MaxRetries = 0 /\ \A v \in Workers : ses[v].pc \notin {"retrying", "republish"}
  BY <1>2 DEF Calm, NoRetry, Hesitates, Processes
<1>3. CASE /\ budget["conn"] = 0
           /\ \A v \in Workers : /\ ses[v].pc \notin {"connLost", "retrying", "republish"}
                                 /\ ses[v].out # "lost"
  BY <1>3 DEF Calm, NoRetry, Hesitates, Processes, Faults
<1>. QED  BY <1>1, <1>2, <1>3 DEF Calm, NoRetry

LEMMA OnceInit == SingleDelivery /\ Init => OnceInv
<1>. SUFFICES ASSUME SingleDelivery, Init PROVE OnceInv
  OBVIOUS
<1>1. TypeOK /\ OneInCharge
  BY InitTypeOK, InitCharge DEF Init
<1>2. /\ \A p \in Processes : ses[p] = Idle(IF p = Creator THEN "dispatch" ELSE "idle")
      /\ Creator \notin Workers /\ budget \in Budgets
      /\ \A l : Idle(l).pc = l /\ Idle(l).out = "none"
  BY EngineAssumption DEF Init, EngineInit, EngineAssumption, Requests, Idle
<1>3. \A w \in Workers : ses[w].pc = "idle" /\ ses[w].out = "none"
  BY <1>2 DEF Processes
<1>4. Calm
  BY <1>2, <1>3 DEF SingleDelivery, Calm, NoRetry
<1>5. Aware
  BY <1>3 DEF Aware, Knows, WorkPC
<1>6. AllKept
  BY DEF AllKept, Kept, Own, Init, EngineInit, Reported
<1>. QED  BY <1>1, <1>4, <1>5, <1>6 DEF OnceInv

LEMMA OnceStep == SingleDelivery /\ OnceInv /\ [Next]_vars => OnceInv'
<1>. SUFFICES ASSUME SingleDelivery, OnceInv, [Next]_vars PROVE OnceInv'
  OBVIOUS
<1>0. TypeOK'
  BY StepTypeOK DEF OnceInv
<1>1. CASE UNCHANGED vars
  BY <1>0, <1>1
     DEF vars, engineVars, history, OnceInv, OneInCharge, MayCrash, Calm, NoRetry, Aware, AllKept
<1>2. ASSUME NEW w \in Workers, WorkerProgress(w) \/ WorkerFault(w)
      PROVE  OneInCharge' /\ Calm' /\ Aware' /\ AllKept'
  <2>1. CASE Works(w) /\ Hesitates(w)
    <3>1. Calm'
      BY <1>2, <2>1, CalmStep DEF OnceInv, Works
    <3>. QED  BY <1>2, <2>1, <3>1, WorksInv
  <2>2. CASE \/ Receive(w) \/ Republish(w)
             \/ (RefreshProgress(w) \/ Ack(w) \/ WorkerCrash(w) \/ Discard(w)) /\ UNCHANGED history
    <3>1. /\ OneInCharge' /\ Aware' /\ AllKept'
          /\ \A f \in Faults : budget[f] = 0 => budget'[f] = 0
          /\ \A q \in Processes : q # w => ses'[q] = ses[q]
          /\ Hesitates(w)
      BY <1>2, <2>2, BrokerInv DEF Hesitates
    <3>2. Calm'
      BY <1>2, <3>1, CalmStep DEF OnceInv
    <3>. QED  BY <3>1, <3>2
  <2>3. \/ MarkUncertain(w) \/ Claim(w) \/ StartBatch(w) \/ CheckCancel(w) \/ StartItem(w)
        \/ SapCall(w) \/ ItemDone(w) \/ ItemLost(w) \/ AuthError(w) \/ FailPending(w)
        \/ FinishBatch(w) \/ CancelPending(w) \/ ConnectionLost(w) \/ MarkRetrying(w)
        \/ MarkFailedSkipped(w) \/ FailBatch(w) \/ AbortTask(w)
        \/ Receive(w) \/ Republish(w)
        \/ (RefreshProgress(w) \/ Ack(w) \/ WorkerCrash(w) \/ Discard(w)) /\ UNCHANGED history
    BY <1>2 DEF WorkerProgress, WorkerFault
  <2>. QED  BY <1>2, <2>1, <2>2, <2>3, WorkerWorks
<1>3. ASSUME NEW r \in Requests, RequestNext(r), UNCHANGED history
      PROVE  OneInCharge' /\ Calm' /\ Aware' /\ AllKept'
  BY <1>3, RequestInv DEF SingleDelivery
<1>. QED  BY <1>0, <1>1, <1>2, <1>3 DEF OnceInv, Next

LEMMA OnceAlways == ASSUME SingleDelivery PROVE Spec => []OnceInv
<1>1. Init => OnceInv
  BY OnceInit
<1>2. OnceInv /\ [Next]_vars => OnceInv'
  BY OnceStep
<1>. QED  BY <1>1, <1>2, PTL DEF Spec

\* With one dispatch, and no task retried as long as a worker may die, no batch
\* is executed by two workers at a time: neither a redelivery, nor a revoked or
\* stale message, nor a cancellation makes a second one of the first.
THEOREM OneWorkerPerBatch == ASSUME SingleDelivery PROVE Spec => []SoleExecutor
<1>1. OnceInv => SoleExecutor
  BY Apart DEF OnceInv, SoleExecutor, Executing, WorkPC
<1>. QED  BY <1>1, OnceAlways, PTL

\* ... SAP is called again for an item only after a call that was cut off: a
\* batch delivered again after its worker died marks what was under way.
THEOREM NoItemReplayed == ASSUME SingleDelivery PROVE Spec => []NoBlindReplay
<1>1. OnceInv => NoBlindReplay
  BY EngineAssumption DEF OnceInv, AllKept, Kept, Own, NoBlindReplay, EngineAssumption
<1>. QED  BY <1>1, OnceAlways, PTL

\* ... and a batch reported as completed has no item waiting or in doubt.
THEOREM CompletedIsSettled == ASSUME SingleDelivery PROVE Spec => []FinishedBatchSettled
<1>1. OnceInv => FinishedBatchSettled
  BY EngineAssumption
     DEF OnceInv, AllKept, Kept, Own, Reported, FinishedBatchSettled, EngineAssumption
<1>. QED  BY <1>1, OnceAlways, PTL

-----------------------------------------------------------------------------
(***************************************************************************)
(* The contract of the items.  Without a request that cancels from outside, *)
(* what the worker remembers of its items is what the rows say, so every    *)
(* write it makes is one of the contract's steps.                           *)
(***************************************************************************)
\* The writes the contract provides for: to many items,
LEMMA Written ==
  ASSUME NEW S \in SUBSET Items, UNCHANGED effected,
         \/ /\ item' = SetItems(S, "FAILED")
            /\ \A i \in S : item[i] \in {"PENDING", "RUNNING"}
         \/ /\ item' = SetItems(S, "CANCELLED")
            /\ \A i \in S : item[i] = "PENDING"
  PROVE  Contract!Next
<1>1. CASE /\ item' = SetItems(S, "FAILED")
           /\ \A i \in S : item[i] \in {"PENDING", "RUNNING"}
  <2>1. Contract!Put(S, "FAILED")
    BY <1>1 DEF Contract!Put, SetItems
  <2>. QED  BY <1>1, <2>1 DEF Contract!Next, Contract!Fail
<1>2. CASE /\ item' = SetItems(S, "CANCELLED")
           /\ \A i \in S : item[i] = "PENDING"
  <2>1. Contract!Put(S, "CANCELLED")
    BY <1>2 DEF Contract!Put, SetItems
  <2>. QED  BY <1>2, <2>1 DEF Contract!Next, Contract!Cancel
<1>. QED  BY <1>1, <1>2

\* and to the item in hand.
LEMMA WrittenOne ==
  ASSUME NEW i \in Items, NEW v, item' = SetItems({i}, v), UNCHANGED effected,
         \/ v = "RUNNING" /\ item[i] = "PENDING"
         \/ v \in {"PENDING", "FAILED"} /\ item[i] = "RUNNING"
         \/ v = "SUCCEEDED" /\ item[i] = "RUNNING" /\ i \in effected
  PROVE  Contract!Next
<1>1. Contract!Put({i}, v)
  BY DEF Contract!Put, SetItems
<1>2. CASE v = "FAILED" /\ item[i] = "RUNNING"
  BY <1>2, Written
<1>. QED
  BY <1>1, <1>2 DEF Contract!Next, Contract!Start, Contract!GiveBack, Contract!Succeed

\* What a worker remembers is what the rows say, outside a lost connection.
LEMMA Remembered ==
  ASSUME OnceInv, Cancellers = {}, NEW w \in Workers, NEW i \in Items,
         ses[w].pc \in WorkPC \ {"failBatch", "connLost"}, ses[w].item[i] # "EXPIRED"
  PROVE  item[i] = ses[w].item[i]
  BY DEF OnceInv, Aware, Knows, KnowsItem, Own

LEMMA WorkerContract ==
  ASSUME OnceInv, SuccessInv, Cancellers = {}, NEW w \in Workers,
         WorkerProgress(w) \/ WorkerFault(w)
  PROVE  Contract!Next \/ UNCHANGED <<item, effected>>
<1>0. /\ w \in Processes /\ ses[w] \in Session
      /\ item \in [Items -> ItemStatus] /\ Knows(ses[w], batch, item, calls, drops)
  BY DEF OnceInv, TypeOK, Processes, Aware
<1>1. CASE MarkUncertain(w)
  <2>1. ses[w].pc = "loaded" /\ item' = SetItems(Mine(w, "RUNNING"), "FAILED") /\ UNCHANGED effected
    BY <1>1 DEF MarkUncertain, UncertainVerdict, history
  <2>2. \A i \in Mine(w, "RUNNING") : item[i] = "RUNNING"
    BY <2>1, Remembered DEF Mine, WorkPC
  <2>. QED  BY <2>1, <2>2, Written DEF Mine
<1>2. CASE StartItem(w)
  <2>1. PICK i \in Mine(w, "PENDING") : item' = SetItems({i}, "RUNNING")
    BY <1>2 DEF StartItem
  <2>2. ses[w].pc = "start" /\ UNCHANGED effected
    BY <1>2 DEF StartItem, history
  <2>3. i \in Items /\ item[i] = "PENDING"
    BY <2>2, Remembered DEF Mine, WorkPC
  <2>. QED  BY <2>1, <2>2, <2>3, WrittenOne
<1>3. CASE SapCall(w)
  <2>1. ses[w].pc = "call" /\ UNCHANGED item
    BY <1>3 DEF SapCall, dbVars
  <2>2. ses[w].cur \in Items /\ ses[w].item[ses[w].cur] = "RUNNING"
    BY <1>0, <2>1 DEF Session, Knows, InHand, WorkPC
  <2>3. item[ses[w].cur] = "RUNNING"
    BY <2>1, <2>2, Remembered DEF WorkPC
  <2>4. UNCHANGED effected \/ effected' = effected \cup {ses[w].cur}
    BY <1>3 DEF SapCall
  <2>. QED  BY <2>1, <2>2, <2>3, <2>4 DEF Contract!Next, Contract!Act
<1>4. CASE ItemDone(w) \/ ItemLost(w)
  <2>1. PICK i : i = ses[w].cur
    OBVIOUS
  <2>2. /\ ses[w].pc = "record" /\ UNCHANGED effected
        /\ \/ item' = SetItems({i}, "PENDING")
           \/ item' = SetItems({i}, "FAILED")
           \/ item' = SetItems({i}, "SUCCEEDED") /\ ses[w].out = "ok"
    BY <1>4, <2>1 DEF ItemDone, ItemLost, RecordResult, ItemVerdict, history
  <2>3. i \in Items /\ ses[w].item[i] = "RUNNING"
    BY <1>0, <2>1, <2>2 DEF Session, Knows, InHand, WorkPC
  <2>4. item[i] = "RUNNING"
    BY <2>2, <2>3, Remembered DEF WorkPC
  <2>5. ses[w].out = "ok" => i \in effected
    BY <1>0, <2>1 DEF SuccessInv, Witnessed
  <2>. QED  BY <2>2, <2>3, <2>4, <2>5, WrittenOne
<1>5. CASE FailPending(w)
  <2>1. /\ ses[w].pc \in {"authFailed", "failing"} /\ UNCHANGED effected
        /\ item' = SetItems(Unfinished(w), "FAILED")
    BY <1>5 DEF FailPending, history
  <2>2. \A i \in Unfinished(w) : item[i] \in {"PENDING", "RUNNING"}
    BY <2>1, Remembered DEF Unfinished, Mine, WorkPC
  <2>. QED  BY <2>1, <2>2, Written DEF Unfinished, Mine
<1>6. CASE CancelPending(w)
  <2>1. /\ ses[w].pc = "cancelPending" /\ UNCHANGED effected
        /\ item' = SetItems(Mine(w, "PENDING"), "CANCELLED")
    BY <1>6 DEF CancelPending, history
  <2>2. \A i \in Mine(w, "PENDING") : item[i] = "PENDING"
    BY <2>1, Remembered DEF Mine, WorkPC
  <2>. QED  BY <2>1, <2>2, Written DEF Mine
<1>7. CASE MarkRetrying(w)
  <2>1. ses[w].pc = "retrying" /\ UNCHANGED effected /\ item' = SetItems(Mine(w, "RUNNING"), "PENDING")
    BY <1>7 DEF MarkRetrying, Requeued, history
  <2>2. Mine(w, "RUNNING") = {}
    BY <1>0, <2>1 DEF Knows, KnowsItem, WorkPC, InDoubt, Mine
  <2>. QED  BY <1>0, <2>1, <2>2 DEF SetItems
<1>8. CASE RefreshProgress(w) /\ UNCHANGED history
  BY <1>0, <1>8, EngineOK, RefreshType DEF OnceInv, history
<1>. QED
  BY <1>1, <1>2, <1>3, <1>4, <1>5, <1>6, <1>7, <1>8
     DEF WorkerProgress, WorkerFault, Receive, Claim, StartBatch, CheckCancel, AuthError,
         FinishBatch, ConnectionLost, Republish, MarkFailedSkipped, FailBatch, Ack, AbortTask,
         WorkerCrash, Discard, dbVars, history

\* Whatever dies, is cut off, refused or aborted, the engine and its workers act
\* on an item only while it is RUNNING, record a success only after SAP acted,
\* and never change a recorded result, as long as nobody cancels from outside.
THEOREM ContractIsKept ==
  ASSUME SingleDelivery, Cancellers = {} PROVE Spec => ImplementsContract
<1>1. Init => Contract!Init
  BY DEF Init, EngineInit, Contract!Init
<1>2. OnceInv /\ SuccessInv /\ [Next]_vars => [Contract!Next]_<<item, effected>>
  <2>. SUFFICES ASSUME OnceInv, SuccessInv, [Next]_vars
                PROVE  Contract!Next \/ UNCHANGED <<item, effected>>
    OBVIOUS
  <2>1. CASE UNCHANGED vars
    BY <2>1 DEF vars, engineVars, history
  <2>2. ASSUME NEW w \in Workers, WorkerProgress(w) \/ WorkerFault(w)
        PROVE  Contract!Next \/ UNCHANGED <<item, effected>>
    BY <2>2, WorkerContract
  <2>3. ASSUME NEW r \in Requests, RequestNext(r), UNCHANGED history
        PROVE  UNCHANGED <<item, effected>>
    <3>1. ses[r].pc # "cancel" /\ item \in [Items -> ItemStatus]
      BY DEF OnceInv, OneInCharge, Orderly, Processes, TypeOK
    <3>2. /\ \A i \in Items : item'[i] = item[i] \/ ses[r].pc = "cancel"
          /\ item' \in [Items -> ItemStatus]
      BY <2>3, EngineOK, RequestType DEF OnceInv, EngineTypes
    <3>. QED  BY <2>3, <3>1, <3>2 DEF history
  <2>. QED  BY <2>1, <2>2, <2>3 DEF Next
<1>3. Spec => []SuccessInv
  BY SuccessAlways
<1>. QED
  BY <1>1, <1>2, <1>3, OnceAlways, PTL DEF Spec, ImplementsContract, Contract!Spec, Contract!contractVars

------------------------------------------------------------------------------
(***************************************************************************)
(* How a job ends.  Without a cancellation a batch that is over stays over: *)
(* the worker at work on a batch found it unfinished, and is alone with it.  *)
(* So a job that is over has no batch left to reopen it, and the worker that *)
(* finishes the last batch, or one that counts after it, closes the job.    *)
(***************************************************************************)
Uninterrupted == SingleDelivery /\ Cancellers = {} /\ \A f \in Budgets : f["module"] = 0
Lossless == \A f \in Budgets : f["crash"] = 0 /\ f["request"] = 0

AllOver(bt) == \A b \in Batches : bt[b].status \in TerminalBatch
Over(row) == row.status \in TerminalJob

DispatchPC == {"dispatch", "mark", "publish", "dispatchFailed", "done"}

\* What a session relies on about the batches and about the job.
Follows(s, bt, jb) ==
    /\ s.pc \in WorkPC =>
          /\ bt[s.msg.batch].status \notin TerminalBatch
          /\ s.batch[s.msg.batch].status \notin TerminalBatch
    /\ s.pc \in {"mark", "publish"} => \A c \in s.todo : bt[c].status \notin TerminalBatch
    /\ s.pc = "publish" => bt[s.msg.batch].status = "QUEUED"
    /\ s.pc = "dispatchFailed" => s.msg.batch \in Batches /\ bt[s.msg.batch].status = "PENDING"
    /\ Over(s.job) => Over(jb)
    /\ s.pc = "countBatches" => s.new.status = s.job.status
    /\ s.pc = "save" /\ s.new.status # s.job.status => Over(s.new) /\ AllOver(bt)

\* A batch is PENDING only while no message and no worker has it.
Unpublished ==
    /\ \A m \in queue : batch[m.batch].status # "PENDING"
    /\ \A w \in Workers : \A b \in Charge(ses[w], MayCrash) : batch[b].status # "PENDING"

Ending ==
    /\ budget["module"] = 0
    /\ \A r \in Requests : ses[r].pc \in DispatchPC
    /\ \A p \in Processes : Follows(ses[p], batch, job)
    /\ Unpublished
    /\ Over(job) => AllOver(batch)

EndInv == OnceInv /\ Ending

\* Somebody still has to count the batches, or has counted them all.
Closing(s) == s.pc \in {"count", "countBatches"} \/ (s.pc = "save" /\ Over(s.new))

\* The dispatcher still holds b back, or is about to say that it could not.
Holding(s, b) ==
    s.pc \in {"dispatch", "dispatchFailed"} \/ (s.pc \in {"mark", "publish"} /\ b \in s.todo)

ToldInv ==
    /\ budget["crash"] = 0 /\ budget["request"] = 0
    /\ AllOver(batch) => Over(job) \/ \E p \in Processes : Closing(ses[p])
    /\ \A b \in Batches : batch[b].status = "PENDING" =>
          job.status = "DISPATCH_FAILED" \/ \E r \in Requests : Holding(ses[r], b)

\* A step of p, which touches no batch but one that it has and that is not over,
Advances(p, b) ==
    /\ \A q \in Processes : q # p => ses'[q] = ses[q]
    /\ \A f \in Faults : budget[f] = 0 => budget'[f] = 0
    /\ \/ UNCHANGED batch
       \/ /\ b \in Charge(ses[p], MayCrash) \cap Batches
          /\ batch[b].status \notin TerminalBatch
          /\ \A c \in Batches : c # b => batch'[c] = batch[c]
    /\ p \in Requests => ses'[p].pc \in DispatchPC
    /\ Follows(ses'[p], batch', job')
    /\ \A m \in queue' : m \in queue \/ batch'[m.batch].status # "PENDING"
    /\ p \in Workers => \A c \in Charge(ses'[p], MayCrash') : batch'[c].status # "PENDING"
    /\ Over(job) => Over(job')
    /\ Over(job') => AllOver(batch')

\* and hides neither the end of the job nor a batch that was not published.
Tells(p) ==
    /\ AllOver(batch') =>
          Over(job') \/ Closing(ses'[p]) \/ (AllOver(batch) /\ ~Closing(ses[p]))
    /\ \A c \in Batches : batch'[c].status = "PENDING" =>
          /\ batch[c].status = "PENDING" \/ (p \in Requests /\ Holding(ses'[p], c))
          /\ job.status = "DISPATCH_FAILED" => job'.status = "DISPATCH_FAILED"
          /\ p \in Requests /\ Holding(ses[p], c)
                => Holding(ses'[p], c) \/ job'.status = "DISPATCH_FAILED"

LEMMA AdvanceInv ==
  ASSUME EndInv, Cancellers = {}, Retriers = {}, NEW p \in Processes, NEW b, Advances(p, b)
  PROVE  Ending'
<1>. DEFINE Touched == /\ b \in Charge(ses[p], MayCrash) \cap Batches
                       /\ batch[b].status \notin TerminalBatch
                       /\ \A c \in Batches : c # b => batch'[c] = batch[c]
<1>0. /\ OneInCharge /\ Ending /\ Requests = {Creator} /\ Requests \cap Workers = {}
      /\ UNCHANGED batch \/ Touched
      /\ \A q \in Processes : q # p => ses'[q] = ses[q]
      /\ budget["crash"] = 0 => budget'["crash"] = 0
  BY EngineAssumption DEF EndInv, OnceInv, Requests, Advances, EngineAssumption, Faults
<1>1. Touched => /\ ~AllOver(batch) /\ ~Over(job)
                 /\ \A q \in Processes : q # p => b \notin Charge(ses[q], MayCrash)
                 /\ \A m \in queue : m.batch # b
  BY <1>0 DEF AllOver, Ending, OneInCharge
<1>2. ASSUME NEW q \in Processes, q # p
      PROVE  Follows(ses'[q], batch', job')
  <2>1. PICK s : s = ses[q] /\ s = ses'[q]
    BY <1>0, <1>2
  <2>2. Follows(s, batch, job) /\ Orderly(q, s) /\ (q \in Requests => s.pc \in DispatchPC)
    BY <1>0, <2>1 DEF Ending, OneInCharge
  <2>3. Over(s.job) => Over(job')
    BY <2>2 DEF Follows, Advances
  <2>4. CASE UNCHANGED batch
    BY <2>1, <2>2, <2>3, <2>4 DEF Follows
  <2>5. CASE Touched
    <3>1. b \notin Charge(s, MayCrash) /\ ~AllOver(batch)
      BY <1>1, <1>2, <2>1, <2>5
    <3>2. s.pc \in WorkPC => s.msg.batch \in Charge(s, MayCrash) \cap Batches
      <4>1. s.pc \in WorkPC => q \in Workers
        BY <2>2 DEF Processes, DispatchPC, WorkPC
      <4>2. s.pc \in WorkPC => s.msg.batch \in Batches
        BY <2>2, <4>1 DEF Orderly, WorkPC
      <4>. QED  BY <4>2 DEF Charge, WorkPC
    <3>3. s.pc \in {"mark", "publish"} => s.todo \subseteq Charge(s, MayCrash) \cap Batches
      <4>1. s.todo \subseteq Batches
        BY <2>1 DEF EndInv, OnceInv, TypeOK, Session, SessionRow
      <4>. QED  BY <4>1 DEF Charge
    <3>4. s.pc = "publish" => s.msg.batch \in Charge(s, MayCrash) \cap Batches
      BY <2>2 DEF Orderly, Charge
    <3>5. s.pc = "dispatchFailed" => s.msg.batch \in Batches /\ s.msg.batch # b
      <4>1. s.pc = "dispatchFailed" => q \in Requests
        BY <2>2 DEF Orderly, Processes, WorkPC, RefreshPC
      <4>2. q \in Requests => p \in Workers
        BY <1>0, <1>2 DEF Processes
      <4>3. p \in Workers => batch[b].status # "PENDING"
        BY <1>0, <2>5 DEF Ending, Unpublished
      <4>. QED  BY <2>2, <4>1, <4>2, <4>3 DEF Follows
    <3>6. \A c \in Batches : c # b => batch'[c] = batch[c]
      BY <2>5
    <3>7. Follows(s, batch', job')
      BY <2>2, <2>3, <3>1, <3>2, <3>3, <3>4, <3>5, <3>6 DEF Follows
    <3>. QED  BY <2>1, <3>7
  <2>. QED  BY <1>0, <2>4, <2>5
<1>3. \A q \in Processes : Follows(ses'[q], batch', job')
  BY <1>2 DEF Advances
<1>4. ASSUME NEW v \in Workers, v # p, NEW c \in Charge(ses'[v], MayCrash')
      PROVE  batch'[c].status # "PENDING"
  <2>1. v \in Processes /\ c \in Charge(ses[v], MayCrash) /\ batch[c].status # "PENDING"
    BY <1>0, <1>4, ChargeLess DEF Processes, Ending, Unpublished
  <2>2. c \in Batches
    BY <1>0, <2>1 DEF OneInCharge, Orderly, Charge, WorkPC, RefreshPC
  <2>. QED  BY <1>0, <1>1, <1>4, <2>1, <2>2
<1>5. Unpublished'
  <2>1. \A m \in queue : batch'[m.batch].status # "PENDING"
    BY <1>0, <1>1 DEF Ending, Unpublished, OneInCharge
  <2>. QED  BY <1>4, <2>1 DEF Advances, Unpublished
<1>6. (\A r \in Requests : ses[r].pc \in DispatchPC)'
  BY <1>0 DEF Advances, Ending, Processes
<1>7. budget'["module"] = 0
  BY <1>0 DEF Advances, Ending, Faults
<1>. QED  BY <1>3, <1>5, <1>6, <1>7 DEF Advances, Ending

LEMMA TellsInv ==
  ASSUME EndInv, ToldInv, NEW p \in Processes, NEW b, Advances(p, b), Tells(p)
  PROVE  ToldInv'
<1>1. budget'["crash"] = 0 /\ budget'["request"] = 0
  BY DEF ToldInv, Advances, Faults
<1>2. ASSUME AllOver(batch')
      PROVE  Over(job') \/ \E q \in Processes : Closing(ses'[q])
  BY <1>2 DEF ToldInv, Advances, Tells
<1>3. ASSUME NEW c \in Batches, batch'[c].status = "PENDING"
      PROVE  job'.status = "DISPATCH_FAILED" \/ \E r \in Requests : Holding(ses'[r], c)
  BY <1>3 DEF ToldInv, Advances, Tells, Processes
<1>. QED  BY <1>1, <1>2, <1>3 DEF ToldInv

\* What a worker does while it has its batch: it leaves the batch unfinished, or
\* finishes it and goes to refresh the job.
Ends(w) ==
    LET b == ses[w].msg.batch
    IN  /\ batch'[b].status # "PENDING"
        /\ batch'[b].status \in TerminalBatch => ses'[w].pc = "count"
        /\ ses'[w].pc \in WorkPC => ses'[w].batch[b].status \notin TerminalBatch
        /\ ses'[w].pc \notin {"countBatches", "save"}
        /\ ses'[w].job.status \in {ses[w].job.status, job.status, "EXPIRED"}
        /\ job'.status \in {job.status, ClaimedStatus(job.status)}

LEMMA WorkerEnds ==
  ASSUME EndInv, NEW w \in Workers,
         \/ MarkUncertain(w) \/ Claim(w) \/ StartBatch(w) \/ CheckCancel(w) \/ StartItem(w)
         \/ SapCall(w) \/ ItemDone(w) \/ ItemLost(w) \/ AuthError(w) \/ FailPending(w)
         \/ FinishBatch(w) \/ CancelPending(w) \/ ConnectionLost(w) \/ MarkRetrying(w)
         \/ MarkFailedSkipped(w) \/ FailBatch(w) \/ AbortTask(w)
  PROVE  Ends(w)
<1>. DEFINE b == ses[w].msg.batch
<1>0. /\ w \in Processes /\ ses[w] \in SessionRow /\ Follows(ses[w], batch, job)
      /\ ses[w].pc \in WorkPC /\ b \in Batches
      /\ batch \in [Batches -> BatchRow] /\ job \in JobRow
      /\ ses \in [Processes -> Session]
  <2>1. ses[w].pc \in WorkPC
    BY DEF MarkUncertain, Claim, StartBatch, CheckCancel, StartItem, SapCall, ItemDone, ItemLost,
           AuthError, FailPending, FinishBatch, CancelPending, ConnectionLost, MarkRetrying,
           MarkFailedSkipped, FailBatch, AbortTask, WorkPC
  <2>. QED
    BY <2>1 DEF EndInv, Ending, OnceInv, TypeOK, Session, Processes, OneInCharge, Orderly, WorkPC
<1>1. /\ batch[b].status \notin TerminalBatch /\ ses[w].batch[b].status \notin TerminalBatch
      /\ batch[b].status # "PENDING"
  <2>1. b \in Charge(ses[w], MayCrash)
    BY <1>0 DEF Charge, WorkPC
  <2>. QED  BY <1>0, <2>1 DEF Follows, EndInv, Ending, Unpublished
<1>. HIDE DEF b
<1>2. ASSUME NEW s, Become(w, s), s.pc \in WorkPC, s.batch[b].status \notin TerminalBatch,
             s.job.status \in {ses[w].job.status, job.status, "EXPIRED"},
             batch'[b].status \notin TerminalBatch \cup {"PENDING"},
             job'.status \in {job.status, ClaimedStatus(job.status)}
      PROVE  Ends(w)
  <2>1. ses'[w] = s
    BY <1>0, <1>2 DEF Become
  <2>. QED  BY <1>2, <2>1 DEF Ends, WorkPC, b
<1>3. ASSUME NEW s, Become(w, s), s.pc \in WorkPC, s.batch = ses[w].batch,
             s.job = ses[w].job, UNCHANGED batch, job'.status = job.status
      PROVE  Ends(w)
  BY <1>1, <1>2, <1>3
<1>4. ASSUME NEW s, Become(w, s), s.pc = "ack", s.job = ses[w].job, UNCHANGED <<batch, job>>
      PROVE  Ends(w)
  <2>1. ses'[w] = s
    BY <1>0, <1>4 DEF Become
  <2>. QED  BY <1>1, <1>4, <2>1 DEF Ends, WorkPC, b
\* The batch is over: the session knew it as unfinished, so the status is written.
<1>5. ASSUME NEW s, Become(w, s), s.pc = "count", s.job = ses[w].job, UNCHANGED job,
             NEW o \in TerminalBatch, SetBatchStatus(w, o)
      PROVE  Ends(w)
  <2>1. ses'[w] = s
    BY <1>0, <1>5 DEF Become
  <2>2. batch'[b].status = o
    BY <1>0, <1>1, <1>5 DEF SetBatchStatus, Column, BatchRow, b
  <2>3. o # "PENDING"
    BY DEF TerminalBatch
  <2>. QED  BY <1>5, <2>1, <2>2, <2>3 DEF Ends, WorkPC, b
\* The rows are read again.
<1>6. ASSUME NEW s \in SessionRow, s.msg = ses[w].msg, NEW row
      PROVE  Loaded(s, row).batch[b] = batch[b] /\ Loaded(s, row).job = row
  BY <1>0, <1>6 DEF Loaded, SessionRow, b
<1>7. CASE MarkUncertain(w)
  <2>1. PICK k, l, s : /\ k = Remember(w, Mine(w, "RUNNING"), "FAILED")
                       /\ l \in {"cancelPending", "claim"}
                       /\ s = [ses[w] EXCEPT !.item = k, !.pc = l] /\ Become(w, s)
    BY <1>7 DEF MarkUncertain, UncertainVerdict
  <2>2. s.pc = l /\ s.batch = ses[w].batch /\ s.job = ses[w].job
    BY <1>0, <2>1 DEF SessionRow
  <2>. QED  BY <1>3, <1>7, <2>1, <2>2 DEF MarkUncertain, WorkPC
<1>8. CASE Claim(w)
  <2>1. CASE ~StaleTask(ses[w].msg) /\ batch[b].status \in Claimable
    <3>1. PICK o, s : /\ s = [ses[w] EXCEPT !.pc = "claimed", !.out = o] /\ Become(w, s)
                      /\ batch' = [batch EXCEPT ![b].status = "RUNNING"]
                      /\ job' = [job EXCEPT !.status = ClaimedStatus(job.status)]
      BY <1>8, <2>1 DEF Claim, b
    <3>2. s.pc = "claimed" /\ s.batch = ses[w].batch /\ s.job = ses[w].job
      BY <1>0, <3>1 DEF SessionRow
    <3>3. batch'[b].status = "RUNNING" /\ job'.status = ClaimedStatus(job.status)
      BY <1>0, <3>1 DEF BatchRow, JobRow
    <3>. QED  BY <1>1, <1>2, <3>1, <3>2, <3>3 DEF WorkPC, TerminalBatch
  <2>2. CASE ~(~StaleTask(ses[w].msg) /\ batch[b].status \in Claimable)
    <3>1. PICK s : /\ s = [ses[w] EXCEPT !.pc = "ack"] /\ Become(w, s) /\ UNCHANGED <<batch, job>>
      BY <1>8, <2>2 DEF Claim, Goto, b
    <3>2. s.pc = "ack" /\ s.job = ses[w].job
      BY <1>0, <3>1 DEF SessionRow
    <3>. QED  BY <1>4, <3>1, <3>2
  <2>. QED  BY <2>1, <2>2
<1>9. CASE StartBatch(w)
  <2>1. PICK l, x, s :
          /\ l = IF ses[w].out = "notStarted" \/ CancelSeen(job) THEN "cancelPending" ELSE "loop"
          /\ x = Loaded(ses[w], job)
          /\ s = [x EXCEPT !.pc = l, !.out = "none"] /\ Become(w, s)
    BY <1>9 DEF StartBatch
  <2>2. x \in SessionRow
    BY <1>0, <2>1, LoadedType DEF EndInv, OnceInv, TypeOK, Session
  <2>3. s.pc = l /\ s.batch = x.batch /\ s.job = x.job
    BY <2>1, <2>2 DEF SessionRow
  <2>4. s.batch[b] = batch[b] /\ s.job = job /\ l \in WorkPC
    BY <1>0, <1>6, <2>1, <2>3 DEF WorkPC
  <2>5. UNCHANGED <<batch, job>>
    BY <1>9 DEF StartBatch, dbVars
  <2>. QED  BY <1>1, <1>2, <2>1, <2>3, <2>4, <2>5
<1>10. CASE CheckCancel(w)
  <2>1. PICK row, l, s :
          /\ row = [ses[w].job EXCEPT !.status = job.status]
          /\ l = IF CancelSeen(row) THEN "cancelPending" ELSE "start"
          /\ s = [ses[w] EXCEPT !.job = row, !.pc = l] /\ Become(w, s)
    BY <1>10 DEF CheckCancel, StatusBeforeItem
  <2>2. s.pc = l /\ s.batch = ses[w].batch /\ s.job.status = job.status
    BY <1>0, <2>1 DEF SessionRow, JobRow
  <2>3. l \in WorkPC /\ UNCHANGED <<batch, job>>
    BY <1>10, <2>1 DEF WorkPC, CheckCancel, dbVars
  <2>. QED  BY <1>1, <1>2, <2>1, <2>2, <2>3
<1>11. CASE StartItem(w)
  <2>1. PICK i, k, s : /\ s = [ses[w] EXCEPT !.pc = "call", !.cur = i, !.item = k]
                       /\ Become(w, s)
    BY <1>11 DEF StartItem
  <2>2. s.pc = "call" /\ s.batch = ses[w].batch /\ s.job = ses[w].job
    BY <1>0, <2>1 DEF SessionRow
  <2>. QED  BY <1>3, <1>11, <2>1, <2>2 DEF StartItem, WorkPC
<1>12. CASE SapCall(w)
  <2>1. PICK o, s : /\ s = [ses[w] EXCEPT !.pc = "record", !.out = o] /\ Become(w, s)
    BY <1>12 DEF SapCall
  <2>2. s.pc = "record" /\ s.batch = ses[w].batch /\ s.job = ses[w].job
    BY <1>0, <2>1 DEF SessionRow
  <2>. QED  BY <1>3, <1>12, <2>1, <2>2 DEF SapCall, WorkPC, dbVars
<1>13. CASE ItemDone(w)
  <2>1. PICK k, x, y, z, s :
          /\ s = [ses[w] EXCEPT !.pc = "loop", !.cur = None, !.out = "none", !.item = k]
          /\ job' = [job EXCEPT !.proc = x, !.succ = y, !.fail = z]
          /\ Become(w, s)
    BY <1>13 DEF ItemDone, RecordResult
  <2>2. s.pc = "loop" /\ s.batch = ses[w].batch /\ s.job = ses[w].job /\ job'.status = job.status
    BY <1>0, <2>1 DEF SessionRow, JobRow
  <2>. QED  BY <1>3, <1>13, <2>1, <2>2 DEF ItemDone, WorkPC
<1>14. CASE ItemLost(w) \/ AuthError(w) \/ AbortTask(w)
  <2>1. PICK l \in {"connLost", "authFailed", "failing"} :
          Become(w, [ses[w] EXCEPT !.pc = l, !.cur = None, !.out = "none"])
    BY <1>14 DEF ItemLost, AuthError, AbortTask
  <2>s. PICK s : s = [ses[w] EXCEPT !.pc = l, !.cur = None, !.out = "none"]
    OBVIOUS
  <2>2. s.pc = l /\ s.batch = ses[w].batch /\ s.job = ses[w].job
    BY <1>0, <2>s DEF SessionRow
  <2>. QED  BY <1>3, <1>14, <2>1, <2>s, <2>2 DEF ItemLost, AuthError, AbortTask, WorkPC, dbVars
<1>15. CASE FailPending(w)
  <2>1. PICK k, l, s : /\ k = Remember(w, Unfinished(w), "FAILED")
                       /\ \/ ses[w].pc = "authFailed" /\ l = "loop"
                          \/ ses[w].pc = "failing" /\ l = "failBatch"
                       /\ s = [ses[w] EXCEPT !.item = k, !.pc = l] /\ Become(w, s)
    BY <1>15 DEF FailPending
  <2>2. s.pc = l /\ s.batch = ses[w].batch /\ s.job = ses[w].job
    BY <1>0, <2>1 DEF SessionRow
  <2>. QED  BY <1>3, <1>15, <2>1, <2>2 DEF FailPending, WorkPC
<1>16. CASE FinishBatch(w) \/ FailBatch(w)
  <2>1. PICK s : s = [ses[w] EXCEPT !.pc = "count"] /\ Become(w, s)
    BY <1>16 DEF FinishBatch, FailBatch, Goto
  <2>2. s.pc = "count" /\ s.job = ses[w].job
    BY <1>0, <2>1 DEF SessionRow
  <2>3. PICK o \in TerminalBatch : SetBatchStatus(w, o)
    BY <1>16 DEF FinishBatch, FailBatch, BatchOutcome, TerminalBatch
  <2>. QED  BY <1>5, <1>16, <2>1, <2>2, <2>3 DEF FinishBatch, FailBatch
<1>17. CASE CancelPending(w)
  <2>1. PICK k, s : s = [ses[w] EXCEPT !.pc = "count", !.item = k] /\ Become(w, s)
    BY <1>17 DEF CancelPending
  <2>2. s.pc = "count" /\ s.job = ses[w].job
    BY <1>0, <2>1 DEF SessionRow
  <2>3. "CANCELLED" \in TerminalBatch
    BY DEF TerminalBatch
  <2>. QED  BY <1>5, <1>17, <2>1, <2>2, <2>3 DEF CancelPending
<1>18. CASE ConnectionLost(w)
  <2>1. PICK l, x, s : /\ l = IF ses[w].msg.tries >= MaxRetries THEN "failing" ELSE "retrying"
                       /\ x = Loaded(ses[w], NoRow)
                       /\ s = [x EXCEPT !.pc = l] /\ Become(w, s)
    BY <1>18 DEF ConnectionLost
  <2>2. x \in SessionRow
    BY <1>0, <2>1, LoadedType, NoRowType DEF EndInv, OnceInv, TypeOK, Session
  <2>3. s.pc = l /\ s.batch = x.batch /\ s.job = x.job
    BY <2>1, <2>2 DEF SessionRow
  <2>4. s.batch[b] = batch[b] /\ s.job.status = "EXPIRED"
    BY <1>0, <1>6, <2>1, <2>3 DEF NoRow
  <2>5. l \in WorkPC /\ UNCHANGED <<batch, job>>
    BY <1>18, <2>1 DEF ConnectionLost, dbVars, WorkPC
  <2>. QED  BY <1>1, <1>2, <2>1, <2>3, <2>4, <2>5
<1>19. CASE MarkRetrying(w)
  <2>1. PICK s : s = [ses[w] EXCEPT !.pc = "republish"] /\ Become(w, s)
    BY <1>19 DEF MarkRetrying, Goto
  <2>2. s.pc = "republish" /\ s.batch = ses[w].batch /\ s.job = ses[w].job
    BY <1>0, <2>1 DEF SessionRow
  <2>3. batch'[b].status \in {batch[b].status, "RETRYING"} /\ UNCHANGED job
    BY <1>0, <1>19 DEF MarkRetrying, SetBatchStatus, Column, BatchRow, b
  <2>. QED  BY <1>1, <1>2, <2>1, <2>2, <2>3 DEF WorkPC, TerminalBatch
<1>20. CASE MarkFailedSkipped(w)
  <2>1. PICK s : s = [ses[w] EXCEPT !.pc = "ack"] /\ Become(w, s)
    BY <1>20 DEF MarkFailedSkipped, Goto
  <2>2. s.pc = "ack" /\ s.job = ses[w].job
    BY <1>0, <2>1 DEF SessionRow
  <2>. QED  BY <1>4, <1>20, <2>1, <2>2 DEF MarkFailedSkipped, dbVars
<1>. QED
  BY <1>7, <1>8, <1>9, <1>10, <1>11, <1>12, <1>13, <1>14, <1>15, <1>16, <1>17, <1>18, <1>19, <1>20

\* So it neither reopens the job nor loses sight of its end.
LEMMA WorkAdvances ==
  ASSUME EndInv, NEW w \in Workers, Works(w), Ends(w)
  PROVE  Advances(w, ses[w].msg.batch) /\ Tells(w)
<1>. DEFINE b == ses[w].msg.batch
<1>0. /\ w \in Processes /\ w \notin Requests /\ ses[w].pc \in WorkPC /\ b \in Batches
      /\ Follows(ses[w], batch, job) /\ (Over(job) => AllOver(batch))
      /\ b \in Charge(ses[w], MayCrash)
  BY EngineAssumption
     DEF EndInv, Ending, OnceInv, OneInCharge, Orderly, Works, WorkPC, Processes,
         EngineAssumption, Charge
<1>1. /\ batch[b].status \notin TerminalBatch /\ ~AllOver(batch)
      /\ ~Over(job) /\ ~Over(ses[w].job)
  BY <1>0 DEF Follows, AllOver
<1>2. /\ ~Over(job') /\ ~Over(ses'[w].job)
      /\ job.status = "DISPATCH_FAILED" => job'.status = "DISPATCH_FAILED"
  BY <1>1 DEF Ends, Over, ClaimedStatus, TerminalJob
<1>3. /\ ses'[w].pc \in WorkPC \cup {"count", "ack"} /\ ses'[w].msg.batch = b
      /\ batch'[b].status \in TerminalBatch => ses'[w].pc = "count"
  BY DEF Works, Ends, RefreshPC
<1>4. Follows(ses'[w], batch', job')
  BY <1>2, <1>3 DEF Follows, Ends, WorkPC
<1>5. Charge(ses'[w], MayCrash') \subseteq {b}
  BY <1>3 DEF Charge, WorkPC
<1>6. AllOver(batch') => Closing(ses'[w])
  BY <1>0, <1>3 DEF AllOver, Closing
<1>7. Advances(w, b)
  BY <1>0, <1>1, <1>2, <1>4, <1>5 DEF Advances, Works, Ends
<1>8. ASSUME NEW c \in Batches, batch'[c].status = "PENDING"
      PROVE  batch[c].status = "PENDING"
  BY <1>8 DEF Works, Ends
<1>. QED  BY <1>0, <1>2, <1>6, <1>7, <1>8 DEF Tells

-----------------------------------------------------------------------------
LEMMA AllCounted == FinishedBatches = NumBatches <=> AllOver(batch)
<1>. DEFINE D == {b \in Batches : batch[b].status \in TerminalBatch}
<1>1. IsFiniteSet(Batches) /\ Cardinality(Batches) = NumBatches
  BY FS_Interval, EngineAssumption DEF EngineAssumption, Batches
<1>2. D \subseteq Batches
  OBVIOUS
<1>3. D = Batches => Cardinality(D) = NumBatches
  BY <1>1
<1>4. Cardinality(D) = NumBatches => D = Batches
  BY <1>1, <1>2, FS_Subset
<1>5. D = Batches <=> AllOver(batch)
  BY DEF AllOver
<1>. QED  BY <1>3, <1>4, <1>5 DEF FinishedBatches

\* refresh_progress writes a status only when it has counted all batches as over,
\* and is then the end of the job.
LEMMA RefreshAdvances ==
  ASSUME EndInv, NEW w \in Workers, RefreshProgress(w)
  PROVE  Advances(w, None) /\ Tells(w)
<1>0. /\ w \in Processes /\ w \notin Requests /\ ses[w] \in SessionRow /\ job \in JobRow
      /\ ses[w].pc \in RefreshPC /\ ses'[w].pc \in RefreshPC \cup {"ack"}
      /\ Follows(ses[w], batch, job) /\ (Over(job) => AllOver(batch))
      /\ ses'[w].msg = ses[w].msg /\ ses[w].msg.batch \in Batches
      /\ \A q \in Processes : q # w => ses'[q] = ses[q]
      /\ UNCHANGED <<batch, item, queue, budget>>
  <2>1. /\ w \in Processes /\ w \notin Requests /\ ses[w] \in SessionRow /\ job \in JobRow
        /\ Follows(ses[w], batch, job) /\ (Over(job) => AllOver(batch))
        /\ ses[w].pc # "idle" => ses[w].msg.batch \in Batches
    BY EngineAssumption
       DEF EndInv, Ending, OnceInv, TypeOK, Session, OneInCharge, Orderly, Processes,
           EngineAssumption
  <2>2. /\ ses[w].pc \in RefreshPC /\ ses'[w].pc \in RefreshPC \cup {"ack"}
        /\ ses'[w].msg = ses[w].msg
        /\ \A q \in Processes : q # w => ses'[q] = ses[q]
        /\ UNCHANGED <<batch, item, queue, budget>>
    BY <2>1, EngineOK, RefreshType DEF EndInv, OnceInv, brokerVars
  <2>. QED  BY <2>1, <2>2 DEF RefreshPC
<1>1. Charge(ses'[w], MayCrash') \subseteq Charge(ses[w], MayCrash)
  BY <1>0 DEF Charge, WorkPC, RefreshPC, MayCrash
<1>2. \A c \in Charge(ses'[w], MayCrash') : batch'[c].status # "PENDING"
  BY <1>0, <1>1 DEF EndInv, Ending, Unpublished
<1>3. ASSUME Follows(ses'[w], batch', job'), Over(job) => Over(job'),
             Over(job') => AllOver(batch),
             AllOver(batch) => Over(job') \/ Closing(ses'[w]),
             job.status = "DISPATCH_FAILED" => AllOver(batch) \/ job'.status = "DISPATCH_FAILED"
      PROVE  Advances(w, None) /\ Tells(w)
  <2>1. \A c \in Batches : batch[c].status = "PENDING" => ~AllOver(batch)
    BY DEF AllOver, TerminalBatch
  <2>. QED  BY <1>0, <1>2, <1>3, <2>1 DEF Advances, Tells
<1>4. ASSUME NEW s, Become(w, s)
      PROVE  ses'[w] = s
  BY <1>0, <1>4 DEF Become, EndInv, OnceInv, TypeOK
<1>5. CASE CountItems(w)
  <2>1. PICK row, a, b, c, d, new, s :
          /\ row = (IF ses[w].job.status = "EXPIRED" THEN job ELSE ses[w].job)
          /\ new = [row EXCEPT !.succ = a, !.fail = b, !.canc = c, !.proc = d]
          /\ s = [ses[w] EXCEPT !.pc = "countBatches", !.job = row, !.new = new]
          /\ Become(w, s) /\ UNCHANGED job
    BY <1>5 DEF CountItems, dbVars
  <2>2. row \in JobRow /\ new.status = row.status
    BY <1>0, <2>1 DEF SessionRow, JobRow
  <2>3. s.pc = "countBatches" /\ s.job = row /\ s.new = new
    BY <1>0, <2>1 DEF SessionRow
  <2>4. Over(row) => Over(job)
    BY <1>0, <2>1 DEF Follows
  <2>5. Follows(s, batch, job) /\ Closing(s)
    BY <2>2, <2>3, <2>4 DEF Follows, WorkPC, Closing
  <2>. QED  BY <1>0, <1>3, <1>4, <2>1, <2>5
<1>6. CASE CountBatches(w)
  <2>1. PICK mid, new, s :
          /\ mid = [ses[w].new EXCEPT !.fin = FinishedBatches]
          /\ new = IF mid.fin = NumBatches
                   THEN [mid EXCEPT !.status = FinalStatus(mid)] ELSE mid
          /\ s = [ses[w] EXCEPT !.pc = "save", !.new = new]
          /\ Become(w, s) /\ UNCHANGED job
    BY <1>6 DEF CountBatches, dbVars
  <2>2. mid.fin = FinishedBatches /\ mid.status = ses[w].new.status
    BY <1>0, <2>1 DEF SessionRow, JobRow
  <2>3. ses[w].pc = "countBatches" /\ ses[w].new.status = ses[w].job.status
    BY <1>0, <1>6 DEF CountBatches, Follows
  <2>4. s.pc = "save" /\ s.job = ses[w].job /\ s.new = new
    BY <1>0, <2>1 DEF SessionRow
  <2>5. CASE AllOver(batch)
    <3>1. mid.fin = NumBatches
      BY <2>2, <2>5, AllCounted
    <3>2. "status" \in DOMAIN mid
      BY <1>0, <2>1 DEF SessionRow, JobRow
    <3>3. new.status = FinalStatus(mid)
      BY <2>1, <3>1, <3>2
    <3>4. Over(new)
      BY <3>3 DEF Over, FinalStatus, TerminalJob
    <3>5. Follows(s, batch, job) /\ Closing(s)
      BY <1>0, <2>4, <2>5, <3>4 DEF Follows, WorkPC, Closing
    <3>. QED  BY <1>0, <1>3, <1>4, <2>1, <3>5
  <2>6. CASE ~AllOver(batch)
    <3>1. new = mid
      BY <2>1, <2>2, <2>6, AllCounted
    <3>2. Follows(s, batch, job)
      BY <1>0, <2>2, <2>3, <2>4, <3>1 DEF Follows, WorkPC
    <3>. QED  BY <1>0, <1>3, <1>4, <2>1, <2>6, <3>2
  <2>. QED  BY <2>5, <2>6
<1>7. CASE SaveProgress(w)
  <2>1. PICK s : s = [ses[w] EXCEPT !.pc = "ack"] /\ Become(w, s)
    BY <1>7 DEF SaveProgress, Goto
  <2>2. s.pc = "ack" /\ s.job = ses[w].job
    BY <1>0, <2>1 DEF SessionRow
  <2>3. /\ ses[w].pc = "save"
        /\ job'.status = IF ses[w].new.status = ses[w].job.status
                         THEN job.status ELSE ses[w].new.status
    BY <1>7 DEF SaveProgress, FlushJob, Column
  <2>4. CASE ses[w].new.status = ses[w].job.status
    <3>1. Over(job') = Over(job) /\ job'.status = job.status
      BY <2>3, <2>4 DEF Over
    <3>2. Follows(s, batch, job')
      BY <1>0, <2>2, <3>1 DEF Follows, WorkPC
    <3>3. Closing(ses[w]) => Over(job')
      BY <1>0, <2>3, <2>4, <3>1 DEF Closing, Follows, Over
    <3>4. Advances(w, None)
      BY <1>0, <1>2, <1>4, <2>1, <3>1, <3>2 DEF Advances
    <3>. QED  BY <1>0, <3>1, <3>3, <3>4 DEF Tells
  <2>5. CASE ses[w].new.status # ses[w].job.status
    <3>1. Over(ses[w].new) /\ AllOver(batch)
      BY <1>0, <2>3, <2>5 DEF Follows
    <3>2. Over(job')
      BY <2>3, <2>5, <3>1 DEF Over
    <3>3. Follows(s, batch, job')
      BY <2>2, <3>2 DEF Follows, WorkPC
    <3>. QED  BY <1>0, <1>3, <1>4, <2>1, <3>1, <3>2, <3>3
  <2>. QED  BY <2>4, <2>5
<1>. QED  BY <1>5, <1>6, <1>7 DEF RefreshProgress

\* The broker's side of a worker.  One that dies may take the end of the job with it.
LEMMA BrokerAdvances ==
  ASSUME EndInv, NEW w \in Workers, Receive(w) \/ Republish(w) \/ Ack(w) \/ WorkerCrash(w) \/ Discard(w)
  PROVE  Advances(w, None) /\ (budget["crash"] = 0 => Tells(w))
<1>0. /\ w \in Processes /\ w \notin Requests /\ ses[w] \in SessionRow /\ job \in JobRow
      /\ ses \in [Processes -> Session] /\ budget \in [Faults -> Nat]
      /\ Follows(ses[w], batch, job) /\ (Over(job) => AllOver(batch))
      /\ ses[w].pc # "idle" => /\ ses[w].msg.batch \in Batches
                               /\ ses[w].pc \in WorkPC \cup RefreshPC \cup {"ack"}
      /\ \A m \in queue : /\ m \in Message /\ m.batch \in Batches
                          /\ batch[m.batch].status # "PENDING"
  BY EngineAssumption
     DEF EndInv, Ending, Unpublished, OnceInv, TypeOK, Session, OneInCharge, Orderly, Processes,
         EngineAssumption
<1>1. UNCHANGED <<job, batch>> /\ \A f \in Faults : budget[f] = 0 => budget'[f] = 0
  BY EngineOK, SpendType
     DEF Receive, Republish, Ack, WorkerCrash, Discard, dbVars, brokerVars, EndInv, OnceInv
<1>2. ASSUME NEW s, Become(w, s), Follows(s, batch, job),
             \A m \in queue' : m \in queue \/ batch[m.batch].status # "PENDING",
             \A c \in Charge(s, MayCrash') : batch[c].status # "PENDING",
             budget["crash"] = 0 => ~Closing(ses[w])
      PROVE  Advances(w, None) /\ (budget["crash"] = 0 => Tells(w))
  <2>1. ses'[w] = s /\ \A q \in Processes : q # w => ses'[q] = ses[q]
    BY <1>0, <1>2 DEF Become
  <2>2. Advances(w, None)
    BY <1>0, <1>1, <1>2, <2>1 DEF Advances
  <2>. QED  BY <1>0, <1>1, <1>2, <2>2 DEF Tells
<1>3. CASE Receive(w) /\ ~UNCHANGED ses
  <2>1. PICK m, x, s :
          /\ m \in queue
          /\ queue' = queue \ {m} /\ batch[m.batch].status \notin TerminalBatch
          /\ x = [Idle("loaded") EXCEPT !.msg = m] /\ s = Loaded(x, job) /\ Become(w, s)
    BY <1>3 DEF Receive
  <2>2. x \in SessionRow /\ x.pc = "loaded" /\ x.msg = m
    <3>1. Idle("loaded") \in SessionRow /\ Idle("loaded").pc = "loaded"
      BY IdleSession DEF PC, Place, WorkerPC, Session, Idle
    <3>. QED  BY <1>0, <2>1, <3>1 DEF SessionRow
  <2>3. s.pc = "loaded" /\ s.msg = m /\ s.job = job /\ s.batch[m.batch] = batch[m.batch]
    BY <1>0, <2>1, <2>2 DEF Loaded, SessionRow
  <2>4. Follows(s, batch, job) /\ Charge(s, MayCrash') \subseteq {m.batch}
    BY <2>1, <2>3 DEF Follows, Charge, WorkPC
  <2>5. ~Closing(ses[w])
    BY <1>3 DEF Receive, Closing
  <2>. QED  BY <1>0, <1>2, <2>1, <2>4, <2>5
<1>4. CASE (Receive(w) \/ Discard(w)) /\ UNCHANGED ses
  <2>1. ses[w].pc = "idle" /\ queue' \subseteq queue /\ UNCHANGED ses
    BY <1>4 DEF Receive, Discard
  <2>2. Charge(ses[w], MayCrash') = {} /\ ~Closing(ses[w])
    BY <2>1 DEF Charge, Closing, WorkPC, RefreshPC
  <2>3. Advances(w, None)
    BY <1>0, <1>1, <2>1, <2>2 DEF Advances
  <2>. QED  BY <1>0, <1>1, <2>2, <2>3 DEF Tells
<1>5. CASE Republish(w)
  <2>1. PICK m, s : /\ m = [ses[w].msg EXCEPT !.tries = ses[w].msg.tries + 1]
                    /\ queue' = queue \cup {m}
                    /\ s = [ses[w] EXCEPT !.pc = "ack"] /\ Become(w, s)
    BY <1>5 DEF Republish, Goto
  <2>2. /\ s.pc = "ack" /\ s.msg = ses[w].msg /\ s.job = ses[w].job /\ m.batch = s.msg.batch
        /\ ses[w].pc = "republish"
    BY <1>0, <1>5, <2>1 DEF SessionRow, Message, Republish
  <2>3. batch[m.batch].status # "PENDING"
    <3>1. m.batch \in Charge(ses[w], MayCrash)
      BY <1>0, <2>2 DEF Charge, WorkPC
    <3>. QED  BY <3>1 DEF EndInv, Ending, Unpublished
  <2>4. Follows(s, batch, job) /\ Charge(s, MayCrash') \subseteq {m.batch} /\ ~Closing(ses[w])
    BY <1>0, <2>2 DEF Follows, Charge, WorkPC, RefreshPC, Closing
  <2>. QED  BY <1>2, <2>1, <2>3, <2>4
<1>6. CASE Ack(w) \/ WorkerCrash(w)
  <2>1. PICK s : s = Idle("idle") /\ Become(w, s)
    BY <1>6 DEF Ack, WorkerCrash
  <2>2. s.pc = "idle" /\ s.job.status = "EXPIRED"
    BY <2>1 DEF Idle, NoRow
  <2>3. Follows(s, batch, job) /\ Charge(s, MayCrash') = {}
    BY <2>2 DEF Follows, Charge, WorkPC, RefreshPC, Over, TerminalJob
  <2>4. \A m \in queue' : m \in queue \/ batch[m.batch].status # "PENDING"
    <3>1. CASE Ack(w)
      BY <3>1 DEF Ack, brokerVars
    <3>2. CASE WorkerCrash(w)
      <4>1. ses[w].pc # "idle" /\ MayCrash /\ queue' = queue \cup {ses[w].msg}
        BY <1>0, <3>2 DEF WorkerCrash, Spend, MayCrash, Faults
      <4>2. ses[w].msg.batch \in Charge(ses[w], MayCrash)
        BY <1>0, <4>1 DEF Charge, WorkPC, RefreshPC
      <4>. QED  BY <4>1, <4>2 DEF EndInv, Ending, Unpublished
    <3>. QED  BY <1>6, <3>1, <3>2
  <2>5. budget["crash"] = 0 => ~Closing(ses[w])
    BY <1>6 DEF Ack, WorkerCrash, Spend, Closing
  <2>. QED  BY <1>2, <2>1, <2>3, <2>4, <2>5
<1>7. Discard(w) => UNCHANGED ses
  BY DEF Discard
<1>. QED  BY <1>3, <1>4, <1>5, <1>6, <1>7

\* The dispatch, of the request that created the job.
LEMMA DispatchAdvances ==
  ASSUME EndInv, Cancellers = {}, Retriers = {}, NEW r \in Requests, RequestNext(r)
  PROVE  \E b : Advances(r, b) /\ (budget["request"] = 0 => Tells(r))
<1>0. /\ r \in Processes /\ r \notin Workers /\ ses[r] \in SessionRow /\ job \in JobRow
      /\ ses \in [Processes -> Session] /\ batch \in [Batches -> BatchRow]
      /\ Follows(ses[r], batch, job) /\ (Over(job) => AllOver(batch))
      /\ ses[r].pc \in DispatchPC /\ Orderly(r, ses[r]) /\ ses[r].todo \subseteq Batches
      /\ \A m \in queue : m.batch \in Batches /\ batch[m.batch].status # "PENDING"
      /\ \A f \in Faults : budget[f] = 0 => budget'[f] = 0
  <2>1. \A f \in Faults : budget[f] = 0 => budget'[f] = 0
    BY EngineOK, RequestType DEF EndInv, OnceInv
  <2>. QED
    BY <2>1, EngineAssumption
       DEF EndInv, Ending, Unpublished, OnceInv, TypeOK, Session, SessionRow, OneInCharge,
           Processes, EngineAssumption
<1>1. ASSUME NEW s, Become(r, s)
      PROVE  ses'[r] = s /\ \A q \in Processes : q # r => ses'[q] = ses[q]
  BY <1>0, <1>1 DEF Become
<1>2. CASE DispatchLoad(r)
  <2>1. PICK l, s :
          /\ l = IF Dispatchable = {} THEN "done" ELSE "mark"
          /\ s = [ses[r] EXCEPT !.todo = Dispatchable, !.pc = l] /\ Become(r, s)
    BY <1>2 DEF DispatchLoad
  <2>2. /\ ses[r].pc = "dispatch" /\ UNCHANGED <<job, batch, queue, budget>>
        /\ s.pc = l /\ s.todo = Dispatchable /\ s.job = ses[r].job
    BY <1>0, <1>2, <2>1 DEF DispatchLoad, dbVars, brokerVars, SessionRow
  <2>3. Follows(s, batch, job) /\ s.pc \in DispatchPC
    BY <1>0, <2>1, <2>2 DEF Follows, WorkPC, Dispatchable, TerminalBatch, DispatchPC
  <2>4. Advances(r, None)
    BY <1>0, <1>1, <2>1, <2>2, <2>3 DEF Advances
  <2>5. \A c \in Batches : batch[c].status = "PENDING" => Holding(s, c)
    BY <2>1, <2>2 DEF Holding, Dispatchable
  <2>6. Tells(r)
    BY <1>0, <1>1, <2>1, <2>2, <2>5 DEF Tells, Closing
  <2>. QED  BY <2>4, <2>6
<1>3. CASE ModuleDisabled(r)
  BY <1>3 DEF ModuleDisabled, Spend, EndInv, Ending
<1>4. CASE MarkQueued(r)
  <2>1. PICK b, m, t, s :
          /\ b \in ses[r].todo /\ batch' = [batch EXCEPT ![b] = [status |-> "QUEUED", task |-> nextTask]]
          /\ m = [batch |-> b, task |-> nextTask, tries |-> 0] /\ t = ses[r].todo \ {b}
          /\ s = [ses[r] EXCEPT !.pc = "publish", !.todo = t, !.msg = m] /\ Become(r, s)
    BY <1>4 DEF MarkQueued
  <2>2. /\ ses[r].pc = "mark" /\ UNCHANGED <<job, queue, budget>>
        /\ s.pc = "publish" /\ s.todo = t /\ s.msg = m /\ s.job = ses[r].job /\ m.batch = b
    BY <1>0, <1>4, <2>1 DEF MarkQueued, SessionRow
  <2>3. /\ b \in Batches /\ batch'[b].status = "QUEUED"
        /\ \A c \in Batches : c # b => batch'[c] = batch[c]
    BY <1>0, <2>1
  <2>4. batch[b].status \notin TerminalBatch /\ b \in Charge(ses[r], MayCrash)
    BY <1>0, <2>1, <2>2 DEF Follows, Charge
  <2>5. ~Over(job)
    BY <1>0, <2>3, <2>4 DEF AllOver
  <2>6. Follows(s, batch', job) /\ s.pc \in DispatchPC
    BY <1>0, <2>1, <2>2, <2>3 DEF Follows, WorkPC, DispatchPC
  <2>7. Advances(r, b)
    BY <1>0, <1>1, <2>1, <2>2, <2>3, <2>4, <2>5, <2>6 DEF Advances
  <2>8. ~AllOver(batch')
    BY <2>3 DEF AllOver, TerminalBatch
  <2>9. ASSUME NEW c \in Batches, batch'[c].status = "PENDING"
        PROVE  batch[c].status = "PENDING" /\ (Holding(ses[r], c) => Holding(s, c))
    BY <2>1, <2>2, <2>3, <2>9 DEF Holding
  <2>10. Tells(r)
    BY <1>1, <2>1, <2>2, <2>8, <2>9 DEF Tells
  <2>. QED  BY <2>7, <2>10
<1>5. CASE Publish(r)
  <2>1. PICK l, s : /\ l = IF ses[r].todo = {} THEN "done" ELSE "mark"
                    /\ s = [ses[r] EXCEPT !.pc = l] /\ Become(r, s)
    BY <1>5 DEF Publish, Goto
  <2>2. /\ ses[r].pc = "publish" /\ UNCHANGED <<job, batch, budget>>
        /\ queue' = queue \cup {ses[r].msg}
        /\ s.pc = l /\ s.todo = ses[r].todo /\ s.job = ses[r].job
    BY <1>0, <1>5, <2>1 DEF Publish, dbVars, SessionRow
  <2>3. Follows(s, batch, job) /\ s.pc \in DispatchPC /\ batch[ses[r].msg.batch].status # "PENDING"
    BY <1>0, <2>1, <2>2 DEF Follows, WorkPC, DispatchPC
  <2>4. Advances(r, None)
    BY <1>0, <1>1, <2>1, <2>2, <2>3 DEF Advances
  <2>5. \A c : Holding(ses[r], c) => Holding(s, c)
    BY <2>1, <2>2 DEF Holding
  <2>6. Tells(r)
    BY <1>0, <1>1, <2>1, <2>2, <2>5 DEF Tells, Closing
  <2>. QED  BY <2>4, <2>6
<1>6. CASE PublishFails(r)
  <2>1. PICK b, s : /\ b = ses[r].msg.batch
                    /\ batch' = [batch EXCEPT ![b] = [status |-> "PENDING", task |-> NoTask]]
                    /\ s = [ses[r] EXCEPT !.pc = "dispatchFailed"] /\ Become(r, s)
    BY <1>6 DEF PublishFails, Goto
  <2>2. /\ ses[r].pc = "publish" /\ UNCHANGED <<job, queue>>
        /\ s.pc = "dispatchFailed" /\ s.msg = ses[r].msg /\ s.job = ses[r].job
    BY <1>0, <1>6, <2>1 DEF PublishFails, brokerVars, SessionRow
  <2>3. /\ b \in Batches /\ b \in Charge(ses[r], MayCrash) /\ batch[b].status = "QUEUED"
    BY <1>0, <2>1, <2>2 DEF Orderly, Charge, Follows
  <2>4. /\ batch'[b].status = "PENDING" /\ batch[b].status \notin TerminalBatch
        /\ \A c \in Batches : c # b => batch'[c] = batch[c]
    BY <1>0, <2>1, <2>3 DEF TerminalBatch
  <2>5. ~Over(job)
    BY <1>0, <2>3, <2>4 DEF AllOver
  <2>6. Follows(s, batch', job) /\ s.pc \in DispatchPC
    BY <1>0, <2>1, <2>2, <2>3, <2>4 DEF Follows, WorkPC, DispatchPC
  <2>7. Advances(r, b)
    BY <1>0, <1>1, <2>1, <2>2, <2>3, <2>4, <2>5, <2>6 DEF Advances
  <2>8. ~AllOver(batch')
    BY <2>3, <2>4 DEF AllOver, TerminalBatch
  <2>9. \A c : Holding(s, c)
    BY <2>2 DEF Holding
  <2>10. Tells(r)
    BY <1>1, <2>1, <2>2, <2>8, <2>9 DEF Tells
  <2>. QED  BY <2>7, <2>10
<1>7. CASE DispatchFailed(r)
  <2>1. PICK s : /\ s = [ses[r] EXCEPT !.pc = "done"] /\ Become(r, s)
    BY <1>7 DEF DispatchFailed, Goto
  <2>2. /\ ses[r].pc = "dispatchFailed" /\ UNCHANGED <<batch, queue, budget>>
        /\ job'.status = "DISPATCH_FAILED" /\ s.pc = "done" /\ s.job = ses[r].job
    BY <1>0, <1>7, <2>1 DEF DispatchFailed, brokerVars, SessionRow, JobRow
  <2>3. ~AllOver(batch)
    BY <1>0, <2>2 DEF Follows, AllOver, TerminalBatch
  <2>4. ~Over(job) /\ ~Over(job')
    BY <1>0, <2>2, <2>3 DEF Over, TerminalJob
  <2>5. Follows(s, batch, job') /\ s.pc \in DispatchPC
    BY <1>0, <2>2, <2>4 DEF Follows, WorkPC, DispatchPC
  <2>6. Advances(r, None)
    BY <1>0, <1>1, <2>1, <2>2, <2>4, <2>5 DEF Advances
  <2>7. Tells(r)
    BY <2>2, <2>3 DEF Tells
  <2>. QED  BY <2>6, <2>7
<1>8. CASE RequestCrash(r)
  <2>1. PICK s : s = Idle("done") /\ Become(r, s)
    BY <1>8 DEF RequestCrash
  <2>2. s.pc = "done" /\ s.job.status = "EXPIRED" /\ UNCHANGED <<job, batch, queue>>
    BY <1>8, <2>1 DEF RequestCrash, dbVars, brokerVars, Idle, NoRow
  <2>3. Follows(s, batch, job) /\ s.pc \in DispatchPC
    BY <2>2 DEF Follows, WorkPC, Over, TerminalJob, DispatchPC
  <2>4. Advances(r, None)
    BY <1>0, <1>1, <2>1, <2>2, <2>3 DEF Advances
  <2>5. budget["request"] # 0
    BY <1>8 DEF RequestCrash, Spend
  <2>. QED  BY <2>4, <2>5
<1>9. ~CancelLoad(r) /\ ~RetryLoad(r)
  BY DEF CancelLoad, RetryLoad
<1>10. ~CancelCommit(r) /\ ~RefreshProgress(r) /\ ~Revoke(r) /\ ~RetryRequeue(r)
  BY <1>0 DEF CancelCommit, RefreshProgress, CountItems, CountBatches, SaveProgress, Revoke,
              RetryRequeue, DispatchPC
<1>. QED
  BY <1>2, <1>3, <1>4, <1>5, <1>6, <1>7, <1>8, <1>9, <1>10 DEF RequestNext, RequestProgress

LEMMA EndInit == Uninterrupted /\ Init => EndInv
<1>. SUFFICES ASSUME Uninterrupted, Init PROVE EndInv
  OBVIOUS
<1>1. OnceInv
  BY OnceInit DEF Uninterrupted
<1>2. /\ Requests = {Creator} /\ Creator \notin Workers
      /\ budget["module"] = 0 /\ queue = {}
      /\ \A p \in Processes : ses[p] = Idle(IF p = Creator THEN "dispatch" ELSE "idle")
      /\ job.status = "QUEUED"
  <2>1. Requests = {Creator} /\ Creator \notin Workers
    BY EngineAssumption DEF Uninterrupted, SingleDelivery, EngineAssumption, Requests
  <2>2. budget["module"] = 0 /\ queue = {}
    BY DEF Uninterrupted, Init, EngineInit
  <2>3. \A p \in Processes : ses[p] = Idle(IF p = Creator THEN "dispatch" ELSE "idle")
    BY DEF Init, EngineInit
  <2>4. job.status = "QUEUED"
    BY DEF Init, EngineInit
  <2>. QED  BY <2>1, <2>2, <2>3, <2>4
<1>3. \A l : Idle(l).pc = l /\ Idle(l).job.status = "EXPIRED"
  BY DEF Idle, NoRow
<1>4. /\ \A p \in Processes : ses[p].pc = (IF p = Creator THEN "dispatch" ELSE "idle")
      /\ \A p \in Processes : ses[p].job.status = "EXPIRED"
  BY <1>2, <1>3
<1>5. \A p \in Processes : Follows(ses[p], batch, job)
  BY <1>4 DEF Follows, WorkPC, Over, TerminalJob
<1>6. \A w \in Workers : Charge(ses[w], MayCrash) = {}
  BY <1>2, <1>4 DEF Charge, Processes, WorkPC, RefreshPC
<1>7. Unpublished /\ ~Over(job)
  BY <1>2, <1>6 DEF Unpublished, Over, TerminalJob
<1>8. budget["module"] = 0 /\ \A r \in Requests : ses[r].pc \in DispatchPC
  BY <1>2, <1>4 DEF Uninterrupted, Processes, DispatchPC
<1>. QED  BY <1>1, <1>5, <1>7, <1>8 DEF EndInv, Ending

\* Every step is one of a process that ends nothing it should not, and, where
\* nobody dies, tells what it must.
LEMMA StepAdvances ==
  ASSUME Uninterrupted, EndInv, Next
  PROVE  \E p \in Processes : \E b :
            /\ Advances(p, b)
            /\ budget["crash"] = 0 /\ budget["request"] = 0 => Tells(p)
<1>1. ASSUME NEW w \in Workers, WorkerProgress(w) \/ WorkerFault(w)
      PROVE  w \in Processes /\ \E b : Advances(w, b) /\ (budget["crash"] = 0 => Tells(w))
  <2>1. CASE \/ Receive(w) \/ Republish(w) \/ Ack(w) \/ WorkerCrash(w) \/ Discard(w)
    BY <2>1, BrokerAdvances DEF Processes
  <2>2. CASE RefreshProgress(w)
    BY <2>2, RefreshAdvances DEF Processes
  <2>3. CASE ~(\/ Receive(w) \/ Republish(w) \/ Ack(w) \/ WorkerCrash(w) \/ Discard(w)
               \/ RefreshProgress(w))
    <3>1. \/ MarkUncertain(w) \/ Claim(w) \/ StartBatch(w) \/ CheckCancel(w) \/ StartItem(w)
          \/ SapCall(w) \/ ItemDone(w) \/ ItemLost(w) \/ AuthError(w) \/ FailPending(w)
          \/ FinishBatch(w) \/ CancelPending(w) \/ ConnectionLost(w) \/ MarkRetrying(w)
          \/ MarkFailedSkipped(w) \/ FailBatch(w) \/ AbortTask(w)
      BY <1>1, <2>3 DEF WorkerProgress, WorkerFault
    <3>2. Works(w) /\ Ends(w)
      BY <3>1, WorkerWorks, WorkerEnds DEF EndInv
    <3>. QED  BY <3>2, WorkAdvances DEF Processes
  <2>. QED  BY <2>1, <2>2, <2>3
<1>2. ASSUME NEW r \in Requests, RequestNext(r)
      PROVE  r \in Processes /\ \E b : Advances(r, b) /\ (budget["request"] = 0 => Tells(r))
  BY <1>2, DispatchAdvances DEF Uninterrupted, SingleDelivery, Processes
<1>. QED  BY <1>1, <1>2 DEF Next

LEMMA EndStep == Uninterrupted /\ EndInv /\ [Next]_vars => EndInv'
<1>. SUFFICES ASSUME Uninterrupted, EndInv, [Next]_vars PROVE EndInv'
  OBVIOUS
<1>1. OnceInv'
  BY OnceStep DEF Uninterrupted, EndInv
<1>2. CASE UNCHANGED vars
  BY <1>1, <1>2 DEF vars, engineVars, EndInv, Ending, Unpublished, MayCrash
<1>3. CASE Next
  BY <1>1, <1>3, StepAdvances, AdvanceInv DEF EndInv, Uninterrupted, SingleDelivery
<1>. QED  BY <1>2, <1>3

LEMMA EndAlways == ASSUME Uninterrupted PROVE Spec => []EndInv
<1>1. Init => EndInv
  BY EndInit
<1>2. EndInv /\ [Next]_vars => EndInv'
  BY EndStep
<1>. QED  BY <1>1, <1>2, PTL DEF Spec

\* A finished job is not reopened: neither the claim of a batch nor the refresh
\* of a worker that read the job before it finished writes over its status.
\* Without a cancellation or a module switched off, which do write over it, and
\* with one delivery at a time; whatever crashes, is lost, aborted or refused.
THEOREM JobStaysFinished == ASSUME Uninterrupted PROVE Spec => TerminalJobStays
<1>1. EndInv /\ [Next]_vars
        => [job.status \in TerminalJob => job'.status \in TerminalJob]_job
  <2>. SUFFICES ASSUME EndInv, [Next]_vars, job.status \in TerminalJob
                PROVE  job'.status \in TerminalJob \/ UNCHANGED job
    OBVIOUS
  <2>1. CASE UNCHANGED vars
    BY <2>1 DEF vars, engineVars
  <2>2. CASE Next
    BY <2>2, StepAdvances DEF Advances, Over
  <2>. QED  BY <2>1, <2>2
<1>. QED  BY <1>1, EndAlways, PTL DEF Spec, TerminalJobStays

\* With nothing left to run a job all of whose batches are finished is finished,
\* and one with a batch that was never published says DISPATCH_FAILED, if no
\* process dies: a worker that dies after its last batch leaves the job open.
THEOREM JobSaysHowItEnded ==
  ASSUME Uninterrupted, Lossless PROVE Spec => []JobTellsItsBatches
<1>1. Init => ToldInv
  <2>. SUFFICES ASSUME Init PROVE ToldInv
    OBVIOUS
  <2>1. budget["crash"] = 0 /\ budget["request"] = 0
    BY DEF Init, EngineInit, Lossless
  <2>2. Creator \in Requests /\ ses[Creator].pc = "dispatch"
    BY DEF Init, EngineInit, Requests, Processes, Idle
  <2>3. \A b \in Batches : batch[b].status = "PENDING"
    BY DEF Init, EngineInit
  <2>4. ~AllOver(batch)
    <3>1. 1 \in Batches
      BY EngineAssumption DEF EngineAssumption, Batches
    <3>. QED  BY <2>3, <3>1 DEF AllOver, TerminalBatch
  <2>. QED  BY <2>1, <2>2, <2>4 DEF ToldInv, Holding
<1>2. EndInv /\ ToldInv /\ [Next]_vars => ToldInv'
  <2>. SUFFICES ASSUME EndInv, ToldInv, [Next]_vars PROVE ToldInv'
    OBVIOUS
  <2>1. CASE UNCHANGED vars
    BY <2>1 DEF vars, engineVars, ToldInv
  <2>2. CASE Next
    <3>1. PICK p, b : p \in Processes /\ Advances(p, b) /\ Tells(p)
      BY <2>2, StepAdvances DEF ToldInv
    <3>. QED  BY <3>1, TellsInv
  <2>. QED  BY <2>1, <2>2
<1>3. EndInv /\ ToldInv => JobTellsItsBatches
  <2>. SUFFICES ASSUME EndInv, ToldInv, Resting PROVE
         /\ (\A b \in Batches : batch[b].status \in TerminalBatch) => job.status \in TerminalJob
         /\ (\E b \in Batches : batch[b].status = "PENDING") => job.status = "DISPATCH_FAILED"
    BY DEF JobTellsItsBatches, LastBatchClosesJob, PendingBatchReported
  <2>1. \A p \in Processes : ~Closing(ses[p]) /\ \A b : ~Holding(ses[p], b)
    BY DEF Resting, Closing, Holding
  <2>. QED  BY <2>1 DEF ToldInv, AllOver, Over, Processes
<1>. QED  BY <1>1, <1>2, <1>3, EndAlways, PTL DEF Spec

-----------------------------------------------------------------------------
(***************************************************************************)
(* The end of a cancellation.  The status that asks for it can be lost: to   *)
(* a refresh that read the job before, to a failed dispatch.  In a job of   *)
(* one batch this is too late to matter, nobody being left to execute it:    *)
(* so every worker that does, finds the cancellation before its next item.  *)
(***************************************************************************)
\* The batch is over or was not published, and nobody is about to execute it.
Spent ==
    \/ queue = {} /\ \A p \in Processes : Charge(ses[p], MayCrash) = {}
    \/ /\ batch[1].status \in TerminalBatch
       /\ \A p \in Processes : \/ Charge(ses[p], MayCrash) = {}
                               \/ ses[p].pc \in RefreshPC \cup {"ack"}

\* What a worker relies on about its batch,
Trusts(s, bt) ==
    LET b == s.msg.batch
    IN  /\ s.pc \in RefreshPC => bt[b].status \in TerminalBatch
        /\ s.pc \in WorkPC \ {"republish"} /\ s.batch[b].status \in TerminalBatch
              => bt[b].status \in TerminalBatch

\* and a request about the cancellation it asks for.
Asks(s, jb) ==
    /\ s.pc = "cancel" /\ (s.job.cancelReq \/ s.job.status = "CANCEL_REQUESTED") => jb.cancelReq
    /\ s.pc \in RefreshPC => s.job.status = "CANCEL_REQUESTED" /\ s.job.cancelReq
    /\ s.pc \in {"countBatches", "save"} => CancelSeen(s.new)

\* A refresh writes a status only to end the job, and never takes a request back.
Refreshes(s) ==
    s.pc \in {"countBatches", "save"} =>
        /\ s.new.cancelReq = s.job.cancelReq
        /\ s.new.status = s.job.status \/ (s.pc = "save" /\ s.new.status \in TerminalJob)

Noticed ==
    /\ job.status = "CANCEL_REQUESTED" => job.cancelReq
    /\ job.cancelReq => CancelSeen(job) \/ Spent
    /\ \A w \in Workers : Trusts(ses[w], batch)
    /\ \A r \in Requests : Asks(ses[r], job) /\ (ses[r].pc = "dispatchFailed" => Spent)
    /\ \A p \in Processes : Refreshes(ses[p])

AtMostOne(s, n, req) == n = 0 \/ (n = 1 /\ req /\ s.pc \notin {"start", "call"})

LateInv ==
    /\ OnceInv
    /\ Noticed
    /\ \A w \in Workers : AtMostOne(ses[w], late[w], job.cancelReq)

\* A step of p: the batch is reopened only by the one who has it, the request to
\* cancel stays recorded, and if the status loses it, nobody executes the batch.
Heeds(p) ==
    /\ \A q \in Processes : q # p => ses'[q] = ses[q]
    /\ budget["crash"] = 0 => budget'["crash"] = 0
    /\ \/ 1 \in Charge(ses[p], MayCrash)
       \/ batch'[1].status \in {batch[1].status} \cup TerminalBatch
    /\ job.cancelReq => job'.cancelReq
    /\ job'.status = "CANCEL_REQUESTED" => job'.cancelReq
    /\ job'.cancelReq => CancelSeen(job') \/ Spent'
    /\ Spent => Spent'
    /\ p \in Workers =>
          /\ Trusts(ses'[p], batch')
          /\ AtMostOne(ses'[p], late'[p], job'.cancelReq)
    /\ p \in Requests => Asks(ses'[p], job') /\ (ses'[p].pc = "dispatchFailed" => Spent')
    /\ Refreshes(ses'[p])
    /\ \A w \in Workers : w # p => late'[w] = late[w]

LEMMA OneBatchOnly == NumBatches = 1 => Batches = {1}
  BY DEF Batches

LEMMA InCharge ==
  ASSUME OnceInv, NumBatches = 1, NEW p \in Processes
  PROVE  /\ Charge(ses[p], MayCrash) \subseteq {1}
         /\ p \in Workers /\ ses[p].pc \in WorkPC \cup RefreshPC =>
               1 \in Charge(ses[p], MayCrash) /\ ses[p].msg.batch = 1
         /\ 1 \in Charge(ses[p], MayCrash) =>
               queue = {} /\ \A q \in Processes : q # p => Charge(ses[q], MayCrash) = {}
<1>0. /\ Batches = {1} /\ OneInCharge
      /\ \A q \in Processes : Orderly(q, ses[q]) /\ ses[q].todo \subseteq Batches
  BY OneBatchOnly DEF OnceInv, TypeOK, Session, SessionRow, OneInCharge
<1>1. \A q \in Processes : Charge(ses[q], MayCrash) \subseteq {1}
  BY <1>0 DEF Charge, Orderly
<1>2. p \in Workers /\ ses[p].pc \in WorkPC \cup RefreshPC =>
               1 \in Charge(ses[p], MayCrash) /\ ses[p].msg.batch = 1
  BY <1>0 DEF Charge, Orderly, WorkPC, RefreshPC
<1>3. 1 \in Charge(ses[p], MayCrash) =>
               queue = {} /\ \A q \in Processes : q # p => Charge(ses[q], MayCrash) = {}
  BY <1>0, <1>1 DEF OneInCharge
<1>. QED  BY <1>1, <1>2, <1>3

\* A worker at work finds the cancellation in the status, if there is one.
LEMMA Busy ==
  ASSUME LateInv, NumBatches = 1, NEW w \in Workers, ses[w].pc \in WorkPC
  PROVE  ~Spent /\ (job.cancelReq => CancelSeen(job)) /\ ses[w].msg.batch = 1
<1>1. w \in Processes /\ 1 \in Charge(ses[w], MayCrash) /\ ses[w].msg.batch = 1
  BY InCharge DEF LateInv, Processes
<1>2. ~Spent
  BY <1>1 DEF Spent, WorkPC, RefreshPC
<1>. QED  BY <1>1, <1>2 DEF LateInv, Noticed

LEMMA SpentStays ==
  ASSUME Spent, NEW p \in Processes, \A q \in Processes : q # p => ses'[q] = ses[q],
         budget["crash"] = 0 => budget'["crash"] = 0,
         Charge(ses'[p], MayCrash') = {} \/ ses'[p].pc \in RefreshPC \cup {"ack"},
         Charge(ses[p], MayCrash) = {} => Charge(ses'[p], MayCrash') = {},
         queue = {} /\ Charge(ses[p], MayCrash) = {} => queue' = {},
         batch[1].status \in TerminalBatch => batch'[1].status \in TerminalBatch
  PROVE  Spent'
<1>1. \A q \in Processes : q # p =>
         (Charge(ses[q], MayCrash) = {} => Charge(ses'[q], MayCrash') = {})
  BY ChargeLess
<1>. QED  BY <1>1 DEF Spent

\* Whoever has the batch leaves it over, or takes it out of reach.
LEMMA SpentNow ==
  ASSUME OnceInv, NumBatches = 1, NEW p \in Processes, 1 \in Charge(ses[p], MayCrash),
         \A q \in Processes : q # p => ses'[q] = ses[q],
         budget["crash"] = 0 => budget'["crash"] = 0,
         \/ queue' = queue /\ Charge(ses'[p], MayCrash') = {}
         \/ batch'[1].status \in TerminalBatch /\ ses'[p].pc \in RefreshPC \cup {"ack"}
  PROVE  Spent'
<1>1. queue = {} /\ \A q \in Processes : q # p => Charge(ses[q], MayCrash) = {}
  BY InCharge
<1>2. \A q \in Processes : q # p => Charge(ses'[q], MayCrash') = {}
  BY <1>1, ChargeLess
<1>. QED  BY <1>1, <1>2 DEF Spent

LEMMA HeedsInv ==
  ASSUME LateInv, NumBatches = 1, OnceInv', NEW p \in Processes, Heeds(p)
  PROVE  LateInv'
<1>0. Workers \cap Requests = {}
  BY EngineAssumption DEF EngineAssumption, Requests
<1>1. ASSUME NEW w \in Workers
      PROVE  Trusts(ses'[w], batch') /\ AtMostOne(ses'[w], late'[w], job'.cancelReq)
  <2>1. CASE w = p
    BY <2>1 DEF Heeds
  <2>2. CASE w # p
    <3>1. PICK s : s = ses[w] /\ s = ses'[w]
      BY <2>2 DEF Heeds, Processes
    <3>2. Trusts(s, batch) /\ AtMostOne(s, late[w], job.cancelReq) /\ late'[w] = late[w]
      BY <2>2, <3>1 DEF LateInv, Noticed, Heeds
    <3>3. CASE 1 \in Charge(ses[p], MayCrash)
      <4>1. s.pc \notin WorkPC \cup RefreshPC
        BY <2>2, <3>1, <3>3, InCharge DEF LateInv, Processes
      <4>. QED  BY <3>1, <3>2, <4>1 DEF Trusts, AtMostOne, Heeds
    <3>4. CASE batch'[1].status \in {batch[1].status} \cup TerminalBatch
      <4>1. s.pc \in WorkPC \cup RefreshPC => s.msg.batch = 1
        BY <3>1, InCharge DEF LateInv, Processes
      <4>. QED  BY <3>1, <3>2, <3>4, <4>1 DEF Trusts, AtMostOne, Heeds
    <3>. QED  BY <3>3, <3>4 DEF Heeds
  <2>. QED  BY <2>1, <2>2
<1>2. ASSUME NEW r \in Requests
      PROVE  Asks(ses'[r], job') /\ (ses'[r].pc = "dispatchFailed" => Spent')
  <2>1. CASE r = p
    BY <2>1 DEF Heeds
  <2>2. CASE r # p
    <3>1. PICK s : s = ses[r] /\ s = ses'[r]
      BY <2>2 DEF Heeds, Processes
    <3>2. Asks(s, job) /\ (s.pc = "dispatchFailed" => Spent)
      BY <3>1 DEF LateInv, Noticed
    <3>. QED  BY <3>1, <3>2 DEF Asks, Heeds
  <2>. QED  BY <2>1, <2>2
<1>3. \A q \in Processes : Refreshes(ses'[q])
  BY DEF LateInv, Noticed, Heeds
<1>. QED  BY <1>1, <1>2, <1>3 DEF LateInv, Noticed, Heeds

\* What a worker does while it has the batch.
Minds(w) ==
    /\ job'.cancelReq = job.cancelReq
    /\ job'.status \in {job.status, ClaimedStatus(job.status)}
    /\ Trusts(ses'[w], batch')
    /\ ses'[w].pc \notin {"countBatches", "save"}
    /\ ses'[w].pc = "start" => ~CancelSeen(job)
    /\ ses'[w].pc = "call" => ses[w].pc = "start"
    /\ \/ late' = late
       \/ /\ ses[w].pc = "call" /\ ses'[w].pc = "record"
          /\ late' = IF job.cancelReq THEN [late EXCEPT ![w] = @ + 1] ELSE late

LEMMA WorkHeeds ==
  ASSUME LateInv, NumBatches = 1, NEW w \in Workers, Works(w), Minds(w)
  PROVE  Heeds(w)
<1>0. /\ w \in Processes /\ w \notin Requests /\ late \in [Workers -> Nat]
      /\ ses[w].pc \in WorkPC
      /\ ~Spent /\ (job.cancelReq => CancelSeen(job)) /\ ses[w].msg.batch = 1
  BY Busy, EngineAssumption
     DEF LateInv, OnceInv, TypeOK, Works, Processes, EngineAssumption, Requests
<1>1. 1 \in Charge(ses[w], MayCrash)
  BY <1>0, InCharge DEF LateInv
<1>2. /\ job'.cancelReq => CancelSeen(job')
      /\ job'.status = "CANCEL_REQUESTED" => job'.cancelReq
  BY <1>0 DEF Minds, ClaimedStatus, CancelSeen, LateInv, Noticed
<1>3. AtMostOne(ses'[w], late'[w], job'.cancelReq)
  <2>1. AtMostOne(ses[w], late[w], job.cancelReq)
    BY DEF LateInv
  <2>2. CASE late' = late
    BY <1>0, <2>1, <2>2 DEF AtMostOne, Minds
  <2>3. CASE ses[w].pc = "call" /\ ses'[w].pc = "record" /\ late' # late
    <3>1. late[w] = 0 /\ job.cancelReq /\ late'[w] = 1
      BY <1>0, <2>1, <2>3 DEF AtMostOne, Minds
    <3>. QED  BY <2>3, <3>1 DEF AtMostOne, Minds
  <2>. QED  BY <2>2, <2>3 DEF Minds
<1>4. \A v \in Workers : v # w => late'[v] = late[v]
  BY <1>0 DEF Minds
<1>5. Refreshes(ses'[w])
  BY DEF Minds, Refreshes
<1>6. budget["crash"] = 0 => budget'["crash"] = 0
  BY DEF Works, Faults
<1>. QED  BY <1>0, <1>1, <1>2, <1>3, <1>4, <1>5, <1>6 DEF Heeds, Works, Minds

LEMMA WorkerMinds ==
  ASSUME LateInv, NEW w \in Workers,
         \/ MarkUncertain(w) \/ Claim(w) \/ StartBatch(w) \/ CheckCancel(w) \/ StartItem(w)
         \/ SapCall(w) \/ ItemDone(w) \/ ItemLost(w) \/ AuthError(w) \/ FailPending(w)
         \/ FinishBatch(w) \/ CancelPending(w) \/ ConnectionLost(w) \/ MarkRetrying(w)
         \/ MarkFailedSkipped(w) \/ FailBatch(w) \/ AbortTask(w)
  PROVE  Minds(w)
<1>. DEFINE b == ses[w].msg.batch
<1>0. /\ w \in Processes /\ ses[w] \in SessionRow /\ Trusts(ses[w], batch)
      /\ ses[w].pc \in WorkPC /\ b \in Batches
      /\ batch \in [Batches -> BatchRow] /\ job \in JobRow
      /\ ses \in [Processes -> Session]
  <2>1. ses[w].pc \in WorkPC
    BY DEF MarkUncertain, Claim, StartBatch, CheckCancel, StartItem, SapCall, ItemDone, ItemLost,
           AuthError, FailPending, FinishBatch, CancelPending, ConnectionLost, MarkRetrying,
           MarkFailedSkipped, FailBatch, AbortTask, WorkPC
  <2>. QED
    BY <2>1 DEF LateInv, Noticed, OnceInv, TypeOK, Session, Processes, OneInCharge, Orderly, WorkPC
<1>1. ses[w].pc # "republish" /\ ses[w].batch[b].status \in TerminalBatch
         => batch[b].status \in TerminalBatch
  BY <1>0 DEF Trusts
<1>. HIDE DEF b
<1>2. ASSUME NEW s, Become(w, s), s.pc \in WorkPC \cup {"ack"}, s.pc # "start",
             s.pc = "call" => ses[w].pc = "start", s.msg.batch = b,
             s.pc \in WorkPC /\ s.batch[b].status \in TerminalBatch
                => batch'[b].status \in TerminalBatch,
             job'.cancelReq = job.cancelReq,
             job'.status \in {job.status, ClaimedStatus(job.status)}, UNCHANGED late
      PROVE  Minds(w)
  <2>1. ses'[w] = s
    BY <1>0, <1>2 DEF Become
  <2>2. Trusts(s, batch')
    BY <1>2 DEF Trusts, RefreshPC, WorkPC
  <2>. QED  BY <1>2, <2>1, <2>2 DEF Minds, WorkPC
<1>3. ASSUME NEW s, Become(w, s), s.pc \in (WorkPC \cup {"ack"}) \ {"start", "call"},
             s.msg = ses[w].msg, s.batch = ses[w].batch, ses[w].pc # "republish",
             UNCHANGED batch, job'.status = job.status, job'.cancelReq = job.cancelReq,
             UNCHANGED late
      PROVE  Minds(w)
  BY <1>1, <1>2, <1>3 DEF b
\* The batch is over: a status that is not written is one it had.
<1>5. ASSUME NEW s, Become(w, s), s.pc = "count", s.msg = ses[w].msg, UNCHANGED <<job, late>>,
             NEW o \in TerminalBatch, SetBatchStatus(w, o), ses[w].pc # "republish"
      PROVE  Minds(w)
  <2>1. ses'[w] = s
    BY <1>0, <1>5 DEF Become
  <2>2. batch'[b].status \in TerminalBatch
    BY <1>0, <1>1, <1>5 DEF SetBatchStatus, Column, BatchRow, b
  <2>3. Trusts(s, batch')
    BY <1>5, <2>2 DEF Trusts, WorkPC, b
  <2>. QED  BY <1>5, <2>1, <2>3 DEF Minds
\* The rows are read again.
<1>6. ASSUME NEW s \in SessionRow, s.msg = ses[w].msg, NEW row
      PROVE  Loaded(s, row).batch[b] = batch[b]
  BY <1>0, <1>6 DEF Loaded, SessionRow, b
<1>. USE DEF history, dbVars
<1>7. CASE MarkUncertain(w)
  <2>1. PICK k, l, s : /\ k = Remember(w, Mine(w, "RUNNING"), "FAILED")
                       /\ l \in {"cancelPending", "claim"}
                       /\ s = [ses[w] EXCEPT !.item = k, !.pc = l] /\ Become(w, s)
    BY <1>7 DEF MarkUncertain, UncertainVerdict
  <2>2. s.pc = l /\ s.batch = ses[w].batch /\ s.msg = ses[w].msg
    BY <1>0, <2>1 DEF SessionRow
  <2>. QED  BY <1>3, <1>7, <2>1, <2>2 DEF MarkUncertain, WorkPC
<1>8. CASE Claim(w)
  <2>1. CASE ~StaleTask(ses[w].msg) /\ batch[b].status \in Claimable
    <3>1. PICK o, s : /\ s = [ses[w] EXCEPT !.pc = "claimed", !.out = o] /\ Become(w, s)
                      /\ job' = [job EXCEPT !.status = ClaimedStatus(job.status)]
      BY <1>8, <2>1 DEF Claim, b
    <3>2. s.pc = "claimed" /\ s.batch = ses[w].batch /\ s.msg = ses[w].msg
      BY <1>0, <3>1 DEF SessionRow
    <3>3. job'.status = ClaimedStatus(job.status) /\ job'.cancelReq = job.cancelReq
      BY <1>0, <3>1 DEF JobRow
    <3>4. ses[w].batch[b].status \notin TerminalBatch
      BY <1>1, <1>8, <2>1 DEF Claim, Claimable, TerminalBatch
    <3>5. UNCHANGED late
      BY <1>8 DEF Claim
    <3>. QED  BY <1>2, <3>1, <3>2, <3>3, <3>4, <3>5 DEF WorkPC, b
  <2>2. CASE ~(~StaleTask(ses[w].msg) /\ batch[b].status \in Claimable)
    <3>1. PICK s : /\ s = [ses[w] EXCEPT !.pc = "ack"] /\ Become(w, s)
                   /\ UNCHANGED <<batch, job, late>>
      BY <1>8, <2>2 DEF Claim, Goto, b
    <3>2. s.pc = "ack" /\ s.batch = ses[w].batch /\ s.msg = ses[w].msg /\ ses[w].pc = "claim"
      BY <1>0, <1>8, <3>1 DEF SessionRow, Claim
    <3>. QED  BY <1>3, <3>1, <3>2
  <2>. QED  BY <2>1, <2>2
<1>9. CASE StartBatch(w)
  <2>1. PICK l, x, s :
          /\ l = IF ses[w].out = "notStarted" \/ CancelSeen(job) THEN "cancelPending" ELSE "loop"
          /\ x = Loaded(ses[w], job)
          /\ s = [x EXCEPT !.pc = l, !.out = "none"] /\ Become(w, s)
    BY <1>9 DEF StartBatch
  <2>2. x \in SessionRow /\ x.msg = ses[w].msg
    <3>1. x \in SessionRow
      BY <1>0, <2>1, LoadedType DEF LateInv, OnceInv, TypeOK, Session
    <3>2. x.msg = ses[w].msg
      BY <1>0, <2>1 DEF Loaded, SessionRow
    <3>. QED  BY <3>1, <3>2
  <2>3. s.pc = l /\ s.batch = x.batch /\ s.msg = x.msg
    BY <2>1, <2>2 DEF SessionRow
  <2>4. s.batch[b] = batch[b] /\ l \in WorkPC \ {"start", "call"}
    BY <1>0, <1>6, <2>1, <2>3 DEF WorkPC
  <2>5. UNCHANGED <<batch, job, late>>
    BY <1>9 DEF StartBatch
  <2>. QED  BY <1>2, <2>1, <2>2, <2>3, <2>4, <2>5 DEF b
<1>10. CASE CheckCancel(w)
  <2>1. PICK row, l, s :
          /\ row = [ses[w].job EXCEPT !.status = job.status]
          /\ l = IF CancelSeen(row) THEN "cancelPending" ELSE "start"
          /\ s = [ses[w] EXCEPT !.job = row, !.pc = l] /\ Become(w, s)
    BY <1>10 DEF CheckCancel, StatusBeforeItem
  <2>2. /\ s.pc = l /\ s.batch = ses[w].batch /\ s.msg = ses[w].msg
        /\ row.status = job.status
    BY <1>0, <2>1 DEF SessionRow, JobRow
  <2>3. UNCHANGED <<batch, job, late>> /\ ses[w].pc = "loop"
    BY <1>10 DEF CheckCancel
  <2>4. ses'[w] = s
    BY <1>0, <2>1 DEF Become
  <2>5. Trusts(s, batch)
    BY <1>0, <2>1, <2>2, <2>3 DEF Trusts, WorkPC, RefreshPC
  <2>. QED  BY <2>1, <2>2, <2>3, <2>4, <2>5 DEF Minds, CancelSeen
<1>11. CASE StartItem(w)
  <2>1. PICK i, k, s : /\ s = [ses[w] EXCEPT !.pc = "call", !.cur = i, !.item = k]
                       /\ Become(w, s)
    BY <1>11 DEF StartItem
  <2>2. s.pc = "call" /\ s.batch = ses[w].batch /\ s.msg = ses[w].msg
    BY <1>0, <2>1 DEF SessionRow
  <2>. QED  BY <1>1, <1>2, <1>11, <2>1, <2>2 DEF StartItem, WorkPC, b
<1>12. CASE SapCall(w)
  <2>1. PICK o, s : /\ s = [ses[w] EXCEPT !.pc = "record", !.out = o] /\ Become(w, s)
    BY <1>12 DEF SapCall
  <2>2. s.pc = "record" /\ s.batch = ses[w].batch /\ s.msg = ses[w].msg
    BY <1>0, <2>1 DEF SessionRow
  <2>3. /\ UNCHANGED <<batch, job>> /\ ses[w].pc = "call"
        /\ late' = IF job.cancelReq THEN [late EXCEPT ![w] = @ + 1] ELSE late
    BY <1>12 DEF SapCall
  <2>4. ses'[w] = s
    BY <1>0, <2>1 DEF Become
  <2>5. Trusts(s, batch)
    BY <1>0, <2>2, <2>3 DEF Trusts, WorkPC, RefreshPC
  <2>. QED  BY <2>2, <2>3, <2>4, <2>5 DEF Minds
<1>13. CASE ItemDone(w)
  <2>1. PICK k, x, y, z, s :
          /\ s = [ses[w] EXCEPT !.pc = "loop", !.cur = None, !.out = "none", !.item = k]
          /\ job' = [job EXCEPT !.proc = x, !.succ = y, !.fail = z]
          /\ Become(w, s)
    BY <1>13 DEF ItemDone, RecordResult
  <2>2. /\ s.pc = "loop" /\ s.batch = ses[w].batch /\ s.msg = ses[w].msg
        /\ job'.status = job.status /\ job'.cancelReq = job.cancelReq
    BY <1>0, <2>1 DEF SessionRow, JobRow
  <2>. QED  BY <1>3, <1>13, <2>1, <2>2 DEF ItemDone, WorkPC
<1>14. CASE ItemLost(w) \/ AuthError(w) \/ AbortTask(w)
  <2>1. PICK l \in {"connLost", "authFailed", "failing"} :
          Become(w, [ses[w] EXCEPT !.pc = l, !.cur = None, !.out = "none"])
    BY <1>14 DEF ItemLost, AuthError, AbortTask
  <2>s. PICK s : s = [ses[w] EXCEPT !.pc = l, !.cur = None, !.out = "none"]
    OBVIOUS
  <2>2. s.pc = l /\ s.batch = ses[w].batch /\ s.msg = ses[w].msg
    BY <1>0, <2>s DEF SessionRow
  <2>. QED  BY <1>3, <1>14, <2>1, <2>s, <2>2 DEF ItemLost, AuthError, AbortTask, WorkPC
<1>15. CASE FailPending(w)
  <2>1. PICK k, l, s : /\ k = Remember(w, Unfinished(w), "FAILED")
                       /\ \/ ses[w].pc = "authFailed" /\ l = "loop"
                          \/ ses[w].pc = "failing" /\ l = "failBatch"
                       /\ s = [ses[w] EXCEPT !.item = k, !.pc = l] /\ Become(w, s)
    BY <1>15 DEF FailPending
  <2>2. s.pc = l /\ s.batch = ses[w].batch /\ s.msg = ses[w].msg
    BY <1>0, <2>1 DEF SessionRow
  <2>. QED  BY <1>3, <1>15, <2>1, <2>2 DEF FailPending, WorkPC
<1>16. CASE FinishBatch(w) \/ FailBatch(w)
  <2>1. PICK s : s = [ses[w] EXCEPT !.pc = "count"] /\ Become(w, s)
    BY <1>16 DEF FinishBatch, FailBatch, Goto
  <2>2. s.pc = "count" /\ s.msg = ses[w].msg
    BY <1>0, <2>1 DEF SessionRow
  <2>3. PICK o \in TerminalBatch : SetBatchStatus(w, o)
    BY <1>16 DEF FinishBatch, FailBatch, BatchOutcome, TerminalBatch
  <2>. QED  BY <1>5, <1>16, <2>1, <2>2, <2>3 DEF FinishBatch, FailBatch
<1>17. CASE CancelPending(w)
  <2>1. PICK k, s : s = [ses[w] EXCEPT !.pc = "count", !.item = k] /\ Become(w, s)
    BY <1>17 DEF CancelPending
  <2>2. s.pc = "count" /\ s.msg = ses[w].msg
    BY <1>0, <2>1 DEF SessionRow
  <2>3. "CANCELLED" \in TerminalBatch
    BY DEF TerminalBatch
  <2>. QED  BY <1>5, <1>17, <2>1, <2>2, <2>3 DEF CancelPending
<1>18. CASE ConnectionLost(w)
  <2>1. PICK l, x, s : /\ l = IF ses[w].msg.tries >= MaxRetries THEN "failing" ELSE "retrying"
                       /\ x = Loaded(ses[w], NoRow)
                       /\ s = [x EXCEPT !.pc = l] /\ Become(w, s)
    BY <1>18 DEF ConnectionLost
  <2>2. x \in SessionRow /\ x.msg = ses[w].msg
    <3>1. x \in SessionRow
      BY <1>0, <2>1, LoadedType, NoRowType DEF LateInv, OnceInv, TypeOK, Session
    <3>2. x.msg = ses[w].msg
      BY <1>0, <2>1 DEF Loaded, SessionRow
    <3>. QED  BY <3>1, <3>2
  <2>3. s.pc = l /\ s.batch = x.batch /\ s.msg = x.msg
    BY <2>1, <2>2 DEF SessionRow
  <2>4. s.batch[b] = batch[b]
    BY <1>0, <1>6, <2>1, <2>3
  <2>5. l \in WorkPC \ {"start", "call"} /\ UNCHANGED <<batch, job, late>>
    BY <1>18, <2>1 DEF ConnectionLost, WorkPC
  <2>. QED  BY <1>2, <2>1, <2>2, <2>3, <2>4, <2>5 DEF b
<1>19. CASE MarkRetrying(w)
  <2>1. PICK s : s = [ses[w] EXCEPT !.pc = "republish"] /\ Become(w, s)
    BY <1>19 DEF MarkRetrying, Goto
  <2>2. ses'[w] = s /\ s.pc = "republish"
    BY <1>0, <2>1 DEF SessionRow, Become
  <2>3. UNCHANGED <<job, late>>
    BY <1>19 DEF MarkRetrying
  <2>. QED  BY <2>2, <2>3 DEF Minds, Trusts, RefreshPC
<1>20. CASE MarkFailedSkipped(w)
  <2>1. PICK s : s = [ses[w] EXCEPT !.pc = "ack"] /\ Become(w, s)
    BY <1>20 DEF MarkFailedSkipped, Goto
  <2>2. s.pc = "ack" /\ s.batch = ses[w].batch /\ s.msg = ses[w].msg
    BY <1>0, <2>1 DEF SessionRow
  <2>. QED  BY <1>3, <1>20, <2>1, <2>2 DEF MarkFailedSkipped
<1>. QED
  BY <1>7, <1>8, <1>9, <1>10, <1>11, <1>12, <1>13, <1>14, <1>15, <1>16, <1>17, <1>18, <1>19, <1>20

\* A refresh by a worker may lose the cancellation, the batch being over; one of the
\* request that cancels completes it.
LEMMA RefreshHeeds ==
  ASSUME LateInv, NumBatches = 1, NEW p \in Processes, RefreshProgress(p), UNCHANGED late
  PROVE  Heeds(p)
<1>0. /\ ses[p] \in SessionRow /\ job \in JobRow /\ ses \in [Processes -> Session]
      /\ ses[p].pc \in RefreshPC
      /\ ses'[p].pc \in RefreshPC \cup {IF p \in Workers THEN "ack" ELSE "revoke"}
      /\ ses'[p].msg = ses[p].msg
      /\ \A q \in Processes : q # p => ses'[q] = ses[q]
      /\ UNCHANGED <<batch, queue, budget>>
      /\ Refreshes(ses[p]) /\ (p \in Requests => Asks(ses[p], job))
      /\ Requests \cap Workers = {}
  <2>1. TypeOK /\ Refreshes(ses[p]) /\ (p \in Requests => Asks(ses[p], job))
    BY DEF LateInv, OnceInv, Noticed
  <2>2. EngineTypes(Place, Outcome) /\ Places(Place, Outcome)
    BY <2>1, EngineOK
  <2>3. /\ ses[p].pc \in RefreshPC
        /\ ses'[p].pc \in RefreshPC \cup {IF p \in Workers THEN "ack" ELSE "revoke"}
        /\ ses'[p].msg = ses[p].msg
        /\ \A q \in Processes : q # p => ses'[q] = ses[q]
        /\ UNCHANGED <<batch, queue, budget>>
    BY <2>2, RefreshType DEF brokerVars
  <2>. QED  BY <2>1, <2>3, EngineAssumption DEF EngineAssumption, TypeOK, Session
<1>1. Spent => Spent'
  <2>1. /\ Charge(ses'[p], MayCrash') = {} \/ ses'[p].pc \in RefreshPC \cup {"ack"}
        /\ Charge(ses[p], MayCrash) = {} => Charge(ses'[p], MayCrash') = {}
    BY <1>0 DEF Charge, WorkPC, RefreshPC
  <2>. QED  BY <1>0, <2>1, SpentStays
<1>2. p \in Workers =>
         /\ batch[1].status \in TerminalBatch
         /\ Trusts(ses'[p], batch)
         /\ ses'[p].pc = "ack" => Spent'
  <2>. SUFFICES ASSUME p \in Workers
                PROVE  /\ batch[1].status \in TerminalBatch
                       /\ Trusts(ses'[p], batch)
                       /\ ses'[p].pc = "ack" => Spent'
    OBVIOUS
  <2>1. ses[p].msg.batch = 1 /\ 1 \in Charge(ses[p], MayCrash)
    BY <1>0, InCharge DEF LateInv
  <2>2. batch[1].status \in TerminalBatch
    BY <1>0, <2>1 DEF LateInv, Noticed, Trusts
  <2>3. Trusts(ses'[p], batch)
    BY <1>0, <2>1, <2>2 DEF Trusts, WorkPC, RefreshPC
  <2>4. ses'[p].pc = "ack" => Spent'
    BY <1>0, <2>1, <2>2, SpentNow DEF LateInv
  <2>. QED  BY <2>2, <2>3, <2>4
<1>3. ASSUME job'.cancelReq = job.cancelReq,
             job'.status = "CANCEL_REQUESTED" => job'.cancelReq,
             job'.cancelReq => CancelSeen(job') \/ Spent',
             p \in Requests => Asks(ses'[p], job'), Refreshes(ses'[p])
      PROVE  Heeds(p)
  <2>1. p \in Workers => AtMostOne(ses'[p], late'[p], job'.cancelReq)
    BY <1>0, <1>3 DEF LateInv, AtMostOne, RefreshPC
  <2>2. ses'[p].pc # "dispatchFailed"
    BY <1>0 DEF RefreshPC
  <2>. QED  BY <1>0, <1>1, <1>2, <1>3, <2>1, <2>2 DEF Heeds
<1>4. /\ job.status = "CANCEL_REQUESTED" => job.cancelReq
      /\ job.cancelReq => CancelSeen(job) \/ Spent'
  BY <1>1 DEF LateInv, Noticed
<1>5. ASSUME NEW s, Become(p, s)
      PROVE  ses'[p] = s
  BY <1>0, <1>5 DEF Become
<1>6. CASE CountItems(p)
  <2>1. PICK row, a, b, c, d, new, s :
          /\ row = (IF ses[p].job.status = "EXPIRED" THEN job ELSE ses[p].job)
          /\ new = [row EXCEPT !.succ = a, !.fail = b, !.canc = c, !.proc = d]
          /\ s = [ses[p] EXCEPT !.pc = "countBatches", !.job = row, !.new = new]
          /\ Become(p, s) /\ UNCHANGED job
    BY <1>6 DEF CountItems, dbVars
  <2>2. new.status = row.status /\ new.cancelReq = row.cancelReq
    BY <1>0, <2>1 DEF SessionRow, JobRow
  <2>3. s.pc = "countBatches" /\ s.job = row /\ s.new = new
    BY <1>0, <2>1 DEF SessionRow
  <2>4. p \in Requests => Asks(s, job)
    BY <1>0, <2>1, <2>2, <2>3 DEF Asks, CancelSeen
  <2>5. Refreshes(s)
    BY <2>2, <2>3 DEF Refreshes
  <2>. QED  BY <1>3, <1>4, <1>5, <2>1, <2>4, <2>5
<1>7. CASE CountBatches(p)
  <2>1. PICK mid, new, s :
          /\ mid = [ses[p].new EXCEPT !.fin = FinishedBatches]
          /\ new = IF mid.fin = NumBatches
                   THEN [mid EXCEPT !.status = FinalStatus(mid)] ELSE mid
          /\ s = [ses[p] EXCEPT !.pc = "save", !.new = new]
          /\ Become(p, s) /\ UNCHANGED job
    BY <1>7 DEF CountBatches, dbVars
  <2>2. /\ mid.status = ses[p].new.status /\ mid.cancelReq = ses[p].new.cancelReq
        /\ new.status = mid.status \/ new.status = FinalStatus(mid)
        /\ new.cancelReq = mid.cancelReq
    <3>1. ses[p].new \in JobRow
      BY <1>0 DEF SessionRow
    <3>2. mid.status = ses[p].new.status /\ mid.cancelReq = ses[p].new.cancelReq
      BY <2>1, <3>1 DEF JobRow
    <3>3. {"status", "cancelReq"} \subseteq DOMAIN mid
      BY <2>1, <3>1 DEF JobRow
    <3>. QED  BY <2>1, <3>2, <3>3
  <2>3. /\ ses[p].pc = "countBatches" /\ ses[p].new.status = ses[p].job.status
        /\ ses[p].new.cancelReq = ses[p].job.cancelReq
    BY <1>0, <1>7 DEF CountBatches, Refreshes
  <2>4. s.pc = "save" /\ s.job = ses[p].job /\ s.new = new
    BY <1>0, <2>1 DEF SessionRow
  <2>5. FinalStatus(mid) \in TerminalJob /\ (mid.cancelReq => FinalStatus(mid) = "CANCELLED")
    BY DEF FinalStatus, TerminalJob
  <2>6. p \in Requests => Asks(s, job)
    BY <1>0, <2>2, <2>3, <2>4, <2>5 DEF Asks, CancelSeen, RefreshPC
  <2>7. Refreshes(s)
    BY <2>2, <2>3, <2>4, <2>5 DEF Refreshes
  <2>. QED  BY <1>3, <1>4, <1>5, <2>1, <2>6, <2>7
<1>8. CASE SaveProgress(p)
  <2>1. PICK l, s : /\ l = IF p \in Workers THEN "ack" ELSE "revoke"
                    /\ s = [ses[p] EXCEPT !.pc = l] /\ Become(p, s)
    BY <1>8 DEF SaveProgress, Goto
  <2>2. s.pc = l /\ ses'[p] = s
    BY <1>0, <1>5, <2>1 DEF SessionRow
  <2>3. /\ ses[p].pc = "save"
        /\ job'.status = IF ses[p].new.status = ses[p].job.status
                         THEN job.status ELSE ses[p].new.status
        /\ job'.cancelReq = IF ses[p].new.cancelReq = ses[p].job.cancelReq
                            THEN job.cancelReq ELSE ses[p].new.cancelReq
    BY <1>8 DEF SaveProgress, FlushJob, Column
  <2>4. /\ job'.cancelReq = job.cancelReq
        /\ job'.status = job.status \/ job'.status \in TerminalJob
    BY <1>0, <2>3 DEF Refreshes
  <2>5. job'.status = "CANCEL_REQUESTED" => job'.cancelReq
    BY <1>4, <2>4 DEF TerminalJob
  <2>6. Asks(s, job') /\ Refreshes(s)
    BY <2>1, <2>2 DEF Asks, Refreshes, RefreshPC
  <2>7. job'.cancelReq => CancelSeen(job') \/ Spent'
    <3>1. CASE p \in Workers
      BY <1>2, <2>1, <2>2, <3>1
    <3>2. CASE p \in Requests
      <4>1. job'.status = job.status \/ CancelSeen(job')
        BY <1>0, <2>3, <3>2 DEF Asks, CancelSeen
      <4>. QED  BY <1>4, <2>4, <4>1 DEF CancelSeen
    <3>. QED  BY <3>1, <3>2 DEF Processes
  <2>. QED  BY <1>3, <2>2, <2>4, <2>5, <2>6, <2>7
<1>. QED  BY <1>6, <1>7, <1>8 DEF RefreshProgress

\* The broker's side of a worker: a batch that is over is not delivered again.
LEMMA BrokerHeeds ==
  ASSUME LateInv, NumBatches = 1, NEW w \in Workers,
         Receive(w) \/ Republish(w) \/ Ack(w) \/ WorkerCrash(w) \/ Discard(w), UNCHANGED late
  PROVE  Heeds(w)
<1>0. /\ w \in Processes /\ w \notin Requests /\ ses[w] \in SessionRow
      /\ ses \in [Processes -> Session] /\ budget \in [Faults -> Nat]
      /\ ses[w].pc # "idle" => ses[w].pc \in WorkPC \cup RefreshPC \cup {"ack"} /\ ses[w].msg.batch = 1
      /\ \A m \in queue : m \in Message /\ m.batch = 1
  <2>1. Batches = {1}
    BY OneBatchOnly
  <2>2. /\ w \in Processes /\ w \notin Requests /\ ses[w] \in SessionRow
        /\ ses \in [Processes -> Session] /\ budget \in [Faults -> Nat]
        /\ Orderly(w, ses[w]) /\ ses[w].pc \in WorkPC \cup RefreshPC \cup {"ack", "idle"}
        /\ \A m \in queue : m \in Message /\ m.batch \in Batches
    BY EngineAssumption
       DEF LateInv, OnceInv, TypeOK, Session, OneInCharge, Orderly, Processes, EngineAssumption
  <2>. QED  BY <2>1, <2>2 DEF Orderly
<1>1. UNCHANGED <<job, batch>> /\ (budget["crash"] = 0 => budget'["crash"] = 0)
  BY <1>0 DEF Receive, Republish, Ack, WorkerCrash, Discard, Spend, dbVars, brokerVars, Faults
<1>2. ASSUME NEW s, ses'[w] = s, \A q \in Processes : q # w => ses'[q] = ses[q],
             Spent => Spent', Trusts(s, batch), s.pc \notin {"start", "call"} \cup RefreshPC
      PROVE  Heeds(w)
  <2>1. AtMostOne(s, late'[w], job'.cancelReq)
    BY <1>1, <1>2 DEF LateInv, AtMostOne
  <2>2. Refreshes(s)
    BY <1>2 DEF Refreshes, RefreshPC
  <2>. QED  BY <1>0, <1>1, <1>2, <2>1, <2>2 DEF Heeds, LateInv, Noticed
<1>3. CASE Receive(w) /\ ~UNCHANGED ses
  <2>1. PICK m, x, s :
          /\ m \in queue /\ batch[m.batch].status \notin TerminalBatch
          /\ x = [Idle("loaded") EXCEPT !.msg = m] /\ s = Loaded(x, job) /\ Become(w, s)
    BY <1>3 DEF Receive
  <2>2. x \in SessionRow /\ x.pc = "loaded" /\ x.msg = m
    <3>1. Idle("loaded") \in SessionRow /\ Idle("loaded").pc = "loaded"
      BY IdleSession DEF PC, Place, WorkerPC, Session, Idle
    <3>. QED  BY <1>0, <2>1, <3>1 DEF SessionRow
  <2>3. s.pc = "loaded" /\ s.msg = m /\ m.batch = 1 /\ s.batch[1] = batch[1]
    <3>1. m.batch = 1 /\ 1 \in Batches
      BY <1>0, <2>1, OneBatchOnly
    <3>. QED  BY <2>1, <2>2, <3>1 DEF Loaded, SessionRow
  <2>4. Trusts(s, batch)
    BY <2>3 DEF Trusts, WorkPC, RefreshPC
  <2>5. ~Spent
    BY <2>1, <2>3 DEF Spent
  <2>6. ses'[w] = s /\ \A q \in Processes : q # w => ses'[q] = ses[q]
    BY <1>0, <2>1 DEF Become
  <2>. QED  BY <1>2, <2>3, <2>4, <2>5, <2>6 DEF RefreshPC
<1>4. CASE (Receive(w) \/ Discard(w)) /\ UNCHANGED ses
  <2>1. ses[w].pc = "idle" /\ queue' \subseteq queue /\ UNCHANGED <<ses, budget>>
    BY <1>4 DEF Receive, Discard
  <2>2. Charge(ses'[w], MayCrash') = {} /\ Trusts(ses[w], batch)
    BY <2>1 DEF Charge, WorkPC, RefreshPC, Trusts
  <2>3. Spent => Spent'
    BY <1>0, <1>1, <2>1, <2>2, SpentStays
  <2>. QED  BY <1>2, <2>1, <2>2, <2>3 DEF RefreshPC
<1>5. CASE Republish(w)
  <2>1. PICK s : s = [ses[w] EXCEPT !.pc = "ack"] /\ Become(w, s)
    BY <1>5 DEF Republish, Goto
  <2>2. /\ s.pc = "ack" /\ ses'[w] = s /\ ses[w].pc = "republish"
        /\ \A q \in Processes : q # w => ses'[q] = ses[q]
    BY <1>0, <1>5, <2>1 DEF SessionRow, Become, Republish
  <2>3. ~Spent /\ Trusts(s, batch)
    BY <2>2, Busy DEF WorkPC, Trusts, RefreshPC
  <2>. QED  BY <1>2, <2>2, <2>3 DEF RefreshPC
<1>6. CASE Ack(w) \/ WorkerCrash(w)
  <2>1. PICK s : s = Idle("idle") /\ Become(w, s)
    BY <1>6 DEF Ack, WorkerCrash
  <2>2. s.pc = "idle" /\ ses'[w] = s /\ \A q \in Processes : q # w => ses'[q] = ses[q]
    BY <1>0, <2>1 DEF Idle, Become
  <2>3. Trusts(s, batch) /\ Charge(s, MayCrash') = {}
    BY <2>2 DEF Trusts, Charge, WorkPC, RefreshPC
  <2>4. queue = {} /\ Charge(ses[w], MayCrash) = {} => queue' = {}
    <3>1. CASE Ack(w)
      BY <3>1 DEF Ack, brokerVars
    <3>2. CASE WorkerCrash(w)
      <4>1. ses[w].pc # "idle" /\ MayCrash
        BY <1>0, <3>2 DEF WorkerCrash, Spend, MayCrash, Faults
      <4>2. Charge(ses[w], MayCrash) # {}
        BY <1>0, <4>1, OneBatchOnly DEF Charge, WorkPC, RefreshPC
      <4>. QED  BY <4>2
    <3>. QED  BY <1>6, <3>1, <3>2
  <2>5. Spent => Spent'
    BY <1>0, <1>1, <2>2, <2>3, <2>4, SpentStays
  <2>. QED  BY <1>2, <2>2, <2>3, <2>5 DEF RefreshPC
<1>. QED  BY <1>3, <1>4, <1>5, <1>6 DEF Discard

\* The requests: what a failed dispatch writes over, nobody executes.
LEMMA RequestHeeds ==
  ASSUME LateInv, NumBatches = 1, Retriers = {}, NEW r \in Requests, RequestNext(r),
         UNCHANGED history
  PROVE  Heeds(r)
<1>0. /\ r \in Processes /\ r \notin Workers /\ ses[r] \in SessionRow /\ job \in JobRow
      /\ ses \in [Processes -> Session] /\ batch \in [Batches -> BatchRow]
      /\ Orderly(r, ses[r]) /\ ses[r].todo \subseteq {1} /\ Batches = {1}
      /\ Asks(ses[r], job) /\ UNCHANGED late
      /\ (budget["crash"] = 0 => budget'["crash"] = 0)
      /\ \A q \in Processes : q # r => ses'[q] = ses[q]
  <2>1. \A f \in Faults : budget[f] = 0 => budget'[f] = 0
    BY EngineOK, RequestType DEF LateInv, OnceInv
  <2>2. \A q \in Processes : q # r => ses'[q] = ses[q]
    BY EngineOK, RequestMoves DEF LateInv, OnceInv
  <2>. QED
    BY <2>1, <2>2, EngineAssumption, OneBatchOnly
       DEF LateInv, Noticed, OnceInv, TypeOK, Session, SessionRow, OneInCharge,
           Processes, EngineAssumption, Faults, history
<1>1. /\ job.status = "CANCEL_REQUESTED" => job.cancelReq
      /\ job.cancelReq => CancelSeen(job) \/ Spent
  BY DEF LateInv, Noticed
<1>2. ASSUME NEW s, Become(r, s)
      PROVE  ses'[r] = s
  BY <1>0, <1>2 DEF Become
\* Most steps leave the job alone and end no refresh.
<1>3. ASSUME NEW s, ses'[r] = s, UNCHANGED job, s.pc \notin RefreshPC, Asks(s, job),
             \/ 1 \in Charge(ses[r], MayCrash)
             \/ batch'[1].status \in {batch[1].status} \cup TerminalBatch,
             Spent => Spent', s.pc = "dispatchFailed" => Spent'
      PROVE  Heeds(r)
  <2>1. Refreshes(s)
    BY <1>3 DEF Refreshes, RefreshPC
  <2>. QED  BY <1>0, <1>1, <1>3, <2>1 DEF Heeds
<1>4. ASSUME ses[r].pc = "dispatch" \/ (ses[r].pc \in {"mark", "publish"} /\ 1 \in Charge(ses[r], MayCrash))
      PROVE  1 \in Charge(ses[r], MayCrash) /\ ~Spent
  <2>1. 1 \in Charge(ses[r], MayCrash)
    BY <1>0, <1>4 DEF Charge
  <2>. QED  BY <1>0, <1>4, <2>1 DEF Spent, RefreshPC
<1>5. ASSUME Charge(ses'[r], MayCrash') = {}, UNCHANGED queue,
             batch'[1].status \in {batch[1].status} \cup TerminalBatch
      PROVE  Spent => Spent'
  BY <1>0, <1>5, SpentStays
<1>6. CASE DispatchLoad(r)
  <2>1. PICK l, s :
          /\ l = IF Dispatchable = {} THEN "done" ELSE "mark"
          /\ s = [ses[r] EXCEPT !.todo = Dispatchable, !.pc = l] /\ Become(r, s)
    BY <1>6 DEF DispatchLoad
  <2>2. ses[r].pc = "dispatch" /\ UNCHANGED job /\ s.pc = l /\ s.job = ses[r].job
    BY <1>0, <1>6, <2>1 DEF DispatchLoad, dbVars, SessionRow
  <2>3. Asks(s, job) /\ s.pc \notin RefreshPC \cup {"dispatchFailed"}
    BY <2>1, <2>2 DEF Asks, RefreshPC
  <2>. QED  BY <1>2, <1>3, <1>4, <2>1, <2>2, <2>3
<1>7. CASE ModuleDisabled(r) \/ PublishFails(r)
  <2>1. PICK s : s = [ses[r] EXCEPT !.pc = "dispatchFailed"] /\ Become(r, s)
    BY <1>7 DEF ModuleDisabled, PublishFails, Goto
  <2>2. ses'[r] = s /\ s.pc = "dispatchFailed" /\ UNCHANGED queue
    BY <1>0, <1>2, <1>7, <2>1 DEF SessionRow, ModuleDisabled, PublishFails, brokerVars
  <2>3. 1 \in Charge(ses[r], MayCrash)
    <3>1. ses[r].pc = "dispatch" \/ (ses[r].pc = "publish" /\ ses[r].msg.batch = 1)
      BY <1>0, <1>7 DEF ModuleDisabled, PublishFails, Orderly
    <3>. QED  BY <1>0, <3>1 DEF Charge
  <2>4. Charge(s, MayCrash') = {}
    BY <2>2 DEF Charge, WorkPC, RefreshPC
  <2>5. Spent'
    BY <1>0, <2>2, <2>3, <2>4, SpentNow DEF LateInv
  <2>6. Asks(s, job') /\ Refreshes(s)
    BY <2>2 DEF Asks, Refreshes, RefreshPC
  <2>7. /\ job'.cancelReq = job.cancelReq
        /\ job'.status \in {job.status, "CANCELLED"}
    BY <1>0, <1>7 DEF ModuleDisabled, PublishFails, JobRow
  <2>. QED  BY <1>0, <1>1, <2>2, <2>3, <2>5, <2>6, <2>7 DEF Heeds
<1>8. CASE MarkQueued(r)
  <2>1. PICK b, m, t, s :
          /\ b \in ses[r].todo
          /\ s = [ses[r] EXCEPT !.pc = "publish", !.todo = t, !.msg = m] /\ Become(r, s)
    BY <1>8 DEF MarkQueued
  <2>2. ses[r].pc = "mark" /\ UNCHANGED job /\ s.pc = "publish" /\ 1 \in Charge(ses[r], MayCrash)
    BY <1>0, <1>8, <2>1 DEF MarkQueued, SessionRow, Charge
  <2>3. Asks(s, job)
    BY <2>2 DEF Asks, RefreshPC
  <2>. QED  BY <1>2, <1>3, <1>4, <2>1, <2>2, <2>3 DEF RefreshPC
<1>9. CASE Publish(r)
  <2>1. PICK l, s : /\ l = IF ses[r].todo = {} THEN "done" ELSE "mark"
                    /\ s = [ses[r] EXCEPT !.pc = l] /\ Become(r, s)
    BY <1>9 DEF Publish, Goto
  <2>2. /\ ses[r].pc = "publish" /\ UNCHANGED job /\ s.pc = l
        /\ 1 \in Charge(ses[r], MayCrash)
    BY <1>0, <1>9, <2>1 DEF Publish, dbVars, SessionRow, Charge, Orderly
  <2>3. Asks(s, job) /\ s.pc \notin RefreshPC \cup {"dispatchFailed"}
    BY <2>1, <2>2 DEF Asks, RefreshPC
  <2>. QED  BY <1>2, <1>3, <1>4, <2>1, <2>2, <2>3
<1>10. CASE DispatchFailed(r)
  <2>1. PICK s : s = [ses[r] EXCEPT !.pc = "done"] /\ Become(r, s)
    BY <1>10 DEF DispatchFailed, Goto
  <2>2. /\ ses'[r] = s /\ s.pc = "done" /\ UNCHANGED <<batch, queue>> /\ Spent
        /\ job'.status = "DISPATCH_FAILED" /\ job'.cancelReq = job.cancelReq
    BY <1>0, <1>2, <1>10, <2>1
       DEF DispatchFailed, brokerVars, SessionRow, JobRow, LateInv, Noticed
  <2>3. Spent'
    <3>1. Charge(s, MayCrash') = {}
      BY <2>2 DEF Charge, WorkPC, RefreshPC
    <3>. QED  BY <1>5, <2>2, <3>1
  <2>4. Asks(s, job') /\ Refreshes(s)
    BY <2>2 DEF Asks, Refreshes, RefreshPC
  <2>. QED  BY <1>0, <2>2, <2>3, <2>4 DEF Heeds
<1>11. CASE CancelLoad(r)
  <2>1. PICK s : /\ \/ s = Idle("done")
                    \/ s = [Idle("cancel") EXCEPT !.job = job, !.batch = batch, !.item = item]
                 /\ Become(r, s)
    BY <1>11 DEF CancelLoad
  <2>2. /\ s.pc = "done" \/ (s.pc = "cancel" /\ s.job = job)
        /\ s.msg.batch = 0
    <3>1. CASE s = Idle("done")
      BY <3>1 DEF Idle, NoMsg
    <3>2. CASE s = [Idle("cancel") EXCEPT !.job = job, !.batch = batch, !.item = item]
      BY <3>2 DEF Idle, NoMsg
    <3>. QED  BY <2>1, <3>1, <3>2
  <2>3. Charge(s, MayCrash') = {}
    BY <1>0, <2>2 DEF Charge, WorkPC, RefreshPC
  <2>4. Asks(s, job)
    BY <1>1, <2>2 DEF Asks, RefreshPC
  <2>5. UNCHANGED <<job, batch, queue>>
    BY <1>11 DEF CancelLoad, dbVars, brokerVars
  <2>. QED  BY <1>2, <1>3, <1>5, <2>1, <2>2, <2>3, <2>4, <2>5 DEF RefreshPC
<1>12. CASE CancelCommit(r)
  <2>1. PICK new, hit, s :
          /\ new = [ses[r].job EXCEPT !.status = "CANCEL_REQUESTED", !.cancelReq = TRUE]
          /\ job' = FlushJob(ses[r].job, new)
          /\ batch' = [b \in Batches |->
                         IF b \in hit THEN [batch[b] EXCEPT !.status = "CANCELLED"] ELSE batch[b]]
          /\ s = [ses[r] EXCEPT !.pc = "count", !.job = new] /\ Become(r, s)
    BY <1>12 DEF CancelCommit
  <2>2. /\ ses'[r] = s /\ s.pc = "count" /\ s.job = new /\ s.msg = ses[r].msg
        /\ ses[r].pc = "cancel" /\ UNCHANGED queue
    BY <1>0, <1>2, <1>12, <2>1 DEF CancelCommit, brokerVars, SessionRow
  <2>3. new.status = "CANCEL_REQUESTED" /\ new.cancelReq = TRUE
    BY <1>0, <2>1 DEF SessionRow, JobRow
  <2>4. /\ job'.status = Column(job.status, ses[r].job.status, "CANCEL_REQUESTED")
        /\ job'.cancelReq = Column(job.cancelReq, ses[r].job.cancelReq, TRUE)
    BY <2>1, <2>3 DEF FlushJob
  <2>5. /\ ses[r].job.status = "CANCEL_REQUESTED" => job.cancelReq
        /\ ses[r].job.cancelReq => job.cancelReq
        /\ ses[r].job.cancelReq \in BOOLEAN
    BY <1>0, <2>2 DEF Asks, SessionRow, JobRow
  <2>6. job'.cancelReq /\ (job'.status = job.status \/ job'.status = "CANCEL_REQUESTED")
    BY <2>4, <2>5 DEF Column
  <2>7. CancelSeen(job') \/ (job'.status = job.status /\ job.cancelReq)
    BY <2>4, <2>5 DEF Column, CancelSeen
  <2>8. batch'[1].status \in {batch[1].status} \cup TerminalBatch
    BY <1>0, <2>1 DEF BatchRow, TerminalBatch
  <2>9. Spent => Spent'
    <3>1. Charge(s, MayCrash') = Charge(ses[r], MayCrash)
      BY <2>2 DEF Charge, RefreshPC
    <3>. QED  BY <1>0, <2>2, <2>8, <3>1, SpentStays DEF RefreshPC
  <2>10. Asks(s, job') /\ Refreshes(s)
    BY <2>2, <2>3 DEF Asks, Refreshes
  <2>11. CancelSeen(job') \/ Spent'
    BY <1>1, <2>7, <2>9 DEF CancelSeen
  <2>. QED  BY <1>0, <2>2, <2>6, <2>8, <2>9, <2>10, <2>11 DEF Heeds
<1>13. CASE Revoke(r) \/ RequestCrash(r)
  <2>1. PICK s : s = Idle("done") /\ Become(r, s)
    BY <1>13 DEF Revoke, RequestCrash
  <2>2. /\ ses'[r] = s /\ s.pc = "done" /\ UNCHANGED <<job, batch, queue>>
    BY <1>2, <1>13, <2>1 DEF Revoke, RequestCrash, dbVars, brokerVars, Idle
  <2>3. Charge(s, MayCrash') = {} /\ Asks(s, job)
    BY <2>2 DEF Charge, Asks, WorkPC, RefreshPC
  <2>. QED  BY <1>3, <1>5, <2>2, <2>3 DEF RefreshPC
<1>14. CASE RefreshProgress(r)
  BY <1>0, <1>14, RefreshHeeds
<1>15. ~RetryLoad(r) /\ ~RetryRequeue(r)
  BY <1>0 DEF RetryLoad, RetryRequeue, Orderly
<1>. QED
  BY <1>6, <1>7, <1>8, <1>9, <1>10, <1>11, <1>12, <1>13, <1>14, <1>15
     DEF RequestNext, RequestProgress

LEMMA LateInit == SingleDelivery /\ NumBatches = 1 /\ Init => LateInv
<1>. SUFFICES ASSUME SingleDelivery, NumBatches = 1, Init PROVE LateInv
  OBVIOUS
<1>1. OnceInv
  BY OnceInit
<1>2. /\ \A p \in Processes : ses[p] = Idle(IF p = Creator THEN "dispatch" ELSE "idle")
      /\ ~job.cancelReq /\ job.status = "QUEUED" /\ \A w \in Workers : late[w] = 0
  BY DEF Init, EngineInit, NoRow
<1>3. \A l : Idle(l).pc = l
  BY DEF Idle
<1>4. \A p \in Processes : ses[p].pc \in {"dispatch", "idle"}
  BY <1>2, <1>3
<1>5. \A p \in Processes : /\ Trusts(ses[p], batch) /\ Asks(ses[p], job) /\ Refreshes(ses[p])
                           /\ ses[p].pc # "dispatchFailed"
  BY <1>4 DEF Trusts, Asks, Refreshes, WorkPC, RefreshPC
<1>. QED  BY <1>1, <1>2, <1>5 DEF LateInv, Noticed, AtMostOne, Processes

LEMMA LateStep == SingleDelivery /\ NumBatches = 1 /\ LateInv /\ [Next]_vars => LateInv'
<1>. SUFFICES ASSUME SingleDelivery, NumBatches = 1, LateInv, [Next]_vars PROVE LateInv'
  OBVIOUS
<1>1. OnceInv'
  BY OnceStep DEF LateInv
<1>2. CASE UNCHANGED vars
  BY <1>1, <1>2 DEF vars, engineVars, history, LateInv, Noticed, Spent, MayCrash
<1>3. ASSUME NEW w \in Workers, WorkerProgress(w) \/ WorkerFault(w)
      PROVE  Heeds(w)
  <2>1. CASE \/ Receive(w) \/ Republish(w)
             \/ (Ack(w) \/ WorkerCrash(w) \/ Discard(w)) /\ UNCHANGED history
    <3>1. UNCHANGED late
      BY <2>1 DEF Receive, Republish, history
    <3>. QED  BY <2>1, <3>1, BrokerHeeds
  <2>2. CASE RefreshProgress(w) /\ UNCHANGED history
    BY <2>2, RefreshHeeds DEF Processes, history
  <2>3. ASSUME \/ MarkUncertain(w) \/ Claim(w) \/ StartBatch(w) \/ CheckCancel(w) \/ StartItem(w)
               \/ SapCall(w) \/ ItemDone(w) \/ ItemLost(w) \/ AuthError(w) \/ FailPending(w)
               \/ FinishBatch(w) \/ CancelPending(w) \/ ConnectionLost(w) \/ MarkRetrying(w)
               \/ MarkFailedSkipped(w) \/ FailBatch(w) \/ AbortTask(w)
        PROVE  Heeds(w)
    <3>1. Works(w) /\ Minds(w)
      BY <2>3, WorkerWorks, WorkerMinds DEF LateInv
    <3>. QED  BY <3>1, WorkHeeds
  <2>. QED  BY <1>3, <2>1, <2>2, <2>3 DEF WorkerProgress, WorkerFault
<1>4. ASSUME NEW r \in Requests, RequestNext(r), UNCHANGED history
      PROVE  Heeds(r)
  BY <1>4, RequestHeeds DEF SingleDelivery
<1>5. CASE Next
  BY <1>1, <1>3, <1>4, <1>5, HeedsInv DEF Next, Processes
<1>. QED  BY <1>2, <1>5

\* Once a cancellation is recorded a worker makes at most the one SAP call it had
\* decided on, though a stale refresh or a failed dispatch may write over the status.
\* For a job of one batch: the failed publication of a second one hides the
\* cancellation from the worker of the first.
THEOREM CancelStopsCalls ==
  ASSUME SingleDelivery, NumBatches = 1 PROVE Spec => []CancelBoundsCalls
<1>1. Init => LateInv
  BY LateInit
<1>2. LateInv /\ [Next]_vars => LateInv'
  BY LateStep
<1>3. LateInv => CancelBoundsCalls
  BY DEF LateInv, AtMostOne, CancelBoundsCalls
<1>. QED  BY <1>1, <1>2, <1>3, PTL DEF Spec

-----------------------------------------------------------------------------
(***************************************************************************)
(* What a job reports.  Every commit of refresh_progress writes counts that *)
(* it took a while ago, and only where they differ from what the session   *)
(* had read.  With one worker the counts are still true: nobody else       *)
(* records results.  And a column it does not write is already right: what *)
(* the session had read is no more than what the row says, and that no     *)
(* more than what the items say, so that if the count equals the first it  *)
(* equals the second.  With two workers the older count may be written last.*)
(***************************************************************************)
Alone == \A v, w \in Workers : v = w
NoDeath == \A f \in Budgets : f["crash"] = 0

\* No cancellation has touched the row.
Untouched(row) == ~CancelSeen(row) /\ ~row.cancelReq

\* Where a worker may have left an item RUNNING.
Hands == {"call", "record", "authFailed", "failing"}

Handles(s, i) == s.pc \in Hands /\ BatchOf[i] = s.msg.batch

\* The counters of a row are those of the items, or behind them.
Tallied(row) ==
    /\ row.succ = ItemCount("SUCCEEDED") /\ row.fail = ItemCount("FAILED")
    /\ row.canc = ItemCount("CANCELLED") /\ row.proc = row.succ + row.fail + row.canc
Within(row) ==
    /\ row.succ <= ItemCount("SUCCEEDED") /\ row.fail <= ItemCount("FAILED")
    /\ row.canc <= ItemCount("CANCELLED")
    /\ row.proc <= ItemCount("SUCCEEDED") + ItemCount("FAILED") + ItemCount("CANCELLED")
    /\ row.fin <= FinishedBatches

\* What a session has read of the job is no more than what the row says.
Lags(row, jb) ==
    /\ row.succ <= jb.succ /\ row.fail <= jb.fail /\ row.canc <= jb.canc
    /\ row.proc <= jb.proc /\ row.fin <= jb.fin

\* The worker has failed its items, or is on its way to, and still has to count them.
Owes(s) ==
    \/ s.pc \in {"failing", "failBatch"} \cup RefreshPC
    \/ s.pc = "loop" /\ \A i \in Items : s.item[i] # "PENDING"

Settled(b) == \A i \in Own(b) : item[i] \in TerminalItem

Reporting(s) ==
    /\ s.pc # "cancelPending" /\ s.out # "notStarted"
    /\ Untouched(s.job) /\ Lags(s.job, job)
    /\ s.pc = "failBatch" => Settled(s.msg.batch)
    /\ s.pc \in {"countBatches", "save"} => Tallied(s.new) /\ ~s.new.cancelReq
    /\ s.pc = "save" => /\ s.new.fin = FinishedBatches
                        /\ s.new.status \in {s.job.status, FinalStatus(s.new)}

Verdict ==
    /\ job.status = "COMPLETED" => \A i \in Items : item[i] = "SUCCEEDED"
    /\ job.status = "FAILED" => ItemCount("SUCCEEDED") = 0
    /\ job.status = "COMPLETED_WITH_ERRORS" =>
          ItemCount("SUCCEEDED") > 0 /\ ItemCount("FAILED") > 0

ReportInv ==
    /\ budget["crash"] = 0
    /\ Untouched(job) /\ Within(job) /\ Verdict
    /\ \A i \in Items : item[i] # "CANCELLED"
    /\ \A b \in Batches : batch[b].status \in TerminalBatch => Settled(b)
    /\ \A w \in Workers : Reporting(ses[w])
    /\ Tallied(job) \/ \E w \in Workers : Owes(ses[w])
    /\ job.fin = FinishedBatches \/ \E w \in Workers : ses[w].pc \in RefreshPC
    /\ \A i \in Items : item[i] = "RUNNING" => \E w \in Workers : Handles(ses[w], i)

LEMMA SameCount ==
  ASSUME NEW s, \A i \in Items : item'[i] = s <=> item[i] = s
  PROVE  ItemCount(s)' = ItemCount(s)
<1>1. {i \in Items : item'[i] = s} = {i \in Items : item[i] = s}
  OBVIOUS
<1>. QED  BY <1>1 DEF ItemCount

LEMMA MoreCount ==
  ASSUME NEW s, \A i \in Items : item[i] = s => item'[i] = s
  PROVE  ItemCount(s) \in Nat /\ ItemCount(s)' \in Nat /\ ItemCount(s) <= ItemCount(s)'
<1>. DEFINE S == {i \in Items : item[i] = s}
            T == {i \in Items : item'[i] = s}
<1>1. IsFiniteSet(T)
  BY FS_Subset, EngineAssumption DEF EngineAssumption
<1>2. S \in SUBSET T
  OBVIOUS
<1>. HIDE DEF S, T
<1>3. Cardinality(S) <= Cardinality(T) /\ Cardinality(T) \in Nat /\ Cardinality(S) \in Nat
  BY <1>1, <1>2, FS_Subset, FS_CardinalityType
<1>4. ItemCount(s) = Cardinality(S) /\ ItemCount(s)' = Cardinality(T)
  BY DEF ItemCount, S, T
<1>. QED  BY <1>3, <1>4

LEMMA OneMore ==
  ASSUME NEW s, NEW k \in Items, item[k] # s, item'[k] = s,
         \A i \in Items : i # k => item'[i] = item[i]
  PROVE  ItemCount(s)' = ItemCount(s) + 1
<1>. DEFINE S == {i \in Items : item[i] = s}
            T == {i \in Items : item'[i] = s}
<1>1. IsFiniteSet(S)
  BY FS_Subset, EngineAssumption DEF EngineAssumption
<1>2. T = S \cup {k} /\ k \notin S
  OBVIOUS
<1>. HIDE DEF S, T
<1>3. Cardinality(T) = Cardinality(S) + 1
  BY <1>1, <1>2, FS_AddElement
<1>4. ItemCount(s) = Cardinality(S) /\ ItemCount(s)' = Cardinality(T)
  BY DEF ItemCount, S, T
<1>. QED  BY <1>3, <1>4

LEMMA SameFinished ==
  ASSUME \A b \in Batches : batch'[b].status \in TerminalBatch <=> batch[b].status \in TerminalBatch
  PROVE  FinishedBatches' = FinishedBatches
<1>1. {b \in Batches : batch'[b].status \in TerminalBatch}
      = {b \in Batches : batch[b].status \in TerminalBatch}
  OBVIOUS
<1>. QED  BY <1>1 DEF FinishedBatches

LEMMA MoreFinished ==
  ASSUME \A b \in Batches : batch[b].status \in TerminalBatch => batch'[b].status \in TerminalBatch
  PROVE  /\ FinishedBatches \in Nat /\ FinishedBatches' \in Nat
         /\ FinishedBatches <= FinishedBatches'
<1>. DEFINE S == {b \in Batches : batch[b].status \in TerminalBatch}
            T == {b \in Batches : batch'[b].status \in TerminalBatch}
<1>0. IsFiniteSet(Batches)
  BY FS_Interval, EngineAssumption DEF EngineAssumption, Batches
<1>1. IsFiniteSet(T)
  BY <1>0, FS_Subset
<1>2. S \in SUBSET T
  OBVIOUS
<1>. HIDE DEF S, T
<1>3. Cardinality(S) <= Cardinality(T) /\ Cardinality(T) \in Nat /\ Cardinality(S) \in Nat
  BY <1>1, <1>2, FS_Subset, FS_CardinalityType
<1>4. FinishedBatches = Cardinality(S) /\ FinishedBatches' = Cardinality(T)
  BY DEF FinishedBatches, S, T
<1>. QED  BY <1>3, <1>4

\* A step of p that records no result and finishes no batch.
SameCounters(row, jb) ==
    /\ row.succ = jb.succ /\ row.fail = jb.fail /\ row.canc = jb.canc
    /\ row.proc = jb.proc /\ row.fin = jb.fin

Carries(s, t) ==
    /\ t.pc \notin {"cancelPending", "failBatch"} \cup RefreshPC /\ s.pc \notin RefreshPC
    /\ t.out # "notStarted" /\ Untouched(t.job) /\ Lags(t.job, job)
    /\ Owes(s) => Owes(t)
    /\ \A i \in Items : item'[i] = "RUNNING" => Handles(t, i)

Quietly(p) ==
    /\ \A q \in Processes : q # p => ses'[q] = ses[q]
    /\ \A f \in Faults : budget[f] = 0 => budget'[f] = 0
    /\ \A i \in Items : item'[i] # item[i] => {item[i], item'[i]} \subseteq {"PENDING", "RUNNING"}
    /\ \A b \in Batches : batch'[b].status \in TerminalBatch <=> batch[b].status \in TerminalBatch
    /\ SameCounters(job', job) /\ Untouched(job')
    /\ job'.status = job.status \/ ~Over(job')
    /\ p \in Requests => UNCHANGED item
    /\ p \in Workers => Carries(ses[p], ses'[p])

\* An over job has nothing but recorded results.
LEMMA OverSettled ==
  ASSUME EndInv, ReportInv, AllOver(batch), NEW i \in Items
  PROVE  item[i] \in TerminalItem
BY EngineAssumption DEF ReportInv, AllOver, Settled, Own, EngineAssumption

LEMMA QuietInv ==
  ASSUME EndInv, ReportInv, Alone, NEW p \in Processes, Quietly(p)
  PROVE  ReportInv'
<1>1. /\ ItemCount("SUCCEEDED")' = ItemCount("SUCCEEDED")
      /\ ItemCount("FAILED")' = ItemCount("FAILED")
      /\ ItemCount("CANCELLED")' = ItemCount("CANCELLED")
      /\ FinishedBatches' = FinishedBatches
  BY SameCount, SameFinished DEF Quietly
<1>2. budget'["crash"] = 0 /\ Untouched(job') /\ SameCounters(job', job)
  BY DEF Quietly, ReportInv, Faults
<1>3. Within(job)' /\ (Tallied(job) => Tallied(job)') /\ (job.fin = FinishedBatches => job'.fin = FinishedBatches')
  BY <1>1, <1>2 DEF ReportInv, Within, Tallied, SameCounters
<1>4. \A i \in Items : item'[i] # "CANCELLED"
  BY DEF Quietly, ReportInv
<1>5. \A b \in Batches : Settled(b) => Settled(b)'
  BY DEF Settled, Quietly, TerminalItem, Own
<1>6. \A b \in Batches : batch'[b].status \in TerminalBatch => Settled(b)'
  BY <1>5 DEF ReportInv, Quietly
<1>7. Verdict'
  <2>1. CASE ~Over(job')
    BY <2>1 DEF Verdict, Over, TerminalJob
  <2>2. CASE job'.status = job.status
    <3>1. \A i \in Items : item[i] = "SUCCEEDED" => item'[i] = "SUCCEEDED"
      BY DEF Quietly
    <3>. QED  BY <1>1, <2>2, <3>1 DEF Verdict, ReportInv
  <2>. QED  BY <2>1, <2>2 DEF Quietly
<1>8. CASE p \in Workers
  <2>1. \A w \in Workers : w = p
    BY <1>8 DEF Alone
  <2>2. Carries(ses[p], ses'[p])
    BY <1>8 DEF Quietly
  <2>3. Lags(ses'[p].job, job')
    BY <1>2, <2>2 DEF Carries, Lags, SameCounters
  <2>4. Reporting(ses[p])'
    BY <2>2, <2>3 DEF Reporting, Carries, RefreshPC
  <2>5. Tallied(job)' \/ Owes(ses'[p])
    BY <1>3, <2>1, <2>2 DEF ReportInv, Carries
  <2>6. job'.fin = FinishedBatches'
    BY <1>3, <2>1, <2>2 DEF ReportInv, Carries
  <2>7. \A i \in Items : item'[i] = "RUNNING" => Handles(ses'[p], i)
    BY <2>2 DEF Carries
  <2>. QED  BY <1>2, <1>3, <1>4, <1>6, <1>7, <1>8, <2>1, <2>4, <2>5, <2>6, <2>7 DEF ReportInv, Owes, Handles
<1>9. CASE p \notin Workers
  <2>1. p \in Requests /\ UNCHANGED item /\ \A w \in Workers : ses'[w] = ses[w]
    BY <1>9 DEF Quietly, Processes
  <2>2. ASSUME NEW w \in Workers PROVE Reporting(ses[w])'
    <3>1. Reporting(ses[w])
      BY DEF ReportInv
    <3>2. ses[w]' = ses[w] /\ \A b : Settled(b) => Settled(b)'
      BY <2>1 DEF Settled, Own
    <3>3. \A row : Tallied(row) => /\ row.succ = ItemCount("SUCCEEDED")'
                                   /\ row.fail = ItemCount("FAILED")'
                                   /\ row.canc = ItemCount("CANCELLED")'
                                   /\ row.proc = row.succ + row.fail + row.canc
      BY <1>1 DEF Tallied
    <3>. QED  BY <1>1, <1>2, <3>1, <3>2, <3>3 DEF Reporting, Tallied, Lags, SameCounters
  <2>3. Tallied(job)' \/ \E w \in Workers : Owes(ses[w])'
    BY <1>3, <2>1 DEF ReportInv, Owes
  <2>4. job'.fin = FinishedBatches' \/ \E w \in Workers : ses'[w].pc \in RefreshPC
    BY <1>3, <2>1 DEF ReportInv
  <2>5. \A i \in Items : item'[i] = "RUNNING" => \E w \in Workers : Handles(ses'[w], i)
    BY <2>1 DEF ReportInv, Handles
  <2>. QED  BY <1>2, <1>3, <1>4, <1>6, <1>7, <2>2, <2>3, <2>4, <2>5 DEF ReportInv, Handles
<1>. QED  BY <1>8, <1>9

\* What the processor does before it has a result, and what the task does to retry.
LEMMA QuietWork ==
  ASSUME EndInv, ReportInv, Alone, Cancellers = {}, NEW w \in Workers, Works(w), Ends(w),
         \/ MarkUncertain(w) \/ Claim(w) \/ StartBatch(w) \/ CheckCancel(w) \/ StartItem(w)
         \/ SapCall(w) \/ ItemLost(w) \/ AuthError(w) \/ ConnectionLost(w) \/ MarkRetrying(w)
         \/ AbortTask(w)
  PROVE  Quietly(w)
<1>. DEFINE b == ses[w].msg.batch
<1>0. /\ w \in Processes /\ w \notin Requests /\ ses[w] \in SessionRow /\ job \in JobRow
      /\ ses[w].pc \in WorkPC /\ b \in Batches /\ batch[b].status \notin TerminalBatch
      /\ ses \in [Processes -> Session] /\ item \in [Items -> ItemStatus]
      /\ Reporting(ses[w]) /\ ~Over(job) /\ Untouched(job)
  <2>1. ses[w].pc \in WorkPC
    BY DEF Works
  <2>2. /\ w \in Processes /\ w \notin Requests /\ ses[w] \in SessionRow /\ job \in JobRow
        /\ ses \in [Processes -> Session] /\ item \in [Items -> ItemStatus]
        /\ Reporting(ses[w]) /\ Untouched(job)
    BY EngineAssumption
       DEF EndInv, OnceInv, TypeOK, Session, Processes, EngineAssumption, ReportInv
  <2>3. b \in Batches /\ batch[b].status \notin TerminalBatch
    BY <2>1, <2>2 DEF EndInv, Ending, Follows, OnceInv, OneInCharge, Orderly, WorkPC
  <2>4. ~Over(job)
    BY <2>3 DEF EndInv, Ending, AllOver
  <2>. QED  BY <2>1, <2>2, <2>3, <2>4
<1>1. /\ Lags(job, job) /\ Lags(NoRow, job) /\ Untouched(NoRow)
  BY <1>0 DEF Lags, JobRow, NoRow, Untouched, CancelSeen
<1>2. \A i \in Items : item[i] = "RUNNING" => Handles(ses[w], i)
  BY DEF ReportInv, Alone
<1>3. ASSUME NEW s, Become(w, s), s.pc \notin {"cancelPending", "failBatch"} \cup RefreshPC,
             s.out # "notStarted", Untouched(s.job), Lags(s.job, job),
             Owes(ses[w]) => Owes(s),
             \A i \in Items : item'[i] = "RUNNING" => Handles(s, i),
             \A i \in Items : item'[i] # item[i] => {item[i], item'[i]} \subseteq {"PENDING", "RUNNING"},
             SameCounters(job', job), job'.cancelReq = job.cancelReq
      PROVE  Quietly(w)
  <2>1. ses'[w] = s
    BY <1>0, <1>3 DEF Become
  <2>2. Carries(ses[w], ses'[w])
    BY <1>0, <1>3, <2>1 DEF Carries, WorkPC, RefreshPC
  <2>3. \A c \in Batches : batch'[c].status \in TerminalBatch <=> batch[c].status \in TerminalBatch
    BY <1>0, <1>3, <2>1 DEF Works, Ends, RefreshPC
  <2>4. Untouched(job') /\ ~Over(job')
    BY <1>0, <1>3 DEF Ends, Untouched, CancelSeen, ClaimedStatus, Over, TerminalJob
  <2>. QED  BY <1>0, <1>3, <2>2, <2>3, <2>4 DEF Quietly, Works
<1>4. ASSUME NEW s, Become(w, s), s.pc \notin {"cancelPending", "failBatch"} \cup RefreshPC,
             s.out # "notStarted", Untouched(s.job), Lags(s.job, job),
             Owes(ses[w]) => Owes(s), s.msg = ses[w].msg,
             ses[w].pc \in Hands => s.pc \in Hands, UNCHANGED item,
             SameCounters(job', job), job'.cancelReq = job.cancelReq
      PROVE  Quietly(w)
  BY <1>2, <1>3, <1>4 DEF Handles
<1>5. job' = job => SameCounters(job', job) /\ job'.cancelReq = job.cancelReq
  BY DEF SameCounters
<1>6. /\ Untouched(ses[w].job) /\ Lags(ses[w].job, job) /\ ses[w].out # "notStarted"
  BY <1>0 DEF Reporting
\* The item in hand, and what the session remembers.
<1>7. ses[w].pc \in {"call", "record"} =>
        /\ ses[w].cur \in Items /\ BatchOf[ses[w].cur] = b /\ item[ses[w].cur] = "RUNNING"
  <2>1. ses[w].pc \in {"call", "record"} =>
          /\ ses[w].cur \in Items /\ ses[w].item[ses[w].cur] = "RUNNING"
          /\ ses[w].cur \in Own(b)
    BY <1>0 DEF EndInv, OnceInv, TypeOK, Session, Aware, Knows, InHand, WorkPC
  <2>2. ses[w].pc \in {"call", "record"} => item[ses[w].cur] = "RUNNING"
    BY <1>0, <2>1, Remembered DEF EndInv
  <2>. QED  BY <2>1, <2>2 DEF Own
<1>8. \A i \in Items : ses[w].pc \in WorkPC \ {"failBatch", "connLost"} /\ ses[w].item[i] # "EXPIRED"
                       => item[i] = ses[w].item[i] /\ BatchOf[i] = b
  <2>1. \A i \in Items : ses[w].pc \in WorkPC \ {"failBatch"} /\ ses[w].item[i] # "EXPIRED" => i \in Own(b)
    BY DEF EndInv, OnceInv, Aware, Knows
  <2>. QED  BY <2>1, Remembered DEF EndInv, Own
<1>. HIDE DEF b
<1>10. CASE MarkUncertain(w)
  <2>. DEFINE U == Mine(w, "RUNNING")
  <2>1. PICK k, l, s : /\ l = (IF CancelSeen(ses[w].job) THEN "cancelPending" ELSE "claim")
                       /\ s = [ses[w] EXCEPT !.item = k, !.pc = l] /\ Become(w, s)
    BY <1>10 DEF MarkUncertain, UncertainVerdict
  <2>2. /\ s.pc = "claim" /\ s.msg = ses[w].msg /\ s.out = ses[w].out /\ s.job = ses[w].job
    BY <1>0, <1>6, <2>1 DEF SessionRow, Untouched
  <2>3. ses[w].pc = "loaded" /\ item' = SetItems(U, "FAILED") /\ UNCHANGED job
    BY <1>10 DEF MarkUncertain, UncertainVerdict
  <2>4. U = {}
    BY <1>2, <1>8, <2>3 DEF Mine, Handles, Hands, WorkPC
  <2>5. UNCHANGED item
    BY <1>0, <2>3, <2>4 DEF SetItems
  <2>. QED  BY <1>4, <1>5, <1>6, <2>1, <2>2, <2>3, <2>5 DEF Owes, Hands, RefreshPC
<1>11. CASE Claim(w)
  <2>1. PICK s : /\ \/ /\ s = [ses[w] EXCEPT !.pc = "claimed",
                                              !.out = IF CancelSeen(job) THEN "notStarted" ELSE "started"]
                       /\ job' = [job EXCEPT !.status = ClaimedStatus(job.status)]
                    \/ s = [ses[w] EXCEPT !.pc = "ack"] /\ UNCHANGED job
                 /\ Become(w, s)
    BY <1>11 DEF Claim, Goto
  <2>2. ses[w].pc = "claim" /\ UNCHANGED item
    BY <1>11 DEF Claim
  <2>3. /\ s.pc \in {"claimed", "ack"} /\ s.msg = ses[w].msg /\ s.job = ses[w].job
        /\ s.out \in {ses[w].out, "started"}
    BY <1>0, <2>1 DEF SessionRow, Untouched
  <2>4. SameCounters(job', job) /\ job'.cancelReq = job.cancelReq
    BY <1>0, <2>1 DEF JobRow, SameCounters
  <2>. QED  BY <1>4, <1>6, <2>1, <2>2, <2>3, <2>4 DEF Owes, Hands, RefreshPC
<1>12. CASE StartBatch(w)
  <2>1. PICK l, x, s :
          /\ l = IF ses[w].out = "notStarted" \/ CancelSeen(job) THEN "cancelPending" ELSE "loop"
          /\ x = Loaded(ses[w], job)
          /\ s = [x EXCEPT !.pc = l, !.out = "none"] /\ Become(w, s)
    BY <1>12 DEF StartBatch
  <2>2. x \in SessionRow
    BY <1>0, <2>1, LoadedType DEF EndInv, OnceInv, TypeOK, Session
  <2>3. x.job = job /\ x.msg = ses[w].msg
    BY <1>0, <2>1 DEF Loaded, SessionRow
  <2>4. s.pc = "loop" /\ s.job = job /\ s.msg = ses[w].msg /\ s.out = "none"
    BY <1>0, <1>6, <2>1, <2>2, <2>3 DEF SessionRow, Untouched
  <2>5. ses[w].pc = "claimed" /\ UNCHANGED <<item, job>>
    BY <1>12 DEF StartBatch, dbVars
  <2>. QED  BY <1>0, <1>1, <1>4, <1>5, <2>1, <2>4, <2>5 DEF Owes, Hands, RefreshPC
<1>13. CASE CheckCancel(w)
  <2>1. PICK row, l, s :
          /\ row = [ses[w].job EXCEPT !.status = job.status]
          /\ l = IF CancelSeen(row) THEN "cancelPending" ELSE "start"
          /\ s = [ses[w] EXCEPT !.job = row, !.pc = l] /\ Become(w, s)
    BY <1>13 DEF CheckCancel, StatusBeforeItem
  <2>2. /\ Lags(row, job) /\ Untouched(row)
    BY <1>0, <1>6, <2>1 DEF SessionRow, JobRow, Lags, Untouched, CancelSeen
  <2>3. s.pc = "start" /\ s.job = row /\ s.msg = ses[w].msg /\ s.out = ses[w].out
    BY <1>0, <2>1, <2>2 DEF SessionRow, Untouched
  <2>4. ses[w].pc = "loop" /\ ~Owes(ses[w]) /\ UNCHANGED <<item, job>>
    BY <1>13 DEF CheckCancel, dbVars, Owes, Mine, RefreshPC
  <2>. QED  BY <1>4, <1>5, <1>6, <2>1, <2>2, <2>3, <2>4 DEF Hands, RefreshPC
<1>14. CASE StartItem(w)
  <2>1. PICK i, k, s :
          /\ i \in Mine(w, "PENDING") /\ item' = SetItems({i}, "RUNNING")
          /\ s = [ses[w] EXCEPT !.pc = "call", !.cur = i, !.item = k] /\ Become(w, s)
    BY <1>14 DEF StartItem
  <2>2. s.pc = "call" /\ s.msg = ses[w].msg /\ s.out = ses[w].out /\ s.job = ses[w].job
    BY <1>0, <2>1 DEF SessionRow
  <2>3. ses[w].pc = "start" /\ UNCHANGED job
    BY <1>14 DEF StartItem
  <2>4. i \in Items /\ item[i] = "PENDING" /\ BatchOf[i] = b
    BY <1>8, <2>1, <2>3 DEF Mine, WorkPC
  <2>5. \A j \in Items : item'[j] = IF j = i THEN "RUNNING" ELSE item[j]
    BY <2>1 DEF SetItems
  <2>6. \A j \in Items : item'[j] = "RUNNING" => Handles(s, j)
    BY <1>2, <2>2, <2>3, <2>4, <2>5 DEF Handles, Hands, b
  <2>. QED  BY <1>3, <1>5, <1>6, <2>1, <2>2, <2>3, <2>4, <2>5, <2>6 DEF Owes, RefreshPC
<1>15. CASE SapCall(w)
  <2>1. PICK o, s : /\ s = [ses[w] EXCEPT !.pc = "record", !.out = o] /\ Become(w, s)
                    /\ o \in {"ok", "rejected", "lost", "auth"}
    BY <1>15 DEF SapCall
  <2>2. s.pc = "record" /\ s.msg = ses[w].msg /\ s.out = o /\ s.job = ses[w].job
    BY <1>0, <2>1 DEF SessionRow
  <2>3. ses[w].pc = "call" /\ UNCHANGED <<item, job>>
    BY <1>15 DEF SapCall, dbVars
  <2>. QED  BY <1>4, <1>5, <1>6, <2>1, <2>2, <2>3 DEF Owes, Hands, RefreshPC
<1>16. CASE ItemLost(w)
  <2>1. PICK s : /\ s = [ses[w] EXCEPT !.pc = "connLost", !.cur = None, !.out = "none"]
                 /\ Become(w, s) /\ item' = SetItems({ses[w].cur}, "PENDING")
    BY <1>16 DEF ItemLost
  <2>2. s.pc = "connLost" /\ s.msg = ses[w].msg /\ s.out = "none" /\ s.job = ses[w].job
    BY <1>0, <2>1 DEF SessionRow
  <2>3. ses[w].pc = "record" /\ UNCHANGED job
    BY <1>16 DEF ItemLost
  <2>4. \A j \in Items : item'[j] = IF j = ses[w].cur THEN "PENDING" ELSE item[j]
    BY <2>1 DEF SetItems
  <2>5. \A j \in Items : item'[j] # "RUNNING"
    <3>1. ses'[w] = s
      BY <1>0, <2>1 DEF Become
    <3>2. \A j \in Own(b) : item'[j] # "RUNNING"
      BY <2>2, <3>1 DEF Works, Knows, KnowsItem, WorkPC, b
    <3>3. \A j \in Items : item[j] = "RUNNING" => j \in Own(b)
      BY <1>2 DEF Handles, Own, b
    <3>. QED  BY <2>4, <3>2, <3>3
  <2>6. \A j \in Items : item'[j] # item[j] => {item[j], item'[j]} \subseteq {"PENDING", "RUNNING"}
    BY <1>7, <2>3, <2>4
  <2>7. ~Owes(ses[w]) /\ \A j \in Items : item'[j] = "RUNNING" => Handles(s, j)
    BY <2>3, <2>5 DEF Owes, RefreshPC
  <2>. QED  BY <1>3, <1>5, <1>6, <2>1, <2>2, <2>3, <2>6, <2>7 DEF RefreshPC
<1>17. CASE AuthError(w) \/ AbortTask(w)
  <2>1. PICK l, s : /\ s = [ses[w] EXCEPT !.pc = l, !.cur = None, !.out = "none"]
                    /\ l \in {"authFailed", "failing"} /\ Become(w, s)
                    /\ l = "failing" \/ ses[w].pc = "record"
    BY <1>17 DEF AuthError, AbortTask
  <2>2. s.pc = l /\ s.msg = ses[w].msg /\ s.out = "none" /\ s.job = ses[w].job
    BY <1>0, <2>1 DEF SessionRow
  <2>3. UNCHANGED <<item, job>> /\ ses[w].pc \in {"loop", "call", "record"}
    BY <1>17 DEF AuthError, AbortTask, dbVars
  <2>. QED  BY <1>4, <1>5, <1>6, <2>1, <2>2, <2>3 DEF Owes, Hands, RefreshPC
<1>18. CASE ConnectionLost(w)
  <2>1. PICK l, x, s : /\ l = IF ses[w].msg.tries >= MaxRetries THEN "failing" ELSE "retrying"
                       /\ x = Loaded(ses[w], NoRow)
                       /\ s = [x EXCEPT !.pc = l] /\ Become(w, s)
    BY <1>18 DEF ConnectionLost
  <2>2. x \in SessionRow
    BY <1>0, <2>1, LoadedType, NoRowType DEF EndInv, OnceInv, TypeOK, Session
  <2>3. x.job = NoRow /\ x.msg = ses[w].msg /\ x.out = ses[w].out
    BY <1>0, <2>1 DEF Loaded, SessionRow
  <2>4. s.pc \in {"failing", "retrying"} /\ s.job = NoRow /\ s.msg = ses[w].msg /\ s.out = ses[w].out
    BY <2>1, <2>2, <2>3 DEF SessionRow
  <2>5. ses[w].pc = "connLost" /\ UNCHANGED <<item, job>>
    BY <1>18 DEF ConnectionLost, dbVars
  <2>. QED  BY <1>1, <1>4, <1>5, <1>6, <2>1, <2>4, <2>5 DEF Owes, Hands, RefreshPC
<1>19. CASE MarkRetrying(w)
  <2>1. PICK s : s = [ses[w] EXCEPT !.pc = "republish"] /\ Become(w, s)
    BY <1>19 DEF MarkRetrying, Goto
  <2>2. s.pc = "republish" /\ s.msg = ses[w].msg /\ s.out = ses[w].out /\ s.job = ses[w].job
    BY <1>0, <2>1 DEF SessionRow
  <2>3. ses[w].pc = "retrying" /\ item' = SetItems(Mine(w, "RUNNING"), "PENDING") /\ UNCHANGED job
    BY <1>19 DEF MarkRetrying, Requeued
  <2>4. Mine(w, "RUNNING") = {}
    BY <1>2, <1>8, <2>3 DEF Mine, Handles, Hands, WorkPC
  <2>5. UNCHANGED item
    BY <1>0, <2>3, <2>4 DEF SetItems
  <2>. QED  BY <1>4, <1>5, <1>6, <2>1, <2>2, <2>3, <2>5 DEF Owes, Hands, RefreshPC
<1>. QED
  BY <1>10, <1>11, <1>12, <1>13, <1>14, <1>15, <1>16, <1>17, <1>18, <1>19

\* What the broker and the task do around the processor,
LEMMA QuietBroker ==
  ASSUME EndInv, ReportInv, Alone, NEW w \in Workers,
         Receive(w) \/ Republish(w) \/ Ack(w) \/ Discard(w)
  PROVE  Quietly(w)
<1>0. /\ w \in Processes /\ w \notin Requests /\ ses[w] \in SessionRow /\ job \in JobRow
      /\ ses \in [Processes -> Session] /\ queue \subseteq Message
      /\ Reporting(ses[w]) /\ Untouched(job)
      /\ ses[w].pc \in {"idle", "republish", "ack"}
      /\ UNCHANGED <<job, batch, item, budget>>
  BY EngineAssumption
     DEF EndInv, OnceInv, TypeOK, Session, Processes, EngineAssumption, ReportInv,
         Receive, Republish, Ack, Discard, dbVars
<1>1. \A i \in Items : item'[i] # "RUNNING"
  BY <1>0 DEF ReportInv, Alone, Handles, Hands
<1>2. ~Owes(ses[w]) /\ ses[w].pc \notin RefreshPC
  BY <1>0 DEF Owes, RefreshPC
<1>3. ASSUME NEW s, Become(w, s), s.pc \in {"idle", "loaded", "ack"},
             s.out # "notStarted", Untouched(s.job), Lags(s.job, job)
      PROVE  Quietly(w)
  <2>1. ses'[w] = s /\ \A q \in Processes : q # w => ses'[q] = ses[q]
    BY <1>0, <1>3 DEF Become
  <2>2. Carries(ses[w], ses'[w])
    BY <1>1, <1>2, <1>3, <2>1 DEF Carries, RefreshPC
  <2>. QED  BY <1>0, <2>1, <2>2 DEF Quietly, SameCounters
<1>4. /\ Lags(job, job) /\ Lags(NoRow, job) /\ Untouched(NoRow)
  BY <1>0 DEF Lags, JobRow, NoRow, Untouched, CancelSeen
<1>5. CASE Receive(w) /\ ~UNCHANGED ses
  <2>1. PICK m, x, s :
          /\ m \in queue
          /\ x = [Idle("loaded") EXCEPT !.msg = m] /\ s = Loaded(x, job) /\ Become(w, s)
    BY <1>5 DEF Receive
  <2>2. x \in SessionRow /\ x.pc = "loaded" /\ x.out = "none"
    <3>1. Idle("loaded") \in SessionRow /\ Idle("loaded").pc = "loaded" /\ Idle("loaded").out = "none"
      BY IdleSession DEF PC, Place, WorkerPC, Session, Idle
    <3>. QED  BY <1>0, <2>1, <3>1 DEF SessionRow
  <2>3. s.pc = "loaded" /\ s.job = job /\ s.out = "none"
    BY <1>0, <2>1, <2>2 DEF Loaded, SessionRow
  <2>. QED  BY <1>0, <1>3, <1>4, <2>1, <2>3
<1>6. CASE (Receive(w) \/ Discard(w)) /\ UNCHANGED ses
  <2>1. ses[w].pc = "idle"
    BY <1>6 DEF Receive, Discard
  <2>2. Carries(ses[w], ses'[w])
    BY <1>0, <1>1, <1>2, <1>6, <2>1 DEF Carries, Reporting, RefreshPC
  <2>. QED  BY <1>0, <1>6, <2>2 DEF Quietly, SameCounters
<1>7. CASE Republish(w)
  <2>1. PICK s : s = [ses[w] EXCEPT !.pc = "ack"] /\ Become(w, s)
    BY <1>7 DEF Republish, Goto
  <2>2. s.pc = "ack" /\ s.job = ses[w].job /\ s.out = ses[w].out
    BY <1>0, <2>1 DEF SessionRow
  <2>. QED  BY <1>0, <1>3, <2>1, <2>2 DEF Reporting
<1>8. CASE Ack(w)
  <2>1. PICK s : s = Idle("idle") /\ Become(w, s)
    BY <1>8 DEF Ack
  <2>2. s.pc = "idle" /\ s.job = NoRow /\ s.out = "none"
    BY <2>1 DEF Idle
  <2>. QED  BY <1>3, <1>4, <2>1, <2>2
<1>9. Discard(w) => UNCHANGED ses
  BY DEF Discard
<1>. QED  BY <1>5, <1>6, <1>7, <1>8, <1>9

\* and what the request that created the job does.
LEMMA QuietDispatch ==
  ASSUME EndInv, ReportInv, Cancellers = {}, Retriers = {}, NEW r \in Requests, RequestNext(r)
  PROVE  Quietly(r)
<1>0. /\ r \in Processes /\ r \notin Workers /\ job \in JobRow
      /\ ses[r].pc \in DispatchPC /\ Follows(ses[r], batch, job) /\ Orderly(r, ses[r])
      /\ batch \in [Batches -> BatchRow] /\ ses[r].todo \subseteq Batches
      /\ Untouched(job) /\ budget["module"] = 0
  BY EngineAssumption
     DEF EndInv, Ending, OnceInv, TypeOK, Session, SessionRow, OneInCharge, Processes,
         EngineAssumption, ReportInv
<1>1. /\ \A q \in Processes : q # r => ses'[q] = ses[q]
      /\ \A f \in Faults : budget[f] = 0 => budget'[f] = 0
  BY <1>0, EngineOK, RequestMoves, RequestType DEF EndInv, OnceInv
<1>2. ASSUME UNCHANGED item,
             \/ UNCHANGED batch
             \/ \E b \in Batches : /\ batch[b].status \notin TerminalBatch
                                  /\ batch'[b].status \notin TerminalBatch
                                  /\ \A c \in Batches : c # b => batch'[c] = batch[c],
             job' = job \/ job' = [job EXCEPT !.status = "DISPATCH_FAILED"]
      PROVE  Quietly(r)
  <2>1. SameCounters(job', job) /\ Untouched(job') /\ (job'.status = job.status \/ ~Over(job'))
    BY <1>0, <1>2 DEF SameCounters, Untouched, CancelSeen, Over, TerminalJob, JobRow
  <2>. QED  BY <1>0, <1>1, <1>2, <2>1 DEF Quietly
<1>3. CASE DispatchLoad(r) \/ Publish(r) \/ RequestCrash(r) \/ DispatchFailed(r)
  BY <1>2, <1>3 DEF DispatchLoad, Publish, RequestCrash, DispatchFailed, dbVars
<1>4. CASE MarkQueued(r)
  <2>1. PICK b \in Batches : /\ b \in ses[r].todo
          /\ batch' = [batch EXCEPT ![b] = [status |-> "QUEUED", task |-> nextTask]]
    BY <1>0, <1>4 DEF MarkQueued
  <2>2. /\ batch[b].status \notin TerminalBatch /\ batch'[b].status \notin TerminalBatch
        /\ \A c \in Batches : c # b => batch'[c] = batch[c]
    BY <1>0, <1>4, <2>1 DEF MarkQueued, Follows, TerminalBatch
  <2>3. UNCHANGED <<item, job>>
    BY <1>4 DEF MarkQueued
  <2>. QED  BY <1>2, <2>2, <2>3
<1>5. CASE PublishFails(r)
  <2>1. PICK b : /\ b = ses[r].msg.batch
                 /\ batch' = [batch EXCEPT ![b] = [status |-> "PENDING", task |-> NoTask]]
    BY <1>5 DEF PublishFails
  <2>2. ses[r].pc = "publish" /\ b \in Batches /\ UNCHANGED <<item, job>>
    BY <1>0, <1>5, <2>1 DEF PublishFails, Orderly
  <2>3. /\ batch[b].status \notin TerminalBatch /\ batch'[b].status \notin TerminalBatch
        /\ \A c \in Batches : c # b => batch'[c] = batch[c]
    BY <1>0, <2>1, <2>2 DEF Follows, TerminalBatch
  <2>. QED  BY <1>2, <2>2, <2>3
<1>6. ~ModuleDisabled(r) /\ ~CancelLoad(r) /\ ~RetryLoad(r)
  BY <1>0 DEF ModuleDisabled, Spend, CancelLoad, RetryLoad
<1>7. ~CancelCommit(r) /\ ~RefreshProgress(r) /\ ~Revoke(r) /\ ~RetryRequeue(r)
  BY <1>0 DEF CancelCommit, RefreshProgress, CountItems, CountBatches, SaveProgress, Revoke,
              RetryRequeue, DispatchPC
<1>. QED
  BY <1>3, <1>4, <1>5, <1>6, <1>7 DEF RequestNext, RequestProgress

\* A step of the one worker, that other processes have no part in.
LEMMA AloneInv ==
  ASSUME ReportInv, Alone, NEW w \in Workers,
         \A f \in Faults : budget[f] = 0 => budget'[f] = 0,
         Untouched(job'), Within(job)', Verdict',
         \A i \in Items : item'[i] # "CANCELLED",
         \A b \in Batches : batch'[b].status \in TerminalBatch => Settled(b)',
         Reporting(ses[w])', Tallied(job)' \/ Owes(ses'[w]),
         job'.fin = FinishedBatches' \/ ses'[w].pc \in RefreshPC,
         \A i \in Items : item'[i] = "RUNNING" => Handles(ses'[w], i)
  PROVE  ReportInv'
<1>1. \A v \in Workers : v = w
  BY DEF Alone
<1>2. \A v \in Workers : Reporting(ses[v])'
  BY <1>1
<1>3. budget'["crash"] = 0
  BY DEF ReportInv, Faults
<1>. QED  BY <1>2, <1>3 DEF ReportInv, Owes, Handles, Untouched

\* The result of an item is counted with it.
LEMMA RecordInv ==
  ASSUME EndInv, ReportInv, Alone, Cancellers = {}, NEW w \in Workers, Works(w), Ends(w),
         ItemDone(w)
  PROVE  ReportInv'
<1>. DEFINE b == ses[w].msg.batch
            k == ses[w].cur
<1>0. /\ w \in Processes /\ ses[w] \in SessionRow /\ job \in JobRow
      /\ ses[w].pc = "record" /\ b \in Batches /\ batch[b].status \notin TerminalBatch
      /\ ses \in [Processes -> Session] /\ k \in Items /\ ses[w].item[k] = "RUNNING"
      /\ k \in Own(b) /\ Reporting(ses[w]) /\ ~Over(job) /\ Untouched(job)
      /\ UNCHANGED <<batch, budget>>
  <2>1. ses[w].pc = "record" /\ UNCHANGED <<batch, budget>>
    BY DEF ItemDone
  <2>2. /\ w \in Processes /\ ses[w] \in SessionRow /\ job \in JobRow /\ k \in Items
        /\ ses \in [Processes -> Session] /\ Reporting(ses[w]) /\ Untouched(job)
    BY <2>1 DEF EndInv, OnceInv, TypeOK, Session, Processes, ReportInv
  <2>3. b \in Batches /\ batch[b].status \notin TerminalBatch
    BY <2>1, <2>2 DEF EndInv, Ending, Follows, OnceInv, OneInCharge, Orderly, WorkPC
  <2>4. ~Over(job)
    BY <2>3 DEF EndInv, Ending, AllOver
  <2>5. ses[w].item[k] = "RUNNING" /\ k \in Own(b)
    BY <2>1, <2>2 DEF EndInv, OnceInv, Aware, Knows, InHand, WorkPC
  <2>. QED  BY <2>1, <2>2, <2>3, <2>4, <2>5
<1>1. item[k] = "RUNNING"
  BY <1>0, Remembered DEF EndInv, WorkPC
<1>2. PICK v, n, s :
        /\ v \in {"SUCCEEDED", "FAILED"} /\ item' = SetItems({k}, v)
        /\ job' = [job EXCEPT !.proc = job.proc + 1,
                              !.succ = IF v = "SUCCEEDED" THEN job.succ + 1 ELSE job.succ,
                              !.fail = IF v = "FAILED" THEN job.fail + 1 ELSE job.fail]
        /\ s = [ses[w] EXCEPT !.pc = "loop", !.cur = None, !.out = "none", !.item = n]
        /\ Become(w, s)
  BY DEF ItemDone, RecordResult, ItemVerdict
<1>3. s.pc = "loop" /\ s.job = ses[w].job /\ s.out = "none" /\ ses'[w] = s
  BY <1>0, <1>2 DEF SessionRow, Become
<1>4. \A i \in Items : item'[i] = IF i = k THEN v ELSE item[i]
  BY <1>2 DEF SetItems
<1>5. /\ job'.proc = job.proc + 1 /\ job'.canc = job.canc /\ job'.fin = job.fin
      /\ job'.succ = (IF v = "SUCCEEDED" THEN job.succ + 1 ELSE job.succ)
      /\ job'.fail = (IF v = "FAILED" THEN job.fail + 1 ELSE job.fail)
      /\ job'.status = job.status /\ job'.cancelReq = job.cancelReq
      /\ job.proc \in Nat /\ job.succ \in Nat /\ job.fail \in Nat /\ job.canc \in Nat
      /\ job.fin \in Nat
  BY <1>0, <1>2 DEF JobRow
<1>6. ItemCount(v)' = ItemCount(v) + 1
  BY <1>0, <1>1, <1>2, <1>4, OneMore
<1>7. /\ v # "SUCCEEDED" => ItemCount("SUCCEEDED")' = ItemCount("SUCCEEDED")
      /\ v # "FAILED" => ItemCount("FAILED")' = ItemCount("FAILED")
      /\ ItemCount("CANCELLED")' = ItemCount("CANCELLED")
  <2>1. \A z, i : z # "RUNNING" /\ v # z /\ i \in Items => (item'[i] = z <=> item[i] = z)
    BY <1>1, <1>4
  <2>. QED  BY <1>2, <2>1, SameCount
<1>8. /\ ItemCount("SUCCEEDED") \in Nat /\ ItemCount("FAILED") \in Nat /\ ItemCount("CANCELLED") \in Nat
      /\ FinishedBatches' = FinishedBatches /\ FinishedBatches \in Nat
  BY <1>0, ItemCountType, FinishedBatchesType, SameFinished
<1>9. Within(job)'
  BY <1>2, <1>5, <1>6, <1>7, <1>8 DEF ReportInv, Within
<1>10. Tallied(job)' /\ job'.fin = FinishedBatches'
  <2>1. ~Owes(ses[w]) /\ ses[w].pc \notin RefreshPC
    BY <1>0 DEF Owes, RefreshPC
  <2>2. Tallied(job) /\ job.fin = FinishedBatches
    BY <2>1 DEF ReportInv, Alone
  <2>3. job.succ = ItemCount("SUCCEEDED") /\ job.fail = ItemCount("FAILED")
        /\ job.canc = ItemCount("CANCELLED") /\ job.proc = job.succ + job.fail + job.canc
    BY <2>2 DEF Tallied
  <2>4. /\ job'.succ = ItemCount("SUCCEEDED")' /\ job'.fail = ItemCount("FAILED")'
        /\ job'.canc = ItemCount("CANCELLED")' /\ job'.proc = job'.succ + job'.fail + job'.canc
    BY <1>2, <1>5, <1>6, <1>7, <1>8, <2>3
  <2>. QED  BY <1>5, <1>8, <2>2, <2>4 DEF Tallied
<1>11. Untouched(job') /\ Verdict'
  BY <1>0, <1>5 DEF Untouched, CancelSeen, Verdict, Over, TerminalJob
<1>12. Reporting(ses[w])'
  <2>1. Lags(s.job, job')
    BY <1>0, <1>3, <1>5 DEF Reporting, Lags, SessionRow, JobRow
  <2>. QED  BY <1>0, <1>3, <2>1 DEF Reporting
<1>13. \A i \in Items : item'[i] # "RUNNING"
  <2>1. \A i \in Own(b) : item'[i] # "RUNNING"
    BY <1>3 DEF Works, Knows, KnowsItem, WorkPC, InDoubt
  <2>2. \A i \in Items : item[i] = "RUNNING" => i \in Own(b)
    BY DEF ReportInv, Alone, Handles, Own
  <2>. QED  BY <1>2, <1>4, <2>1, <2>2
<1>14. \A i \in Items : item'[i] # "CANCELLED"
  BY <1>2, <1>4 DEF ReportInv
<1>15. \A c \in Batches : batch'[c].status \in TerminalBatch => Settled(c)'
  BY <1>0, <1>2, <1>4 DEF ReportInv, Settled, Own, TerminalItem
<1>16. \A f \in Faults : budget[f] = 0 => budget'[f] = 0
  BY <1>0
<1>. HIDE DEF b, k
<1>. QED
  BY <1>9, <1>10, <1>11, <1>12, <1>13, <1>14, <1>15, <1>16, AloneInv

\* The items a worker gives up are counted once it has failed their batch.
LEMMA GiveUpInv ==
  ASSUME EndInv, ReportInv, Alone, Cancellers = {}, NEW w \in Workers, Works(w), Ends(w),
         FailPending(w)
  PROVE  ReportInv'
<1>. DEFINE b == ses[w].msg.batch
            U == Unfinished(w)
<1>0. /\ w \in Processes /\ ses[w] \in SessionRow /\ job \in JobRow
      /\ ses[w].pc \in {"authFailed", "failing"} /\ b \in Batches
      /\ batch[b].status \notin TerminalBatch
      /\ ses \in [Processes -> Session]
      /\ Reporting(ses[w]) /\ ~Over(job) /\ Untouched(job)
      /\ UNCHANGED <<job, batch, budget>>
  <2>1. ses[w].pc \in {"authFailed", "failing"} /\ UNCHANGED <<job, batch, budget>>
    BY DEF FailPending
  <2>2. /\ w \in Processes /\ ses[w] \in SessionRow /\ job \in JobRow
        /\ ses \in [Processes -> Session] /\ Reporting(ses[w]) /\ Untouched(job)
    BY <2>1 DEF EndInv, OnceInv, TypeOK, Session, Processes, ReportInv
  <2>3. b \in Batches /\ batch[b].status \notin TerminalBatch
    BY <2>1, <2>2 DEF EndInv, Ending, Follows, OnceInv, OneInCharge, Orderly, WorkPC
  <2>4. ~Over(job)
    BY <2>3 DEF EndInv, Ending, AllOver
  <2>. QED  BY <2>1, <2>2, <2>3, <2>4
<1>1. PICK n, l, s :
        /\ n = Remember(w, U, "FAILED") /\ item' = SetItems(U, "FAILED")
        /\ l = (IF ses[w].pc = "authFailed" THEN "loop" ELSE "failBatch")
        /\ s = [ses[w] EXCEPT !.item = n, !.pc = l] /\ Become(w, s)
  BY Zenon DEF FailPending
<1>2. s.pc = l /\ s.item = n /\ s.msg = ses[w].msg /\ s.job = ses[w].job /\ s.out = ses[w].out /\ ses'[w] = s
  BY <1>0, <1>1 DEF SessionRow, Become
<1>3. \A i \in Items : ses[w].item[i] # "EXPIRED" => item[i] = ses[w].item[i]
  BY <1>0, Remembered DEF EndInv, WorkPC
<1>4. \A i \in Own(b) : ses[w].item[i] # "EXPIRED"
  BY <1>0 DEF EndInv, OnceInv, Aware, Knows, WorkPC, Own
<1>5. /\ \A i \in U : i \in Items /\ item[i] \in {"PENDING", "RUNNING"}
      /\ \A i \in Own(b) : item[i] \in {"PENDING", "RUNNING"} => i \in U
  BY <1>3, <1>4 DEF Unfinished, Mine, Own
<1>. HIDE DEF U
<1>6. \A i \in Items : item'[i] = IF i \in U THEN "FAILED" ELSE item[i]
  BY <1>1 DEF SetItems
<1>7. /\ ItemCount("SUCCEEDED")' = ItemCount("SUCCEEDED")
      /\ ItemCount("CANCELLED")' = ItemCount("CANCELLED")
  BY <1>5, <1>6, SameCount
<1>8. ItemCount("FAILED") \in Nat /\ ItemCount("FAILED")' \in Nat /\ ItemCount("FAILED") <= ItemCount("FAILED")'
  BY <1>5, <1>6, MoreCount
<1>9. /\ ItemCount("SUCCEEDED") \in Nat /\ ItemCount("CANCELLED") \in Nat
      /\ FinishedBatches' = FinishedBatches
  BY <1>0, ItemCountType, SameFinished
<1>10. Within(job)'
  <2>1. job' = job /\ Within(job) /\ job.fail \in Nat /\ job.proc \in Nat
    BY <1>0 DEF ReportInv, JobRow
  <2>. QED  BY <1>7, <1>8, <1>9, <2>1 DEF Within
<1>11. Verdict' /\ Untouched(job')
  BY <1>0 DEF Verdict, Over, TerminalJob
<1>12. \A i \in Own(b) : item'[i] \in TerminalItem
  <2>1. item \in [Items -> ItemStatus]
    BY DEF EndInv, OnceInv, TypeOK
  <2>. QED  BY <1>5, <1>6, <2>1 DEF Own, TerminalItem, ItemStatus
<1>13. Reporting(ses[w])'
  <2>1. s.pc = "failBatch" => Settled(s.msg.batch)'
    BY <1>2, <1>12 DEF Settled, Own
  <2>. QED  BY <1>0, <1>1, <1>2, <2>1 DEF Reporting, Lags
<1>14. Owes(ses'[w])
  <2>1. \A i \in Items : n[i] # "PENDING"
    BY <1>1 DEF Remember, Unfinished, Mine, U
  <2>. QED  BY <1>1, <1>2, <2>1 DEF Owes
<1>15. job'.fin = FinishedBatches'
  BY <1>0, <1>9 DEF ReportInv, Alone, RefreshPC
<1>16. \A i \in Items : item'[i] # "RUNNING"
  <2>1. \A i \in Items : item[i] = "RUNNING" => i \in Own(b)
    BY DEF ReportInv, Alone, Handles, Own
  <2>. QED  BY <1>6, <1>12, <2>1 DEF TerminalItem
<1>17. \A i \in Items : item'[i] # "CANCELLED"
  BY <1>6 DEF ReportInv
<1>18. \A c \in Batches : batch'[c].status \in TerminalBatch => Settled(c)'
  BY <1>0, <1>6 DEF ReportInv, Settled, Own, TerminalItem
<1>19. \A f \in Faults : budget[f] = 0 => budget'[f] = 0
  BY <1>0
<1>. HIDE DEF b
<1>. QED
  BY <1>10, <1>11, <1>13, <1>14, <1>15, <1>16, <1>17, <1>18, <1>19, AloneInv

\* A batch is over when its items are, and is counted afterwards.
LEMMA EndBatchInv ==
  ASSUME EndInv, ReportInv, Alone, Cancellers = {}, NEW w \in Workers, Works(w), Ends(w),
         FinishBatch(w) \/ FailBatch(w)
  PROVE  ReportInv'
<1>. DEFINE b == ses[w].msg.batch
<1>0. /\ w \in Processes /\ ses[w] \in SessionRow /\ job \in JobRow
      /\ ses[w].pc \in {"loop", "failBatch"} /\ b \in Batches
      /\ batch[b].status \notin TerminalBatch
      /\ ses \in [Processes -> Session]
      /\ Reporting(ses[w]) /\ ~Over(job) /\ Untouched(job)
      /\ UNCHANGED <<job, item, budget>>
  <2>1. ses[w].pc \in {"loop", "failBatch"} /\ UNCHANGED <<job, item, budget>>
    BY DEF FinishBatch, FailBatch
  <2>2. /\ w \in Processes /\ ses[w] \in SessionRow /\ job \in JobRow
        /\ ses \in [Processes -> Session] /\ Reporting(ses[w]) /\ Untouched(job)
    BY <2>1 DEF EndInv, OnceInv, TypeOK, Session, Processes, ReportInv
  <2>3. b \in Batches /\ batch[b].status \notin TerminalBatch
    BY <2>1, <2>2 DEF EndInv, Ending, Follows, OnceInv, OneInCharge, Orderly, WorkPC
  <2>4. ~Over(job)
    BY <2>3 DEF EndInv, Ending, AllOver
  <2>. QED  BY <2>1, <2>2, <2>3, <2>4
<1>1. PICK s : s = [ses[w] EXCEPT !.pc = "count"] /\ Become(w, s)
  BY DEF FinishBatch, FailBatch, Goto
<1>2. s.pc = "count" /\ s.job = ses[w].job /\ s.out = ses[w].out /\ ses'[w] = s
  BY <1>0, <1>1 DEF SessionRow, Become
<1>3. Settled(b)
  <2>1. CASE FailBatch(w)
    BY <1>0, <2>1 DEF FailBatch, Reporting
  <2>2. CASE FinishBatch(w)
    <3>1. ses[w].pc = "loop" /\ \A i \in Items : ses[w].item[i] # "PENDING"
      BY <2>2 DEF FinishBatch, Mine
    <3>2. \A i \in Own(b) : i \in Items /\ ses[w].item[i] # "EXPIRED" /\ ses[w].item[i] # "RUNNING"
      BY <3>1 DEF EndInv, OnceInv, Aware, Knows, KnowsItem, WorkPC, InDoubt, Own
    <3>3. \A i \in Own(b) : item[i] = ses[w].item[i]
      BY <3>1, <3>2, Remembered DEF EndInv, WorkPC
    <3>4. \A i \in Items : item[i] \in ItemStatus
      BY DEF EndInv, OnceInv, TypeOK
    <3>. QED  BY <3>1, <3>2, <3>3, <3>4 DEF Settled, TerminalItem, ItemStatus
  <2>. QED  BY <2>1, <2>2
<1>4. \A c \in Batches : c # b => batch'[c] = batch[c]
  BY DEF Works
<1>5. /\ FinishedBatches \in Nat /\ FinishedBatches' \in Nat
      /\ FinishedBatches <= FinishedBatches'
  BY <1>0, <1>4, MoreFinished
<1>6. /\ ItemCount("SUCCEEDED")' = ItemCount("SUCCEEDED")
      /\ ItemCount("FAILED")' = ItemCount("FAILED")
      /\ ItemCount("CANCELLED")' = ItemCount("CANCELLED")
  BY <1>0, SameCount
<1>7. Within(job)'
  <2>1. job' = job /\ Within(job) /\ job.fin \in Nat
    BY <1>0 DEF ReportInv, JobRow
  <2>. QED  BY <1>5, <1>6, <2>1 DEF Within
<1>8. Verdict' /\ Untouched(job')
  BY <1>0 DEF Verdict, Over, TerminalJob
<1>9. Reporting(ses[w])'
  BY <1>0, <1>2 DEF Reporting, Lags
<1>10. Owes(ses'[w]) /\ ses'[w].pc \in RefreshPC
  BY <1>2 DEF Owes, RefreshPC
<1>11. \A i \in Items : item'[i] # "RUNNING" /\ item'[i] # "CANCELLED"
  <2>1. \A i \in Items : item[i] = "RUNNING" => i \in Own(b)
    BY DEF ReportInv, Alone, Handles, Own
  <2>. QED  BY <1>0, <1>3, <2>1 DEF Settled, TerminalItem, ReportInv
<1>12. \A c \in Batches : batch'[c].status \in TerminalBatch => Settled(c)'
  BY <1>0, <1>3, <1>4 DEF ReportInv, Settled, Own
<1>13. \A f \in Faults : budget[f] = 0 => budget'[f] = 0
  BY <1>0
<1>. HIDE DEF b
<1>. QED
  BY <1>7, <1>8, <1>9, <1>10, <1>11, <1>12, <1>13, AloneInv

\* refresh_progress: what it wrote is true, and what it did not write was true.
LEMMA RefreshInv ==
  ASSUME EndInv, ReportInv, Alone, NEW w \in Workers, RefreshProgress(w)
  PROVE  ReportInv'
<1>. DEFINE s == ses[w]
            t == ses'[w]
<1>0. /\ w \in Processes /\ s \in SessionRow /\ job \in JobRow
      /\ Reporting(s) /\ Untouched(job) /\ Follows(s, batch, job)
      /\ s.pc \in RefreshPC /\ t.out = s.out /\ Within(job) /\ Verdict
      /\ UNCHANGED <<batch, item, budget>>
  <2>1. /\ w \in Processes /\ s \in SessionRow /\ job \in JobRow
        /\ Reporting(s) /\ Untouched(job) /\ Follows(s, batch, job) /\ Within(job) /\ Verdict
    BY DEF EndInv, Ending, OnceInv, TypeOK, Session, Processes, ReportInv
  <2>2. s.pc \in RefreshPC /\ t.out = s.out /\ UNCHANGED <<batch, item, budget>>
    BY <2>1, EngineOK, RefreshType DEF EndInv, OnceInv, brokerVars
  <2>. QED  BY <2>1, <2>2
<1>1. /\ ItemCount("SUCCEEDED")' = ItemCount("SUCCEEDED")
      /\ ItemCount("FAILED")' = ItemCount("FAILED")
      /\ ItemCount("CANCELLED")' = ItemCount("CANCELLED")
      /\ FinishedBatches' = FinishedBatches
  BY <1>0, SameCount, SameFinished
<1>2. /\ ItemCount("SUCCEEDED") \in Nat /\ ItemCount("FAILED") \in Nat
      /\ ItemCount("CANCELLED") \in Nat /\ FinishedBatches \in Nat
  BY ItemCountType, FinishedBatchesType
<1>3. /\ \A i \in Items : item'[i] # "RUNNING" /\ item'[i] # "CANCELLED"
      /\ \A c \in Batches : batch'[c].status \in TerminalBatch => Settled(c)'
      /\ \A f \in Faults : budget[f] = 0 => budget'[f] = 0
  <2>1. \A i \in Items : item[i] # "RUNNING" /\ item[i] # "CANCELLED"
    BY <1>0 DEF ReportInv, Alone, Handles, Hands, RefreshPC
  <2>. QED  BY <1>0, <2>1 DEF ReportInv, Settled, Own
<1>4. ASSUME Untouched(job'), Within(job)', Verdict', Reporting(ses[w])',
             Tallied(job)' \/ Owes(t), job'.fin = FinishedBatches' \/ t.pc \in RefreshPC
      PROVE  ReportInv'
  BY <1>3, <1>4, AloneInv
<1>5. UNCHANGED job => Untouched(job') /\ Within(job)' /\ Verdict'
  BY <1>0, <1>1 DEF Within, Verdict
<1>6. Counted(w) \/ Judged(w) \/ Saved(w)
  BY <1>0, EngineOK, RefreshRow DEF EndInv, OnceInv
<1>7. CASE Counted(w)
  <2>1. Untouched(t.job) /\ Lags(t.job, job)
    BY <1>0, <1>7 DEF Counted, Reporting, Lags, JobRow
  <2>2. /\ t.pc = "countBatches" /\ UNCHANGED job /\ t.new.cancelReq = t.job.cancelReq
        /\ t.new.succ = ItemCount("SUCCEEDED") /\ t.new.fail = ItemCount("FAILED")
        /\ t.new.canc = ItemCount("CANCELLED") /\ t.new.proc = t.new.succ + t.new.fail + t.new.canc
    BY <1>7 DEF Counted
  <2>3. Tallied(ses[w].new)' /\ ~t.new.cancelReq
    BY <1>1, <2>1, <2>2 DEF Tallied, Untouched
  <2>4. Reporting(ses[w])'
    BY <1>0, <2>1, <2>2, <2>3 DEF Reporting
  <2>. QED  BY <1>4, <1>5, <2>2, <2>4 DEF Owes, RefreshPC
<1>8. CASE Judged(w)
  <2>1. /\ s.pc = "countBatches" /\ t.pc = "save" /\ UNCHANGED job /\ t.job = s.job
        /\ t.new.fin = FinishedBatches /\ t.new.cancelReq = s.new.cancelReq
        /\ t.new.succ = s.new.succ /\ t.new.fail = s.new.fail
        /\ t.new.canc = s.new.canc /\ t.new.proc = s.new.proc
        /\ t.new.status \in {FinalStatus(s.new), s.new.status}
    BY <1>8 DEF Judged
  <2>2. s.new.status = s.job.status /\ Tallied(s.new) /\ ~s.new.cancelReq
    BY <1>0, <2>1 DEF Follows, Reporting
  <2>3. FinalStatus(t.new) = FinalStatus(s.new)
    BY <2>1 DEF FinalStatus
  <2>4. Tallied(ses[w].new)' /\ ~t.new.cancelReq
    BY <1>1, <2>1, <2>2 DEF Tallied
  <2>5. /\ t.new.fin = FinishedBatches' /\ t.new.status \in {t.job.status, FinalStatus(t.new)}
    BY <1>1, <2>1, <2>2, <2>3
  <2>6. Reporting(ses[w])'
    BY <1>0, <2>1, <2>4, <2>5 DEF Reporting
  <2>. QED  BY <1>4, <1>5, <2>1, <2>6 DEF Owes, RefreshPC
<1>9. CASE Saved(w)
  <2>1. /\ s.pc = "save" /\ t.pc = "ack" /\ job' = FlushJob(s.job, s.new) /\ t.job = s.job
    BY <1>9 DEF Saved
  <2>2. /\ Untouched(s.job) /\ Lags(s.job, job) /\ Tallied(s.new) /\ ~s.new.cancelReq
        /\ s.new.fin = FinishedBatches /\ s.new.status \in {s.job.status, FinalStatus(s.new)}
    BY <1>0, <2>1 DEF Reporting
  <2>3. /\ job'.status = Column(job.status, s.job.status, s.new.status)
        /\ job'.cancelReq = Column(job.cancelReq, s.job.cancelReq, s.new.cancelReq)
        /\ job'.succ = Column(job.succ, s.job.succ, s.new.succ)
        /\ job'.fail = Column(job.fail, s.job.fail, s.new.fail)
        /\ job'.canc = Column(job.canc, s.job.canc, s.new.canc)
        /\ job'.proc = Column(job.proc, s.job.proc, s.new.proc)
        /\ job'.fin = Column(job.fin, s.job.fin, s.new.fin)
    BY <2>1, Flushed
  <2>4. /\ s.new.succ = ItemCount("SUCCEEDED") /\ s.new.fail = ItemCount("FAILED")
        /\ s.new.canc = ItemCount("CANCELLED") /\ s.new.proc = s.new.succ + s.new.fail + s.new.canc
        /\ s.job.succ <= job.succ /\ s.job.fail <= job.fail /\ s.job.canc <= job.canc
        /\ s.job.proc <= job.proc /\ s.job.fin <= job.fin
        /\ job.succ <= ItemCount("SUCCEEDED") /\ job.fail <= ItemCount("FAILED")
        /\ job.canc <= ItemCount("CANCELLED")
        /\ job.proc <= ItemCount("SUCCEEDED") + ItemCount("FAILED") + ItemCount("CANCELLED")
        /\ job.fin <= FinishedBatches
    BY <1>0, <2>2 DEF Lags, Tallied, Within
  <2>5. /\ s.job.succ \in Nat /\ s.job.fail \in Nat /\ s.job.canc \in Nat
        /\ s.job.proc \in Nat /\ s.job.fin \in Nat
        /\ job.succ \in Nat /\ job.fail \in Nat /\ job.canc \in Nat
        /\ job.proc \in Nat /\ job.fin \in Nat
    BY <1>0 DEF SessionRow, JobRow
  <2>6. \A d, l, n \in Nat : l <= d /\ d <= n => Column(d, l, n) = n
    BY DEF Column
  <2>7. /\ job'.succ = s.new.succ /\ job'.fail = s.new.fail /\ job'.canc = s.new.canc
        /\ job'.fin = s.new.fin
    BY <1>2, <2>2, <2>3, <2>4, <2>5, <2>6
  <2>8. job'.proc = s.new.proc
    <3>1. s.new.proc = ItemCount("SUCCEEDED") + ItemCount("FAILED") + ItemCount("CANCELLED")
      BY <2>4
    <3>2. s.new.proc \in Nat /\ job.proc <= s.new.proc
      BY <1>2, <2>4, <3>1
    <3>. QED  BY <2>3, <2>4, <2>5, <2>6, <3>2
  <2>9. Tallied(job)' /\ job'.fin = FinishedBatches'
    BY <1>1, <2>2, <2>4, <2>7, <2>8 DEF Tallied
  <2>10. Within(job)'
    <3>1. /\ job'.succ = ItemCount("SUCCEEDED") /\ job'.fail = ItemCount("FAILED")
          /\ job'.canc = ItemCount("CANCELLED") /\ job'.fin = FinishedBatches
          /\ job'.proc = ItemCount("SUCCEEDED") + ItemCount("FAILED") + ItemCount("CANCELLED")
      BY <2>2, <2>4, <2>7, <2>8
    <3>. QED  BY <1>1, <1>2, <3>1 DEF Within
  <2>11. ~job'.cancelReq
    BY <1>0, <2>2, <2>3 DEF Column, Untouched
  <2>12. Verdict' /\ ~CancelSeen(job')
    <3>1. CASE s.new.status = s.job.status
      <4>1. job'.status = job.status
        BY <2>3, <3>1 DEF Column
      <4>. QED  BY <1>0, <1>1, <4>1 DEF Verdict, Untouched, CancelSeen
    <3>2. CASE s.new.status # s.job.status
      <4>1. AllOver(batch) /\ job'.status = FinalStatus(s.new)
        BY <1>0, <2>1, <2>2, <2>3, <3>2 DEF Follows, Column
      <4>2. \/ job'.status = "COMPLETED_WITH_ERRORS" /\ s.new.fail > 0 /\ s.new.succ > 0
            \/ job'.status = "FAILED" /\ s.new.fail > 0 /\ ~(s.new.succ > 0)
            \/ job'.status = "COMPLETED" /\ ~(s.new.fail > 0)
        BY <2>2, <4>1 DEF FinalStatus
      <4>3. ASSUME ItemCount("FAILED") = 0, NEW i \in Items PROVE item[i] = "SUCCEEDED"
        <5>1. IsFiniteSet({j \in Items : item[j] = "FAILED"})
          BY FS_Subset, EngineAssumption DEF EngineAssumption
        <5>2. {j \in Items : item[j] = "FAILED"} = {}
          BY <4>3, <5>1, FS_EmptySet DEF ItemCount
        <5>3. item[i] \in TerminalItem /\ item[i] # "CANCELLED"
          BY <4>1, OverSettled DEF ReportInv
        <5>. QED  BY <5>2, <5>3 DEF TerminalItem
      <4>4. ~(s.new.fail > 0) => \A i \in Items : item'[i] = "SUCCEEDED"
        BY <1>0, <1>2, <2>4, <4>3
      <4>5. /\ s.new.fail = ItemCount("FAILED")' /\ s.new.succ = ItemCount("SUCCEEDED")'
            /\ s.new.succ \in Nat
        BY <1>1, <1>2, <2>4
      <4>. QED  BY <4>2, <4>4, <4>5 DEF Verdict, CancelSeen
    <3>. QED  BY <3>1, <3>2
  <2>13. Reporting(ses[w])'
    <3>1. Lags(t.job, job')
      BY <1>2, <2>1, <2>2, <2>4, <2>5, <2>7, <2>8 DEF Lags
    <3>. QED  BY <1>0, <2>1, <2>2, <3>1 DEF Reporting
  <2>. HIDE DEF s, t
  <2>. QED  BY <1>4, <2>9, <2>10, <2>11, <2>12, <2>13 DEF Untouched
<1>. QED  BY <1>6, <1>7, <1>8, <1>9

LEMMA ReportInit == Uninterrupted /\ NoDeath /\ Init => ReportInv
<1>. SUFFICES ASSUME Uninterrupted, NoDeath, Init PROVE ReportInv
  OBVIOUS
<1>1. budget["crash"] = 0
  BY DEF NoDeath, Init, EngineInit
<1>2. PICK row : row = [NoRow EXCEPT !.status = "QUEUED"] /\ job = row
  BY DEF Init, EngineInit
<1>3. /\ job.status = "QUEUED" /\ job.cancelReq = FALSE /\ job.succ = 0 /\ job.fail = 0
      /\ job.canc = 0 /\ job.proc = 0 /\ job.fin = 0
  BY <1>2 DEF NoRow
<1>4. /\ \A i \in Items : item[i] = "PENDING"
      /\ \A b \in Batches : batch[b].status = "PENDING"
  BY DEF Init, EngineInit
<1>5. ItemCount("SUCCEEDED") = 0 /\ ItemCount("FAILED") = 0 /\ ItemCount("CANCELLED") = 0
  <2>1. \A z : z # "PENDING" => {i \in Items : item[i] = z} = {}
    BY <1>4
  <2>. QED  BY <2>1, FS_EmptySet DEF ItemCount
<1>6. FinishedBatches = 0
  <2>1. {b \in Batches : batch[b].status \in TerminalBatch} = {}
    BY <1>4 DEF TerminalBatch
  <2>. QED  BY <2>1, FS_EmptySet DEF FinishedBatches
<1>7. ASSUME NEW w \in Workers PROVE Reporting(ses[w])
  <2>1. ses[w] = Idle("idle")
    BY EngineAssumption DEF Init, EngineInit, Processes, Requests, EngineAssumption
  <2>2. ses[w].pc = "idle" /\ ses[w].out = "none" /\ ses[w].job = NoRow
    BY <2>1 DEF Idle
  <2>. QED  BY <1>3, <2>2 DEF Reporting, Untouched, CancelSeen, Lags, NoRow
<1>8. Tallied(job) /\ Within(job) /\ Untouched(job) /\ Verdict
  BY <1>3, <1>5, <1>6 DEF Tallied, Within, Untouched, CancelSeen, Verdict
<1>. QED  BY <1>1, <1>3, <1>4, <1>6, <1>7, <1>8 DEF ReportInv, TerminalBatch

LEMMA ReportStep == Uninterrupted /\ Alone /\ EndInv /\ ReportInv /\ [Next]_vars => ReportInv'
<1>. SUFFICES ASSUME Uninterrupted, Alone, EndInv, ReportInv, [Next]_vars PROVE ReportInv'
  OBVIOUS
<1>0. Cancellers = {} /\ Retriers = {}
  BY DEF Uninterrupted, SingleDelivery
<1>1. CASE UNCHANGED vars
  <2>1. ItemCount("SUCCEEDED")' = ItemCount("SUCCEEDED") /\ ItemCount("FAILED")' = ItemCount("FAILED")
        /\ ItemCount("CANCELLED")' = ItemCount("CANCELLED") /\ FinishedBatches' = FinishedBatches
    BY <1>1, SameCount, SameFinished DEF vars, engineVars
  <2>2. job' = job /\ batch' = batch /\ item' = item /\ ses' = ses /\ budget' = budget
    BY <1>1 DEF vars, engineVars
  <2>3. \A w \in Workers : Reporting(ses[w])'
    BY <2>1, <2>2 DEF ReportInv, Reporting, Tallied, Settled
  <2>4. Tallied(job)' = Tallied(job) /\ Within(job)' = Within(job) /\ Verdict' = Verdict
    BY <2>1, <2>2 DEF Tallied, Within, Verdict
  <2>. QED  BY <2>1, <2>2, <2>3, <2>4 DEF ReportInv, Settled
<1>2. ASSUME NEW w \in Workers, WorkerProgress(w) \/ WorkerFault(w) PROVE ReportInv'
  <2>1. CASE Receive(w) \/ Republish(w) \/ Ack(w) \/ Discard(w)
    BY <2>1, QuietBroker, QuietInv DEF Processes
  <2>2. CASE RefreshProgress(w)
    BY <2>2, RefreshInv
  <2>3. ~WorkerCrash(w)
    BY DEF WorkerCrash, Spend, ReportInv
  <2>4. ~CancelPending(w)
    BY DEF CancelPending, ReportInv, Reporting
  <2>5. ~MarkFailedSkipped(w)
    BY DEF MarkFailedSkipped, EndInv, Ending, Follows, WorkPC, TerminalBatch, Processes
  <2>6. CASE \/ MarkUncertain(w) \/ Claim(w) \/ StartBatch(w) \/ CheckCancel(w) \/ StartItem(w)
             \/ SapCall(w) \/ ItemDone(w) \/ ItemLost(w) \/ AuthError(w) \/ FailPending(w)
             \/ FinishBatch(w) \/ ConnectionLost(w) \/ MarkRetrying(w)
             \/ FailBatch(w) \/ AbortTask(w)
    <3>1. Works(w) /\ Ends(w)
      BY <2>6, WorkerWorks, WorkerEnds DEF EndInv
    <3>2. CASE ItemDone(w)
      BY <1>0, <3>1, <3>2, RecordInv
    <3>3. CASE FailPending(w)
      BY <1>0, <3>1, <3>3, GiveUpInv
    <3>4. CASE FinishBatch(w) \/ FailBatch(w)
      BY <1>0, <3>1, <3>4, EndBatchInv
    <3>5. CASE ~ItemDone(w) /\ ~FailPending(w) /\ ~FinishBatch(w) /\ ~FailBatch(w)
      <4>1. Quietly(w)
        BY <1>0, <2>6, <3>1, <3>5, QuietWork
      <4>. QED  BY <4>1, QuietInv DEF Processes
    <3>. QED  BY <3>2, <3>3, <3>4, <3>5
  <2>. QED
    BY <1>2, <2>1, <2>2, <2>3, <2>4, <2>5, <2>6 DEF WorkerProgress, WorkerFault
<1>3. ASSUME NEW r \in Requests, RequestNext(r) PROVE ReportInv'
  BY <1>0, <1>3, QuietDispatch, QuietInv DEF Processes
<1>. QED  BY <1>1, <1>2, <1>3 DEF Next

\* With nothing left to run a job shows the counters of its items and batches,
\* and a final status says what became of them: what refresh_progress writes
\* from two queries and a copy of the row that is behind it is true, and what
\* it leaves out, because the copy says the same, was true already.  With one
\* worker, which no crash and no cancellation interrupts.
THEOREM ReportsAreTrue ==
  ASSUME Uninterrupted, Alone, NoDeath
  PROVE  Spec => []ReportTruthful
<1>1. Init => ReportInv
  BY ReportInit
<1>2. EndInv /\ ReportInv /\ [Next]_vars => ReportInv'
  BY ReportStep
<1>3. ReportInv => ReportTruthful
  <2>. SUFFICES ASSUME ReportInv, Resting PROVE ReportTruthful
    BY DEF ReportTruthful, ProgressExact, VerdictTruthful
  <2>1. \A w \in Workers : ~Owes(ses[w]) /\ ses[w].pc \notin RefreshPC
    BY DEF Resting, Owes, RefreshPC, Processes
  <2>2. CountersAgree
    BY <2>1 DEF ReportInv, Tallied, CountersAgree, FinishedBatches
  <2>3. VerdictTruthful
    BY DEF ReportInv, Verdict, VerdictTruthful
  <2>. QED  BY <2>2, <2>3 DEF ReportTruthful, ProgressExact
<1>. QED  BY <1>1, <1>2, <1>3, EndAlways, PTL DEF Spec

-----------------------------------------------------------------------------
(***************************************************************************)
(* How a cancellation ends.  The batch is over, or waits for the dispatcher *)
(* or in the queue, or has a worker; and once it is over the job is final,  *)
(* or somebody is about to make it so.  The danger is the dispatcher, which *)
(* queues a batch it had read as PENDING though it has been cancelled        *)
(* meanwhile: the job may then be final while its batch is executed, and no  *)
(* other cancellation may ask for the end of that job without ending the    *)
(* batch, nor revoke a message that is still the only one.                  *)
(***************************************************************************)
\* Of the faults, only a task is aborted.
OnlyAborts == \A f \in Budgets : \A x \in Faults \ {"abort"} : f[x] = 0

Ended == batch[1].status \in TerminalBatch
NonePending == \A i \in Items : item[i] # "PENDING"

Sending == ses[Creator].pc \in {"dispatch", "mark"}
Mailed == queue # {} \/ ses[Creator].pc = "publish"

\* A cancellation that is committed,
Asked(s) == s.pc \in RefreshPC \cup {"revoke"}

\* one whose commit ends the batch or leaves the status of the job alone.
Completes(s) == s.batch[1].status \in Cancellable \/ s.job.status = "CANCEL_REQUESTED"

\* Whoever ends the batch goes on to close the job.
Closer(s) == ~Over(s.job) /\ (s.pc \in {"count", "countBatches"} \/ (s.pc = "save" /\ Over(s.new)))

\* The job is closed, or about to be, and its batch is not over.
Reopened == ~Ended /\ (Over(job) \/ \E c \in Cancellers : ses[c].pc = "save" /\ Over(ses[c].new))

Serves(s) ==
    /\ s.pc \notin {"connLost", "retrying", "republish"} /\ s.out # "lost"
    /\ s.pc = "failBatch" => NonePending
    /\ s.pc \in WorkPC =>
          /\ \A i \in Items : item[i] = "PENDING" => s.item[i] = "PENDING"
          /\ s.msg.task = batch[1].task
          /\ Over(s.job) => Over(job) \/ Ended

Pleads(s) ==
    /\ s.pc \in {"idle", "cancel", "revoke", "done"} \cup RefreshPC
    /\ s.pc = "cancel" => \A i \in Items : item[i] = "PENDING" => s.item[i] = "PENDING"
    /\ (s.pc = "cancel" \/ Asked(s)) /\ s.batch[1].task # NoTask =>
          /\ batch[1].task # NoTask
          /\ (Asked(s) \/ s.batch[1].status \notin Cancellable) /\ Mailed => Ended
    /\ Asked(s) => job.cancelReq
    /\ s.pc = "cancel" /\ (Sending \/ Reopened) => Completes(s)

\* Before the batch is queued,
Unsent ==
    /\ batch[1].task = NoTask /\ batch[1].status \in {"PENDING", "CANCELLED"}
    /\ batch[1].status = "CANCELLED" => job.cancelReq
    /\ queue = {} /\ revoked = {}
    /\ ses[Creator].pc = "mark" => ses[Creator].todo = {1}

\* and from then until a worker has its message.
Waiting(m) ==
    /\ m.task = batch[1].task /\ m.task # NoTask
    /\ batch[1].status \in {"QUEUED", "CANCELLED"}
    /\ m.task \in revoked => Ended

Handled == \E w \in Workers : ses[w].pc \in WorkPC

\* The faults that are left, and each process at its place;
Aborting == (\A x \in Faults \ {"abort"} : budget[x] = 0) /\ nextTask # 0
Served == \A w \in Workers : Serves(ses[w])
Pleaded == \A c \in Cancellers : Pleads(ses[c])

Carried ==
    /\ ses[Creator].pc \in {"dispatch", "mark", "publish", "done"}
    /\ Sending => Unsent
    /\ \A m \in queue : Waiting(m)
    /\ ses[Creator].pc = "publish" => Waiting(ses[Creator].msg)

\* the batch is with somebody until it is over, and then so is the job.
Concluded ==
    /\ Ended => NonePending
    /\ Ended \/ Sending \/ Mailed \/ Handled
    /\ Ended => Over(job) \/ \E p \in Processes : Closer(ses[p])
    /\ Over(job) => job.status = "CANCELLED" \/ Spent

Settling == Aborting /\ Served /\ Pleaded /\ Carried /\ Concluded

SettleInv == LateInv /\ Settling

\* Who has the batch, again in the terms of this section.
LEMMA Placed ==
  ASSUME LateInv, Settling, NumBatches = 1
  PROVE  /\ Batches = {1} /\ Creator \in Processes /\ Creator \notin Workers
         /\ Sending \/ ses[Creator].pc = "publish" =>
               /\ 1 \in Charge(ses[Creator], MayCrash) /\ queue = {} /\ ~Spent
               /\ \A w \in Workers : ses[w].pc \notin WorkPC \cup RefreshPC
         /\ \A w \in Workers : ses[w].pc \in WorkPC \cup RefreshPC => ~Sending /\ ~Mailed
         /\ \A m \in queue : m.batch = 1 /\ queue = {m}
         /\ Spent => Ended
<1>0. /\ Batches = {1} /\ Creator \in Processes /\ Creator \notin Workers
      /\ \A w \in Workers : w \in Processes
  BY OneBatchOnly, EngineAssumption DEF EngineAssumption, Processes, Requests
<1>1. Sending \/ ses[Creator].pc = "publish" => 1 \in Charge(ses[Creator], MayCrash)
  <2>1. Orderly(Creator, ses[Creator])
    BY <1>0 DEF LateInv, OnceInv, OneInCharge
  <2>. QED  BY <1>0, <2>1 DEF Settling, Carried, Sending, Unsent, Charge, Orderly
<1>2. Sending \/ ses[Creator].pc = "publish" =>
        /\ queue = {}
        /\ \A w \in Workers : ses[w].pc \notin WorkPC \cup RefreshPC
  <2>1. 1 \in Charge(ses[Creator], MayCrash) =>
          queue = {} /\ \A q \in Processes : q # Creator => Charge(ses[q], MayCrash) = {}
    BY <1>0, InCharge DEF LateInv
  <2>2. \A w \in Workers : ses[w].pc \in WorkPC \cup RefreshPC => 1 \in Charge(ses[w], MayCrash)
    BY <1>0, InCharge DEF LateInv
  <2>. QED  BY <1>0, <1>1, <2>1, <2>2
<1>3. \A w \in Workers : ses[w].pc \in WorkPC \cup RefreshPC => ~Sending /\ ~Mailed
  <2>1. \A w \in Workers : ses[w].pc \in WorkPC \cup RefreshPC => queue = {}
    BY <1>0, InCharge DEF LateInv
  <2>. QED  BY <1>2, <2>1 DEF Mailed
<1>4. \A m \in queue : m.batch = 1 /\ queue = {m}
  BY <1>0 DEF LateInv, OnceInv, OneInCharge
<1>5. Sending \/ ses[Creator].pc = "publish" => ~Spent
  BY <1>0, <1>1 DEF Spent, Sending, RefreshPC
<1>6. Spent => Ended
  <2>1. ASSUME NEW w \in Workers, ses[w].pc \in WorkPC PROVE ~Spent
    BY <2>1, Busy
  <2>2. CASE queue # {}
    BY <2>2 DEF Spent, Ended
  <2>3. CASE queue = {}
    BY <1>5, <2>1, <2>3 DEF Settling, Concluded, Mailed, Handled
  <2>. QED  BY <2>2, <2>3
<1>. QED  BY <1>0, <1>1, <1>2, <1>3, <1>4, <1>5, <1>6

\* A step of p that takes nothing from what the others rely on.
Steady(p) ==
    /\ \A q \in Processes : q # p => ses'[q] = ses[q]
    /\ \A x \in Faults : budget[x] = 0 => budget'[x] = 0
    /\ nextTask' # 0
    /\ \A i \in Items : item'[i] = "PENDING" => item[i] = "PENDING"
    /\ batch'[1].task = batch[1].task \/ Sending
    /\ batch[1].task # NoTask => batch'[1].task # NoTask
    /\ Ended => Ended' \/ Sending
    /\ job.cancelReq => job'.cancelReq
    /\ Over(job) => Over(job') \/ Ended'
    /\ Mailed' => Mailed \/ batch[1].task = NoTask
    /\ Sending' => Sending
    /\ Reopened' => Reopened \/ Sending

LEMMA SteadyInv ==
  ASSUME LateInv, Settling, NumBatches = 1, NEW p \in Processes, Steady(p),
         p \in Workers => Serves(ses[p])', p \in Cancellers => Pleads(ses[p])'
  PROVE  (Aborting /\ Served /\ Pleaded)'
<1>1. Aborting'
  BY DEF Steady, Settling, Aborting
<1>2. ASSUME NEW w \in Workers, w # p PROVE Serves(ses[w])'
  <2>1. PICK s : s = ses[w] /\ s = ses'[w]
    BY <1>2 DEF Steady, Processes
  <2>2. s.pc \in WorkPC => ~Sending
    BY <2>1, Placed
  <2>3. Serves(s)
    BY <2>1 DEF Settling, Served
  <2>4. NonePending => NonePending'
    BY DEF Steady, NonePending
  <2>5. Ended => Ended' \/ Sending
    BY DEF Steady
  <2>. QED  BY <2>1, <2>2, <2>3, <2>4, <2>5 DEF Serves, Steady, WorkPC
<1>3. ASSUME NEW c \in Cancellers, c # p PROVE Pleads(ses[c])'
  <2>1. PICK s : s = ses[c] /\ s = ses'[c]
    BY <1>3 DEF Steady, Processes, Requests
  <2>2. Pleads(s)
    BY <2>1 DEF Settling, Pleaded
  <2>3. Sending => batch[1].task = NoTask
    BY DEF Settling, Carried, Unsent
  <2>4. s.batch[1].task # NoTask /\ (s.pc = "cancel" \/ Asked(s)) =>
          /\ batch'[1].task # NoTask
          /\ (Asked(s) \/ s.batch[1].status \notin Cancellable) /\ Mailed' => Ended'
    BY <2>2, <2>3 DEF Pleads, Steady
  <2>5. s.pc = "cancel" /\ (Sending' \/ Reopened') => Completes(s)
    BY <2>2 DEF Pleads, Steady
  <2>6. /\ s.pc \in {"idle", "cancel", "revoke", "done"} \cup RefreshPC
        /\ s.pc = "cancel" => \A i \in Items : item'[i] = "PENDING" => s.item[i] = "PENDING"
        /\ Asked(s) => job'.cancelReq
    BY <2>2 DEF Pleads, Steady
  <2>. QED  BY <2>1, <2>4, <2>5, <2>6 DEF Pleads, Asked, Completes
<1>4. Served'
  BY <1>2 DEF Served
<1>5. Pleaded'
  BY <1>3 DEF Pleaded
<1>. QED  BY <1>1, <1>4, <1>5

\* What a worker does while it has the batch.
Goes(w) ==
    /\ UNCHANGED <<revoked, nextTask>>
    /\ batch'[1].task = batch[1].task
    /\ \A i \in Items : item'[i] = "PENDING" =>
          /\ item[i] = "PENDING"
          /\ ses'[w].pc \in WorkPC => ses'[w].item[i] = "PENDING"
    /\ ses'[w].pc = "failBatch" => NonePending'
    /\ ses'[w].pc = "ack" => Ended
    /\ Over(ses'[w].job) => Over(ses[w].job) \/ Over(job)
    /\ \/ UNCHANGED batch
       \/ ~Ended /\ ~Ended'
       \/ ses'[w].pc = "count" /\ NonePending'

LEMMA WorkerGoes ==
  ASSUME SettleInv, NumBatches = 1, NEW w \in Workers,
         \/ MarkUncertain(w) \/ Claim(w) \/ StartBatch(w) \/ CheckCancel(w) \/ StartItem(w)
         \/ SapCall(w) \/ ItemDone(w) \/ ItemLost(w) \/ AuthError(w) \/ FailPending(w)
         \/ FinishBatch(w) \/ CancelPending(w) \/ ConnectionLost(w) \/ MarkRetrying(w)
         \/ MarkFailedSkipped(w) \/ FailBatch(w) \/ AbortTask(w)
  PROVE  Goes(w)
<1>0. /\ w \in Processes /\ ses[w] \in SessionRow /\ ses \in [Processes -> Session]
      /\ ses[w].pc \in WorkPC /\ ses[w].msg.batch = 1 /\ 1 \in Batches
      /\ batch[1] \in BatchRow /\ batch \in [Batches -> BatchRow]
      /\ item \in [Items -> ItemStatus] /\ job \in JobRow
      /\ Serves(ses[w]) /\ \A i \in Items : BatchOf[i] = 1
      /\ ses[w].batch[1].status \in TerminalBatch /\ ses[w].pc # "republish" => Ended
  <2>1. ses[w].pc \in WorkPC
    BY DEF MarkUncertain, Claim, StartBatch, CheckCancel, StartItem, SapCall, ItemDone, ItemLost,
           AuthError, FailPending, FinishBatch, CancelPending, ConnectionLost, MarkRetrying,
           MarkFailedSkipped, FailBatch, AbortTask, WorkPC
  <2>2. Batches = {1} /\ ses[w].msg.batch = 1
    BY <2>1, OneBatchOnly, Busy DEF SettleInv
  <2>3. TypeOK /\ Trusts(ses[w], batch) /\ Serves(ses[w])
    BY DEF SettleInv, Settling, Served, LateInv, Noticed, OnceInv
  <2>4. \A i \in Items : BatchOf[i] = 1
    BY <2>2, EngineAssumption DEF EngineAssumption
  <2>. QED
    BY <2>1, <2>2, <2>3, <2>4 DEF TypeOK, Session, Processes, Trusts, Ended
<1>1. \A i \in Items : item[i] = "PENDING" => ses[w].item[i] = "PENDING"
  BY <1>0 DEF Serves
<1>. USE DEF dbVars, brokerVars
<1>2. ASSUME NEW s, Become(w, s), s.pc \in WorkPC \ {"failBatch"},
             UNCHANGED <<batch, revoked, nextTask>>,
             \A i \in Items : item'[i] = "PENDING" => item[i] = "PENDING" /\ s.item[i] = "PENDING",
             Over(s.job) => Over(ses[w].job) \/ Over(job)
      PROVE  Goes(w)
  <2>1. ses'[w] = s
    BY <1>0, <1>2 DEF Become
  <2>. QED  BY <1>2, <2>1 DEF Goes, WorkPC
<1>3. ASSUME NEW s, Become(w, s), s.pc = "ack", s.job = ses[w].job, Ended,
             UNCHANGED <<batch, item, revoked, nextTask>>
      PROVE  Goes(w)
  <2>1. ses'[w] = s
    BY <1>0, <1>3 DEF Become
  <2>. QED  BY <1>3, <2>1 DEF Goes, WorkPC
<1>4. ASSUME NEW s, Become(w, s), s.pc = "count", s.job = ses[w].job,
             UNCHANGED <<revoked, nextTask>>, NEW o, SetBatchStatus(w, o),
             \A i \in Items : item'[i] # "PENDING"
      PROVE  Goes(w)
  <2>1. ses'[w] = s
    BY <1>0, <1>4 DEF Become
  <2>2. batch'[1].task = batch[1].task
    BY <1>0, <1>4 DEF SetBatchStatus, BatchRow
  <2>. QED  BY <1>4, <2>1, <2>2 DEF Goes, WorkPC, NonePending
<1>5. ASSUME NEW i \in Items, NEW S, NEW v, item' = SetItems(S, v), v # "PENDING",
             item'[i] = "PENDING"
      PROVE  /\ item[i] = "PENDING" /\ ses[w].item[i] = "PENDING" /\ i \notin S
             /\ Remember(w, S, v)[i] = "PENDING"
  BY <1>1, <1>5 DEF SetItems, Remember
<1>7. CASE MarkUncertain(w)
  <2>1. PICK k, l, s : /\ k = Remember(w, Mine(w, "RUNNING"), "FAILED")
                       /\ item' = SetItems(Mine(w, "RUNNING"), "FAILED")
                       /\ l \in {"cancelPending", "claim"}
                       /\ s = [ses[w] EXCEPT !.item = k, !.pc = l] /\ Become(w, s)
    BY <1>7 DEF MarkUncertain, UncertainVerdict
  <2>2. s.pc = l /\ s.item = k /\ s.job = ses[w].job
    BY <1>0, <2>1 DEF SessionRow
  <2>3. \A i \in Items : item'[i] = "PENDING" => item[i] = "PENDING" /\ s.item[i] = "PENDING"
    BY <1>5, <2>1, <2>2
  <2>4. s.pc \in WorkPC \ {"failBatch"}
    BY <2>1, <2>2 DEF WorkPC
  <2>5. UNCHANGED <<batch, revoked, nextTask>>
    BY <1>7 DEF MarkUncertain
  <2>. QED  BY <1>2, <2>1, <2>2, <2>3, <2>4, <2>5
<1>8. CASE Claim(w)
  <2>1. ses[w].pc = "claim" /\ ~StaleTask(ses[w].msg)
    BY <1>0, <1>8 DEF Claim, StaleTask, Serves, WorkPC
  <2>2. CASE batch[1].status \in Claimable
    <3>1. PICK o, s : /\ s = [ses[w] EXCEPT !.pc = "claimed", !.out = o] /\ Become(w, s)
                      /\ batch' = [batch EXCEPT ![1].status = "RUNNING"]
      BY <1>0, <1>8, <2>1, <2>2 DEF Claim
    <3>2. s.pc = "claimed" /\ s.item = ses[w].item /\ s.job = ses[w].job /\ ses'[w] = s
      BY <1>0, <3>1 DEF SessionRow, Become
    <3>3. batch'[1].status = "RUNNING" /\ batch'[1].task = batch[1].task
      BY <1>0, <3>1 DEF BatchRow
    <3>4. ~Ended /\ ~Ended'
      BY <2>2, <3>3 DEF Ended, Claimable, TerminalBatch
    <3>5. UNCHANGED <<item, revoked, nextTask>>
      BY <1>8 DEF Claim
    <3>. QED  BY <1>1, <3>2, <3>3, <3>4, <3>5 DEF Goes
  <2>3. CASE batch[1].status \notin Claimable
    <3>1. PICK s : s = [ses[w] EXCEPT !.pc = "ack"] /\ Become(w, s) /\ UNCHANGED batch
      BY <1>0, <1>8, <2>3 DEF Claim, Goto
    <3>2. s.pc = "ack" /\ s.job = ses[w].job
      BY <1>0, <3>1 DEF SessionRow
    <3>3. Ended
      BY <1>0, <2>3 DEF Ended, Claimable, TerminalBatch, BatchRow, BatchStatus
    <3>. QED  BY <1>3, <1>8, <3>1, <3>2, <3>3 DEF Claim
  <2>. QED  BY <2>2, <2>3
<1>9. CASE StartBatch(w)
  <2>1. PICK l, x, s :
          /\ l = IF ses[w].out = "notStarted" \/ CancelSeen(job) THEN "cancelPending" ELSE "loop"
          /\ x = Loaded(ses[w], job)
          /\ s = [x EXCEPT !.pc = l, !.out = "none"] /\ Become(w, s)
    BY <1>9 DEF StartBatch
  <2>2. x \in SessionRow
    BY <1>0, <2>1, LoadedType DEF SettleInv, LateInv, OnceInv, TypeOK, Session
  <2>3. x.job = job /\ x.item = [i \in Items |-> IF BatchOf[i] = 1 THEN item[i] ELSE "EXPIRED"]
    BY <1>0, <2>1 DEF Loaded, SessionRow
  <2>4. s.pc = l /\ s.item = x.item /\ s.job = job
    BY <2>1, <2>2, <2>3 DEF SessionRow
  <2>5. UNCHANGED <<batch, item, revoked, nextTask>>
    BY <1>9 DEF StartBatch
  <2>6. l \in WorkPC \ {"failBatch"}
    BY <2>1 DEF WorkPC
  <2>7. \A i \in Items : item'[i] = "PENDING" => item[i] = "PENDING" /\ s.item[i] = "PENDING"
    BY <1>0, <2>3, <2>4, <2>5
  <2>. QED  BY <1>2, <2>1, <2>4, <2>5, <2>6, <2>7
<1>10. CASE CheckCancel(w)
  <2>1. PICK row, l, s :
          /\ row = [ses[w].job EXCEPT !.status = job.status]
          /\ l = IF CancelSeen(row) THEN "cancelPending" ELSE "start"
          /\ s = [ses[w] EXCEPT !.job = row, !.pc = l] /\ Become(w, s)
    BY <1>10 DEF CheckCancel, StatusBeforeItem
  <2>2. s.pc = l /\ s.item = ses[w].item /\ s.job.status = job.status
    BY <1>0, <2>1 DEF SessionRow, JobRow
  <2>3. UNCHANGED <<batch, item, revoked, nextTask>>
    BY <1>10 DEF CheckCancel
  <2>4. s.pc \in WorkPC \ {"failBatch"}
    BY <2>1, <2>2 DEF WorkPC
  <2>5. \A i \in Items : item'[i] = "PENDING" => item[i] = "PENDING" /\ s.item[i] = "PENDING"
    BY <1>1, <2>2, <2>3
  <2>6. Over(s.job) => Over(job)
    BY <2>2 DEF Over
  <2>. QED  BY <1>2, <2>1, <2>3, <2>4, <2>5, <2>6
<1>11. CASE StartItem(w)
  <2>1. PICK i, k, s : /\ k = Remember(w, {i}, "RUNNING") /\ item' = SetItems({i}, "RUNNING")
                       /\ s = [ses[w] EXCEPT !.pc = "call", !.cur = i, !.item = k]
                       /\ Become(w, s)
    BY <1>11 DEF StartItem
  <2>2. s.pc = "call" /\ s.item = k /\ s.job = ses[w].job
    BY <1>0, <2>1 DEF SessionRow
  <2>3. \A j \in Items : item'[j] = "PENDING" => item[j] = "PENDING" /\ s.item[j] = "PENDING"
    BY <1>5, <2>1, <2>2
  <2>4. s.pc \in WorkPC \ {"failBatch"}
    BY <2>2 DEF WorkPC
  <2>5. UNCHANGED <<batch, revoked, nextTask>>
    BY <1>11 DEF StartItem
  <2>. QED  BY <1>2, <2>1, <2>2, <2>3, <2>4, <2>5
<1>12. CASE SapCall(w)
  <2>1. PICK o, s : /\ s = [ses[w] EXCEPT !.pc = "record", !.out = o] /\ Become(w, s)
    BY <1>12 DEF SapCall
  <2>2. s.pc = "record" /\ s.item = ses[w].item /\ s.job = ses[w].job
    BY <1>0, <2>1 DEF SessionRow
  <2>3. UNCHANGED <<batch, item, revoked, nextTask>>
    BY <1>12 DEF SapCall
  <2>4. \A i \in Items : item'[i] = "PENDING" => item[i] = "PENDING" /\ s.item[i] = "PENDING"
    BY <1>1, <2>2, <2>3
  <2>5. s.pc \in WorkPC \ {"failBatch"}
    BY <2>2 DEF WorkPC
  <2>. QED  BY <1>2, <2>1, <2>2, <2>3, <2>4, <2>5
<1>13. CASE ItemDone(w)
  <2>1. PICK i, v, k, s :
          /\ v \in {"SUCCEEDED", "FAILED"} /\ k = Remember(w, {i}, v) /\ item' = SetItems({i}, v)
          /\ s = [ses[w] EXCEPT !.pc = "loop", !.cur = None, !.out = "none", !.item = k]
          /\ Become(w, s)
    BY <1>13 DEF ItemDone, RecordResult, ItemVerdict
  <2>2. s.pc = "loop" /\ s.item = k /\ s.job = ses[w].job
    BY <1>0, <2>1 DEF SessionRow
  <2>3. \A j \in Items : item'[j] = "PENDING" => item[j] = "PENDING" /\ s.item[j] = "PENDING"
    BY <1>5, <2>1, <2>2
  <2>4. UNCHANGED <<batch, revoked, nextTask>>
    BY <1>13 DEF ItemDone
  <2>5. s.pc \in WorkPC \ {"failBatch"}
    BY <2>2 DEF WorkPC
  <2>. QED  BY <1>2, <2>1, <2>2, <2>3, <2>4, <2>5
<1>14. CASE AuthError(w) \/ AbortTask(w)
  <2>1. PICK l \in {"authFailed", "failing"} :
          Become(w, [ses[w] EXCEPT !.pc = l, !.cur = None, !.out = "none"])
    BY <1>14 DEF AuthError, AbortTask
  <2>s. PICK s : s = [ses[w] EXCEPT !.pc = l, !.cur = None, !.out = "none"]
    OBVIOUS
  <2>2. s.pc = l /\ s.item = ses[w].item /\ s.job = ses[w].job
    BY <1>0, <2>s DEF SessionRow
  <2>3. UNCHANGED <<batch, item, revoked, nextTask>>
    BY <1>14 DEF AuthError, AbortTask
  <2>4. s.pc \in WorkPC \ {"failBatch"}
    BY <2>2 DEF WorkPC
  <2>5. \A i \in Items : item'[i] = "PENDING" => item[i] = "PENDING" /\ s.item[i] = "PENDING"
    BY <1>1, <2>2, <2>3
  <2>. QED  BY <1>2, <2>1, <2>s, <2>2, <2>3, <2>4, <2>5
<1>15. CASE FailPending(w)
  <2>1. PICK k, l, s : /\ k = Remember(w, Unfinished(w), "FAILED")
                       /\ item' = SetItems(Unfinished(w), "FAILED")
                       /\ l \in {"loop", "failBatch"}
                       /\ s = [ses[w] EXCEPT !.item = k, !.pc = l] /\ Become(w, s)
    BY <1>15 DEF FailPending
  <2>2. s.pc = l /\ s.item = k /\ s.job = ses[w].job /\ ses'[w] = s
    BY <1>0, <2>1 DEF SessionRow, Become
  <2>3. \A i \in Items : item'[i] # "PENDING"
    BY <1>5, <2>1 DEF Unfinished, Mine
  <2>4. UNCHANGED <<batch, revoked, nextTask>>
    BY <1>15 DEF FailPending
  <2>. QED  BY <2>1, <2>2, <2>3, <2>4 DEF Goes, NonePending
<1>16. CASE FinishBatch(w) \/ FailBatch(w)
  <2>1. PICK s : s = [ses[w] EXCEPT !.pc = "count"] /\ Become(w, s)
    BY <1>16 DEF FinishBatch, FailBatch, Goto
  <2>2. s.pc = "count" /\ s.job = ses[w].job
    BY <1>0, <2>1 DEF SessionRow
  <2>3. PICK o : SetBatchStatus(w, o)
    BY <1>16 DEF FinishBatch, FailBatch
  <2>4. UNCHANGED <<item, revoked, nextTask>>
    BY <1>16 DEF FinishBatch, FailBatch
  <2>5. \A i \in Items : item[i] # "PENDING"
    BY <1>0, <1>1, <1>16 DEF FinishBatch, FailBatch, Mine, Serves, NonePending
  <2>. QED  BY <1>4, <2>1, <2>2, <2>3, <2>4, <2>5
<1>17. CASE CancelPending(w)
  <2>1. PICK k, s : /\ s = [ses[w] EXCEPT !.pc = "count", !.item = k] /\ Become(w, s)
                    /\ item' = SetItems(Mine(w, "PENDING"), "CANCELLED")
    BY <1>17 DEF CancelPending
  <2>2. s.pc = "count" /\ s.job = ses[w].job
    BY <1>0, <2>1 DEF SessionRow
  <2>3. \A i \in Items : item'[i] # "PENDING"
    BY <1>5, <2>1 DEF Mine
  <2>. QED  BY <1>4, <1>17, <2>1, <2>2, <2>3 DEF CancelPending
<1>18. ~ItemLost(w) /\ ~ConnectionLost(w) /\ ~MarkRetrying(w)
  BY <1>0 DEF ItemLost, ConnectionLost, MarkRetrying, Serves
<1>20. CASE MarkFailedSkipped(w)
  <2>1. PICK s : s = [ses[w] EXCEPT !.pc = "ack"] /\ Become(w, s)
    BY <1>20 DEF MarkFailedSkipped, Goto
  <2>2. s.pc = "ack" /\ s.job = ses[w].job
    BY <1>0, <2>1 DEF SessionRow
  <2>3. Ended
    BY <1>0, <1>20 DEF MarkFailedSkipped, TerminalBatch
  <2>. QED  BY <1>3, <1>20, <2>1, <2>2, <2>3 DEF MarkFailedSkipped
<1>. QED
  BY <1>7, <1>8, <1>9, <1>10, <1>11, <1>12, <1>13, <1>14, <1>15, <1>16, <1>17, <1>18, <1>20

LEMMA WorkSettles ==
  ASSUME SettleInv, NumBatches = 1, NEW w \in Workers, Works(w), Hesitates(w), Minds(w), Goes(w)
  PROVE  Settling'
<1>. USE DEF SettleInv
<1>0. /\ w \in Processes /\ w # Creator /\ w \notin Cancellers
      /\ ses[w].pc \in WorkPC /\ ses[w].msg.batch = 1 /\ ~Spent /\ ~Sending /\ ~Mailed /\ queue = {}
      /\ \A q \in Processes : q # w => ses'[q] = ses[q]
      /\ Creator \in Processes /\ Cancellers \subseteq Processes
      /\ Serves(ses[w])
  <2>1. /\ w \in Processes /\ Creator \in Processes /\ Cancellers \subseteq Processes
        /\ w # Creator /\ w \notin Cancellers
    BY EngineAssumption DEF EngineAssumption, Processes, Requests
  <2>2. ses[w].pc \in WorkPC /\ \A q \in Processes : q # w => ses'[q] = ses[q]
    BY DEF Works
  <2>3. Serves(ses[w]) /\ ~Spent /\ ses[w].msg.batch = 1 /\ ~Sending /\ ~Mailed
    BY <2>2, Busy, Placed DEF Settling, Served
  <2>. QED  BY <2>1, <2>2, <2>3 DEF Mailed
<1>1. ~Sending' /\ ~Mailed' /\ queue' = {} /\ ses'[Creator] = ses[Creator]
  BY <1>0 DEF Sending, Mailed, Works
<1>2. /\ Ended => Ended'
      /\ Ended' => NonePending' /\ (Ended \/ ses'[w].pc = "count")
  <2>1. Ended => NonePending
    BY DEF Settling, Concluded
  <2>2. NonePending => NonePending'
    BY DEF Goes, NonePending
  <2>3. ses'[w].pc = "count" => Ended'
    BY <1>0 DEF Minds, Trusts, Works, RefreshPC, Ended
  <2>. QED  BY <2>1, <2>2, <2>3 DEF Goes, Ended
<1>3. /\ Over(job) => job.status = "CANCELLED"
      /\ Over(job) <=> Over(job')
      /\ Over(job') => job'.status = "CANCELLED"
  BY <1>0 DEF Settling, Concluded, Minds, ClaimedStatus, Over, TerminalJob
<1>4. Over(ses'[w].job) => Over(job) \/ Ended
  BY <1>0 DEF Goes, Serves
<1>5. Serves(ses[w])'
  <2>1. /\ ses'[w].pc \notin {"connLost", "retrying", "republish"} /\ ses'[w].out # "lost"
        /\ ses'[w].msg.task = batch'[1].task
    BY <1>0 DEF Settling, Aborting, Faults, Hesitates, Serves, Works, Goes
  <2>. QED  BY <1>0, <1>2, <1>3, <1>4, <2>1 DEF Goes, Serves
<1>6. Steady(w)
  <2>1. Reopened' => Reopened
    <3>1. \A c \in Cancellers : ses'[c] = ses[c]
      BY <1>0
    <3>. QED  BY <1>2, <1>3, <3>1 DEF Reopened
  <2>2. nextTask' # 0
    BY DEF Goes, Settling, Aborting
  <2>. QED  BY <1>0, <1>1, <1>2, <1>3, <2>1, <2>2 DEF Steady, Works, Goes, Minds
<1>7. (Aborting /\ Served /\ Pleaded)'
  BY <1>0, <1>5, <1>6, SteadyInv
<1>8. Carried'
  BY <1>1 DEF Carried, Settling, Mailed
<1>9. Ended' \/ Handled'
  BY <1>0, <1>2 DEF Works, Handled, Goes, Minds, Trusts, Ended
<1>10. Ended' => Over(job') \/ \E p \in Processes : Closer(ses'[p])
  <2>1. CASE Ended /\ ~Over(job)
    <3>1. PICK p \in Processes : Closer(ses[p])
      BY <2>1 DEF Settling, Concluded
    <3>2. p # w
      BY <1>0, <3>1 DEF Closer, WorkPC
    <3>. QED  BY <1>0, <3>1, <3>2
  <2>2. CASE Ended' /\ ~Ended /\ ~Over(job)
    BY <1>0, <1>2, <1>4, <2>2 DEF Closer
  <2>. QED  BY <1>3, <2>1, <2>2
<1>11. Concluded'
  BY <1>2, <1>3, <1>9, <1>10 DEF Concluded
<1>. QED  BY <1>7, <1>8, <1>11 DEF Settling

\* The broker's side of a worker: only a batch that is over is dropped.
LEMMA BrokerSettles ==
  ASSUME SettleInv, NumBatches = 1, LateInv', NEW w \in Workers,
         Receive(w) \/ Republish(w) \/ Ack(w) \/ WorkerCrash(w) \/ Discard(w), Heeds(w)
  PROVE  Settling'
<1>. USE DEF SettleInv
<1>0. /\ w \in Processes /\ w # Creator /\ w \notin Cancellers
      /\ \A q \in Processes : q # w => ses'[q] = ses[q]
      /\ Creator \in Processes /\ Cancellers \subseteq Processes /\ 1 \in Batches
      /\ ses \in [Processes -> Session] /\ ses[w] \in SessionRow
      /\ queue \subseteq Message /\ Serves(ses[w]) /\ \A i \in Items : BatchOf[i] = 1
      /\ budget["crash"] = 0
  <2>1. /\ w \in Processes /\ Creator \in Processes /\ Cancellers \subseteq Processes
        /\ w # Creator /\ w \notin Cancellers
        /\ Batches = {1} => \A i \in Items : BatchOf[i] = 1
    BY EngineAssumption DEF EngineAssumption, Processes, Requests
  <2>2. TypeOK /\ Serves(ses[w]) /\ budget["crash"] = 0
    BY DEF LateInv, OnceInv, Settling, Served, Aborting, Faults
  <2>. QED  BY <2>1, <2>2, OneBatchOnly DEF Heeds, TypeOK, Session
<1>1. ~WorkerCrash(w) /\ ~Republish(w)
  BY <1>0 DEF WorkerCrash, Republish, Spend, Serves
<1>2. /\ UNCHANGED <<job, batch, item, revoked, nextTask, budget>> /\ queue' \subseteq queue
      /\ ses[w].pc \notin WorkPC \cup RefreshPC
  BY <1>1 DEF Receive, Ack, Discard, dbVars, brokerVars, WorkPC, RefreshPC
<1>3. \A m \in queue : Waiting(m) /\ m.batch = 1 /\ queue = {m}
  BY Placed DEF Settling, Carried
<1>4. ASSUME Serves(ses[w])', Ended \/ Handled' \/ UNCHANGED queue
      PROVE  Settling'
  <2>1. /\ Ended' = Ended /\ NonePending' = NonePending /\ Over(job') = Over(job)
        /\ Sending' = Sending /\ ses'[Creator] = ses[Creator] /\ (Mailed' => Mailed)
    BY <1>0, <1>2 DEF Ended, NonePending, Over, Sending, Mailed
  <2>2. Reopened' = Reopened
    BY <1>0, <1>2 DEF Reopened, Ended
  <2>3. Steady(w)
    <3>1. nextTask' # 0
      BY <1>2 DEF Settling, Aborting
    <3>. QED  BY <1>0, <1>2, <2>1, <2>2, <3>1 DEF Steady
  <2>4. (Aborting /\ Served /\ Pleaded)'
    BY <1>0, <1>4, <2>3, SteadyInv
  <2>5. Carried'
    <3>1. Sending' => Unsent'
      BY <1>0, <1>2, <2>1 DEF Settling, Carried, Unsent
    <3>2. \A m \in queue' : Waiting(m)'
      BY <1>2, <2>1 DEF Settling, Carried, Waiting
    <3>3. ses'[Creator].pc = "publish" => Waiting(ses[Creator].msg)'
      BY <1>2, <2>1 DEF Settling, Carried, Waiting
    <3>. QED  BY <2>1, <3>1, <3>2, <3>3 DEF Settling, Carried
  <2>6. Ended' \/ Sending' \/ Mailed' \/ Handled'
    <3>1. Handled => Handled'
      BY <1>0, <1>2 DEF Handled, Processes
    <3>2. UNCHANGED queue => Mailed' = Mailed
      BY <2>1 DEF Mailed
    <3>. QED  BY <1>4, <2>1, <3>1, <3>2 DEF Settling, Concluded
  <2>7. \A p \in Processes : Closer(ses[p]) => Closer(ses'[p])
    BY <1>0, <1>2 DEF Closer, RefreshPC
  <2>8. Over(job') => job'.status = "CANCELLED" \/ Spent'
    BY <1>2, <2>1 DEF Settling, Concluded, Heeds
  <2>9. Concluded'
    BY <2>1, <2>6, <2>7, <2>8 DEF Settling, Concluded
  <2>. QED  BY <2>4, <2>5, <2>9 DEF Settling
<1>5. CASE Receive(w) /\ ~UNCHANGED ses
  <2>1. PICK m, x, s :
          /\ m \in queue /\ ~StaleTask(m)
          /\ x = [Idle("loaded") EXCEPT !.msg = m] /\ s = Loaded(x, job) /\ Become(w, s)
    BY <1>5 DEF Receive
  <2>2. x \in SessionRow /\ x.pc = "loaded" /\ x.msg = m /\ x.out = "none"
    <3>1. Idle("loaded") \in SessionRow /\ Idle("loaded").pc = "loaded" /\ Idle("loaded").out = "none"
      BY IdleSession DEF PC, Place, WorkerPC, Session, Idle
    <3>. QED  BY <1>0, <2>1, <3>1 DEF SessionRow
  <2>3. /\ s.pc = "loaded" /\ s.msg = m /\ m.batch = 1 /\ s.job = job /\ s.out = "none"
        /\ \A i \in Items : s.item[i] = item[i]
    <3>1. m.batch = 1
      BY <1>3, <2>1
    <3>. QED  BY <1>0, <2>1, <2>2, <3>1 DEF Loaded, SessionRow
  <2>4. ses'[w] = s
    BY <1>0, <2>1 DEF Become
  <2>5. m.task = batch[1].task
    BY <2>1, <2>3 DEF StaleTask
  <2>. QED  BY <1>2, <1>4, <2>3, <2>4, <2>5 DEF Serves, Handled, WorkPC
<1>6. CASE (Receive(w) \/ Discard(w)) /\ UNCHANGED ses
  <2>1. Serves(ses[w])'
    BY <1>2, <1>0, <1>6 DEF Serves, WorkPC
  <2>2. Ended
    <3>1. CASE Discard(w)
      BY <1>3, <3>1 DEF Discard, Waiting
    <3>2. CASE Receive(w)
      <4>1. PICK m \in queue : \/ StaleTask(m) \/ batch[m.batch].status \in TerminalBatch
                               \/ Become(w, Loaded([Idle("loaded") EXCEPT !.msg = m], job))
        BY <3>2 DEF Receive
      <4>2. m.batch = 1 /\ m.task = batch[1].task
        BY <1>3, <4>1 DEF Waiting
      <4>3. PICK x, s : /\ x = [Idle("loaded") EXCEPT !.msg = m] /\ s = Loaded(x, job)
        OBVIOUS
      <4>4. s.pc = "loaded"
        BY <4>3 DEF Loaded, Idle
      <4>5. ~Become(w, s)
        BY <1>0, <1>2, <1>6, <4>4 DEF Become, WorkPC
      <4>. QED  BY <4>1, <4>2, <4>3, <4>5 DEF StaleTask, Ended
    <3>. QED  BY <1>6, <3>1, <3>2
  <2>. QED  BY <1>4, <2>1, <2>2
<1>7. CASE Ack(w)
  <2>1. ses'[w] = Idle("idle") /\ UNCHANGED queue
    BY <1>0, <1>7 DEF Ack, Become, brokerVars
  <2>2. ses'[w].pc = "idle" /\ ses'[w].out = "none"
    BY <2>1 DEF Idle
  <2>. QED  BY <1>4, <2>1, <2>2 DEF Serves, WorkPC
<1>. QED  BY <1>1, <1>5, <1>6, <1>7 DEF Discard

\* refresh_progress reads no batch row again.
LEMMA RefreshBatch ==
  ASSUME TypeOK, NEW p \in Processes, RefreshProgress(p)
  PROVE  ses'[p].batch = ses[p].batch
<1>0. ses[p] \in SessionRow
  BY DEF TypeOK, Session
<1>1. ASSUME NEW s, Become(p, s), s.batch = ses[p].batch
      PROVE  ses'[p].batch = ses[p].batch
  BY <1>1 DEF Become, TypeOK
<1>2. CASE CountItems(p)
  <2>1. PICK l, row, new, s :
          s = [ses[p] EXCEPT !.pc = l, !.job = row, !.new = new] /\ Become(p, s)
    BY <1>2 DEF CountItems
  <2>2. s.batch = ses[p].batch
    BY <1>0, <2>1 DEF SessionRow
  <2>. QED  BY <1>1, <2>1, <2>2
<1>3. CASE CountBatches(p)
  <2>1. PICK l, new, s : s = [ses[p] EXCEPT !.pc = l, !.new = new] /\ Become(p, s)
    BY <1>3 DEF CountBatches
  <2>2. s.batch = ses[p].batch
    BY <1>0, <2>1 DEF SessionRow
  <2>. QED  BY <1>1, <2>1, <2>2
<1>4. CASE SaveProgress(p)
  <2>1. PICK l, s : s = [ses[p] EXCEPT !.pc = l] /\ Become(p, s)
    BY <1>4 DEF SaveProgress, Goto
  <2>2. s.batch = ses[p].batch
    BY <1>0, <2>1 DEF SessionRow
  <2>. QED  BY <1>1, <2>1, <2>2
<1>. QED  BY <1>2, <1>3, <1>4 DEF RefreshProgress

\* Whoever refreshes, closes the job if its batch is over and leaves it if not.
LEMMA RefreshSettles ==
  ASSUME SettleInv, NumBatches = 1, Retriers = {}, NEW p \in Processes, RefreshProgress(p),
         Heeds(p)
  PROVE  Settling'
<1>. USE DEF SettleInv
<1>0. /\ p # Creator /\ (p \in Workers \/ p \in Cancellers) /\ ~(p \in Workers /\ p \in Cancellers)
      /\ ses[p].pc \in RefreshPC
      /\ ses'[p].pc \in RefreshPC \cup {IF p \in Workers THEN "ack" ELSE "revoke"}
      /\ ses'[p].out = ses[p].out /\ ses'[p].batch = ses[p].batch
      /\ \A q \in Processes : q # p => ses'[q] = ses[q]
      /\ UNCHANGED <<batch, item, queue, revoked, nextTask, budget>>
      /\ Counted(p) \/ Judged(p) \/ Saved(p)
      /\ Refreshes(ses[p]) /\ (p \in Cancellers => Asks(ses[p], job))
      /\ Creator \in Processes /\ Cancellers \subseteq Processes /\ Workers \subseteq Processes
  <2>1. TypeOK /\ Refreshes(ses[p]) /\ (p \in Requests => Asks(ses[p], job))
    BY DEF LateInv, OnceInv, Noticed
  <2>2. EngineTypes(Place, Outcome) /\ Places(Place, Outcome)
    BY <2>1, EngineOK
  <2>3. /\ ses[p].pc \in RefreshPC
        /\ ses'[p].pc \in RefreshPC \cup {IF p \in Workers THEN "ack" ELSE "revoke"}
        /\ ses'[p].out = ses[p].out
        /\ \A q \in Processes : q # p => ses'[q] = ses[q]
        /\ UNCHANGED <<batch, item, queue, revoked, nextTask, budget>>
        /\ Counted(p) \/ Judged(p) \/ Saved(p)
    BY <2>2, RefreshType, RefreshRow DEF brokerVars
  <2>4. ses'[p].batch = ses[p].batch
    BY <2>1, RefreshBatch
  <2>5. p # Creator
    BY <2>3 DEF Settling, Carried, RefreshPC
  <2>6. (p \in Workers \/ p \in Cancellers) /\ ~(p \in Workers /\ p \in Cancellers)
    BY <2>5, EngineAssumption DEF EngineAssumption, Processes, Requests
  <2>. QED  BY <2>1, <2>3, <2>4, <2>5, <2>6 DEF Processes, Requests
<1>1. /\ Ended' = Ended /\ NonePending' = NonePending /\ Sending' = Sending /\ Mailed' = Mailed
      /\ ses'[Creator] = ses[Creator] /\ Handled' = Handled
  <2>1. Handled' = Handled
    BY <1>0 DEF Handled, WorkPC, RefreshPC
  <2>. QED  BY <1>0, <2>1 DEF Ended, NonePending, Sending, Mailed
<1>2. p \in Workers => Ended
  <2>1. p \in Workers => ses[p].msg.batch = 1 /\ Trusts(ses[p], batch)
    BY <1>0, InCharge DEF LateInv, Noticed
  <2>. QED  BY <1>0, <2>1 DEF Trusts, Ended
<1>3. Ended <=> FinishedBatches = NumBatches
  BY AllCounted, OneBatchOnly DEF AllOver, Ended
<1>4. /\ Over(job) => Over(job')
      /\ Over(job') => \/ job'.status = job.status
                       \/ Over(ses[p].new) /\ job'.status = ses[p].new.status /\ Saved(p)
  <2>1. CASE Saved(p)
    <3>1. job'.status = Column(job.status, ses[p].job.status, ses[p].new.status)
      BY <2>1, Flushed DEF Saved
    <3>2. ses[p].new.status = ses[p].job.status \/ ses[p].new.status \in TerminalJob
      BY <1>0, <2>1 DEF Saved, Refreshes
    <3>. QED  BY <2>1, <3>1, <3>2 DEF Column, Over
  <2>2. CASE Counted(p) \/ Judged(p)
    BY <2>2 DEF Counted, Judged, Over
  <2>. QED  BY <1>0, <2>1, <2>2
<1>5. p \in Workers => Serves(ses[p])'
  <2>1. p \in Workers => Serves(ses[p])
    BY DEF Settling, Served
  <2>2. p \in Workers => ses'[p].pc \in RefreshPC \cup {"ack"}
    BY <1>0
  <2>3. p \in Workers => ses'[p].out # "lost"
    BY <1>0, <2>1 DEF Serves
  <2>. QED  BY <2>2, <2>3 DEF Serves, WorkPC, RefreshPC
<1>6. p \in Cancellers => Pleads(ses[p])'
  <2>. SUFFICES ASSUME p \in Cancellers PROVE Pleads(ses[p])'
    OBVIOUS
  <2>1. Pleads(ses[p]) /\ Asked(ses[p]) /\ ses'[p].pc \in RefreshPC \cup {"revoke"}
    BY <1>0 DEF Settling, Pleaded, Asked
  <2>2. job'.cancelReq
    BY <2>1 DEF Pleads, Heeds
  <2>3. ses'[p].batch[1].task # NoTask => batch'[1].task # NoTask /\ (Mailed' => Ended')
    BY <1>0, <1>1, <2>1 DEF Pleads
  <2>. QED  BY <2>1, <2>2, <2>3 DEF Pleads, RefreshPC
<1>7. Reopened' => Reopened
  <2>. SUFFICES ASSUME Reopened' PROVE Reopened
    OBVIOUS
  <2>1. ~Ended /\ p \notin Workers
    BY <1>1, <1>2 DEF Reopened
  <2>2. CASE Over(job')
    <3>1. Over(job') <=> job'.status \in TerminalJob
      BY DEF Over
    <3>. QED  BY <1>0, <1>4, <2>1, <2>2, <3>1 DEF Reopened, Saved, Over
  <2>3. ASSUME NEW c \in Cancellers, ses'[c].pc = "save", Over(ses'[c].new)
        PROVE  Reopened
    <3>1. CASE c = p
      <4>1. Judged(p)
        BY <1>0, <2>1, <2>3, <3>1 DEF Counted, Saved
      <4>2. ses'[p].new.status = ses[p].job.status
        BY <1>0, <1>3, <2>1, <4>1 DEF Judged, Refreshes
      <4>3. ses[p].job.status = "CANCEL_REQUESTED"
        BY <1>0, <3>1 DEF Asks
      <4>. QED  BY <2>3, <3>1, <4>2, <4>3 DEF Over, TerminalJob
    <3>2. CASE c # p
      BY <1>0, <2>1, <2>3, <3>2 DEF Reopened
    <3>. QED  BY <3>1, <3>2
  <2>. QED  BY <2>2, <2>3 DEF Reopened, Over
<1>8. Steady(p)
  <2>1. nextTask' # 0 /\ (job.cancelReq => job'.cancelReq)
    BY <1>0 DEF Settling, Aborting, Heeds
  <2>. QED  BY <1>0, <1>1, <1>4, <1>7, <2>1 DEF Steady
<1>9. (Aborting /\ Served /\ Pleaded)'
  BY <1>0, <1>5, <1>6, <1>8, SteadyInv
<1>10. Carried'
  <2>1. Sending' => Unsent'
    <3>1. job.cancelReq => job'.cancelReq
      BY DEF Heeds
    <3>. QED  BY <1>0, <1>1, <3>1 DEF Settling, Carried, Unsent
  <2>2. \A m \in queue' : Waiting(m)'
    BY <1>0, <1>1 DEF Settling, Carried, Waiting
  <2>3. ses'[Creator].pc = "publish" => Waiting(ses[Creator].msg)'
    BY <1>0, <1>1 DEF Settling, Carried, Waiting
  <2>. QED  BY <1>1, <2>1, <2>2, <2>3 DEF Settling, Carried
<1>11. Ended' => Over(job') \/ \E q \in Processes : Closer(ses'[q])
  <2>. SUFFICES ASSUME Ended, ~Over(job') PROVE \E q \in Processes : Closer(ses'[q])
    BY <1>1
  <2>1. PICK q \in Processes : Closer(ses[q])
    BY <1>4 DEF Settling, Concluded
  <2>2. CASE q # p
    BY <1>0, <2>1, <2>2
  <2>3. CASE q = p /\ Counted(p)
    BY <1>4, <2>1, <2>3 DEF Closer, Counted, Over
  <2>4. CASE q = p /\ Judged(p)
    <3>1. ses'[p].new.status = FinalStatus(ses[p].new)
      BY <1>3, <2>4 DEF Judged
    <3>2. Over(ses'[p].new)
      BY <3>1 DEF Over, FinalStatus, TerminalJob
    <3>. QED  BY <2>1, <2>4, <3>2 DEF Closer, Judged, Over
  <2>5. CASE q = p /\ Saved(p)
    <3>1. job'.status = Column(job.status, ses[p].job.status, ses[p].new.status)
      BY <2>5, Flushed DEF Saved
    <3>. QED  BY <2>1, <2>5, <3>1 DEF Closer, Saved, Column, Over
  <2>. QED  BY <1>0, <2>2, <2>3, <2>4, <2>5
<1>12. Over(job') => job'.status = "CANCELLED" \/ Spent'
  <2>1. CASE job'.status = job.status
    BY <2>1 DEF Settling, Concluded, Heeds, Over
  <2>2. CASE Over(ses[p].new) /\ job'.status = ses[p].new.status /\ Saved(p)
    <3>1. CASE p \in Workers
      <4>1. 1 \in Charge(ses[p], MayCrash)
        BY <1>0, <3>1, InCharge DEF LateInv
      <4>2. batch'[1].status \in TerminalBatch /\ ses'[p].pc = "ack"
        BY <1>0, <1>2, <2>2, <3>1 DEF Saved, Ended
      <4>3. Spent'
        BY <1>0, <4>1, <4>2, SpentNow DEF LateInv
      <4>. QED  BY <4>3
    <3>2. CASE p \in Cancellers
      BY <1>0, <2>2, <3>2 DEF Saved, Asks, CancelSeen, Over, TerminalJob
    <3>. QED  BY <1>0, <3>1, <3>2
  <2>. QED  BY <1>4, <2>1, <2>2
<1>13. Concluded'
  BY <1>1, <1>11, <1>12 DEF Settling, Concluded
<1>. QED  BY <1>9, <1>10, <1>13 DEF Settling

\* The dispatcher: what it has read as PENDING it queues, cancelled or not.
LEMMA DispatchSettles ==
  ASSUME SettleInv, NumBatches = 1,
         DispatchLoad(Creator) \/ MarkQueued(Creator) \/ Publish(Creator), Heeds(Creator)
  PROVE  Settling'
<1>. USE DEF SettleInv
<1>. DEFINE r == Creator
<1>0. /\ r \in Processes /\ r \notin Workers /\ r \notin Cancellers /\ Batches = {1}
      /\ ses[r] \in SessionRow /\ ses \in [Processes -> Session]
      /\ batch \in [Batches -> BatchRow] /\ nextTask \in Nat /\ Orderly(r, ses[r])
      /\ UNCHANGED <<job, item, revoked, budget>>
      /\ \A q \in Processes : q # r => ses'[q] = ses[q]
      /\ Cancellers \subseteq Processes /\ Workers \subseteq Processes
      /\ r \in Requests
  <2>1. TypeOK /\ Orderly(r, ses[r])
    BY EngineAssumption DEF LateInv, OnceInv, OneInCharge, EngineAssumption, Processes, Requests
  <2>2. UNCHANGED <<job, item, revoked, budget>>
    BY DEF DispatchLoad, MarkQueued, Publish, dbVars, brokerVars
  <2>3. /\ r \in Processes /\ r \notin Workers /\ r \notin Cancellers
        /\ Cancellers \subseteq Processes /\ Workers \subseteq Processes /\ r \in Requests
    BY EngineAssumption DEF EngineAssumption, Processes, Requests
  <2>. QED  BY <2>1, <2>2, <2>3, OneBatchOnly DEF TypeOK, Session, Heeds
\* No worker has the batch, and the request ends no batch.
<1>1. /\ queue = {} /\ 1 \in Charge(ses[r], MayCrash) /\ ~Spent
      /\ \A w \in Workers : ses[w].pc \notin WorkPC \cup RefreshPC
  <2>1. Sending \/ ses[r].pc = "publish"
    BY DEF DispatchLoad, MarkQueued, Publish, Sending
  <2>. QED  BY <2>1, Placed
<1>2. /\ \A p \in Processes : Closer(ses[p]) => Closer(ses'[p])
      /\ NonePending' = NonePending /\ Over(job') = Over(job)
      /\ Over(job') => job'.status = "CANCELLED" \/ Spent'
  <2>1. ~Closer(ses[r])
    BY DEF Settling, Carried, Closer, RefreshPC
  <2>2. Over(job') => job'.status = "CANCELLED" \/ Spent'
    BY <1>0 DEF Settling, Concluded, Heeds, Over
  <2>. QED  BY <1>0, <2>1, <2>2 DEF NonePending, Over
<1>3. CASE DispatchLoad(r)
  <2>1. PICK l, s :
          /\ l = IF Dispatchable = {} THEN "done" ELSE "mark"
          /\ s = [ses[r] EXCEPT !.todo = Dispatchable, !.pc = l] /\ Become(r, s)
    BY <1>3 DEF DispatchLoad
  <2>2. /\ ses[r].pc = "dispatch" /\ UNCHANGED <<batch, queue, nextTask>>
        /\ ses'[r].pc = l /\ ses'[r].todo = Dispatchable
    BY <1>0, <1>3, <2>1 DEF DispatchLoad, dbVars, brokerVars, SessionRow, Become
  <2>3. Sending /\ Unsent /\ ~Mailed
    BY <1>1, <2>2 DEF Settling, Carried, Sending, Mailed
  <2>4. Dispatchable = {} => Ended
    BY <1>0, <2>3 DEF Dispatchable, Unsent, Ended, TerminalBatch
  <2>5. Dispatchable # {} => Dispatchable = {1}
    BY <1>0 DEF Dispatchable
  <2>6. /\ Ended' = Ended /\ ~Mailed' /\ (Reopened' => Reopened)
        /\ Sending' <=> l = "mark"
    <3>1. Reopened' => Reopened
      BY <1>0, <2>2 DEF Reopened, Ended
    <3>. QED  BY <1>1, <2>1, <2>2, <3>1 DEF Ended, Mailed, Sending
  <2>7. Steady(r)
    <3>1. nextTask' # 0
      BY <2>2 DEF Settling, Aborting
    <3>. QED  BY <1>0, <1>2, <2>2, <2>3, <2>6, <3>1 DEF Steady, NonePending
  <2>8. (Aborting /\ Served /\ Pleaded)'
    BY <1>0, <2>7, SteadyInv
  <2>9. Unsent' \/ l = "done"
    BY <1>0, <2>1, <2>2, <2>3, <2>5 DEF Unsent
  <2>10. Carried'
    BY <1>1, <2>1, <2>2, <2>6, <2>9 DEF Carried
  <2>11. Concluded'
    BY <1>2, <2>1, <2>4, <2>6 DEF Settling, Concluded
  <2>. QED  BY <2>8, <2>10, <2>11 DEF Settling
<1>4. CASE MarkQueued(r)
  <2>1. PICK b, m, t, s :
          /\ b \in ses[r].todo /\ m = [batch |-> b, task |-> nextTask, tries |-> 0]
          /\ t = ses[r].todo \ {b}
          /\ batch' = [batch EXCEPT ![b] = [status |-> "QUEUED", task |-> nextTask]]
          /\ s = [ses[r] EXCEPT !.pc = "publish", !.todo = t, !.msg = m] /\ Become(r, s)
    BY <1>4 DEF MarkQueued
  <2>2. /\ ses[r].pc = "mark" /\ UNCHANGED queue /\ nextTask' = nextTask + 1
        /\ ses'[r].pc = "publish" /\ ses'[r].msg = m
    BY <1>0, <1>4, <2>1 DEF MarkQueued, SessionRow, Become
  <2>3. Sending /\ Unsent /\ nextTask # NoTask
    BY <2>2 DEF Settling, Carried, Sending, Aborting, NoTask
  <2>4. b = 1 /\ batch'[1].status = "QUEUED" /\ batch'[1].task = nextTask /\ m.task = nextTask
    BY <1>0, <2>1, <2>2, <2>3 DEF Unsent
  <2>5. ~Ended' /\ ~Sending' /\ batch[1].task = NoTask /\ revoked = {}
    BY <2>2, <2>3, <2>4 DEF Ended, TerminalBatch, Sending, Unsent
  <2>6. Steady(r)
    <3>1. nextTask' # 0
      BY <1>0, <2>2
    <3>. QED  BY <1>0, <1>2, <2>3, <2>4, <2>5, <3>1 DEF Steady
  <2>7. (Aborting /\ Served /\ Pleaded)'
    BY <1>0, <2>6, SteadyInv
  <2>8. Waiting(ses[r].msg)'
    BY <1>0, <2>2, <2>3, <2>4, <2>5 DEF Waiting
  <2>9. Carried'
    BY <1>1, <2>2, <2>5, <2>8 DEF Carried
  <2>10. Mailed'
    BY <2>2 DEF Mailed
  <2>11. Concluded'
    BY <1>2, <2>5, <2>10 DEF Concluded
  <2>. QED  BY <2>7, <2>9, <2>11 DEF Settling
<1>5. CASE Publish(r)
  <2>1. PICK s : s = [ses[r] EXCEPT !.pc = IF ses[r].todo = {} THEN "done" ELSE "mark"] /\ Become(r, s)
    BY <1>5 DEF Publish, Goto
  <2>2. /\ ses[r].pc = "publish" /\ queue' = {ses[r].msg} /\ UNCHANGED <<batch, nextTask>>
        /\ ses'[r] = s /\ Waiting(ses[r].msg)
    BY <1>0, <1>1, <1>5, <2>1 DEF Publish, dbVars, Become, Settling, Carried
  <2>3. ses[r].todo = {}
    BY <1>0, <2>2 DEF Orderly, SessionRow
  <2>4. ses'[r].pc = "done"
    BY <1>0, <2>1, <2>2, <2>3 DEF SessionRow
  <2>5. /\ Ended' = Ended /\ Mailed /\ Mailed' /\ ~Sending' /\ (Reopened' => Reopened)
    <3>1. Reopened' => Reopened
      BY <1>0, <2>2 DEF Reopened, Ended
    <3>. QED  BY <2>2, <2>4, <3>1 DEF Ended, Mailed, Sending
  <2>6. Steady(r)
    <3>1. nextTask' # 0
      BY <2>2 DEF Settling, Aborting
    <3>. QED  BY <1>0, <1>2, <2>2, <2>5, <3>1 DEF Steady
  <2>7. (Aborting /\ Served /\ Pleaded)'
    BY <1>0, <2>6, SteadyInv
  <2>8. \A m \in queue' : Waiting(m)'
    BY <1>0, <2>2, <2>5 DEF Waiting
  <2>9. Carried'
    BY <2>4, <2>5, <2>8 DEF Carried
  <2>10. Concluded'
    BY <1>2, <2>5 DEF Settling, Concluded
  <2>. QED  BY <2>7, <2>9, <2>10 DEF Settling
<1>. QED  BY <1>3, <1>4, <1>5

\* A cancellation: it closes what it ends, and revokes only what it has ended.
LEMMA AskedSettles ==
  ASSUME SettleInv, NumBatches = 1, NEW r \in Cancellers,
         CancelLoad(r) \/ CancelCommit(r) \/ Revoke(r), Heeds(r)
  PROVE  Settling'
<1>. USE DEF SettleInv
<1>0. /\ r \in Processes /\ r \notin Workers /\ r # Creator /\ Batches = {1}
      /\ ses[r] \in SessionRow /\ ses \in [Processes -> Session]
      /\ batch \in [Batches -> BatchRow] /\ item \in [Items -> ItemStatus] /\ job \in JobRow
      /\ UNCHANGED <<queue, nextTask, budget>>
      /\ \A q \in Processes : q # r => ses'[q] = ses[q]
      /\ Creator \in Processes /\ Cancellers \subseteq Processes /\ Workers \subseteq Processes
      /\ \A i \in Items : BatchOf[i] = 1
      /\ Pleads(ses[r]) /\ Asks(ses[r], job)
      /\ ses[r].pc \in {"idle", "cancel", "revoke"}
  <2>1. TypeOK /\ Pleads(ses[r]) /\ Asks(ses[r], job)
    BY DEF LateInv, OnceInv, Settling, Pleaded, Noticed, Requests
  <2>2. UNCHANGED <<queue, nextTask, budget>> /\ ses[r].pc \in {"idle", "cancel", "revoke"}
    BY DEF CancelLoad, CancelCommit, Revoke, dbVars, brokerVars
  <2>3. /\ r \in Processes /\ r \notin Workers /\ r # Creator /\ Creator \in Processes
        /\ Cancellers \subseteq Processes /\ Workers \subseteq Processes
        /\ Batches = {1} => \A i \in Items : BatchOf[i] = 1
    BY EngineAssumption DEF EngineAssumption, Processes, Requests
  <2>. QED  BY <2>1, <2>2, <2>3, OneBatchOnly DEF TypeOK, Session, Heeds
<1>1. /\ Sending' = Sending /\ Mailed' = Mailed /\ Handled' = Handled
      /\ ses'[Creator] = ses[Creator]
  BY <1>0 DEF Sending, Mailed, Handled
<1>2. \A p \in Processes : p # r /\ Closer(ses[p]) => Closer(ses'[p])
  BY <1>0
<1>3. job.cancelReq => job'.cancelReq
  BY DEF Heeds
<1>4. ~Closer(ses[r]) /\ ses[r].pc # "save"
  BY <1>0 DEF Closer, RefreshPC
<1>5. ses'[r].pc # "save"
  <2>1. CASE CancelLoad(r)
    <3>1. PICK s : /\ \/ s = Idle("done")
                      \/ s = [Idle("cancel") EXCEPT !.job = job, !.batch = batch, !.item = item]
                   /\ Become(r, s)
      BY <2>1 DEF CancelLoad
    <3>2. CASE s = Idle("done")
      BY <1>0, <3>1, <3>2 DEF Idle, Become
    <3>3. CASE s = [Idle("cancel") EXCEPT !.job = job, !.batch = batch, !.item = item]
      <4>1. s.pc = "cancel"
        BY <3>3 DEF Idle
      <4>. QED  BY <1>0, <3>1, <4>1 DEF Become
    <3>. QED  BY <3>1, <3>2, <3>3
  <2>2. CASE CancelCommit(r)
    <3>1. PICK new, s : s = [ses[r] EXCEPT !.pc = "count", !.job = new] /\ Become(r, s)
      BY <2>2 DEF CancelCommit
    <3>2. s.pc # "save"
      BY <1>0, <3>1 DEF SessionRow
    <3>. QED  BY <1>0, <3>1, <3>2 DEF Become
  <2>3. CASE Revoke(r)
    <3>1. ses'[r] = Idle("done")
      BY <1>0, <2>3 DEF Revoke, Become
    <3>. QED  BY <3>1 DEF Idle
  <2>. QED  BY <2>1, <2>2, <2>3
\* The rows stay as they are.
<1>6. ASSUME UNCHANGED <<job, batch, item>>, Pleads(ses[r])',
             \A t \in revoked' : \/ t \in revoked
                                 \/ ~Sending /\ (Mailed => Ended)
      PROVE  Settling'
  <2>1. Ended' = Ended /\ NonePending' = NonePending /\ Over(job') = Over(job)
    BY <1>6 DEF Ended, NonePending, Over
  <2>2. Reopened' => Reopened
    BY <1>0, <1>5, <2>1 DEF Reopened
  <2>3. Steady(r)
    <3>1. nextTask' # 0
      BY <1>0 DEF Settling, Aborting
    <3>. QED  BY <1>0, <1>1, <1>6, <2>1, <2>2, <3>1 DEF Steady
  <2>4. (Aborting /\ Served /\ Pleaded)'
    BY <1>0, <1>6, <2>3, SteadyInv
  <2>5. Carried'
    <3>1. Sending' => Unsent'
      BY <1>0, <1>1, <1>3, <1>6 DEF Settling, Carried, Unsent, Heeds
    <3>2. \A m \in queue' : Waiting(m)'
      BY <1>0, <1>1, <1>6, <2>1 DEF Settling, Carried, Waiting, Mailed
    <3>3. ses'[Creator].pc = "publish" => Waiting(ses[Creator].msg)'
      BY <1>0, <1>1, <1>6, <2>1 DEF Settling, Carried, Waiting, Mailed
    <3>. QED  BY <1>1, <3>1, <3>2, <3>3 DEF Settling, Carried
  <2>6. Over(job') => job'.status = "CANCELLED" \/ Spent'
    BY <1>6 DEF Settling, Concluded, Heeds, Over
  <2>7. Concluded'
    BY <1>1, <1>2, <1>4, <2>1, <2>6 DEF Settling, Concluded
  <2>. QED  BY <2>4, <2>5, <2>7 DEF Settling
<1>7. CASE CancelLoad(r)
  <2>1. UNCHANGED <<job, batch, item, revoked>>
    BY <1>7 DEF CancelLoad, dbVars, brokerVars
  <2>2. CASE Over(job)
    <3>1. ses'[r] = Idle("done")
      BY <1>0, <1>7, <2>2 DEF CancelLoad, Become, Over
    <3>2. ses'[r].pc = "done"
      BY <3>1 DEF Idle
    <3>3. Pleads(ses[r])'
      BY <3>2 DEF Pleads, Asked, RefreshPC
    <3>. QED  BY <1>6, <2>1, <3>3
  <2>3. CASE ~Over(job)
    <3>1. ses'[r] = [Idle("cancel") EXCEPT !.job = job, !.batch = batch, !.item = item]
      BY <1>0, <1>7, <2>3 DEF CancelLoad, Become, Over
    <3>2. /\ ses'[r].pc = "cancel" /\ ses'[r].job = job /\ ses'[r].batch = batch
          /\ ses'[r].item = item
      BY <3>1 DEF Idle
    <3>3. Mailed => batch[1].status \in Cancellable \/ Ended
      BY DEF Settling, Carried, Mailed, Waiting, Cancellable, Ended, TerminalBatch
    <3>4. job.cancelReq => job.status = "CANCEL_REQUESTED" \/ Spent
      BY <2>3 DEF LateInv, Noticed, CancelSeen, Over, TerminalJob
    <3>5. CASE Sending
      <4>1. ~Spent /\ Unsent
        BY <3>5, Placed DEF Settling, Carried
      <4>2. batch[1].status \in Cancellable \/ job.status = "CANCEL_REQUESTED"
        BY <3>4, <4>1 DEF Unsent, Cancellable
      <4>3. Pleads(ses[r])'
        BY <1>1, <2>1, <3>2, <3>3, <4>2 DEF Pleads, Asked, Completes, RefreshPC, Ended
      <4>. QED  BY <1>6, <2>1, <4>3
    <3>6. CASE ~Sending
      <4>1. Reopened => job.status = "CANCEL_REQUESTED"
        <5>1. SUFFICES ASSUME Reopened PROVE job.status = "CANCEL_REQUESTED"
          OBVIOUS
        <5>2. PICK c \in Cancellers : ses[c].pc = "save"
          BY <2>3, <5>1 DEF Reopened
        <5>3. Pleads(ses[c])
          BY DEF Settling, Pleaded
        <5>4. job.cancelReq
          BY <5>2, <5>3 DEF Pleads, Asked, RefreshPC
        <5>5. ~Spent
          BY <5>1, Placed DEF Reopened
        <5>. QED  BY <3>4, <5>4, <5>5
      <4>2. Reopened' => Reopened
        BY <1>0, <1>5, <2>1 DEF Reopened, Ended
      <4>3. Pleads(ses[r])'
        BY <1>1, <2>1, <3>2, <3>3, <3>6, <4>1, <4>2 DEF Pleads, Asked, Completes, RefreshPC, Ended
      <4>. QED  BY <1>6, <2>1, <4>3
    <3>. QED  BY <3>5, <3>6
  <2>. QED  BY <2>2, <2>3
<1>8. CASE Revoke(r)
  <2>1. /\ ses[r].pc = "revoke" /\ UNCHANGED <<job, batch, item>>
        /\ \A t \in revoked' : t \in revoked \/ (t = ses[r].batch[1].task /\ t # NoTask)
    BY <1>0, <1>8 DEF Revoke, dbVars
  <2>2. ses'[r] = Idle("done")
    BY <1>0, <1>8 DEF Revoke, Become
  <2>3. ses'[r].pc = "done"
    BY <2>2 DEF Idle
  <2>4. Pleads(ses[r])'
    BY <2>3 DEF Pleads, Asked, RefreshPC
  <2>5. ses[r].batch[1].task # NoTask => ~Sending /\ (Mailed => Ended)
    BY <1>0, <2>1 DEF Pleads, Asked, Settling, Carried, Unsent
  <2>. QED  BY <1>6, <2>1, <2>4, <2>5
<1>9. CASE CancelCommit(r)
  <2>1. PICK new, hit, s :
          /\ new = [ses[r].job EXCEPT !.status = "CANCEL_REQUESTED", !.cancelReq = TRUE]
          /\ hit = {b \in Batches : ses[r].batch[b].status \in Cancellable}
          /\ job' = FlushJob(ses[r].job, new)
          /\ batch' = [b \in Batches |->
                         IF b \in hit THEN [batch[b] EXCEPT !.status = "CANCELLED"] ELSE batch[b]]
          /\ item' = SetItems({i \in Items : BatchOf[i] \in hit
                                             /\ ses[r].item[i] = "PENDING"}, "CANCELLED")
          /\ s = [ses[r] EXCEPT !.pc = "count", !.job = new] /\ Become(r, s)
    BY <1>9 DEF CancelCommit
  <2>2. /\ ses'[r] = s /\ s.pc = "count" /\ s.job = new /\ s.batch = ses[r].batch
        /\ ses[r].pc = "cancel" /\ UNCHANGED revoked
    BY <1>0, <1>9, <2>1 DEF CancelCommit, brokerVars, SessionRow, Become
  <2>3. new.status = "CANCEL_REQUESTED" /\ new.cancelReq = TRUE
    BY <1>0, <2>1 DEF SessionRow, JobRow
  <2>4. /\ job'.status = Column(job.status, ses[r].job.status, "CANCEL_REQUESTED")
        /\ job'.cancelReq = Column(job.cancelReq, ses[r].job.cancelReq, TRUE)
    BY <2>1, <2>3 DEF FlushJob
  <2>5. /\ job'.cancelReq
        /\ Over(job') => job'.status = job.status
        /\ ses[r].job.status = "CANCEL_REQUESTED" => job'.status = job.status
    BY <1>0, <2>2, <2>4 DEF Asks, SessionRow, JobRow, Column, Over, TerminalJob
  <2>6. /\ batch'[1].task = batch[1].task
        /\ batch'[1].status = IF ses[r].batch[1].status \in Cancellable
                              THEN "CANCELLED" ELSE batch[1].status
    BY <1>0, <2>1 DEF BatchRow
  <2>7. /\ Ended => Ended'
        /\ ses[r].batch[1].status \in Cancellable => Ended'
        /\ ses[r].batch[1].status \notin Cancellable => Ended' = Ended
    BY <2>6 DEF Ended, TerminalBatch
  <2>8. /\ \A i \in Items : item'[i] = "PENDING" => item[i] = "PENDING"
        /\ ses[r].batch[1].status \in Cancellable => NonePending'
    <3>1. ses[r].batch[1].status \in Cancellable => hit = {1}
      BY <1>0, <2>1
    <3>. QED  BY <1>0, <2>1, <2>2, <3>1 DEF SetItems, Pleads, NonePending
  <2>9. Ended' => NonePending'
    BY <2>7, <2>8 DEF Settling, Concluded, NonePending
  <2>10. Reopened' => Reopened
    BY <1>0, <1>5, <2>5, <2>7 DEF Reopened, Over
  <2>11. Over(job) => Over(job') \/ Ended'
    <3>1. Over(job) => Ended \/ Completes(ses[r])
      BY <1>0, <2>2 DEF Pleads, Reopened
    <3>. QED  BY <2>5, <2>7, <3>1 DEF Completes, Over
  <2>12. Steady(r)
    <3>1. nextTask' # 0
      BY <1>0 DEF Settling, Aborting
    <3>. QED  BY <1>0, <1>1, <1>3, <2>6, <2>7, <2>8, <2>10, <2>11, <3>1 DEF Steady
  <2>13. Pleads(ses[r])'
    <3>1. ses[r].batch[1].task # NoTask => batch'[1].task # NoTask /\ (Mailed' => Ended')
      BY <1>0, <1>1, <2>2, <2>6, <2>7 DEF Pleads
    <3>. QED  BY <2>2, <2>5, <3>1 DEF Pleads, Asked, RefreshPC
  <2>14. (Aborting /\ Served /\ Pleaded)'
    BY <1>0, <2>12, <2>13, SteadyInv
  <2>15. Carried'
    <3>1. Sending' => Unsent'
      BY <1>0, <1>1, <2>2, <2>5, <2>6 DEF Settling, Carried, Unsent
    <3>2. \A m \in queue' : Waiting(m)'
      BY <1>0, <2>2, <2>6, <2>7 DEF Settling, Carried, Waiting
    <3>3. ses'[Creator].pc = "publish" => Waiting(ses[Creator].msg)'
      BY <1>1, <2>2, <2>6, <2>7 DEF Settling, Carried, Waiting
    <3>. QED  BY <1>1, <3>1, <3>2, <3>3 DEF Settling, Carried
  <2>16. Closer(ses'[r])
    BY <2>2, <2>3 DEF Closer, Over, TerminalJob
  <2>17. Over(job') => job'.status = "CANCELLED" \/ Spent'
    BY <2>5 DEF Settling, Concluded, Heeds, Over
  <2>18. Concluded'
    BY <1>0, <1>1, <2>7, <2>9, <2>16, <2>17 DEF Settling, Concluded
  <2>. QED  BY <2>14, <2>15, <2>18 DEF Settling
<1>. QED  BY <1>7, <1>8, <1>9

LEMMA SettleInit == SingleDelivery /\ NumBatches = 1 /\ OnlyAborts /\ Init => SettleInv
<1>. SUFFICES ASSUME SingleDelivery, NumBatches = 1, OnlyAborts, Init PROVE SettleInv
  OBVIOUS
<1>1. LateInv
  BY LateInit
<1>2. /\ \A p \in Processes : ses[p] = Idle(IF p = Creator THEN "dispatch" ELSE "idle")
      /\ batch[1].status = "PENDING" /\ batch[1].task = NoTask /\ job.status = "QUEUED"
      /\ queue = {} /\ revoked = {} /\ nextTask = 1 /\ budget \in Budgets
  BY OneBatchOnly DEF Init, EngineInit, NoRow
<1>3. \A l : Idle(l).pc = l /\ Idle(l).out = "none"
  BY DEF Idle
<1>4. /\ Creator \in Processes /\ Creator \notin Workers \cup Cancellers
      /\ Workers \subseteq Processes /\ Cancellers \subseteq Processes
  BY EngineAssumption DEF EngineAssumption, Processes, Requests
<1>5. ses[Creator].pc = "dispatch" /\ \A p \in Workers \cup Cancellers :
         ses[p].pc = "idle" /\ ses[p].out = "none"
  BY <1>2, <1>3, <1>4
<1>6. Aborting /\ Served /\ Pleaded
  BY <1>2, <1>5 DEF OnlyAborts, Aborting, Served, Serves, Pleaded, Pleads, Asked, WorkPC, RefreshPC
<1>7. Sending /\ Unsent /\ ~Ended /\ ~Over(job)
  BY <1>2, <1>5 DEF Sending, Unsent, Ended, Over, TerminalBatch, TerminalJob
<1>8. Carried /\ Concluded
  BY <1>2, <1>5, <1>7 DEF Carried, Concluded
<1>. QED  BY <1>1, <1>6, <1>8 DEF SettleInv, Settling

LEMMA SettleStep == SingleDelivery /\ NumBatches = 1 /\ SettleInv /\ [Next]_vars => SettleInv'
<1>. SUFFICES ASSUME SingleDelivery, NumBatches = 1, SettleInv, [Next]_vars PROVE SettleInv'
  OBVIOUS
<1>1. LateInv'
  BY LateStep DEF SettleInv
<1>2. CASE UNCHANGED vars
  BY <1>1, <1>2
     DEF vars, engineVars, SettleInv, Settling, Aborting, Served, Serves, Pleaded, Pleads, Carried,
         Concluded, Unsent, Waiting, Asked, Completes, Closer, Reopened, Handled, Sending, Mailed,
         Ended, NonePending, Spent, MayCrash
<1>3. ASSUME NEW w \in Workers, WorkerProgress(w) \/ WorkerFault(w)
      PROVE  Settling'
  <2>0. w \in Processes /\ LateInv
    BY DEF Processes, SettleInv
  <2>1. CASE \/ Receive(w) \/ Republish(w)
             \/ (Ack(w) \/ WorkerCrash(w) \/ Discard(w)) /\ UNCHANGED history
    <3>1. UNCHANGED late
      BY <2>1 DEF Receive, Republish, history
    <3>2. Receive(w) \/ Republish(w) \/ Ack(w) \/ WorkerCrash(w) \/ Discard(w)
      BY <2>1
    <3>. QED  BY <1>1, <2>0, <3>1, <3>2, BrokerHeeds, BrokerSettles
  <2>2. CASE RefreshProgress(w) /\ UNCHANGED history
    <3>1. Heeds(w)
      BY <2>0, <2>2, RefreshHeeds DEF history
    <3>. QED  BY <2>0, <2>2, <3>1, RefreshSettles DEF SingleDelivery
  <2>3. ASSUME \/ MarkUncertain(w) \/ Claim(w) \/ StartBatch(w) \/ CheckCancel(w) \/ StartItem(w)
               \/ SapCall(w) \/ ItemDone(w) \/ ItemLost(w) \/ AuthError(w) \/ FailPending(w)
               \/ FinishBatch(w) \/ CancelPending(w) \/ ConnectionLost(w) \/ MarkRetrying(w)
               \/ MarkFailedSkipped(w) \/ FailBatch(w) \/ AbortTask(w)
        PROVE  Settling'
    <3>1. Works(w) /\ Hesitates(w) /\ Minds(w)
      BY <2>0, <2>3, WorkerWorks, WorkerMinds DEF LateInv
    <3>2. Goes(w)
      BY <2>3, WorkerGoes
    <3>. QED  BY <3>1, <3>2, WorkSettles
  <2>. QED  BY <1>3, <2>1, <2>2, <2>3 DEF WorkerProgress, WorkerFault
<1>4. ASSUME NEW r \in Requests, RequestNext(r), UNCHANGED history
      PROVE  Settling'
  <2>1. Heeds(r) /\ LateInv /\ r \in Processes
    BY <1>4, RequestHeeds DEF SingleDelivery, SettleInv, Processes
  <2>2. /\ budget["request"] = 0 /\ budget["publish"] = 0 /\ budget["module"] = 0
        /\ ses[Creator].pc \in {"dispatch", "mark", "publish", "done"}
        /\ \A c \in Cancellers : ses[c].pc \in {"idle", "cancel", "revoke", "done"} \cup RefreshPC
        /\ Creator \notin Cancellers
    BY EngineAssumption
       DEF SettleInv, Settling, Aborting, Faults, Carried, Pleaded, Pleads, EngineAssumption
  <2>3. r = Creator \/ r \in Cancellers
    BY DEF Requests, SingleDelivery
  <2>4. ~ModuleDisabled(r) /\ ~PublishFails(r) /\ ~RequestCrash(r)
    BY <2>2 DEF ModuleDisabled, PublishFails, RequestCrash, Spend
  <2>5. ~DispatchFailed(r) /\ ~RetryLoad(r) /\ ~RetryRequeue(r)
    BY <2>2, <2>3 DEF DispatchFailed, RetryLoad, RetryRequeue, RefreshPC, SingleDelivery
  <2>6. CASE RefreshProgress(r)
    BY <2>1, <2>6, RefreshSettles DEF SingleDelivery
  <2>7. CASE DispatchLoad(r) \/ MarkQueued(r) \/ Publish(r)
    <3>1. r = Creator
      BY <2>2, <2>3, <2>7 DEF DispatchLoad, MarkQueued, Publish, RefreshPC
    <3>. QED  BY <2>1, <2>7, <3>1, DispatchSettles
  <2>8. CASE CancelLoad(r) \/ CancelCommit(r) \/ Revoke(r)
    <3>1. r \in Cancellers
      BY <2>2, <2>3, <2>8 DEF CancelLoad, CancelCommit, Revoke
    <3>. QED  BY <2>1, <2>8, <3>1, AskedSettles
  <2>. QED  BY <1>4, <2>4, <2>5, <2>6, <2>7, <2>8 DEF RequestNext, RequestProgress
<1>5. CASE Next
  BY <1>1, <1>3, <1>4, <1>5 DEF Next, SettleInv
<1>. QED  BY <1>2, <1>5

\* However many cancellations come, and whatever the dispatcher and the workers are
\* doing when they do: once nothing is left to run, no item waits, the job is closed
\* and says what became of its batch.  For a job of one batch; of the faults only the
\* abortion of a task may happen.
THEOREM CancellationsSettle ==
  ASSUME SingleDelivery, NumBatches = 1, OnlyAborts
  PROVE  Spec => [](CancelSettles /\ JobTellsItsBatches)
<1>1. Init => SettleInv
  BY SettleInit
<1>2. SettleInv /\ [Next]_vars => SettleInv'
  BY SettleStep
<1>3. SettleInv => CancelSettles /\ JobTellsItsBatches
  <2>1. ASSUME SettleInv, Resting PROVE Ended /\ NonePending /\ Over(job)
    <3>1. Creator \in Processes /\ Workers \subseteq Processes
      BY DEF Processes, Requests
    <3>2. ~Sending /\ ~Mailed /\ ~Handled
      BY <2>1, <3>1 DEF Resting, Sending, Mailed, Handled, WorkPC
    <3>3. \A p \in Processes : ~Closer(ses[p])
      BY <2>1 DEF Resting, Closer, RefreshPC
    <3>. QED  BY <2>1, <3>2, <3>3 DEF SettleInv, Settling, Concluded
  <2>2. SettleInv /\ Resting => CancelSettles
    BY <2>1 DEF CancelSettles, CancelSweepsItems, CancelClosesJob, NonePending, Over
  <2>3. SettleInv /\ Resting => JobTellsItsBatches
    BY <2>1, OneBatchOnly
       DEF JobTellsItsBatches, LastBatchClosesJob, PendingBatchReported, Ended, Over, TerminalBatch,
           SettleInv, LateInv
  <2>. QED
    BY <2>2, <2>3
       DEF CancelSettles, CancelSweepsItems, CancelClosesJob, JobTellsItsBatches,
           LastBatchClosesJob, PendingBatchReported
<1>. QED  BY <1>1, <1>2, <1>3, PTL DEF Spec

=============================================================================
