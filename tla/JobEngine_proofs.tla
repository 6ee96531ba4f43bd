--------------------------- MODULE JobEngine_proofs ---------------------------
(***************************************************************************)
(* What the proofs about the processors share: the types of the engine's    *)
(* rows and sessions, and who may execute a batch.  A processor adds places *)
(* and outcomes of its own to a session: P and O stand for all of them.     *)
(***************************************************************************)
EXTENDS JobEngine, FiniteSetTheorems, TLAPS

SessionShape(P, O) ==
    [pc : P,
     job : JobRow,
     new : JobRow,
     batch : [Batches -> [status : BatchStatus \cup {"EXPIRED"}, task : Nat]],
     item : [Items -> ItemStatus \cup {"EXPIRED"}],
     msg : Message,
     todo : SUBSET Batches,
     cur : Items \cup {None},
     out : O]

EngineTypes(P, O) ==
    /\ job \in JobRow
    /\ batch \in [Batches -> BatchRow]
    /\ item \in [Items -> ItemStatus]
    /\ queue \subseteq Message
    /\ revoked \subseteq Nat
    /\ nextTask \in Nat
    /\ budget \in [Faults -> Nat]
    /\ ses \in [Processes -> SessionShape(P, O)]

Places(P, O) == RequestPC \cup RefreshPC \cup {"ack"} \subseteq P /\ "none" \in O

-----------------------------------------------------------------------------
(* Types.                                                                  *)

\* The aggregate queries of refresh_progress return natural numbers.
LEMMA ItemCountType == ASSUME NEW s PROVE ItemCount(s) \in Nat
<1>1. IsFiniteSet({i \in Items : item[i] = s})
  BY FS_Subset, EngineAssumption DEF EngineAssumption
<1>. QED  BY <1>1, FS_CardinalityType DEF ItemCount

LEMMA FinishedBatchesType == FinishedBatches \in Nat
<1>1. IsFiniteSet(1..NumBatches)
  BY FS_Interval, EngineAssumption DEF EngineAssumption
<1>2. IsFiniteSet({b \in Batches : batch[b].status \in TerminalBatch})
  BY <1>1, FS_Subset DEF Batches
<1>. QED  BY <1>2, FS_CardinalityType DEF FinishedBatches

LEMMA NoRowType == NoRow \in JobRow
  BY DEF NoRow, JobRow

LEMMA IdleType ==
  ASSUME NEW P, NEW O, "none" \in O, NEW l \in P
  PROVE  /\ Idle(l) \in SessionShape(P, O)
         /\ Idle(l).pc = l /\ Idle(l).out = "none" /\ Idle(l).msg = NoMsg
         /\ Idle(l).item = [i \in Items |-> "EXPIRED"]
  BY NoRowType DEF Idle, SessionShape, NoMsg, NoTask, Message, NoBatchRow

LEMMA FlushJobType ==
  ASSUME job \in JobRow, NEW loaded, NEW new \in JobRow
  PROVE  FlushJob(loaded, new) \in JobRow
  BY DEF FlushJob, Column, JobRow

LEMMA SetItemsType ==
  ASSUME item \in [Items -> ItemStatus], NEW S, NEW s \in ItemStatus
  PROVE  SetItems(S, s) \in [Items -> ItemStatus]
  BY DEF SetItems

\* The process that moves is the only one whose session changes.
LEMMA BecomeType ==
  ASSUME NEW P, NEW O, EngineTypes(P, O), NEW p \in Processes, NEW s \in SessionShape(P, O),
         Become(p, s)
  PROVE  /\ ses' \in [Processes -> SessionShape(P, O)]
         /\ ses'[p] = s
         /\ \A q \in Processes : q # p => ses'[q] = ses[q]
  BY DEF EngineTypes, Become

LEMMA GotoType ==
  ASSUME NEW P, NEW O, EngineTypes(P, O), NEW p \in Processes, NEW l \in P, Goto(p, l)
  PROVE  /\ ses' \in [Processes -> SessionShape(P, O)]
         /\ ses'[p] = [ses[p] EXCEPT !.pc = l]
         /\ ses'[p].pc = l
         /\ \A q \in Processes : q # p => ses'[q] = ses[q]
<1>1. ses[p] \in SessionShape(P, O)
  BY DEF EngineTypes
<1>. DEFINE s == [ses[p] EXCEPT !.pc = l]
<1>2. s \in SessionShape(P, O) /\ s.pc = l
  BY <1>1 DEF SessionShape
<1>3. Become(p, s)
  BY DEF Goto
<1>. HIDE DEF s
<1>4. /\ ses' \in [Processes -> SessionShape(P, O)] /\ ses'[p] = s
      /\ \A q \in Processes : q # p => ses'[q] = ses[q]
  BY <1>2, <1>3, BecomeType
<1>. QED  BY <1>2, <1>4 DEF s

LEMMA SpendType ==
  ASSUME NEW P, NEW O, EngineTypes(P, O), NEW f, Spend(f)
  PROVE  /\ budget' \in [Faults -> Nat]
         /\ \A g \in Faults : budget[g] = 0 => budget'[g] = 0
<1>1. CASE f \in Faults
  BY <1>1 DEF Spend, EngineTypes
<1>2. CASE f \notin Faults
  BY <1>2 DEF Spend, EngineTypes
<1>. QED  BY <1>1, <1>2

\* A query gives the session what the tables hold now, and leaves it where it is.
LEMMA LoadedShape ==
  ASSUME NEW P, NEW O, EngineTypes(P, O), NEW s \in SessionShape(P, O), NEW row \in JobRow
  PROVE  /\ Loaded(s, row) \in SessionShape(P, O)
         /\ Loaded(s, row).pc = s.pc /\ Loaded(s, row).msg = s.msg
         /\ Loaded(s, row).cur = s.cur /\ Loaded(s, row).out = s.out
         /\ \A i \in Items :
               Loaded(s, row).item[i] = IF BatchOf[i] = s.msg.batch THEN item[i] ELSE "EXPIRED"
<1>. DEFINE bs == [b \in Batches |-> IF b = s.msg.batch THEN batch[b] ELSE NoBatchRow]
            is == [i \in Items |-> IF BatchOf[i] = s.msg.batch THEN item[i] ELSE "EXPIRED"]
            t == [s EXCEPT !.job = row, !.batch = bs, !.item = is]
<1>1. bs \in [Batches -> [status : BatchStatus \cup {"EXPIRED"}, task : Nat]]
  BY DEF EngineTypes, BatchRow, NoBatchRow, NoTask
<1>2. is \in [Items -> ItemStatus \cup {"EXPIRED"}]
  BY DEF EngineTypes
<1>3. /\ t \in SessionShape(P, O) /\ t.pc = s.pc /\ t.msg = s.msg
      /\ t.cur = s.cur /\ t.out = s.out /\ t.item = is
  <2>. HIDE DEF bs, is
  <2>. QED  BY <1>1, <1>2 DEF SessionShape
<1>. QED  BY <1>3 DEF Loaded

LEMMA RememberShape ==
  ASSUME NEW P, NEW O, EngineTypes(P, O), NEW w \in Processes, NEW S, NEW s \in ItemStatus
  PROVE  Remember(w, S, s) \in [Items -> ItemStatus \cup {"EXPIRED"}]
<1>1. ses[w].item \in [Items -> ItemStatus \cup {"EXPIRED"}]
  BY DEF EngineTypes, SessionShape
<1>. QED  BY <1>1 DEF Remember

\* A commit changes the status of the batch at hand and of no other.
LEMMA BatchStatusSet ==
  ASSUME NEW P, NEW O, EngineTypes(P, O), NEW w, NEW s \in BatchStatus, SetBatchStatus(w, s)
  PROVE  /\ batch' \in [Batches -> BatchRow]
         /\ \A b \in Batches : b # ses[w].msg.batch => batch'[b] = batch[b]
<1>. DEFINE b == ses[w].msg.batch
<1>1. batch' = [batch EXCEPT ![b].status = Column(batch[b].status, ses[w].batch[b].status, s)]
  BY DEF SetBatchStatus
<1>2. CASE b \in Batches
  <2>1. Column(batch[b].status, ses[w].batch[b].status, s) \in BatchStatus
    BY <1>2 DEF Column, EngineTypes, BatchRow
  <2>. HIDE DEF b
  <2>2. /\ batch' \in [Batches -> BatchRow]
        /\ \A c \in Batches : c # b => batch'[c] = batch[c]
    BY <1>1, <1>2, <2>1 DEF EngineTypes, BatchRow
  <2>. QED  BY <2>2 DEF b
<1>3. CASE b \notin Batches
  <2>. HIDE DEF b
  <2>1. batch' = batch
    BY <1>1, <1>3 DEF EngineTypes
  <2>. QED  BY <2>1 DEF EngineTypes
<1>. QED  BY <1>2, <1>3

LEMMA CountedRowType ==
  ASSUME NEW row \in JobRow,
         NEW a \in Nat, NEW b \in Nat, NEW c \in Nat, NEW d \in Nat
  PROVE  [row EXCEPT !.succ = a, !.fail = b, !.canc = c, !.proc = d] \in JobRow
  BY DEF JobRow

\* refresh_progress: the session keeps its message, its items and its outcome.
LEMMA RefreshType ==
  ASSUME NEW P, NEW O, Places(P, O), EngineTypes(P, O), NEW p \in Processes, RefreshProgress(p)
  PROVE  /\ EngineTypes(P, O)'
         /\ ses[p].pc \in RefreshPC
         /\ ses'[p].pc \in RefreshPC \cup {IF p \in Workers THEN "ack" ELSE "revoke"}
         /\ ses'[p].msg = ses[p].msg /\ ses'[p].item = ses[p].item
         /\ ses'[p].out = ses[p].out /\ ses'[p].cur = ses[p].cur
         /\ \A q \in Processes : q # p => ses'[q] = ses[q]
         /\ UNCHANGED <<batch, item, brokerVars, budget>>
<1>. USE DEF EngineTypes, dbVars, brokerVars
<1>0. ses[p] \in SessionShape(P, O)
  OBVIOUS
<1>1. CASE CountItems(p)
  <2>. DEFINE row == IF ses[p].job.status = "EXPIRED" THEN job ELSE ses[p].job
              new == [row EXCEPT
                        !.succ = ItemCount("SUCCEEDED"),
                        !.fail = ItemCount("FAILED"),
                        !.canc = ItemCount("CANCELLED"),
                        !.proc = ItemCount("SUCCEEDED") + ItemCount("FAILED")
                                 + ItemCount("CANCELLED")]
              s == [ses[p] EXCEPT !.pc = "countBatches", !.job = row, !.new = new]
  <2>1. row \in JobRow
    BY <1>0 DEF SessionShape
  <2>2. new \in JobRow
    <3>. HIDE DEF row
    <3>1. /\ ItemCount("SUCCEEDED") \in Nat
          /\ ItemCount("FAILED") \in Nat
          /\ ItemCount("CANCELLED") \in Nat
      BY ItemCountType
    <3>2. ItemCount("SUCCEEDED") + ItemCount("FAILED") + ItemCount("CANCELLED") \in Nat
      BY <3>1
    <3>. QED  BY <2>1, <3>1, <3>2, CountedRowType
  <2>3. /\ s \in SessionShape(P, O) /\ s.pc = "countBatches" /\ s.msg = ses[p].msg
        /\ s.item = ses[p].item /\ s.out = ses[p].out /\ s.cur = ses[p].cur
    <3>. HIDE DEF row, new
    <3>. QED  BY <1>0, <2>1, <2>2 DEF SessionShape, RefreshPC, Places
  <2>4. Become(p, s)
    BY <1>1 DEF CountItems
  <2>. HIDE DEF s
  <2>. QED  BY <1>1, <2>3, <2>4, BecomeType DEF CountItems, RefreshPC
<1>2. CASE CountBatches(p)
  <2>. DEFINE mid == [ses[p].new EXCEPT !.fin = FinishedBatches]
              new == IF mid.fin = NumBatches
                        THEN [mid EXCEPT !.status = FinalStatus(mid)] ELSE mid
              s == [ses[p] EXCEPT !.pc = "save", !.new = new]
  <2>1. mid \in JobRow
    BY <1>0, FinishedBatchesType DEF SessionShape, JobRow
  <2>2. new \in JobRow
    <3>. HIDE DEF mid
    <3>. QED  BY <2>1 DEF JobRow, FinalStatus, JobStatus
  <2>3. /\ s \in SessionShape(P, O) /\ s.pc = "save" /\ s.msg = ses[p].msg
        /\ s.item = ses[p].item /\ s.out = ses[p].out /\ s.cur = ses[p].cur
    <3>. HIDE DEF new
    <3>. QED  BY <1>0, <2>2 DEF SessionShape, RefreshPC, Places
  <2>4. Become(p, s)
    BY <1>2 DEF CountBatches
  <2>. HIDE DEF s
  <2>. QED  BY <1>2, <2>3, <2>4, BecomeType DEF CountBatches, RefreshPC
<1>3. CASE SaveProgress(p)
  <2>. DEFINE l == IF p \in Workers THEN "ack" ELSE "revoke"
              s == [ses[p] EXCEPT !.pc = l]
  <2>1. job' \in JobRow
    BY <1>0, <1>3, FlushJobType DEF SaveProgress, SessionShape
  <2>2. l \in P
    BY DEF Places, RequestPC
  <2>. HIDE DEF l
  <2>3. /\ s.pc = l /\ s.msg = ses[p].msg
        /\ s.item = ses[p].item /\ s.out = ses[p].out /\ s.cur = ses[p].cur
    BY <1>0 DEF SessionShape
  <2>4. Goto(p, l) /\ ses[p].pc = "save" /\ UNCHANGED <<batch, item, brokerVars, budget>>
    BY <1>3 DEF SaveProgress, l
  <2>5. /\ ses' \in [Processes -> SessionShape(P, O)] /\ ses'[p] = s
        /\ \A q \in Processes : q # p => ses'[q] = ses[q]
    BY <2>2, <2>4, GotoType
  <2>. HIDE DEF s
  <2>. QED  BY <2>1, <2>3, <2>4, <2>5 DEF l, RefreshPC
<1>. QED  BY <1>1, <1>2, <1>3 DEF RefreshProgress

\* refresh_progress, query by query: what the session has read and is to write.
Counted(p) ==
    /\ ses[p].pc = "count" /\ ses'[p].pc = "countBatches" /\ UNCHANGED job
    /\ ses'[p].job = IF ses[p].job.status = "EXPIRED" THEN job ELSE ses[p].job
    /\ ses'[p].new \in JobRow
    /\ ses'[p].new.status = ses'[p].job.status
    /\ ses'[p].new.cancelReq = ses'[p].job.cancelReq
    /\ ses'[p].new.fin = ses'[p].job.fin
    /\ ses'[p].new.succ = ItemCount("SUCCEEDED")
    /\ ses'[p].new.fail = ItemCount("FAILED")
    /\ ses'[p].new.canc = ItemCount("CANCELLED")
    /\ ses'[p].new.proc = ItemCount("SUCCEEDED") + ItemCount("FAILED") + ItemCount("CANCELLED")

Judged(p) ==
    /\ ses[p].pc = "countBatches" /\ ses'[p].pc = "save" /\ UNCHANGED job
    /\ ses'[p].job = ses[p].job
    /\ ses'[p].new \in JobRow
    /\ ses'[p].new.fin = FinishedBatches
    /\ ses'[p].new.cancelReq = ses[p].new.cancelReq
    /\ ses'[p].new.succ = ses[p].new.succ /\ ses'[p].new.fail = ses[p].new.fail
    /\ ses'[p].new.canc = ses[p].new.canc /\ ses'[p].new.proc = ses[p].new.proc
    /\ ses'[p].new.status = IF FinishedBatches = NumBatches
                               THEN FinalStatus(ses[p].new) ELSE ses[p].new.status

Saved(p) ==
    /\ ses[p].pc = "save" /\ ses'[p].pc = IF p \in Workers THEN "ack" ELSE "revoke"
    /\ job' = FlushJob(ses[p].job, ses[p].new)
    /\ ses'[p].job = ses[p].job /\ ses'[p].new = ses[p].new

LEMMA RefreshRow ==
  ASSUME NEW P, NEW O, EngineTypes(P, O), NEW p \in Processes, RefreshProgress(p)
  PROVE  Counted(p) \/ Judged(p) \/ Saved(p)
<1>. USE DEF EngineTypes, dbVars
<1>0. ses[p] \in SessionShape(P, O)
  OBVIOUS
<1>1. CASE CountItems(p)
  <2>1. PICK row, a, b, c, d :
          /\ row = (IF ses[p].job.status = "EXPIRED" THEN job ELSE ses[p].job)
          /\ a = ItemCount("SUCCEEDED") /\ b = ItemCount("FAILED") /\ c = ItemCount("CANCELLED")
          /\ d = ItemCount("SUCCEEDED") + ItemCount("FAILED") + ItemCount("CANCELLED")
    OBVIOUS
  <2>n. PICK new, s :
          /\ new = [row EXCEPT !.succ = a, !.fail = b, !.canc = c, !.proc = d]
          /\ s = [ses[p] EXCEPT !.pc = "countBatches", !.job = row, !.new = new]
          /\ Become(p, s)
    BY <1>1, <2>1 DEF CountItems
  <2>2. row \in JobRow /\ a \in Nat /\ b \in Nat /\ c \in Nat /\ d \in Nat
    <3>1. /\ ItemCount("SUCCEEDED") \in Nat
          /\ ItemCount("FAILED") \in Nat
          /\ ItemCount("CANCELLED") \in Nat
      BY ItemCountType
    <3>. QED  BY <1>0, <2>1, <3>1 DEF SessionShape
  <2>3. /\ new \in JobRow /\ new.status = row.status /\ new.cancelReq = row.cancelReq
        /\ new.fin = row.fin /\ new.succ = a /\ new.fail = b /\ new.canc = c /\ new.proc = d
    BY <2>2, <2>n DEF JobRow
  <2>4. s.pc = "countBatches" /\ s.job = row /\ s.new = new /\ ses'[p] = s
    BY <1>0, <2>n DEF SessionShape, Become
  <2>. QED  BY <1>1, <2>1, <2>3, <2>4 DEF CountItems, Counted
<1>2. CASE CountBatches(p)
  <2>1. PICK f, mid, new, s :
          /\ f = FinishedBatches /\ mid = [ses[p].new EXCEPT !.fin = f]
          /\ new = (IF mid.fin = NumBatches THEN [mid EXCEPT !.status = FinalStatus(mid)] ELSE mid)
          /\ s = [ses[p] EXCEPT !.pc = "save", !.new = new] /\ Become(p, s)
    BY <1>2, Zenon DEF CountBatches
  <2>2. ses[p].new \in JobRow /\ f \in Nat
    BY <1>0, <2>1, FinishedBatchesType DEF SessionShape
  <2>3. /\ mid \in JobRow /\ mid.status = ses[p].new.status /\ mid.fin = f
        /\ mid.cancelReq = ses[p].new.cancelReq /\ mid.succ = ses[p].new.succ
        /\ mid.fail = ses[p].new.fail /\ mid.canc = ses[p].new.canc /\ mid.proc = ses[p].new.proc
    BY <2>1, <2>2 DEF JobRow
  <2>4. FinalStatus(mid) = FinalStatus(ses[p].new) /\ FinalStatus(mid) \in JobStatus
    BY <2>3 DEF FinalStatus, JobStatus
  <2>5. /\ new \in JobRow /\ new.fin = f
        /\ new.cancelReq = mid.cancelReq /\ new.succ = mid.succ
        /\ new.fail = mid.fail /\ new.canc = mid.canc /\ new.proc = mid.proc
        /\ new.status = IF f = NumBatches THEN FinalStatus(mid) ELSE mid.status
    BY <2>1, <2>3, <2>4 DEF JobRow
  <2>6. s.pc = "save" /\ s.job = ses[p].job /\ s.new = new /\ ses'[p] = s
    BY <1>0, <2>1 DEF SessionShape, Become
  <2>. QED  BY <1>2, <2>1, <2>3, <2>4, <2>5, <2>6 DEF CountBatches, Judged
<1>3. CASE SaveProgress(p)
  <2>1. PICK l, s : /\ l = (IF p \in Workers THEN "ack" ELSE "revoke")
                    /\ s = [ses[p] EXCEPT !.pc = l] /\ Become(p, s)
    BY <1>3 DEF SaveProgress, Goto
  <2>2. s.pc = l /\ s.job = ses[p].job /\ s.new = ses[p].new /\ ses'[p] = s
    BY <1>0, <2>1 DEF SessionShape, Become
  <2>. QED  BY <1>3, <2>1, <2>2 DEF SaveProgress, Saved
<1>. QED  BY <1>1, <1>2, <1>3 DEF RefreshProgress

\* A flushed column holds the new value or, where the session saw no change, the
\* value of the row.
LEMMA Flushed ==
  ASSUME NEW loaded, NEW new
  PROVE  /\ FlushJob(loaded, new).status = Column(job.status, loaded.status, new.status)
         /\ FlushJob(loaded, new).cancelReq = Column(job.cancelReq, loaded.cancelReq, new.cancelReq)
         /\ FlushJob(loaded, new).succ = Column(job.succ, loaded.succ, new.succ)
         /\ FlushJob(loaded, new).fail = Column(job.fail, loaded.fail, new.fail)
         /\ FlushJob(loaded, new).canc = Column(job.canc, loaded.canc, new.canc)
         /\ FlushJob(loaded, new).proc = Column(job.proc, loaded.proc, new.proc)
         /\ FlushJob(loaded, new).fin = Column(job.fin, loaded.fin, new.fin)
  BY DEF FlushJob

\* Every step of an HTTP request moves its own session and no other,
LEMMA RequestMoves ==
  ASSUME NEW P, NEW O, Places(P, O), EngineTypes(P, O), NEW r \in Requests, RequestNext(r)
  PROVE  /\ ses' \in [Processes -> SessionShape(P, O)]
         /\ ses'[r].pc \in RequestPC \cup RefreshPC
         /\ \/ ses'[r].out = "none"
            \/ ses'[r].out = ses[r].out /\ ses[r].pc \in RequestPC \cup RefreshPC
         /\ \A q \in Processes : q # r => ses'[q] = ses[q]
<1>. DEFINE Moved == /\ ses' \in [Processes -> SessionShape(P, O)]
                     /\ ses'[r].pc \in RequestPC \cup RefreshPC
                     /\ \/ ses'[r].out = "none"
                        \/ ses'[r].out = ses[r].out /\ ses[r].pc \in RequestPC \cup RefreshPC
                     /\ \A q \in Processes : q # r => ses'[q] = ses[q]
<1>0. /\ r \in Processes /\ ses[r] \in SessionShape(P, O) /\ r \notin Workers
      /\ RequestPC \cup RefreshPC \subseteq P /\ "none" \in O
  BY EngineAssumption DEF Processes, EngineAssumption, EngineTypes, Places
<1>1. ASSUME NEW s \in SessionShape(P, O), s.pc \in RequestPC \cup RefreshPC, Become(r, s),
             s.out = "none" \/ (s.out = ses[r].out /\ ses[r].pc \in RequestPC \cup RefreshPC)
      PROVE  Moved
  BY <1>0, <1>1, BecomeType
<1>2. ASSUME NEW l \in RequestPC \cup RefreshPC, Goto(r, l),
             ses[r].pc \in RequestPC \cup RefreshPC
      PROVE  Moved
  <2>1. PICK s : s = [ses[r] EXCEPT !.pc = l]
    OBVIOUS
  <2>2. s \in SessionShape(P, O) /\ s.pc = l /\ s.out = ses[r].out
    BY <1>0, <2>1 DEF SessionShape
  <2>. QED  BY <1>1, <1>2, <2>1, <2>2 DEF Goto
<1>3. ASSUME NEW l \in RequestPC, Become(r, Idle(l))
      PROVE  Moved
  <2>1. Idle(l) \in SessionShape(P, O) /\ Idle(l).pc = l /\ Idle(l).out = "none"
    BY <1>0, IdleType
  <2>. QED  BY <1>1, <1>3, <2>1
<1>. SUFFICES Moved
  OBVIOUS
<1>. HIDE DEF Moved
<1>4. CASE DispatchLoad(r)
  <2>1. PICK l, s :
          /\ l = IF Dispatchable = {} THEN "done" ELSE "mark"
          /\ s = [ses[r] EXCEPT !.todo = Dispatchable, !.pc = l] /\ Become(r, s)
    BY <1>4 DEF DispatchLoad
  <2>2. l \in {"done", "mark"}
    BY <2>1
  <2>3. s \in SessionShape(P, O) /\ s.pc = l /\ s.out = ses[r].out
    BY <1>0, <2>1, <2>2 DEF SessionShape, Dispatchable, RequestPC
  <2>. QED  BY <1>1, <1>4, <2>1, <2>2, <2>3 DEF DispatchLoad, RequestPC
<1>5. CASE MarkQueued(r)
  <2>1. PICK b, m, t, s :
          /\ b \in ses[r].todo
          /\ m = [batch |-> b, task |-> nextTask, tries |-> 0] /\ t = ses[r].todo \ {b}
          /\ s = [ses[r] EXCEPT !.pc = "publish", !.todo = t, !.msg = m] /\ Become(r, s)
    BY <1>5 DEF MarkQueued
  <2>2. m \in Message /\ t \in SUBSET Batches
    BY <1>0, <2>1 DEF SessionShape, Message, EngineTypes
  <2>3. s \in SessionShape(P, O) /\ s.pc = "publish" /\ s.out = ses[r].out
    BY <1>0, <2>1, <2>2 DEF SessionShape, RequestPC
  <2>. QED  BY <1>1, <1>5, <2>1, <2>3 DEF MarkQueued, RequestPC
<1>6. CASE CancelLoad(r)
  <2>1. \/ Become(r, Idle("done"))
        \/ \E s : /\ s = [Idle("cancel") EXCEPT !.job = job, !.batch = batch, !.item = item]
                 /\ Become(r, s)
    BY <1>6 DEF CancelLoad
  <2>2. CASE Become(r, Idle("done"))
    BY <1>3, <2>2 DEF RequestPC
  <2>3. ASSUME NEW s, s = [Idle("cancel") EXCEPT !.job = job, !.batch = batch, !.item = item],
               Become(r, s)
        PROVE  Moved
    <3>1. Idle("cancel") \in SessionShape(P, O)
      BY <1>0, IdleType DEF RequestPC
    <3>2. s \in SessionShape(P, O) /\ s.pc = "cancel" /\ s.out = "none"
      BY <2>3, <3>1 DEF SessionShape, EngineTypes, BatchRow, RequestPC, Idle
    <3>. QED  BY <1>1, <2>3, <3>2 DEF RequestPC
  <2>. QED  BY <2>1, <2>2, <2>3
<1>7. CASE CancelCommit(r)
  <2>1. PICK new, s : /\ new = [ses[r].job EXCEPT !.status = "CANCEL_REQUESTED", !.cancelReq = TRUE]
                      /\ s = [ses[r] EXCEPT !.pc = "count", !.job = new] /\ Become(r, s)
    BY <1>7 DEF CancelCommit
  <2>2. new \in JobRow
    BY <1>0, <2>1 DEF SessionShape, JobRow, JobStatus
  <2>3. s \in SessionShape(P, O) /\ s.pc = "count" /\ s.out = ses[r].out
    BY <1>0, <2>1, <2>2 DEF SessionShape, RefreshPC
  <2>. QED  BY <1>1, <1>7, <2>1, <2>3 DEF CancelCommit, RefreshPC, RequestPC
<1>8. CASE RetryLoad(r)
  <2>1. PICK s : s = [Idle("retry") EXCEPT !.job = job] /\ Become(r, s)
    BY <1>8 DEF RetryLoad
  <2>2. Idle("retry") \in SessionShape(P, O) /\ Idle("retry").pc = "retry" /\ Idle("retry").out = "none"
    BY <1>0, IdleType DEF RequestPC
  <2>3. s \in SessionShape(P, O) /\ s.pc = "retry" /\ s.out = "none"
    BY <2>1, <2>2 DEF SessionShape, EngineTypes
  <2>. QED  BY <1>1, <2>1, <2>3 DEF RequestPC
<1>9. CASE RefreshProgress(r)
  BY <1>0, <1>9, RefreshType DEF EngineTypes, RequestPC, Moved
<1>10. CASE Revoke(r) \/ RequestCrash(r) \/ RetryRequeue(r)
  BY <1>3, <1>10 DEF Revoke, RequestCrash, RetryRequeue, RequestPC
<1>11. CASE ModuleDisabled(r) \/ Publish(r) \/ PublishFails(r) \/ DispatchFailed(r)
  BY <1>2, <1>11 DEF ModuleDisabled, Publish, PublishFails, DispatchFailed, RequestPC
<1>. QED
  BY <1>4, <1>5, <1>6, <1>7, <1>8, <1>9, <1>10, <1>11 DEF RequestNext, RequestProgress

\* keeps the types of the rows, and leaves nothing but cancellations in the items.
LEMMA RequestType ==
  ASSUME NEW P, NEW O, Places(P, O), EngineTypes(P, O), NEW r \in Requests, RequestNext(r)
  PROVE  /\ EngineTypes(P, O)'
         /\ \A i \in Items : item'[i] = item[i] \/ (item'[i] = "CANCELLED" /\ ses[r].pc = "cancel")
         /\ \A b \in Batches :
              batch'[b].status \in {batch[b].status, "QUEUED", "PENDING", "CANCELLED"}
         /\ \A f \in Faults : budget[f] = 0 => budget'[f] = 0
<1>. USE DEF EngineTypes, dbVars, brokerVars
<1>0. r \in Processes /\ ses[r] \in SessionShape(P, O)
  BY DEF Processes
<1>1. job' \in JobRow
  <2>1. CASE ModuleDisabled(r) \/ DispatchFailed(r)
    BY <2>1 DEF ModuleDisabled, DispatchFailed, JobRow, JobStatus
  <2>2. CASE CancelCommit(r)
    <3>1. [ses[r].job EXCEPT !.status = "CANCEL_REQUESTED", !.cancelReq = TRUE] \in JobRow
      BY <1>0 DEF SessionShape, JobRow, JobStatus
    <3>. QED  BY <2>2, <3>1, FlushJobType DEF CancelCommit
  <2>3. CASE RetryRequeue(r)
    <3>1. [ses[r].job EXCEPT !.status = "QUEUED"] \in JobRow
      BY <1>0 DEF SessionShape, JobRow, JobStatus
    <3>. QED  BY <2>3, <3>1, FlushJobType DEF RetryRequeue
  <2>4. CASE RefreshProgress(r)
    BY <1>0, <2>4, RefreshType
  <2>. QED
    BY <2>1, <2>2, <2>3, <2>4
       DEF RequestNext, RequestProgress, DispatchLoad, MarkQueued, Publish, PublishFails,
           CancelLoad, RetryLoad, Revoke, RequestCrash
<1>2. /\ batch' \in [Batches -> BatchRow]
      /\ \A b \in Batches : batch'[b].status \in {batch[b].status, "QUEUED", "PENDING", "CANCELLED"}
  <2>1. CASE MarkQueued(r)
    <3>1. PICK b \in Batches : batch' = [batch EXCEPT ![b] = [status |-> "QUEUED", task |-> nextTask]]
      BY <1>0, <2>1 DEF MarkQueued, SessionShape
    <3>. QED  BY <3>1 DEF BatchRow, BatchStatus
  <2>2. CASE PublishFails(r)
    <3>1. PICK b : batch' = [batch EXCEPT ![b] = [status |-> "PENDING", task |-> NoTask]]
      BY <2>2 DEF PublishFails
    <3>. QED  BY <3>1 DEF BatchRow, BatchStatus, NoTask
  <2>3. CASE CancelCommit(r)
    <3>1. PICK hit : batch' = [b \in Batches |->
             IF b \in hit THEN [batch[b] EXCEPT !.status = "CANCELLED"] ELSE batch[b]]
      BY <2>3 DEF CancelCommit
    <3>. QED  BY <3>1 DEF BatchRow, BatchStatus
  <2>4. CASE UNCHANGED batch
    BY <2>4
  <2>. QED
    BY <1>0, <2>1, <2>2, <2>3, <2>4, RefreshType
       DEF RequestNext, RequestProgress, DispatchLoad, ModuleDisabled, Publish, DispatchFailed,
           CancelLoad, RetryLoad, RetryRequeue, Revoke, RequestCrash
<1>3. /\ item' \in [Items -> ItemStatus]
      /\ \A i \in Items : item'[i] = item[i] \/ (item'[i] = "CANCELLED" /\ ses[r].pc = "cancel")
  <2>1. CASE CancelCommit(r)
    BY <2>1 DEF CancelCommit, SetItems, ItemStatus
  <2>2. CASE RefreshProgress(r)
    BY <1>0, <2>2, RefreshType
  <2>3. CASE UNCHANGED item
    BY <2>3
  <2>. QED
    BY <2>1, <2>2, <2>3
       DEF RequestNext, RequestProgress, DispatchLoad, ModuleDisabled, MarkQueued, Publish,
           PublishFails, DispatchFailed, CancelLoad, RetryLoad, RetryRequeue, Revoke, RequestCrash
<1>4. queue' \subseteq Message
  <2>1. queue' \subseteq queue \cup {ses[r].msg}
    BY <1>0, RefreshType
       DEF RequestNext, RequestProgress, DispatchLoad, ModuleDisabled, MarkQueued, Publish,
           PublishFails, DispatchFailed, CancelLoad, CancelCommit, RetryLoad, RetryRequeue, Revoke,
           RequestCrash
  <2>. QED  BY <1>0, <2>1 DEF SessionShape
<1>5. revoked' \subseteq Nat /\ nextTask' \in Nat
  <2>1. CASE Revoke(r)
    <3>1. {ses[r].batch[b].task : b \in Batches} \ {NoTask} \subseteq Nat
      BY <1>0 DEF SessionShape
    <3>. QED  BY <2>1, <3>1 DEF Revoke
  <2>2. CASE RefreshProgress(r)
    BY <1>0, <2>2, RefreshType
  <2>3. CASE revoked' = revoked /\ nextTask' \in {nextTask, nextTask + 1}
    BY <2>3
  <2>. QED
    BY <2>1, <2>2, <2>3
       DEF RequestNext, RequestProgress, DispatchLoad, ModuleDisabled, MarkQueued, Publish,
           PublishFails, DispatchFailed, CancelLoad, CancelCommit, RetryLoad, RetryRequeue,
           RequestCrash
<1>6. budget' \in [Faults -> Nat] /\ \A f \in Faults : budget[f] = 0 => budget'[f] = 0
  <2>1. ASSUME NEW f, Spend(f)
        PROVE  budget' \in [Faults -> Nat] /\ \A g \in Faults : budget[g] = 0 => budget'[g] = 0
    BY <2>1, SpendType
  <2>2. CASE RefreshProgress(r)
    BY <1>0, <2>2, RefreshType
  <2>3. CASE UNCHANGED budget
    BY <2>3
  <2>. QED
    BY <2>1, <2>2, <2>3
       DEF RequestNext, RequestProgress, DispatchLoad, ModuleDisabled, MarkQueued, Publish,
           PublishFails, DispatchFailed, CancelLoad, CancelCommit, RetryLoad, RetryRequeue, Revoke,
           RequestCrash
<1>. QED  BY <1>1, <1>2, <1>3, <1>4, <1>5, <1>6, RequestMoves

-----------------------------------------------------------------------------
(***************************************************************************)
(* Who answers for a batch.  From its dispatch to its acknowledgement a      *)
(* batch is in the charge of one request, of one message or of one worker.   *)
(* A delivery that waits for its acknowledgement counts as long as its       *)
(* worker may die, because RabbitMQ would deliver the message again.         *)
(***************************************************************************)
WorkPC == {"loaded", "claim", "claimed", "loop", "start", "call", "record", "connLost",
           "retrying", "republish", "failing", "failBatch", "cancelPending", "authFailed"}

MayCrash == budget["crash"] # 0

Charge(s, mayCrash) ==
    IF s.pc = "dispatch" THEN Batches
    ELSE IF s.pc = "mark" THEN s.todo
    ELSE IF s.pc = "publish" THEN s.todo \cup {s.msg.batch}
    ELSE IF s.pc \in WorkPC \cup RefreshPC \cup {"cancel"} \/ (s.pc = "ack" /\ mayCrash)
         THEN {s.msg.batch} \cap Batches
    ELSE {}

\* No request tries again, and whoever handles a batch handles one that exists.
Orderly(p, s) ==
    /\ s.pc # "retry"
    /\ s.pc = "cancel" => p \in Cancellers
    /\ s.pc = "publish" => s.msg.batch \in Batches \ s.todo
    /\ p \in Workers => s.pc \in WorkPC \cup RefreshPC \cup {"idle", "ack"}
    /\ p \in Workers /\ s.pc # "idle" => s.msg.batch \in Batches

OneInCharge ==
    /\ \A p \in Processes : Orderly(p, ses[p])
    /\ \A p, q \in Processes :
          p # q => Charge(ses[p], MayCrash) \cap Charge(ses[q], MayCrash) = {}
    /\ \A m \in queue : m.batch \in Batches
    /\ \A m \in queue, p \in Processes : m.batch \notin Charge(ses[p], MayCrash)
    /\ \A m, n \in queue : m.batch = n.batch => m = n

\* Only the process p moves, and nobody is more in charge than before.
Calmly(p) ==
    /\ \A q \in Processes : q # p => ses'[q] = ses[q]
    /\ budget["crash"] = 0 => budget'["crash"] = 0
    /\ Orderly(p, ses'[p])

LEMMA ChargeLess ==
  ASSUME budget["crash"] = 0 => budget'["crash"] = 0, NEW s
  PROVE  Charge(s, MayCrash') \subseteq Charge(s, MayCrash)
  BY DEF Charge, MayCrash

\* A process lets go of batches, or passes one to the queue.
LEMMA LetGo ==
  ASSUME OneInCharge, NEW p \in Processes, Calmly(p), queue' \subseteq queue,
         Charge(ses'[p], MayCrash') \subseteq Charge(ses[p], MayCrash)
  PROVE  OneInCharge'
<1>1. \A q \in Processes : Charge(ses'[q], MayCrash') \subseteq Charge(ses[q], MayCrash)
  BY ChargeLess DEF Calmly
<1>2. \A q \in Processes : Orderly(q, ses'[q])
  BY DEF Calmly, OneInCharge
<1>3. /\ \A q, r \in Processes :
            q # r => Charge(ses'[q], MayCrash') \cap Charge(ses'[r], MayCrash') = {}
      /\ \A m \in queue', q \in Processes : m.batch \notin Charge(ses'[q], MayCrash')
  BY <1>1 DEF OneInCharge
<1>. QED  BY <1>2, <1>3 DEF OneInCharge

LEMMA PassOn ==
  ASSUME OneInCharge, NEW p \in Processes, Calmly(p), NEW m, queue' = queue \cup {m},
         m.batch \in Charge(ses[p], MayCrash) \cap Batches,
         Charge(ses'[p], MayCrash') \subseteq Charge(ses[p], MayCrash) \ {m.batch}
  PROVE  OneInCharge'
<1>1. \A q \in Processes : Charge(ses'[q], MayCrash') \subseteq Charge(ses[q], MayCrash)
  BY ChargeLess DEF Calmly
<1>2. \A q \in Processes : m.batch \notin Charge(ses'[q], MayCrash')
  BY <1>1 DEF OneInCharge
<1>3. \A q \in Processes : Orderly(q, ses'[q])
  BY DEF Calmly, OneInCharge
<1>4. /\ \A q, r \in Processes :
            q # r => Charge(ses'[q], MayCrash') \cap Charge(ses'[r], MayCrash') = {}
      /\ \A n \in queue', q \in Processes : n.batch \notin Charge(ses'[q], MayCrash')
  BY <1>1, <1>2 DEF OneInCharge
<1>5. /\ \A n \in queue' : n.batch \in Batches
      /\ \A n, o \in queue' : n.batch = o.batch => n = o
  BY DEF OneInCharge
<1>. QED  BY <1>3, <1>4, <1>5 DEF OneInCharge

\* A worker takes a batch from the queue.
LEMMA TakeUp ==
  ASSUME OneInCharge, NEW p \in Processes, Calmly(p), NEW m \in queue, queue' = queue \ {m},
         Charge(ses'[p], MayCrash') \subseteq {m.batch}
  PROVE  OneInCharge'
<1>1. \A q \in Processes \ {p} : Charge(ses'[q], MayCrash') \subseteq Charge(ses[q], MayCrash)
  BY ChargeLess DEF Calmly
<1>2. \A q \in Processes \ {p} : Charge(ses'[q], MayCrash') \cap Charge(ses'[p], MayCrash') = {}
  BY <1>1 DEF OneInCharge
<1>3. \A q \in Processes : Orderly(q, ses'[q])
  BY DEF Calmly, OneInCharge
<1>4. /\ \A q, r \in Processes :
            q # r => Charge(ses'[q], MayCrash') \cap Charge(ses'[r], MayCrash') = {}
      /\ \A n \in queue', q \in Processes : n.batch \notin Charge(ses'[q], MayCrash')
  BY <1>1, <1>2 DEF OneInCharge
<1>. QED  BY <1>3, <1>4 DEF OneInCharge

LEMMA RequestCharge ==
  ASSUME NEW P, NEW O, Places(P, O), EngineTypes(P, O), OneInCharge, Retriers = {},
         NEW r \in Requests, RequestNext(r)
  PROVE  OneInCharge'
<1>0. /\ r \in Processes /\ r \notin Workers /\ ses[r] \in SessionShape(P, O)
      /\ \A q \in Processes : q # r => ses'[q] = ses[q]
      /\ budget["crash"] = 0 => budget'["crash"] = 0
      /\ ses'[r].pc \in RequestPC \cup RefreshPC
  BY EngineAssumption, RequestMoves, RequestType
     DEF Processes, EngineAssumption, EngineTypes, Faults
<1>1. ASSUME NEW s, ses'[r] = s, Orderly(r, s), queue' \subseteq queue,
             Charge(s, TRUE) \subseteq Charge(ses[r], MayCrash)
      PROVE  OneInCharge'
  <2>1. Charge(s, MayCrash') \subseteq Charge(s, TRUE)
    BY DEF Charge
  <2>. QED  BY <1>0, <1>1, <2>1, LetGo DEF Calmly
<1>2. ASSUME NEW s, ses'[r] = s, s.pc \in {"done", "revoke", "dispatchFailed"}, queue' \subseteq queue
      PROVE  OneInCharge'
  BY <1>0, <1>1, <1>2 DEF Orderly, Charge, WorkPC, RefreshPC
<1>3. CASE DispatchLoad(r)
  <2>1. PICK l, s :
          /\ l = IF Dispatchable = {} THEN "done" ELSE "mark"
          /\ s = [ses[r] EXCEPT !.todo = Dispatchable, !.pc = l] /\ Become(r, s)
    BY <1>3 DEF DispatchLoad
  <2>2. l \in {"done", "mark"}
    BY <2>1
  <2>3. s.pc = l /\ s.todo = Dispatchable /\ ses'[r] = s /\ Dispatchable \subseteq Batches
    BY <1>0, <2>1 DEF SessionShape, Become, EngineTypes, Dispatchable
  <2>4. Charge(s, TRUE) \subseteq Charge(ses[r], MayCrash) /\ Orderly(r, s)
    BY <1>0, <1>3, <2>2, <2>3 DEF Charge, DispatchLoad, WorkPC, RefreshPC, Orderly
  <2>. QED  BY <1>1, <1>3, <2>3, <2>4 DEF DispatchLoad, brokerVars
<1>4. CASE MarkQueued(r)
  <2>1. PICK b, m, t, s :
          /\ b \in ses[r].todo
          /\ m = [batch |-> b, task |-> nextTask, tries |-> 0] /\ t = ses[r].todo \ {b}
          /\ s = [ses[r] EXCEPT !.pc = "publish", !.todo = t, !.msg = m] /\ Become(r, s)
    BY <1>4 DEF MarkQueued
  <2>2. s.pc = "publish" /\ s.todo = t /\ s.msg = m
    BY <1>0, <2>1 DEF SessionShape
  <2>3. ses'[r] = s /\ b \in Batches /\ m.batch = b
    BY <1>0, <2>1 DEF Become, EngineTypes, SessionShape
  <2>4. Charge(s, TRUE) \subseteq Charge(ses[r], MayCrash) /\ Orderly(r, s)
    BY <1>0, <1>4, <2>1, <2>2, <2>3 DEF Charge, MarkQueued, Orderly
  <2>. QED  BY <1>1, <1>4, <2>3, <2>4 DEF MarkQueued
<1>5. CASE Publish(r)
  <2>1. PICK l \in {"done", "mark"} : Goto(r, l)
    BY <1>5 DEF Publish
  <2>2. PICK s : s = [ses[r] EXCEPT !.pc = l]
    OBVIOUS
  <2>3. s.pc = l /\ s.todo = ses[r].todo /\ ses'[r] = s
    BY <1>0, <2>1, <2>2 DEF SessionShape, Goto, Become, EngineTypes
  <2>4. /\ ses[r].pc = "publish" /\ queue' = queue \cup {ses[r].msg}
        /\ ses[r].msg.batch \in Batches \ ses[r].todo
    BY <1>0, <1>5 DEF Publish, OneInCharge, Orderly
  <2>5. Calmly(r)
    BY <1>0, <2>3 DEF Calmly, Orderly
  <2>6. /\ ses[r].msg.batch \in Charge(ses[r], MayCrash)
        /\ Charge(s, MayCrash') \subseteq Charge(ses[r], MayCrash) \ {ses[r].msg.batch}
    BY <2>3, <2>4 DEF Charge, WorkPC, RefreshPC
  <2>. QED  BY <1>0, <2>3, <2>4, <2>5, <2>6, PassOn
<1>6. CASE CancelLoad(r)
  <2>1. PICK s : /\ \/ s = Idle("done")
                    \/ s = [Idle("cancel") EXCEPT !.job = job, !.batch = batch, !.item = item]
                 /\ Become(r, s)
    BY <1>6 DEF CancelLoad
  <2>2. s.pc \in {"done", "cancel"} /\ s.msg = NoMsg
    <3>1. CASE s = Idle("done")
      BY <3>1 DEF Idle
    <3>2. CASE s = [Idle("cancel") EXCEPT !.job = job, !.batch = batch, !.item = item]
      BY <3>2 DEF Idle
    <3>. QED  BY <2>1, <3>1, <3>2
  <2>4. ses'[r] = s
    BY <1>0, <2>1 DEF Become, EngineTypes
  <2>3. Charge(s, TRUE) = {} /\ Orderly(r, s)
    BY <1>0, <1>6, <2>2 DEF Charge, Orderly, NoMsg, Batches, CancelLoad, WorkPC, RefreshPC
  <2>. QED  BY <1>1, <1>6, <2>3, <2>4 DEF CancelLoad, brokerVars
<1>7. CASE CancelCommit(r)
  <2>1. PICK row, s : s = [ses[r] EXCEPT !.pc = "count", !.job = row] /\ Become(r, s)
    BY <1>7 DEF CancelCommit
  <2>2. s.pc = "count" /\ s.msg = ses[r].msg /\ ses'[r] = s
    BY <1>0, <2>1 DEF SessionShape, Become, EngineTypes
  <2>3. Charge(s, TRUE) \subseteq Charge(ses[r], MayCrash) /\ Orderly(r, s)
    BY <1>0, <1>7, <2>2 DEF Charge, CancelCommit, Orderly, WorkPC, RefreshPC
  <2>. QED  BY <1>1, <1>7, <2>2, <2>3 DEF CancelCommit, brokerVars
<1>8. CASE RefreshProgress(r)
  <2>1. /\ ses[r].pc \in RefreshPC /\ ses'[r].pc \in RefreshPC \cup {"revoke"}
        /\ ses'[r].msg = ses[r].msg /\ UNCHANGED queue
    BY <1>0, <1>8, RefreshType DEF brokerVars
  <2>2. Charge(ses'[r], TRUE) \subseteq Charge(ses[r], MayCrash) /\ Orderly(r, ses'[r])
    BY <1>0, <2>1 DEF Charge, Orderly, WorkPC, RefreshPC
  <2>. QED  BY <1>1, <2>1, <2>2
<1>9. CASE Revoke(r) \/ RequestCrash(r)
  <2>1. Become(r, Idle("done")) /\ UNCHANGED queue
    BY <1>9 DEF Revoke, RequestCrash, brokerVars
  <2>2. ses'[r] = Idle("done") /\ Idle("done").pc = "done"
    BY <1>0, <2>1 DEF Become, EngineTypes, Idle
  <2>. QED  BY <1>2, <2>1, <2>2
<1>10. CASE ModuleDisabled(r) \/ PublishFails(r) \/ DispatchFailed(r)
  <2>1. PICK l \in {"done", "dispatchFailed"} : Goto(r, l) /\ UNCHANGED queue
    BY <1>10 DEF ModuleDisabled, PublishFails, DispatchFailed, brokerVars
  <2>2. ses'[r].pc = l
    BY <1>0, <2>1 DEF Goto, Become, EngineTypes, SessionShape
  <2>. QED  BY <1>2, <2>1, <2>2
<1>11. CASE RetryLoad(r) \/ RetryRequeue(r)
  BY <1>0, <1>11 DEF RetryLoad, RetryRequeue, OneInCharge, Orderly
<1>. QED
  BY <1>3, <1>4, <1>5, <1>6, <1>7, <1>8, <1>9, <1>10, <1>11 DEF RequestNext, RequestProgress

\* The steps of a worker: it works on the batch of its delivery,
LEMMA WorkOn ==
  ASSUME OneInCharge, NEW w \in Workers, \A q \in Processes : q # w => ses'[q] = ses[q],
         budget["crash"] = 0 => budget'["crash"] = 0, UNCHANGED queue,
         ses[w].pc \in WorkPC \cup RefreshPC,
         ses'[w].pc \in WorkPC \cup RefreshPC \cup {"ack"}, ses'[w].msg = ses[w].msg
  PROVE  OneInCharge'
<1>0. w \in Processes /\ w \notin Requests
  BY EngineAssumption DEF Processes, EngineAssumption
<1>1. PICK s : s = ses'[w]
  OBVIOUS
<1>2. Orderly(w, s)
  BY <1>0, <1>1 DEF OneInCharge, Orderly, WorkPC, RefreshPC
<1>3. Charge(s, MayCrash') \subseteq Charge(ses[w], MayCrash)
  BY <1>1 DEF Charge, WorkPC, RefreshPC
<1>. QED  BY <1>0, <1>1, <1>2, <1>3, LetGo DEF Calmly

\* ends the delivery, whose message is nobody's any more,
LEMMA LayDown ==
  ASSUME OneInCharge, NEW w \in Workers, \A q \in Processes : q # w => ses'[q] = ses[q],
         budget["crash"] = 0 => budget'["crash"] = 0, UNCHANGED queue, ses'[w].pc = "idle"
  PROVE  OneInCharge'
<1>1. PICK s : s = ses'[w]
  OBVIOUS
<1>2. Orderly(w, s) /\ Charge(s, MayCrash') = {}
  BY <1>1 DEF Orderly, Charge, WorkPC, RefreshPC
<1>. QED  BY <1>1, <1>2, LetGo DEF Calmly, Processes

\* takes a message from the queue,
LEMMA Pick ==
  ASSUME OneInCharge, NEW w \in Workers, \A q \in Processes : q # w => ses'[q] = ses[q],
         budget["crash"] = 0 => budget'["crash"] = 0,
         NEW m \in queue, queue' = queue \ {m}, ses'[w].pc \in WorkPC, ses'[w].msg = m
  PROVE  OneInCharge'
<1>1. PICK s : s = ses'[w]
  OBVIOUS
<1>2. Orderly(w, s)
  BY <1>1 DEF OneInCharge, Orderly, WorkPC
<1>3. Charge(s, MayCrash') \subseteq {m.batch}
  BY <1>1 DEF Charge, WorkPC
<1>. QED  BY <1>1, <1>2, <1>3, TakeUp DEF Calmly, Processes

\* or drops it as a stale delivery, or as a revoked one,
LEMMA Drop ==
  ASSUME OneInCharge, NEW w \in Workers, queue' \subseteq queue, UNCHANGED <<ses, budget>>
  PROVE  OneInCharge'
<1>1. Orderly(w, ses'[w]) /\ Charge(ses'[w], MayCrash') \subseteq Charge(ses[w], MayCrash)
  BY DEF OneInCharge, MayCrash, Processes
<1>. QED  BY <1>1, LetGo DEF Calmly, Processes

\* publishes it again, where no crash can bring the first delivery back,
LEMMA PublishAgain ==
  ASSUME OneInCharge, NEW w \in Workers, \A q \in Processes : q # w => ses'[q] = ses[q],
         budget["crash"] = 0, budget'["crash"] = 0, ses[w].pc \in WorkPC,
         ses'[w].pc = "ack", ses'[w].msg = ses[w].msg,
         NEW m, m.batch = ses[w].msg.batch, queue' = queue \cup {m}
  PROVE  OneInCharge'
<1>1. PICK s : s = ses'[w]
  OBVIOUS
<1>2. Orderly(w, s) /\ w \in Processes /\ m.batch \in Batches
  BY <1>1 DEF OneInCharge, Orderly, WorkPC, Processes
<1>3. Charge(s, MayCrash') = {} /\ m.batch \in Charge(ses[w], MayCrash)
  BY <1>1, <1>2 DEF Charge, MayCrash, WorkPC, RefreshPC
<1>. QED  BY <1>1, <1>2, <1>3, PassOn DEF Calmly

\* or dies, and RabbitMQ delivers the message again.
LEMMA Redeliver ==
  ASSUME OneInCharge, NEW w \in Workers, \A q \in Processes : q # w => ses'[q] = ses[q],
         budget["crash"] # 0, ses[w].pc # "idle", ses'[w].pc = "idle",
         queue' = queue \cup {ses[w].msg}
  PROVE  OneInCharge'
<1>1. PICK s : s = ses'[w]
  OBVIOUS
<1>2. Orderly(w, s) /\ w \in Processes
  BY <1>1 DEF Orderly, WorkPC, Processes
<1>3. /\ ses[w].pc \in WorkPC \cup RefreshPC \cup {"ack"}
      /\ ses[w].msg.batch \in Batches
  BY <1>2 DEF OneInCharge, Orderly
<1>4. Charge(s, MayCrash') = {} /\ ses[w].msg.batch \in Charge(ses[w], MayCrash)
  BY <1>1, <1>3 DEF Charge, MayCrash, WorkPC, RefreshPC
<1>. QED  BY <1>1, <1>2, <1>3, <1>4, PassOn DEF Calmly

\* Two workers at work are at work on different batches.
LEMMA Apart ==
  ASSUME OneInCharge, NEW v \in Workers, NEW w \in Workers, v # w,
         ses[v].pc \in WorkPC, ses[w].pc \in WorkPC \cup RefreshPC
  PROVE  ses[v].msg.batch # ses[w].msg.batch
<1>1. /\ v \in Processes /\ w \in Processes
      /\ ses[v].msg.batch \in Batches /\ ses[w].msg.batch \in Batches
  BY DEF OneInCharge, Orderly, Processes, WorkPC, RefreshPC
<1>2. /\ Charge(ses[v], MayCrash) = {ses[v].msg.batch}
      /\ Charge(ses[w], MayCrash) = {ses[w].msg.batch}
  BY <1>1 DEF Charge, WorkPC, RefreshPC
<1>. QED  BY <1>1, <1>2 DEF OneInCharge

LEMMA InitCharge == ASSUME EngineInit PROVE OneInCharge
<1>1. /\ \A p \in Processes : ses[p] = Idle(IF p = Creator THEN "dispatch" ELSE "idle")
      /\ queue = {} /\ Creator \in Requests /\ Creator \notin Workers
  BY EngineAssumption DEF EngineInit, EngineAssumption, Requests
<1>2. \A l : Idle(l).pc = l
  BY DEF Idle
<1>3. \A p \in Processes : ses[p].pc = IF p = Creator THEN "dispatch" ELSE "idle"
  BY <1>1, <1>2
<1>. QED  BY <1>1, <1>3 DEF OneInCharge, Orderly, Charge, WorkPC, RefreshPC
=============================================================================
