--------------------------------- MODULE Ledger --------------------------------
(***************************************************************************)
(* The general ledger: entries copied from SAP by posting date (sync) or by   *)
(* date of change (delta, one item of a job per day), each classified by the  *)
(* first active rule that matches it, and the rules, whose edits reclassify   *)
(* the entries they may touch.                                               *)
(*                                                                         *)
(* Every process reads (SAP, entries, rules), and commits later, an upsert in *)
(* batches of which each is a commit.  Nothing is locked.  The delta has no   *)
(* mark of its own: it starts at the latest date of change among the entries  *)
(* it holds.                                                                *)
(***************************************************************************)
EXTENDS Naturals, FiniteSets

CONSTANTS
    Entries,    \* transaction and line
    Kinds,      \* what a rule can tell apart in an entry
    Posted,     \* Posted[e]: the posting day of e
    Rules,      \* identifiers of rules, naturals
    Shapes,     \* the contents a rule may be given, a subset of Rule
    Procs,      \* API requests and workers
    LastDay,
    Bound       \* bound on the operations begun, changes in SAP and faults included

VARIABLES
    sap,        \* sap[e]: the entry in SAP, or Missing
    ledger,     \* ledger[e]: its row here, or Missing
    rule,       \* rule[i]: the rule i, or Missing
    today,
    proc,       \* proc[p]: what p is doing
    steps,      \* operations begun
    mixed,      \* has a process committed beside another, or died half-way?
    raced,      \* has a copy written, or ended an item, beside another copy, ever?
    holes       \* days the mark has passed without their item having succeeded

ledgerVars == <<sap, ledger, rule, today, proc, steps, mixed, raced, holes>>
-----------------------------------------------------------------------------
Missing == [none |-> TRUE]
Days == 1..LastDay
Prios == 1..2

\* match abstracts the conditions that must hold, except the excluded text.
Rule == [prio : Prios, match : SUBSET Kinds, except : SUBSET Kinds, active : BOOLEAN]
LedgerAssumption ==
    /\ Rules \subseteq Nat \ {0} /\ Shapes \subseteq Rule
    /\ LastDay \in Nat \ {0} /\ Posted \in [Entries -> Nat]

InLedger == {e \in Entries : ledger[e] # Missing}

\* _build_mask: whether rule r applies to an entry of kind k.
Applies(r, k) == k \in r.match /\ k \notin r.except

\* get_reglas_activas, get_all_active: the active rules, by priority and then by id.
Active(rules) == {i \in Rules : rules[i] # Missing /\ rules[i].active}
Before(rules, i, j) ==
    rules[i].prio < rules[j].prio \/ (rules[i].prio = rules[j].prio /\ i < j)

\* aplicar, reprocesar: the first rule that applies claims the entry; 0 is SIN_CLASIFICAR.
Classify(rules, k) ==
    LET fit == {i \in Active(rules) : Applies(rules[i], k)}
    IN IF fit = {} THEN 0
       ELSE CHOOSE i \in fit : \A j \in fit \ {i} : Before(rules, i, j)

\* get_last_libro_mayor, _resolve_delta_start.
X_Mark == IF InLedger = {} THEN 1
          ELSE 1 + CHOOSE d \in Days : /\ \E e \in InLedger : ledger[e].day = d
                                       /\ \A e \in InLedger : ledger[e].day <= d
Mark == IF InLedger = {} THEN 1
        ELSE CHOOSE d \in Days : /\ \E e \in InLedger : ledger[e].day = d
                                 /\ \A e \in InLedger : ledger[e].day <= d

\* get_candidates_by_rule: the entries the rule had claimed, and those its
\* conditions select, the excluded text left aside.
X_Candidates(i) == {e \in InLedger : ledger[e].rule = i}
Candidates(i) == {e \in InLedger : ledger[e].rule = i \/ ledger[e].kind \in rule[i].match}
ClaimedBy(i) == {e \in InLedger : ledger[e].rule = i}
-----------------------------------------------------------------------------
(* Processes.  job names the operation, days the items of a delta job still   *)
(* to run, from the day of the item under way; rows what was loaded, rules    *)
(* the rules read, touched the entries changed in SAP since the process began. *)
Idle == [pc |-> "idle"]
Copies == {"sync", "delta", "delta_now"}
Busy == {p \in Procs : proc[p] # Idle}

\* A process begins: those under way are no longer alone.
Begin(p, s) ==
    /\ steps < Bound
    /\ proc[p] = Idle
    /\ steps' = steps + 1
    /\ proc' = [q \in Procs |->
                   IF q = p
                   THEN [pc |-> s.pc, job |-> s.job, days |-> s.days, from |-> s.from,
                         target |-> s.target, rows |-> s.rows, rules |-> rule,
                         touched |-> {}, alone |-> Busy = {}]
                   ELSE IF proc[q] = Idle THEN Idle ELSE [proc[q] EXCEPT !.alone = FALSE]]

Goto(p, s) == proc' = [proc EXCEPT ![p] = s]
Commits(p) == mixed' = (mixed \/ Busy \ {p} # {})

\* A fault takes one of the steps.
Fault == steps < Bound /\ steps' = steps + 1
-----------------------------------------------------------------------------
(* Copying from SAP.                                                         *)

\* sync: entries posted from day a to day b, in one run.
StartSync(p, a, b) ==
    /\ a <= b
    /\ Begin(p, [pc |-> "fetch", job |-> "sync", days |-> {}, from |-> a, target |-> b,
                 rows |-> {}])
    /\ UNCHANGED <<sap, ledger, rule, today, mixed, raced, holes>>

\* enqueue_sync_delta, enqueue_sync_delta_all: an item per day, from the mark to today.
StartDeltaJob(p) ==
    /\ Mark <= today
    /\ Begin(p, [pc |-> "fetch", job |-> "delta", days |-> Mark..today, from |-> Mark,
                 target |-> today, rows |-> {}])
    /\ UNCHANGED <<sap, ledger, rule, today, mixed, raced, holes>>

\* sync_delta at once: everything changed since the mark, or, the ledger being
\* empty, what was posted up to today.
StartDeltaNow(p) ==
    /\ Begin(p, [pc |-> "fetch", job |-> IF InLedger = {} THEN "sync" ELSE "delta_now",
                 days |-> {}, from |-> Mark, target |-> today, rows |-> {}])
    /\ UNCHANGED <<sap, ledger, rule, today, mixed, raced, holes>>

Item(s) == CHOOSE d \in s.days : \A c \in s.days : d <= c

\* get_libro_mayor_by_account, get_libro_mayor_delta.
Selected(s) ==
    {e \in Entries : /\ sap[e] # Missing
                     /\ CASE s.job = "sync"  -> Posted[e] \in s.from..s.target
                          [] s.job = "delta" -> sap[e].day = Item(s)
                          [] OTHER           -> sap[e].day >= s.from}

Fetch(p) ==
    /\ proc[p] # Idle /\ proc[p].pc = "fetch"
    /\ Goto(p, [proc[p] EXCEPT !.pc = "read_rules",
                               !.rows = {[e |-> e, is |-> sap[e]] : e \in Selected(proc[p])}])
    /\ UNCHANGED <<sap, ledger, rule, today, steps, mixed, raced, holes>>

ReadRules(p) ==
    /\ proc[p] # Idle /\ proc[p].pc = "read_rules"
    /\ Goto(p, [proc[p] EXCEPT !.rules = rule,
                   !.pc = IF proc[p].job \in Copies THEN "upsert"
                          ELSE "classify"])
    /\ UNCHANGED <<sap, ledger, rule, today, steps, mixed, raced, holes>>

\* upsert: one batch, an entry of it here, written over whatever the row holds.
Upsert(p) ==
    LET s == proc[p] IN
    /\ s # Idle /\ s.pc = "upsert"
    /\ \E x \in s.rows :
          /\ ledger' = [ledger EXCEPT ![x.e] = [kind |-> x.is.kind, day |-> x.is.day,
                                                rule |-> Classify(s.rules, x.is.kind)]]
          /\ Goto(p, [s EXCEPT !.rows = @ \ {x}])
    /\ Commits(p)
    /\ raced' = (raced \/ \E q \in Busy \ {p} : proc[q].job \in Copies)
    /\ holes' = IF s.job = "sync" THEN holes \cup {d \in Days : Mark <= d /\ d < Mark'} ELSE holes
    /\ UNCHANGED <<sap, rule, today, steps>>

\* The item, or the run, is over; the worker takes the next day.
EndItem(p) ==
    LET s == proc[p] IN
    /\ s # Idle /\ s.pc = "upsert" /\ s.rows = {}
    /\ Goto(p, IF s.job = "delta" /\ s.days # {Item(s)}
               THEN [s EXCEPT !.pc = "fetch", !.days = @ \ {Item(s)}] ELSE Idle)
    /\ holes' = CASE s.job = "delta" -> holes \ {Item(s)}
                  [] s.job = "delta_now" -> holes \ {d \in Days : d >= s.from}
                  [] OTHER -> holes
    /\ raced' = (raced \/ \E q \in Busy \ {p} : proc[q].job \in Copies)
    /\ UNCHANGED <<sap, ledger, rule, today, steps, mixed>>

\* SAP or the database fails: _process_item records it and goes on with the next day.
FailItem(p) ==
    LET s == proc[p] IN
    /\ s # Idle /\ s.pc \in {"fetch", "read_rules", "upsert"}
    /\ s.job \in Copies
    /\ Fault
    /\ Goto(p, IF s.job = "delta" /\ s.days # {Item(s)}
               THEN [s EXCEPT !.pc = "fetch", !.rows = {}, !.days = @ \ {Item(s)}] ELSE Idle)
    /\ holes' = CASE s.job = "delta" -> holes \cup {Item(s)}
                  [] s.job = "delta_now" -> holes \cup {d \in Days : d >= s.from}
                  [] OTHER -> holes
    /\ UNCHANGED <<sap, ledger, rule, today, mixed, raced>>
-----------------------------------------------------------------------------
(* Rules and reclassification.                                               *)

Reload(i) == {[e |-> e, is |-> ledger[e]] : e \in i}

\* reprocess_rule, reprocess_account, reprocess_all, reprocess_date_range: the
\* entries are loaded, then the rules.
StartReprocess(p, job, chosen) ==
    /\ Begin(p, [pc |-> "read_rules", job |-> job, days |-> {}, from |-> 1, target |-> 0,
                 rows |-> Reload(chosen)])
    /\ UNCHANGED <<sap, ledger, rule, today, mixed, raced, holes>>

Reprocess(p) ==
    \/ StartReprocess(p, "reprocess_all", InLedger)
    \/ \E i \in Rules : rule[i] # Missing /\ StartReprocess(p, "reprocess", Candidates(i))
    \/ \E a \in Days : \E b \in a..LastDay :
          StartReprocess(p, "reprocess", {e \in InLedger : Posted[e] \in a..b})

\* create and update: the rule is committed, the entries are reclassified after.
SaveRule(p, i, new) ==
    /\ rule[i] = Missing => new.active
    /\ Begin(p, [pc |-> "load", job |-> "save", days |-> {}, from |-> 1, target |-> i,
                 rows |-> {}])
    /\ rule' = [rule EXCEPT ![i] = new]
    /\ Commits(p)
    /\ UNCHANGED <<sap, ledger, today, raced, holes>>

LoadCandidates(p) ==
    LET s == proc[p] IN
    /\ s # Idle /\ s.pc = "load"
    /\ Goto(p, IF rule[s.target] = Missing THEN Idle
               ELSE [s EXCEPT !.pc = "read_rules", !.rows = Reload(Candidates(s.target))])
    /\ UNCHANGED <<sap, ledger, rule, today, steps, mixed, raced, holes>>

\* delete: the entries the rule claims are loaded before it goes.
StartDelete(p, i) ==
    /\ rule[i] # Missing
    /\ Begin(p, [pc |-> "delete", job |-> "delete", days |-> {}, from |-> 1, target |-> i,
                 rows |-> Reload(ClaimedBy(i))])
    /\ UNCHANGED <<sap, ledger, rule, today, mixed, raced, holes>>

DeleteRule(p) ==
    LET s == proc[p] IN
    /\ s # Idle /\ s.pc = "delete"
    /\ IF rule[s.target] = Missing THEN Goto(p, Idle) /\ UNCHANGED <<rule, mixed>>
       ELSE /\ rule' = [rule EXCEPT ![s.target] = Missing]
            /\ Goto(p, [s EXCEPT !.pc = "read_rules"])
            /\ Commits(p)
    /\ UNCHANGED <<sap, ledger, today, steps, raced, holes>>

\* update_classification: the entries loaded get the class their loaded content
\* has under the rules read; one commit.  reprocess_all done alone puts all right.
NewClass(s, e) == Classify(s.rules, (CHOOSE x \in s.rows : x.e = e).is.kind)
Reclassified(s) ==
    [e \in Entries |->
        IF \E x \in s.rows : x.e = e
        THEN [ledger[e] EXCEPT !.rule = NewClass(s, e)] ELSE ledger[e]]

WriteClasses(p) ==
    LET s == proc[p] IN
    /\ s # Idle /\ s.pc = "classify"
    /\ ledger' = Reclassified(s)
    /\ Goto(p, Idle)
    /\ mixed' = IF s.job = "reprocess_all" /\ s.alone THEN FALSE
                ELSE mixed \/ (s.rows # {} /\ Busy \ {p} # {})
    /\ UNCHANGED <<sap, rule, today, steps, raced, holes>>

\* The process dies, or the reprocess raises after the rule was committed.
Die(p) ==
    /\ proc[p] # Idle /\ proc[p].pc \in {"load", "delete", "read_rules", "classify"}
    /\ proc[p].job \notin Copies
    /\ Fault
    /\ Goto(p, Idle)
    /\ mixed' = TRUE
    /\ UNCHANGED <<sap, ledger, rule, today, raced, holes>>
-----------------------------------------------------------------------------
\* An entry is posted or changed in SAP.
Change(e, k) ==
    /\ steps < Bound /\ steps' = steps + 1
    /\ Posted[e] <= today
    /\ sap' = [sap EXCEPT ![e] = [kind |-> k, day |-> today]]
    /\ proc' = [p \in Procs |-> IF proc[p] = Idle THEN Idle
                                ELSE [proc[p] EXCEPT !.touched = @ \cup {e}]]
    /\ UNCHANGED <<ledger, rule, today, mixed, raced, holes>>

NextDay ==
    /\ today < LastDay
    /\ today' = today + 1
    /\ UNCHANGED <<sap, ledger, rule, proc, steps, mixed, raced, holes>>

Init ==
    /\ sap \in [Entries -> {Missing} \cup [kind : Kinds, day : {1}]]
    /\ \A e \in Entries : sap[e] # Missing => Posted[e] = 1
    /\ ledger = [e \in Entries |-> Missing]
    /\ rule = [i \in Rules |-> Missing]
    /\ today = 1
    /\ proc = [p \in Procs |-> Idle]
    /\ steps = 0 /\ mixed = FALSE /\ raced = FALSE /\ holes = {}

Copy(p) ==
    \/ \E a, b \in Days : StartSync(p, a, b)
    \/ StartDeltaJob(p) \/ StartDeltaNow(p)
    \/ Fetch(p) \/ Upsert(p) \/ EndItem(p) \/ FailItem(p)

EditRules(p) ==
    \/ \E i \in Rules, new \in Shapes : SaveRule(p, i, new)
    \/ \E i \in Rules : StartDelete(p, i)
    \/ LoadCandidates(p) \/ DeleteRule(p)

Next ==
    \/ \E p \in Procs : Copy(p) \/ EditRules(p) \/ Reprocess(p) \/ ReadRules(p)
                        \/ WriteClasses(p) \/ Die(p)
    \/ \E e \in Entries, k \in Kinds : Change(e, k)
    \/ NextDay
    \/ steps = Bound /\ today = LastDay /\ Busy = {} /\ UNCHANGED ledgerVars

Spec == Init /\ [][Next]_ledgerVars
-----------------------------------------------------------------------------
(* The rows are well formed, and no copy begins after the day it ends.         *)
TypeOK ==
    /\ \A e \in Entries : sap[e] = Missing \/ sap[e] \in [kind : Kinds, day : Days]
    /\ \A e \in Entries :
          ledger[e] = Missing \/ ledger[e] \in [kind : Kinds, day : Days, rule : Rules \cup {0}]
    /\ \A i \in Rules : rule[i] = Missing \/ rule[i] \in Rule
    /\ holes \subseteq Days
    /\ \A p \in Busy : proc[p].job \in Copies =>
                          proc[p].from \in 1..proc[p].target

(* While nothing is under way, and no two processes have overlapped nor one    *)
(* died since the last complete reprocess, every entry has the class the       *)
(* active rules give it, whether the sync, the delta, the edit of a rule or a   *)
(* reprocess wrote it last.                                                    *)
WellClassified ==
    Busy = {} /\ ~mixed =>
        \A e \in InLedger : ledger[e].rule = Classify(rule, ledger[e].kind)

(* A complete reprocess that overlaps nothing repairs what overlapping edits   *)
(* and copies, or a process that died, have left behind.                       *)
ReprocessAlone ==
    \A p \in Procs :
        proc[p] # Idle /\ proc[p].job = "reprocess_all" /\ proc[p].pc = "classify"
           /\ proc[p].alone /\ proc'[p] = Idle /\ ~mixed'
        => \A e \in InLedger : ledger'[e].rule = Classify(rule, ledger[e].kind)
ReprocessRepairs == [][ReprocessAlone]_ledgerVars

(* Where no copy has ever written, or ended an item, beside another, a delta    *)
(* that runs alone to its end leaves nothing behind that was in SAP when it     *)
(* began, but on days whose item had failed or that a sync by posting date had  *)
(* put behind the mark (libro_mayor_job_service.py:208).  Otherwise it may: an  *)
(* older copy of an entry, written last, stays behind the mark, and so does a   *)
(* day that one job failed and another, which had read it before, ended.       *)
DeltaAlone ==
    \A p \in Procs :
        /\ proc[p] # Idle /\ proc'[p] = Idle /\ proc[p].alone /\ ~raced
        /\ proc[p].job \in {"delta", "delta_now"}
        => \A e \in Entries :
              sap[e] # Missing /\ e \notin proc[p].touched /\ sap[e].day \notin holes'
              => ledger'[e] # Missing /\ ledger'[e].kind = sap[e].kind
DeltaMissesNothing == [][DeltaAlone]_ledgerVars
=============================================================================
