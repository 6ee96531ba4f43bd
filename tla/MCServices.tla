------------------------------ MODULE MCServices -------------------------------
(***************************************************************************)
(* Small instances of the modules about the services around the jobs:        *)
(* SapClient, PlainJobs, Schedule, Ingestion, SalesLake, SalesReports and      *)
(* ChannelSkus.  They share no state here, so that a behaviour belongs to one  *)
(* of them and the others stay where they begin.                            *)
(***************************************************************************)
EXTENDS SapClient, TLC

CONSTANTS
    Actors,     \* workers, and requests that create a job
    Things,     \* items of a job, documents of a sale
    Products,
    Labels,     \* SKUs, as the database compares them
    Owners, RequestKeys, LastDay, MaxRequests,      \* of Ingestion
    Creator, Canceller, None, Never, w1, w2, d1, d2, d3, k1, k2

VARIABLES
    part,                                                           \* whose behaviour it is
    job, batch, item, queue, revoked, nextTask, budget, ses,        \* PlainJobs
    kind, executed, runs, mirror, run, crashed,
    config, due,                                                    \* Schedule
    created, creating, today, ingested, held, requests,             \* Ingestion
    icg, lake, leftover, writer, started,                           \* SalesLake
    doc, sold, lines,                                               \* SalesReports
    skus, promos, session, ops                                      \* ChannelSkus

plainVars == <<job, batch, item, queue, revoked, nextTask, budget, ses,
               kind, executed, runs, mirror, run, crashed>>
calendarVars == <<config, due>>
ingestionVars == <<created, creating, today, ingested, held, requests>>
lakeVars == <<icg, lake, leftover, writer, started>>
reportVars == <<doc, sold, lines>>
channelVars == <<skus, promos, session, ops>>
allVars == <<part, vars, plainVars, calendarVars, ingestionVars, lakeVars, reportVars, channelVars>>
-----------------------------------------------------------------------------
\* One batch of two items; a worker dies once, or a task is aborted once.
OneBatch == [i \in Things |-> 1]
Once(fault) ==
    [x \in {"crash", "request", "conn", "abort", "publish", "module"} |-> IF x = fault THEN 1 ELSE 0]
CrashOrAbort == {Once("crash"), Once("abort")}
PlainKinds == {"email", "ledger", "ingestion", "silver"}

Plain == INSTANCE PlainJobs
    WITH NumBatches <- 1, Items <- Things, BatchOf <- OneBatch, Workers <- Actors,
         Cancellers <- {Canceller}, Retriers <- {}, MaxRetries <- 1,
         Budgets <- CrashOrAbort, Kinds <- PlainKinds, acted <- executed

\* Every interval, pair of hours, and window with two weekdays, of a short day.
DayLength == 5
Pairs(S) == {{a, b} : a \in S, b \in S}
Configs ==
    [kind : {"INTERVAL_MINUTES"}, minutes : {1, DayLength + 1}]
    \cup [kind : {"DAILY"}, times : Pairs(0 .. DayLength - 1)]
    \cup [kind : {"WINDOW_INTERVAL"}, minutes : 1 .. DayLength, weekdays : Pairs(0..6),
          start : 0 .. DayLength - 1, end : 0 .. DayLength - 1]

Calendar == INSTANCE Schedule WITH Horizon <- 70

Intake == INSTANCE Ingestion
    WITH Callers <- Actors, Keys <- RequestKeys,
         jobs <- created, call <- creating, runs <- ingested, session <- held

Today == {1}

Lake == INSTANCE SalesLake
    WITH SalesDays <- Today, Docs <- Things, Workers <- Actors, LakeBound <- 6,
         worker <- writer, begun <- started

SmallAndLarge == {1, 5}

InvoiceAndCreditNote == {5, 17}
Reports == INSTANCE SalesReports
    WITH Tipos <- InvoiceAndCreditNote, Amounts <- SmallAndLarge, Lines <- 4

\* Workbooks with no row, a blank or senseless cell, one SKU, two, or one twice.
Line(sku, active) == [sku |-> sku, active |-> active]
Workbooks ==
    {<<>>, <<Line(<<>>, "on")>>, <<Line(<<k1, "lower">>, "?")>>}
    \cup {<<Line(<<k1, case>>, active)>> : case \in {"lower", "upper"}, active \in {"on", "off"}}
    \cup {<<Line(<<k1, "lower">>, "on"), Line(<<k, "upper">>, active)>> :
             k \in Labels, active \in {"on", "off"}}

Shelf == INSTANCE ChannelSkus
    WITH Keys <- Labels, Sheets <- Workbooks, Sessions <- Actors, MaxOps <- 3

ASSUME Plain!PlainAssumption
ASSUME PlainEngine == Plain!EngineAssumption
ASSUME Calendar!ScheduleAssumption
ASSUME ShelfAssumption == Shelf!ChannelAssumption
ASSUME IntakeAssumption == Intake!IngestionAssumption
-----------------------------------------------------------------------------
Hourly == [kind |-> "INTERVAL_MINUTES", minutes |-> 1]
Sale == [tipodoc |-> 5, canal_venta |-> "none", es_rappi |-> FALSE, pedido |-> "none"]

\* The modules that begin in several states do so in their own behaviours only.
ServicesInit ==
    /\ part \in {"client", "plain", "calendar", "ingestion", "lake", "reports", "skus"}
    /\ Plain!Init /\ (part = "plain" \/ (kind = "email" /\ budget = Once("crash")))
    /\ Calendar!Init /\ (part = "calendar" \/ (config = Hourly /\ due = 0))
    /\ Shelf!Init /\ (part = "skus" \/ \A k \in Labels : skus[k] = Shelf!NoSku)
    /\ Reports!Init /\ (part = "reports" \/ doc = Sale)
    /\ Init /\ Intake!Init /\ Lake!Init

ClientNext ==
    /\ part = "client" /\ Next
    /\ UNCHANGED <<part, plainVars, calendarVars, ingestionVars, lakeVars, reportVars, channelVars>>
PlainNext ==
    /\ part = "plain" /\ Plain!Next
    /\ UNCHANGED <<part, vars, calendarVars, ingestionVars, lakeVars, reportVars, channelVars>>
CalendarNext ==
    /\ part = "calendar" /\ Calendar!Next
    /\ UNCHANGED <<part, vars, plainVars, ingestionVars, lakeVars, reportVars, channelVars>>
IngestionNext ==
    /\ part = "ingestion" /\ Intake!Next
    /\ UNCHANGED <<part, vars, plainVars, calendarVars, lakeVars, reportVars, channelVars>>
LakeNext ==
    /\ part = "lake" /\ Lake!Next
    /\ UNCHANGED <<part, vars, plainVars, calendarVars, ingestionVars, reportVars, channelVars>>
ReportsNext ==
    /\ part = "reports" /\ Reports!Next
    /\ UNCHANGED <<part, vars, plainVars, calendarVars, ingestionVars, lakeVars, channelVars>>
SkusNext ==
    /\ part = "skus" /\ Shelf!Next
    /\ UNCHANGED <<part, vars, plainVars, calendarVars, ingestionVars, lakeVars, reportVars>>

ServicesNext ==
    ClientNext \/ PlainNext \/ CalendarNext \/ IngestionNext \/ LakeNext \/ ReportsNext \/ SkusNext

ServicesSpec == ServicesInit /\ [][ServicesNext]_allVars

Symmetric == Permutations(Actors) \cup Permutations(Things)
-----------------------------------------------------------------------------
(* The seven modules are well typed: rows have their columns, sessions the     *)
(* fields of their step, the client's resends never run below zero.           *)
TypesOK ==
    /\ part = "client" => TypeOK
    /\ part = "plain" => Plain!TypeOK
    /\ part = "ingestion" => Intake!TypeOK
    /\ part = "lake" => Lake!TypeOK
    /\ part = "reports" => Reports!TypeOK
    /\ part = "skus" => Shelf!TypeOK

(* PlainJobs: an item recorded SUCCEEDED did its work, and no redelivery of its *)
(* batch did it again.                                                       *)
WorkIsDoneOnce == part = "plain" => Plain!WorkIsDoneOnce

(* PlainJobs: the items of an ingestion say what the items of its job say, its  *)
(* run carries their verdict, and whoever finishes the last batch closes the job. *)
RunFollowsJob ==
    part = "plain" =>
        Plain!MirrorFollowsItems /\ Plain!RunFollowsItems /\ Plain!LastBatchClosesJob

(* Schedule: there always is a next run, at a slot, and no slot is passed over. *)
NoSlotPassedOver == [][part = "calendar" => Calendar!ToTheNextSlot]_allVars

(* Ingestion: a worker finds the run and the row of every item it takes, a run  *)
(* that nobody works for repeats the key of its job, and no run is empty or     *)
(* covers a day to come.                                                     *)
RunsHaveWork ==
    part = "ingestion" =>
        Intake!WorkIsRecorded /\ Intake!IdleRunsRepeatAKey /\ Intake!RunsCoverDays

(* SalesReports: channel and es_ecommerce agree, the classes of the ABC report  *)
(* are in order and class A is 80 % of the total.                             *)
ReportsSound ==
    part = "reports" => Reports!EcommerceConsistent /\ Reports!AbcSound

(* SalesLake: the lake keeps the promises of PartitionStore.                  *)
ImplementsStore == Lake!ImplementsStore

(* SalesLake: a write that is alone with its day does not fail, and a build that *)
(* is alone with its day leaves the join of the bronze.                       *)
AloneIsEnough == [][part = "lake" => Lake!WriteAlone /\ Lake!BuildAlone]_allVars

(* ChannelSkus: every promotion has its SKU without a foreign key, and what the *)
(* reader of workbooks accepts the schema of the request accepts.             *)
ShelfIsSound == part = "skus" => Shelf!PromotionsHaveParents /\ Shelf!ReaderSatisfiesSchema

(* ChannelSkus: a snapshot that is alone leaves active what it lists, the counts *)
(* of an import that is alone are what it did, and the identifier written is    *)
(* the SKU as its row spells it.                                             *)
SkusAsListed ==
    [][part = "skus" => Shelf!SnapshotAlone /\ Shelf!ImportAlone /\ Shelf!IdWritten]_allVars
=============================================================================
