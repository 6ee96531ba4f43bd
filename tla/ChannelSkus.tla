------------------------------ MODULE ChannelSkus ------------------------------
(***************************************************************************)
(* The SKUs of a sales channel and their promotions, two tables of an        *)
(* external SQL Server with no foreign key between them.  A SKU is looked up *)
(* without regard to case, by Python's casefold and by the collation alike,  *)
(* and keeps the spelling it was created with; no operation deletes one.    *)
(* Every operation reads, plans its writes and commits them together: the    *)
(* ORM writes the columns that differ from what was read, and no others.    *)
(***************************************************************************)
EXTENDS Naturals, Sequences, FiniteSets

CONSTANTS
    Keys,           \* SKUs without regard to case
    Sheets,         \* the workbooks uploaded: sequences of rows [sku, active]
    Sessions,
    MaxOps          \* bound on the operations

VARIABLES
    skus,           \* skus[k]: the row of peya_sku
    promos,         \* peya_promo_sku
    session,        \* the request each session serves
    ops

channelVars == <<skus, promos, session, ops>>
-----------------------------------------------------------------------------
Names == Keys \X {"lower", "upper"}
Casefold(name) == name[1]
Blank == <<>>                       \* an empty cell; NULL in id_peya

\* A cell of a workbook that should say whether the SKU is active may say anything.
ChannelAssumption ==
    /\ MaxOps \in Nat
    /\ \A sheet \in Sheets : sheet \in Seq([sku : {Blank} \cup Names, active : {"on", "off", "?"}])

\* is_active is a nullable bit.
NoSku == [there |-> FALSE]
SkuRow(name, id, active) == [there |-> TRUE, sku |-> name, id |-> id, is_active |-> active]
Exists(k) == skus[k] # NoSku
Active(row) == row # NoSku /\ row.is_active = "yes"

\* What a request will write, and what it will answer.
NoReport == [created |-> {}, activated |-> {}, deactivated |-> {}, unchanged |-> {}, missing |-> {}]
NoPlan == [create |-> {}, switch |-> {}, ids |-> {}, add |-> {}, remove |-> {}, report |-> NoReport]
Idle == [pc |-> "idle"]
Planned == {p \in Sessions : session[p].pc = "planned"}

\* listed: the SKUs of a snapshot of active ones; alone: has nothing been committed
\* since the request read?
Plan(p, op, listed, plan) ==
    /\ ops < MaxOps /\ p \notin Planned
    /\ ops' = ops + 1
    /\ session' = [session EXCEPT ![p] =
          [pc |-> "planned", op |-> op, listed |-> listed, plan |-> plan, alone |-> TRUE]]
    /\ UNCHANGED <<skus, promos>>

Answer(p, pc) ==
    /\ ops < MaxOps /\ p \notin Planned
    /\ ops' = ops + 1
    /\ session' = [session EXCEPT ![p] = [pc |-> pc]]
    /\ UNCHANGED <<skus, promos>>
-----------------------------------------------------------------------------
(* ManagedSkuService, external_id_matches_sku set as in every channel.        *)
ExternalId(name) == name

Create(p, name, id) ==
    IF Exists(Casefold(name)) \/ id \notin {Blank, name} THEN Answer(p, "conflict")
    ELSE Plan(p, "create", {}, [NoPlan EXCEPT !.create = {SkuRow(name, ExternalId(name), "yes")}])

\* _resolve_external_id with the row's own spelling.
Update(p, k, id) ==
    IF ~Exists(k) \/ id \notin {Blank, skus[k].sku} THEN Answer(p, "refused")
    ELSE Plan(p, "update", {}, [NoPlan EXCEPT !.ids = {k}])

Bit(active) == IF active THEN "yes" ELSE "no"
Switches(k, active) == IF skus[k].is_active = Bit(active) THEN {} ELSE {<<k, Bit(active)>>}

SetActive(p, k, active) ==
    IF ~Exists(k) THEN Answer(p, "refused")
    ELSE Plan(p, "set", {}, [NoPlan EXCEPT !.switch = Switches(k, active)])

\* bulk_sync.  items: sets of [sku, active].
Omitted(listed, deactivateMissing) ==
    {k \in Keys \ listed : deactivateMissing /\ Active(skus[k])}

SkusOf(items) == {Casefold(item.sku) : item \in items}

\* received_skus
X_Received(items) == {Casefold(item.sku) : item \in {i \in items : i.sku[2] = "lower"}}
Received(items) == SkusOf(items)

BulkPlan(items, createMissing, deactivateMissing) ==
    LET new == {item \in items : ~Exists(Casefold(item.sku))}
        old == items \ new
        changed == {item \in old : Active(skus[Casefold(item.sku)]) # item.active}
        omitted == Omitted(Received(items), deactivateMissing)
        On(set, active) == {Casefold(item.sku) : item \in {i \in set : i.active = active}}
    IN [NoPlan EXCEPT
          !.create = IF createMissing
                     THEN {SkuRow(i.sku, ExternalId(i.sku), Bit(i.active)) : i \in new} ELSE {},
          !.ids = {k \in SkusOf(old) : skus[k].id # ExternalId(skus[k].sku)},
          !.switch = {<<Casefold(i.sku), Bit(i.active)>> : i \in changed}
                     \cup omitted \X {"no"},
          !.report = [created |-> IF createMissing THEN SkusOf(new) ELSE {},
                      activated |-> On(changed, TRUE),
                      deactivated |-> On(changed, FALSE) \cup omitted,
                      unchanged |-> SkusOf(old \ changed),
                      missing |-> IF createMissing THEN {} ELSE SkusOf(new)]]
-----------------------------------------------------------------------------
(* PromoSkuService.                                                          *)
CreatePromo(p, k) ==
    IF ~Exists(k) \/ k \in promos THEN Answer(p, "refused")
    ELSE Plan(p, "promo", {}, [NoPlan EXCEPT !.add = {k}])

DeletePromo(p, k) ==
    IF k \notin promos THEN Answer(p, "refused")
    ELSE Plan(p, "promo", {}, [NoPlan EXCEPT !.remove = {k}])

\* sync_snapshot: an unknown parent blocks the whole snapshot.
X_Unknown(requested) == {}
Unknown(requested) == {k \in requested : ~Exists(k)}
PromoPlan(requested) ==
    [NoPlan EXCEPT !.add = requested \ promos, !.remove = promos \ requested]
-----------------------------------------------------------------------------
(* parse_sku_workbook: rows read one by one, with the first of every SKU.     *)
Seen(sheet, i) == {n \in Names : \E j \in 1..i - 1 :
                      sheet[j].sku # Blank /\ Casefold(n) = Casefold(sheet[j].sku)}

RowErrors(sheet, status) ==
    {i \in DOMAIN sheet :
        \/ sheet[i].sku = Blank \/ sheet[i].sku \in Seen(sheet, i)
        \/ status /\ sheet[i].active = "?"}
ReaderRefuses(sheet, status) == sheet = <<>> \/ RowErrors(sheet, status) # {}

\* BulkSkuSyncRequest, ActiveSkuSnapshotRequest: no row twice, and one at least.
SchemaRefuses(sheet) ==
    \/ sheet = <<>>
    \/ \E i, j \in DOMAIN sheet : i # j /\ Casefold(sheet[i].sku) = Casefold(sheet[j].sku)

Items(sheet, status) ==
    {[sku |-> sheet[i].sku, active |-> ~status \/ sheet[i].active = "on"] : i \in DOMAIN sheet}

\* SkuImportService; a preview does the same and rolls back.  A ValidationError of the
\* schema is nobody's to catch.
ImportSkus(p, sheet, status, createMissing) ==
    IF ReaderRefuses(sheet, status) THEN Answer(p, "errors")
    ELSE IF SchemaRefuses(sheet) THEN Answer(p, "unhandled")
    ELSE LET items == Items(sheet, status) IN
         Plan(p, IF status THEN "status" ELSE "snapshot", SkusOf(items),
              BulkPlan(items, createMissing, ~status))

ImportPromotions(p, sheet) ==
    LET requested == SkusOf(Items(sheet, FALSE)) IN
    IF ReaderRefuses(sheet, FALSE) \/ Unknown(requested) # {} THEN Answer(p, "errors")
    ELSE Plan(p, "promos", {}, PromoPlan(requested))
-----------------------------------------------------------------------------
\* The primary keys refuse what another session has inserted meanwhile.
Collides(plan) ==
    \/ \E row \in plan.create : Exists(Casefold(row.sku))
    \/ plan.add \cap promos # {}

Written(plan, k) ==
    IF \E row \in plan.create : Casefold(row.sku) = k
    THEN CHOOSE row \in plan.create : Casefold(row.sku) = k
    ELSE IF ~Exists(k) THEN NoSku
    ELSE [skus[k] EXCEPT
            !.id = IF k \in plan.ids THEN ExternalId(skus[k].sku) ELSE @,
            !.is_active = IF <<k, "yes">> \in plan.switch THEN "yes"
                          ELSE IF <<k, "no">> \in plan.switch THEN "no" ELSE @]

Commit(p) ==
    /\ p \in Planned
    /\ IF Collides(session[p].plan)
       THEN /\ session' = [session EXCEPT ![p] = [pc |-> "conflict"]]
            /\ UNCHANGED <<skus, promos>>
       ELSE /\ skus' = [k \in Keys |-> Written(session[p].plan, k)]
            /\ promos' = (promos \ session[p].plan.remove) \cup session[p].plan.add
            /\ session' = [q \in Sessions |->
                  CASE q = p -> [pc |-> "applied"]
                    [] q # p /\ q \in Planned -> [session[q] EXCEPT !.alone = FALSE]
                    [] OTHER -> session[q]]
    /\ UNCHANGED ops

\* A preview, and a process that dies.
Rollback(p) ==
    /\ p \in Planned
    /\ session' = [session EXCEPT ![p] = Idle]
    /\ UNCHANGED <<skus, promos, ops>>

\* Rows from before the application may have no identifier and no is_active.
Init ==
    /\ skus \in [Keys -> {NoSku} \cup {SkuRow(<<k, "lower">>, id, active) :
                             k \in Keys, id \in {Blank}, active \in {"yes", "null"}}]
    /\ \A k \in Keys : skus[k] # NoSku => Casefold(skus[k].sku) = k
    /\ promos \in SUBSET {k \in Keys : Exists(k)}
    /\ session = [p \in Sessions |-> Idle]
    /\ ops = 0

Next ==
    \/ \E p \in Sessions : Commit(p) \/ Rollback(p)
    \/ \E p \in Sessions, name \in Names, id \in Names \cup {Blank} : Create(p, name, id)
    \/ \E p \in Sessions, k \in Keys, id \in Names \cup {Blank} : Update(p, k, id)
    \/ \E p \in Sessions, k \in Keys, active \in BOOLEAN : SetActive(p, k, active)
    \/ \E p \in Sessions, k \in Keys : CreatePromo(p, k) \/ DeletePromo(p, k)
    \/ \E p \in Sessions, sheet \in Sheets, status, createMissing \in BOOLEAN :
          ImportSkus(p, sheet, status, createMissing)
    \/ \E p \in Sessions, sheet \in Sheets : ImportPromotions(p, sheet)
    \/ ops = MaxOps /\ Planned = {} /\ UNCHANGED channelVars

Spec == Init /\ [][Next]_channelVars
-----------------------------------------------------------------------------
(* Rows, promotions and requests are well formed.                            *)
TypeOK ==
    /\ \A k \in Keys : Exists(k) =>
          /\ skus[k].sku \in Names /\ Casefold(skus[k].sku) = k
          /\ skus[k].id \in {Blank} \cup Names /\ skus[k].is_active \in {"yes", "no", "null"}
    /\ promos \subseteq Keys /\ ops \in 0..MaxOps

(* No database constraint ties them, and every look at the parent is old when    *)
(* the promotion is written, yet no promotion is without its SKU.             *)
PromotionsHaveParents == \A k \in promos : Exists(k)

(* A workbook the reader finds no error in is never refused by the request       *)
(* schema behind it, where the refusal would be an error 500.                 *)
ReaderSatisfiesSchema == \A p \in Sessions : session[p].pc # "unhandled"

Applies(p) == p \in Planned /\ session'[p].pc = "applied"

(* A snapshot nobody came between leaves active the SKUs it lists and no other,   *)
(* in whatever spelling it lists them and whatever was there.                  *)
SnapshotAlone ==
    \A p \in Sessions :
        Applies(p) /\ session[p].alone /\ session[p].op = "snapshot"
        => {k \in Keys : Active(skus'[k])}
              = {k \in session[p].listed : skus'[k] # NoSku}
SnapshotExact == [][SnapshotAlone]_channelVars

(* The counts an import answers with, and its preview showed, are what it did to  *)
(* the table when nobody came between.                                        *)
ImportAlone ==
    \A p \in Sessions :
        Applies(p) /\ session[p].alone /\ session[p].op \in {"status", "snapshot"}
        => LET r == session[p].plan.report IN
           /\ r.created = {k \in Keys : ~Exists(k) /\ skus'[k] # NoSku}
           /\ r.activated = {k \in Keys : Exists(k) /\ ~Active(skus[k]) /\ Active(skus'[k])}
           /\ r.deactivated = {k \in Keys : Active(skus[k]) /\ ~Active(skus'[k])}
           /\ session[p].listed \ (r.created \cup r.activated \cup r.deactivated)
                 = r.unchanged \cup r.missing
ReportIsTrue == [][ImportAlone]_channelVars

(* However a request or a workbook spells a SKU, what is written into the          *)
(* external identifier is the SKU as its row spells it.                        *)
IdWritten ==
    \A k \in Keys : skus'[k] # skus[k] /\ skus'[k].id # Blank
        => skus'[k].id = skus'[k].sku
IdsFollowSkus == [][IdWritten]_channelVars
=============================================================================
