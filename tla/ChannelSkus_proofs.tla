--------------------------- MODULE ChannelSkus_proofs --------------------------
(***************************************************************************)
(* The SKUs of a channel, for any number of keys, workbooks and sessions.   *)
(* What a request plans rests on what it read, and others commit before it  *)
(* does.  Two things survive that: a SKU that is there stays there, so that *)
(* a promotion planned for it will have it (Grounded), and a row's external *)
(* identifier is empty or the row's own SKU, whoever writes it (Rows).      *)
(* What does not survive, which SKUs are active, is claimed only of a       *)
(* request nobody came between, whose plan still fits the table (Fits).     *)
(***************************************************************************)
EXTENDS ChannelSkus, TLAPS

Spellings == {"lower", "upper"}
Row(k) == [there : {TRUE}, sku : {k} \X Spellings, id : {Blank} \cup Names,
           is_active : {"yes", "no", "null"}]
OwnId(row) == row.id \in {Blank, row.sku}

\* What a session plans to insert.
NewRow == {row \in [there : {TRUE}, sku : Names, id : Names, is_active : {"yes", "no"}] :
             row.id = row.sku}

Reports == [created : SUBSET Keys, activated : SUBSET Keys, deactivated : SUBSET Keys,
            unchanged : SUBSET Keys, missing : SUBSET Keys]
Plans == [create : SUBSET NewRow, switch : SUBSET (Keys \X {"yes", "no"}), ids : SUBSET Keys,
          add : SUBSET Keys, remove : SUBSET Keys, report : Reports]
Ops == {"create", "update", "set", "promo", "promos", "status", "snapshot"}

Answers == [pc : {"idle", "refused", "errors", "conflict", "applied"}]
Pending == [pc : {"planned"}, op : Ops, listed : SUBSET Keys, plan : Plans, alone : BOOLEAN]

Rows(table) == \A k \in Keys : table[k] # NoSku => table[k] \in Row(k) /\ OwnId(table[k])

\* The promotions a request will write have their SKU.
Grounded(plan, table) == \A k \in plan.add : table[k] # NoSku

Inserts(plan, k) == \E row \in plan.create : Casefold(row.sku) = k

\* A snapshot's plan makes the table what was listed.
FitsSnapshot(req, table) ==
    /\ \A row \in req.plan.create : Casefold(row.sku) \in req.listed /\ row.is_active = "yes"
    /\ \A k \in req.listed : table[k] # NoSku =>
         /\ <<k, "no">> \notin req.plan.switch
         /\ Active(table[k]) \/ <<k, "yes">> \in req.plan.switch
    /\ \A k \in Keys \ req.listed :
         /\ <<k, "yes">> \notin req.plan.switch
         /\ Active(table[k]) => <<k, "no">> \in req.plan.switch

\* An import's report tells what its plan will do to the table.
FitsReport(req, table) ==
    \A k \in Keys :
       /\ k \in req.plan.report.created <=> table[k] = NoSku /\ Inserts(req.plan, k)
       /\ k \in req.plan.report.activated <=>
            table[k] # NoSku /\ ~Active(table[k]) /\ <<k, "yes">> \in req.plan.switch
       /\ k \in req.plan.report.deactivated <=>
            /\ Active(table[k])
            /\ <<k, "yes">> \notin req.plan.switch /\ <<k, "no">> \in req.plan.switch
       /\ k \in req.plan.report.unchanged \cup req.plan.report.missing <=>
            k \in req.listed /\ k \notin req.plan.report.created \cup req.plan.report.activated
                                         \cup req.plan.report.deactivated

Fits(req, table) ==
    req.alone => /\ req.op = "snapshot" => FitsSnapshot(req, table)
                 /\ req.op \in {"status", "snapshot"} => FitsReport(req, table)

SkuInv ==
    /\ skus = [k \in Keys |-> skus[k]]
    /\ Rows(skus)
    /\ promos \subseteq Keys /\ PromotionsHaveParents
    /\ ops \in 0..MaxOps
    /\ session \in [Sessions -> Answers \cup Pending]
    /\ \A p \in Planned : Grounded(session[p].plan, skus) /\ Fits(session[p], skus)

-----------------------------------------------------------------------------
(* Rows and requests.                                                      *)

LEMMA RowsDiffer ==
  /\ NoSku.there = FALSE
  /\ \A k : \A row \in Row(k) : row # NoSku /\ row.there = TRUE
  /\ \A row \in NewRow : row # NoSku
  /\ Blank \notin Names
  /\ \A name \in Names : Casefold(name) \in Keys /\ name \in {Casefold(name)} \X Spellings
<1>1. NoSku.there = FALSE
  BY DEF NoSku
<1>2. \A k : \A row \in Row(k) : row.there = TRUE
  BY DEF Row
<1>3. \A row \in NewRow : row.there = TRUE
  BY DEF NewRow
<1>4. \A name \in Names : name = <<name[1], name[2]>> /\ name[1] \in Keys /\ name[2] \in Spellings
  BY DEF Names, Spellings
<1>5. \A name \in Names : Len(name) = 2
  BY <1>4
<1>6. Len(Blank) = 0
  BY DEF Blank
<1>. QED  BY <1>1, <1>2, <1>3, <1>4, <1>5, <1>6 DEF Casefold

LEMMA PendingDiffers ==
  /\ \A req \in Answers : req.pc # "planned"
  /\ \A req \in Pending : req.pc = "planned" /\ req \notin Answers
  /\ Idle \in Answers
  /\ \A pc \in {"idle", "refused", "errors", "conflict", "applied"} : [pc |-> pc] \in Answers
  BY DEF Answers, Pending, Idle

LEMMA PlannedAre ==
  ASSUME SkuInv
  PROVE  /\ \A p \in Planned : p \in Sessions /\ session[p] \in Pending
         /\ \A p \in Sessions \ Planned : session[p] \in Answers
  BY PendingDiffers DEF SkuInv, Planned

\* A session's next state, the table as it was.
LEMMA SessionKeeps ==
  ASSUME SkuInv, NEW p \in Sessions, NEW req \in Answers \cup Pending,
         req \in Pending => Grounded(req.plan, skus) /\ Fits(req, skus),
         session' = [session EXCEPT ![p] = req], UNCHANGED <<skus, promos>>, ops' \in 0..MaxOps
  PROVE  SkuInv'
<1>1. session' \in [Sessions -> Answers \cup Pending]
  BY DEF SkuInv
<1>2. \A q \in Planned' : Grounded(session'[q].plan, skus) /\ Fits(session'[q], skus)
  <2>. SUFFICES ASSUME NEW q \in Planned'
                PROVE  Grounded(session'[q].plan, skus) /\ Fits(session'[q], skus)
    OBVIOUS
  <2>1. q \in Sessions /\ session'[q].pc = "planned"
    BY DEF Planned
  <2>2. CASE q = p
    <3>1. session'[q] = req
      BY <2>2 DEF SkuInv
    <3>2. req \in Pending
      BY <2>1, <3>1, PendingDiffers
    <3>. QED  BY <3>1, <3>2
  <2>3. CASE q # p
    <3>1. session'[q] = session[q]
      BY <2>1, <2>3 DEF SkuInv
    <3>2. q \in Planned
      BY <2>1, <3>1 DEF Planned
    <3>. QED  BY <3>1, <3>2 DEF SkuInv
  <2>. QED  BY <2>2, <2>3
<1>3. PromotionsHaveParents'
  BY DEF SkuInv, PromotionsHaveParents, Exists
<1>. QED  BY <1>1, <1>2, <1>3 DEF SkuInv

LEMMA PlanKeeps ==
  ASSUME ChannelAssumption, SkuInv, NEW p \in Sessions, NEW op \in Ops, NEW listed \in SUBSET Keys,
         NEW plan \in Plans, Plan(p, op, listed, plan), Grounded(plan, skus),
         NEW req, req = [pc |-> "planned", op |-> op, listed |-> listed, plan |-> plan,
                         alone |-> TRUE],
         Fits(req, skus)
  PROVE  SkuInv'
<1>1. req \in Pending /\ req.plan = plan
  BY DEF Pending
<1>2. session' = [session EXCEPT ![p] = req] /\ UNCHANGED <<skus, promos>>
  BY DEF Plan
<1>3. ops' \in 0..MaxOps
  BY DEF Plan, SkuInv, ChannelAssumption
<1>. QED  BY <1>1, <1>2, <1>3, SessionKeeps

LEMMA AnswerKeeps ==
  ASSUME ChannelAssumption, SkuInv, NEW p \in Sessions,
         NEW pc \in {"idle", "refused", "errors", "conflict", "applied"}, Answer(p, pc)
  PROVE  SkuInv'
<1>1. [pc |-> pc] \in Answers /\ [pc |-> pc] \notin Pending
  BY PendingDiffers
<1>2. session' = [session EXCEPT ![p] = [pc |-> pc]] /\ UNCHANGED <<skus, promos>>
  BY DEF Answer
<1>3. ops' \in 0..MaxOps
  BY DEF Answer, SkuInv, ChannelAssumption
<1>. QED  BY <1>1, <1>2, <1>3, SessionKeeps

-----------------------------------------------------------------------------
(* The workbooks.                                                          *)

\* The rows of a workbook, and what they ask for.
LEMMA SheetType ==
  ASSUME ChannelAssumption, NEW sheet \in Sheets
  PROVE  /\ DOMAIN sheet \subseteq Nat
         /\ \A i \in DOMAIN sheet : sheet[i].sku \in {Blank} \cup Names
<1>. DEFINE Cells == [sku : {Blank} \cup Names, active : {"on", "off", "?"}]
<1>1. sheet \in Seq(Cells)
  BY DEF ChannelAssumption
<1>2. \A cells \in Cells : cells.sku \in {Blank} \cup Names
  OBVIOUS
<1>. HIDE DEF Cells
<1>3. DOMAIN sheet \subseteq Nat /\ \A i \in DOMAIN sheet : sheet[i] \in Cells
  BY <1>1
<1>. QED  BY <1>2, <1>3

\* What the reader lets pass: one row or more, every one with a SKU of its own.
LEMMA ReaderPasses ==
  ASSUME ChannelAssumption, NEW sheet \in Sheets, NEW status \in BOOLEAN,
         ~ReaderRefuses(sheet, status)
  PROVE  /\ ~SchemaRefuses(sheet)
         /\ \A i \in DOMAIN sheet : sheet[i].sku \in Names
         /\ \A i, j \in DOMAIN sheet :
               Casefold(sheet[i].sku) = Casefold(sheet[j].sku) => i = j
<1>1. /\ sheet # <<>>
      /\ \A i \in DOMAIN sheet : sheet[i].sku # Blank /\ sheet[i].sku \notin Seen(sheet, i)
  BY DEF ReaderRefuses, RowErrors
<1>2. \A i \in DOMAIN sheet : sheet[i].sku \in Names
  BY <1>1, SheetType
<1>3. ASSUME NEW i \in DOMAIN sheet, NEW j \in DOMAIN sheet, j < i
      PROVE  Casefold(sheet[i].sku) # Casefold(sheet[j].sku)
  <2>1. j \in 1 .. i - 1
    <3>1. sheet \in Seq([sku : {Blank} \cup Names, active : {"on", "off", "?"}])
      BY DEF ChannelAssumption
    <3>2. DOMAIN sheet = 1 .. Len(sheet) /\ Len(sheet) \in Nat
      BY <3>1
    <3>3. i \in 1 .. Len(sheet) /\ j \in 1 .. Len(sheet)
      BY <3>2
    <3>. QED  BY <1>3, <3>2, <3>3
  <2>. QED  BY <1>1, <1>2, <2>1 DEF Seen
<1>4. \A i, j \in DOMAIN sheet : Casefold(sheet[i].sku) = Casefold(sheet[j].sku) => i = j
  <2>1. \A i, j \in DOMAIN sheet : i = j \/ i < j \/ j < i
    BY SheetType
  <2>. QED  BY <1>3, <2>1
<1>. QED  BY <1>1, <1>2, <1>4 DEF SchemaRefuses

\* What a valid workbook asks for: SKUs named once, all of them active in a snapshot.
Distinct(items) ==
    /\ items \in SUBSET [sku : Names, active : BOOLEAN]
    /\ \A i, j \in items : Casefold(i.sku) = Casefold(j.sku) => i = j
AllActive(items) == \A i \in items : i.active = TRUE

LEMMA ItemsAre ==
  ASSUME ChannelAssumption, NEW sheet \in Sheets, NEW status \in BOOLEAN,
         ~ReaderRefuses(sheet, status)
  PROVE  /\ Distinct(Items(sheet, status))
         /\ ~status => AllActive(Items(sheet, status))
<1>. DEFINE items == Items(sheet, status)
            Item(i) == [sku |-> sheet[i].sku, active |-> ~status \/ sheet[i].active = "on"]
<1>1. items = {Item(i) : i \in DOMAIN sheet}
  BY DEF Items
<1>2. \A i \in DOMAIN sheet : Item(i) \in [sku : Names, active : BOOLEAN]
  BY ReaderPasses
<1>3. \A i \in DOMAIN sheet : Item(i).sku = sheet[i].sku
  OBVIOUS
<1>4. ~status => \A i \in DOMAIN sheet : Item(i).active = TRUE
  OBVIOUS
<1>. HIDE DEF Item, items
<1>5. \A i, j \in items : Casefold(i.sku) = Casefold(j.sku) => i = j
  BY <1>1, <1>3, ReaderPasses
<1>6. items \in SUBSET [sku : Names, active : BOOLEAN] /\ (~status => AllActive(items))
  BY <1>1, <1>2, <1>4 DEF AllActive
<1>. QED  BY <1>5, <1>6 DEF items, Distinct

LEMMA SkusOfType ==
  ASSUME NEW items, items \in SUBSET [sku : Names, active : BOOLEAN]
  PROVE  /\ SkusOf(items) \subseteq Keys
         /\ \A i \in items : i.sku \in Names /\ Casefold(i.sku) \in Keys /\ i.active \in BOOLEAN
  BY RowsDiffer DEF SkusOf

-----------------------------------------------------------------------------
(* The plan of a bulk request.                                             *)

New(items) == {item \in items : ~Exists(Casefold(item.sku))}
Changed(items) == {item \in items \ New(items) : Active(skus[Casefold(item.sku)]) # item.active}
Turned(items, active) == {Casefold(item.sku) : item \in {i \in Changed(items) : i.active = active}}
Made(items) == {SkuRow(i.sku, ExternalId(i.sku), Bit(i.active)) : i \in New(items)}
Switched(items) == {<<Casefold(i.sku), Bit(i.active)>> : i \in Changed(items)}
Renamed(items) == {k \in SkusOf(items \ New(items)) : skus[k].id # ExternalId(skus[k].sku)}
Same(items) == SkusOf((items \ New(items)) \ Changed(items))

\* What is switched is what the report says.
LEMMA BulkSwitch ==
  ASSUME NEW items, items \in SUBSET [sku : Names, active : BOOLEAN]
  PROVE  \A k : /\ <<k, "yes">> \in Switched(items) <=> k \in Turned(items, TRUE)
                /\ <<k, "no">> \in Switched(items) <=> k \in Turned(items, FALSE)
<1>1. \A i \in Changed(items) : i.active \in BOOLEAN
  BY DEF Changed, New
<1>2. Bit(TRUE) = "yes" /\ Bit(FALSE) = "no"
  BY DEF Bit
<1>. QED  BY <1>1, <1>2 DEF Turned, Switched

\* The rows a session is to create, and those it says it has.
LEMMA BulkCreate ==
  ASSUME NEW items, items \in SUBSET [sku : Names, active : BOOLEAN]
  PROVE  /\ Made(items) \in SUBSET NewRow
         /\ \A row \in Made(items) : \E i \in New(items) :
               row.sku = i.sku /\ row.is_active = Bit(i.active)
         /\ \A k : (\E row \in Made(items) : Casefold(row.sku) = k) <=> k \in SkusOf(New(items))
<1>. DEFINE NewOf(i) == SkuRow(i.sku, ExternalId(i.sku), Bit(i.active))
<1>1. \A i \in New(items) : i.sku \in Names /\ i.active \in BOOLEAN
  BY DEF New
<1>2. \A i \in New(items) : /\ NewOf(i) \in NewRow /\ NewOf(i).sku = i.sku
                            /\ NewOf(i).is_active = Bit(i.active)
  BY <1>1 DEF NewRow, SkuRow, Bit, ExternalId
<1>3. Made(items) = {NewOf(i) : i \in New(items)}
  BY DEF Made
<1>. HIDE DEF NewOf
<1>. QED  BY <1>2, <1>3 DEF SkusOf

\* Every item is of one kind, and so is the SKU it names when it is named once.
LEMMA Sorted ==
  ASSUME NEW items, items \in SUBSET [sku : Names, active : BOOLEAN],
         \A i, j \in items : Casefold(i.sku) = Casefold(j.sku) => i = j
  PROVE  /\ SkusOf(New(items)) = {k \in SkusOf(items) : skus[k] = NoSku}
         /\ SkusOf(items \ New(items)) = {k \in SkusOf(items) : skus[k] # NoSku}
         /\ Turned(items, TRUE) \subseteq
               {k \in SkusOf(items) : skus[k] # NoSku /\ ~Active(skus[k])}
         /\ Turned(items, FALSE) \subseteq {k \in SkusOf(items) : Active(skus[k])}
         /\ Same(items)
               = SkusOf(items \ New(items)) \ (Turned(items, TRUE) \cup Turned(items, FALSE))
<1>1. \A i \in items : i.active \in BOOLEAN
  OBVIOUS
<1>2. \A i \in items : i \in New(items) <=> skus[Casefold(i.sku)] = NoSku
  BY DEF New, Exists
<1>3. \A i \in items : i \in Changed(items)
         <=> i \notin New(items) /\ Active(skus[Casefold(i.sku)]) # i.active
  BY DEF Changed
<1>4. Changed(items) \subseteq items /\ New(items) \subseteq items
  BY DEF Changed, New
<1>5. SkusOf(New(items)) = {k \in SkusOf(items) : skus[k] = NoSku}
  BY <1>2, <1>4 DEF SkusOf
<1>6. SkusOf(items \ New(items)) = {k \in SkusOf(items) : skus[k] # NoSku}
  BY <1>2, <1>4 DEF SkusOf
<1>7. \A k : Active(skus[k]) \in BOOLEAN
  BY DEF Active
<1>8. \A k : Active(skus[k]) => skus[k] # NoSku
  BY DEF Active
<1>9. Turned(items, TRUE) \subseteq {k \in SkusOf(items) : skus[k] # NoSku /\ ~Active(skus[k])}
  BY <1>2, <1>3, <1>4, <1>7 DEF Turned, SkusOf
<1>10. Turned(items, FALSE) \subseteq {k \in SkusOf(items) : Active(skus[k])}
  BY <1>2, <1>3, <1>4, <1>7 DEF Turned, SkusOf
<1>11. \A i \in items : Casefold(i.sku) \in Turned(items, TRUE) \cup Turned(items, FALSE)
                        <=> i \in Changed(items)
  BY <1>1, <1>4 DEF Turned
<1>12. Same(items)
         = SkusOf(items \ New(items)) \ (Turned(items, TRUE) \cup Turned(items, FALSE))
  BY <1>4, <1>11 DEF SkusOf, Same
<1>. QED  BY <1>5, <1>6, <1>9, <1>10, <1>12

LEMMA BulkGood ==
  ASSUME NEW items, Distinct(items),
         NEW createMissing \in BOOLEAN, NEW deactivateMissing \in BOOLEAN,
         NEW req, NEW plan, plan = BulkPlan(items, createMissing, deactivateMissing),
         req.plan = plan, req.listed = SkusOf(items)
  PROVE  /\ plan \in Plans /\ plan.add = {}
         /\ FitsReport(req, skus)
         /\ deactivateMissing /\ AllActive(items) => FitsSnapshot(req, skus)
<1>. DEFINE omitted == Omitted(SkusOf(items), deactivateMissing)
            on == Turned(items, TRUE)
            off == Turned(items, FALSE)
            new == SkusOf(New(items))
            same == Same(items)
<1>. USE DEF Distinct
<1>1. PICK created, missing, report :
        /\ created = IF createMissing THEN new ELSE {}
        /\ missing = IF createMissing THEN {} ELSE new
        /\ report = [created |-> created, activated |-> on, deactivated |-> off \cup omitted,
                     unchanged |-> same, missing |-> missing]
  OBVIOUS
<1>2. plan = [NoPlan EXCEPT !.create = IF createMissing THEN Made(items) ELSE {},
                            !.ids = Renamed(items),
                            !.switch = Switched(items) \cup omitted \X {"no"},
                            !.report = report]
  <2>1. plan = [NoPlan EXCEPT
                  !.create = IF createMissing THEN Made(items) ELSE {},
                  !.ids = Renamed(items),
                  !.switch = Switched(items) \cup omitted \X {"no"},
                  !.report = [created |-> IF createMissing THEN new ELSE {}, activated |-> on,
                              deactivated |-> off \cup omitted, unchanged |-> same,
                              missing |-> IF createMissing THEN {} ELSE new]]
    BY Zenon DEF BulkPlan, Received, Made, Switched, Renamed, Turned, Same, New, Changed
  <2>. QED  BY <1>1, <2>1, Zenon
<1>3. /\ plan = [create |-> plan.create, switch |-> plan.switch, ids |-> plan.ids,
                 add |-> {}, remove |-> {}, report |-> report]
      /\ plan.create = IF createMissing THEN Made(items) ELSE {}
      /\ plan.ids = Renamed(items)
      /\ plan.switch = Switched(items) \cup omitted \X {"no"}
      /\ plan.report = report
  BY <1>2 DEF NoPlan
<1>4. /\ plan.report.created = created /\ plan.report.activated = on
      /\ plan.report.deactivated = off \cup omitted
      /\ plan.report.unchanged = same /\ plan.report.missing = missing
  BY <1>1, <1>3
<1>5. /\ omitted \subseteq Keys \ SkusOf(items)
      /\ \A k \in omitted : Active(skus[k])
      /\ deactivateMissing => \A k \in Keys \ SkusOf(items) : Active(skus[k]) => k \in omitted
  BY DEF Omitted
<1>6. /\ SkusOf(items) \subseteq Keys
      /\ \A i \in items : i.sku \in Names /\ Casefold(i.sku) \in Keys /\ i.active \in BOOLEAN
  BY SkusOfType
<1>7. /\ new = {k \in SkusOf(items) : skus[k] = NoSku}
      /\ SkusOf(items \ New(items)) = {k \in SkusOf(items) : skus[k] # NoSku}
      /\ on \subseteq {k \in SkusOf(items) : skus[k] # NoSku /\ ~Active(skus[k])}
      /\ off \subseteq {k \in SkusOf(items) : Active(skus[k])}
      /\ same = SkusOf(items \ New(items)) \ (on \cup off)
  BY Sorted
<1>8. \A k : Active(skus[k]) => skus[k] # NoSku
  BY DEF Active
<1>9. \A k : /\ <<k, "yes">> \in plan.switch <=> k \in on
             /\ <<k, "no">> \in plan.switch <=> k \in off \cup omitted
  <2>1. \A k : /\ <<k, "yes">> \notin omitted \X {"no"}
               /\ <<k, "no">> \in omitted \X {"no"} <=> k \in omitted
    OBVIOUS
  <2>. QED  BY <1>3, <2>1, BulkSwitch
<1>10. /\ plan.create \in SUBSET NewRow
       /\ \A row \in plan.create : \E i \in New(items) :
             row.sku = i.sku /\ row.is_active = Bit(i.active)
       /\ \A k : (\E row \in plan.create : Casefold(row.sku) = k) <=> createMissing /\ k \in new
  <2>1. CASE createMissing
    BY <1>3, <2>1, BulkCreate
  <2>2. CASE ~createMissing
    BY <1>3, <2>2
  <2>. QED  BY <2>1, <2>2
<1>11. plan.switch \in SUBSET (Keys \X {"yes", "no"})
  <2>1. \A i \in Changed(items) : Casefold(i.sku) \in Keys /\ Bit(i.active) \in {"yes", "no"}
    BY <1>6 DEF Changed, Bit
  <2>2. Switched(items) \subseteq Keys \X {"yes", "no"}
    BY <2>1 DEF Switched
  <2>3. omitted \X {"no"} \subseteq Keys \X {"yes", "no"}
    BY <1>5
  <2>. QED  BY <1>3, <2>2, <2>3
<1>12. plan \in Plans /\ plan.add = {}
  <2>1. plan.report \in Reports
    <3>1. new \subseteq Keys /\ on \subseteq Keys /\ off \subseteq Keys
      BY <1>6, <1>7
    <3>2. same \subseteq Keys /\ omitted \subseteq Keys
      BY <1>5, <1>6, <1>7
    <3>3. created \in SUBSET Keys /\ missing \in SUBSET Keys /\ off \cup omitted \in SUBSET Keys
      BY <1>1, <3>1, <3>2
    <3>. HIDE DEF on, off, same, omitted, new
    <3>4. report \in Reports
      BY <1>1, <3>1, <3>2, <3>3 DEF Reports
    <3>. QED  BY <1>3, <3>4
  <2>2. plan.ids \in SUBSET Keys
    BY <1>3, <1>6, <1>7 DEF Renamed
  <2>3. [create |-> plan.create, switch |-> plan.switch, ids |-> plan.ids,
         add |-> {}, remove |-> {}, report |-> report] \in Plans
    BY <1>3, <1>10, <1>11, <2>1, <2>2 DEF Plans
  <2>4. plan \in Plans
    BY <1>3, <2>3, Zenon
  <2>5. plan.add = {}
    BY <1>3
  <2>. QED  BY <2>4, <2>5
<1>13. FitsReport(req, skus)
  <2>. SUFFICES ASSUME NEW k \in Keys
                PROVE  /\ k \in plan.report.created <=> skus[k] = NoSku /\ Inserts(plan, k)
                       /\ k \in plan.report.activated <=>
                            skus[k] # NoSku /\ ~Active(skus[k]) /\ <<k, "yes">> \in plan.switch
                       /\ k \in plan.report.deactivated <=>
                            /\ Active(skus[k])
                            /\ <<k, "yes">> \notin plan.switch /\ <<k, "no">> \in plan.switch
                       /\ k \in plan.report.unchanged \cup plan.report.missing <=>
                            /\ k \in SkusOf(items)
                            /\ k \notin plan.report.created \cup plan.report.activated
                                        \cup plan.report.deactivated
    BY DEF FitsReport
  <2>1. k \in plan.report.created <=> skus[k] = NoSku /\ Inserts(plan, k)
    BY <1>1, <1>4, <1>7, <1>10 DEF Inserts
  <2>2. k \in plan.report.activated <=>
          skus[k] # NoSku /\ ~Active(skus[k]) /\ <<k, "yes">> \in plan.switch
    <3>1. plan.report.activated = on
      BY <1>1, <1>4
    <3>2. <<k, "yes">> \in plan.switch <=> k \in on
      BY <1>9
    <3>3. k \in on => skus[k] # NoSku /\ ~Active(skus[k])
      BY <1>7
    <3>. QED  BY <3>1, <3>2, <3>3
  <2>3. k \in plan.report.deactivated <=>
          Active(skus[k]) /\ <<k, "yes">> \notin plan.switch /\ <<k, "no">> \in plan.switch
    BY <1>1, <1>4, <1>5, <1>7, <1>9
  <2>4. k \in plan.report.unchanged \cup plan.report.missing <=>
          /\ k \in SkusOf(items)
          /\ k \notin plan.report.created \cup plan.report.activated \cup plan.report.deactivated
    <3>1. k \in SkusOf(items \ New(items)) <=> k \in SkusOf(items) /\ skus[k] # NoSku
      BY <1>7
    <3>2. k \in same <=> k \in SkusOf(items) /\ skus[k] # NoSku /\ k \notin on /\ k \notin off
      BY <1>7, <3>1
    <3>3. k \in new <=> k \in SkusOf(items) /\ skus[k] = NoSku
      BY <1>7
    <3>4. k \in SkusOf(items) => k \notin omitted
      BY <1>5
    <3>5. k \in on \cup off => skus[k] # NoSku
      BY <1>7, <1>8
    <3>. QED  BY <1>1, <1>4, <3>2, <3>3, <3>4, <3>5
  <2>. QED  BY <2>1, <2>2, <2>3, <2>4
<1>14. ASSUME deactivateMissing, AllActive(items)
       PROVE  FitsSnapshot(req, skus)
  <2>. USE DEF AllActive
  <2>1. off = {}
    BY <1>14 DEF Turned, Changed
  <2>2. \A row \in plan.create : Casefold(row.sku) \in SkusOf(items) /\ row.is_active = "yes"
    BY <1>10, <1>14 DEF New, SkusOf, Bit
  <2>3. \A i \in items : skus[Casefold(i.sku)] # NoSku /\ ~Active(skus[Casefold(i.sku)])
           => Casefold(i.sku) \in on
    <3>1. \A k : Active(skus[k]) \in BOOLEAN
      BY DEF Active
    <3>. QED  BY <1>14, <3>1 DEF Turned, Changed, New, Exists
  <2>4. \A k \in SkusOf(items) : skus[k] # NoSku =>
          <<k, "no">> \notin plan.switch /\ (Active(skus[k]) \/ <<k, "yes">> \in plan.switch)
    <3>1. \A k \in SkusOf(items) : skus[k] # NoSku /\ ~Active(skus[k]) => k \in on
      BY <2>3 DEF SkusOf
    <3>. QED  BY <1>5, <1>9, <2>1, <3>1
  <2>5. \A k \in Keys \ SkusOf(items) :
          <<k, "yes">> \notin plan.switch /\ (Active(skus[k]) => <<k, "no">> \in plan.switch)
    BY <1>5, <1>7, <1>9, <1>14
  <2>. QED  BY <2>2, <2>4, <2>5 DEF FitsSnapshot
<1>. QED  BY <1>12, <1>13, <1>14

-----------------------------------------------------------------------------
(* A commit.                                                               *)

\* The row of every SKU after it: as it was inserted, or as it was but for the
\* identifier and the flag.
LEMMA WrittenIs ==
  ASSUME Rows(skus), NEW plan \in Plans, NEW k \in Keys, NEW row, row = Written(plan, k)
  PROVE  /\ Inserts(plan, k) => row \in plan.create /\ Casefold(row.sku) = k
         /\ ~Inserts(plan, k) /\ skus[k] = NoSku => row = NoSku
         /\ ~Inserts(plan, k) /\ skus[k] # NoSku =>
              /\ row \in Row(k) /\ row.sku = skus[k].sku
              /\ row.id = IF k \in plan.ids THEN row.sku ELSE skus[k].id
              /\ row.is_active = IF <<k, "yes">> \in plan.switch THEN "yes"
                               ELSE IF <<k, "no">> \in plan.switch THEN "no"
                               ELSE skus[k].is_active
              /\ k \notin plan.ids /\ row.is_active = skus[k].is_active => row = skus[k]
<1>1. CASE Inserts(plan, k)
  <2>1. row = CHOOSE r \in plan.create : Casefold(r.sku) = k
    BY <1>1 DEF Written, Inserts
  <2>. QED  BY <1>1, <2>1 DEF Inserts
<1>2. CASE ~Inserts(plan, k) /\ skus[k] = NoSku
  BY <1>2 DEF Written, Inserts, Exists
<1>3. CASE ~Inserts(plan, k) /\ skus[k] # NoSku
  <2>. DEFINE id == IF k \in plan.ids THEN skus[k].sku ELSE skus[k].id
              flag == IF <<k, "yes">> \in plan.switch THEN "yes"
                      ELSE IF <<k, "no">> \in plan.switch THEN "no" ELSE skus[k].is_active
  <2>1. skus[k] \in Row(k) /\ skus[k].sku \in Names
    BY <1>3 DEF Rows, Row, Names, Spellings
  <2>2. row = [skus[k] EXCEPT !.id = id, !.is_active = flag]
    BY <1>3 DEF Written, Inserts, Exists, ExternalId
  <2>3. id \in {Blank} \cup Names /\ flag \in {"yes", "no", "null"}
    BY <2>1 DEF Row
  <2>. HIDE DEF id, flag
  <2>4. row \in Row(k) /\ row.sku = skus[k].sku /\ row.id = id /\ row.is_active = flag
    BY <2>1, <2>2, <2>3 DEF Row
  <2>5. id = skus[k].id /\ flag = skus[k].is_active => row = skus[k]
    <3>1. \A x \in Row(k) : [x EXCEPT !.id = x.id, !.is_active = x.is_active] = x
      BY DEF Row
    <3>. QED  BY <2>1, <2>2, <3>1
  <2>. QED  BY <1>3, <2>4, <2>5 DEF id, flag
<1>. QED  BY <1>1, <1>2, <1>3

LEMMA InsertedRow ==
  ASSUME NEW plan \in Plans, NEW k \in Keys, NEW row \in plan.create, Casefold(row.sku) = k
  PROVE  /\ row \in Row(k) /\ row # NoSku /\ row.id = row.sku
         /\ row.is_active \in {"yes", "no"} /\ row.id \in Names
<1>1. row \in NewRow
  BY DEF Plans
<1>2. row.sku \in Names /\ row.sku \in {k} \X Spellings
  BY <1>1, RowsDiffer DEF NewRow
<1>. QED  BY <1>1, <1>2, RowsDiffer DEF NewRow, Row

LEMMA KeptRow ==
  ASSUME Rows(skus), NEW plan \in Plans, NEW k \in Keys, NEW row, row = Written(plan, k),
         ~Inserts(plan, k), skus[k] # NoSku
  PROVE  /\ row \in Row(k) /\ row.sku = skus[k].sku
         /\ row.id = IF k \in plan.ids THEN row.sku ELSE skus[k].id
<1>1. ~Inserts(plan, k) /\ skus[k] # NoSku =>
        /\ row \in Row(k) /\ row.sku = skus[k].sku
        /\ row.id = IF k \in plan.ids THEN row.sku ELSE skus[k].id
        /\ row.is_active = IF <<k, "yes">> \in plan.switch THEN "yes"
                           ELSE IF <<k, "no">> \in plan.switch THEN "no"
                           ELSE skus[k].is_active
        /\ k \notin plan.ids /\ row.is_active = skus[k].is_active => row = skus[k]
  BY WrittenIs
<1>. QED  BY <1>1

\* No SKU is lost, whatever is written.
LEMMA CommitRows ==
  ASSUME Rows(skus), NEW plan \in Plans, NEW table, table = [k \in Keys |-> Written(plan, k)]
  PROVE  /\ Rows(table)
         /\ \A k \in Keys : skus[k] # NoSku => table[k] # NoSku
<1>. SUFFICES ASSUME NEW k \in Keys
              PROVE  /\ table[k] # NoSku => table[k] \in Row(k) /\ OwnId(table[k])
                     /\ skus[k] # NoSku => table[k] # NoSku
  BY DEF Rows
<1>0. table[k] = Written(plan, k)
  OBVIOUS
<1>1. CASE Inserts(plan, k)
  <2>1. table[k] \in plan.create /\ Casefold(table[k].sku) = k
    BY <1>0, <1>1, WrittenIs
  <2>. QED  BY <2>1, InsertedRow DEF OwnId
<1>2. CASE ~Inserts(plan, k) /\ skus[k] = NoSku
  BY <1>0, <1>2, WrittenIs
<1>3. CASE ~Inserts(plan, k) /\ skus[k] # NoSku
  <2>1. /\ table[k] \in Row(k) /\ table[k].sku = skus[k].sku
        /\ table[k].id = IF k \in plan.ids THEN table[k].sku ELSE skus[k].id
    BY <1>0, <1>3, KeptRow
  <2>2. skus[k].id \in {Blank, skus[k].sku}
    BY <1>3 DEF Rows, OwnId
  <2>. QED  BY <2>1, <2>2, RowsDiffer DEF OwnId
<1>. QED  BY <1>1, <1>2, <1>3

LEMMA CommitKeeps ==
  ASSUME SkuInv, NEW p \in Planned, ~Collides(session[p].plan), Commit(p)
  PROVE  SkuInv'
<1>. DEFINE plan == session[p].plan
<1>1. p \in Sessions /\ plan \in Plans
  BY PlannedAre DEF Pending
<1>2. /\ skus' = [k \in Keys |-> Written(plan, k)]
      /\ promos' = (promos \ plan.remove) \cup plan.add
      /\ session' = [q \in Sessions |->
            CASE q = p -> [pc |-> "applied"]
              [] q # p /\ q \in Planned -> [session[q] EXCEPT !.alone = FALSE]
              [] OTHER -> session[q]]
      /\ ops' = ops
  BY DEF Commit
<1>3. Rows(skus') /\ \A k \in Keys : skus[k] # NoSku => skus'[k] # NoSku
  BY <1>1, <1>2, CommitRows DEF SkuInv
<1>4. \A q \in Sessions :
         session'[q] = IF q = p THEN [pc |-> "applied"]
                       ELSE IF q \in Planned THEN [session[q] EXCEPT !.alone = FALSE]
                       ELSE session[q]
  BY <1>2
<1>5. ASSUME NEW q \in Sessions
      PROVE  /\ session'[q] \in Answers \cup Pending
             /\ session'[q] \in Pending =>
                  /\ q \in Planned /\ session'[q].alone = FALSE
                  /\ session'[q].plan = session[q].plan
  <2>1. CASE q = p
    <3>1. [pc |-> "applied"] \in Answers
      BY PendingDiffers
    <3>. QED  BY <1>4, <2>1, <3>1, PendingDiffers
  <2>2. CASE q # p /\ q \in Planned
    <3>1. session[q] \in Pending
      BY <2>2, PlannedAre
    <3>2. session'[q] = [session[q] EXCEPT !.alone = FALSE]
      BY <1>4, <2>2
    <3>3. /\ [session[q] EXCEPT !.alone = FALSE] \in Pending
          /\ [session[q] EXCEPT !.alone = FALSE].alone = FALSE
          /\ [session[q] EXCEPT !.alone = FALSE].plan = session[q].plan
      BY <3>1 DEF Pending
    <3>. QED  BY <2>2, <3>2, <3>3
  <2>3. CASE q # p /\ q \notin Planned
    BY <1>4, <2>3, PlannedAre, PendingDiffers
  <2>. QED  BY <2>1, <2>2, <2>3
<1>6. session' \in [Sessions -> Answers \cup Pending]
  BY <1>2, <1>5
<1>7. ASSUME NEW q \in Planned'
      PROVE  Grounded(session'[q].plan, skus') /\ Fits(session'[q], skus')
  <2>1. q \in Sessions /\ session'[q] \in Pending
    BY <1>5, PendingDiffers DEF Planned
  <2>2. q \in Planned /\ session'[q].alone = FALSE /\ session'[q].plan = session[q].plan
    BY <1>5, <2>1
  <2>3. session[q].plan.add \subseteq Keys
    BY <2>2, PlannedAre DEF Pending, Plans
  <2>4. Grounded(session[q].plan, skus)
    BY <2>2 DEF SkuInv
  <2>. QED  BY <1>3, <2>2, <2>3, <2>4 DEF Grounded, Fits
<1>8. promos' \subseteq Keys /\ PromotionsHaveParents'
  <2>1. plan.add \subseteq Keys /\ Grounded(plan, skus)
    BY <1>1 DEF Plans, SkuInv
  <2>. QED  BY <1>2, <1>3, <2>1 DEF SkuInv, PromotionsHaveParents, Exists, Grounded
<1>9. skus' = [k \in Keys |-> skus'[k]]
  BY <1>2
<1>. QED  BY <1>2, <1>3, <1>6, <1>7, <1>8, <1>9 DEF SkuInv

-----------------------------------------------------------------------------
(* The requests.                                                           *)

LEMMA SmallPlans ==
  /\ \A rows \in SUBSET NewRow :
       /\ [NoPlan EXCEPT !.create = rows] \in Plans
       /\ [NoPlan EXCEPT !.create = rows].add = {}
  /\ \A keys \in SUBSET Keys :
       /\ [NoPlan EXCEPT !.ids = keys] \in Plans /\ [NoPlan EXCEPT !.ids = keys].add = {}
       /\ [NoPlan EXCEPT !.remove = keys] \in Plans /\ [NoPlan EXCEPT !.remove = keys].add = {}
       /\ [NoPlan EXCEPT !.add = keys] \in Plans /\ [NoPlan EXCEPT !.add = keys].add = keys
  /\ \A switch \in SUBSET (Keys \X {"yes", "no"}) :
       /\ [NoPlan EXCEPT !.switch = switch] \in Plans
       /\ [NoPlan EXCEPT !.switch = switch].add = {}
  /\ \A add, remove \in SUBSET Keys :
       /\ [NoPlan EXCEPT !.add = add, !.remove = remove] \in Plans
       /\ [NoPlan EXCEPT !.add = add, !.remove = remove].add = add
<1>1. NoReport \in Reports
  BY DEF NoReport, Reports
<1>2. NoPlan = [create |-> {}, switch |-> {}, ids |-> {}, add |-> {}, remove |-> {},
                report |-> NoReport]
  BY DEF NoPlan
<1>. QED  BY <1>1, <1>2 DEF Plans

\* A request whose plan is no import's fits whatever it meets.
LEMMA SmallKeeps ==
  ASSUME ChannelAssumption, SkuInv, NEW p \in Sessions,
         NEW op \in {"create", "update", "set", "promo", "promos"},
         NEW plan \in Plans, Plan(p, op, {}, plan), Grounded(plan, skus)
  PROVE  SkuInv'
<1>. DEFINE req == [pc |-> "planned", op |-> op, listed |-> {}, plan |-> plan, alone |-> TRUE]
<1>1. req.op = op
  OBVIOUS
<1>. HIDE DEF req
<1>2. Fits(req, skus)
  BY <1>1 DEF Fits
<1>. QED  BY <1>2, PlanKeeps DEF Ops, req

LEMMA CreateKeeps ==
  ASSUME ChannelAssumption, SkuInv, NEW p \in Sessions, NEW name \in Names, NEW id,
         Create(p, name, id)
  PROVE  SkuInv'
<1>1. CASE Exists(Casefold(name)) \/ id \notin {Blank, name}
  BY <1>1, AnswerKeeps DEF Create
<1>2. CASE ~(Exists(Casefold(name)) \/ id \notin {Blank, name})
  <2>1. {SkuRow(name, ExternalId(name), "yes")} \in SUBSET NewRow
    BY DEF NewRow, SkuRow, ExternalId
  <2>2. PICK plan : plan = [NoPlan EXCEPT !.create = {SkuRow(name, ExternalId(name), "yes")}]
    OBVIOUS
  <2>3. plan \in Plans /\ Grounded(plan, skus)
    BY <2>1, <2>2, SmallPlans DEF Grounded
  <2>4. Plan(p, "create", {}, plan)
    BY <1>2, <2>2 DEF Create
  <2>. QED  BY <2>3, <2>4, SmallKeeps
<1>. QED  BY <1>1, <1>2

LEMMA UpdateKeeps ==
  ASSUME ChannelAssumption, SkuInv, NEW p \in Sessions, NEW k \in Keys, NEW id, Update(p, k, id)
  PROVE  SkuInv'
<1>1. CASE ~Exists(k) \/ id \notin {Blank, skus[k].sku}
  BY <1>1, AnswerKeeps DEF Update
<1>2. CASE ~(~Exists(k) \/ id \notin {Blank, skus[k].sku})
  <2>1. PICK plan : plan = [NoPlan EXCEPT !.ids = {k}]
    OBVIOUS
  <2>2. plan \in Plans /\ Grounded(plan, skus)
    BY <2>1, SmallPlans DEF Grounded
  <2>3. Plan(p, "update", {}, plan)
    BY <1>2, <2>1 DEF Update
  <2>. QED  BY <2>2, <2>3, SmallKeeps
<1>. QED  BY <1>1, <1>2

LEMMA SetActiveKeeps ==
  ASSUME ChannelAssumption, SkuInv, NEW p \in Sessions, NEW k \in Keys, NEW active \in BOOLEAN,
         SetActive(p, k, active)
  PROVE  SkuInv'
<1>1. CASE ~Exists(k)
  BY <1>1, AnswerKeeps DEF SetActive
<1>2. CASE Exists(k)
  <2>1. PICK plan : plan = [NoPlan EXCEPT !.switch = Switches(k, active)]
    OBVIOUS
  <2>2. Switches(k, active) \in SUBSET (Keys \X {"yes", "no"})
    BY DEF Switches, Bit
  <2>3. plan \in Plans /\ Grounded(plan, skus)
    BY <2>1, <2>2, SmallPlans DEF Grounded
  <2>4. Plan(p, "set", {}, plan)
    BY <1>2, <2>1 DEF SetActive
  <2>. QED  BY <2>3, <2>4, SmallKeeps
<1>. QED  BY <1>1, <1>2

LEMMA PromoKeeps ==
  ASSUME ChannelAssumption, SkuInv, NEW p \in Sessions, NEW k \in Keys,
         CreatePromo(p, k) \/ DeletePromo(p, k)
  PROVE  SkuInv'
<1>1. CASE Answer(p, "refused")
  BY <1>1, AnswerKeeps
<1>2. CASE Exists(k) /\ Plan(p, "promo", {}, [NoPlan EXCEPT !.add = {k}])
  <2>1. PICK plan : plan = [NoPlan EXCEPT !.add = {k}]
    OBVIOUS
  <2>2. plan \in Plans /\ plan.add = {k}
    <3>1. {k} \in SUBSET Keys
      OBVIOUS
    <3>. QED  BY <2>1, <3>1, SmallPlans, Zenon
  <2>3. Grounded(plan, skus)
    BY <1>2, <2>2 DEF Grounded, Exists
  <2>. QED  BY <1>2, <2>1, <2>2, <2>3, SmallKeeps
<1>3. CASE Plan(p, "promo", {}, [NoPlan EXCEPT !.remove = {k}])
  <2>1. PICK plan : plan = [NoPlan EXCEPT !.remove = {k}]
    OBVIOUS
  <2>2. plan \in Plans /\ Grounded(plan, skus)
    BY <2>1, SmallPlans DEF Grounded
  <2>. QED  BY <1>3, <2>1, <2>2, SmallKeeps
<1>. QED  BY <1>1, <1>2, <1>3 DEF CreatePromo, DeletePromo

LEMMA ImportKeeps ==
  ASSUME ChannelAssumption, SkuInv, NEW p \in Sessions, NEW sheet \in Sheets,
         NEW status \in BOOLEAN, NEW createMissing \in BOOLEAN,
         ImportSkus(p, sheet, status, createMissing)
  PROVE  SkuInv'
<1>1. CASE ReaderRefuses(sheet, status)
  BY <1>1, AnswerKeeps DEF ImportSkus
<1>2. CASE ~ReaderRefuses(sheet, status)
  <2>1. ~SchemaRefuses(sheet)
    BY <1>2, ReaderPasses
  <2>2. PICK items, op, plan :
          /\ items = Items(sheet, status)
          /\ op = IF status THEN "status" ELSE "snapshot"
          /\ plan = BulkPlan(items, createMissing, ~status)
    OBVIOUS
  <2>3. Plan(p, op, SkusOf(items), plan)
    BY <1>2, <2>1, <2>2, Zenon DEF ImportSkus
  <2>4. Distinct(items) /\ (~status => AllActive(items))
    BY <1>2, <2>2, ItemsAre
  <2>5. SkusOf(items) \in SUBSET Keys
    BY <2>4, SkusOfType DEF Distinct
  <2>6. PICK req : req = [pc |-> "planned", op |-> op, listed |-> SkusOf(items), plan |-> plan,
                          alone |-> TRUE]
    OBVIOUS
  <2>7. req.plan = plan /\ req.listed = SkusOf(items) /\ req.op = op
    BY <2>6
  <2>8. /\ plan \in Plans /\ plan.add = {}
        /\ FitsReport(req, skus)
        /\ ~status => FitsSnapshot(req, skus)
    <3>1. PICK others \in BOOLEAN :
             others = ~status /\ plan = BulkPlan(items, createMissing, others)
      BY <2>2
    <3>2. /\ plan \in Plans /\ plan.add = {}
          /\ FitsReport(req, skus)
          /\ others /\ AllActive(items) => FitsSnapshot(req, skus)
      BY <2>4, <2>7, <3>1, BulkGood
    <3>. QED  BY <2>4, <3>1, <3>2
  <2>9. Fits(req, skus) /\ Grounded(plan, skus)
    BY <2>2, <2>7, <2>8 DEF Fits, Grounded
  <2>10. op \in Ops
    BY <2>2 DEF Ops
  <2>. QED  BY <2>3, <2>5, <2>6, <2>8, <2>9, <2>10, PlanKeeps
<1>. QED  BY <1>1, <1>2

LEMMA ImportPromosKeeps ==
  ASSUME ChannelAssumption, SkuInv, NEW p \in Sessions, NEW sheet \in Sheets,
         ImportPromotions(p, sheet)
  PROVE  SkuInv'
<1>1. CASE Answer(p, "errors")
  BY <1>1, AnswerKeeps
<1>2. CASE ~Answer(p, "errors")
  <2>1. PICK items, requested, plan :
          /\ items = Items(sheet, FALSE) /\ requested = SkusOf(items)
          /\ plan = PromoPlan(requested)
    OBVIOUS
  <2>2. /\ ~ReaderRefuses(sheet, FALSE) /\ Unknown(requested) = {}
        /\ Plan(p, "promos", {}, plan)
    BY <1>2, <2>1, Zenon DEF ImportPromotions
  <2>3. items \in SUBSET [sku : Names, active : BOOLEAN]
    <3>1. FALSE \in BOOLEAN
      OBVIOUS
    <3>2. Items(sheet, FALSE) \in SUBSET [sku : Names, active : BOOLEAN]
      BY <2>2, <3>1, ItemsAre DEF Distinct
    <3>. QED  BY <2>1, <3>2
  <2>4. requested \in SUBSET Keys /\ \A k \in requested : skus[k] # NoSku
    BY <2>1, <2>2, <2>3, SkusOfType DEF Unknown, Exists
  <2>5. plan = [NoPlan EXCEPT !.add = requested \ promos, !.remove = promos \ requested]
    BY <2>1 DEF PromoPlan
  <2>6. requested \ promos \in SUBSET Keys /\ promos \ requested \in SUBSET Keys
    BY <2>4 DEF SkuInv
  <2>7. plan \in Plans /\ plan.add = requested \ promos
    BY <2>5, <2>6, SmallPlans
  <2>. QED  BY <2>2, <2>4, <2>7, SmallKeeps DEF Grounded
<1>. QED  BY <1>1, <1>2

LEMMA RollbackKeeps ==
  ASSUME SkuInv, NEW p \in Sessions, Rollback(p)
  PROVE  SkuInv'
<1>1. Idle \in Answers /\ Idle \notin Pending
  BY PendingDiffers
<1>2. ops' \in 0..MaxOps
  BY DEF SkuInv, Rollback
<1>. QED  BY <1>1, <1>2, SessionKeeps DEF Rollback

LEMMA ConflictKeeps ==
  ASSUME SkuInv, NEW p \in Sessions, Commit(p), Collides(session[p].plan)
  PROVE  SkuInv'
<1>1. [pc |-> "conflict"] \in Answers /\ [pc |-> "conflict"] \notin Pending
  BY PendingDiffers
<1>2. ops' \in 0..MaxOps
  BY DEF SkuInv, Commit
<1>. QED  BY <1>1, <1>2, SessionKeeps DEF Commit

LEMMA SkuInvInductive ==
  ASSUME ChannelAssumption, SkuInv, [Next]_channelVars
  PROVE  SkuInv'
<1>1. CASE \E p \in Sessions : Commit(p) \/ Rollback(p)
  <2>1. PICK p \in Sessions : Commit(p) \/ Rollback(p)
    BY <1>1
  <2>2. CASE Commit(p)
    <3>1. p \in Planned
      BY <2>2 DEF Commit
    <3>. QED  BY <2>2, <3>1, CommitKeeps, ConflictKeeps
  <2>. QED  BY <2>1, <2>2, RollbackKeeps
<1>2. CASE \E p \in Sessions, name \in Names, id \in Names \cup {Blank} : Create(p, name, id)
  BY <1>2, CreateKeeps
<1>3. CASE \E p \in Sessions, k \in Keys, id \in Names \cup {Blank} : Update(p, k, id)
  BY <1>3, UpdateKeeps
<1>4. CASE \E p \in Sessions, k \in Keys, active \in BOOLEAN : SetActive(p, k, active)
  BY <1>4, SetActiveKeeps
<1>5. CASE \E p \in Sessions, k \in Keys : CreatePromo(p, k) \/ DeletePromo(p, k)
  BY <1>5, PromoKeeps
<1>6. CASE \E p \in Sessions, sheet \in Sheets, status, createMissing \in BOOLEAN :
              ImportSkus(p, sheet, status, createMissing)
  BY <1>6, ImportKeeps
<1>7. CASE \E p \in Sessions, sheet \in Sheets : ImportPromotions(p, sheet)
  BY <1>7, ImportPromosKeeps
<1>8. CASE UNCHANGED channelVars
  BY <1>8 DEF channelVars, SkuInv, Planned, PromotionsHaveParents, Exists
<1>. QED  BY <1>1, <1>2, <1>3, <1>4, <1>5, <1>6, <1>7, <1>8 DEF Next

LEMMA SkuInvInit ==
  ASSUME ChannelAssumption, Init
  PROVE  SkuInv
<1>. DEFINE Old(k, active) == SkuRow(<<k, "lower">>, Blank, active)
<1>1. ASSUME NEW k \in Keys, skus[k] # NoSku
      PROVE  skus[k] \in Row(k) /\ OwnId(skus[k])
  <2>1. \E l \in Keys, id \in {Blank}, active \in {"yes", "null"} :
           skus[k] = SkuRow(<<l, "lower">>, id, active)
    BY <1>1 DEF Init
  <2>2. PICK l \in Keys, active \in {"yes", "null"} : skus[k] = Old(l, active)
    BY <2>1
  <2>3. Casefold(skus[k].sku) = k
    BY <1>1 DEF Init
  <2>4. l = k
    BY <2>2, <2>3 DEF SkuRow, Casefold
  <2>. QED  BY <2>2, <2>4 DEF SkuRow, Row, Spellings, OwnId
<1>2. Rows(skus)
  BY <1>1 DEF Rows
<1>3. skus = [k \in Keys |-> skus[k]]
  BY DEF Init
<1>4. promos \subseteq Keys /\ PromotionsHaveParents
  BY DEF Init, PromotionsHaveParents
<1>5. session \in [Sessions -> Answers \cup Pending] /\ Planned = {}
  BY PendingDiffers DEF Init, Planned, Idle
<1>6. ops \in 0..MaxOps
  BY DEF Init, ChannelAssumption
<1>. QED  BY <1>2, <1>3, <1>4, <1>5, <1>6 DEF SkuInv

THEOREM SkuInvHolds ==
  ASSUME ChannelAssumption
  PROVE  Spec => []SkuInv
<1>1. Init => SkuInv
  BY SkuInvInit
<1>2. SkuInv /\ [Next]_channelVars => SkuInv'
  BY SkuInvInductive
<1>. QED  BY <1>1, <1>2, PTL DEF Spec

LEMMA SkuInvIsTyped == SkuInv => TypeOK
<1>. SUFFICES ASSUME SkuInv PROVE TypeOK
  OBVIOUS
<1>1. ASSUME NEW k \in Keys, Exists(k)
      PROVE  /\ skus[k].sku \in Names /\ Casefold(skus[k].sku) = k
             /\ skus[k].id \in {Blank} \cup Names
             /\ skus[k].is_active \in {"yes", "no", "null"}
  <2>1. skus[k] \in Row(k)
    BY <1>1 DEF SkuInv, Rows, Exists
  <2>2. /\ skus[k].sku \in {k} \X Spellings
        /\ skus[k].id \in {Blank} \cup Names
        /\ skus[k].is_active \in {"yes", "no", "null"}
    BY <2>1 DEF Row
  <2>3. PICK c \in Spellings : skus[k].sku = <<k, c>>
    BY <2>2
  <2>. QED  BY <2>2, <2>3 DEF Names, Spellings, Casefold
<1>. QED  BY <1>1 DEF TypeOK, SkuInv

\* Rows, promotions and requests are well formed (TypeOK of ChannelSkus).
THEOREM TypeCorrect ==
  ASSUME ChannelAssumption
  PROVE  Spec => []TypeOK
BY SkuInvIsTyped, SkuInvHolds, PTL

LEMMA InvIsEnough ==
  ASSUME SkuInv
  PROVE  PromotionsHaveParents /\ ReaderSatisfiesSchema
BY DEF SkuInv, ReaderSatisfiesSchema, Answers, Pending

\* No promotion is ever without its SKU, though no constraint of the database ties
\* the two tables and others commit between the look at the parent and the write.
THEOREM ParentsAreThere ==
  ASSUME ChannelAssumption
  PROVE  Spec => []PromotionsHaveParents
BY InvIsEnough, SkuInvHolds, PTL

\* Whatever is in a workbook, the request schema accepts what the reader let pass.
THEOREM ReaderIsEnough ==
  ASSUME ChannelAssumption
  PROVE  Spec => []ReaderSatisfiesSchema
BY InvIsEnough, SkuInvHolds, PTL

-----------------------------------------------------------------------------
(* What a commit does to the table.                                        *)

Writes(p) == Commit(p) /\ ~Collides(session[p].plan)

\* Only a commit that meets no conflict writes, and only it is answered "applied".
LEMMA OnlyCommitsWrite ==
  ASSUME SkuInv, [Next]_channelVars
  PROVE  /\ \A p \in Sessions : Applies(p) => Writes(p)
         /\ skus' # skus => \E p \in Sessions : Writes(p)
<1>1. ASSUME NEW q \in Sessions, q \notin Planned, NEW req, session' = [session EXCEPT ![q] = req]
      PROVE  \A p \in Sessions : ~Applies(p)
  BY <1>1 DEF Applies, Planned, SkuInv
<1>2. ASSUME NEW q \in Sessions, NEW op, NEW listed, NEW plan, Plan(q, op, listed, plan)
      PROVE  skus' = skus /\ \A p \in Sessions : ~Applies(p)
  BY <1>1, <1>2 DEF Plan
<1>3. ASSUME NEW q \in Sessions, NEW pc, Answer(q, pc)
      PROVE  skus' = skus /\ \A p \in Sessions : ~Applies(p)
  BY <1>1, <1>3 DEF Answer
<1>4. ASSUME NEW q \in Sessions, Rollback(q)
      PROVE  skus' = skus /\ \A p \in Sessions : ~Applies(p)
  BY <1>4 DEF Rollback, Idle, Applies, Planned, SkuInv
<1>5. ASSUME NEW q \in Sessions, Commit(q)
      PROVE  /\ \A p \in Sessions : Applies(p) => Writes(p)
             /\ skus' # skus => Writes(q)
  <2>1. CASE Collides(session[q].plan)
    BY <1>5, <2>1 DEF Commit, Applies, Planned, SkuInv
  <2>2. CASE ~Collides(session[q].plan)
    <3>1. \A p \in Sessions : p # q /\ p \in Planned
             => session'[p] = [session[p] EXCEPT !.alone = FALSE]
      BY <1>5, <2>2 DEF Commit
    <3>2. \A p \in Planned : [session[p] EXCEPT !.alone = FALSE].pc = "planned"
      <4>1. \A p \in Planned : session[p] \in Pending
        BY PlannedAre
      <4>. QED  BY <4>1 DEF Pending
    <3>. QED  BY <1>5, <2>2, <3>1, <3>2 DEF Applies, Writes
  <2>. QED  BY <2>1, <2>2
<1>6. CASE \E p \in Sessions : Commit(p) \/ Rollback(p)
  BY <1>4, <1>5, <1>6
<1>7. CASE \E p \in Sessions, name \in Names, id \in Names \cup {Blank} : Create(p, name, id)
  BY <1>2, <1>3, <1>7, Zenon DEF Create
<1>8. CASE \E p \in Sessions, k \in Keys, id \in Names \cup {Blank} : Update(p, k, id)
  BY <1>2, <1>3, <1>8, Zenon DEF Update
<1>9. CASE \E p \in Sessions, k \in Keys, active \in BOOLEAN : SetActive(p, k, active)
  BY <1>2, <1>3, <1>9, Zenon DEF SetActive
<1>10. CASE \E p \in Sessions, k \in Keys : CreatePromo(p, k) \/ DeletePromo(p, k)
  BY <1>2, <1>3, <1>10, Zenon DEF CreatePromo, DeletePromo
<1>11. CASE \E p \in Sessions, sheet \in Sheets, status, createMissing \in BOOLEAN :
               ImportSkus(p, sheet, status, createMissing)
  BY <1>2, <1>3, <1>11, Zenon DEF ImportSkus
<1>12. CASE \E p \in Sessions, sheet \in Sheets : ImportPromotions(p, sheet)
  BY <1>2, <1>3, <1>12, Zenon DEF ImportPromotions
<1>13. CASE UNCHANGED channelVars
  BY <1>13 DEF channelVars, Applies, Planned
<1>. QED  BY <1>6, <1>7, <1>8, <1>9, <1>10, <1>11, <1>12, <1>13 DEF Next

\* What is in the table after a commit, SKU by SKU.
LEMMA WritesAre ==
  ASSUME SkuInv, NEW p \in Sessions, Writes(p), NEW k \in Keys,
         NEW plan, plan = session[p].plan
  PROVE  /\ plan \in Plans /\ session[p] \in Pending /\ Fits(session[p], skus)
         /\ Inserts(plan, k) => /\ skus[k] = NoSku
                                /\ skus'[k] \in plan.create /\ Casefold(skus'[k].sku) = k
         /\ ~Inserts(plan, k) /\ skus[k] = NoSku => skus'[k] = NoSku
         /\ ~Inserts(plan, k) /\ skus[k] # NoSku =>
              /\ skus'[k] \in Row(k) /\ skus'[k].sku = skus[k].sku
              /\ skus'[k].id = IF k \in plan.ids THEN skus'[k].sku ELSE skus[k].id
              /\ skus'[k].is_active = IF <<k, "yes">> \in plan.switch THEN "yes"
                                   ELSE IF <<k, "no">> \in plan.switch THEN "no"
                                   ELSE skus[k].is_active
              /\ k \notin plan.ids /\ skus'[k].is_active = skus[k].is_active => skus'[k] = skus[k]
<1>1. p \in Planned /\ session[p] \in Pending /\ plan \in Plans /\ Fits(session[p], skus)
  <2>1. p \in Planned
    BY DEF Writes, Commit
  <2>. QED  BY <2>1, PlannedAre DEF Pending, SkuInv
<1>2. skus'[k] = Written(plan, k)
  BY DEF Writes, Commit
<1>3. Inserts(plan, k) => skus[k] = NoSku
  BY DEF Writes, Collides, Inserts, Exists
<1>4. Rows(skus)
  BY DEF SkuInv
<1>. QED  BY <1>1, <1>2, <1>3, <1>4, WrittenIs

LEMMA IdIsWritten ==
  ASSUME SkuInv, [Next]_channelVars
  PROVE  IdWritten
<1>. SUFFICES ASSUME NEW k \in Keys, skus'[k] # skus[k], skus'[k].id # Blank
              PROVE  skus'[k].id = skus'[k].sku
  BY DEF IdWritten
<1>1. PICK p \in Sessions : Writes(p)
  BY OnlyCommitsWrite
<1>2. PICK plan : plan = session[p].plan
  OBVIOUS
<1>3. CASE Inserts(plan, k)
  <2>1. plan \in Plans /\ skus'[k] \in plan.create /\ Casefold(skus'[k].sku) = k
    BY <1>1, <1>2, <1>3, WritesAre
  <2>. QED  BY <2>1, InsertedRow
<1>4. CASE ~Inserts(plan, k)
  <2>1. skus[k] # NoSku
    BY <1>1, <1>2, <1>4, WritesAre
  <2>2. skus[k].id \in {Blank, skus[k].sku}
    BY <2>1 DEF SkuInv, Rows, OwnId
  <2>. QED  BY <1>1, <1>2, <1>4, <2>1, <2>2, WritesAre
<1>. QED  BY <1>3, <1>4

\* However a request or a workbook spells a SKU, the external identifier that is written
\* is the SKU as its row spells it.
THEOREM IdsAreTheSkus ==
  ASSUME ChannelAssumption
  PROVE  Spec => IdsFollowSkus
<1>1. SkuInv /\ [Next]_channelVars => [IdWritten]_channelVars
  BY IdIsWritten
<1>. QED  BY <1>1, SkuInvHolds, PTL DEF Spec, IdsFollowSkus

\* Which SKUs a commit leaves there, and active.
LEMMA ActiveAfter ==
  ASSUME SkuInv, NEW p \in Sessions, Writes(p), NEW k \in Keys,
         NEW plan, plan = session[p].plan
  PROVE  /\ Inserts(plan, k) => skus'[k] \in plan.create /\ Casefold(skus'[k].sku) = k
         /\ skus'[k] # NoSku <=> skus[k] # NoSku \/ Inserts(plan, k)
         /\ Inserts(plan, k) => skus[k] = NoSku
         /\ skus[k] # NoSku =>
              Active(skus'[k]) = IF <<k, "yes">> \in plan.switch THEN TRUE
                                 ELSE <<k, "no">> \notin plan.switch /\ Active(skus[k])
<1>1. CASE Inserts(plan, k)
  <2>1. plan \in Plans /\ skus[k] = NoSku /\ skus'[k] \in plan.create /\ Casefold(skus'[k].sku) = k
    BY <1>1, WritesAre
  <2>2. skus'[k] # NoSku
    BY <2>1, InsertedRow
  <2>. QED  BY <1>1, <2>1, <2>2 DEF Active
<1>2. CASE ~Inserts(plan, k) /\ skus[k] = NoSku
  <2>1. skus'[k] = NoSku
    BY <1>2, WritesAre
  <2>. QED  BY <1>2, <2>1
<1>3. CASE ~Inserts(plan, k) /\ skus[k] # NoSku
  <2>1. /\ skus'[k] \in Row(k)
        /\ skus'[k].is_active = IF <<k, "yes">> \in plan.switch THEN "yes"
                                ELSE IF <<k, "no">> \in plan.switch THEN "no"
                                ELSE skus[k].is_active
    BY <1>3, WritesAre
  <2>2. skus'[k] # NoSku
    BY <2>1, RowsDiffer
  <2>. QED  BY <1>3, <2>1, <2>2 DEF Active
<1>. QED  BY <1>1, <1>2, <1>3

LEMMA SnapshotIsExact ==
  ASSUME SkuInv, [Next]_channelVars
  PROVE  SnapshotAlone
<1>. SUFFICES ASSUME NEW p \in Sessions, Applies(p), session[p].alone, session[p].op = "snapshot"
              PROVE  {k \in Keys : Active(skus'[k])}
                        = {k \in session[p].listed : skus'[k] # NoSku}
  BY DEF SnapshotAlone
<1>1. Writes(p)
  BY OnlyCommitsWrite
<1>2. PICK plan, listed : plan = session[p].plan /\ listed = session[p].listed
  OBVIOUS
<1>3. session[p] \in Pending /\ FitsSnapshot(session[p], skus)
  <2>1. p \in Planned
    BY <1>1 DEF Writes, Commit
  <2>. QED  BY <2>1, PlannedAre DEF SkuInv, Fits
<1>4. listed \subseteq Keys
  BY <1>2, <1>3 DEF Pending
<1>5. ASSUME NEW k \in Keys
      PROVE  Active(skus'[k]) <=> k \in listed /\ skus'[k] # NoSku
  <2>1. CASE Inserts(plan, k)
    <3>1. \A row \in plan.create : Casefold(row.sku) = k => k \in listed /\ row.is_active = "yes"
      BY <1>2, <1>3 DEF FitsSnapshot
    <3>2. skus'[k] \in plan.create /\ Casefold(skus'[k].sku) = k
      BY <1>1, <1>2, <2>1, ActiveAfter
    <3>3. skus'[k] # NoSku
      BY <1>1, <1>2, <2>1, ActiveAfter
    <3>. QED  BY <3>1, <3>2, <3>3 DEF Active
  <2>2. CASE ~Inserts(plan, k) /\ skus[k] = NoSku
    <3>1. skus'[k] = NoSku
      BY <1>1, <1>2, <2>2, ActiveAfter
    <3>. QED  BY <3>1 DEF Active
  <2>3. CASE ~Inserts(plan, k) /\ skus[k] # NoSku
    <3>1. skus'[k] # NoSku
      BY <1>1, <1>2, <2>3, ActiveAfter
    <3>2. Active(skus'[k]) = IF <<k, "yes">> \in plan.switch THEN TRUE
                            ELSE <<k, "no">> \notin plan.switch /\ Active(skus[k])
      BY <1>1, <1>2, <2>3, ActiveAfter
    <3>3. k \in listed => <<k, "no">> \notin plan.switch
                           /\ (Active(skus[k]) \/ <<k, "yes">> \in plan.switch)
      BY <1>2, <1>3, <2>3 DEF FitsSnapshot
    <3>4. k \notin listed => <<k, "yes">> \notin plan.switch
                              /\ (Active(skus[k]) => <<k, "no">> \in plan.switch)
      BY <1>2, <1>3 DEF FitsSnapshot
    <3>. QED  BY <3>1, <3>2, <3>3, <3>4
  <2>. QED  BY <2>1, <2>2, <2>3
<1>. QED  BY <1>2, <1>4, <1>5

\* A snapshot nobody came between leaves active the SKUs it lists and no other, in
\* whatever spelling it lists them and whatever was there.
THEOREM SnapshotsAreExact ==
  ASSUME ChannelAssumption
  PROVE  Spec => SnapshotExact
<1>1. SkuInv /\ [Next]_channelVars => [SnapshotAlone]_channelVars
  BY SnapshotIsExact
<1>. QED  BY <1>1, SkuInvHolds, PTL DEF Spec, SnapshotExact

LEMMA ReportIsWhatItDid ==
  ASSUME SkuInv, [Next]_channelVars
  PROVE  ImportAlone
<1>. SUFFICES ASSUME NEW p \in Sessions, Applies(p), session[p].alone,
                     session[p].op \in {"status", "snapshot"},
                     NEW r, r = session[p].plan.report
              PROVE  /\ r.created = {k \in Keys : ~Exists(k) /\ skus'[k] # NoSku}
                     /\ r.activated
                          = {k \in Keys : Exists(k) /\ ~Active(skus[k]) /\ Active(skus'[k])}
                     /\ r.deactivated = {k \in Keys : Active(skus[k]) /\ ~Active(skus'[k])}
                     /\ session[p].listed \ (r.created \cup r.activated \cup r.deactivated)
                           = r.unchanged \cup r.missing
  BY DEF ImportAlone
<1>1. Writes(p)
  BY OnlyCommitsWrite
<1>2. PICK plan, listed : plan = session[p].plan /\ listed = session[p].listed
  OBVIOUS
<1>3. session[p] \in Pending /\ FitsReport(session[p], skus)
  <2>1. p \in Planned
    BY <1>1 DEF Writes, Commit
  <2>. QED  BY <2>1, PlannedAre DEF SkuInv, Fits
<1>4. listed \subseteq Keys /\ r \in Reports
  BY <1>2, <1>3 DEF Pending, Plans
<1>5. ASSUME NEW k \in Keys
      PROVE  /\ k \in r.created <=> skus[k] = NoSku /\ skus'[k] # NoSku
             /\ k \in r.activated <=> skus[k] # NoSku /\ ~Active(skus[k]) /\ Active(skus'[k])
             /\ k \in r.deactivated <=> Active(skus[k]) /\ ~Active(skus'[k])
             /\ k \in r.unchanged \cup r.missing <=>
                  k \in listed /\ k \notin r.created \cup r.activated \cup r.deactivated
  <2>1. /\ skus'[k] # NoSku <=> skus[k] # NoSku \/ Inserts(plan, k)
        /\ Inserts(plan, k) => skus[k] = NoSku
        /\ skus[k] # NoSku =>
             Active(skus'[k]) = IF <<k, "yes">> \in plan.switch THEN TRUE
                                 ELSE <<k, "no">> \notin plan.switch /\ Active(skus[k])
    BY <1>1, <1>2, ActiveAfter
  <2>2. /\ k \in r.created <=> skus[k] = NoSku /\ Inserts(plan, k)
        /\ k \in r.activated <=>
             skus[k] # NoSku /\ ~Active(skus[k]) /\ <<k, "yes">> \in plan.switch
        /\ k \in r.deactivated <=>
             Active(skus[k]) /\ <<k, "yes">> \notin plan.switch /\ <<k, "no">> \in plan.switch
        /\ k \in r.unchanged \cup r.missing <=>
             k \in listed /\ k \notin r.created \cup r.activated \cup r.deactivated
    BY <1>2, <1>3 DEF FitsReport
  <2>3. Active(skus[k]) => skus[k] # NoSku
    BY DEF Active
  <2>. QED  BY <2>1, <2>2, <2>3
<1>6. /\ r.created \subseteq Keys /\ r.activated \subseteq Keys /\ r.deactivated \subseteq Keys
      /\ r.unchanged \subseteq Keys /\ r.missing \subseteq Keys
  BY <1>4 DEF Reports
<1>7. r.created = {k \in Keys : ~Exists(k) /\ skus'[k] # NoSku}
  BY <1>5, <1>6 DEF Exists
<1>8. r.activated = {k \in Keys : Exists(k) /\ ~Active(skus[k]) /\ Active(skus'[k])}
  BY <1>5, <1>6 DEF Exists
<1>9. r.deactivated = {k \in Keys : Active(skus[k]) /\ ~Active(skus'[k])}
  BY <1>5, <1>6
<1>10. listed \ (r.created \cup r.activated \cup r.deactivated) = r.unchanged \cup r.missing
  BY <1>4, <1>5, <1>6
<1>. QED  BY <1>2, <1>7, <1>8, <1>9, <1>10

\* The counts an import answers with are what it did to the table, when nobody came
\* between its look at the table and its commit.
THEOREM ReportsAreTrue ==
  ASSUME ChannelAssumption
  PROVE  Spec => ReportIsTrue
<1>1. SkuInv /\ [Next]_channelVars => [ImportAlone]_channelVars
  BY ReportIsWhatItDid
<1>. QED  BY <1>1, SkuInvHolds, PTL DEF Spec, ReportIsTrue

=============================================================================
