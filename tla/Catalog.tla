-------------------------------- MODULE Catalog --------------------------------
(***************************************************************************)
(* The catalogue tables: companies, areas, currencies, mailing parameters,  *)
(* roles, permissions, the switches of the modules, the scheduled jobs.     *)
(* Operators create, edit, activate and deactivate rows, a request reading  *)
(* first and committing later; the seed goes over every table and commits   *)
(* once.  Rows are never deleted, apart from the links between a role and   *)
(* a permission.                                                           *)
(*                                                                         *)
(* A commit writes the columns its request changed, onto whatever the row   *)
(* has become; an insert that repeats a unique code takes the whole         *)
(* transaction down.                                                       *)
(***************************************************************************)
EXTENDS RowStore

CONSTANTS
    Tables,     \* the tables of this instance, a subset of AllTables
    Requests,   \* requests of operators
    Seeds,      \* runs of the seed
    Ids,        \* identifiers of rows, per table
    Bound       \* requests the operators make in all

VARIABLES
    rows,       \* rows[t][i]: row i of table t, or NoRow
    locked,     \* modules switched off by the environment, for good
    tx,         \* tx[p]: the transaction of request or seed p
    made,       \* requests and seeds begun so far
    overlapped, \* has a transaction committed while another was open?
    seeded      \* was the last transaction to change a row a seed?

catalogVars == <<rows, locked, tx, made, overlapped, seeded>>
-----------------------------------------------------------------------------
(* Codes.  "A" and "B" are codes as the tables keep them, "a" and " A" two   *)
(* other ways of writing the first.  The seed lists "A" in every table and   *)
(* takes "B" for the name of one of its own former schedules.                *)
Spelling == {"A", "a", " A", "B"}
AllTables == {"company", "area", "currency", "mailing", "role", "permission", "user",
              "link", "module", "status", "schedule"}

\* Identifiers count from 1; a request is no seed.
CatalogAssumption ==
    /\ Tables \subseteq AllTables /\ Bound \in Nat
    /\ Ids \subseteq Nat \ {0} /\ IsFiniteSet(Ids)
    /\ Requests \cap Seeds = {} /\ IsFiniteSet(Requests \cup Seeds)

UpperCased == {"company", "area", "currency"}
LowerCased == {"permission", "user"}

\* strip() alone for a role or a mailing parameter, with upper() or lower() for
\* most; the name of a schedule is kept as it comes.  Whichever case a table
\* keeps is the one written "A".
X_Stored(t, c) == IF c = " A" THEN "A" ELSE c
Stored(t, c) ==
    CASE c = " A" /\ t # "schedule" -> "A"
      [] c = "a" /\ t \in UpperCased \cup LowerCased -> "A"
      [] OTHER -> c

\* A link names its role and its permission by their identifiers.
Spellings(t) == IF t = "link" THEN {"A", "B"} ELSE Spelling

\* live is the column active, or enabled; text the columns the seed lists; own
\* the ones it leaves alone: the reason a module is off, the next run and the
\* last job of a schedule, the password of a user.
Row == [code : Spelling, live : BOOLEAN, text : {"seed", "operator"}, own : {"none", "set"}]

WithCode(t, c) == {i \in In(rows[t]) : rows[t][i].code = c}
-----------------------------------------------------------------------------
(* Transactions: op is what was asked, left the tables a seed has yet to read. *)
Idle == [op |-> "idle", writes |-> {}, left |-> {}]

Pending == UNION {tx[p].writes : p \in Requests \cup Seeds}
Space(t) == Room(t, rows[t], Pending)

Begin(r, op, writes) ==
    /\ made < Bound
    /\ tx[r] = Idle
    /\ made' = made + 1
    /\ tx' = [tx EXCEPT ![r] = [op |-> op, writes |-> writes, left |-> {}]]
    /\ UNCHANGED <<rows, locked, overlapped, seeded>>

\* The unique constraints on the code of every table, the primary key of a link.
Unique(table) == UniqueBy(table, "code")

\* MasterService._commit and the like: a violated constraint rolls everything back.
Commit(p) ==
    LET after == [t \in Tables |-> After(t, rows[t], tx[p].writes)] IN
    /\ tx[p] # Idle
    /\ tx[p].left = {}
    /\ rows' = IF \A t \in Tables : Unique(after[t]) THEN after ELSE rows
    /\ tx' = [tx EXCEPT ![p] = Idle]
    /\ overlapped' = (overlapped \/ (rows' # rows /\ \E q \in Requests \cup Seeds :
                                                q # p /\ tx[q] # Idle))
    /\ seeded' = IF tx[p].op = "seed" THEN TRUE ELSE seeded /\ rows' = rows
    /\ UNCHANGED <<locked, made>>
-----------------------------------------------------------------------------
(* What operators ask for.                                                   *)
Created == {"company", "area", "currency", "mailing", "role", "permission", "user",
            "link", "schedule"}
Edited == Created \ {"link", "user"}
Switched == Edited

\* create_company, create_currency, create_role, register_user, ...: an inactive
\* row still holds its code.
Create(r, t, c) ==
    /\ t \in Created
    /\ WithCode(t, Stored(t, c)) = {}
    /\ Space(t)
    /\ Begin(r, "create", {Insert(t, [code |-> Stored(t, c), live |-> TRUE,
                                      text |-> "operator", own |-> "none"])})

\* update_company, update_role, update_permission, ...: the code may change.
Edit(r, t, i, c) ==
    /\ t \in Edited
    /\ i \in In(rows[t])
    /\ WithCode(t, Stored(t, c)) \subseteq {i}
    /\ Begin(r, "edit", {Update(t, i, rows[t][i], [rows[t][i] EXCEPT !.code = Stored(t, c),
                                                        !.text = "operator"])})

\* set_..._active, delete_..., the "active" of an update: no row goes away.
SetActive(r, t, i, live) ==
    /\ t \in Switched
    /\ i \in In(rows[t])
    /\ Begin(r, "set_active", {Update(t, i, rows[t][i], [rows[t][i] EXCEPT !.live = live])})

\* remove_role_permission, the only row that is deleted.
Unlink(r, t, i) ==
    /\ t = "link"
    /\ i \in In(rows[t])
    /\ Begin(r, "unlink", {Update(t, i, rows[t][i], NoRow)})

\* A tick or an operator moves the next run of a schedule.
Advance(r, t, i) ==
    /\ t = "schedule"
    /\ i \in In(rows[t])
    /\ Begin(r, "advance", {Update(t, i, rows[t][i], [rows[t][i] EXCEPT !.own = "set"])})
-----------------------------------------------------------------------------
(* The switches of the modules: a row is optional, the environment prevails. *)
ModuleRow(c) == IF WithCode("module", c) = {} THEN NoRow
                ELSE rows["module"][CHOOSE i \in WithCode("module", c) : TRUE]
Catalogued == {"A"}

\* set_module_enabled: switching on clears the reason, switching off replaces it.
SetModuleEnabled(r, c, enabled, own) ==
    LET reason == IF enabled THEN "none" ELSE own IN
    /\ "module" \in Tables
    /\ c \in Catalogued \ locked
    /\ Begin(r, "switch",
             IF WithCode("module", c) = {}
             THEN {Insert("module", [code |-> c, live |-> enabled, text |-> "seed",
                                     own |-> reason])}
             ELSE {Update("module", i, rows["module"][i], [rows["module"][i] EXCEPT !.live = enabled,
                                                                !.own = reason])
                      : i \in WithCode("module", c)})

\* get_disabled_reason: what a request to the module, or a worker, is told.
DisabledReason(c) ==
    IF c \in locked THEN "environment"
    ELSE IF ModuleRow(c) = NoRow \/ ModuleRow(c).live THEN "on"
    ELSE IF ModuleRow(c).own = "set" THEN "reason" ELSE "administrator"

\* enabled_module_codes: what /auth/me gives the front end for its menu.
EnabledCodes ==
    {c \in Catalogued \ locked : ModuleRow(c) = NoRow \/ ModuleRow(c).live}

\* _build_module_response: what the panel of modules shows.
Panel(c) ==
    LET reason == IF c \in locked THEN "environment"
                  ELSE IF ModuleRow(c) # NoRow /\ ~ModuleRow(c).live
                       THEN IF ModuleRow(c).own = "set" THEN "reason" ELSE "administrator"
                  ELSE "on"
    IN [enabled |-> reason = "on", reason |-> reason, locked |-> c \in locked]
-----------------------------------------------------------------------------
(* The seed: for each table, the row "A" if it is missing; if it is there,   *)
(* the columns the seed takes back.                                          *)
FirstRow == [code |-> "A", live |-> TRUE, text |-> "seed", own |-> "none"]

\* ensure_permissions, ensure_roles, ensure_admin_user, ensure_user_profile,
\* ensure_role_permissions.
SeedSecurity(t, row) ==
    CASE t = "permission"      -> [row EXCEPT !.live = TRUE, !.text = "seed"]
      [] t \in {"role", "user"} -> [row EXCEPT !.live = TRUE]
      [] t = "link"            -> row

\* ensure_company, ensure_area, ensure_currency, ensure_mailing_parameters,
\* ensure_modules.
SeedMaster(t, row) ==
    IF t = "module" THEN [row EXCEPT !.text = "seed"]
    ELSE [row EXCEPT !.live = TRUE, !.text = "seed"]

\* ensure_provision_statuses.
SeedStatus(row) == [row EXCEPT !.text = "seed"]

\* ensure_scheduled_jobs: the definition and the switch, never the next run.
X_SeedSchedule(row) == [row EXCEPT !.text = "seed"]
SeedSchedule(row) == [row EXCEPT !.live = TRUE, !.text = "seed"]

Reseeded(t, row) ==
    CASE t \in {"permission", "role", "user", "link"} -> SeedSecurity(t, row)
      [] t = "status" -> SeedStatus(row)
      [] t = "schedule" -> SeedSchedule(row)
      [] OTHER -> SeedMaster(t, row)

\* disable_legacy_icg_scheduled_jobs.
Legacy(t) ==
    IF t # "schedule" THEN {}
    ELSE {Update(t, i, rows[t][i], [rows[t][i] EXCEPT !.live = FALSE]) : i \in WithCode(t, "B")}

SeedWrites(t) ==
    Legacy(t) \cup
    (IF WithCode(t, "A") = {} THEN {Insert(t, FirstRow)}
     ELSE {Update(t, i, rows[t][i], Reseeded(t, rows[t][i])) : i \in WithCode(t, "A")})

RunSeed(s) ==
    /\ made < Bound
    /\ tx[s] = Idle
    /\ made' = made + 1
    /\ tx' = [tx EXCEPT ![s] = [op |-> "seed", writes |-> {}, left |-> Tables]]
    /\ UNCHANGED <<rows, locked, overlapped, seeded>>

SeedOrder == <<"permission", "role", "user", "link", "company", "area", "currency",
               "module", "mailing", "status", "schedule">>
Turn(left) == LET first == CHOOSE n \in DOMAIN SeedOrder :
                              /\ SeedOrder[n] \in left
                              /\ \A k \in 1..(n - 1) : SeedOrder[k] \notin left
              IN SeedOrder[first]

\* The next of the ensure_ functions reads its table; nothing is committed yet.
Ensure(s) ==
    /\ tx[s].left # {}
    /\ LET t == Turn(tx[s].left) IN
          /\ WithCode(t, "A") # {} \/ Space(t)
          /\ tx' = [tx EXCEPT ![s].left = @ \ {t}, ![s].writes = @ \cup SeedWrites(t)]
    /\ UNCHANGED <<rows, locked, made, overlapped, seeded>>
-----------------------------------------------------------------------------
Init ==
    /\ rows \in [Tables -> {[i \in Ids |-> NoRow],
                            [i \in Ids |-> IF i = 1 THEN FirstRow ELSE NoRow]}]
    /\ \A t, u \in Tables : rows[t] = rows[u]
    /\ locked \in SUBSET Catalogued
    /\ tx = [p \in Requests \cup Seeds |-> Idle]
    /\ made = 0
    /\ overlapped = FALSE
    /\ seeded = FALSE

Next ==
    \/ \E r \in Requests, t \in Tables :
          \/ \E c \in Spellings(t) : Create(r, t, c)
          \/ \E i \in Ids :
                \/ \E c \in Spellings(t) : Edit(r, t, i, c)
                \/ \E live \in BOOLEAN : SetActive(r, t, i, live)
                \/ Unlink(r, t, i)
                \/ Advance(r, t, i)
    \/ \E r \in Requests, c \in Catalogued, enabled \in BOOLEAN, own \in {"none", "set"} :
          SetModuleEnabled(r, c, enabled, own)
    \/ \E s \in Seeds : RunSeed(s) \/ Ensure(s)
    \/ \E p \in Requests \cup Seeds : Commit(p)
    \/ made = Bound /\ (\A p \in Requests \cup Seeds : tx[p] = Idle) /\ UNCHANGED catalogVars

Spec == Init /\ [][Next]_catalogVars
-----------------------------------------------------------------------------
(* The rows and the open transactions are well formed.                       *)
TypeOK ==
    /\ rows \in [Tables -> [Ids -> Row \cup {NoRow}]]
    /\ made \in 0..Bound
    /\ overlapped \in BOOLEAN /\ seeded \in BOOLEAN
    /\ \A p \in Requests \cup Seeds :
          \A w \in tx[p].writes : w.table \in Tables /\ w.id \in Ids \cup {0}

(* No table holds one code twice under two spellings, through creations,     *)
(* renames and the seed, whichever of them overlap: the look-up before the   *)
(* commit and the unique constraint see the code as it is stored.            *)
Meaning(t, c) ==
    CASE t = "schedule" -> c
      [] t \in {"role", "mailing"} -> IF c = " A" THEN "A" ELSE c
      [] OTHER -> IF c \in {" A", "a"} THEN "A" ELSE c
NoTwins ==
    \A t \in Tables : \A i, j \in In(rows[t]) :
        Meaning(t, rows[t][i].code) = Meaning(t, rows[t][j].code) => i = j

(* The gate that answers 503, the list the front end builds its menu from    *)
(* and the panel of the administrator compute apart whether a module is on;  *)
(* they always agree, and on the reason.                                     *)
PanelAgreesWithGate ==
    "module" \in Tables => \A c \in Catalogued :
        /\ (c \in EnabledCodes) <=> (DisabledReason(c) = "on")
        /\ Panel(c).enabled <=> (c \in EnabledCodes)
        /\ Panel(c).reason = DisabledReason(c)

(* Whatever the operators have made of the tables, a seed that follows a     *)
(* seed, with nothing between or beside them, changes no row.                *)
SeedAgain ==
    \A s \in Seeds :
        tx[s] # Idle /\ tx'[s] = Idle /\ seeded /\ ~overlapped' => rows' = rows
SeedIsIdempotent == [][SeedAgain]_catalogVars

(* A run of the seed never turns on a module the operator switched off: only *)
(* a request to switch it does (seed_service.py:743, "si el operador apago un *)
(* modulo, volver a correr el seed no lo debe prender").                     *)
SwitchedOn ==
    \A i \in Ids :
        "module" \in Tables /\ i \in In(rows["module"]) /\ ~rows["module"][i].live
            /\ rows'["module"][i].live
        => \E r \in Requests : tx[r].op = "switch" /\ tx'[r] = Idle
SwitchSurvivesSeed == [][SwitchedOn]_catalogVars

(* The seed is one transaction: when it commits beside no other, every table *)
(* holds its code, active where the seed activates.                          *)
SeedAlone ==
    \A s \in Seeds :
        tx[s] # Idle /\ tx'[s] = Idle /\ ~overlapped'
        => \A t \in Tables : \E i \in Ids :
              /\ rows'[t][i] # NoRow /\ rows'[t][i].code = "A"
              /\ t \in {"company", "role", "schedule"} => rows'[t][i].live
SeedLeavesAll == [][SeedAlone]_catalogVars
=============================================================================
