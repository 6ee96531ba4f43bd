------------------------------- MODULE MCRecords -------------------------------
(***************************************************************************)
(* Small instances of the modules about rows that requests change: Catalog,  *)
(* Access and Ledger.  They share no state, so that a behaviour belongs to    *)
(* one of them and the others stay where they begin.                        *)
(***************************************************************************)
EXTENDS TLC, Naturals

CONSTANTS
    Actors,  \* requests, administrators, workers, sessions
    Seeds, Tables, RowIds, Edits,                   \* of Catalog
    Companies, Areas, All, KeyIds, Moves,           \* of Access
    Entries, Kinds, Posted, RuleIds, Shapes, LastDay, Operations,   \* of Ledger
    e1, e2, k1, k2

VARIABLES
    whose,                                                      \* whose behaviour it is
    rows, locked, tx, made, overlapped, seeded,                 \* Catalog
    acl, working, ask, moves, crossed, replaced, issued,        \* Access
    sap, ledger, rule, today, proc, steps, mixed, raced, holes         \* Ledger

catalogVars == <<rows, locked, tx, made, overlapped, seeded>>
accessVars == <<acl, working, ask, moves, crossed, replaced, issued>>
ledgerVars == <<sap, ledger, rule, today, proc, steps, mixed, raced, holes>>
recordVars == <<whose, catalogVars, accessVars, ledgerVars>>

Books == INSTANCE Catalog
    WITH Requests <- Actors, Ids <- RowIds, Bound <- Edits

Doors == INSTANCE Access
    WITH Administrators <- Actors, Keys <- KeyIds

\* A rule that claims a kind, one of lower rank that claims both, one that is off.
RuleShapes ==
    {[prio |-> 1, match |-> {k1, k2}, except |-> {k1}, active |-> TRUE],
     [prio |-> 2, match |-> {k1, k2}, except |-> {}, active |-> TRUE],
     [prio |-> 1, match |-> {k1}, except |-> {}, active |-> FALSE]}

PostedOn == (e1 :> 1) @@ (e2 :> 2)
Diary == INSTANCE Ledger
    WITH Rules <- RuleIds, Procs <- Actors, Bound <- Operations

ASSUME BooksAssumption == Books!CatalogAssumption
ASSUME DoorsAssumption == Doors!AccessAssumption
ASSUME DiaryAssumption == Diary!LedgerAssumption
-----------------------------------------------------------------------------
\* The modules that begin in several states do so in their own behaviours only.
RecordsInit ==
    /\ whose \in {"catalog", "access", "ledger"}
    /\ Books!Init
    /\ whose = "catalog" \/ (locked = {} /\ \A t \in Tables : rows[t][1] = Books!NoRow)
    /\ Diary!Init /\ (whose = "ledger" \/ sap = [e \in Entries |-> Diary!Missing])
    /\ Doors!Init

CatalogNext ==
    /\ whose = "catalog" /\ Books!Next
    /\ UNCHANGED <<whose, accessVars, ledgerVars>>
AccessNext ==
    /\ whose = "access" /\ Doors!Next
    /\ UNCHANGED <<whose, catalogVars, ledgerVars>>
LedgerNext ==
    /\ whose = "ledger" /\ Diary!Next
    /\ UNCHANGED <<whose, catalogVars, accessVars>>

RecordsNext == CatalogNext \/ AccessNext \/ LedgerNext

RecordsSpec == RecordsInit /\ [][RecordsNext]_recordVars

RecordsSymmetric == Permutations(Actors) \cup Permutations(Seeds)
-----------------------------------------------------------------------------
(* The three modules are well typed: each row has its columns, each request the *)
(* fields of its step.                                                       *)
RowsTyped ==
    /\ whose = "catalog" => Books!TypeOK
    /\ whose = "access" => Doors!TypeOK
    /\ whose = "ledger" => Diary!TypeOK

(* One thing has one row: no table of Catalog holds a code under two spellings, *)
(* and in Access a user has one row for a company and area, the row for all     *)
(* areas included, through creations, renames and replacements that overlap.   *)
NoTwins ==
    /\ whose = "catalog" => Books!NoTwins
    /\ whose = "access" => Doors!OneRowPerAccess

(* Readers of the same rows that were written apart give one answer: gate, menu *)
(* and panel on the modules that are on; the two classes of gate and /auth/me   *)
(* on a permission; creation, lists and forms on the scope.                    *)
SurfacesAgree ==
    /\ whose = "catalog" => Books!PanelAgreesWithGate
    /\ whose = "access" => Doors!GatesAgree /\ Doors!ScopeSurfacesAgree

(* Access: a replaced, expired or inactive secret opens nothing.              *)
DeadSecrets == whose = "access" => Doors!DeadSecrets

(* Ledger: at rest, every entry has the class the active rules give it.        *)
WellClassified == whose = "ledger" => Diary!WellClassified

(* Catalog: a seed after a seed changes nothing, a seed alone leaves its codes  *)
(* in every table, and no seed turns on what the operator has switched off.    *)
SeedKeepsDecisions ==
    [][whose = "catalog" => Books!SeedAgain /\ Books!SwitchedOn /\ Books!SeedAlone]_recordVars

(* Access: no request that read a row before its deactivation undoes it, and     *)
(* replacing a scope leaves exactly the accesses received.                     *)
RightsStayAsSet == [][whose = "access" => Doors!Reactivated /\ Doors!Replaced]_recordVars

(* Ledger: a complete reprocess that is alone repairs every class, and a delta  *)
(* that is alone leaves nothing behind but failed days, as long as no copies   *)
(* have raced.                                                               *)
LedgerCatchesUp == [][whose = "ledger" => Diary!ReprocessAlone /\ Diary!DeltaAlone]_recordVars
=============================================================================
