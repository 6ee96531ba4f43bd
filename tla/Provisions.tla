------------------------------- MODULE Provisions ------------------------------
(***************************************************************************)
(* One provision ticket, its documents, their files and its grants, and    *)
(* the company and the area it hangs from.  A request reads the rows it     *)
(* needs, checks, and commits later; no row is locked and no version is     *)
(* compared, so a commit may rest on rows that have changed meanwhile.      *)
(*                                                                         *)
(* fresh[r] tells whether everything request r has read is still so, and    *)
(* stale records that a commit was made from a request that was not fresh.  *)
(* What the code promises of a sequence of requests is stated for ~stale:   *)
(* it says that overlapping requests are the only way to lose it.           *)
(***************************************************************************)
EXTENDS Naturals, FiniteSets

CONSTANTS
    Requests,   \* the requests in flight
    Ids,        \* identifiers of provisions; all bear the same ticket code
    Documents,
    Files,
    Users,
    Holds,      \* Holds[u]: the permission codes of user u
    None

VARIABLES
    row,        \* row[i]: the provision i, or None
    document,   \* document[d]: the provision document d belongs to, or None
    file,       \* file[f]: the document or the provision f is attached to, or None
    grant,      \* grant[i][u]: the access granted on provision i, or None
    company,    \* is the company active?
    area,       \* is the area active?
    ses,        \* ses[r]: what request r is about to commit, or Idle
    fresh,
    stale,
    asSubmitted \* is the content of i still the one that was submitted?

vars == <<row, document, file, grant, company, area, ses, fresh, stale, asSubmitted>>
-----------------------------------------------------------------------------
Status == {"PENDING_DETAIL", "READY_FOR_REVIEW", "APPROVED", "REJECTED_FOR_EDIT",
           "REJECTED_FINAL", "CANCELLED"}
Closed == {"APPROVED", "REJECTED_FINAL", "CANCELLED"}
AccessTypes == {"viewer", "editor"}

\* history is the status named by the latest row of provision_status_history.
ProvisionRow == [status : Status, closed_at : BOOLEAN, history : Status, owner : Users]

\* Identifiers of provisions and of documents are different UUIDs; None is no row.
ASSUME ProvisionsAssumption ==
    /\ Ids \cap Documents = {}
    /\ None \notin Ids \cup Documents \cup AccessTypes \cup ProvisionRow

Idle == [op |-> "idle"]

Exists(i) == row[i] # None
DocumentsOf(i) == {d \in Documents : document[d] = i}
OwnerOf(entity) == IF entity \in Documents THEN document[entity] ELSE entity

\* _can_edit: the states in which a provision may be changed.
CanEdit(i) == row[i].status \in {"PENDING_DETAIL", "REJECTED_FOR_EDIT"}

\* _can_edit_access, _ensure_can_edit_access.
CanEditAccess(i, u) ==
    \/ "provisions.edit_all" \in Holds[u]
    \/ row[i].owner = u
    \/ grant[i][u] = "editor"

\* The permissions one of which an endpoint requires.
EditPermissions == {"provisions.edit", "provisions.edit_all", "provisions.documents.edit"}
AccessPermissions == {"provisions.edit", "provisions.edit_all", "provisions.access.edit"}
ReviewPermissions == {"provisions.review"}
FilePermissions == {"provisions.edit", "provisions.documents.edit"}
MasterPermissions == {"master.data.edit"}
Allowed(permissions, u) == permissions \cap Holds[u] # {}
-----------------------------------------------------------------------------
(* A request: Load reads and checks, a commit writes.  An operation reads    *)
(* the tables of Reads and makes stale whoever has read a table it writes.   *)

Reads(op) ==
    CASE op = "create_provision" -> {"provision", "company", "area"}
      [] op = "set_company_active" -> {"provision", "company"}
      [] op = "grant_access" -> {"grant"}
      [] op \in {"update_company", "delete_area"} -> {}
      [] OTHER -> {"provision", "document", "file", "grant"}

Load(r, work) ==
    /\ ses[r] = Idle
    /\ ses' = [ses EXCEPT ![r] = work]
    /\ fresh' = [fresh EXCEPT ![r] = TRUE]
    /\ UNCHANGED <<row, document, file, grant, company, area, stale, asSubmitted>>

Finish(r, writes) ==
    /\ ses' = [ses EXCEPT ![r] = Idle]
    /\ fresh' = [q \in Requests |->
                    fresh[q] /\ (q = r \/ Reads(ses[q].op) \cap writes = {})]
    /\ stale' = (stale \/ (writes # {} /\ ~fresh[r]))

\* A refused write: the database rejects it, the service rolls back.
Refused(r) ==
    /\ Finish(r, {})
    /\ UNCHANGED <<row, document, file, grant, company, area, asSubmitted>>

\* The content a reviewer judges has changed after it was submitted.
Touched(i) == asSubmitted' = [asSubmitted EXCEPT ![i] = FALSE]
-----------------------------------------------------------------------------
(* Creation.  The look-up by ticket and the unique constraint both keep a    *)
(* company from having two provisions of one code.                           *)

CreateLoad(r, u, i, d) ==
    /\ Allowed({"provisions.create"}, u)
    /\ company /\ area
    /\ \A j \in Ids : ~Exists(j)
    /\ d \in Documents => document[d] = None
    /\ Load(r, [op |-> "create_provision", id |-> i, user |-> u, document |-> d])

UniqueTicket(i) == \A j \in Ids : ~Exists(j)

CreateCommit(r) ==
    LET s == ses[r] IN
    /\ s.op = "create_provision"
    /\ IF UniqueTicket(s.id) /\ (s.document # None => document[s.document] = None)
       THEN /\ row' = [row EXCEPT ![s.id] =
                          [status |-> "PENDING_DETAIL", closed_at |-> FALSE,
                           history |-> "PENDING_DETAIL", owner |-> s.user]]
            /\ document' = [d \in Documents |->
                               IF d = s.document THEN s.id ELSE document[d]]
            /\ Touched(s.id)
            /\ Finish(r, {"provision", "document"})
            /\ UNCHANGED <<file, grant, company, area>>
       ELSE Refused(r)
-----------------------------------------------------------------------------
(* Edits of the provision, its documents and its files.                      *)

EditLoad(r, u, i, work) ==
    /\ Exists(i)
    /\ CanEditAccess(i, u)
    /\ CanEdit(i)
    /\ Load(r, work)

UpdateLoad(r, u, i) ==
    /\ Allowed(EditPermissions, u)
    /\ EditLoad(r, u, i, [op |-> "update_provision", id |-> i])

UpdateCommit(r) ==
    LET s == ses[r] IN
    /\ s.op = "update_provision"
    /\ Touched(s.id)
    /\ Finish(r, {"provision"})
    /\ UNCHANGED <<row, document, file, grant, company, area>>

AddDocumentLoad(r, u, i, d) ==
    /\ Allowed(EditPermissions, u)
    /\ document[d] = None
    /\ \A q \in Requests : ses[q].op = "add_document" => ses[q].document # d
    /\ EditLoad(r, u, i, [op |-> "add_document", id |-> i, document |-> d])

AddDocumentCommit(r) ==
    LET s == ses[r] IN
    /\ s.op = "add_document"
    /\ document' = [document EXCEPT ![s.document] = s.id]
    /\ Touched(s.id)
    /\ Finish(r, {"document"})
    /\ UNCHANGED <<row, file, grant, company, area>>

UpdateDocumentLoad(r, u, d) ==
    /\ Allowed(EditPermissions, u)
    /\ document[d] # None
    /\ EditLoad(r, u, document[d],
                [op |-> "update_document", id |-> document[d], document |-> d])

\* An UPDATE of a row that is gone fails and is rolled back.
UpdateDocumentCommit(r) ==
    LET s == ses[r] IN
    /\ s.op = "update_document"
    /\ IF document[s.document] = None
       THEN Refused(r)
       ELSE /\ Touched(s.id)
            /\ Finish(r, {"document"})
            /\ UNCHANGED <<row, document, file, grant, company, area>>

DeleteDocumentLoad(r, u, d) ==
    /\ Allowed(EditPermissions, u)
    /\ document[d] # None
    /\ EditLoad(r, u, document[d],
                [op |-> "delete_document", id |-> document[d], document |-> d])

X_FilesAfterDelete(d) == file
FilesAfterDelete(d) == [f \in Files |-> IF file[f] = d THEN None ELSE file[f]]

DeleteDocumentCommit(r) ==
    LET s == ses[r] IN
    /\ s.op = "delete_document"
    /\ file' = FilesAfterDelete(s.document)
    /\ document' = [document EXCEPT ![s.document] = None]
    /\ Touched(s.id)
    /\ Finish(r, {"document", "file"})
    /\ UNCHANGED <<row, grant, company, area>>

X_FileLoad(r, u, entity, work) ==
    /\ Allowed(FilePermissions, u)
    /\ entity # None /\ OwnerOf(entity) # None
    /\ Exists(OwnerOf(entity)) /\ CanEditAccess(OwnerOf(entity), u)
    /\ Load(r, work)
\* ensure_entity_access(write=True).
FileLoad(r, u, entity, work) ==
    /\ Allowed(FilePermissions, u)
    /\ entity # None /\ OwnerOf(entity) # None
    /\ EditLoad(r, u, OwnerOf(entity), work)

AttachLoad(r, u, f, entity) ==
    /\ file[f] = None
    /\ \A q \in Requests : ses[q].op = "attach" => ses[q].file # f
    /\ FileLoad(r, u, entity, [op |-> "attach", file |-> f, entity |-> entity,
                               id |-> OwnerOf(entity)])

\* attachments.entity_id is no foreign key: the row goes in whatever it names.
AttachCommit(r) ==
    LET s == ses[r] IN
    /\ s.op = "attach"
    /\ file' = [file EXCEPT ![s.file] = s.entity]
    /\ Touched(s.id)
    /\ Finish(r, {"file"})
    /\ UNCHANGED <<row, document, grant, company, area>>

ReplaceFileLoad(r, u, f) ==
    FileLoad(r, u, file[f], [op |-> "replace_file", file |-> f, id |-> OwnerOf(file[f])])

ReplaceFileCommit(r) ==
    LET s == ses[r] IN
    /\ s.op = "replace_file"
    /\ IF file[s.file] = None
       THEN Refused(r)
       ELSE /\ Touched(s.id)
            /\ Finish(r, {"file"})
            /\ UNCHANGED <<row, document, file, grant, company, area>>

DetachLoad(r, u, f) ==
    FileLoad(r, u, file[f], [op |-> "detach", file |-> f, id |-> OwnerOf(file[f])])

DetachCommit(r) ==
    LET s == ses[r] IN
    /\ s.op = "detach"
    /\ file' = [file EXCEPT ![s.file] = None]
    /\ Touched(s.id)
    /\ Finish(r, {"file"})
    /\ UNCHANGED <<row, document, grant, company, area>>
-----------------------------------------------------------------------------
(* Grants.  A closed provision may still be shared.  A grant to the owner     *)
(* decides nothing and is left out.                                          *)

GrantLoad(r, u, i, v, type) ==
    /\ Allowed(AccessPermissions, u)
    /\ Exists(i) /\ CanEditAccess(i, u) /\ v # row[i].owner
    /\ Load(r, [op |-> "grant_access", id |-> i, user |-> v, type |-> type,
                had |-> grant[i][v]])

\* A row that was read is updated in the columns that differ from the copy; a
\* new row meets the unique constraint.
GrantCommit(r) ==
    LET s == ses[r] IN
    /\ s.op = "grant_access"
    /\ IF s.had = None /\ grant[s.id][s.user] # None
       THEN Refused(r)
       ELSE /\ grant' = IF s.type = s.had THEN grant
                        ELSE [grant EXCEPT ![s.id][s.user] = s.type]
            /\ Finish(r, {"grant"})
            /\ UNCHANGED <<row, document, file, company, area, asSubmitted>>
-----------------------------------------------------------------------------
(* Transitions of the status, each with its row of history.                  *)

\* Where an operation of the review leads.
Target == [submit |-> "READY_FOR_REVIEW", approve |-> "APPROVED",
           reject_for_edit |-> "REJECTED_FOR_EDIT", reject_final |-> "REJECTED_FINAL",
           cancel |-> "CANCELLED"]

SubmitLoad(r, u, i) ==
    /\ Allowed(EditPermissions, u)
    /\ Exists(i) /\ CanEditAccess(i, u) /\ CanEdit(i)
    /\ DocumentsOf(i) # {}
    /\ Load(r, [op |-> "submit", id |-> i])

\* approve, reject_for_edit and reject_final: _transition_review.
ReviewLoad(r, u, i, op) ==
    /\ Allowed(ReviewPermissions, u)
    /\ op \in {"approve", "reject_for_edit", "reject_final"}
    /\ Exists(i)
    /\ row[i].status = "READY_FOR_REVIEW"
    /\ Load(r, [op |-> op, id |-> i])

X_CancelLoad(r, u, i) ==
    /\ Allowed(EditPermissions, u)
    /\ Exists(i) /\ CanEditAccess(i, u)
    /\ Load(r, [op |-> "cancel", id |-> i])
CancelLoad(r, u, i) ==
    /\ Allowed(EditPermissions, u)
    /\ Exists(i) /\ CanEditAccess(i, u)
    /\ row[i].status \notin Closed
    /\ Load(r, [op |-> "cancel", id |-> i])

X_ClosedByReview(old, status) ==
    [old EXCEPT !.status = status, !.history = status,
                !.closed_at = @ \/ status \in Closed \cup {"REJECTED_FOR_EDIT"}]
\* _transition: the status, the closing time and the history in one commit.
Moved(old, status) ==
    [old EXCEPT !.status = status, !.history = status,
                !.closed_at = @ \/ status \in Closed]

Transition(r) ==
    LET s == ses[r] IN
    /\ s.op \in DOMAIN Target
    /\ row' = [row EXCEPT ![s.id] = Moved(@, Target[s.op])]
    /\ asSubmitted' = [asSubmitted EXCEPT ![s.id] = @ \/ s.op = "submit"]
    /\ Finish(r, {"provision"})
    /\ UNCHANGED <<document, file, grant, company, area>>
-----------------------------------------------------------------------------
(* Master data.                                                              *)

\* The ORM writes a column when its value differs from the copy that was read.
Column(now, had, value) == IF value = had THEN now ELSE value

ActiveProvisions == {i \in Ids : Exists(i)}

\* count_company_dependents stands for the provisions; concepts and accesses
\* of the company count in the same way.
SetCompanyActiveLoad(r, u, active) ==
    /\ Allowed(MasterPermissions, u)
    /\ (~active /\ company) => ActiveProvisions = {}
    /\ Load(r, [op |-> "set_company_active", active |-> active, had |-> company])

SetCompanyActiveCommit(r) ==
    LET s == ses[r] IN
    /\ s.op = "set_company_active"
    /\ company' = Column(company, s.had, s.active)
    /\ Finish(r, {"company"})
    /\ UNCHANGED <<row, document, file, grant, area, asSubmitted>>

\* PUT of a company: the request may carry "active" and nothing counts.
UpdateCompanyLoad(r, u, active) ==
    /\ Allowed(MasterPermissions, u)
    /\ Load(r, [op |-> "update_company", active |-> active, had |-> company])

UpdateCompanyCommit(r) ==
    LET s == ses[r] IN
    /\ s.op = "update_company"
    /\ company' = Column(company, s.had, s.active)
    /\ Finish(r, {"company"})
    /\ UNCHANGED <<row, document, file, grant, area, asSubmitted>>

\* DELETE of an area (active = FALSE) and PUT with "active".
DeleteAreaLoad(r, u, active) ==
    /\ Allowed(MasterPermissions, u)
    /\ Load(r, [op |-> "delete_area", active |-> active, had |-> area])

DeleteAreaCommit(r) ==
    LET s == ses[r] IN
    /\ s.op = "delete_area"
    /\ area' = Column(area, s.had, s.active)
    /\ Finish(r, {"area"})
    /\ UNCHANGED <<row, document, file, grant, company, asSubmitted>>
-----------------------------------------------------------------------------
Init ==
    /\ row = [i \in Ids |-> None]
    /\ document = [d \in Documents |-> None]
    /\ file = [f \in Files |-> None]
    /\ grant = [i \in Ids |-> [u \in Users |-> None]]
    /\ company = TRUE
    /\ area = TRUE
    /\ ses = [r \in Requests |-> Idle]
    /\ fresh = [r \in Requests |-> TRUE]
    /\ stale = FALSE
    /\ asSubmitted = [i \in Ids |-> FALSE]

Edit(r) ==
    \/ \E u \in Users, i \in Ids : UpdateLoad(r, u, i)
    \/ \E u \in Users, i \in Ids, d \in Documents : AddDocumentLoad(r, u, i, d)
    \/ \E u \in Users, d \in Documents :
          UpdateDocumentLoad(r, u, d) \/ DeleteDocumentLoad(r, u, d)
    \/ \E u \in Users, f \in Files :
          \/ \E entity \in Documents \cup Ids : AttachLoad(r, u, f, entity)
          \/ ReplaceFileLoad(r, u, f)
          \/ DetachLoad(r, u, f)
    \/ UpdateCommit(r) \/ AddDocumentCommit(r) \/ UpdateDocumentCommit(r)
    \/ DeleteDocumentCommit(r) \/ AttachCommit(r) \/ ReplaceFileCommit(r)
    \/ DetachCommit(r)

Review(r) ==
    \/ \E u \in Users, i \in Ids :
          \/ SubmitLoad(r, u, i)
          \/ CancelLoad(r, u, i)
          \/ \E op \in DOMAIN Target : ReviewLoad(r, u, i, op)
    \/ Transition(r)

Share(r) ==
    \/ \E u, v \in Users, i \in Ids, type \in AccessTypes : GrantLoad(r, u, i, v, type)
    \/ GrantCommit(r)

Master(r) ==
    \/ \E u \in Users, active \in BOOLEAN :
          \/ SetCompanyActiveLoad(r, u, active)
          \/ UpdateCompanyLoad(r, u, active)
          \/ DeleteAreaLoad(r, u, active)
    \/ SetCompanyActiveCommit(r) \/ UpdateCompanyCommit(r) \/ DeleteAreaCommit(r)

Next == \E r \in Requests :
    \/ \E u \in Users, i \in Ids, d \in Documents \cup {None} : CreateLoad(r, u, i, d)
    \/ CreateCommit(r)
    \/ Edit(r) \/ Review(r) \/ Share(r) \/ Master(r)

Spec == Init /\ [][Next]_vars
-----------------------------------------------------------------------------
(* The rows are well formed; a request that works on a provision found it.   *)
Work ==
    [op : {"idle"}]
    \cup [op : {"create_provision"}, id : Ids, user : Users, document : Documents \cup {None}]
    \cup [op : {"update_provision"} \cup DOMAIN Target, id : Ids]
    \cup [op : {"add_document", "update_document", "delete_document"}, id : Ids,
          document : Documents]
    \cup [op : {"attach"}, file : Files, entity : Documents \cup Ids, id : Ids]
    \cup [op : {"replace_file", "detach"}, file : Files, id : Ids]
    \cup [op : {"grant_access"}, id : Ids, user : Users, type : AccessTypes,
          had : AccessTypes \cup {None}]
    \cup [op : {"set_company_active", "update_company", "delete_area"},
          active : BOOLEAN, had : BOOLEAN]

TypeOK ==
    /\ row \in [Ids -> ProvisionRow \cup {None}]
    /\ document \in [Documents -> Ids \cup {None}]
    /\ file \in [Files -> Documents \cup Ids \cup {None}]
    /\ grant \in [Ids -> [Users -> AccessTypes \cup {None}]]
    /\ company \in BOOLEAN /\ area \in BOOLEAN /\ stale \in BOOLEAN
    /\ ses \in [Requests -> Work]
    /\ fresh \in [Requests -> BOOLEAN]
    /\ asSubmitted \in [Ids -> BOOLEAN]
    /\ \A r \in Requests :
          "id" \in DOMAIN ses[r] /\ ses[r].op # "create_provision" => Exists(ses[r].id)

(* However requests overlap, the latest row of the history names the status  *)
(* the provision has: both are written by _transition's one commit.          *)
HistoryTellsStatus == \A i \in Ids : Exists(i) => row[i].history = row[i].status

(* Two creations with one ticket code make one provision, whichever of the   *)
(* look-up (provision_service.py:103) and the constraint stops the second.   *)
OneProvisionPerTicket == Cardinality({i \in Ids : Exists(i)}) <= 1

(* closed_at is set exactly while the provision is closed; only overlapping   *)
(* requests can leave an open provision with a closing time.                  *)
ClosedAtTellsClosed ==
    ~stale => \A i \in Ids : Exists(i) => (row[i].closed_at <=> row[i].status \in Closed)

(* What a reviewer approves or rejects is what was submitted: nothing the     *)
(* service lets through between the submission and the verdict changes the    *)
(* provision, its documents or their files.                                   *)
JudgedAsSubmitted ==
    ~stale => \A i \in Ids :
        Exists(i) /\ row[i].status \in {"READY_FOR_REVIEW", "APPROVED", "REJECTED_FINAL"}
            => asSubmitted[i]

(* A provision under review or approved has a document (line 464).            *)
ReviewedHasDocuments ==
    ~stale => \A i \in Ids :
        Exists(i) /\ row[i].status \in {"READY_FOR_REVIEW", "APPROVED"} => DocumentsOf(i) # {}

(* A verdict is about what was submitted, and about something: both may be lost *)
(* to requests that overlap, and to nothing else.                             *)
VerdictsRestOnDocuments == JudgedAsSubmitted /\ ReviewedHasDocuments

(* A ticket code has one provision, whose history and closing time tell its     *)
(* status.                                                                  *)
TicketIsTold == OneProvisionPerTicket /\ HistoryTellsStatus /\ ClosedAtTellsClosed

(* The rows of attachments name a document or a provision that exists, though *)
(* no foreign key says so: deleting a document takes its files along.         *)
FilesHaveTheirEntity ==
    ~stale => \A f \in Files :
        file[f] # None => OwnerOf(file[f]) # None /\ Exists(OwnerOf(file[f]))

(* A provision that is closed stays as it is, unless a request that had read  *)
(* it before it was closed commits afterwards.                                *)
ClosedStays ==
    \A i \in Ids : Exists(i) /\ row[i].status \in Closed /\ row'[i] # row[i] => stale'

(* The deactivation of a company never strands a provision, unless it is made *)
(* through the general update, which does not count, or overlaps a creation.  *)
DeactivationCounts ==
    ActiveProvisions # {} /\ company /\ ~company'
        => \/ stale'
           \/ \E r \in Requests : ses[r].op = "update_company" /\ ses'[r] = Idle

(* Only requests that overlap change a closed provision, or deactivate a company *)
(* from under an active one.                                                 *)
OnlyOverlapsUndo == [][ClosedStays /\ DeactivationCounts]_vars

(* What docs/functional/auth/alcance-empresa-area.md:93 says: neither a company  *)
(* nor an area with active records can be deactivated.                         *)
NothingHangsFromInactive == ActiveProvisions # {} => company /\ area
=============================================================================
