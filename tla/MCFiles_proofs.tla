----------------------------- MODULE MCFiles_proofs ----------------------------
(***************************************************************************)
(* Proofs about Provisions and PaymentStaging, for every number of         *)
(* requests, tickets' rows, documents, files, users, uploads and mailed    *)
(* PDFs, whatever the permissions, the retention and the age limit.        *)
(*                                                                         *)
(* Provisions: a request that is fresh commits on the grounds on which it  *)
(* was let through (Grounded), because every commit that could take them   *)
(* away writes a table the request has read.                               *)
(*                                                                         *)
(* PaymentStaging (StagingInv): the sweep decides on what it read, and     *)
(* meanwhile jobs are made, end and are retried.  What it read stays good  *)
(* enough (Reading): a job that had ended only forgets what failed to      *)
(* send, and a folder that had no job was touched at most a day before.    *)
(* So a folder that is gone was too old or had served its time             *)
(* (Justified), and until then it holds what may still be sent (Stocked).  *)
(***************************************************************************)
EXTENDS MCFiles, FiniteSetTheorems, SequenceTheorems, TLAPS

\* Operations on a provision that the service lets through while it may be edited.
ContentOps == {"update_provision", "add_document", "update_document", "delete_document",
               "attach", "replace_file", "detach"}
ReviewOps == {"approve", "reject_for_edit", "reject_final"}
MasterOps == {"set_company_active", "update_company", "delete_area"}
OnProvision == ContentOps \cup ReviewOps \cup {"submit", "cancel", "grant_access"}

\* What the rows must say for a request to be let through.
Grounds(s) ==
    /\ s.op \in ContentOps \cup {"submit"} => CanEdit(s.id)
    /\ s.op = "submit" => DocumentsOf(s.id) # {}
    /\ s.op \in ReviewOps => row[s.id].status = "READY_FOR_REVIEW"
    /\ s.op = "cancel" => row[s.id].status \notin Closed
    /\ s.op = "attach" => OwnerOf(s.entity) = s.id
    /\ s.op = "set_company_active" /\ s.had /\ ~s.active => ActiveProvisions = {}

Grounded == \A r \in Requests : fresh[r] => Grounds(ses[r])

\* One row bears the ticket; a document belongs to a provision that exists.
OneTicket == \A i, j \in Ids : Exists(i) /\ Exists(j) => i = j
DocumentsHaveTheirProvision ==
    \A d \in Documents : document[d] # None => Exists(document[d])

Inv == /\ TypeOK /\ OneTicket /\ DocumentsHaveTheirProvision /\ Grounded
       /\ HistoryTellsStatus /\ ClosedAtTellsClosed /\ VerdictsRestOnDocuments
       /\ FilesHaveTheirEntity

-----------------------------------------------------------------------------
(* Requests.                                                               *)

LEMMA IdleType == Idle \in Work /\ Grounds(Idle) /\ Idle.op \notin OnProvision
  BY DEF Idle, Work, Grounds, ContentOps, ReviewOps, MasterOps, OnProvision

\* The fields of a request, by its operation.
LEMMA WorkShape ==
  ASSUME NEW s \in Work
  PROVE  /\ s.op \in OnProvision \cup MasterOps \cup {"idle", "create_provision"}
         /\ s.op \in OnProvision \cup {"create_provision"} => s.id \in Ids
         /\ s.op \in MasterOps \cup {"idle"} => "id" \notin DOMAIN s
         /\ s.op = "create_provision" => s.user \in Users /\ s.document \in Documents \cup {None}
         /\ s.op \in {"add_document", "update_document", "delete_document"}
               => s.document \in Documents
         /\ s.op = "attach" => s.file \in Files /\ s.entity \in Documents \cup Ids
         /\ s.op \in {"replace_file", "detach"} => s.file \in Files
         /\ s.op = "grant_access" => s.user \in Users /\ s.type \in AccessTypes
         /\ s.op \in MasterOps => s.active \in BOOLEAN /\ s.had \in BOOLEAN
  BY DEF Work, Target, OnProvision, ContentOps, ReviewOps, MasterOps

\* A request that works on a provision found it.
Found == \A r \in Requests : ses[r].op \in OnProvision => Exists(ses[r].id)

Rows ==
    /\ row \in [Ids -> ProvisionRow \cup {None}]
    /\ document \in [Documents -> Ids \cup {None}]
    /\ file \in [Files -> Documents \cup Ids \cup {None}]
    /\ grant \in [Ids -> [Users -> AccessTypes \cup {None}]]
    /\ company \in BOOLEAN /\ area \in BOOLEAN
    /\ asSubmitted \in [Ids -> BOOLEAN]

Sessions ==
    /\ ses \in [Requests -> Work]
    /\ fresh \in [Requests -> BOOLEAN]
    /\ stale \in BOOLEAN

LEMMA TypeParts == TypeOK <=> Rows /\ Sessions /\ Found
<1>1. ASSUME ses \in [Requests -> Work], NEW r \in Requests
      PROVE  "id" \in DOMAIN ses[r] /\ ses[r].op # "create_provision"
                <=> ses[r].op \in OnProvision
  <2>1. ses[r] \in Work
    BY <1>1
  <2>. QED
    BY <2>1 DEF Work, Target, OnProvision, ContentOps, ReviewOps
<1>. QED
  BY <1>1 DEF TypeOK, Rows, Sessions, Found

LEMMA TypePartsNext == TypeOK' <=> Rows' /\ Sessions' /\ Found'
  BY TypeParts, PTL

\* A request loads what Grounds asks for and changes no row.
LEMMA LoadKeeps ==
  ASSUME Inv, NEW r \in Requests, NEW w \in Work, Load(r, w), Grounds(w),
         w.op \in OnProvision => Exists(w.id)
  PROVE  Inv'
<1>. USE DEF Inv
<1>1. UNCHANGED <<row, document, file, grant, company, area, stale, asSubmitted>>
  BY DEF Load
<1>2. Rows /\ Sessions /\ Found
  BY TypeParts
<1>3. Rows' /\ Sessions' /\ Found'
  BY <1>1, <1>2 DEF Rows, Sessions, Found, Exists, Load
<1>4. Grounded'
  <2>1. \A s : Grounds(s)' <=> Grounds(s)
    BY <1>1 DEF Grounds, CanEdit, DocumentsOf, OwnerOf, ActiveProvisions, Exists
  <2>2. SUFFICES ASSUME NEW q \in Requests, fresh'[q] PROVE Grounds(ses'[q])
    BY <2>1 DEF Grounded
  <2>3. CASE q = r
    BY <1>2, <2>3 DEF Load, Sessions
  <2>4. CASE q # r
    BY <1>2, <2>2, <2>4 DEF Load, Sessions, Grounded
  <2>. QED  BY <2>3, <2>4
<1>5. OneTicket' /\ DocumentsHaveTheirProvision'
  BY <1>1 DEF OneTicket, DocumentsHaveTheirProvision, Exists
<1>6. HistoryTellsStatus' /\ ClosedAtTellsClosed'
  BY <1>1 DEF HistoryTellsStatus, ClosedAtTellsClosed, Exists
<1>7. VerdictsRestOnDocuments' /\ FilesHaveTheirEntity'
  BY <1>1 DEF VerdictsRestOnDocuments, JudgedAsSubmitted, ReviewedHasDocuments,
              FilesHaveTheirEntity, DocumentsOf, OwnerOf, Exists
<1>. QED  BY <1>3, <1>4, <1>5, <1>6, <1>7, TypePartsNext

-----------------------------------------------------------------------------
(* Commits.                                                                *)

Content == {"provision", "document", "file", "grant"}

\* A commit that spares the tables a request has read leaves it its grounds.
LEMMA GroundsKept ==
  ASSUME NEW s \in Work, Grounds(s), NEW writes, Reads(s.op) \cap writes = {},
         "provision" \in writes \/ UNCHANGED row,
         writes \cap Content # {} \/ UNCHANGED <<row, document>>
  PROVE  Grounds(s)'
<1>1. CASE UNCHANGED <<row, document>>
  BY <1>1 DEF Grounds, CanEdit, DocumentsOf, OwnerOf, ActiveProvisions, Exists
<1>2. CASE ~UNCHANGED <<row, document>>
  <2>1. Reads(s.op) # Content
    BY <1>2 DEF Content
  <2>2. s.op \in MasterOps \cup {"create_provision", "grant_access"}
    BY <2>1, WorkShape
    DEF Reads, Content, OnProvision, ContentOps, ReviewOps, MasterOps
  <2>3. s.op = "set_company_active" => UNCHANGED row
    BY DEF Reads
  <2>. QED
    BY <2>2, <2>3 DEF Grounds, ContentOps, ReviewOps, MasterOps, ActiveProvisions, Exists
<1>. QED  BY <1>1, <1>2

\* What a commit of r does to the requests, r itself and the others.
LEMMA FinishKeeps ==
  ASSUME Inv, NEW r \in Requests, NEW writes, Finish(r, writes),
         "provision" \in writes \/ UNCHANGED row,
         writes \cap Content # {} \/ UNCHANGED <<row, document>>,
         \A i \in Ids : Exists(i) => Exists(i)'
  PROVE  /\ Sessions' /\ Found' /\ Grounded'
         /\ ~stale' => ~stale /\ (writes # {} => fresh[r] /\ Grounds(ses[r]))
<1>. USE DEF Inv
<1>1. Sessions /\ Found
  BY TypeParts
<1>2. Sessions'
  BY <1>1, IdleType DEF Finish, Sessions
<1>3. ASSUME NEW q \in Requests
      PROVE  ses'[q] = IF q = r THEN Idle ELSE ses[q]
  BY <1>1 DEF Finish, Sessions
<1>4. Found'
  <2>1. \A q \in Requests : ses[q].op \in OnProvision => ses[q].id \in Ids
    BY <1>1, WorkShape DEF Sessions
  <2>. QED  BY <1>1, <1>3, <2>1, IdleType DEF Found
<1>5. Grounded'
  <2>1. SUFFICES ASSUME NEW q \in Requests, fresh'[q] PROVE Grounds(ses[q])' 
    BY DEF Grounded
  <2>2. CASE q = r
    <3>1. ses'[q] = Idle
      BY <1>3, <2>2
    <3>. QED
      BY <3>1 DEF Grounds, Idle, ContentOps, ReviewOps
  <2>3. CASE q # r
    <3>1. fresh[q] /\ Reads(ses[q].op) \cap writes = {}
      BY <2>1, <2>3 DEF Finish
    <3>2. ses'[q] = ses[q] /\ ses[q] \in Work
      BY <1>1, <1>3, <2>3 DEF Sessions
    <3>3. \A s \in Work : Grounds(s) /\ Reads(s.op) \cap writes = {} => Grounds(s)'
      BY GroundsKept
    <3>4. Grounds(ses[q])
      BY <3>1 DEF Grounded
    <3>5. \A s : s = ses[q] => (Grounds(s) /\ s \in Work)
      BY <3>2, <3>4
    <3>. QED
      BY <3>1, <3>2, <3>3, <3>4 DEF Grounds
  <2>. QED  BY <2>2, <2>3
<1>6. ~stale' => ~stale /\ (writes # {} => fresh[r] /\ Grounds(ses[r]))
  BY DEF Finish, Grounded
<1>. QED  BY <1>2, <1>4, <1>5, <1>6

-----------------------------------------------------------------------------
(* Every load keeps the invariant.                                         *)

EditLoads(r) ==
    \/ \E u \in Users, i \in Ids : UpdateLoad(r, u, i)
    \/ \E u \in Users, i \in Ids, d \in Documents : AddDocumentLoad(r, u, i, d)
    \/ \E u \in Users, d \in Documents : UpdateDocumentLoad(r, u, d)
    \/ \E u \in Users, d \in Documents : DeleteDocumentLoad(r, u, d)
    \/ \E u \in Users, f \in Files, entity \in Documents \cup Ids : AttachLoad(r, u, f, entity)
    \/ \E u \in Users, f \in Files : ReplaceFileLoad(r, u, f) \/ DetachLoad(r, u, f)

LEMMA EditLoadsKeep ==
  ASSUME Inv, NEW r \in Requests, EditLoads(r)
  PROVE  Inv'
<1>0. Rows
  BY TypeParts DEF Inv
<1>1. ASSUME NEW i \in Ids, NEW w \in Work, NEW u, EditLoad(r, u, i, w), w.id = i,
             w.op \in ContentOps,
             w.op = "attach" => OwnerOf(w.entity) = i
      PROVE  Inv'
  <2>1. Grounds(w)
    BY <1>1 DEF EditLoad, Grounds, ContentOps, ReviewOps
  <2>. QED  BY <1>1, <2>1, LoadKeeps DEF EditLoad
<1>2. CASE \E u \in Users, i \in Ids : UpdateLoad(r, u, i)
  <2>1. PICK u \in Users, i \in Ids : UpdateLoad(r, u, i)
    BY <1>2
  <2>. DEFINE w == [op |-> "update_provision", id |-> i]
  <2>2. w \in Work /\ w.id = i /\ w.op \in ContentOps /\ w.op # "attach"
    BY DEF Work, ContentOps
  <2>. QED  BY <1>1, <2>1, <2>2 DEF UpdateLoad
<1>3. CASE \E u \in Users, i \in Ids, d \in Documents : AddDocumentLoad(r, u, i, d)
  <2>1. PICK u \in Users, i \in Ids, d \in Documents : AddDocumentLoad(r, u, i, d)
    BY <1>3
  <2>. DEFINE w == [op |-> "add_document", id |-> i, document |-> d]
  <2>2. w \in Work /\ w.id = i /\ w.op \in ContentOps /\ w.op # "attach"
    BY DEF Work, ContentOps
  <2>. QED  BY <1>1, <2>1, <2>2 DEF AddDocumentLoad
<1>4. CASE \E u \in Users, d \in Documents : UpdateDocumentLoad(r, u, d)
  <2>1. PICK u \in Users, d \in Documents : UpdateDocumentLoad(r, u, d)
    BY <1>4
  <2>2. document[d] \in Ids
    BY <1>0, <2>1 DEF UpdateDocumentLoad, Rows
  <2>. DEFINE w == [op |-> "update_document", id |-> document[d], document |-> d]
  <2>3. w \in Work /\ w.id = document[d] /\ w.op \in ContentOps /\ w.op # "attach"
    BY <2>2 DEF Work, ContentOps
  <2>. QED  BY <1>1, <2>1, <2>2, <2>3 DEF UpdateDocumentLoad
<1>5. CASE \E u \in Users, d \in Documents : DeleteDocumentLoad(r, u, d)
  <2>1. PICK u \in Users, d \in Documents : DeleteDocumentLoad(r, u, d)
    BY <1>5
  <2>2. document[d] \in Ids
    BY <1>0, <2>1 DEF DeleteDocumentLoad, Rows
  <2>. DEFINE w == [op |-> "delete_document", id |-> document[d], document |-> d]
  <2>3. w \in Work /\ w.id = document[d] /\ w.op \in ContentOps /\ w.op # "attach"
    BY <2>2 DEF Work, ContentOps
  <2>. QED  BY <1>1, <2>1, <2>2, <2>3 DEF DeleteDocumentLoad
<1>6. ASSUME NEW entity \in Documents \cup Ids \cup {None}, entity # None, OwnerOf(entity) # None
      PROVE  OwnerOf(entity) \in Ids
  BY <1>0, <1>6 DEF OwnerOf, Rows
<1>7. CASE \E u \in Users, f \in Files, entity \in Documents \cup Ids : AttachLoad(r, u, f, entity)
  <2>1. PICK u \in Users, f \in Files, entity \in Documents \cup Ids : AttachLoad(r, u, f, entity)
    BY <1>7
  <2>. DEFINE w == [op |-> "attach", file |-> f, entity |-> entity, id |-> OwnerOf(entity)]
  <2>2. OwnerOf(entity) # None /\ OwnerOf(entity) \in Ids
    BY <1>6, <2>1 DEF AttachLoad, FileLoad
  <2>3. w \in Work /\ w.id = OwnerOf(entity) /\ w.op \in ContentOps /\ w.entity = entity
    BY <2>2 DEF Work, ContentOps
  <2>4. EditLoad(r, u, OwnerOf(entity), w)
    BY <2>1 DEF AttachLoad, FileLoad
  <2>. HIDE DEF w
  <2>. QED  BY <1>1, <2>2, <2>3, <2>4
<1>8. CASE \E u \in Users, f \in Files : ReplaceFileLoad(r, u, f) \/ DetachLoad(r, u, f)
  <2>1. PICK u \in Users, f \in Files : ReplaceFileLoad(r, u, f) \/ DetachLoad(r, u, f)
    BY <1>8
  <2>2. OwnerOf(file[f]) \in Ids
    BY <1>0, <1>6, <2>1 DEF ReplaceFileLoad, DetachLoad, FileLoad, Rows
  <2>3. PICK op \in {"replace_file", "detach"} :
           EditLoad(r, u, OwnerOf(file[f]), [op |-> op, file |-> f, id |-> OwnerOf(file[f])])
    BY <2>1 DEF ReplaceFileLoad, DetachLoad, FileLoad
  <2>. DEFINE w == [op |-> op, file |-> f, id |-> OwnerOf(file[f])]
  <2>4. w \in Work /\ w.id = OwnerOf(file[f]) /\ w.op \in ContentOps /\ w.op # "attach"
    BY <2>2 DEF Work, ContentOps
  <2>. HIDE DEF w
  <2>. QED  BY <1>1, <2>2, <2>3, <2>4 DEF w
<1>. QED  BY <1>2, <1>3, <1>4, <1>5, <1>7, <1>8 DEF EditLoads

LEMMA OtherLoadsKeep ==
  ASSUME Inv, NEW r \in Requests
  PROVE  /\ \A u \in Users, i \in Ids, d \in Documents \cup {None} :
               CreateLoad(r, u, i, d) => Inv'
         /\ \A u \in Users, i \in Ids : SubmitLoad(r, u, i) \/ CancelLoad(r, u, i) => Inv'
         /\ \A u \in Users, i \in Ids, op \in DOMAIN Target : ReviewLoad(r, u, i, op) => Inv'
         /\ \A u, v \in Users, i \in Ids, type \in AccessTypes : GrantLoad(r, u, i, v, type) => Inv'
<1>0. Rows
  BY TypeParts DEF Inv
<1>1. ASSUME NEW u \in Users, NEW i \in Ids, NEW d \in Documents \cup {None}, CreateLoad(r, u, i, d)
      PROVE  Inv'
  <2>. DEFINE w == [op |-> "create_provision", id |-> i, user |-> u, document |-> d]
  <2>1. w \in Work /\ Grounds(w) /\ w.op \notin OnProvision
    BY DEF Work, Grounds, ContentOps, ReviewOps, OnProvision
  <2>. QED  BY <1>1, <2>1, LoadKeeps DEF CreateLoad
<1>2. ASSUME NEW u \in Users, NEW i \in Ids, SubmitLoad(r, u, i)
      PROVE  Inv'
  <2>. DEFINE w == [op |-> "submit", id |-> i]
  <2>1. w \in Work /\ w.id = i
    BY DEF Work, Target
  <2>2. Grounds(w)
    BY <1>2 DEF SubmitLoad, Grounds, ContentOps, ReviewOps
  <2>. QED  BY <1>2, <2>1, <2>2, LoadKeeps DEF SubmitLoad
<1>3. ASSUME NEW u \in Users, NEW i \in Ids, CancelLoad(r, u, i)
      PROVE  Inv'
  <2>. DEFINE w == [op |-> "cancel", id |-> i]
  <2>1. w \in Work /\ w.id = i
    BY DEF Work, Target
  <2>2. Grounds(w)
    BY <1>3 DEF CancelLoad, Grounds, ContentOps, ReviewOps
  <2>. QED  BY <1>3, <2>1, <2>2, LoadKeeps DEF CancelLoad
<1>4. ASSUME NEW u \in Users, NEW i \in Ids, NEW op \in DOMAIN Target, ReviewLoad(r, u, i, op)
      PROVE  Inv'
  <2>. DEFINE w == [op |-> op, id |-> i]
  <2>1. w \in Work /\ w.id = i
    BY DEF Work
  <2>2. Grounds(w)
    BY <1>4 DEF ReviewLoad, Grounds, ContentOps, ReviewOps
  <2>. QED  BY <1>4, <2>1, <2>2, LoadKeeps DEF ReviewLoad
<1>5. ASSUME NEW u \in Users, NEW v \in Users, NEW i \in Ids, NEW type \in AccessTypes,
             GrantLoad(r, u, i, v, type)
      PROVE  Inv'
  <2>. DEFINE w == [op |-> "grant_access", id |-> i, user |-> v, type |-> type,
                    had |-> grant[i][v]]
  <2>1. w \in Work /\ w.id = i
    BY <1>0 DEF Work, Rows
  <2>2. Grounds(w)
    BY DEF Grounds, ContentOps, ReviewOps
  <2>. QED  BY <1>5, <2>1, <2>2, LoadKeeps DEF GrantLoad
<1>. QED  BY <1>1, <1>2, <1>3, <1>4, <1>5

LEMMA MasterLoadsKeep ==
  ASSUME Inv, NEW r \in Requests, NEW u \in Users, NEW active \in BOOLEAN,
         \/ SetCompanyActiveLoad(r, u, active)
         \/ UpdateCompanyLoad(r, u, active)
         \/ DeleteAreaLoad(r, u, active)
  PROVE  Inv'
<1>1. PICK op \in MasterOps, had \in BOOLEAN :
         /\ Load(r, [op |-> op, active |-> active, had |-> had])
         /\ op = "set_company_active" /\ had /\ ~active => ActiveProvisions = {}
  <2>1. company \in BOOLEAN /\ area \in BOOLEAN
    BY DEF Inv, TypeOK
  <2>. QED
    BY <2>1 DEF SetCompanyActiveLoad, UpdateCompanyLoad, DeleteAreaLoad, MasterOps
<1>. DEFINE w == [op |-> op, active |-> active, had |-> had]
<1>2. w \in Work /\ w.op \notin OnProvision
  BY DEF Work, MasterOps, OnProvision, ContentOps, ReviewOps
<1>3. Grounds(w)
  BY <1>1 DEF Grounds, ContentOps, ReviewOps, MasterOps
<1>. HIDE DEF w
<1>. QED  BY <1>1, <1>2, <1>3, LoadKeeps DEF w

-----------------------------------------------------------------------------
(* Every commit keeps the invariant.                                       *)

LEMMA RequestType ==
  ASSUME Inv, NEW r \in Requests
  PROVE  /\ ses[r] \in Work
         /\ ses[r].op \in OnProvision => Exists(ses[r].id)
  BY TypeParts DEF Inv, Sessions, Found

\* A refused write leaves everything but the request as it was.
LEMMA RefusedKeeps ==
  ASSUME Inv, NEW r \in Requests, Refused(r)
  PROVE  Inv'
<1>. USE DEF Inv
<1>1. UNCHANGED <<row, document, file, grant, company, area, asSubmitted>> /\ Finish(r, {})
  BY DEF Refused
<1>2. Sessions' /\ Found' /\ Grounded' /\ (~stale' => ~stale)
  BY <1>1, FinishKeeps DEF Exists
<1>3. Rows'
  BY <1>1, TypeParts DEF Rows
<1>4. OneTicket' /\ DocumentsHaveTheirProvision' /\ HistoryTellsStatus'
  BY <1>1 DEF OneTicket, DocumentsHaveTheirProvision, HistoryTellsStatus, Exists
<1>5. ClosedAtTellsClosed' /\ VerdictsRestOnDocuments' /\ FilesHaveTheirEntity'
  BY <1>1, <1>2 DEF ClosedAtTellsClosed, VerdictsRestOnDocuments, JudgedAsSubmitted,
     ReviewedHasDocuments, FilesHaveTheirEntity, DocumentsOf, OwnerOf, Exists
<1>. QED  BY <1>2, <1>3, <1>4, <1>5, TypePartsNext

\* A change of the content: made on its grounds, the provision may be edited, so
\* that no verdict rests on it.
LEMMA ContentCommit ==
  ASSUME Inv, NEW r \in Requests, ses[r].op \in ContentOps,
         NEW writes, writes \cap Content # {}, Finish(r, writes),
         Touched(ses[r].id), UNCHANGED <<row, grant, company, area>>,
         document' \in [Documents -> Ids \cup {None}],
         file' \in [Files -> Documents \cup Ids \cup {None}],
         \A d \in Documents : document'[d] \in {document[d], ses[r].id, None},
         ~stale /\ fresh[r] /\ Grounds(ses[r]) => FilesHaveTheirEntity'
  PROVE  Inv'
<1>. USE DEF Inv
<1>. DEFINE i == ses[r].id
<1>0. Rows /\ ses[r] \in Work /\ Exists(i) /\ i \in Ids
  BY RequestType, TypeParts, WorkShape DEF OnProvision
<1>1. /\ Sessions' /\ Found' /\ Grounded'
      /\ ~stale' => ~stale /\ fresh[r] /\ Grounds(ses[r])
  BY FinishKeeps DEF Exists
<1>2. Rows'
  BY <1>0 DEF Rows, Touched
<1>3. OneTicket' /\ HistoryTellsStatus'
  BY DEF OneTicket, HistoryTellsStatus, Exists
<1>4. DocumentsHaveTheirProvision'
  BY <1>0 DEF DocumentsHaveTheirProvision, Exists
<1>5. ClosedAtTellsClosed'
  BY <1>1 DEF ClosedAtTellsClosed, Exists
<1>6. VerdictsRestOnDocuments'
  <2>1. SUFFICES ASSUME ~stale' PROVE VerdictsRestOnDocuments'
    BY DEF VerdictsRestOnDocuments, JudgedAsSubmitted, ReviewedHasDocuments
  <2>2. CanEdit(i)
    BY <1>1, <2>1 DEF Grounds
  <2>3. \A j \in Ids : Exists(j) => row[j].status \in {"PENDING_DETAIL", "REJECTED_FOR_EDIT"}
    BY <1>0, <2>2 DEF OneTicket, CanEdit
  <2>. QED
    BY <2>3 DEF VerdictsRestOnDocuments, JudgedAsSubmitted, ReviewedHasDocuments, Exists
<1>7. FilesHaveTheirEntity'
  BY <1>1 DEF FilesHaveTheirEntity
<1>. QED  BY <1>1, <1>2, <1>3, <1>4, <1>5, <1>6, <1>7, TypePartsNext

LEMMA EditCommitsKeep ==
  ASSUME Inv, NEW r \in Requests,
         \/ UpdateCommit(r) \/ AddDocumentCommit(r) \/ UpdateDocumentCommit(r)
         \/ DeleteDocumentCommit(r) \/ AttachCommit(r) \/ ReplaceFileCommit(r)
         \/ DetachCommit(r)
  PROVE  Inv'
<1>. DEFINE s == ses[r]
<1>0. Rows /\ s \in Work
  BY RequestType, TypeParts DEF Inv
<1>1. s.op \in ContentOps => s.id \in Ids /\ Exists(s.id)
  BY <1>0, RequestType, WorkShape DEF OnProvision
<1>2. ASSUME UNCHANGED <<row, document, file>>, ~stale PROVE FilesHaveTheirEntity'
  BY <1>2 DEF Inv, FilesHaveTheirEntity, OwnerOf, Exists
<1>3. CASE UpdateCommit(r)
  <2>1. s.op \in ContentOps /\ {"provision"} \cap Content # {}
    BY <1>3 DEF UpdateCommit, ContentOps, Content
  <2>. QED  BY <1>0, <1>2, <1>3, <2>1, ContentCommit DEF UpdateCommit, Rows
<1>4. CASE AddDocumentCommit(r)
  <2>1. s.op \in ContentOps /\ {"document"} \cap Content # {} /\ s.document \in Documents
    BY <1>0, <1>4, WorkShape DEF AddDocumentCommit, ContentOps, Content
  <2>2. document' = [document EXCEPT ![s.document] = s.id] /\ UNCHANGED <<row, file>>
    BY <1>4 DEF AddDocumentCommit
  <2>3. ASSUME ~stale PROVE FilesHaveTheirEntity'
    <3>1. s.id # None
      BY <1>1, <2>1, ProvisionsAssumption DEF ProvisionsAssumption
    <3>. QED
      BY <1>0, <1>1, <2>1, <2>2, <2>3, <3>1 DEF Inv, FilesHaveTheirEntity, OwnerOf, Exists, Rows
  <2>4. /\ document' \in [Documents -> Ids \cup {None}]
        /\ \A d \in Documents : document'[d] \in {document[d], s.id, None}
    BY <1>0, <1>1, <2>1, <2>2 DEF Rows
  <2>. QED  BY <1>0, <1>4, <2>1, <2>2, <2>3, <2>4, ContentCommit DEF AddDocumentCommit, Rows
<1>5. CASE UpdateDocumentCommit(r)
  <2>1. s.op \in ContentOps /\ {"document"} \cap Content # {}
    BY <1>5 DEF UpdateDocumentCommit, ContentOps, Content
  <2>2. CASE Refused(r)
    BY <2>2, RefusedKeeps
  <2>3. CASE ~Refused(r)
    BY <1>0, <1>2, <1>5, <2>1, <2>3, ContentCommit DEF UpdateDocumentCommit, Rows
  <2>. QED  BY <2>2, <2>3
<1>6. CASE DeleteDocumentCommit(r)
  <2>1. s.op \in ContentOps /\ {"document", "file"} \cap Content # {} /\ s.document \in Documents
    BY <1>0, <1>6, WorkShape DEF DeleteDocumentCommit, ContentOps, Content
  <2>2. /\ document' = [document EXCEPT ![s.document] = None]
        /\ file' = [f \in Files |-> IF file[f] = s.document THEN None ELSE file[f]]
        /\ UNCHANGED row
    BY <1>6 DEF DeleteDocumentCommit, FilesAfterDelete
  <2>3. ASSUME ~stale PROVE FilesHaveTheirEntity'
    BY <1>0, <2>1, <2>2, <2>3 DEF Inv, FilesHaveTheirEntity, OwnerOf, Exists, Rows
  <2>4. /\ document' \in [Documents -> Ids \cup {None}]
        /\ file' \in [Files -> Documents \cup Ids \cup {None}]
        /\ \A d \in Documents : document'[d] \in {document[d], s.id, None}
    BY <1>0, <2>1, <2>2 DEF Rows
  <2>. QED  BY <1>6, <2>1, <2>2, <2>3, <2>4, ContentCommit DEF DeleteDocumentCommit
<1>7. CASE AttachCommit(r)
  <2>1. /\ s.op = "attach" /\ s.op \in ContentOps /\ {"file"} \cap Content # {}
        /\ s.file \in Files /\ s.entity \in Documents \cup Ids
    BY <1>0, <1>7, WorkShape DEF AttachCommit, ContentOps, Content
  <2>2. file' = [file EXCEPT ![s.file] = s.entity] /\ UNCHANGED <<row, document>>
    BY <1>7 DEF AttachCommit
  <2>3. ASSUME ~stale, Grounds(s) PROVE FilesHaveTheirEntity'
    <3>1. OwnerOf(s.entity) = s.id /\ s.id # None
      BY <1>1, <2>1, <2>3, ProvisionsAssumption DEF ProvisionsAssumption, Grounds
    <3>. QED
      BY <1>0, <1>1, <2>1, <2>2, <2>3, <3>1 DEF Inv, FilesHaveTheirEntity, OwnerOf, Exists, Rows
  <2>4. /\ document' \in [Documents -> Ids \cup {None}]
        /\ file' \in [Files -> Documents \cup Ids \cup {None}]
        /\ \A d \in Documents : document'[d] \in {document[d], s.id, None}
    BY <1>0, <2>1, <2>2 DEF Rows
  <2>. QED  BY <1>7, <2>1, <2>2, <2>3, <2>4, ContentCommit DEF AttachCommit
<1>8. CASE ReplaceFileCommit(r)
  <2>1. s.op \in ContentOps /\ {"file"} \cap Content # {}
    BY <1>8 DEF ReplaceFileCommit, ContentOps, Content
  <2>2. CASE Refused(r)
    BY <2>2, RefusedKeeps
  <2>3. CASE ~Refused(r)
    BY <1>0, <1>2, <1>8, <2>1, <2>3, ContentCommit DEF ReplaceFileCommit, Rows
  <2>. QED  BY <2>2, <2>3
<1>9. CASE DetachCommit(r)
  <2>1. s.op \in ContentOps /\ {"file"} \cap Content # {} /\ s.file \in Files
    BY <1>0, <1>9, WorkShape DEF DetachCommit, ContentOps, Content
  <2>2. file' = [file EXCEPT ![s.file] = None] /\ UNCHANGED <<row, document>>
    BY <1>9 DEF DetachCommit
  <2>3. ASSUME ~stale PROVE FilesHaveTheirEntity'
    BY <1>0, <2>1, <2>2, <2>3 DEF Inv, FilesHaveTheirEntity, OwnerOf, Exists, Rows
  <2>4. /\ document' \in [Documents -> Ids \cup {None}]
        /\ file' \in [Files -> Documents \cup Ids \cup {None}]
        /\ \A d \in Documents : document'[d] \in {document[d], s.id, None}
    BY <1>0, <2>1, <2>2 DEF Rows
  <2>. QED  BY <1>9, <2>1, <2>2, <2>3, <2>4, ContentCommit DEF DetachCommit
<1>. QED  BY <1>3, <1>4, <1>5, <1>6, <1>7, <1>8, <1>9

LEMMA CreateCommitKeeps ==
  ASSUME Inv, NEW r \in Requests, CreateCommit(r)
  PROVE  Inv'
<1>. USE DEF Inv
<1>. DEFINE s == ses[r]
            new == [status |-> "PENDING_DETAIL", closed_at |-> FALSE,
                    history |-> "PENDING_DETAIL", owner |-> s.user]
<1>1. CASE Refused(r)
  BY <1>1, RefusedKeeps
<1>2. CASE ~Refused(r)
  <2>1. /\ UniqueTicket(s.id)
        /\ row' = [row EXCEPT ![s.id] = new]
        /\ document' = [d \in Documents |-> IF d = s.document THEN s.id ELSE document[d]]
        /\ asSubmitted' = [asSubmitted EXCEPT ![s.id] = FALSE]
        /\ Finish(r, {"provision", "document"})
        /\ UNCHANGED <<file, grant, company, area>>
    BY <1>2 DEF CreateCommit, Touched
  <2>2. Rows /\ s \in Work /\ s.id \in Ids /\ s.user \in Users
    BY <1>2, RequestType, TypeParts, WorkShape DEF CreateCommit
  <2>3. new \in ProvisionRow /\ new # None /\ s.id # None
    <3>1. new \in ProvisionRow
      BY <2>2 DEF ProvisionRow, Status
    <3>2. None \notin ProvisionRow /\ None \notin Ids
      BY ProvisionsAssumption DEF ProvisionsAssumption
    <3>. QED  BY <2>2, <3>1, <3>2
  <2>. HIDE DEF s, new
  <2>4. \A i \in Ids : row'[i] = IF i = s.id THEN new ELSE None
    BY <2>1, <2>2 DEF UniqueTicket, Exists, Rows
  <2>5. Rows'
    BY <2>1, <2>2, <2>3 DEF Rows
  <2>6. \A i \in Ids : Exists(i)' <=> i = s.id
    BY <2>3, <2>4 DEF Exists
  <2>7. Sessions' /\ Found' /\ Grounded' /\ (~stale' => ~stale)
    <3>1. \A i \in Ids : Exists(i) => Exists(i)'
      BY <2>1 DEF UniqueTicket
    <3>2. {"provision", "document"} \cap Content # {}
      BY DEF Content
    <3>. QED  BY <2>1, <3>1, <3>2, FinishKeeps
  <2>8. OneTicket'
    BY <2>6 DEF OneTicket
  <2>9. DocumentsHaveTheirProvision'
    <3>1. \A d \in Documents : document[d] = None
      BY <2>1, <2>2 DEF DocumentsHaveTheirProvision, UniqueTicket, Rows
    <3>. QED
      BY <2>1, <2>2, <2>6, <3>1 DEF DocumentsHaveTheirProvision
  <2>10. \A i \in Ids : Exists(i)' => row'[i] = new
    BY <2>4, <2>6
  <2>11. HistoryTellsStatus' /\ ClosedAtTellsClosed' /\ VerdictsRestOnDocuments'
    BY <2>10 DEF HistoryTellsStatus, ClosedAtTellsClosed, VerdictsRestOnDocuments,
                 JudgedAsSubmitted, ReviewedHasDocuments, Exists, Closed, new
  <2>12. FilesHaveTheirEntity'
    <3>1. SUFFICES ASSUME ~stale', NEW f \in Files, file'[f] # None
                   PROVE  FALSE
      BY DEF FilesHaveTheirEntity
    <3>2. /\ file[f] # None /\ file'[f] = file[f] /\ file[f] \in Documents \cup Ids
          /\ OwnerOf(file[f]) # None /\ Exists(OwnerOf(file[f]))
      BY <2>1, <2>2, <2>7, <3>1 DEF FilesHaveTheirEntity, Rows
    <3>3. OwnerOf(file[f]) \in Ids
      BY <2>2, <3>2 DEF OwnerOf, Rows
    <3>. QED
      BY <2>1, <3>2, <3>3 DEF UniqueTicket
  <2>. QED  BY <2>5, <2>7, <2>8, <2>9, <2>11, <2>12, TypePartsNext
<1>. QED  BY <1>1, <1>2

\* Each verdict moves the one provision from the state it is given in.
LEMMA TransitionKeeps ==
  ASSUME Inv, NEW r \in Requests, Transition(r)
  PROVE  Inv'
<1>. USE DEF Inv
<1>. DEFINE i == ses[r].id
            target == Target[ses[r].op]
<1>1. /\ ses[r].op \in DOMAIN Target
      /\ row' = [row EXCEPT ![i] = Moved(@, target)]
      /\ asSubmitted' = [asSubmitted EXCEPT ![i] = @ \/ ses[r].op = "submit"]
      /\ Finish(r, {"provision"})
      /\ UNCHANGED <<document, file, grant, company, area>>
  BY DEF Transition
<1>2. /\ Rows /\ Exists(i) /\ i \in Ids
      /\ ses[r].op \in ReviewOps \cup {"submit", "cancel"}
  BY <1>1, RequestType, TypeParts, WorkShape
  DEF Target, OnProvision, ReviewOps
<1>3. /\ ses[r].op = "submit" => target = "READY_FOR_REVIEW"
      /\ ses[r].op = "approve" => target = "APPROVED"
      /\ ses[r].op = "reject_for_edit" => target = "REJECTED_FOR_EDIT"
      /\ ses[r].op = "reject_final" => target = "REJECTED_FINAL"
      /\ ses[r].op = "cancel" => target = "CANCELLED"
  BY <1>2 DEF Target, ReviewOps
<1>4. target \in Status
  BY <1>2, <1>3 DEF Status, ReviewOps
<1>5. row[i] \in ProvisionRow
  BY <1>2 DEF Rows, Exists
<1>. HIDE DEF target
<1>6. /\ row'[i] \in ProvisionRow /\ row'[i] # None
      /\ row'[i].status = target /\ row'[i].history = target
      /\ row'[i].closed_at = (row[i].closed_at \/ target \in Closed)
  <2>1. row'[i] = Moved(row[i], target)
    BY <1>1, <1>2 DEF Rows
  <2>2. ASSUME NEW old \in ProvisionRow, NEW status \in Status
        PROVE  /\ Moved(old, status) \in ProvisionRow
               /\ Moved(old, status).status = status /\ Moved(old, status).history = status
               /\ Moved(old, status).closed_at = (old.closed_at \/ status \in Closed)
    BY DEF Moved, ProvisionRow
  <2>3. None \notin ProvisionRow
    BY ProvisionsAssumption DEF ProvisionsAssumption
  <2>. QED
    BY <1>4, <1>5, <2>1, <2>2, <2>3
<1>7. \A j \in Ids : j # i => row'[j] = row[j]
  BY <1>1, <1>2 DEF Rows
<1>8. \A j \in Ids : Exists(j)' <=> j = i
  BY <1>2, <1>6, <1>7 DEF Exists, OneTicket
<1>9. Rows'
  BY <1>1, <1>2, <1>6, <1>7 DEF Rows
<1>10. /\ Sessions' /\ Found' /\ Grounded'
       /\ ~stale' => ~stale /\ Grounds(ses[r])
  <2>1. \A j \in Ids : Exists(j) => Exists(j)'
    BY <1>2, <1>8 DEF OneTicket
  <2>. QED  BY <1>1, <2>1, FinishKeeps DEF Content
<1>11. OneTicket' /\ DocumentsHaveTheirProvision'
  BY <1>1, <1>2, <1>8 DEF OneTicket, DocumentsHaveTheirProvision, Rows
<1>12. HistoryTellsStatus'
  BY <1>6, <1>8 DEF HistoryTellsStatus, Exists
<1>13. ASSUME ~stale'
       PROVE  /\ row[i].closed_at <=> row[i].status \in Closed
              /\ row[i].status \notin Closed
  <2>1. row[i].closed_at <=> row[i].status \in Closed
    BY <1>2, <1>10, <1>13 DEF ClosedAtTellsClosed
  <2>2. row[i].status \notin Closed
    BY <1>2, <1>10, <1>13 DEF Grounds, CanEdit, Closed
  <2>. QED  BY <2>1, <2>2
<1>14. ClosedAtTellsClosed'
  BY <1>6, <1>8, <1>13 DEF ClosedAtTellsClosed, Exists
<1>15. VerdictsRestOnDocuments'
  <2>1. SUFFICES ASSUME ~stale'
                 PROVE  /\ target \in {"READY_FOR_REVIEW", "APPROVED", "REJECTED_FINAL"}
                              => asSubmitted'[i]
                        /\ target \in {"READY_FOR_REVIEW", "APPROVED"} => DocumentsOf(i) # {}
    <3>1. \A j \in Ids : DocumentsOf(j)' = DocumentsOf(j)
      BY <1>1 DEF DocumentsOf
    <3>. QED
      BY <1>6, <1>8, <2>1, <3>1
      DEF VerdictsRestOnDocuments, JudgedAsSubmitted, ReviewedHasDocuments, Exists
  <2>2. DocumentsOf(i) = {d \in Documents : document[d] = i}
    BY DEF DocumentsOf
  <2>3. asSubmitted'[i] = (asSubmitted[i] \/ ses[r].op = "submit")
    BY <1>1, <1>2 DEF Rows
  <2>4. CASE ses[r].op = "submit"
    BY <1>3, <1>10, <2>1, <2>2, <2>3, <2>4 DEF Grounds
  <2>5. CASE ses[r].op \in ReviewOps
    <3>1. row[i].status = "READY_FOR_REVIEW"
      BY <1>10, <2>1, <2>5 DEF Grounds
    <3>. QED
      BY <1>2, <1>10, <2>1, <2>2, <2>3, <3>1
      DEF VerdictsRestOnDocuments, JudgedAsSubmitted, ReviewedHasDocuments
  <2>6. CASE ses[r].op = "cancel"
    BY <1>3, <2>6
  <2>. QED  BY <1>2, <2>4, <2>5, <2>6
<1>16. FilesHaveTheirEntity'
  BY <1>1, <1>2, <1>8, <1>10 DEF FilesHaveTheirEntity, OwnerOf, OneTicket, Rows
<1>. QED
  BY <1>9, <1>10, <1>11, <1>12, <1>14, <1>15, <1>16, TypePartsNext

\* Grants and master data leave the provision, its documents and its files alone.
LEMMA OtherCommitsKeep ==
  ASSUME Inv, NEW r \in Requests,
         \/ GrantCommit(r)
         \/ SetCompanyActiveCommit(r) \/ UpdateCompanyCommit(r) \/ DeleteAreaCommit(r)
  PROVE  Inv'
<1>. USE DEF Inv
<1>0. Rows /\ ses[r] \in Work
  BY RequestType, TypeParts
<1>1. ASSUME NEW writes, Finish(r, writes), UNCHANGED <<row, document, file, asSubmitted>>,
             grant' \in [Ids -> [Users -> AccessTypes \cup {None}]],
             company' \in BOOLEAN, area' \in BOOLEAN
      PROVE  Inv'
  <2>1. Sessions' /\ Found' /\ Grounded' /\ (~stale' => ~stale)
    BY <1>1, FinishKeeps DEF Exists
  <2>2. Rows'
    BY <1>0, <1>1 DEF Rows
  <2>3. OneTicket' /\ DocumentsHaveTheirProvision' /\ HistoryTellsStatus'
    BY <1>1 DEF OneTicket, DocumentsHaveTheirProvision, HistoryTellsStatus, Exists
  <2>4. ClosedAtTellsClosed' /\ VerdictsRestOnDocuments' /\ FilesHaveTheirEntity'
    BY <1>1, <2>1 DEF ClosedAtTellsClosed, VerdictsRestOnDocuments, JudgedAsSubmitted,
       ReviewedHasDocuments, FilesHaveTheirEntity, DocumentsOf, OwnerOf, Exists
  <2>. QED  BY <2>1, <2>2, <2>3, <2>4, TypePartsNext
<1>2. CASE GrantCommit(r)
  <2>1. CASE Refused(r)
    BY <2>1, RefusedKeeps
  <2>2. CASE ~Refused(r)
    <3>1. /\ Finish(r, {"grant"})
          /\ UNCHANGED <<row, document, file, company, area, asSubmitted>>
          /\ \/ grant' = grant
             \/ grant' = [grant EXCEPT ![ses[r].id][ses[r].user] = ses[r].type]
      BY <1>2, <2>2 DEF GrantCommit
    <3>2. ses[r].type \in AccessTypes /\ ses[r].id \in Ids /\ ses[r].user \in Users
      BY <1>0, <1>2, WorkShape DEF GrantCommit, OnProvision
    <3>. DEFINE given == [grant[ses[r].id] EXCEPT ![ses[r].user] = ses[r].type]
    <3>3. given \in [Users -> AccessTypes \cup {None}]
      BY <1>0, <3>2 DEF Rows
    <3>4. grant' = grant \/ grant' = [grant EXCEPT ![ses[r].id] = given]
      BY <3>1
    <3>. HIDE DEF given
    <3>5. grant' \in [Ids -> [Users -> AccessTypes \cup {None}]]
      BY <1>0, <3>3, <3>4 DEF Rows
    <3>. QED  BY <1>0, <1>1, <3>1, <3>5 DEF Rows
  <2>. QED  BY <2>1, <2>2
<1>3. CASE SetCompanyActiveCommit(r) \/ UpdateCompanyCommit(r) \/ DeleteAreaCommit(r)
  <2>1. ses[r].active \in BOOLEAN
    BY <1>0, <1>3, WorkShape
    DEF SetCompanyActiveCommit, UpdateCompanyCommit, DeleteAreaCommit, MasterOps
  <2>2. company' \in BOOLEAN /\ area' \in BOOLEAN
    BY <1>0, <1>3, <2>1
    DEF SetCompanyActiveCommit, UpdateCompanyCommit, DeleteAreaCommit, Column, Rows
  <2>3. /\ UNCHANGED <<row, document, file, grant, asSubmitted>>
        /\ \E writes : Finish(r, writes)
    BY <1>3 DEF SetCompanyActiveCommit, UpdateCompanyCommit, DeleteAreaCommit
  <2>. QED  BY <1>0, <1>1, <2>2, <2>3 DEF Rows
<1>. QED  BY <1>2, <1>3

-----------------------------------------------------------------------------
(* The theorems.                                                           *)

LEMMA InitInv == Init => Inv
<1>. SUFFICES ASSUME Init PROVE Inv
  OBVIOUS
<1>1. Rows /\ Sessions /\ Found
  BY IdleType DEF Init, Rows, Sessions, Found
<1>2. Grounded
  BY IdleType DEF Init, Grounded
<1>3. \A i \in Ids : ~Exists(i)
  BY DEF Init, Exists
<1>4. OneTicket /\ DocumentsHaveTheirProvision /\ HistoryTellsStatus /\ ClosedAtTellsClosed
  BY <1>3 DEF Init, OneTicket, DocumentsHaveTheirProvision, HistoryTellsStatus,
              ClosedAtTellsClosed
<1>5. VerdictsRestOnDocuments /\ FilesHaveTheirEntity
  BY <1>3 DEF Init, VerdictsRestOnDocuments, JudgedAsSubmitted, ReviewedHasDocuments,
              FilesHaveTheirEntity
<1>. QED  BY <1>1, <1>2, <1>4, <1>5, TypeParts DEF Inv

LEMMA StepInv == Inv /\ [Next]_vars => Inv'
<1>. SUFFICES ASSUME Inv, [Next]_vars PROVE Inv'
  OBVIOUS
<1>1. CASE UNCHANGED vars
  <2>1. UNCHANGED <<row, document, file, grant, company, area, ses, fresh, stale, asSubmitted>>
    BY <1>1 DEF vars
  <2>2. Rows' /\ Sessions' /\ Found'
    BY <2>1, TypeParts DEF Inv, Rows, Sessions, Found, Exists
  <2>3. OneTicket' /\ DocumentsHaveTheirProvision' /\ Grounded'
    BY <2>1 DEF Inv, OneTicket, DocumentsHaveTheirProvision, Grounded, Grounds, CanEdit,
                DocumentsOf, OwnerOf, ActiveProvisions, Exists
  <2>4. /\ HistoryTellsStatus' /\ ClosedAtTellsClosed' /\ VerdictsRestOnDocuments'
        /\ FilesHaveTheirEntity'
    BY <2>1 DEF Inv, HistoryTellsStatus, ClosedAtTellsClosed, VerdictsRestOnDocuments,
       JudgedAsSubmitted, ReviewedHasDocuments, FilesHaveTheirEntity, DocumentsOf, OwnerOf,
       Exists
  <2>. QED  BY <2>2, <2>3, <2>4, TypePartsNext DEF Inv
<1>2. CASE Next
  <2>1. PICK r \in Requests :
          \/ \E u \in Users, i \in Ids, d \in Documents \cup {None} : CreateLoad(r, u, i, d)
          \/ CreateCommit(r)
          \/ Edit(r) \/ Review(r) \/ Share(r) \/ Master(r)
    BY <1>2 DEF Next
  <2>2. CASE \E u \in Users, i \in Ids, d \in Documents \cup {None} : CreateLoad(r, u, i, d)
    BY <2>2, OtherLoadsKeep
  <2>3. CASE CreateCommit(r)
    BY <2>3, CreateCommitKeeps
  <2>4. CASE Edit(r)
    BY <2>4, EditLoadsKeep, EditCommitsKeep DEF Edit, EditLoads
  <2>5. CASE Review(r)
    BY <2>5, OtherLoadsKeep, TransitionKeeps DEF Review
  <2>6. CASE Share(r)
    BY <2>6, OtherLoadsKeep, OtherCommitsKeep DEF Share
  <2>7. CASE Master(r)
    BY <2>7, MasterLoadsKeep, OtherCommitsKeep DEF Master
  <2>. QED  BY <2>1, <2>2, <2>3, <2>4, <2>5, <2>6, <2>7
<1>. QED  BY <1>1, <1>2

(* In every reachable state the rows have their columns, every request the    *)
(* fields of its operation, and no request that is fresh has lost the grounds  *)
(* on which provision_service.py let it through.                              *)
THEOREM InvHolds == Spec => []Inv
  BY InitInv, StepInv, PTL DEF Spec

(* The rows stay well formed, and a provision that was found stays.           *)
THEOREM TypeCorrect == Spec => []TypeOK
<1>1. Inv => TypeOK
  BY DEF Inv
<1>. QED  BY <1>1, InvHolds, PTL

(* One ticket, one provision: of two creations that both found the code free,  *)
(* the constraint stops the second; and the history and the closing time of    *)
(* the provision tell its status (_transition, provision_service.py).          *)
THEOREM TicketToldOnce == Spec => []TicketIsTold
<1>1. ASSUME OneTicket PROVE OneProvisionPerTicket
  <2>. DEFINE S == {i \in Ids : Exists(i)}
  <2>1. CASE S = {}
    BY <2>1, FS_EmptySet DEF OneProvisionPerTicket
  <2>2. CASE S # {}
    <3>1. PICK i : i \in S
      BY <2>2
    <3>2. S = {i}
      BY <1>1, <3>1 DEF OneTicket
    <3>3. Cardinality(S) = 1
      BY <3>2, FS_Singleton
    <3>. QED  BY <3>3 DEF OneProvisionPerTicket
  <2>. QED  BY <2>1, <2>2
<1>2. Inv => TicketIsTold
  BY <1>1 DEF Inv, TicketIsTold
<1>. QED  BY <1>2, InvHolds, PTL

(* Among requests that do not overlap, a reviewer judges what was submitted,   *)
(* and something was: no operation that _can_edit lets through comes between    *)
(* the submission and the verdict.                                            *)
THEOREM VerdictsAreOnWhatWasSubmitted == Spec => []VerdictsRestOnDocuments
<1>1. Inv => VerdictsRestOnDocuments
  BY DEF Inv
<1>. QED  BY <1>1, InvHolds, PTL

(* Every attachment row names a document or a provision that exists, with no   *)
(* foreign key to say so: delete_document takes the files along.               *)
THEOREM FilesAreNotOrphaned == Spec => []FilesHaveTheirEntity
<1>1. Inv => FilesHaveTheirEntity
  BY DEF Inv
<1>. QED  BY <1>1, InvHolds, PTL

\* A row changes when it is created and when its status moves.
LEMMA RowChanges ==
  ASSUME [Next]_vars, UNCHANGED row => FALSE
  PROVE  \E r \in Requests : CreateCommit(r) \/ Transition(r)
<1>1. Next
  BY DEF vars
<1>2. PICK r \in Requests :
        \/ \E u \in Users, i \in Ids, d \in Documents \cup {None} : CreateLoad(r, u, i, d)
        \/ CreateCommit(r)
        \/ Edit(r) \/ Review(r) \/ Share(r) \/ Master(r)
  BY <1>1 DEF Next
<1>3. ~Edit(r)
  BY DEF Edit, UpdateLoad, AddDocumentLoad, UpdateDocumentLoad, DeleteDocumentLoad, AttachLoad,
         ReplaceFileLoad, DetachLoad, FileLoad, EditLoad, Load, UpdateCommit, AddDocumentCommit,
         UpdateDocumentCommit, DeleteDocumentCommit, AttachCommit, ReplaceFileCommit,
         DetachCommit, Refused
<1>4. Review(r) => Transition(r)
  BY DEF Review, SubmitLoad, CancelLoad, ReviewLoad, Load
<1>5. ~Share(r)
  BY DEF Share, GrantLoad, GrantCommit, Load, Refused
<1>6. ~Master(r)
  BY DEF Master, SetCompanyActiveLoad, UpdateCompanyLoad, DeleteAreaLoad, Load,
         SetCompanyActiveCommit, UpdateCompanyCommit, DeleteAreaCommit
<1>7. ~\E u \in Users, i \in Ids, d \in Documents \cup {None} : CreateLoad(r, u, i, d)
  BY DEF CreateLoad, Load
<1>. QED  BY <1>2, <1>3, <1>4, <1>5, <1>6, <1>7

\* The active flag of the company changes in one of two commits.
LEMMA CompanyChanges ==
  ASSUME [Next]_vars, UNCHANGED company => FALSE
  PROVE  \E r \in Requests : SetCompanyActiveCommit(r) \/ UpdateCompanyCommit(r)
<1>1. Next
  BY DEF vars
<1>2. PICK r \in Requests :
        \/ \E u \in Users, i \in Ids, d \in Documents \cup {None} : CreateLoad(r, u, i, d)
        \/ CreateCommit(r)
        \/ Edit(r) \/ Review(r) \/ Share(r) \/ Master(r)
  BY <1>1 DEF Next
<1>3. ~Edit(r)
  BY DEF Edit, UpdateLoad, AddDocumentLoad, UpdateDocumentLoad, DeleteDocumentLoad, AttachLoad,
         ReplaceFileLoad, DetachLoad, FileLoad, EditLoad, Load, UpdateCommit, AddDocumentCommit,
         UpdateDocumentCommit, DeleteDocumentCommit, AttachCommit, ReplaceFileCommit,
         DetachCommit, Refused
<1>4. ~Review(r)
  BY DEF Review, SubmitLoad, CancelLoad, ReviewLoad, Load, Transition
<1>5. ~Share(r)
  BY DEF Share, GrantLoad, GrantCommit, Load, Refused
<1>6. Master(r) => SetCompanyActiveCommit(r) \/ UpdateCompanyCommit(r)
  BY DEF Master, SetCompanyActiveLoad, UpdateCompanyLoad, DeleteAreaLoad, Load, DeleteAreaCommit
<1>7. ~CreateCommit(r)
  BY DEF CreateCommit, Refused
<1>8. ~\E u \in Users, i \in Ids, d \in Documents \cup {None} : CreateLoad(r, u, i, d)
  BY DEF CreateLoad, Load
<1>. QED  BY <1>2, <1>3, <1>4, <1>5, <1>6, <1>7, <1>8

(* Nothing but overlapping requests changes a provision that is closed, or      *)
(* deactivates a company from under one; the general update of a company, which *)
(* does not count its dependents (master_data_service.py), is the exception.    *)
THEOREM OverlapsAlone == Spec => OnlyOverlapsUndo
<1>1. ASSUME Inv, [Next]_vars
      PROVE  ClosedStays
  <2>1. SUFFICES ASSUME NEW i \in Ids, Exists(i), row[i].status \in Closed, row'[i] # row[i],
                        ~stale'
                 PROVE  FALSE
    BY DEF ClosedStays
  <2>2. PICK r \in Requests : CreateCommit(r) \/ Transition(r)
    BY <1>1, <2>1, RowChanges
  <2>3. CASE CreateCommit(r)
    BY <2>1, <2>3 DEF CreateCommit, UniqueTicket, Refused
  <2>4. CASE Transition(r)
    <3>1. ses[r].op \in DOMAIN Target /\ ses[r].op \in OnProvision
      BY <2>4 DEF Transition, Target, OnProvision, ReviewOps
    <3>2. Exists(ses[r].id) /\ ses[r].id \in Ids
      BY <1>1, <3>1, RequestType, WorkShape
    <3>3. ses[r].id = i
      BY <1>1, <2>1, <3>2 DEF Inv, OneTicket
    <3>4. fresh[r] /\ Grounds(ses[r])
      BY <1>1, <2>1, <2>4 DEF Transition, Finish, Inv, Grounded
    <3>. QED
      BY <2>1, <3>1, <3>3, <3>4 DEF Target, Grounds, CanEdit, ReviewOps, Closed
  <2>. QED  BY <2>2, <2>3, <2>4
<1>2. ASSUME Inv, [Next]_vars
      PROVE  DeactivationCounts
  <2>1. SUFFICES ASSUME ActiveProvisions # {}, company, ~company', ~stale'
                 PROVE  \E r \in Requests : ses[r].op = "update_company" /\ ses'[r] = Idle
    BY DEF DeactivationCounts
  <2>2. PICK r \in Requests : SetCompanyActiveCommit(r) \/ UpdateCompanyCommit(r)
    BY <1>2, <2>1, CompanyChanges
  <2>3. ses \in [Requests -> Work]
    BY <1>2 DEF Inv, TypeOK
  <2>4. CASE SetCompanyActiveCommit(r)
    <3>1. ses[r].op = "set_company_active" /\ fresh[r] /\ Grounds(ses[r])
      BY <1>2, <2>1, <2>4 DEF SetCompanyActiveCommit, Finish, Inv, Grounded
    <3>2. ses[r].active \in BOOLEAN /\ ses[r].had \in BOOLEAN
      BY <2>3, <3>1, WorkShape DEF MasterOps
    <3>3. ses[r].had /\ ~ses[r].active
      BY <2>1, <2>4, <3>2 DEF SetCompanyActiveCommit, Column
    <3>. QED
      BY <2>1, <3>1, <3>3 DEF Grounds
  <2>5. CASE UpdateCompanyCommit(r)
    BY <2>3, <2>5 DEF UpdateCompanyCommit, Finish
  <2>. QED  BY <2>2, <2>4, <2>5
<1>3. Inv /\ [Next]_vars => [ClosedStays /\ DeactivationCounts]_vars
  BY <1>1, <1>2
<1>. QED  BY <1>3, InvHolds, PTL DEF Spec, OnlyOverlapsUndo

-----------------------------------------------------------------------------
(* PaymentStaging: the inductive invariant.  With a retention of zero days  *)
(* the sweep may take the folder of an upload whose job is being created;   *)
(* what Called, Stocked and Justified say of folders is for longer ones.    *)

\* Nobody but an upload's own call makes the first job of its folder.
Sole(j) == Staging!JobsOf(Staging!FolderOf(j)) = {j}
Ended(j) == jobs[j].status \in Staging!TerminalJob

WorkPC == {"idle", "send", "archive", "record"}
KeyNames == {UploadKeys[u] : u \in Requests} \cup {Staging!NoKey}
JobRows == [owner : {Staging!Someone}, key : KeyNames, about : Requests,
            status : Staging!JobStatus, sent : Nat]
CallRows == [pc : Staging!CallPC, owner : {Staging!NoJob,
Staging!Someone}, key : KeyNames, about : Requests \cup {Staging!NoKey},
             job : Nat]
Folders == [exists : BOOLEAN, files : SUBSET Ids, changed : Nat]
MailRows == UNION {[S -> Staging!ItemStatus] : S \in SUBSET Ids}
Mailers == [pc : WorkPC, provider : Ids \cup {Staging!NoPdf}, moved : BOOLEAN]
SeenRows == [job : Nat, status : Staging!JobStatus \cup {"NONE"}, finished : Nat]
Sweeps == [pc : {"idle", "load", "decide"}, at : Nat, todo : SUBSET Requests,
           seen : UNION {[S -> SeenRows] : S \in SUBSET Requests}, complete : BOOLEAN]

Types ==
    /\ jobs \in Seq(JobRows) /\ call \in [Requests -> CallRows]
    /\ items \in Seq(MailRows) /\ finished \in Seq(Nat) /\ worker \in Seq(Mailers)
    /\ DOMAIN items = Staging!JobIds /\ DOMAIN finished = Staging!JobIds
       /\ DOMAIN worker = Staging!JobIds
    /\ folder \in [Requests -> Folders] /\ archive \subseteq Requests \X Ids
    /\ now \in 0..Horizon
    /\ sweep \in Sweeps /\ sweep.at <= now

\* A folder has nothing once it is removed, and its date is not one to come.
Folded(u) ==
    /\ ~folder[u].exists => folder[u].files = {}
    /\ folder[u].changed = Staging!NotYet \/ folder[u].changed <= now
    /\ folder[u].exists \/ Staging!JobsOf(u) # {} => folder[u].changed <= now

\* An upload that has no job yet is of this day or the one before, and no sweep
\* has touched its folder; nobody has worked on the job it is about to dispatch.
Called(u) ==
    /\ call[u].pc \in {"lookup", "insert"} =>
         /\ call[u].about = u /\ call[u].owner = Staging!Someone /\ Staging!JobsOf(u) = {}
         /\ folder[u].changed <= now /\ now <= folder[u].changed + 1
         /\ Retention # 0 => folder[u].exists /\ folder[u].files = Ids
    /\ call[u].pc = "dispatch" =>
         LET j == call[u].job IN
         /\ j \in Staging!JobIds /\ Staging!FolderOf(j) = u
         /\ jobs[j].sent = 0 /\ jobs[j].status # "DISPATCH_FAILED"
         /\ Staging!Of(j, "FAILED") = {} /\ worker[j].pc = "idle"

\* A worker has its item in hand; a job that has ended leaves nothing to do.
Worked(j) ==
    /\ worker[j].pc # "idle" =>
         worker[j].provider \in DOMAIN items[j] /\ items[j][worker[j].provider] = "RUNNING"
    /\ worker[j].moved => /\ worker[j].pc = "record"
                          /\ <<Staging!FolderOf(j), worker[j].provider>> \in archive
    /\ Ended(j) => Staging!Of(j, "PENDING") = {} /\ worker[j].pc = "idle"
    /\ jobs[j].status = "DISPATCH_FAILED" => Staging!Of(j, "FAILED") = {} /\ worker[j].pc = "idle"

\* The PDFs of a job that has its folder for itself are there as long as the folder is.
Stocked(j) ==
    Retention # 0 /\ Sole(j) /\ folder[Staging!FolderOf(j)].exists =>
        /\ Staging!Of(j, "PENDING") \cup Staging!Of(j, "FAILED")
              \subseteq folder[Staging!FolderOf(j)].files
        /\ worker[j].pc = "send" => worker[j].provider \in folder[Staging!FolderOf(j)].files

\* Nothing is left to send, nor to send again but what failed before the day t.
Settled(j, t) ==
    /\ Staging!Of(j, "PENDING") = {} /\ worker[j].pc = "idle"
    /\ Staging!Of(j, "FAILED") = {} \/ (Ended(j) /\ finished[j] = t)

\* A folder is gone because of its age, or because its job had ended long before.
Justified(j) ==
    Retention # 0 /\ Sole(j) /\ ~folder[Staging!FolderOf(j)].exists =>
        \/ folder[Staging!FolderOf(j)].changed + MaxAge < now
        \/ \E t \in Nat : Settled(j, t) /\ t + Retention < now

\* What the sweep has read of a folder still decides.
Reading(f) ==
    LET seen == sweep.seen[f] IN
    /\ f \in DOMAIN sweep.seen
    /\ seen.job # Staging!NoJob => /\ seen.job \in Staging!JobsOf(f)
                                   /\ seen.status \in Staging!TerminalJob
                                      => Settled(seen.job, seen.finished)
    /\ seen.job = Staging!NoJob => /\ seen.status = "NONE"
                                   /\ Staging!JobsOf(f) = {} \/ sweep.at <= folder[f].changed + 1
    /\ \A j \in Staging!JobsOf(f) : Sole(j) /\ Ended(j) =>
          \/ sweep.at <= finished[j]
          \/ seen.job = j /\ seen.status \in Staging!TerminalJob /\ finished[j] = seen.finished

\* A folder the sweep has left, or has not met.
Clean(u) ==
    /\ sweep.at <= folder[u].changed + MaxAge
    /\ Staging!JobsOf(u) = {} => sweep.at <= folder[u].changed + Retention
    /\ \A j \in Staging!JobsOf(u) : Sole(j) /\ Ended(j) => sweep.at <= finished[j] + Retention

Swept ==
    /\ sweep.pc = "idle" => sweep.todo = {}
    /\ sweep.pc = "decide" => \A f \in sweep.todo : Reading(f)
    /\ sweep.complete =>
         \A u \in Requests : folder[u].exists /\ u \notin sweep.todo => Clean(u)

Archived ==
    /\ \A r \in filed : r[1] \in Staging!JobIds /\ <<Staging!FolderOf(r[1]), r[2]>> \in archive
    /\ \A a \in archive :
         \/ a \in stranded
         \/ \E r \in filed : a = <<Staging!FolderOf(r[1]), r[2]>>
         \/ \E j \in Staging!JobIds : worker[j].moved /\ a = <<Staging!FolderOf(j), worker[j].provider>>

StagingInv ==
    /\ Types
    /\ \A u \in Requests : Folded(u) /\ Called(u)
    /\ \A j \in Staging!JobIds : Worked(j) /\ Stocked(j) /\ Justified(j)
    /\ Swept /\ Archived

-----------------------------------------------------------------------------
(* One job moves; files, sweep and clock stay.                              *)

MovesTo(j, new, it, fin, w) ==
    /\ jobs' = [jobs EXCEPT ![j] = new] /\ new \in JobRows /\ new.about = jobs[j].about
    /\ items' = [items EXCEPT ![j] = it] /\ it \in [DOMAIN items[j] -> Staging!ItemStatus]
    /\ finished' = [finished EXCEPT ![j] = fin] /\ fin \in Nat
    /\ worker' = [worker EXCEPT ![j] = w] /\ w \in Mailers
    /\ UNCHANGED <<folder, archive, sweep, now>>

InState(it, s) == {p \in DOMAIN it : it[p] = s}

LEMMA MovesPoints ==
  ASSUME Types, NEW j \in Staging!JobIds, NEW new, NEW it, NEW fin, NEW w, MovesTo(j, new, it, fin, w)
  PROVE  /\ Staging!JobIds' = Staging!JobIds
         /\ jobs' \in Seq(JobRows) /\ items' \in Seq(MailRows)
         /\ finished' \in Seq(Nat) /\ worker' \in Seq(Mailers)
         /\ DOMAIN items' = Staging!JobIds /\ DOMAIN finished' = Staging!JobIds
            /\ DOMAIN worker' = Staging!JobIds
         /\ jobs'[j] = new /\ items'[j] = it /\ finished'[j] = fin /\ worker'[j] = w
         /\ \A k \in Staging!JobIds : k # j => /\ jobs'[k] = jobs[k] /\ items'[k] = items[k]
                                               /\ finished'[k] = finished[k] /\ worker'[k] = worker[k]
         /\ \A k \in Staging!JobIds : Staging!FolderOf(k)' = Staging!FolderOf(k)
<1>1. it \in MailRows
  <2>1. items[j] \in MailRows
    BY DEF Types, Staging!JobIds
  <2>2. PICK S \in SUBSET Ids : items[j] \in [S -> Staging!ItemStatus]
    BY <2>1 DEF MailRows
  <2>. QED  BY <2>2 DEF MovesTo, MailRows
<1>2. /\ jobs \in Seq(JobRows) /\ new \in JobRows
      /\ items \in Seq(MailRows) /\ finished \in Seq(Nat) /\ worker \in Seq(Mailers)
      /\ fin \in Nat /\ w \in Mailers
      /\ jobs' = [jobs EXCEPT ![j] = new] /\ items' = [items EXCEPT ![j] = it]
      /\ finished' = [finished EXCEPT ![j] = fin] /\ worker' = [worker EXCEPT ![j] = w]
      /\ DOMAIN items = Staging!JobIds /\ DOMAIN finished = Staging!JobIds
         /\ DOMAIN worker = Staging!JobIds
      /\ new.about = jobs[j].about
  BY DEF Types, MovesTo
<1>3. /\ jobs' \in Seq(JobRows) /\ items' \in Seq(MailRows)
      /\ finished' \in Seq(Nat) /\ worker' \in Seq(Mailers)
  BY <1>1, <1>2, ExceptSeq DEF Staging!JobIds
<1>4. /\ Staging!JobIds' = Staging!JobIds
      /\ DOMAIN items' = Staging!JobIds /\ DOMAIN finished' = Staging!JobIds
         /\ DOMAIN worker' = Staging!JobIds
  BY <1>2 DEF Staging!JobIds
<1>5. /\ jobs'[j] = new /\ items'[j] = it /\ finished'[j] = fin /\ worker'[j] = w
      /\ \A k \in Staging!JobIds : k # j => /\ jobs'[k] = jobs[k] /\ items'[k] = items[k]
                                            /\ finished'[k] = finished[k] /\ worker'[k] = worker[k]
  BY <1>2 DEF Staging!JobIds
<1>6. \A k \in Staging!JobIds : Staging!FolderOf(k)' = Staging!FolderOf(k)
  BY <1>2, <1>5 DEF Staging!FolderOf
<1>. QED  BY <1>3, <1>4, <1>5, <1>6

LEMMA MovesFrame ==
  ASSUME Types, NEW j \in Staging!JobIds, NEW new, NEW it, NEW fin, NEW w, MovesTo(j, new, it, fin, w)
  PROVE  /\ \A f : Staging!JobsOf(f)' = Staging!JobsOf(f)
         /\ \A k \in Staging!JobIds : Sole(k)' <=> Sole(k)
         /\ \A k \in Staging!JobIds : k # j => /\ \A s : Staging!Of(k, s)' = Staging!Of(k, s)
                                               /\ Ended(k)' <=> Ended(k)
                                               /\ \A t : Settled(k, t)' <=> Settled(k, t)
         /\ \A s : Staging!Of(j, s)' = InState(it, s)
         /\ Ended(j)' <=> new.status \in Staging!TerminalJob
<1>1. \A f : Staging!JobsOf(f)' = Staging!JobsOf(f)
  BY MovesPoints DEF Staging!JobsOf
<1>2. \A k \in Staging!JobIds : Sole(k)' <=> Sole(k)
  BY <1>1, MovesPoints DEF Sole
<1>3. ASSUME NEW k \in Staging!JobIds, k # j
      PROVE  /\ \A s : Staging!Of(k, s)' = Staging!Of(k, s)
             /\ Ended(k)' <=> Ended(k)
             /\ \A t : Settled(k, t)' <=> Settled(k, t)
  <2>1. /\ jobs'[k] = jobs[k] /\ items'[k] = items[k]
        /\ finished'[k] = finished[k] /\ worker'[k] = worker[k]
    BY <1>3, MovesPoints
  <2>. QED  BY <2>1 DEF Staging!Of, Ended, Settled
<1>4. (\A s : Staging!Of(j, s)' = InState(it, s)) /\ (Ended(j)' <=> new.status \in Staging!TerminalJob)
  BY MovesPoints DEF Staging!Of, InState, Ended
<1>. QED  BY <1>1, <1>2, <1>3, <1>4

\* What every such step must see to, and what follows for the rest of the state.
MayMove(j, new, it, fin, w) ==
    /\ InState(it, "PENDING") \subseteq Staging!Of(j, "PENDING")
    /\ \A p \in InState(it, "FAILED") :
         p \in Staging!Of(j, "FAILED") \/ (worker[j].pc = "send" /\ p = worker[j].provider)
    /\ w.pc = "send" => \/ w.provider \in Staging!Of(j, "PENDING")
                        \/ worker[j].pc = "send" /\ w.provider = worker[j].provider
    /\ w.pc # "idle" => w.provider \in DOMAIN it /\ it[w.provider] = "RUNNING"
    /\ w.moved => w.pc = "record" /\ <<Staging!FolderOf(j), w.provider>> \in archive
    /\ new.status \in Staging!TerminalJob => /\ InState(it, "PENDING") = {} /\ w.pc = "idle"
                                             /\ fin = now \/ (Ended(j) /\ fin = finished[j])
    /\ new.status = "DISPATCH_FAILED" => InState(it, "FAILED") = {} /\ w.pc = "idle"

LEMMA MovesKeep ==
  ASSUME StagingInv, NEW j \in Staging!JobIds, NEW new, NEW it, NEW fin, NEW w,
         MovesTo(j, new, it, fin, w),
         MayMove(j, new, it, fin, w),
         \A t : Settled(j, t) => Settled(j, t)',
         call' \in [Requests -> CallRows], \A u \in Requests : Called(u)',
         Archived'
  PROVE  StagingInv'
<1>. USE DEF MayMove
<1>1. UNCHANGED <<folder, archive, sweep, now>> /\ Types
  BY DEF MovesTo, StagingInv
<1>2. Types'
  BY <1>1, MovesPoints, SMTT(30) DEF Types
<1>3. \A u \in Requests : Folded(u)'
  BY <1>1, MovesFrame DEF Folded, StagingInv, Staging!NotYet
<1>4. \A k \in Staging!JobIds : k # j => Worked(k)' /\ Stocked(k)' /\ Justified(k)'
  <2>. SUFFICES ASSUME NEW k \in Staging!JobIds, k # j PROVE Worked(k)' /\ Stocked(k)' /\ Justified(k)'
    OBVIOUS
  <2>1. /\ worker'[k] = worker[k] /\ items'[k] = items[k] /\ Staging!FolderOf(k)' = Staging!FolderOf(k)
        /\ jobs'[k] = jobs[k]
        /\ \A s : Staging!Of(k, s)' = Staging!Of(k, s)
        /\ Ended(k)' <=> Ended(k)
        /\ Sole(k)' <=> Sole(k)
        /\ \A t : Settled(k, t)' <=> Settled(k, t)
    BY <1>1, MovesPoints, MovesFrame
  <2>2. Worked(k) /\ Stocked(k) /\ Justified(k)
    BY DEF StagingInv
  <2>3. Worked(k)'
    BY <1>1, <2>1, <2>2 DEF Worked
  <2>4. Stocked(k)'
    BY <1>1, <2>1, <2>2 DEF Stocked
  <2>5. Justified(k)'
    BY <1>1, <2>1, <2>2 DEF Justified
  <2>. QED  BY <2>3, <2>4, <2>5
<1>5. /\ worker'[j] = w /\ items'[j] = it /\ finished'[j] = fin
         /\ Staging!FolderOf(j)' = Staging!FolderOf(j)
      /\ jobs'[j] = new
      /\ \A s : Staging!Of(j, s)' = InState(it, s)
      /\ Ended(j)' <=> new.status \in Staging!TerminalJob
      /\ Sole(j)' <=> Sole(j)
  BY <1>1, MovesPoints, MovesFrame
<1>6. Worked(j)'
  BY <1>1, <1>5 DEF Worked
<1>7. Stocked(j)'
  <2>1. Stocked(j)
    BY DEF StagingInv
  <2>. QED  BY <1>1, <1>5, <2>1 DEF Stocked
<1>8. Justified(j)'
  <2>1. Justified(j)
    BY DEF StagingInv
  <2>. QED  BY <1>1, <1>5, <2>1 DEF Justified
<1>9. Swept'
  <2>1. \A f : Staging!JobsOf(f)' = Staging!JobsOf(f) /\ Staging!JobsOf(f) \subseteq Staging!JobIds
    BY <1>1, MovesFrame DEF Staging!JobsOf
  <2>2. \A k \in Staging!JobIds : /\ Sole(k)' <=> Sole(k)
                                  /\ k # j => (Ended(k)' <=> Ended(k)) /\ finished'[k] = finished[k]
    BY <1>1, MovesFrame, MovesPoints
  <2>3. \A k \in Staging!JobIds : \A t : Settled(k, t) => Settled(k, t)'
    BY <1>1, MovesFrame
  <2>4. Ended(j)' => finished'[j] = now \/ (Ended(j) /\ finished'[j] = finished[j])
    BY <1>5
  <2>5. sweep.at \in Nat /\ now \in Nat /\ sweep.at <= now /\ Retention \in Nat
        /\ \A k \in Staging!JobIds : finished[k] \in Nat /\ finished'[k] \in Nat
    <3>1. /\ finished \in Seq(Nat) /\ finished' \in Seq(Nat)
          /\ DOMAIN finished = Staging!JobIds /\ DOMAIN finished' = Staging!JobIds
      BY <1>1, MovesPoints DEF Types
    <3>2. sweep.at \in Nat /\ now \in Nat /\ sweep.at <= now /\ Retention \in Nat
      BY <1>1, StagingHolds DEF Types, Sweeps, Staging!StagingAssumption
    <3>. QED  BY <3>1, <3>2
  <2>6. ASSUME NEW f \in sweep.todo, Reading(f)
        PROVE  Reading(f)'
    BY <1>1, <2>1, <2>2, <2>3, <2>4, <2>5, <2>6 DEF Reading
  <2>7. ASSUME NEW u \in Requests, Clean(u)
        PROVE  Clean(u)'
    BY <1>1, <2>1, <2>2, <2>4, <2>5, <2>7 DEF Clean
  <2>. QED  BY <1>1, <2>6, <2>7 DEF Swept, StagingInv
<1>10. Staging!JobIds' = Staging!JobIds
  BY <1>1, MovesPoints
<1>. QED  BY <1>2, <1>3, <1>4, <1>6, <1>7, <1>8, <1>9, <1>10 DEF StagingInv

\* The archive, the rows and the hands of the workers, as one job moves.
LEMMA ArchivedMoves ==
  ASSUME Types, Archived, NEW j \in Staging!JobIds, NEW new, NEW it, NEW fin, NEW w,
         MovesTo(j, new, it, fin, w), filed \subseteq filed', stranded \subseteq stranded',
         \A r \in filed' \ filed : r = <<j, worker[j].provider>> /\ worker[j].moved,
         worker[j].moved => \/ w.moved /\ w.provider = worker[j].provider
                            \/ <<Staging!FolderOf(j), worker[j].provider>> \in stranded'
                            \/ <<j, worker[j].provider>> \in filed',
         worker[j].moved => <<Staging!FolderOf(j), worker[j].provider>> \in archive
  PROVE  Archived'
<1>1. archive' = archive
  BY DEF MovesTo
<1>2. /\ Staging!JobIds' = Staging!JobIds
         /\ \A k \in Staging!JobIds : Staging!FolderOf(k)' = Staging!FolderOf(k)
      /\ worker'[j] = w /\ \A k \in Staging!JobIds : k # j => worker'[k] = worker[k]
  BY MovesPoints
<1>3. ASSUME NEW r \in filed'
      PROVE  r[1] \in Staging!JobIds' /\ <<Staging!FolderOf(r[1])', r[2]>> \in archive'
  <2>1. CASE r \in filed
    BY <1>1, <1>2, <2>1 DEF Archived
  <2>2. CASE r \notin filed
    BY <1>1, <1>2, <2>2
  <2>. QED  BY <2>1, <2>2
<1>4. ASSUME NEW a \in archive', a \notin stranded',
             \A r \in filed' : a # <<Staging!FolderOf(r[1])', r[2]>>
      PROVE  \E k \in Staging!JobIds' : worker'[k].moved
             /\ a = <<Staging!FolderOf(k)', worker'[k].provider>>
  <2>1. a \in archive /\ a \notin stranded
    BY <1>1, <1>4
  <2>2. \A r \in filed : a # <<Staging!FolderOf(r[1]), r[2]>>
    BY <1>2, <1>4 DEF Archived
  <2>3. PICK k \in Staging!JobIds : worker[k].moved /\ a = <<Staging!FolderOf(k), worker[k].provider>>
    BY <2>1, <2>2 DEF Archived
  <2>4. CASE k # j
    BY <1>2, <2>3, <2>4
  <2>5. CASE k = j
    <3>1. <<j, worker[j].provider>> \notin filed'
      BY <1>2, <1>4, <2>3, <2>5
    <3>. QED  BY <1>2, <1>4, <2>3, <2>5, <3>1
  <2>. QED  BY <2>4, <2>5
<1>. QED  BY <1>3, <1>4 DEF Archived

\* A job that is about to be dispatched is left as it is but for a cancellation.
LEMMA CalledMoves ==
  ASSUME StagingInv, NEW j \in Staging!JobIds, NEW new, NEW it, NEW fin, NEW w,
         MovesTo(j, new, it, fin, w), UNCHANGED call,
         (/\ jobs[j].sent = 0 /\ jobs[j].status # "DISPATCH_FAILED"
          /\ Staging!Of(j, "FAILED") = {} /\ worker[j].pc = "idle")
           => /\ new.sent = 0 /\ new.status # "DISPATCH_FAILED"
              /\ InState(it, "FAILED") = {} /\ w.pc = "idle"
  PROVE  call' \in [Requests -> CallRows] /\ \A u \in Requests : Called(u)'
<1>1. Types /\ UNCHANGED <<folder, now>> /\ \A u \in Requests : Called(u)
  BY DEF StagingInv, MovesTo
<1>2. ASSUME NEW u \in Requests
      PROVE  Called(u)'
  <2>1. call[u].pc \in {"lookup", "insert"} => Staging!JobsOf(u)' = {}
    BY <1>1, MovesFrame DEF Called
  <2>2. ASSUME call[u].pc = "dispatch"
        PROVE  LET k == call[u].job IN
               /\ k \in Staging!JobIds' /\ Staging!FolderOf(k)' = u
               /\ jobs'[k].sent = 0 /\ jobs'[k].status # "DISPATCH_FAILED"
               /\ Staging!Of(k, "FAILED")' = {} /\ worker'[k].pc = "idle"
    <3>1. PICK k : k = call[u].job
      OBVIOUS
    <3>2. /\ k \in Staging!JobIds /\ Staging!FolderOf(k) = u
          /\ jobs[k].sent = 0 /\ jobs[k].status # "DISPATCH_FAILED"
          /\ Staging!Of(k, "FAILED") = {} /\ worker[k].pc = "idle"
      BY <1>1, <2>2, <3>1 DEF Called
    <3>3. CASE k = j
      BY <1>1, <3>1, <3>2, <3>3, MovesPoints, MovesFrame
    <3>4. CASE k # j
      BY <1>1, <3>1, <3>2, <3>4, MovesPoints, MovesFrame
    <3>. QED  BY <3>3, <3>4
  <2>. QED  BY <1>1, <2>1, <2>2 DEF Called
<1>. QED  BY <1>1, <1>2 DEF Types

\* What the step of a worker may rely on.
LEMMA JobFacts ==
  ASSUME StagingInv, NEW j \in Staging!JobIds
  PROVE  /\ jobs[j] \in JobRows /\ worker[j] \in Mailers /\ finished[j] \in Nat
         /\ items[j] \in [DOMAIN items[j] -> Staging!ItemStatus] /\ DOMAIN items[j] \subseteq Ids
         /\ j \in DOMAIN items /\ j \in DOMAIN worker /\ j \in DOMAIN finished
         /\ Staging!FolderOf(j) \in Requests
         /\ Worked(j) /\ now \in Nat
<1>0. now \in Nat
  BY StagingHolds DEF StagingInv, Types, Staging!StagingAssumption
<1>1. /\ jobs \in Seq(JobRows) /\ items \in Seq(MailRows) /\ finished \in Seq(Nat)
      /\ worker \in Seq(Mailers)
      /\ DOMAIN items = Staging!JobIds /\ DOMAIN finished = Staging!JobIds
         /\ DOMAIN worker = Staging!JobIds
      /\ j \in DOMAIN jobs
  BY DEF StagingInv, Types, Staging!JobIds
<1>2. jobs[j] \in JobRows /\ items[j] \in MailRows /\ finished[j] \in Nat /\ worker[j] \in Mailers
  BY <1>1
<1>3. PICK S \in SUBSET Ids : items[j] \in [S -> Staging!ItemStatus]
  BY <1>2 DEF MailRows
<1>. QED  BY <1>0, <1>1, <1>2, <1>3 DEF StagingInv, Staging!FolderOf, JobRows

LEMMA AtRestType == Staging!AtRest \in Mailers /\ Staging!AtRest.pc = "idle" /\ ~Staging!AtRest.moved
  BY DEF Staging!AtRest, Mailers, WorkPC

LEMMA StartMailKeeps ==
  ASSUME StagingInv, NEW j \in Staging!JobIds, Staging!StartMail(j)
  PROVE  StagingInv'
<1>1. PICK p \in Staging!Of(j, "PENDING") :
         /\ items' = [items EXCEPT ![j][p] = "RUNNING"]
         /\ worker' = [worker EXCEPT ![j] = [Staging!AtRest EXCEPT !.pc = "send", !.provider = p]]
  BY DEF Staging!StartMail
<1>2. PICK new, it, w : /\ new = [jobs[j] EXCEPT !.status = "RUNNING"]
                        /\ it = [items[j] EXCEPT ![p] = "RUNNING"]
                        /\ w = [Staging!AtRest EXCEPT !.pc = "send", !.provider = p]
  OBVIOUS
<1>3. /\ jobs[j] \in JobRows /\ finished[j] \in Nat
      /\ items[j] \in [DOMAIN items[j] -> Staging!ItemStatus] /\ DOMAIN items[j] \subseteq Ids
      /\ j \in DOMAIN items /\ j \in DOMAIN finished /\ Worked(j)
      /\ p \in DOMAIN items[j] /\ items[j][p] = "PENDING"
  BY JobFacts DEF Staging!Of
<1>4. /\ w \in Mailers /\ w.pc = "send" /\ w.provider = p /\ ~w.moved
  BY <1>2, <1>3 DEF Staging!AtRest, Mailers, WorkPC
<1>5. /\ it \in [DOMAIN items[j] -> Staging!ItemStatus] /\ DOMAIN it = DOMAIN items[j]
      /\ it[p] = "RUNNING" /\ \A q \in DOMAIN it : q # p => it[q] = items[j][q]
  BY <1>2, <1>3 DEF Staging!ItemStatus
<1>6. /\ new \in JobRows /\ new.about = jobs[j].about /\ new.sent = jobs[j].sent
      /\ new.status = "RUNNING"
  BY <1>2, <1>3 DEF JobRows, Staging!JobStatus
<1>7. MovesTo(j, new, it, finished[j], w)
  <2>1. finished' = [finished EXCEPT ![j] = finished[j]]
    BY <1>3 DEF Staging!StartMail, StagingInv, Types
  <2>. QED  BY <1>1, <1>2, <1>3, <1>4, <1>5, <1>6, <2>1 DEF Staging!StartMail, MovesTo, Staging!files
<1>8. worker[j].pc = "idle" /\ jobs[j].sent # 0 /\ ~worker[j].moved
  BY <1>3 DEF Staging!StartMail, Worked
<1>9. /\ InState(it, "PENDING") \subseteq Staging!Of(j, "PENDING")
      /\ InState(it, "FAILED") \subseteq Staging!Of(j, "FAILED")
  BY <1>3, <1>5 DEF InState, Staging!Of
<1>10. Archived'
  BY <1>7, <1>8, ArchivedMoves DEF Staging!StartMail, StagingInv
<1>11. call' \in [Requests -> CallRows] /\ \A u \in Requests : Called(u)'
  BY <1>7, <1>8, CalledMoves DEF Staging!StartMail
<1>12. \A t : ~Settled(j, t)
  BY <1>1 DEF Settled
<1>13. MayMove(j, new, it, finished[j], w)
  BY <1>1, <1>3, <1>4, <1>5, <1>6, <1>9 DEF MayMove, Staging!TerminalJob
<1>. QED  BY <1>7, <1>10, <1>11, <1>12, <1>13, MovesKeep

LEMMA SendMailKeeps ==
  ASSUME StagingInv, NEW j \in Staging!JobIds, Staging!SendMail(j)
  PROVE  StagingInv'
<1>1. PICK p : p = worker[j].provider
  OBVIOUS
<1>2. /\ jobs[j] \in JobRows /\ finished[j] \in Nat /\ worker[j] \in Mailers
      /\ items[j] \in [DOMAIN items[j] -> Staging!ItemStatus] /\ DOMAIN items[j] \subseteq Ids
      /\ j \in DOMAIN items /\ j \in DOMAIN finished /\ j \in DOMAIN worker
      /\ worker[j].pc = "send" /\ ~worker[j].moved /\ p \in DOMAIN items[j]
      /\ items[j][p] = "RUNNING" /\ ~Ended(j) /\ jobs[j].status # "DISPATCH_FAILED"
  BY <1>1, JobFacts DEF Staging!SendMail, Worked
<1>3. /\ jobs' = [jobs EXCEPT ![j] = jobs[j]]
      /\ finished' = [finished EXCEPT ![j] = finished[j]]
      /\ UNCHANGED <<call, folder, archive, filed, stranded, sweep, now>>
  BY <1>2 DEF Staging!SendMail, Staging!creationVars, Staging!files, StagingInv, Types
<1>4. PICK it, w :
         /\ items' = [items EXCEPT ![j] = it] /\ worker' = [worker EXCEPT ![j] = w]
         /\ \/ it = items[j] /\ w = [worker[j] EXCEPT !.pc = "archive"]
            \/ it = [items[j] EXCEPT ![p] = "FAILED"] /\ w = Staging!AtRest
  <2>1. CASE worker' = [worker EXCEPT ![j].pc = "archive"] /\ UNCHANGED items
    <3>1. items' = [items EXCEPT ![j] = items[j]]
      BY <1>2, <2>1 DEF StagingInv, Types
    <3>. QED  BY <2>1, <3>1
  <2>2. CASE /\ items' = [items EXCEPT ![j][p] = "FAILED"]
             /\ worker' = [worker EXCEPT ![j] = Staging!AtRest]
    BY <2>2
  <2>. QED  BY <1>1, <2>1, <2>2 DEF Staging!SendMail
<1>5. /\ w \in Mailers /\ w.pc # "send" /\ ~w.moved
      /\ w.pc # "idle" => w.provider = p /\ it = items[j]
  BY <1>1, <1>2, <1>4, AtRestType DEF Mailers, WorkPC
<1>6. /\ it \in [DOMAIN items[j] -> Staging!ItemStatus]
      /\ \A q \in DOMAIN items[j] : q # p => it[q] = items[j][q]
      /\ it[p] \in {"RUNNING", "FAILED"}
  BY <1>2, <1>4 DEF Staging!ItemStatus
<1>7. MovesTo(j, jobs[j], it, finished[j], w)
  BY <1>2, <1>3, <1>4, <1>5, <1>6 DEF MovesTo
<1>8. MayMove(j, jobs[j], it, finished[j], w)
  BY <1>1, <1>2, <1>5, <1>6 DEF MayMove, InState, Staging!Of, Ended
<1>9. Archived'
  BY <1>2, <1>3, <1>7, ArchivedMoves DEF StagingInv
<1>10. call' \in [Requests -> CallRows] /\ \A u \in Requests : Called(u)'
  BY <1>2, <1>3, <1>7, CalledMoves
<1>11. \A t : ~Settled(j, t)
  BY <1>2 DEF Settled
<1>. QED  BY <1>7, <1>8, <1>9, <1>10, <1>11, MovesKeep

LEMMA RecordMailKeeps ==
  ASSUME StagingInv, NEW j \in Staging!JobIds, Staging!RecordMail(j)
  PROVE  StagingInv'
<1>1. PICK p, it : p = worker[j].provider /\ it = [items[j] EXCEPT ![p] = "SUCCEEDED"]
  OBVIOUS
<1>2. /\ jobs[j] \in JobRows /\ finished[j] \in Nat /\ worker[j] \in Mailers
      /\ items[j] \in [DOMAIN items[j] -> Staging!ItemStatus] /\ DOMAIN items[j] \subseteq Ids
      /\ j \in DOMAIN items /\ j \in DOMAIN finished /\ j \in DOMAIN worker
      /\ worker[j].pc = "record" /\ p \in DOMAIN items[j] /\ ~Ended(j)
      /\ jobs[j].status # "DISPATCH_FAILED"
      /\ worker[j].moved => <<Staging!FolderOf(j), p>> \in archive
  BY <1>1, JobFacts DEF Staging!RecordMail, Worked
<1>3. /\ jobs' = [jobs EXCEPT ![j] = jobs[j]]
      /\ finished' = [finished EXCEPT ![j] = finished[j]]
      /\ items' = [items EXCEPT ![j] = it] /\ worker' = [worker EXCEPT ![j] = Staging!AtRest]
      /\ filed' = filed \cup Staging!FiledRows(j)
      /\ UNCHANGED <<call, folder, archive, stranded, sweep, now>>
  BY <1>1, <1>2 DEF Staging!RecordMail, Staging!creationVars, Staging!files, StagingInv, Types
<1>4. /\ it \in [DOMAIN items[j] -> Staging!ItemStatus]
      /\ \A q \in DOMAIN items[j] : q # p => it[q] = items[j][q]
      /\ it[p] = "SUCCEEDED"
  BY <1>1, <1>2 DEF Staging!ItemStatus
<1>5. MovesTo(j, jobs[j], it, finished[j], Staging!AtRest)
  BY <1>2, <1>3, <1>4, AtRestType DEF MovesTo
<1>6. MayMove(j, jobs[j], it, finished[j], Staging!AtRest)
  BY <1>1, <1>2, <1>4, AtRestType DEF MayMove, InState, Staging!Of, Ended
<1>7. Archived'
  BY <1>1, <1>2, <1>3, <1>5, ArchivedMoves DEF StagingInv, Staging!FiledRows
<1>8. call' \in [Requests -> CallRows] /\ \A u \in Requests : Called(u)'
  BY <1>2, <1>3, <1>5, CalledMoves
<1>9. \A t : ~Settled(j, t)
  BY <1>2 DEF Settled
<1>. QED  BY <1>5, <1>6, <1>7, <1>8, <1>9, MovesKeep

LEMMA WorkerDiesKeeps ==
  ASSUME StagingInv, NEW j \in Staging!JobIds, Staging!WorkerDies(j)
  PROVE  StagingInv'
<1>1. /\ jobs[j] \in JobRows /\ finished[j] \in Nat
      /\ items[j] \in [DOMAIN items[j] -> Staging!ItemStatus]
      /\ j \in DOMAIN items /\ j \in DOMAIN finished
      /\ worker[j].pc # "idle" /\ ~Ended(j) /\ jobs[j].status # "DISPATCH_FAILED"
      /\ worker[j].moved => <<Staging!FolderOf(j), worker[j].provider>> \in archive
  BY JobFacts DEF Staging!WorkerDies, Worked
<1>2. /\ jobs' = [jobs EXCEPT ![j] = jobs[j]]
      /\ finished' = [finished EXCEPT ![j] = finished[j]]
      /\ items' = [items EXCEPT ![j] = items[j]] /\ worker' = [worker EXCEPT ![j] = Staging!AtRest]
      /\ UNCHANGED <<call, folder, archive, filed, sweep, now>>
  BY <1>1 DEF Staging!WorkerDies, Staging!creationVars, Staging!files, Staging!rows, StagingInv, Types
<1>3. /\ stranded \subseteq stranded'
      /\ worker[j].moved => <<Staging!FolderOf(j), worker[j].provider>> \in stranded'
  BY DEF Staging!WorkerDies
<1>4. MovesTo(j, jobs[j], items[j], finished[j], Staging!AtRest)
  BY <1>1, <1>2, AtRestType DEF MovesTo
<1>5. MayMove(j, jobs[j], items[j], finished[j], Staging!AtRest)
  BY <1>1, AtRestType DEF MayMove, InState, Staging!Of, Ended
<1>6. Archived'
  BY <1>1, <1>2, <1>3, <1>4, ArchivedMoves DEF StagingInv
<1>7. call' \in [Requests -> CallRows] /\ \A u \in Requests : Called(u)'
  BY <1>1, <1>2, <1>4, CalledMoves
<1>8. \A t : ~Settled(j, t)
  BY <1>1 DEF Settled
<1>. QED  BY <1>4, <1>5, <1>6, <1>7, <1>8, MovesKeep

LEMMA EndJobKeeps ==
  ASSUME StagingInv, NEW j \in Staging!JobIds, Staging!EndJob(j)
  PROVE  StagingInv'
<1>1. PICK new : new = [jobs[j] EXCEPT !.status = Staging!JobVerdict(j)]
  OBVIOUS
<1>2. /\ jobs[j] \in JobRows /\ worker[j] \in Mailers /\ now \in Nat
      /\ items[j] \in [DOMAIN items[j] -> Staging!ItemStatus]
      /\ j \in DOMAIN items /\ j \in DOMAIN worker
      /\ worker[j].pc = "idle" /\ ~worker[j].moved /\ ~Ended(j) /\ Staging!Of(j, "PENDING") = {}
  BY JobFacts DEF Staging!EndJob, Worked, Ended, Staging!TerminalJob
<1>3. /\ new \in JobRows /\ new.about = jobs[j].about /\ new.sent = jobs[j].sent
      /\ new.status # "DISPATCH_FAILED"
  BY <1>1, <1>2 DEF JobRows, Staging!JobVerdict, Staging!JobStatus, Staging!TerminalJob
<1>4. /\ jobs' = [jobs EXCEPT ![j] = new] /\ finished' = [finished EXCEPT ![j] = now]
      /\ items' = [items EXCEPT ![j] = items[j]] /\ worker' = [worker EXCEPT ![j] = worker[j]]
      /\ UNCHANGED <<call, folder, archive, filed, stranded, sweep, now>>
  BY <1>1, <1>2 DEF Staging!EndJob, Staging!files, StagingInv, Types
<1>5. MovesTo(j, new, items[j], now, worker[j])
  BY <1>2, <1>3, <1>4 DEF MovesTo
<1>6. MayMove(j, new, items[j], now, worker[j])
  BY <1>2, <1>3 DEF MayMove, InState, Staging!Of
<1>7. Archived'
  BY <1>2, <1>4, <1>5, ArchivedMoves DEF StagingInv
<1>8. call' \in [Requests -> CallRows] /\ \A u \in Requests : Called(u)'
  BY <1>2, <1>3, <1>4, <1>5, CalledMoves DEF InState, Staging!Of
<1>9. ASSUME NEW t, Settled(j, t)
      PROVE  Settled(j, t)'
  <2>1. Staging!Of(j, "FAILED") = {}
    BY <1>2, <1>9 DEF Settled
  <2>2. worker'[j] = worker[j] /\ \A s : Staging!Of(j, s)' = Staging!Of(j, s)
    BY <1>5, MovesPoints, MovesFrame DEF InState, Staging!Of, StagingInv
  <2>. QED  BY <1>2, <2>1, <2>2 DEF Settled
<1>. QED  BY <1>5, <1>6, <1>7, <1>8, <1>9, MovesKeep

LEMMA CancelJobKeeps ==
  ASSUME StagingInv, NEW j \in Staging!JobIds, Staging!CancelJob(j)
  PROVE  StagingInv'
<1>1. PICK new, it :
         /\ new = [jobs[j] EXCEPT !.status = "CANCELLED"]
         /\ it = [p \in DOMAIN items[j] |->
                     IF items[j][p] = "PENDING" THEN "CANCELLED" ELSE items[j][p]]
  OBVIOUS
<1>2. /\ jobs[j] \in JobRows /\ worker[j] \in Mailers /\ now \in Nat
      /\ items[j] \in [DOMAIN items[j] -> Staging!ItemStatus]
      /\ j \in DOMAIN items /\ j \in DOMAIN worker
      /\ worker[j].pc = "idle" /\ ~worker[j].moved /\ ~Ended(j)
  BY JobFacts DEF Staging!CancelJob, Worked, Ended
<1>3. /\ new \in JobRows /\ new.about = jobs[j].about /\ new.sent = jobs[j].sent
      /\ new.status # "DISPATCH_FAILED"
  BY <1>1, <1>2 DEF JobRows, Staging!JobStatus, Staging!TerminalJob
<1>4. /\ jobs' = [jobs EXCEPT ![j] = new] /\ finished' = [finished EXCEPT ![j] = now]
      /\ items' = [items EXCEPT ![j] = it] /\ worker' = [worker EXCEPT ![j] = worker[j]]
      /\ UNCHANGED <<call, folder, archive, filed, stranded, sweep, now>>
  BY <1>1, <1>2 DEF Staging!CancelJob, Staging!files, StagingInv, Types
<1>5. /\ it \in [DOMAIN items[j] -> Staging!ItemStatus] /\ InState(it, "PENDING") = {}
      /\ InState(it, "FAILED") = Staging!Of(j, "FAILED")
  BY <1>1, <1>2 DEF Staging!ItemStatus, InState, Staging!Of
<1>6. MovesTo(j, new, it, now, worker[j])
  BY <1>2, <1>3, <1>4, <1>5 DEF MovesTo
<1>7. MayMove(j, new, it, now, worker[j])
  BY <1>2, <1>3, <1>5 DEF MayMove
<1>8. Archived'
  BY <1>2, <1>4, <1>6, ArchivedMoves DEF StagingInv
<1>9. call' \in [Requests -> CallRows] /\ \A u \in Requests : Called(u)'
  BY <1>2, <1>3, <1>4, <1>5, <1>6, CalledMoves
<1>10. ASSUME NEW t, Settled(j, t)
       PROVE  Settled(j, t)'
  <2>1. Staging!Of(j, "FAILED") = {}
    BY <1>2, <1>10 DEF Settled
  <2>2. worker'[j] = worker[j] /\ Staging!Of(j, "PENDING")' = {} /\ Staging!Of(j, "FAILED")' = {}
    BY <1>5, <1>6, <2>1, MovesPoints, MovesFrame DEF StagingInv
  <2>. QED  BY <1>2, <2>2 DEF Settled
<1>. QED  BY <1>6, <1>7, <1>8, <1>9, <1>10, MovesKeep

\* The job's row alone changes, of a job nobody has worked on.
LEMMA RowKeeps ==
  ASSUME StagingInv, NEW j \in Staging!JobIds, NEW new \in JobRows, jobs' = [jobs EXCEPT ![j] = new],
         new.about = jobs[j].about, new.status \in Staging!TerminalJob => new.status = jobs[j].status,
         Staging!Of(j, "FAILED") = {}, worker[j].pc = "idle",
         UNCHANGED <<now, Staging!files, Staging!rows, worker, sweep, stranded>>,
         call' \in [Requests -> CallRows],
         MovesTo(j, new, items[j], finished[j], worker[j]) => \A u \in Requests : Called(u)'
  PROVE  StagingInv'
<1>1. /\ worker[j] \in Mailers /\ finished[j] \in Nat
      /\ items[j] \in [DOMAIN items[j] -> Staging!ItemStatus]
      /\ j \in DOMAIN items /\ j \in DOMAIN worker /\ j \in DOMAIN finished
      /\ ~worker[j].moved /\ (Ended(j) => Staging!Of(j, "PENDING") = {})
  BY JobFacts DEF Worked
<1>2. MovesTo(j, new, items[j], finished[j], worker[j])
  BY <1>1 DEF MovesTo, Staging!files, Staging!rows, StagingInv, Types
<1>3. MayMove(j, new, items[j], finished[j], worker[j])
  BY <1>1 DEF MayMove, InState, Staging!Of, Ended
<1>4. Archived'
  BY <1>1, <1>2, ArchivedMoves DEF StagingInv, Staging!files, Staging!rows
<1>5. ASSUME NEW t, Settled(j, t)
      PROVE  Settled(j, t)'
  <2>1. worker'[j] = worker[j] /\ \A s : Staging!Of(j, s)' = Staging!Of(j, s)
    BY <1>2, MovesPoints, MovesFrame DEF InState, Staging!Of, StagingInv
  <2>. QED  BY <1>5, <2>1 DEF Settled
<1>. QED  BY <1>2, <1>3, <1>4, <1>5, MovesKeep

LEMMA RetryDispatchKeeps ==
  ASSUME StagingInv, NEW j \in Staging!JobIds, Staging!RetryDispatch(j)
  PROVE  StagingInv'
<1>1. PICK new : new = [jobs[j] EXCEPT !.status = "QUEUED", !.sent = jobs[j].sent + 1]
  OBVIOUS
<1>2. /\ jobs[j] \in JobRows /\ j \in DOMAIN items /\ j \in DOMAIN worker /\ j \in DOMAIN finished
      /\ items[j] \in [DOMAIN items[j] -> Staging!ItemStatus] /\ worker[j] \in Mailers
      /\ finished[j] \in Nat /\ ~Ended(j) /\ jobs[j].status = "DISPATCH_FAILED"
      /\ Staging!Of(j, "FAILED") = {} /\ worker[j].pc = "idle"
  BY JobFacts DEF Staging!RetryDispatch, Ended, Staging!TerminalJob, Worked
<1>3. /\ new \in JobRows /\ new.about = jobs[j].about /\ new.status = "QUEUED"
  <2>1. jobs[j].sent + 1 \in Nat /\ "QUEUED" \in Staging!JobStatus
    BY <1>2 DEF JobRows, Staging!JobStatus
  <2>. QED  BY <1>1, <1>2, <2>1 DEF JobRows
<1>4. jobs' = [jobs EXCEPT ![j] = new]
  BY <1>1, <1>2 DEF Staging!RetryDispatch, StagingInv, Types
<1>5. /\ call' \in [Requests -> CallRows]
      /\ MovesTo(j, new, items[j], finished[j], worker[j]) => \A u \in Requests : Called(u)'
  BY <1>2, CalledMoves DEF Staging!RetryDispatch, StagingInv, Types
<1>. QED  BY <1>2, <1>3, <1>4, <1>5, RowKeeps DEF Staging!RetryDispatch, Staging!TerminalJob

LEMMA DispatchKeeps ==
  ASSUME StagingInv, NEW u \in Requests, Staging!DispatchJob(u),
         UNCHANGED <<now, Staging!files, Staging!rows, worker, sweep, stranded>>
  PROVE  StagingInv'
<1>1. PICK j : j = call[u].job
  OBVIOUS
<1>2. /\ j \in Staging!JobIds /\ Staging!FolderOf(j) = u
      /\ jobs[j].sent = 0 /\ Staging!Of(j, "FAILED") = {} /\ worker[j].pc = "idle"
  BY <1>1 DEF StagingInv, Called, Staging!DispatchJob
<1>3. jobs[j] \in JobRows
  BY <1>2, JobFacts
<1>4. PICK new \in JobRows :
         /\ jobs' = [jobs EXCEPT ![j] = new] /\ new.about = jobs[j].about
         /\ new.status \in {jobs[j].status, "DISPATCH_FAILED"}
  <2>1. CASE jobs' = [jobs EXCEPT ![j].sent = @ + 1]
    <3>1. PICK new : new = [jobs[j] EXCEPT !.sent = jobs[j].sent + 1]
      OBVIOUS
    <3>2. new \in JobRows /\ new.about = jobs[j].about /\ new.status = jobs[j].status
      BY <1>3, <3>1 DEF JobRows
    <3>. QED  BY <1>2, <2>1, <3>1, <3>2
  <2>2. CASE jobs' = [jobs EXCEPT ![j].status = "DISPATCH_FAILED"]
    <3>1. PICK new : new = [jobs[j] EXCEPT !.status = "DISPATCH_FAILED"]
      OBVIOUS
    <3>2. new \in JobRows /\ new.about = jobs[j].about /\ new.status = "DISPATCH_FAILED"
      BY <1>3, <3>1 DEF JobRows, Staging!JobStatus
    <3>. QED  BY <1>2, <2>2, <3>1, <3>2
  <2>. QED  BY <1>1, <2>1, <2>2 DEF Staging!DispatchJob
<1>5. /\ call' = [call EXCEPT ![u].pc = "created"] /\ call' \in [Requests -> CallRows]
      /\ call'[u].pc = "created" /\ \A v \in Requests : v # u => call'[v] = call[v]
  BY DEF Staging!DispatchJob, StagingInv, Types, CallRows, Staging!CallPC
<1>6. ASSUME MovesTo(j, new, items[j], finished[j], worker[j])
      PROVE  \A v \in Requests : Called(v)'
  <2>. SUFFICES ASSUME NEW v \in Requests, v # u PROVE Called(v)'
    BY <1>5 DEF Called
  <2>1. Called(v) /\ call'[v] = call[v] /\ UNCHANGED <<now, folder>>
    BY <1>5 DEF StagingInv, Staging!files
  <2>2. Staging!JobsOf(v)' = Staging!JobsOf(v)
    BY <1>2, <1>6, MovesFrame DEF StagingInv
  <2>3. ASSUME NEW k \in Staging!JobIds, Staging!FolderOf(k) = v
        PROVE  /\ Staging!FolderOf(k)' = v /\ jobs'[k] = jobs[k] /\ worker'[k] = worker[k]
               /\ \A s : Staging!Of(k, s)' = Staging!Of(k, s)
    BY <1>2, <1>6, <2>3, MovesPoints, MovesFrame DEF StagingInv
  <2>4. Staging!JobIds' = Staging!JobIds
    BY <1>2, <1>6, MovesPoints DEF StagingInv
  <2>. QED  BY <2>1, <2>2, <2>3, <2>4 DEF Called
<1>. QED  BY <1>2, <1>4, <1>5, <1>6, RowKeeps DEF Staging!TerminalJob

\* A call of create_job stays right as long as its job is left alone.
LEMMA CalledStays ==
  ASSUME NEW v, Called(v), call'[v] = call[v], folder'[v] = folder[v], now' = now,
         call[v].pc \in {"lookup", "insert"} => Staging!JobsOf(v)' = Staging!JobsOf(v),
         \A k \in Staging!JobIds : Staging!FolderOf(k) = v =>
            /\ k \in Staging!JobIds' /\ jobs'[k] = jobs[k] /\ worker'[k] = worker[k]
            /\ Staging!FolderOf(k)' = Staging!FolderOf(k)
               /\ Staging!Of(k, "FAILED")' = Staging!Of(k, "FAILED")
  PROVE  Called(v)'
<1>1. PICK k : k = call[v].job
  OBVIOUS
<1>2. CASE call[v].pc = "dispatch"
  <2>1. k \in Staging!JobIds /\ Staging!FolderOf(k) = v
    BY <1>1, <1>2 DEF Called
  <2>. QED  BY <1>1, <1>2, <2>1 DEF Called
<1>3. CASE call[v].pc # "dispatch"
  BY <1>3 DEF Called
<1>. QED  BY <1>2, <1>3

-----------------------------------------------------------------------------
(* Jobs are made: of an upload, or to send again what failed.               *)

LEMMA AppendAt ==
  ASSUME NEW S, NEW s \in Seq(S), NEW e \in S
  PROVE  /\ Append(s, e) \in Seq(S) /\ Len(s) + 1 \in Nat
         /\ Len(s) + 1 \notin DOMAIN s
         /\ DOMAIN Append(s, e) = DOMAIN s \cup {Len(s) + 1}
         /\ Append(s, e)[Len(s) + 1] = e
         /\ \A k \in DOMAIN s : Append(s, e)[k] = s[k]
  BY AppendProperties, LenProperties

\* A job for folder f with the PDFs of S to send.
Made(new, f, S) ==
    /\ jobs' = Append(jobs, new) /\ new \in JobRows
    /\ new.about = f /\ new.status = "QUEUED" /\ S \subseteq Ids
    /\ items' = Append(items, [p \in S |-> "PENDING"])
    /\ finished' = Append(finished, Staging!NotYet)
    /\ worker' = Append(worker, Staging!AtRest)
    /\ UNCHANGED <<now, Staging!files, filed, sweep, stranded>>

LEMMA MadePoints ==
  ASSUME Types, NEW new, NEW f, NEW S, Made(new, f, S),
         NEW n, n = Len(jobs) + 1
  PROVE  /\ n \in Nat /\ n \notin Staging!JobIds /\ Staging!JobIds' = Staging!JobIds \cup {n}
         /\ jobs' \in Seq(JobRows) /\ items' \in Seq(MailRows)
         /\ finished' \in Seq(Nat) /\ worker' \in Seq(Mailers)
         /\ DOMAIN items' = Staging!JobIds' /\ DOMAIN finished' = Staging!JobIds'
            /\ DOMAIN worker' = Staging!JobIds'
         /\ jobs'[n] = new /\ items'[n] = [p \in S |-> "PENDING"] /\ worker'[n] = Staging!AtRest
         /\ \A k \in Staging!JobIds : /\ jobs'[k] = jobs[k] /\ items'[k] = items[k]
                                      /\ finished'[k] = finished[k] /\ worker'[k] = worker[k]
<1>1. n = Len(jobs) + 1
  OBVIOUS
<1>2. [p \in S |-> "PENDING"] \in MailRows
  BY DEF Made, MailRows, Staging!ItemStatus
<1>3. Staging!NotYet \in Nat
  BY StagingHolds DEF Staging!StagingAssumption, Staging!NotYet
<1>4. /\ jobs \in Seq(JobRows) /\ items \in Seq(MailRows)
      /\ finished \in Seq(Nat) /\ worker \in Seq(Mailers)
      /\ Len(items) = Len(jobs) /\ Len(finished) = Len(jobs) /\ Len(worker) = Len(jobs)
      /\ DOMAIN items = Staging!JobIds /\ DOMAIN finished = Staging!JobIds
         /\ DOMAIN worker = Staging!JobIds
  BY DEF Types, Staging!JobIds
<1>5. /\ jobs' \in Seq(JobRows) /\ n \in Nat /\ n \notin Staging!JobIds
         /\ Staging!JobIds' = Staging!JobIds \cup {n}
      /\ jobs'[n] = new /\ \A k \in Staging!JobIds : jobs'[k] = jobs[k]
  BY <1>1, <1>4, AppendAt DEF Made, Staging!JobIds
<1>6. /\ items' \in Seq(MailRows) /\ DOMAIN items' = Staging!JobIds'
      /\ items'[n] = [p \in S |-> "PENDING"] /\ \A k \in Staging!JobIds : items'[k] = items[k]
  BY <1>1, <1>2, <1>4, <1>5, AppendAt DEF Made
<1>7. /\ finished' \in Seq(Nat) /\ DOMAIN finished' = Staging!JobIds'
      /\ \A k \in Staging!JobIds : finished'[k] = finished[k]
  BY <1>1, <1>3, <1>4, <1>5, AppendAt DEF Made
<1>8. /\ worker' \in Seq(Mailers) /\ DOMAIN worker' = Staging!JobIds'
      /\ worker'[n] = Staging!AtRest /\ \A k \in Staging!JobIds : worker'[k] = worker[k]
  BY <1>1, <1>4, <1>5, AtRestType, AppendAt DEF Made
<1>. QED  BY <1>1, <1>5, <1>6, <1>7, <1>8

LEMMA MadeFrame ==
  ASSUME Types, NEW new, NEW f, NEW S, Made(new, f, S),
         NEW n, n = Len(jobs) + 1
  PROVE  /\ Staging!JobsOf(f)' = Staging!JobsOf(f) \cup {n}
         /\ \A g : g # f => Staging!JobsOf(g)' = Staging!JobsOf(g)
         /\ Staging!FolderOf(n)' = f /\ ~Ended(n)' /\ Staging!Of(n, "FAILED")' = {}
            /\ Staging!Of(n, "PENDING")' = S
         /\ \A k \in Staging!JobIds : /\ Staging!FolderOf(k)' = Staging!FolderOf(k)
                                      /\ \A s : Staging!Of(k, s)' = Staging!Of(k, s)
                                      /\ Ended(k)' <=> Ended(k)
                                      /\ \A t : Settled(k, t)' <=> Settled(k, t)
                                      /\ Sole(k)' <=> Sole(k) /\ Staging!FolderOf(k) # f
<1>1. n = Len(jobs) + 1
  OBVIOUS
<1>2. /\ n \notin Staging!JobIds /\ Staging!JobIds' = Staging!JobIds \cup {n} /\ jobs'[n] = new
      /\ items'[n] = [p \in S |-> "PENDING"]
      /\ \A k \in Staging!JobIds : /\ jobs'[k] = jobs[k] /\ items'[k] = items[k]
                                   /\ finished'[k] = finished[k] /\ worker'[k] = worker[k]
      /\ new.about = f /\ new.status = "QUEUED"
  <2>1. new.about = f /\ new.status = "QUEUED"
    BY DEF Made
  <2>. QED  BY <1>1, <2>1, MadePoints
<1>3. Staging!FolderOf(n)' = f /\ \A k \in Staging!JobIds : Staging!FolderOf(k)' = Staging!FolderOf(k)
  BY <1>2 DEF Staging!FolderOf
<1>4. /\ Staging!JobsOf(f)' = Staging!JobsOf(f) \cup {n} /\ \A g : g # f
         => Staging!JobsOf(g)' = Staging!JobsOf(g)
  BY <1>2, <1>3 DEF Staging!JobsOf
<1>5. ~Ended(n)' /\ Staging!Of(n, "FAILED")' = {} /\ Staging!Of(n, "PENDING")' = S
  BY <1>2 DEF Ended, Staging!TerminalJob, Staging!Of
<1>6. ASSUME NEW k \in Staging!JobIds
      PROVE  /\ \A s : Staging!Of(k, s)' = Staging!Of(k, s)
             /\ Ended(k)' <=> Ended(k)
             /\ \A t : Settled(k, t)' <=> Settled(k, t)
  BY <1>2 DEF Staging!Of, Ended, Settled
<1>7. \A k \in Staging!JobIds : Sole(k)' <=> Sole(k) /\ Staging!FolderOf(k) # f
  <2>. SUFFICES ASSUME NEW k \in Staging!JobIds PROVE Sole(k)' <=> Sole(k) /\ Staging!FolderOf(k) # f
    OBVIOUS
  <2>1. k \in Staging!JobsOf(Staging!FolderOf(k)) /\ k # n
    BY <1>2 DEF Staging!JobsOf
  <2>. QED  BY <1>3, <1>4, <2>1 DEF Sole
<1>. QED  BY <1>1, <1>3, <1>4, <1>5, <1>6, <1>7

\* The folder has no job and all its PDFs, or it has one whose copy is made.
LEMMA MadeKeeps ==
  ASSUME StagingInv, NEW new, NEW f \in Requests, NEW S, Made(new, f, S),
         call' \in [Requests -> CallRows], \A u \in Requests : Called(u)',
         \/ Staging!JobsOf(f) # {}
         \/ /\ folder[f].changed <= now /\ now <= folder[f].changed + 1
            /\ Retention # 0 => folder[f].exists /\ folder[f].files = Ids
  PROVE  StagingInv'
<1>1. PICK n : n = Len(jobs) + 1
  OBVIOUS
<1>2. UNCHANGED <<folder, archive, filed, stranded, sweep, now>> /\ Types
  BY DEF Made, StagingInv, Staging!files
<1>3. Types'
  BY <1>1, <1>2, MadePoints DEF Types
<1>4. Staging!JobIds' = Staging!JobIds \cup {n} /\ n \notin Staging!JobIds
      /\ worker'[n] = Staging!AtRest /\ jobs'[n].status = "QUEUED"
  <2>1. Staging!JobIds' = Staging!JobIds \cup {n} /\ n \notin Staging!JobIds
        /\ worker'[n] = Staging!AtRest /\ jobs'[n] = new
    BY <1>1, <1>2, MadePoints
  <2>. QED  BY <2>1 DEF Made
<1>5. ASSUME NEW u \in Requests
      PROVE  Folded(u)'
  <2>1. Folded(u) /\ Folded(f)
    BY DEF StagingInv
  <2>2. u # f => Staging!JobsOf(u)' = Staging!JobsOf(u)
    BY <1>1, <1>2, MadeFrame
  <2>. QED  BY <1>2, <2>1, <2>2 DEF Folded, Staging!NotYet
<1>6. ASSUME NEW k \in Staging!JobIds
      PROVE  Worked(k)' /\ Stocked(k)' /\ Justified(k)'
  <2>1. /\ worker'[k] = worker[k] /\ items'[k] = items[k] /\ jobs'[k] = jobs[k]
        /\ Staging!FolderOf(k)' = Staging!FolderOf(k) /\ \A s : Staging!Of(k, s)' = Staging!Of(k, s)
        /\ Ended(k)' <=> Ended(k)
        /\ \A t : Settled(k, t)' <=> Settled(k, t)
        /\ Sole(k)' => Sole(k)
    BY <1>1, <1>2, MadePoints, MadeFrame
  <2>2. Worked(k) /\ Stocked(k) /\ Justified(k)
    BY DEF StagingInv
  <2>3. Worked(k)'
    BY <1>2, <2>1, <2>2 DEF Worked
  <2>4. Stocked(k)'
    BY <1>2, <2>1, <2>2 DEF Stocked
  <2>5. Justified(k)'
    BY <1>2, <2>1, <2>2 DEF Justified
  <2>. QED  BY <2>3, <2>4, <2>5
<1>7. Worked(n)' /\ Stocked(n)' /\ Justified(n)'
  <2>1. /\ Staging!FolderOf(n)' = f /\ ~Ended(n)' /\ Staging!Of(n, "FAILED")' = {}
           /\ Staging!Of(n, "PENDING")' = S
        /\ Staging!JobsOf(f)' = Staging!JobsOf(f) \cup {n}
           /\ Staging!JobsOf(f) \subseteq Staging!JobIds /\ S \subseteq Ids
    BY <1>1, <1>2, MadeFrame DEF Staging!JobsOf, Made
  <2>2. Worked(n)'
    BY <1>4, <2>1, AtRestType DEF Worked
  <2>3. Retention # 0 /\ Sole(n)' => folder'[f].exists /\ folder'[f].files = Ids
    BY <1>2, <1>4, <2>1 DEF Sole
  <2>4. Stocked(n)'
    BY <1>2, <1>4, <2>1, <2>3, AtRestType DEF Stocked
  <2>5. Justified(n)'
    BY <2>1, <2>3 DEF Justified
  <2>. QED  BY <2>2, <2>4, <2>5
<1>8. Swept'
  <2>1. /\ sweep.at \in Nat /\ now \in Nat /\ sweep.at <= now /\ Retention \in Nat
        /\ \A u \in Requests : folder[u].changed \in Nat
    BY <1>2, StagingHolds DEF Types, Sweeps, Folders, Staging!StagingAssumption
  <2>2. \A k \in Staging!JobIds : /\ finished'[k] = finished[k] /\ (Ended(k)' <=> Ended(k))
                                  /\ (Sole(k)' => Sole(k)) /\ \A t : Settled(k, t)' <=> Settled(k, t)
    BY <1>1, <1>2, MadePoints, MadeFrame
  <2>3. /\ ~Ended(n)' /\ Staging!JobsOf(f)' = Staging!JobsOf(f) \cup {n}
           /\ Staging!JobsOf(f) \subseteq Staging!JobIds
        /\ \A g : g # f => Staging!JobsOf(g)' = Staging!JobsOf(g)
           /\ Staging!JobsOf(g) \subseteq Staging!JobIds
    BY <1>1, <1>2, MadeFrame DEF Staging!JobsOf
  <2>4. ASSUME NEW g \in sweep.todo, Reading(g)
        PROVE  Reading(g)'
    <3>1. PICK seen : seen = sweep.seen[g]
      OBVIOUS
    <3>2. /\ seen.job # Staging!NoJob => /\ seen.job \in Staging!JobsOf(g)'
                                         /\ seen.status \in Staging!TerminalJob
                                            => Settled(seen.job, seen.finished)'
          /\ seen.job = Staging!NoJob => seen.status = "NONE"
      BY <2>2, <2>3, <2>4, <3>1 DEF Reading
    <3>3. seen.job = Staging!NoJob => Staging!JobsOf(g)' = {} \/ sweep.at <= folder[g].changed + 1
      <4>1. g \in Requests
        BY <1>2 DEF Types, Sweeps
      <4>2. CASE g = f
        BY <2>1, <2>4, <3>1, <4>1, <4>2 DEF Reading
      <4>3. CASE g # f
        BY <2>3, <2>4, <3>1, <4>3 DEF Reading
      <4>. QED  BY <4>2, <4>3
    <3>4. \A k \in Staging!JobsOf(g)' : Sole(k)' /\ Ended(k)' =>
             \/ sweep.at <= finished'[k]
             \/ seen.job = k /\ seen.status \in Staging!TerminalJob /\ finished'[k] = seen.finished
      BY <2>2, <2>3, <2>4, <3>1 DEF Reading
    <3>. QED  BY <1>2, <2>4, <3>1, <3>2, <3>3, <3>4 DEF Reading
  <2>5. ASSUME NEW u \in Requests, Clean(u)
        PROVE  Clean(u)'
    BY <1>2, <2>2, <2>3, <2>5 DEF Clean
  <2>. QED  BY <1>2, <2>4, <2>5 DEF Swept, StagingInv
<1>9. Archived'
  <2>1. \A k \in Staging!JobIds : Staging!FolderOf(k)' = Staging!FolderOf(k) /\ worker'[k] = worker[k]
    BY <1>1, <1>2, MadePoints, MadeFrame
  <2>2. ASSUME NEW r \in filed
        PROVE  r[1] \in Staging!JobIds' /\ <<Staging!FolderOf(r[1])', r[2]>> \in archive
               /\ Staging!FolderOf(r[1])' = Staging!FolderOf(r[1])
    BY <1>4, <2>1 DEF Archived, StagingInv
  <2>3. ASSUME NEW a \in archive, a \notin stranded,
               \A r \in filed : a # <<Staging!FolderOf(r[1])', r[2]>>
        PROVE  \E k \in Staging!JobIds' : worker'[k].moved
               /\ a = <<Staging!FolderOf(k)', worker'[k].provider>>
    <3>1. PICK k \in Staging!JobIds : worker[k].moved /\ a = <<Staging!FolderOf(k), worker[k].provider>>
      BY <2>2, <2>3 DEF Archived, StagingInv
    <3>. QED  BY <1>4, <2>1, <3>1
  <2>. QED  BY <1>2, <2>2, <2>3 DEF Archived
<1>. QED  BY <1>3, <1>4, <1>5, <1>6, <1>7, <1>8, <1>9 DEF StagingInv

LEMMA InsertKeeps ==
  ASSUME StagingInv, NEW u \in Requests, call[u].pc = "insert", Staging!SameKey(call[u]) = {},
         jobs' = Staging!Inserted(call[u]),
         call' = [call EXCEPT ![u].pc = "dispatch", ![u].job = Len(jobs) + 1],
         items' = Append(items, [p \in Ids |-> "PENDING"]),
         finished' = Append(finished, Staging!NotYet), worker' = Append(worker, Staging!AtRest),
         UNCHANGED <<now, Staging!files, filed, sweep, stranded>>
  PROVE  StagingInv'
<1>1. PICK new : new = [owner |-> call[u].owner, key |-> call[u].key, about |-> call[u].about,
                        status |-> "QUEUED", sent |-> 0]
  OBVIOUS
<1>2. PICK n : n = Len(jobs) + 1
  OBVIOUS
<1>3. /\ Types /\ call[u] \in CallRows /\ call \in [Requests -> CallRows]
      /\ call[u].about = u /\ call[u].owner = Staging!Someone /\ Staging!JobsOf(u) = {}
      /\ folder[u].changed <= now /\ now <= folder[u].changed + 1
      /\ Retention # 0 => folder[u].exists /\ folder[u].files = Ids
  BY DEF StagingInv, Types, Called
<1>4. new \in JobRows /\ new.about = u /\ new.status = "QUEUED" /\ new.sent = 0
  BY <1>1, <1>3 DEF JobRows, CallRows, Staging!JobStatus
<1>5. Made(new, u, Ids)
  BY <1>1, <1>4 DEF Made, Staging!Inserted
<1>6. n \in Nat /\ jobs'[n] = new /\ worker'[n] = Staging!AtRest /\ n \in Staging!JobIds'
  BY <1>2, <1>3, <1>5, MadePoints
<1>7. /\ call' \in [Requests -> CallRows] /\ call'[u].pc = "dispatch" /\ call'[u].job = n
      /\ \A v \in Requests : v # u => call'[v] = call[v]
  <2>1. PICK c : c = [call[u] EXCEPT !.pc = "dispatch", !.job = n]
    OBVIOUS
  <2>2. c \in CallRows /\ c.pc = "dispatch" /\ c.job = n
    BY <1>3, <1>6, <2>1 DEF CallRows, Staging!CallPC
  <2>3. call' = [call EXCEPT ![u] = c]
    BY <1>2, <2>1
  <2>. QED  BY <1>3, <2>2, <2>3
<1>8. ASSUME NEW v \in Requests
      PROVE  Called(v)'
  <2>1. CASE v = u
    <3>1. Staging!FolderOf(n)' = u /\ Staging!Of(n, "FAILED")' = {}
      BY <1>2, <1>3, <1>5, MadeFrame
    <3>. QED  BY <1>4, <1>6, <1>7, <2>1, <3>1, AtRestType DEF Called
  <2>2. CASE v # u
    <3>1. Called(v) /\ call'[v] = call[v] /\ UNCHANGED <<now, folder>>
      BY <1>7, <2>2 DEF StagingInv, Staging!files
    <3>2. Staging!JobsOf(v)' = Staging!JobsOf(v) /\ Staging!JobIds \subseteq Staging!JobIds'
      BY <1>2, <1>3, <1>5, <2>2, MadePoints, MadeFrame
    <3>3. \A k \in Staging!JobIds : /\ Staging!FolderOf(k)' = Staging!FolderOf(k)
                                       /\ \A s : Staging!Of(k, s)' = Staging!Of(k, s)
                                    /\ jobs'[k] = jobs[k] /\ worker'[k] = worker[k]
      BY <1>2, <1>3, <1>5, MadePoints, MadeFrame
    <3>. QED  BY <3>1, <3>2, <3>3, CalledStays
  <2>. QED  BY <2>1, <2>2
<1>. QED  BY <1>3, <1>5, <1>7, <1>8, MadeKeeps

LEMMA RetryFailedKeeps ==
  ASSUME StagingInv, NEW j \in Staging!JobIds, Staging!RetryFailed(j)
  PROVE  StagingInv'
<1>1. PICK new : new = [jobs[j] EXCEPT !.key = Staging!NoKey, !.status = "QUEUED", !.sent = 1]
  OBVIOUS
<1>2. PICK n, f : n = Len(jobs) + 1 /\ f = Staging!FolderOf(j)
  OBVIOUS
<1>3. /\ Types /\ jobs[j] \in JobRows /\ f \in Requests /\ Staging!Of(j, "FAILED") \subseteq Ids
      /\ j \in Staging!JobsOf(f)
  BY <1>2, JobFacts DEF StagingInv, Staging!Of, Staging!JobsOf
<1>4. new \in JobRows /\ new.about = f /\ new.status = "QUEUED"
  BY <1>1, <1>2, <1>3 DEF JobRows, Staging!JobStatus, KeyNames, Staging!FolderOf
<1>5. Made(new, f, Staging!Of(j, "FAILED"))
  BY <1>1, <1>3, <1>4 DEF Staging!RetryFailed, Made
<1>6. ASSUME NEW v \in Requests
      PROVE  Called(v)'
  <2>1. Called(v) /\ UNCHANGED <<call, now, folder>>
    BY DEF StagingInv, Staging!RetryFailed, Staging!files
  <2>2. v # f => Staging!JobsOf(v)' = Staging!JobsOf(v)
    BY <1>2, <1>3, <1>5, MadeFrame
  <2>3. call[v].pc \in {"lookup", "insert"} => v # f
    BY <1>3, <2>1 DEF Called
  <2>4. \A k \in Staging!JobIds : Staging!FolderOf(k)' = Staging!FolderOf(k)
        /\ \A s : Staging!Of(k, s)' = Staging!Of(k, s)
    BY <1>2, <1>3, <1>5, MadeFrame
  <2>5. \A k \in Staging!JobIds : jobs'[k] = jobs[k] /\ worker'[k] = worker[k] /\ k \in Staging!JobIds'
    BY <1>2, <1>3, <1>5, MadePoints
  <2>. QED  BY <2>1, <2>2, <2>3, <2>4, <2>5, CalledStays
<1>7. call' \in [Requests -> CallRows]
  BY DEF Staging!RetryFailed, StagingInv, Types
<1>. QED  BY <1>3, <1>5, <1>6, <1>7, MadeKeeps

-----------------------------------------------------------------------------
(* Jobs stay as they are.                                                   *)

LEMMA JobsStay ==
  ASSUME UNCHANGED <<jobs, items, finished, worker>>
  PROVE  /\ Staging!JobIds' = Staging!JobIds
         /\ \A f : Staging!JobsOf(f)' = Staging!JobsOf(f)
         /\ \A k : /\ Staging!FolderOf(k)' = Staging!FolderOf(k)
                      /\ \A s : Staging!Of(k, s)' = Staging!Of(k, s)
                   /\ Ended(k)' <=> Ended(k)
                   /\ Sole(k)' <=> Sole(k)
                   /\ \A t : Settled(k, t)' <=> Settled(k, t)
<1>0. Staging!JobIds' = Staging!JobIds
  BY DEF Staging!JobIds
<1>1. \A k : Staging!FolderOf(k)' = Staging!FolderOf(k) /\ \A s : Staging!Of(k, s)' = Staging!Of(k, s)
  BY DEF Staging!FolderOf, Staging!Of
<1>2. \A f : Staging!JobsOf(f)' = Staging!JobsOf(f)
  BY <1>0, <1>1 DEF Staging!JobsOf
<1>3. \A k : /\ Ended(k)' <=> Ended(k)
             /\ Sole(k)' <=> Sole(k)
             /\ \A t : Settled(k, t)' <=> Settled(k, t)
  BY <1>1, <1>2 DEF Ended, Sole, Settled
<1>. QED  BY <1>0, <1>1, <1>2, <1>3

LEMMA CallKeeps ==
  ASSUME StagingInv, UNCHANGED <<jobs, now, Staging!files, Staging!rows, worker, sweep, stranded>>,
         call' \in [Requests -> CallRows], \A u \in Requests : Called(u)'
  PROVE  StagingInv'
<1>1. UNCHANGED <<jobs, now, folder, archive, filed, items, finished, worker, sweep, stranded>>
  BY DEF Staging!files, Staging!rows
<1>2. Types'
  <2>1. Staging!JobIds' = Staging!JobIds
    BY <1>1 DEF Staging!JobIds
  <2>. QED  BY <1>1, <2>1 DEF StagingInv, Types
<1>3. \A u \in Requests : Folded(u)'
  BY <1>1, JobsStay DEF StagingInv, Folded, Staging!NotYet
<1>4. \A k \in Staging!JobIds : Worked(k)' /\ Stocked(k)' /\ Justified(k)'
  BY <1>1, JobsStay DEF StagingInv, Worked, Stocked, Justified
<1>5. Swept'
  BY <1>1, JobsStay DEF StagingInv, Swept, Reading, Clean
<1>6. Archived'
  BY <1>1, JobsStay DEF StagingInv, Archived
<1>. QED  BY <1>1, <1>2, <1>3, <1>4, <1>5, <1>6, JobsStay DEF StagingInv

\* The call of one upload moves on and has no job to dispatch.
LEMMA CallMoves ==
  ASSUME StagingInv, NEW u \in Requests, NEW c \in CallRows, call' = [call EXCEPT ![u] = c],
         \/ c.pc \in {"none", "created"}
         \/ c.pc = "insert" /\ call[u].pc = "lookup" /\ c.about = call[u].about
            /\ c.owner = call[u].owner,
         UNCHANGED <<jobs, now, Staging!files, Staging!rows, worker, sweep, stranded>>
  PROVE  StagingInv'
<1>1. /\ call' \in [Requests -> CallRows] /\ call'[u] = c
      /\ \A v \in Requests : v # u => call'[v] = call[v]
  BY DEF StagingInv, Types
<1>2. UNCHANGED <<jobs, now, folder, items, finished, worker>>
  BY DEF Staging!files, Staging!rows
<1>3. ASSUME NEW v \in Requests
      PROVE  Called(v)'
  <2>1. Called(v) /\ Staging!JobsOf(v)' = Staging!JobsOf(v)
    BY <1>2, JobsStay DEF StagingInv
  <2>2. CASE v # u
    BY <1>1, <1>2, <2>1, <2>2, JobsStay, CalledStays
  <2>3. CASE v = u
    BY <1>1, <1>2, <2>1, <2>3 DEF Called
  <2>. QED  BY <2>2, <2>3
<1>. QED  BY <1>1, <1>3, CallKeeps

LEMMA CreateKeeps ==
  ASSUME StagingInv, NEW u \in Requests, Staging!Create(u)
  PROVE  StagingInv'
<1>1. /\ Types /\ call[u] \in CallRows
      /\ UNCHANGED <<now, Staging!files, filed, sweep, stranded>>
  BY DEF StagingInv, Types, Staging!Create
<1>2. ASSUME call' = [call EXCEPT ![u] = Staging!Found(call[u])], Staging!SameKey(call[u]) # {},
             UNCHANGED jobs
      PROVE  StagingInv'
  <2>1. PICK k : k = CHOOSE m \in Staging!SameKey(call[u]) : TRUE
    OBVIOUS
  <2>2. k \in Nat
    <3>1. k \in Staging!SameKey(call[u]) /\ Staging!SameKey(call[u]) \subseteq Staging!JobIds
      BY <1>2, <2>1 DEF Staging!SameKey
    <3>2. Staging!JobIds \subseteq Nat
      BY <1>1 DEF Types, Staging!JobIds
    <3>. QED  BY <3>1, <3>2
  <2>3. PICK c : c = Staging!Found(call[u])
    OBVIOUS
  <2>4. c \in CallRows /\ c.pc = "created"
    BY <1>1, <2>1, <2>2, <2>3 DEF Staging!Found, CallRows, Staging!CallPC
  <2>5. UNCHANGED <<Staging!rows, worker>>
    BY <1>1, <1>2 DEF Staging!Create, Staging!rows
  <2>. QED  BY <1>1, <1>2, <2>3, <2>4, <2>5, CallMoves
<1>3. CASE Staging!LookupKey(u)
  <2>1. CASE Staging!SameKey(call[u]) # {}
    BY <1>2, <1>3, <2>1 DEF Staging!LookupKey
  <2>2. CASE Staging!SameKey(call[u]) = {}
    <3>1. PICK c : c = [call[u] EXCEPT !.pc = "insert"]
      OBVIOUS
    <3>2. /\ c \in CallRows /\ c.pc = "insert" /\ c.about = call[u].about
          /\ c.owner = call[u].owner
      BY <1>1, <3>1 DEF CallRows, Staging!CallPC
    <3>3. call' = [call EXCEPT ![u] = c] /\ UNCHANGED jobs /\ call[u].pc = "lookup"
      BY <1>3, <2>2, <3>1 DEF Staging!LookupKey
    <3>4. UNCHANGED <<Staging!rows, worker>>
      BY <1>1, <3>3 DEF Staging!Create, Staging!rows
    <3>. QED  BY <1>1, <3>2, <3>3, <3>4, CallMoves
  <2>. QED  BY <2>1, <2>2
<1>4. CASE Staging!InsertJob(u)
  <2>1. CASE Staging!SameKey(call[u]) # {}
    BY <1>2, <1>4, <2>1 DEF Staging!InsertJob
  <2>2. CASE Staging!SameKey(call[u]) = {}
    <3>1. /\ jobs' = Staging!Inserted(call[u]) /\ call[u].pc = "insert"
          /\ call' = [call EXCEPT ![u].pc = "dispatch", ![u].job = Len(jobs) + 1]
      BY <1>4, <2>2 DEF Staging!InsertJob
    <3>2. Len(jobs') # Len(jobs)
      BY <1>1, <3>1, AppendProperties DEF Staging!Inserted, Types
    <3>. QED  BY <1>1, <2>2, <3>1, <3>2, InsertKeeps DEF Staging!Create
  <2>. QED  BY <2>1, <2>2
<1>5. CASE Staging!DispatchJob(u)
  <2>1. call[u].job \in Staging!JobIds
    BY <1>5 DEF StagingInv, Called, Staging!DispatchJob
  <2>2. Len(jobs') = Len(jobs)
    BY <1>1, <1>5 DEF Staging!DispatchJob, Types
  <2>3. UNCHANGED <<Staging!rows, worker>>
    BY <1>1, <2>2 DEF Staging!Create, Staging!rows
  <2>. QED  BY <1>1, <1>5, <2>3, DispatchKeeps
<1>. QED  BY <1>3, <1>4, <1>5 DEF Staging!Create, Staging!CreateStep

LEMMA UploadDiesKeeps ==
  ASSUME StagingInv, NEW u \in Requests, Staging!UploadDies(u)
  PROVE  StagingInv'
<1>1. Staging!NoCall \in CallRows /\ Staging!NoCall.pc = "none"
  BY DEF Staging!NoCall, CallRows, Staging!CallPC, Staging!NoJob, KeyNames
<1>. QED  BY <1>1, CallMoves DEF Staging!UploadDies

-----------------------------------------------------------------------------
(* Files come, move and go.                                                 *)

\* One folder changes, or none; jobs and their workers stay as they are.
LEMMA OneFolderTypes ==
  ASSUME Types, UNCHANGED <<jobs, items, finished, worker>>,
         call' \in [Requests -> CallRows], now' \in 0..Horizon,
         folder' \in [Requests -> Folders], archive' \subseteq Requests \X Ids,
         sweep' \in Sweeps, sweep'.at <= now'
  PROVE  Types'
<1>1. Staging!JobIds' = Staging!JobIds
  BY DEF Staging!JobIds
<1>. QED  BY <1>1 DEF Types

LEMMA UploadKeeps ==
  ASSUME StagingInv, NEW u \in Requests, Staging!Upload(u)
  PROVE  StagingInv'
<1>1. PICK new : new = [exists |-> TRUE, files |-> Ids, changed |-> now]
  OBVIOUS
<1>2. PICK c : c = [Staging!NoCall EXCEPT !.pc = "lookup", !.owner = Staging!Someone,
               !.key = UploadKeys[u], !.about = u]
  OBVIOUS
<1>3. /\ Types /\ now \in 0..Horizon /\ now \in Nat /\ Horizon \in Nat
      /\ sweep.at \in Nat /\ sweep.at <= now /\ Retention \in Nat /\ MaxAge \in Nat
  BY StagingHolds DEF StagingInv, Types, Sweeps, Staging!StagingAssumption
<1>4. /\ UNCHANGED <<jobs, now, archive, filed, items, finished, worker, sweep, stranded>>
      /\ ~folder[u].exists /\ folder[u].changed = Staging!NotYet
      /\ folder' = [folder EXCEPT ![u] = new] /\ call' = [call EXCEPT ![u] = c]
  BY <1>1, <1>2 DEF Staging!Upload, Staging!rows, Staging!BeginCreate
<1>5. Staging!JobsOf(u) = {}
  BY <1>3, <1>4 DEF StagingInv, Folded, Staging!NotYet
<1>6. /\ new \in Folders /\ new.exists /\ new.files = Ids /\ new.changed = now
  BY <1>1, <1>3 DEF Folders
<1>7. /\ c \in CallRows /\ c.pc = "lookup" /\ c.about = u /\ c.owner = Staging!Someone
  BY <1>2 DEF Staging!NoCall, CallRows, Staging!CallPC, KeyNames, Staging!NoJob
<1>8. /\ folder' \in [Requests -> Folders] /\ folder'[u] = new
      /\ \A v \in Requests : v # u => folder'[v] = folder[v]
      /\ call' \in [Requests -> CallRows] /\ call'[u] = c
      /\ \A v \in Requests : v # u => call'[v] = call[v]
  BY <1>3, <1>4, <1>6, <1>7 DEF Types
<1>9. Types'
  BY <1>3, <1>4, <1>8, OneFolderTypes DEF Types
<1>10. ASSUME NEW v \in Requests
       PROVE  Folded(v)' /\ Called(v)'
  <2>1. Folded(v) /\ Called(v) /\ Staging!JobsOf(v)' = Staging!JobsOf(v)
    BY <1>4, JobsStay DEF StagingInv
  <2>2. CASE v # u
    <3>1. Folded(v)'
      BY <1>4, <1>8, <2>1, <2>2 DEF Folded, Staging!NotYet
    <3>2. Called(v)'
      BY <1>4, <1>8, <2>1, <2>2, JobsStay, CalledStays
    <3>. QED  BY <3>1, <3>2
  <2>3. CASE v = u
    <3>1. Folded(v)'
      BY <1>3, <1>4, <1>6, <1>8, <2>3 DEF Folded, Staging!NotYet
    <3>2. Called(v)'
      BY <1>3, <1>4, <1>5, <1>6, <1>7, <1>8, <2>1, <2>3 DEF Called
    <3>. QED  BY <3>1, <3>2
  <2>. QED  BY <2>2, <2>3
<1>11. ASSUME NEW k \in Staging!JobIds
       PROVE  Worked(k)' /\ Stocked(k)' /\ Justified(k)'
  <2>1. Worked(k) /\ Stocked(k) /\ Justified(k)
    BY DEF StagingInv
  <2>2. Staging!FolderOf(k) # u /\ Staging!FolderOf(k) \in Requests
    BY <1>5, JobFacts DEF Staging!JobsOf
  <2>3. folder'[Staging!FolderOf(k)] = folder[Staging!FolderOf(k)]
    BY <1>8, <2>2
  <2>4. Worked(k)'
    BY <1>4, <2>1, JobsStay DEF Worked
  <2>5. Stocked(k)'
    BY <1>4, <2>1, <2>3, JobsStay DEF Stocked
  <2>6. Justified(k)'
    BY <1>4, <2>1, <2>3, JobsStay DEF Justified
  <2>. QED  BY <2>4, <2>5, <2>6
<1>12. Swept'
  <2>1. ASSUME NEW f \in sweep.todo, Reading(f)
        PROVE  Reading(f)'
    <3>1. f \in Requests
      BY <1>3 DEF Types, Sweeps
    <3>2. Staging!JobsOf(f) = {} \/ folder'[f] = folder[f]
      BY <1>5, <1>8, <3>1
    <3>. QED  BY <1>4, <2>1, <3>2, JobsStay DEF Reading
  <2>2. ASSUME NEW v \in Requests, v # u => Clean(v)
        PROVE  Clean(v)'
    <3>1. CASE v = u
      BY <1>3, <1>4, <1>5, <1>6, <1>8, <3>1, JobsStay DEF Clean
    <3>2. CASE v # u
      BY <1>4, <1>8, <2>2, <3>2, JobsStay DEF Clean
    <3>. QED  BY <3>1, <3>2
  <2>. QED  BY <1>4, <1>8, <2>1, <2>2 DEF Swept, StagingInv
<1>13. Archived'
  BY <1>4, JobsStay DEF StagingInv, Archived
<1>. QED  BY <1>4, <1>9, <1>10, <1>11, <1>12, <1>13, JobsStay DEF StagingInv

LEMMA ArchivePdfKeeps ==
  ASSUME StagingInv, NEW j \in Staging!JobIds, Staging!ArchivePdf(j)
  PROVE  StagingInv'
<1>1. PICK p, f : p = worker[j].provider /\ f = Staging!FolderOf(j)
  OBVIOUS
<1>2. /\ Types /\ jobs[j] \in JobRows /\ worker[j] \in Mailers /\ finished[j] \in Nat
      /\ items[j] \in [DOMAIN items[j] -> Staging!ItemStatus] /\ DOMAIN items[j] \subseteq Ids
      /\ j \in DOMAIN items /\ j \in DOMAIN worker /\ j \in DOMAIN finished
      /\ worker[j].pc = "archive" /\ ~worker[j].moved
      /\ p \in DOMAIN items[j] /\ items[j][p] = "RUNNING"
      /\ ~Ended(j) /\ jobs[j].status # "DISPATCH_FAILED" /\ f \in Requests
  BY <1>1, JobFacts DEF Staging!ArchivePdf, Worked, StagingInv
<1>3. UNCHANGED <<jobs, call, now, filed, items, finished, sweep, stranded>>
  BY DEF Staging!ArchivePdf, Staging!creationVars, Staging!rows
<1>4. CASE worker' = [worker EXCEPT ![j].pc = "record"] /\ UNCHANGED Staging!files
  <2>1. PICK w : w = [worker[j] EXCEPT !.pc = "record"]
    OBVIOUS
  <2>2. w \in Mailers /\ w.pc = "record" /\ w.provider = p /\ ~w.moved
    BY <1>1, <1>2, <2>1 DEF Mailers, WorkPC
  <2>3. MovesTo(j, jobs[j], items[j], finished[j], w)
    <3>1. /\ jobs' = [jobs EXCEPT ![j] = jobs[j]] /\ items' = [items EXCEPT ![j] = items[j]]
          /\ finished' = [finished EXCEPT ![j] = finished[j]]
      BY <1>2, <1>3 DEF Types
    <3>. QED  BY <1>2, <1>3, <1>4, <2>1, <2>2, <3>1 DEF MovesTo, Staging!files
  <2>4. MayMove(j, jobs[j], items[j], finished[j], w)
    BY <1>2, <2>2 DEF MayMove, InState, Staging!Of, Ended
  <2>5. Archived'
    BY <1>2, <1>3, <2>3, ArchivedMoves DEF StagingInv
  <2>6. call' \in [Requests -> CallRows] /\ \A u \in Requests : Called(u)'
    BY <1>2, <1>3, <2>3, CalledMoves
  <2>7. \A t : ~Settled(j, t)
    BY <1>2 DEF Settled
  <2>. QED  BY <2>3, <2>4, <2>5, <2>6, <2>7, MovesKeep
<1>5. CASE /\ p \in folder[f].files
           /\ folder' = [folder EXCEPT ![f].files = @ \ {p}, ![f].changed = now]
           /\ archive' = archive \cup {<<f, p>>}
           /\ worker' = [worker EXCEPT ![j].pc = "record", ![j].moved = TRUE]
  <2>1. PICK w, new : /\ w = [worker[j] EXCEPT !.pc = "record", !.moved = TRUE]
                      /\ new = [folder[f] EXCEPT !.files = folder[f].files \ {p}, !.changed = now]
    OBVIOUS
  <2>2. /\ now \in 0..Horizon /\ now \in Nat /\ sweep.at \in Nat /\ sweep.at <= now
        /\ Retention \in Nat /\ MaxAge \in Nat /\ folder[f] \in Folders
    BY <1>2, StagingHolds DEF Types, Sweeps, Staging!StagingAssumption
  <2>3. /\ new \in Folders /\ new.exists = folder[f].exists /\ new.changed = now
        /\ new.files = folder[f].files \ {p}
    BY <2>1, <2>2 DEF Folders
  <2>4. folder[f].exists /\ <<f, p>> \in Requests \X Ids
    BY <1>2, <1>5 DEF StagingInv, Folded
  <2>5. w \in Mailers /\ w.pc = "record" /\ w.provider = p /\ w.moved
    BY <1>1, <1>2, <2>1 DEF Mailers, WorkPC
  <2>6. /\ worker' \in Seq(Mailers) /\ DOMAIN worker' = Staging!JobIds /\ worker'[j] = w
        /\ \A k \in Staging!JobIds : k # j => worker'[k] = worker[k]
    <3>1. worker' = [worker EXCEPT ![j] = w]
      BY <1>5, <2>1
    <3>. QED  BY <1>2, <2>5, <3>1, ExceptSeq DEF Types
  <2>7. /\ folder' \in [Requests -> Folders] /\ folder'[f] = new
        /\ \A v \in Requests : v # f => folder'[v] = folder[v]
    <3>1. folder' = [folder EXCEPT ![f] = new]
      BY <1>5, <2>1
    <3>. QED  BY <1>2, <2>3, <3>1 DEF Types
  <2>8. Staging!JobIds' = Staging!JobIds
    BY <1>3 DEF Staging!JobIds
  <2>9. Types'
    BY <1>2, <1>3, <1>5, <2>4, <2>6, <2>7, <2>8 DEF Types
  <2>10. /\ \A k : Staging!FolderOf(k)' = Staging!FolderOf(k) /\ (Ended(k)' <=> Ended(k))
                            /\ \A s : Staging!Of(k, s)' = Staging!Of(k, s)
         /\ \A g : Staging!JobsOf(g)' = Staging!JobsOf(g)
    BY <1>3, <2>8 DEF Staging!FolderOf, Ended, Staging!Of, Staging!JobsOf
  <2>11. /\ \A k : Sole(k)' <=> Sole(k)
         /\ \A k \in Staging!JobIds : \A t : Settled(k, t)' <=> Settled(k, t)
    <3>1. \A t : ~Settled(j, t) /\ ~Settled(j, t)'
      BY <1>2, <2>5, <2>6 DEF Settled
    <3>2. \A k \in Staging!JobIds : \A t : k # j => (Settled(k, t)' <=> Settled(k, t))
      BY <1>3, <2>6, <2>10 DEF Settled
    <3>. QED  BY <2>10, <3>1, <3>2 DEF Sole
  <2>12. j \in Staging!JobsOf(f)
    BY <1>1 DEF Staging!JobsOf
  <2>13. ASSUME NEW v \in Requests
         PROVE  Folded(v)' /\ Called(v)'
    <3>1. Folded(v) /\ Called(v)
      BY DEF StagingInv
    <3>2. Folded(v)'
      <4>1. CASE v = f
        <5>1. folder'[v].exists /\ folder'[v].changed = now'
          BY <1>3, <2>3, <2>4, <2>7, <4>1, Zenon
        <5>2. now' <= now'
          BY <1>3, <2>2
        <5>. QED  BY <5>1, <5>2 DEF Folded
      <4>2. CASE v # f
        BY <1>3, <2>7, <2>10, <3>1, <4>2 DEF Folded, Staging!NotYet
      <4>. QED  BY <4>1, <4>2
    <3>3. ASSUME call[v].pc = "dispatch"
          PROVE  Called(v)'
      <4>1. PICK k : k = call[v].job
        OBVIOUS
      <4>2. k \in Staging!JobIds /\ k # j
        BY <1>2, <3>1, <3>3, <4>1 DEF Called
      <4>. QED  BY <1>3, <2>6, <2>8, <2>10, <3>1, <3>3, <4>1, <4>2 DEF Called
    <3>4. ASSUME call[v].pc # "dispatch"
          PROVE  Called(v)'
      <4>1. call[v].pc \in {"lookup", "insert"} => v # f
        BY <2>12, <3>1 DEF Called
      <4>. QED  BY <1>3, <2>7, <2>10, <3>1, <3>4, <4>1 DEF Called
    <3>. QED  BY <3>2, <3>3, <3>4
  <2>14. ASSUME NEW k \in Staging!JobIds
         PROVE  Worked(k)' /\ Stocked(k)' /\ Justified(k)'
    <3>1. Worked(k) /\ Stocked(k) /\ Justified(k) /\ Staging!FolderOf(k) \in Requests
      BY JobFacts DEF StagingInv
    <3>2. Worked(k)'
      <4>1. CASE k = j
        BY <1>1, <1>2, <1>3, <1>5, <2>5, <2>6, <2>10, <4>1 DEF Worked
      <4>2. CASE k # j
        BY <1>3, <1>5, <2>6, <2>10, <3>1, <4>2 DEF Worked
      <4>. QED  BY <4>1, <4>2
    <3>3. Stocked(k)'
      <4>1. CASE k = j
        <5>1. p \notin Staging!Of(j, "PENDING") \cup Staging!Of(j, "FAILED")
          BY <1>2 DEF Staging!Of
        <5>. QED  BY <1>1, <2>3, <2>5, <2>6, <2>7, <2>10, <2>11, <3>1, <4>1, <5>1 DEF Stocked
      <4>2. CASE k # j /\ Staging!FolderOf(k) = f
        <5>1. ~Sole(k)
          BY <2>12, <4>2 DEF Sole
        <5>. QED  BY <2>11, <5>1 DEF Stocked
      <4>3. CASE k # j /\ Staging!FolderOf(k) # f
        BY <2>6, <2>7, <2>10, <2>11, <3>1, <4>3 DEF Stocked
      <4>. QED  BY <4>1, <4>2, <4>3
    <3>4. Justified(k)'
      <4>1. CASE Staging!FolderOf(k) = f
        BY <2>3, <2>4, <2>7, <2>10, <4>1 DEF Justified
      <4>2. CASE Staging!FolderOf(k) # f
        BY <1>3, <2>7, <2>10, <2>11, <3>1, <4>2 DEF Justified
      <4>. QED  BY <4>1, <4>2
    <3>. QED  BY <3>2, <3>3, <3>4
  <2>15. Swept'
    <3>1. \A v \in Requests : \/ folder'[v] = folder[v]
                              \/ folder'[v].changed = now /\ folder'[v].exists = folder[v].exists
      BY <2>3, <2>7
    <3>2. ASSUME NEW g \in sweep.todo, Reading(g)
          PROVE  Reading(g)'
      <4>1. g \in Requests /\ Staging!JobsOf(g) \subseteq Staging!JobIds
        BY <1>2 DEF Types, Sweeps, Staging!JobsOf
      <4>2. folder'[g] = folder[g] \/ sweep.at <= folder'[g].changed + 1
        BY <2>2, <3>1, <4>1
      <4>. QED  BY <1>3, <2>10, <2>11, <3>2, <4>1, <4>2 DEF Reading
    <3>3. ASSUME NEW v \in Requests, Clean(v)
          PROVE  Clean(v)'
      <4>1. \/ folder'[v] = folder[v]
            \/ sweep.at <= folder'[v].changed + MaxAge /\ sweep.at <= folder'[v].changed + Retention
        BY <2>2, <3>1
      <4>. QED  BY <1>3, <2>10, <2>11, <3>3, <4>1 DEF Clean
    <3>4. \A v \in Requests : folder'[v].exists = folder[v].exists
      BY <3>1
    <3>. QED  BY <1>3, <3>2, <3>3, <3>4 DEF Swept, StagingInv
  <2>16. Archived'
    <3>1. ASSUME NEW r \in filed
          PROVE  r[1] \in Staging!JobIds' /\ <<Staging!FolderOf(r[1])', r[2]>> \in archive'
                 /\ Staging!FolderOf(r[1])' = Staging!FolderOf(r[1])
      BY <1>5, <2>8, <2>10 DEF StagingInv, Archived
    <3>2. ASSUME NEW a \in archive', a \notin stranded,
                 \A r \in filed : a # <<Staging!FolderOf(r[1])', r[2]>>
          PROVE  \E k \in Staging!JobIds' : worker'[k].moved
                 /\ a = <<Staging!FolderOf(k)', worker'[k].provider>>
      <4>1. CASE a = <<f, p>>
        BY <1>1, <2>5, <2>6, <2>8, <2>10, <4>1
      <4>2. CASE a # <<f, p>>
        <5>1. PICK k \in Staging!JobIds : worker[k].moved
              /\ a = <<Staging!FolderOf(k), worker[k].provider>>
          <6>1. a \in archive /\ \A r \in filed : a # <<Staging!FolderOf(r[1]), r[2]>>
            BY <1>5, <3>1, <3>2, <4>2
          <6>. QED  BY <3>2, <6>1 DEF StagingInv, Archived
        <5>2. k # j
          BY <1>2, <5>1
        <5>. QED  BY <2>6, <2>8, <2>10, <5>1, <5>2
      <4>. QED  BY <4>1, <4>2
    <3>. QED  BY <1>3, <3>1, <3>2 DEF Archived
  <2>. QED  BY <2>8, <2>9, <2>13, <2>14, <2>15, <2>16 DEF StagingInv
<1>. QED  BY <1>1, <1>4, <1>5 DEF Staging!ArchivePdf

-----------------------------------------------------------------------------
(* The sweep, and the clock.                                                *)

\* The sweep or the clock moves on, and no folder is touched.
LEMMA TimeKeeps ==
  ASSUME StagingInv, UNCHANGED <<jobs, call, Staging!files, Staging!rows, worker, stranded>>,
         now' \in {now, now + 1}, now' \in 0..Horizon, sweep' \in Sweeps, sweep'.at <= now',
         now' = now + 1 =>
            \A u \in Requests : call[u].pc \in {"lookup", "insert"} => now <= folder[u].changed,
         Swept'
  PROVE  StagingInv'
<1>1. UNCHANGED <<jobs, call, folder, archive, filed, items, finished, worker, stranded>>
  BY DEF Staging!files, Staging!rows
<1>2. /\ Types /\ now \in Nat /\ now' \in Nat /\ now <= now' /\ Retention \in Nat /\ MaxAge \in Nat
      /\ \A u \in Requests : folder[u].changed \in Nat
  BY StagingHolds DEF StagingInv, Types, Folders, Staging!StagingAssumption
<1>3. Types'
  BY <1>1, <1>2, OneFolderTypes DEF Types
<1>4. ASSUME NEW u \in Requests
      PROVE  Folded(u)' /\ Called(u)'
  <2>1. Folded(u) /\ Called(u)
    BY DEF StagingInv
  <2>2. Folded(u)'
    BY <1>1, <1>2, <2>1, JobsStay DEF Folded, Staging!NotYet
  <2>3. call[u].pc \in {"lookup", "insert"} =>
           folder[u].changed <= now' /\ now' <= folder[u].changed + 1
    BY <1>2, <2>1 DEF Called
  <2>4. Called(u)'
    BY <1>1, <2>1, <2>3, JobsStay DEF Called
  <2>. QED  BY <2>2, <2>4
<1>5. ASSUME NEW k \in Staging!JobIds
      PROVE  Worked(k)' /\ Stocked(k)' /\ Justified(k)'
  <2>1. Worked(k) /\ Stocked(k) /\ Justified(k) /\ Staging!FolderOf(k) \in Requests
    BY JobFacts DEF StagingInv
  <2>2. Worked(k)'
    BY <1>1, <2>1, JobsStay DEF Worked
  <2>3. Stocked(k)'
    BY <1>1, <2>1, JobsStay DEF Stocked
  <2>4. /\ \A t \in Nat : t + Retention < now => t + Retention < now'
        /\ folder[Staging!FolderOf(k)].changed + MaxAge < now
           => folder[Staging!FolderOf(k)].changed + MaxAge < now'
    BY <1>2, <2>1
  <2>5. Justified(k)'
    BY <1>1, <2>1, <2>4, JobsStay DEF Justified
  <2>. QED  BY <2>2, <2>3, <2>5
<1>6. Archived'
  BY <1>1, JobsStay DEF StagingInv, Archived
<1>. QED  BY <1>1, <1>3, <1>4, <1>5, <1>6, JobsStay DEF StagingInv

LEMMA NothingSeen == <<>> \in UNION {[S -> SeenRows] : S \in SUBSET Requests}
<1>1. <<>> \in [{} -> SeenRows]
  OBVIOUS
<1>. QED  BY <1>1

LEMMA SweepStartKeeps ==
  ASSUME StagingInv, Staging!SweepStart
  PROVE  StagingInv'
<1>1. /\ UNCHANGED <<jobs, call, Staging!files, Staging!rows, worker, stranded, folder>> /\ now' = now
      /\ now \in 0..Horizon /\ now \in Nat /\ now <= now
  BY StagingHolds DEF Staging!SweepStart, Staging!creationVars, Staging!files, StagingInv, Types,
     Staging!StagingAssumption
<1>2. /\ sweep' \in Sweeps /\ sweep'.at = now /\ sweep'.pc = "load"
      /\ sweep'.todo = {u \in Requests : folder[u].exists}
  BY <1>1, NothingSeen DEF Staging!SweepStart, Staging!NoSweep, Sweeps
<1>3. Swept'
  BY <1>1, <1>2 DEF Swept
<1>. QED  BY <1>1, <1>2, <1>3, TimeKeeps

LEMMA SweepLoadKeeps ==
  ASSUME StagingInv, Staging!SweepLoad
  PROVE  StagingInv'
<1>1. /\ UNCHANGED <<jobs, call, Staging!files,
         Staging!rows, worker, stranded, folder, items, finished>>
      /\ now' = now /\ now \in 0..Horizon /\ sweep \in Sweeps /\ sweep.at <= now
  BY DEF Staging!SweepLoad, Staging!creationVars, Staging!files, Staging!rows, StagingInv, Types
<1>2. PICK pick \in [sweep.todo -> Staging!JobIds \cup {Staging!NoJob}] :
         /\ \A f \in sweep.todo : IF Staging!JobsOf(f) = {} THEN pick[f] = Staging!NoJob
                                 ELSE pick[f] \in Staging!JobsOf(f)
         /\ sweep' = [sweep EXCEPT !.pc = "decide",
                        !.seen = [f \in sweep.todo |->
                                    IF pick[f] = Staging!NoJob THEN Staging!NoneSeen
                                    ELSE Staging!Seen(pick[f])]]
  BY DEF Staging!SweepLoad
<1>3. PICK seen : seen = [f \in sweep.todo |-> IF pick[f] = Staging!NoJob THEN Staging!NoneSeen
                                              ELSE Staging!Seen(pick[f])]
  OBVIOUS
<1>4. sweep.todo \subseteq Requests
  BY <1>1 DEF Sweeps
<1>5. Staging!JobIds \subseteq Nat \ {Staging!NoJob}
  BY DEF StagingInv, Types, Staging!JobIds, Staging!NoJob
<1>6. Staging!NoneSeen \in SeenRows /\ Staging!NoneSeen.job = Staging!NoJob
      /\ Staging!NoneSeen.status = "NONE"
  BY StagingHolds DEF Staging!NoneSeen, SeenRows, Staging!NoJob, Staging!NotYet,
     Staging!StagingAssumption
<1>7. ASSUME NEW k \in Staging!JobIds
      PROVE  Staging!Seen(k) \in SeenRows /\ Staging!Seen(k).job = k
             /\ Staging!Seen(k).status = jobs[k].status
             /\ Staging!Seen(k).finished = finished[k]
  BY <1>5, JobFacts DEF Staging!Seen, SeenRows, JobRows
<1>8. seen \in [sweep.todo -> SeenRows]
  BY <1>2, <1>3, <1>6, <1>7
<1>9. /\ sweep' \in Sweeps /\ sweep'.pc = "decide" /\ sweep'.at = sweep.at /\ sweep'.seen = seen
      /\ sweep'.todo = sweep.todo /\ sweep'.complete = sweep.complete
  <2>1. seen \in UNION {[S -> SeenRows] : S \in SUBSET Requests}
    BY <1>4, <1>8
  <2>. QED  BY <1>1, <1>2, <1>3, <2>1 DEF Sweeps
<1>10. ASSUME NEW f \in sweep.todo
       PROVE  Reading(f)'
  <2>1. CASE pick[f] = Staging!NoJob
    <3>1. Staging!JobsOf(f) = {}
      BY <1>2, <1>5, <2>1 DEF Staging!JobsOf
    <3>2. seen[f].job = Staging!NoJob /\ seen[f].status = "NONE" /\ f \in DOMAIN seen
      BY <1>3, <1>6, <2>1
    <3>. QED  BY <1>1, <1>9, <3>1, <3>2, JobsStay DEF Reading
  <2>2. CASE pick[f] # Staging!NoJob
    <3>1. PICK k : k = pick[f]
      OBVIOUS
    <3>2. k \in Staging!JobsOf(f) /\ k \in Staging!JobIds /\ k # Staging!NoJob
      BY <1>2, <2>2, <3>1 DEF Staging!JobsOf
    <3>3. /\ f \in DOMAIN seen /\ seen[f].job = k /\ seen[f].status = jobs[k].status
          /\ seen[f].finished = finished[k]
      BY <1>3, <1>7, <2>2, <3>1, <3>2
    <3>4. jobs[k].status \in Staging!TerminalJob => Settled(k, finished[k])
      BY <3>2 DEF StagingInv, Worked, Ended, Settled
    <3>5. \A j \in Staging!JobsOf(f) : Sole(j) /\ Ended(j) =>
             seen[f].job = j /\ seen[f].status \in Staging!TerminalJob /\ finished[j] = seen[f].finished
      BY <3>2, <3>3 DEF Sole, Ended, Staging!JobsOf
    <3>. QED  BY <1>1, <1>9, <3>2, <3>3, <3>4, <3>5, JobsStay DEF Reading
  <2>. QED  BY <2>1, <2>2
<1>11. Swept'
  BY <1>1, <1>9, <1>10, JobsStay DEF Swept, Clean, StagingInv
<1>. QED  BY <1>1, <1>9, <1>11, TimeKeeps

LEMMA SweepEndKeeps ==
  ASSUME StagingInv, Staging!SweepEnd
  PROVE  StagingInv'
<1>1. /\ UNCHANGED <<jobs, call, Staging!files,
         Staging!rows, worker, stranded, folder, items, finished>>
      /\ now' = now /\ now \in 0..Horizon /\ sweep \in Sweeps /\ sweep.at <= now
  BY DEF Staging!SweepEnd, Staging!creationVars, Staging!files, Staging!rows, StagingInv, Types
<1>2. /\ sweep' \in Sweeps /\ sweep'.pc = "idle" /\ sweep'.at = sweep.at
      /\ sweep'.todo = {} /\ sweep.todo = {} /\ sweep'.complete = sweep.complete
  BY <1>1, NothingSeen DEF Staging!SweepEnd, Staging!NoSweep, Sweeps
<1>3. Swept'
  BY <1>1, <1>2, JobsStay DEF Swept, Clean, StagingInv
<1>. QED  BY <1>1, <1>2, <1>3, TimeKeeps

LEMMA ClockKeeps ==
  ASSUME StagingInv, Staging!Clock
  PROVE  StagingInv'
<1>1. /\ UNCHANGED <<jobs, call, Staging!files,
         Staging!rows, worker, stranded, folder, items, finished, sweep>>
      /\ now' = now + 1 /\ now \in 0..Horizon /\ now < Horizon /\ now' \in 0..Horizon
      /\ sweep \in Sweeps /\ sweep.at \in Nat /\ sweep.at <= now /\ sweep.at <= now'
  BY StagingHolds DEF Staging!Clock, Staging!creationVars, Staging!files, Staging!rows, StagingInv,
     Types, Sweeps, Staging!StagingAssumption
<1>2. \A u \in Requests : call[u].pc \in {"lookup", "insert"} => now <= folder[u].changed
  BY DEF Staging!Clock
<1>3. Swept'
  BY <1>1, JobsStay DEF Swept, Reading, Clean, StagingInv
<1>. QED  BY <1>1, <1>2, <1>3, TimeKeeps

\* The sweep leaves a folder: it removes it, fails to, or finds it is in use.
LEMMA LeftAlone ==
  ASSUME StagingInv, NEW f \in sweep.todo, UNCHANGED <<Staging!creationVars, now, Staging!files,
         Staging!rows, worker, stranded>>,
         sweep.pc = "decide",
         \/ sweep' = [sweep EXCEPT !.todo = @ \ {f}, !.complete = FALSE]
         \/ sweep' = [sweep EXCEPT !.todo = @ \ {f}] /\ Clean(f)
  PROVE  StagingInv'
<1>1. /\ UNCHANGED <<jobs, call, folder, items, finished, worker>> /\ now' = now /\ now \in 0..Horizon
      /\ sweep \in Sweeps /\ sweep.at <= now
  BY DEF Staging!creationVars, Staging!files, Staging!rows, StagingInv, Types
<1>2. /\ sweep' \in Sweeps /\ sweep'.pc = "decide" /\ sweep'.at = sweep.at
      /\ sweep'.todo = sweep.todo \ {f} /\ sweep'.seen = sweep.seen
      /\ sweep'.complete => sweep.complete /\ Clean(f)
  BY <1>1 DEF Sweeps
<1>3. ASSUME NEW g \in sweep.todo
      PROVE  Reading(g)'
  <2>1. Reading(g)
    BY DEF StagingInv, Swept
  <2>. QED  BY <1>1, <1>2, <2>1, JobsStay DEF Reading
<1>4. ASSUME NEW u \in Requests, Clean(u)
      PROVE  Clean(u)'
  BY <1>1, <1>2, <1>4, JobsStay DEF Clean
<1>5. Swept'
  BY <1>1, <1>2, <1>3, <1>4 DEF Swept, StagingInv
<1>. QED  BY <1>1, <1>2, <1>5, TimeKeeps DEF Staging!creationVars

LEMMA RemovedKeeps ==
  ASSUME StagingInv, NEW f \in sweep.todo,
         UNCHANGED <<Staging!creationVars, now, archive, Staging!rows, worker, stranded>>,
         sweep.pc = "decide", Staging!Expired(f) \/ Staging!Served(sweep.seen[f])
         \/ Staging!Orphan(f, sweep.seen[f]),
         folder' = [folder EXCEPT ![f].exists = FALSE, ![f].files = {}],
         sweep' = [sweep EXCEPT !.todo = @ \ {f}]
  PROVE  StagingInv'
<1>1. /\ UNCHANGED <<jobs, call, archive, filed, items, finished, worker, stranded>>
      /\ now' = now /\ now \in 0..Horizon /\ now \in Nat
      /\ sweep \in Sweeps /\ sweep.at <= now /\ sweep.at \in Nat
      /\ Retention \in Nat /\ (Retention # 0 => 1 <= Retention) /\ MaxAge \in Nat /\ Retention < MaxAge
      /\ Types /\ f \in Requests /\ folder[f] \in Folders /\ folder[f].changed \in Nat
  BY StagingHolds DEF Staging!creationVars, Staging!rows, StagingInv, Types, Sweeps, Folders,
     Staging!StagingAssumption
<1>2. PICK new : new = [folder[f] EXCEPT !.exists = FALSE, !.files = {}]
  OBVIOUS
<1>3. new \in Folders /\ ~new.exists /\ new.files = {} /\ new.changed = folder[f].changed
  BY <1>1, <1>2 DEF Folders
<1>4. /\ folder' \in [Requests -> Folders] /\ folder'[f] = new
      /\ \A v \in Requests : v # f => folder'[v] = folder[v]
  <2>1. folder' = [folder EXCEPT ![f] = new]
    BY <1>2
  <2>. QED  BY <1>1, <1>3, <2>1 DEF Types
<1>5. /\ sweep' \in Sweeps /\ sweep'.pc = "decide" /\ sweep'.at = sweep.at
      /\ sweep'.todo = sweep.todo \ {f} /\ sweep'.seen = sweep.seen
      /\ sweep'.complete = sweep.complete
  BY <1>1 DEF Sweeps
<1>6. PICK seen : seen = sweep.seen[f]
  OBVIOUS
<1>7. seen \in SeenRows /\ seen.finished \in Nat /\ "NONE" \notin Staging!TerminalJob
  <2>1. f \in DOMAIN sweep.seen
    BY DEF StagingInv, Swept, Reading
  <2>2. PICK S \in SUBSET Requests : sweep.seen \in [S -> SeenRows]
    BY <1>1 DEF Sweeps
  <2>. QED  BY <1>6, <2>1, <2>2 DEF SeenRows, Staging!TerminalJob
<1>8. /\ seen.job # Staging!NoJob => /\ seen.job \in Staging!JobsOf(f)
                                     /\ seen.status \in Staging!TerminalJob
                                        => Settled(seen.job, seen.finished)
      /\ seen.job = Staging!NoJob => /\ seen.status = "NONE"
                                     /\ Staging!JobsOf(f) = {} \/ sweep.at <= folder[f].changed + 1
  BY <1>6 DEF StagingInv, Swept, Reading
\* The folder is too old, its job has served its time, or it has no job.
<1>9. Retention # 0 =>
      \/ folder[f].changed + MaxAge < now
      \/ seen.job \in Staging!JobsOf(f) /\ Settled(seen.job, seen.finished)
         /\ seen.finished + Retention < now
      \/ Staging!JobsOf(f) = {} /\ folder[f].changed + 1 < now
  <2>. SUFFICES ASSUME Retention # 0
                PROVE  \/ folder[f].changed + MaxAge < now
                       \/ /\ seen.job \in Staging!JobsOf(f) /\ Settled(seen.job, seen.finished)
                          /\ seen.finished + Retention < now
                       \/ Staging!JobsOf(f) = {} /\ folder[f].changed + 1 < now
    OBVIOUS
  <2>1. CASE Staging!Expired(f)
    BY <1>1, <2>1 DEF Staging!Expired
  <2>2. CASE Staging!Served(seen)
    BY <1>1, <1>7, <1>8, <2>2 DEF Staging!Served
  <2>3. CASE Staging!Orphan(f, seen)
    BY <1>1, <1>8, <2>3 DEF Staging!Orphan
  <2>. QED  BY <1>6, <2>1, <2>2, <2>3
<1>10. Types'
  BY <1>1, <1>4, <1>5, OneFolderTypes DEF Types
<1>11. ASSUME NEW v \in Requests
       PROVE  Folded(v)' /\ Called(v)'
  <2>1. Folded(v) /\ Called(v)
    BY DEF StagingInv
  <2>2. Folded(v)'
    <3>1. CASE v = f
      BY <1>1, <1>3, <1>4, <2>1, <3>1, JobsStay DEF Folded, Staging!NotYet
    <3>2. CASE v # f
      BY <1>1, <1>4, <2>1, <3>2, JobsStay DEF Folded, Staging!NotYet
    <3>. QED  BY <3>1, <3>2
  <2>3. call[v].pc \in {"lookup", "insert"} /\ Retention # 0 => v # f
    <3>. SUFFICES ASSUME call[v].pc \in {"lookup", "insert"}, Retention # 0, v = f PROVE FALSE
      OBVIOUS
    <3>1. Staging!JobsOf(f) = {} /\ now <= folder[f].changed + 1
      BY <2>1 DEF Called
    <3>. QED  BY <1>1, <1>9, <3>1
  <2>4. folder'[v].changed = folder[v].changed /\ (v # f => folder'[v] = folder[v])
    BY <1>3, <1>4
  <2>5. Called(v)'
    BY <1>1, <2>1, <2>3, <2>4, JobsStay DEF Called
  <2>. QED  BY <2>2, <2>5
<1>12. ASSUME NEW k \in Staging!JobIds
       PROVE  Worked(k)' /\ Stocked(k)' /\ Justified(k)'
  <2>1. Worked(k) /\ Stocked(k) /\ Justified(k) /\ Staging!FolderOf(k) \in Requests
    BY JobFacts DEF StagingInv
  <2>2. Worked(k)'
    BY <1>1, <2>1, JobsStay DEF Worked
  <2>3. CASE Staging!FolderOf(k) = f
    <3>1. Stocked(k)'
      BY <1>1, <1>3, <1>4, <2>3, JobsStay DEF Stocked
    <3>2. ASSUME Sole(k), Retention # 0
          PROVE  \/ folder[f].changed + MaxAge < now
                 \/ \E t \in Nat : Settled(k, t) /\ t + Retention < now
      <4>1. Staging!JobsOf(f) = {k}
        BY <2>3, <3>2 DEF Sole
      <4>. QED  BY <1>7, <1>9, <3>2, <4>1
    <3>3. Justified(k)'
      BY <1>1, <1>3, <1>4, <2>3, <3>2, JobsStay DEF Justified
    <3>. QED  BY <2>2, <3>1, <3>3
  <2>4. CASE Staging!FolderOf(k) # f
    <3>1. Stocked(k)'
      BY <1>1, <1>4, <2>1, <2>4, JobsStay DEF Stocked
    <3>2. Justified(k)'
      BY <1>1, <1>4, <2>1, <2>4, JobsStay DEF Justified
    <3>. QED  BY <2>2, <3>1, <3>2
  <2>. QED  BY <2>3, <2>4
<1>13. Swept'
  <2>1. ASSUME NEW g \in sweep'.todo
        PROVE  Reading(g)'
    <3>1. Reading(g) /\ g \in Requests /\ g # f
      BY <1>1, <1>5 DEF StagingInv, Swept, Sweeps
    <3>2. folder'[g] = folder[g]
      BY <1>4, <3>1
    <3>. QED  BY <1>1, <1>5, <3>1, <3>2, JobsStay DEF Reading
  <2>2. ASSUME NEW u \in Requests, sweep.complete, folder'[u].exists, u \notin sweep'.todo
        PROVE  Clean(u)'
    <3>1. u # f
      BY <1>3, <1>4, <2>2
    <3>2. Clean(u) /\ folder'[u] = folder[u]
      BY <1>4, <1>5, <2>2, <3>1 DEF StagingInv, Swept
    <3>. QED  BY <1>1, <1>5, <3>2, JobsStay DEF Clean
  <2>. QED  BY <1>5, <2>1, <2>2 DEF Swept
<1>14. Archived'
  BY <1>1, JobsStay DEF StagingInv, Archived
<1>. QED  BY <1>1, <1>10, <1>11, <1>12, <1>13, <1>14, JobsStay DEF StagingInv

LEMMA SweepFolderKeeps ==
  ASSUME StagingInv, NEW f \in Requests, Staging!SweepFolder(f)
  PROVE  StagingInv'
<1>1. /\ f \in sweep.todo /\ sweep.pc = "decide"
      /\ UNCHANGED <<Staging!creationVars, now, archive, Staging!rows, worker, stranded>>
  BY DEF Staging!SweepFolder
<1>2. CASE Staging!Expired(f) \/ Staging!Served(sweep.seen[f]) \/ Staging!Orphan(f, sweep.seen[f])
  <2>1. CASE /\ folder' = [folder EXCEPT ![f].exists = FALSE, ![f].files = {}]
             /\ sweep' = [sweep EXCEPT !.todo = @ \ {f}]
    BY <1>1, <1>2, <2>1, RemovedKeeps
  <2>2. CASE /\ sweep' = [sweep EXCEPT !.todo = @ \ {f}, !.complete = FALSE]
             /\ UNCHANGED folder
    BY <1>1, <2>2, LeftAlone DEF Staging!files
  <2>. QED  BY <1>2, <2>1, <2>2 DEF Staging!SweepFolder
<1>3. CASE ~(Staging!Expired(f) \/ Staging!Served(sweep.seen[f]) \/ Staging!Orphan(f, sweep.seen[f]))
  <2>1. /\ sweep' = [sweep EXCEPT !.todo = @ \ {f}] /\ UNCHANGED folder
    BY <1>3 DEF Staging!SweepFolder
  <2>2. /\ sweep.at \in Nat /\ Retention \in Nat /\ MaxAge \in Nat /\ folder[f].changed \in Nat
        /\ \A j \in Staging!JobsOf(f) : finished[j] \in Nat
    BY StagingHolds, JobFacts DEF StagingInv, Types, Sweeps, Folders, Staging!StagingAssumption,
       Staging!JobsOf
  <2>3. Reading(f)
    BY <1>1 DEF StagingInv, Swept
  <2>4. sweep.at <= folder[f].changed + MaxAge
    BY <1>3, <2>2 DEF Staging!Expired
  <2>5. Staging!JobsOf(f) = {} => sweep.at <= folder[f].changed + Retention
    BY <1>3, <2>2, <2>3 DEF Reading, Staging!Orphan
  <2>6. ASSUME NEW j \in Staging!JobsOf(f), Sole(j), Ended(j)
        PROVE  sweep.at <= finished[j] + Retention
    <3>1. CASE sweep.at <= finished[j]
      BY <2>2, <3>1
    <3>2. CASE sweep.seen[f].status \in Staging!TerminalJob /\ finished[j] = sweep.seen[f].finished
      BY <1>3, <2>2, <3>2 DEF Staging!Served
    <3>. QED  BY <2>3, <2>6, <3>1, <3>2 DEF Reading
  <2>. QED  BY <1>1, <2>1, <2>4, <2>5, <2>6, LeftAlone DEF Clean, Staging!files
<1>. QED  BY <1>2, <1>3

-----------------------------------------------------------------------------
LEMMA StagingInit == Staging!Init => StagingInv
<1>. SUFFICES ASSUME Staging!Init PROVE StagingInv
  OBVIOUS
<1>1. /\ jobs = <<>> /\ items = <<>> /\ finished = <<>> /\ worker = <<>>
      /\ archive = {} /\ filed = {} /\ now = 0 /\ sweep = Staging!NoSweep
      /\ call = [u \in Requests |-> Staging!NoCall]
      /\ folder = [u \in Requests |-> [exists |-> FALSE, files |-> {}, changed |-> Staging!NotYet]]
  BY StagingHolds DEF Staging!Init, Staging!CreationInit, Staging!StagingAssumption
<1>2. Staging!JobIds = {} /\ \A u : Staging!JobsOf(u) = {}
  BY <1>1 DEF Staging!JobIds, Staging!JobsOf
<1>3. Staging!NoCall \in CallRows /\ Staging!NoCall.pc = "none"
  BY DEF Staging!NoCall, CallRows, Staging!CallPC, Staging!NoJob, KeyNames
<1>4. Staging!NoSweep \in Sweeps /\ Staging!NoSweep.at = 0 /\ Staging!NoSweep.pc = "idle"
      /\ Staging!NoSweep.todo = {}
  BY NothingSeen DEF Staging!NoSweep, Sweeps
<1>5. Staging!NotYet \in Nat /\ 0 \in 0..Horizon /\ 0 <= 0
  BY StagingHolds DEF Staging!NotYet, Staging!StagingAssumption
<1>6. Types
  <2>1. <<>> \in Seq(JobRows) /\ <<>> \in Seq(MailRows) /\ <<>> \in Seq(Nat) /\ <<>> \in Seq(Mailers)
        /\ DOMAIN items = {} /\ DOMAIN finished = {} /\ DOMAIN worker = {}
    BY <1>1
  <2>2. folder \in [Requests -> Folders] /\ call \in [Requests -> CallRows]
    BY <1>1, <1>3, <1>5 DEF Folders
  <2>. QED  BY <1>1, <1>2, <1>4, <1>5, <2>1, <2>2 DEF Types
<1>7. \A u \in Requests : Folded(u) /\ Called(u)
  BY <1>1, <1>2, <1>3 DEF Folded, Called
<1>8. Swept /\ Archived
  BY <1>1, <1>4 DEF Swept, Archived
<1>. QED  BY <1>2, <1>6, <1>7, <1>8 DEF StagingInv

LEMMA StagingStutters ==
  ASSUME StagingInv, UNCHANGED Staging!vars
  PROVE  StagingInv'
<1>1. UNCHANGED <<jobs, call, Staging!files,
      Staging!rows, worker, stranded, sweep, now, folder, items, finished>>
  BY DEF Staging!vars, Staging!creationVars, Staging!files, Staging!rows
<1>2. Swept'
  BY <1>1, JobsStay DEF Swept, Reading, Clean, StagingInv
<1>. QED  BY <1>1, <1>2, TimeKeeps DEF StagingInv, Types

LEMMA StagingStep ==
  ASSUME StagingInv, Staging!Next
  PROVE  StagingInv'
<1>1. ASSUME NEW u \in Requests, Staging!Upload(u) \/ Staging!Create(u) \/ Staging!UploadDies(u)
             \/ Staging!SweepFolder(u)
      PROVE  StagingInv'
  BY <1>1, UploadKeeps, CreateKeeps, UploadDiesKeeps, SweepFolderKeeps
<1>2. ASSUME NEW j \in Staging!JobIds,
             \/ Staging!StartMail(j) \/ Staging!SendMail(j) \/ Staging!ArchivePdf(j)
                \/ Staging!RecordMail(j)
             \/ Staging!WorkerDies(j) \/ Staging!EndJob(j) \/ Staging!CancelJob(j)
             \/ Staging!RetryDispatch(j) \/ Staging!RetryFailed(j)
      PROVE  StagingInv'
  BY <1>2, StartMailKeeps, SendMailKeeps, ArchivePdfKeeps, RecordMailKeeps, WorkerDiesKeeps,
     EndJobKeeps, CancelJobKeeps, RetryDispatchKeeps, RetryFailedKeeps
<1>3. ASSUME Staging!SweepStart \/ Staging!SweepLoad \/ Staging!SweepEnd \/ Staging!Clock
      PROVE  StagingInv'
  BY <1>3, SweepStartKeeps, SweepLoadKeeps, SweepEndKeeps, ClockKeeps
<1>. QED  BY <1>1, <1>2, <1>3 DEF Staging!Next

-----------------------------------------------------------------------------
LEMMA StagingTyped ==
  ASSUME StagingInv
  PROVE  Staging!TypeOK
<1>1. ASSUME NEW u \in Requests
      PROVE  folder[u].files \subseteq Ids /\ (folder[u].files # {} => folder[u].exists)
  BY DEF StagingInv, Types, Folders, Folded
<1>2. ASSUME NEW j \in Staging!JobIds
      PROVE  /\ jobs[j].status \in Staging!JobStatus
             /\ \A p \in DOMAIN items[j] : items[j][p] \in Staging!ItemStatus
             /\ (worker[j].pc # "idle" => items[j][worker[j].provider] = "RUNNING")
  BY JobFacts DEF JobRows, Worked
<1>. QED  BY <1>1, <1>2 DEF Staging!TypeOK, StagingInv, Types

LEMMA StagingKeeps ==
  ASSUME StagingInv, Retention # 0
  PROVE  Staging!KeepsWhatItMaySend
<1>. SUFFICES ASSUME NEW j \in Staging!JobIds, Staging!Guards(j)
              PROVE  /\ Staging!Of(j, "PENDING") \subseteq folder[Staging!FolderOf(j)].files
                     /\ now <= finished[j] + Retention =>
                           Staging!Of(j, "FAILED") \subseteq folder[Staging!FolderOf(j)].files
  BY DEF Staging!KeepsWhatItMaySend
<1>1. Sole(j) /\ now <= folder[Staging!FolderOf(j)].changed + MaxAge /\ Staging!FolderOf(j) \in Requests
  BY JobFacts DEF Staging!Guards, Sole
<1>2. CASE folder[Staging!FolderOf(j)].exists
  BY <1>1, <1>2 DEF StagingInv, Stocked
<1>3. CASE ~folder[Staging!FolderOf(j)].exists
  <2>1. /\ now \in Nat /\ finished[j] \in Nat /\ Retention \in Nat /\ MaxAge \in Nat
        /\ folder[Staging!FolderOf(j)].changed \in Nat
    BY <1>1, StagingHolds, JobFacts DEF StagingInv, Types, Folders, Staging!StagingAssumption
  <2>2. PICK t \in Nat : Settled(j, t) /\ t + Retention < now
    BY <1>1, <1>3, <2>1 DEF StagingInv, Justified
  <2>3. Staging!Of(j, "PENDING") = {} /\ (Staging!Of(j, "FAILED") = {} \/ finished[j] = t)
    BY <2>2 DEF Settled
  <2>. QED  BY <2>1, <2>2, <2>3
<1>. QED  BY <1>2, <1>3

LEMMA StagingSwept ==
  ASSUME StagingInv
  PROVE  Staging!SweptClean
<1>. SUFFICES ASSUME sweep.pc = "idle", sweep.complete, NEW u \in Requests, folder[u].exists
              PROVE  /\ sweep.at <= folder[u].changed + MaxAge
                     /\ Staging!JobsOf(u) = {} => sweep.at <= folder[u].changed + Retention
                     /\ \A j \in Staging!JobIds : Staging!Guards(j) /\ Staging!FolderOf(j) = u
                        /\ jobs[j].status \in Staging!TerminalJob
                           => sweep.at <= finished[j] + Retention
  BY DEF Staging!SweptClean
<1>1. Clean(u)
  BY DEF StagingInv, Swept
<1>. QED  BY <1>1 DEF Clean, Staging!Guards, Sole, Ended, Staging!JobsOf

LEMMA StagingFiled ==
  ASSUME StagingInv
  PROVE  Staging!ArchiveMatchesRows
  BY DEF StagingInv, Archived, Staging!ArchiveMatchesRows
-----------------------------------------------------------------------------
(* The behaviours of MCFiles: one of the two modules moves, the other one   *)
(* stands still, so that each of them sees a behaviour of its own.          *)

LEMMA FilesAreProvisions == FilesSpec => Spec
<1>1. FilesInit => Init
  BY DEF FilesInit
<1>2. [FilesNext]_allVars => [Next]_vars
  BY DEF FilesNext, ProvisionsNext, StagingNext, allVars
<1>. QED  BY <1>1, <1>2, PTL DEF FilesSpec, Spec

LEMMA FilesAreStaging == FilesSpec => Staging!Spec
<1>1. FilesInit => Staging!Init
  BY DEF FilesInit
<1>2. [FilesNext]_allVars => [Staging!Next]_Staging!vars
  BY DEF FilesNext, ProvisionsNext, StagingNext, allVars, stagingVars, Staging!vars,
         Staging!creationVars, Staging!files, Staging!rows
<1>. QED  BY <1>1, <1>2, PTL DEF FilesSpec, Staging!Spec

LEMMA StagingHeld == Staging!Spec => []StagingInv
<1>1. StagingInv /\ [Staging!Next]_Staging!vars => StagingInv'
  BY StagingStep, StagingStutters
<1>. QED  BY <1>1, StagingInit, PTL DEF Staging!Spec

(* A complete sweep leaves no folder that is too old, that lost its upload   *)
(* or whose job ended before the retention, whatever the two limits          *)
(* (PaymentProviderStagingCleanup.run).                                      *)
THEOREM SweepTakesAll == Staging!Spec => []Staging!SweptClean
  BY StagingSwept, StagingHeld, PTL

(* Both modules are well typed.                                              *)
THEOREM FilesTyped == FilesSpec => []TypesOK
<1>1. StagingInv => Staging!TypeOK
  BY StagingTyped
<1>2. TypeOK /\ Staging!TypeOK => TypesOK
  BY DEF TypesOK
<1>. QED  BY <1>1, <1>2, FilesAreProvisions, FilesAreStaging, TypeCorrect, StagingHeld, PTL

(* Files and the rows that name them agree: attachments and their documents  *)
(* (delete_document), the archive of mailed PDFs and storage.attachments     *)
(* (archive_item_attachments).                                               *)
THEOREM FilesAgree == FilesSpec => []FilesMatchRows
<1>1. StagingInv => Staging!ArchiveMatchesRows
  BY StagingFiled
<1>2. FilesHaveTheirEntity /\ Staging!ArchiveMatchesRows => FilesMatchRows
  BY DEF FilesMatchRows
<1>. QED  BY <1>1, <1>2, FilesAreProvisions, FilesAreStaging, FilesAreNotOrphaned, StagingHeld, PTL

(* The sweep takes nothing a job may still send, nor a folder whose upload   *)
(* is about to make its job, and leaves nothing it should take: for every    *)
(* age and retention, as long as a folder is kept at least a day after its   *)
(* job (cleanup_service.py, _decide and run).                                *)
THEOREM SweepExact ==
  ASSUME Retention # 0
  PROVE  FilesSpec => []SweepIsExact
<1>1. StagingInv => Staging!KeepsWhatItMaySend /\ Staging!SweptClean
  BY StagingKeeps, StagingSwept
<1>2. Staging!KeepsWhatItMaySend /\ Staging!SweptClean => SweepIsExact
  BY DEF SweepIsExact
<1>. QED  BY <1>1, <1>2, FilesAreStaging, StagingHeld, PTL
=================================================================================
