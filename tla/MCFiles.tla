-------------------------------- MODULE MCFiles --------------------------------
(***************************************************************************)
(* Small instances of the two modules about files and the rows that name      *)
(* them: Provisions, as in MCProvisions, and PaymentStaging.  They share no    *)
(* state, so that a behaviour belongs to one and the other stays where it      *)
(* begins.                                                                  *)
(***************************************************************************)
EXTENDS MCProvisions

CONSTANTS
    UploadKeys,                                 \* KeyOf of PaymentStaging
    Retention, MaxAge, Horizon, MaxJobs, MaxFaults

VARIABLES
    part,                                                           \* whose behaviour it is
    jobs, call, now, folder, archive, filed, items, finished,       \* PaymentStaging
    worker, sweep, faults, stranded

stagingVars == <<jobs, call, now, folder, archive, filed, items, finished,
                 worker, sweep, faults, stranded>>
allVars == <<part, vars, stagingVars>>

\* One upload of two PDFs, sent twice.
DoubleClick == [r \in Requests |-> <<"key">>]

Staging == INSTANCE PaymentStaging
    WITH Uploads <- Requests, Callers <- Requests, KeyOf <- UploadKeys, Providers <- Ids

ASSUME StagingHolds == Staging!StagingAssumption
-----------------------------------------------------------------------------
FilesInit ==
    /\ part \in {"provisions", "staging"}
    /\ Init
    /\ Staging!Init

ProvisionsNext == part = "provisions" /\ Next /\ UNCHANGED <<part, stagingVars>>
StagingNext == part = "staging" /\ Staging!Next /\ UNCHANGED <<part, vars>>

FilesNext == ProvisionsNext \/ StagingNext

FilesSpec == FilesInit /\ [][FilesNext]_allVars
-----------------------------------------------------------------------------
(* The two modules are well typed: rows have their columns, requests the fields *)
(* of their step, and a busy worker has an item in hand.                      *)
TypesOK ==
    /\ part = "provisions" => TypeOK
    /\ part = "staging" => Staging!TypeOK

(* The sweep of the staging folders takes nothing that a job may still send     *)
(* (cleanup_service.py), and a complete sweep leaves nothing it should take.   *)
SweepIsExact ==
    part = "staging" => Staging!KeepsWhatItMaySend /\ Staging!SweptClean

(* Files and the rows that name them agree: the attachments of a provision and *)
(* its documents, and the archive of the PDFs that were mailed.                *)
FilesMatchRows ==
    /\ part = "provisions" => FilesHaveTheirEntity
    /\ part = "staging" => Staging!ArchiveMatchesRows
=============================================================================
