--------------------------- MODULE ApplicationIntake ---------------------------
(***************************************************************************)
(* DualPersistence with what it leaves open: store_application asks, in    *)
(* the transaction that stores the row and before it looks for a replay,   *)
(* that the uploads the payload names be verified, unexpired and of the    *)
(* request's subject in that database.  The two upload tables change       *)
(* meanwhile as UploadStatus has it.                                       *)
(***************************************************************************)
EXTENDS DualPersistence

CONSTANTS
  Upload,      \* ids of reserved uploads
  File,        \* what an upload declares
  Attached     \* the resume and the photo id that a payload digest names

ASSUME AttachedAssumption == Attached \in [Digest -> (SUBSET Upload) \ {{}}]

VARIABLES primaryUploads, mirrorUploads

uploads == <<primaryUploads, mirrorUploads>>
allVars == <<vars, uploads>>

Uploads == INSTANCE UploadStatus
             WITH Owner <- Subject \cup {Anonymous},
                  primary <- primaryUploads, mirror <- mirrorUploads

ApplicationInit == Init /\ Uploads!Init

(* Variants: one upload of two is enough; whosever the uploads are; they   *)
(* need not be verified.                                                   *)
SomeUploadUsable(table, c) ==
  input[c].kind = "application" =>
    \E u \in Attached[input[c].digest] : Uploads!Usable(table, u, input[c].subject)

UploadsOfAnyone(table, c) ==
  input[c].kind = "application" =>
    \A u \in Attached[input[c].digest] : u \in table.verified \ table.expired

UploadsReserved(table, c) ==
  input[c].kind = "application" =>
    \A u \in Attached[input[c].digest] : Uploads!Available(table, u, input[c].subject)

(* require_verified_uploads: each upload named has a row that counts.  The *)
(* kind of an upload is as immutable as the payload that names it, so a    *)
(* payload that names the wrong kind is one whose uploads are never usable.*)
UploadsUsable(table, c) ==
  input[c].kind = "application" =>
    \A u \in Attached[input[c].digest] : Uploads!Usable(table, u, input[c].subject)

(* A call that failed or was dropped committed a row only past the check.  *)
CheckedCommit(c) ==
  /\ primaryRows' # primaryRows => UploadsUsable(primaryUploads, c)
  /\ mirrorRows' # mirrorRows => UploadsUsable(mirrorUploads, c)

-----------------------------------------------------------------------------
StoreApplication(c) ==
  \/ UploadsUsable(primaryUploads, c) /\ (StorePrimary(c) \/ StoreConflicts(c))
  \/ ~ UploadsUsable(primaryUploads, c) /\ UploadsUnavailable(c)

MirrorApplication(c) ==
  \/ UploadsUsable(mirrorUploads, c) /\ StoreMirror(c)
  \/ ~ UploadsUsable(mirrorUploads, c) /\ MirrorUploadsUnavailable(c)

FinishApplication(c) == RecordFailure(c) \/ MarkMirrored(c) \/ SignUrl(c)

CreateApplication(c) ==
  /\ \/ Begin(c)
     \/ StoreApplication(c)
     \/ MirrorApplication(c)
     \/ FinishApplication(c)
     \/ Misfortune(c) /\ CheckedCommit(c)
  /\ UNCHANGED uploads

UploadsChange == Uploads!Next /\ UNCHANGED vars

ApplicationNext == UploadsChange \/ \E c \in Client : CreateApplication(c)

ApplicationSpec == ApplicationInit /\ [][ApplicationNext]_allVars

-----------------------------------------------------------------------------
(* rows are of applications whose uploads table shows as verified and as   *)
(* the applicant's own.                                                    *)
Supported(rows, table) ==
  \A row \in rows :
    row.kind = "application" =>
      \A u \in Attached[row.digest] :
        u \in table.verified /\ Uploads!Owns(table, u, row.subject)

(* No database holds an application whose uploads it does not itself hold  *)
(* as verified for the same subject, for as long as it holds it, expiry    *)
(* and failed calls notwithstanding.                                       *)
ApplicationsAreSupported ==
  Supported(primaryRows, primaryUploads) /\ Supported(mirrorRows, mirrorUploads)

(* An application is never mirrored under another subject, although the    *)
(* store does not compare subjects on a replay: uploads that both          *)
(* databases verified have one owner.                                      *)
ApplicationsKeepTheirSubject ==
  \A row \in primaryRows, m \in mirrorRows :
    row.kind = "application" /\ row.id = m.id => row.subject = m.subject

-----------------------------------------------------------------------------
(* A handler past the primary's store relies on uploads the primary has    *)
(* verified for the subject of the request.                                *)
HandlersAreSupported ==
  \A c \in Client :
    pc[c] \in Calls \ {"store_primary"} => Supported({input[c]}, primaryUploads)

(* The inductive invariant: what DualPersistence and UploadStatus satisfy  *)
(* by themselves still holds of the composition, with its types.           *)
ApplicationInv ==
  /\ IInv
  /\ Uploads!StatusInv
  /\ ApplicationsAreSupported
  /\ HandlersAreSupported

(* Only time turns an application away once the primary took it: when its  *)
(* sender repeats it, the primary's check fails for nothing but an upload  *)
(* that has expired there; and the mirror's check, of rows that another    *)
(* handler verified and another subject may have reserved, for nothing but *)
(* an upload that has expired in the mirror.                               *)
TurnedAwayOnlyByExpiry ==
  \A c \in Client :
    LET attached == Attached[input[c].digest]
        retained == \E row \in primaryRows : /\ SameSlot(row, input[c])
                                            /\ row.digest = input[c].digest
                                            /\ row.subject = input[c].subject
    IN /\ pc[c] = "store_primary" /\ retained /\ ~ UploadsUsable(primaryUploads, c)
            => attached \cap primaryUploads.expired # {}
       /\ pc[c] = "store_mirror" /\ ~ UploadsUsable(mirrorUploads, c)
            => attached \cap mirrorUploads.expired # {}

-----------------------------------------------------------------------------
(* The refused branch of a retry: api.rs answers a retained submission     *)
(* "retained for retry", architecture.md says repeating the same key and   *)
(* digest is safe.  The sender of a retained application, repeating it, is *)
(* never told that it conflicts.                                           *)
RetainedApplicationsAreRetryable ==
  \A c \in Client : \A row \in primaryRows :
    /\ SameSlot(row, input[c])
    /\ row.digest = input[c].digest
    /\ row.subject = input[c].subject
    /\ \E r \in replies : r.id = row.id
    => pc[c] # "refused"
=============================================================================
