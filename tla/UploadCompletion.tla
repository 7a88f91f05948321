---------------------------- MODULE UploadCompletion ----------------------------
(***************************************************************************)
(* complete_upload of api.rs: clients report, as often as they like and    *)
(* concurrently, that the object of an upload is in Supabase Storage.  A   *)
(* handler awaits                                                          *)
(*                                                                         *)
(*   read_primary -> read_mirror -> verify_object                          *)
(*                                     -> verify_mirror -> verify_primary  *)
(*                                                                         *)
(* and answers 409 when a row is missing, expired, of another subject or   *)
(* of another file, or when the object does not match.  It may fail or be  *)
(* dropped at each await; the tables and the object change under it while  *)
(* it waits.                                                               *)
(***************************************************************************)
EXTENDS UploadTable, Naturals

CONSTANTS
  Client,      \* senders of completion requests
  Sha,         \* digests a client can claim
  ShaOf,       \* the SHA-256 a file declares
  WithinLimit, \* the files of at most MAX_UPLOAD_BYTES
  NoFile,      \* an object that was never uploaded
  MaxFaults    \* bound: failed calls and dropped handlers

ASSUME ShaAssumption == ShaOf \in [File -> Sha]
ASSUME WithinLimitAssumption == WithinLimit \subseteq File
ASSUME NoFileAssumption == NoFile \notin File
ASSUME FaultsAssumption == MaxFaults \in Nat

VARIABLES
  primary, mirror,   \* the upload tables of the two databases
  object,            \* what Storage holds under each upload's object key
  pc,                \* the await a client's request is at
  request,           \* the completion request a client sends, again and again
  completed,         \* uploads and subjects answered 200
  faults             \* failures so far

tables == <<primary, mirror>>
vars == <<tables, object, pc, request, completed, faults>>

Calls == {"read_primary", "read_mirror", "verify_object", "verify_mirror", "verify_primary"}

Request == [upload : Upload, owner : Owner, sha : Sha]

Init ==
  /\ primary = EmptyTable
  /\ mirror = EmptyTable
  /\ object = [u \in Upload |-> NoFile]
  /\ pc = [c \in Client |-> "idle"]
  /\ request \in [Client -> Request]
  /\ completed = {}
  /\ faults = 0

Goto(c, from, to) == pc[c] = from /\ pc' = [pc EXCEPT ![c] = to]

Fault == faults < MaxFaults /\ faults' = faults + 1

(* Variant: the rows of the upload, whosever they are. *)
RowsOfAnyone(table, c) == {row \in table.rows : row.upload = request[c].upload}

(* The rows of a table that a client's request is about. *)
RowsFor(table, c) ==
  {row \in table.rows : row.upload = request[c].upload /\ row.owner = request[c].owner}

AvailableTo(table, c) == RowsFor(table, c) # {} /\ request[c].upload \notin table.expired

Declares(table, c, sha) == \E row \in RowsFor(table, c) : ShaOf[row.file] = sha

-----------------------------------------------------------------------------
(* create_upload_intent, as DualPersistence has it: the mirror's row comes *)
(* after the primary's and declares the same file, but records the subject *)
(* of the request that wrote it.                                           *)
ReservePrimary(row) ==
  /\ ~ Reserved(primary, row.upload)
  /\ primary' = Reserve(primary, row)
  /\ UNCHANGED <<mirror, object, pc, request, completed, faults>>

ReserveMirror(row) ==
  /\ \E p \in primary.rows : p.upload = row.upload /\ p.file = row.file
  /\ ~ Reserved(mirror, row.upload)
  /\ mirror' = Reserve(mirror, row)
  /\ UNCHANGED <<primary, object, pc, request, completed, faults>>

(* A client uses the signed URL it gets once both rows are there.  The URL *)
(* is signed without upsert: Storage takes an object once.                 *)
PutObject(u, file) ==
  /\ Reserved(primary, u) /\ Reserved(mirror, u)
  /\ object[u] = NoFile
  /\ object' = [object EXCEPT ![u] = file]
  /\ UNCHANGED <<tables, pc, request, completed, faults>>

(* expires_at passes, for each database on its own clock. *)
ExpirePrimary(u) ==
  /\ Reserved(primary, u)
  /\ primary' = Expire(primary, u)
  /\ UNCHANGED <<mirror, object, pc, request, completed, faults>>

ExpireMirror(u) ==
  /\ Reserved(mirror, u)
  /\ mirror' = Expire(mirror, u)
  /\ UNCHANGED <<primary, object, pc, request, completed, faults>>

Environment ==
  \/ \E row \in ReservedUpload : ReservePrimary(row) \/ ReserveMirror(row)
  \/ \E u \in Upload, file \in File : PutObject(u, file)
  \/ \E u \in Upload : ExpirePrimary(u) \/ ExpireMirror(u)

-----------------------------------------------------------------------------
Begin(c) ==
  /\ Goto(c, "idle", "read_primary")
  /\ UNCHANGED <<tables, object, request, completed, faults>>

(* pending_upload on the primary, and the digest the client claims.  What  *)
(* the handler keeps of the row never changes.                             *)
ReadPrimary(c) ==
  /\ Goto(c, "read_primary",
          IF AvailableTo(primary, c) /\ Declares(primary, c, request[c].sha)
            THEN "read_mirror" ELSE "idle")
  /\ UNCHANGED <<tables, object, request, completed, faults>>

(* pending_upload on the mirror, and same_upload_identity of the two rows. *)
ReadMirror(c) ==
  LET same == \A p \in RowsFor(primary, c), m \in RowsFor(mirror, c) : p.file = m.file
  IN /\ Goto(c, "read_mirror",
             IF AvailableTo(mirror, c) /\ same THEN "verify_object" ELSE "idle")
     /\ UNCHANGED <<tables, object, request, completed, faults>>

(* The object streams through the verifier: type, size and digest.         *)
VerifyObject(c) ==
  /\ Goto(c, "verify_object",
          IF \E row \in RowsFor(primary, c) :
               row.file \in WithinLimit /\ object[request[c].upload] = row.file
            THEN "verify_mirror" ELSE "idle")
  /\ UNCHANGED <<tables, object, request, completed, faults>>

(* Variant: an upload is verified in a database only once. *)
CanVerifyOnce(table, c) ==
  /\ AvailableTo(table, c) /\ Declares(table, c, request[c].sha)
  /\ request[c].upload \notin table.verified

(* verify_upload: the row as it is now, not as it was read. *)
CanVerify(table, c) == AvailableTo(table, c) /\ Declares(table, c, request[c].sha)

CommitVerified(table, c) ==
  IF CanVerify(table, c) THEN MarkVerified(table, request[c].upload) ELSE table

(* Variant: rows_affected() of the mirror's UPDATE is not looked at. *)
VerifyMirrorUnchecked(c) ==
  /\ Goto(c, "verify_mirror", "verify_primary")
  /\ mirror' = CommitVerified(mirror, c)
  /\ UNCHANGED <<primary, object, request, completed, faults>>

VerifyMirror(c) ==
  /\ Goto(c, "verify_mirror", IF CanVerify(mirror, c) THEN "verify_primary" ELSE "idle")
  /\ mirror' = CommitVerified(mirror, c)
  /\ UNCHANGED <<primary, object, request, completed, faults>>

VerifyPrimary(c) ==
  /\ Goto(c, "verify_primary", IF CanVerify(primary, c) THEN "completed" ELSE "idle")
  /\ primary' = CommitVerified(primary, c)
  /\ completed' = IF CanVerify(primary, c)
                    THEN completed \cup {<<request[c].upload, request[c].owner>>}
                    ELSE completed
  /\ UNCHANGED <<mirror, object, request, faults>>

(* The call fails, or the handler is dropped while it awaits the call; a   *)
(* verify_upload may have committed all the same.                          *)
Fail(c) ==
  /\ Fault
  /\ pc[c] \in Calls
  /\ pc' = [pc EXCEPT ![c] = "idle"]
  /\ mirror' \in {mirror} \cup
       IF pc[c] = "verify_mirror" THEN {CommitVerified(mirror, c)} ELSE {}
  /\ primary' \in {primary} \cup
       IF pc[c] = "verify_primary" THEN {CommitVerified(primary, c)} ELSE {}
  /\ UNCHANGED <<object, request, completed>>

-----------------------------------------------------------------------------
Handle(c) ==
  ReadPrimary(c) \/ ReadMirror(c) \/ VerifyObject(c) \/ VerifyMirror(c) \/ VerifyPrimary(c)

Next == Environment \/ \E c \in Client : Begin(c) \/ Handle(c) \/ Fail(c)

Spec == Init /\ [][Next]_vars

(* A client not yet answered 200 asks again, and a call that is not failed *)
(* or dropped returns.  Nothing is asked of the environment.               *)
Fairness == \A c \in Client : WF_vars(Begin(c)) /\ WF_vars(Handle(c))

FairSpec == Spec /\ Fairness

-----------------------------------------------------------------------------
(* The tables, the objects and the handlers keep their types. *)
TypeOK ==
  /\ primary \in Table /\ mirror \in Table
  /\ object \in [Upload -> File \cup {NoFile}]
  /\ pc \in [Client -> Calls \cup {"idle", "completed"}]
  /\ request \in [Client -> Request]
  /\ completed \subseteq Upload \X Owner
  /\ faults \in 0 .. MaxFaults

(* No database shows an upload as verified unless the object in Storage is *)
(* the declared file, whichever handlers raced or died on the way.         *)
VerifiedObjectsMatch ==
  \A row \in primary.rows \cup mirror.rows :
    row.upload \in primary.verified \cup mirror.verified => object[row.upload] = row.file

(* An upload the primary shows as verified is verified in the mirror, and  *)
(* both show it as the same subject's: an application accepted on the      *)
(* strength of the one cannot be refused by the other for want of it.      *)
VerifiedTogether ==
  \A u \in primary.verified :
    /\ u \in mirror.verified
    /\ \A o \in Owner : Owns(primary, u, o) <=> Owns(mirror, u, o)

(* A 200 was only given for an upload of that subject which both databases *)
(* hold as verified.                                                       *)
CompletionIsTrue ==
  \A done \in completed :
    \A table \in {primary, mirror} :
      done[1] \in table.verified /\ Owns(table, done[1], done[2])

(* An upload whose rows are a client's own, whose object is in place and   *)
(* not too large, and which the client reports truthfully.                 *)
Completable(c) ==
  LET r == request[c]
  IN /\ Available(primary, r.upload, r.owner)
     /\ Available(mirror, r.upload, r.owner)
     /\ \E row \in RowsFor(primary, c) :
          row.file \in WithinLimit /\ object[r.upload] = row.file /\ ShaOf[row.file] = r.sha

Expired(u) == u \in primary.expired \cup mirror.expired

(* Such an upload is eventually acknowledged, unless it expires first: a   *)
(* handler that died between the two updates leaves nothing a retry cannot *)
(* repair.                                                                 *)
CompletionSucceeds ==
  \A c \in Client :
    Completable(c) ~> (pc[c] = "completed" \/ Expired(request[c].upload))

-----------------------------------------------------------------------------
(* The inductive invariant: rows are unique and agree on the file, and a   *)
(* handler past a check can rely, at each await, on what cannot change.    *)
OneRowEach(table) == \A r, q \in table.rows : r.upload = q.upload => r = q

TablesInv ==
  /\ OneRowEach(primary) /\ OneRowEach(mirror)
  /\ \A m \in mirror.rows : \E p \in primary.rows : p.upload = m.upload /\ p.file = m.file
  /\ \A u \in primary.verified : Reserved(primary, u)
  /\ \A u \in mirror.verified : Reserved(mirror, u)

Known(c) ==
  LET u == request[c].upload
      o == request[c].owner
  IN /\ pc[c] \in Calls \ {"read_primary"} =>
          Owns(primary, u, o) /\ Declares(primary, c, request[c].sha)
     /\ pc[c] \in {"verify_object", "verify_mirror", "verify_primary"} => Owns(mirror, u, o)
     /\ pc[c] \in {"verify_mirror", "verify_primary"} =>
          \E row \in RowsFor(primary, c) : object[u] = row.file
     /\ pc[c] = "verify_primary" => u \in mirror.verified

IInv ==
  /\ TypeOK
  /\ TablesInv
  /\ \A c \in Client : Known(c)
  /\ VerifiedObjectsMatch
  /\ VerifiedTogether
  /\ CompletionIsTrue

(* Once the object was compared, only time ends a completion early: each   *)
(* UPDATE looks at its row again, and finds nothing changed but an expiry. *)
RefusedOnlyByExpiry ==
  \A c \in Client :
    LET u == request[c].upload
    IN /\ pc[c] = "verify_mirror" /\ ~ CanVerify(mirror, c) => u \in mirror.expired
       /\ pc[c] = "verify_primary" /\ ~ CanVerify(primary, c) => u \in primary.expired

-----------------------------------------------------------------------------
(* The handlers change the two tables only as UploadStatus has it. *)
Status == INSTANCE UploadStatus

ImplementsUploadStatus == Status!Spec
=============================================================================
