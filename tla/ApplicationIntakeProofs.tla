------------------------- MODULE ApplicationIntakeProofs -------------------------
(***************************************************************************)
(* The composition keeps what its parts guarantee: an application's create *)
(* handler is a create handler of DualPersistence, the uploads change as   *)
(* UploadStatus has it, and together they keep applications supported and  *)
(* under one subject.                                                      *)
(***************************************************************************)
EXTENDS ApplicationIntake, DualPersistenceProofs

(***************************************************************************)
(* The two upload tables: an upload the primary shows as verified is       *)
(* verified in the mirror, and a verified upload has the same owner in     *)
(* both.                                                                   *)
(***************************************************************************)
LEMMA StatusInvHolds ==
  ASSUME Uploads!StatusInv, [Uploads!Next]_(Uploads!vars)
  PROVE  Uploads!StatusInv'
<1>. USE DEF Uploads!StatusInv, Uploads!Table, Uploads!ReservedUpload, Uploads!OneRowEach,
             Uploads!VerifiedInOrder, Uploads!VerifiedForOneOwner, Uploads!Owns,
             Uploads!Reserved, Uploads!Available
<1>1. CASE UNCHANGED Uploads!vars
  BY <1>1 DEF Uploads!vars
<1>2. ASSUME NEW row \in Uploads!ReservedUpload, Uploads!ReservePrimary(row)
      PROVE  Uploads!StatusInv'
  BY <1>2 DEF Uploads!ReservePrimary, Uploads!Reserve
<1>3. ASSUME NEW row \in Uploads!ReservedUpload, Uploads!ReserveMirror(row)
      PROVE  Uploads!StatusInv'
  BY <1>3 DEF Uploads!ReserveMirror, Uploads!Reserve
<1>4. ASSUME NEW u \in Upload, NEW o \in Subject \cup {Anonymous}, Uploads!VerifyMirror(u, o)
      PROVE  Uploads!StatusInv'
  BY <1>4 DEF Uploads!VerifyMirror, Uploads!MarkVerified
<1>5. ASSUME NEW u \in Upload, NEW o \in Subject \cup {Anonymous}, Uploads!VerifyPrimary(u, o)
      PROVE  Uploads!StatusInv'
  BY <1>5 DEF Uploads!VerifyPrimary, Uploads!MarkVerified
<1>6. ASSUME NEW u \in Upload, Uploads!ExpirePrimary(u) PROVE Uploads!StatusInv'
  BY <1>6 DEF Uploads!ExpirePrimary, Uploads!Expire
<1>7. ASSUME NEW u \in Upload, Uploads!ExpireMirror(u) PROVE Uploads!StatusInv'
  BY <1>7 DEF Uploads!ExpireMirror, Uploads!Expire
<1>. QED
  BY <1>1, <1>2, <1>3, <1>4, <1>5, <1>6, <1>7 DEF Uploads!Next

(* Verified for good: no step takes back a row, its owner or its being     *)
(* verified, and only time takes back its being usable.                    *)
LEMMA TablesGrow ==
  ASSUME Uploads!StatusInv, [Uploads!Next]_(Uploads!vars)
  PROVE  /\ primaryUploads.rows \subseteq primaryUploads'.rows
         /\ mirrorUploads.rows \subseteq mirrorUploads'.rows
         /\ primaryUploads.verified \subseteq primaryUploads'.verified
         /\ mirrorUploads.verified \subseteq mirrorUploads'.verified
BY DEF Uploads!StatusInv, Uploads!Table, Uploads!Next, Uploads!vars, Uploads!ReservePrimary,
       Uploads!ReserveMirror, Uploads!VerifyMirror, Uploads!VerifyPrimary,
       Uploads!ExpirePrimary, Uploads!ExpireMirror, Uploads!Reserve, Uploads!MarkVerified,
       Uploads!Expire

-----------------------------------------------------------------------------
LEMMA IsHandlerStep ==
  ASSUME NEW c \in Client, CreateApplication(c)
  PROVE  Begin(c) \/ Handle(c) \/ Misfortune(c)
BY DEF CreateApplication, StoreApplication, MirrorApplication, FinishApplication, Handle

LEMMA NextIsDualPersistence ==
  ASSUME [ApplicationNext]_allVars
  PROVE  [Next]_vars
BY IsHandlerStep DEF ApplicationNext, allVars, UploadsChange, Next

LEMMA NextIsUploadStatus ==
  ASSUME [ApplicationNext]_allVars
  PROVE  [Uploads!Next]_(Uploads!vars)
BY DEF ApplicationNext, allVars, uploads, UploadsChange, CreateApplication, Uploads!vars

(* Whatever is proved of DualPersistence holds of applications: the check  *)
(* of their uploads only removes behaviours.                               *)
THEOREM ImplementsDualPersistence == ApplicationSpec => Spec
<1>1. ApplicationInit => Init
  BY DEF ApplicationInit
<1>. QED
  BY <1>1, NextIsDualPersistence, PTL DEF ApplicationSpec, Spec

THEOREM ImplementsUploadStatus == ApplicationSpec => Uploads!Spec
<1>1. ApplicationInit => Uploads!Init
  BY DEF ApplicationInit
<1>. QED
  BY <1>1, NextIsUploadStatus, PTL DEF ApplicationSpec, Uploads!Spec

-----------------------------------------------------------------------------
(* A handler adds at most the row its request asks for, and for an         *)
(* application only past the check of that database.                       *)
LEMMA CheckedRowsAdded ==
  ASSUME NEW c \in Client, CreateApplication(c)
  PROVE  /\ \/ primaryRows' = primaryRows
            \/ /\ primaryRows' = primaryRows \cup {RowOf(input[c], FreshId(c))}
               /\ UploadsUsable(primaryUploads, c)
         /\ \/ mirrorRows' = mirrorRows
            \/ /\ mirrorRows' = mirrorRows \cup {RowOf(input[c], storedId[c])}
               /\ UploadsUsable(mirrorUploads, c)
<1>. DEFINE PrimaryAdds == \/ primaryRows' = primaryRows
                          \/ primaryRows' = primaryRows \cup {RowOf(input[c], FreshId(c))}
            MirrorAdds == \/ mirrorRows' = mirrorRows
                         \/ mirrorRows' = mirrorRows \cup {RowOf(input[c], storedId[c])}
<1>1. CommitPrimary(input[c], FreshId(c)) => PrimaryAdds
  BY DEF CommitPrimary, InsertPrimary, primaryDb
<1>2. CommitMirror(input[c], storedId[c]) => MirrorAdds
  BY DEF CommitMirror
<1>3. CommitMirrorFailure(input[c], storedId[c]) => UNCHANGED primaryRows
  BY DEF CommitMirrorFailure, primaryDb
<1>4. CommitMarkMirrored(input[c], storedId[c]) => UNCHANGED primaryRows
  BY DEF CommitMarkMirrored, primaryDb
<1>5. CASE Begin(c) \/ FinishApplication(c)
  BY <1>3, <1>4, <1>5
     DEF FinishApplication, Begin, RecordFailure, MarkMirrored, SignUrl, primaryDb, mirrorDb
<1>6. CASE StoreApplication(c)
  BY <1>1, <1>6
     DEF StoreApplication, StorePrimary, StoreConflicts, UploadsUnavailable, primaryDb, mirrorDb
<1>7. CASE MirrorApplication(c)
  BY <1>2, <1>7 DEF MirrorApplication, StoreMirror, MirrorUploadsUnavailable, primaryDb, mirrorDb
<1>8. CASE Misfortune(c) /\ CheckedCommit(c)
  <2>1. PrimaryAdds /\ MirrorAdds
    <3>1. CASE FailPrimary(c) \/ FailMirror(c) \/ FailRecord(c) \/ FailMark(c) \/ FailSign(c)
               \/ LoseReceipt(c)
      BY <1>1, <1>2, <1>3, <1>4, <3>1
         DEF FailPrimary, FailMirror, FailRecord, FailMark, FailSign, LoseReceipt,
             MaybeCommitPrimary, MaybeCommitMirror, MaybeCommitMark, MaybeCommitFailure,
             primaryDb, mirrorDb
    <3>2. CASE Drop(c)
      BY <1>1, <1>2, <1>3, <1>4, <3>2
         DEF Drop, Calls, MaybeCommitPrimary, MaybeCommitMirror, MaybeCommitMark,
             MaybeCommitFailure, primaryDb, mirrorDb
    <3>. QED
      BY <1>8, <3>1, <3>2 DEF Misfortune
  <2>. QED
    BY <1>8, <2>1 DEF CheckedCommit
<1>. QED
  BY <1>5, <1>6, <1>7, <1>8 DEF CreateApplication

(* A row stored past the check is supported. *)
LEMMA CheckedRowIsSupported ==
  ASSUME NEW c \in Client, NEW table, NEW rows, NEW id,
         Supported(rows, table), UploadsUsable(table, c)
  PROVE  Supported(rows \cup {RowOf(input[c], id)}, table)
BY DEF Supported, UploadsUsable, RowOf, Uploads!Usable, Uploads!Available

LEMMA SupportStays ==
  ASSUME NEW rows, NEW table, NEW grown, Supported(rows, table),
         table.rows \subseteq grown.rows, table.verified \subseteq grown.verified
  PROVE  Supported(rows, grown)
BY DEF Supported, Uploads!Owns

LEMMA NextKeepsSupport ==
  ASSUME ApplicationsAreSupported, Uploads!StatusInv, [ApplicationNext]_allVars
  PROVE  ApplicationsAreSupported'
<1>. USE DEF ApplicationsAreSupported
<1>1. CASE UNCHANGED allVars
  BY <1>1 DEF allVars, vars, uploads, primaryDb, mirrorDb, Supported, Uploads!Owns
<1>2. CASE UploadsChange
  <2>1. /\ primaryUploads.rows \subseteq primaryUploads'.rows
        /\ mirrorUploads.rows \subseteq mirrorUploads'.rows
        /\ primaryUploads.verified \subseteq primaryUploads'.verified
        /\ mirrorUploads.verified \subseteq mirrorUploads'.verified
    BY <1>2, TablesGrow DEF UploadsChange
  <2>. QED
    BY <1>2, <2>1, SupportStays DEF UploadsChange, vars, primaryDb, mirrorDb
<1>3. ASSUME NEW c \in Client, CreateApplication(c) PROVE ApplicationsAreSupported'
  <2>1. Supported(primaryRows', primaryUploads) /\ Supported(mirrorRows', mirrorUploads)
    BY <1>3, CheckedRowsAdded, CheckedRowIsSupported
  <2>. QED
    BY <1>3, <2>1 DEF CreateApplication, uploads, Supported, Uploads!Owns
<1>. QED
  BY <1>1, <1>2, <1>3 DEF ApplicationNext

(* A handler passes the primary's store only past the primary's check.     *)
LEMMA HandlerPastTheCheck ==
  ASSUME IInv, NEW c \in Client, CreateApplication(c),
         pc'[c] \in Calls \ {"store_primary"}
  PROVE  pc[c] \in Calls \ {"store_primary"} \/ UploadsUsable(primaryUploads, c)
<1>. USE DEF Goto, Calls, IInv, TypeOK
<1>1. CASE StoreApplication(c)
  BY <1>1 DEF StoreApplication, UploadsUnavailable
<1>2. CASE Begin(c)
  BY <1>2 DEF Begin
<1>3. CASE MirrorApplication(c) \/ FinishApplication(c)
  BY <1>3 DEF MirrorApplication, FinishApplication, StoreMirror, MirrorUploadsUnavailable,
     RecordFailure, MarkMirrored, SignUrl
<1>4. CASE Misfortune(c)
  BY <1>4 DEF Misfortune, FailPrimary, FailMirror, FailRecord, FailMark, FailSign, Drop, LoseReceipt
<1>. QED
  BY <1>1, <1>2, <1>3, <1>4 DEF CreateApplication

LEMMA NextKeepsHandlersSupported ==
  ASSUME IInv, HandlersAreSupported, Uploads!StatusInv, [ApplicationNext]_allVars
  PROVE  HandlersAreSupported'
<1>1. CASE UNCHANGED allVars
  BY <1>1 DEF allVars, vars, control, uploads, HandlersAreSupported, Supported, Uploads!Owns
<1>2. CASE UploadsChange
  <2>1. /\ primaryUploads.rows \subseteq primaryUploads'.rows
        /\ primaryUploads.verified \subseteq primaryUploads'.verified
    BY <1>2, TablesGrow DEF UploadsChange
  <2>2. UNCHANGED <<pc, input>>
    BY <1>2 DEF UploadsChange, vars, control
  <2>. QED
    BY <2>1, <2>2, SupportStays DEF HandlersAreSupported
<1>3. ASSUME NEW c \in Client, CreateApplication(c) PROVE HandlersAreSupported'
  <2>1. /\ UNCHANGED <<primaryUploads, input>>
        /\ \A d \in Client : d # c => pc'[d] = pc[d]
    <3>1. CASE Begin(c)
      BY <1>3, <3>1 DEF CreateApplication, Begin, Goto, uploads, IInv, TypeOK
    <3>2. CASE Handle(c) \/ Misfortune(c)
      BY <1>3, <3>2, HandlerMoves DEF CreateApplication, uploads
    <3>. QED
      BY <1>3, <3>1, <3>2, IsHandlerStep
  <2>2. UploadsUsable(primaryUploads, c) => Supported({input[c]}, primaryUploads)
    BY DEF UploadsUsable, Supported, Uploads!Usable, Uploads!Available
  <2>3. ASSUME NEW d \in Client, pc'[d] \in Calls \ {"store_primary"}
        PROVE  Supported({input[d]}, primaryUploads)
    <3>1. CASE d = c
      BY <1>3, <2>2, <2>3, <3>1, HandlerPastTheCheck DEF HandlersAreSupported
    <3>2. CASE d # c
      BY <2>1, <2>3, <3>2 DEF HandlersAreSupported
    <3>. QED
      BY <3>1, <3>2
  <2>. QED
    BY <2>1, <2>3 DEF HandlersAreSupported, Supported, Uploads!Owns
<1>. QED
  BY <1>1, <1>2, <1>3 DEF ApplicationNext

-----------------------------------------------------------------------------
(* What UploadStatus promises of the two upload tables holds of the        *)
(* composition.                                                            *)
THEOREM UploadTablesInAccord == ApplicationSpec => []Uploads!StatusInv
<1>1. Uploads!Spec => []Uploads!StatusInv
  <2>1. Uploads!Init => Uploads!StatusInv
    BY DEF Uploads!Init, Uploads!StatusInv, Uploads!EmptyTable, Uploads!Table,
           Uploads!OneRowEach, Uploads!VerifiedInOrder, Uploads!VerifiedForOneOwner
  <2>. QED
    BY <2>1, StatusInvHolds, PTL DEF Uploads!Spec
<1>. QED
  BY <1>1, ImplementsUploadStatus, PTL

(* An application either database holds is backed by uploads the same      *)
(* database holds as verified for the same subject.                        *)
THEOREM ApplicationsSupported == ApplicationSpec => []ApplicationsAreSupported
<1>1. ApplicationInit => ApplicationsAreSupported
  BY DEF ApplicationInit, Init, EmptyDatabases, ApplicationsAreSupported, Supported
<1>. QED
  BY <1>1, NextKeepsSupport, UploadTablesInAccord, PTL DEF ApplicationSpec

(* A create handler of api.rs goes on past the primary's store with        *)
(* uploads that stay verified, for the subject of its request, however     *)
(* long it then waits.                                                     *)
THEOREM HandlersSupported == ApplicationSpec => []HandlersAreSupported
<1>1. ApplicationInit => HandlersAreSupported
  BY DEF ApplicationInit, Init, HandlersAreSupported, Calls
<1>. QED
  BY <1>1, NextKeepsHandlersSupported, ImplementsDualPersistence, InductiveInvariant,
     UploadTablesInAccord, PTL DEF ApplicationSpec

(* The parts of the invariant that the model checker evaluates.            *)
THEOREM Invariant == ApplicationSpec => []ApplicationInv
BY ImplementsDualPersistence, InductiveInvariant, UploadTablesInAccord,
   ApplicationsSupported, HandlersSupported, PTL DEF ApplicationInv

(* Why the subject of an application cannot change between the databases:  *)
(* the payload names an upload, and it has one owner.                      *)
LEMMA ApplicationInvGivesOneSubject ==
  ASSUME ApplicationInv
  PROVE  ApplicationsKeepTheirSubject
<1>. SUFFICES ASSUME NEW row \in primaryRows, NEW m \in mirrorRows,
                     row.kind = "application", row.id = m.id
              PROVE  row.subject = m.subject
  BY DEF ApplicationsKeepTheirSubject
<1>1. row \in Row /\ m \in Row
  BY DEF ApplicationInv, IInv, TypeOK, DatabaseTypeOK
<1>2. m.kind = "application" /\ m.digest = row.digest
  <2>1. PICK q \in primaryRows : q.kind = m.kind /\ q.digest = m.digest /\ q.id = m.id
    BY DEF ApplicationInv, IInv, DatabaseInv, MirrorFollowsPrimary, Stored, SameSlot
  <2>2. q = row
    BY <2>1 DEF ApplicationInv, IInv, DatabaseInv, IdsAreUnique
  <2>. QED
    BY <2>1, <2>2
<1>3. PICK u : u \in Attached[row.digest]
  BY <1>1, AttachedAssumption DEF Row
<1>4. /\ Uploads!Owns(primaryUploads, u, row.subject)
      /\ u \in mirrorUploads.verified /\ Uploads!Owns(mirrorUploads, u, m.subject)
  BY <1>2, <1>3 DEF ApplicationInv, ApplicationsAreSupported, Supported
<1>5. PICK o : Uploads!Owns(primaryUploads, u, o) /\ Uploads!Owns(mirrorUploads, u, o)
  BY <1>4 DEF ApplicationInv, Uploads!StatusInv, Uploads!VerifiedForOneOwner
<1>6. row.subject = o /\ m.subject = o
  BY <1>4, <1>5 DEF ApplicationInv, Uploads!StatusInv, Uploads!OneRowEach, Uploads!Owns
<1>. QED
  BY <1>6

(* An application is held under one subject in both databases.             *)
THEOREM OneSubject == ApplicationSpec => []ApplicationsKeepTheirSubject
BY Invariant, ApplicationInvGivesOneSubject, PTL

-----------------------------------------------------------------------------
(* What the primary supports fails a check only by an expiry.              *)
LEMMA SupportedUnlessExpired ==
  ASSUME NEW table, NEW c \in Client, Supported({input[c]}, table),
         ~ UploadsUsable(table, c)
  PROVE  Attached[input[c].digest] \cap table.expired # {}
BY DEF Supported, UploadsUsable, Uploads!Usable, Uploads!Available

(* An upload the primary has verified for a subject is verified in the     *)
(* mirror for the same subject.                                            *)
LEMMA MirrorSupports ==
  ASSUME Uploads!StatusInv, NEW x, Supported({x}, primaryUploads)
  PROVE  Supported({x}, mirrorUploads)
<1>. SUFFICES ASSUME x.kind = "application", NEW u \in Attached[x.digest]
              PROVE  u \in mirrorUploads.verified /\ Uploads!Owns(mirrorUploads, u, x.subject)
  BY DEF Supported
<1>1. u \in mirrorUploads.verified /\ Uploads!Owns(primaryUploads, u, x.subject)
  BY DEF Supported, Uploads!StatusInv, Uploads!VerifiedInOrder
<1>2. PICK o : Uploads!Owns(primaryUploads, u, o) /\ Uploads!Owns(mirrorUploads, u, o)
  BY <1>1 DEF Uploads!StatusInv, Uploads!VerifiedForOneOwner
<1>3. o = x.subject
  BY <1>1, <1>2 DEF Uploads!StatusInv, Uploads!OneRowEach, Uploads!Owns
<1>. QED
  BY <1>1, <1>2, <1>3

(* require_verified_uploads of persistence.rs turns away an application    *)
(* the primary has already taken, whether its sender repeats it or its     *)
(* handler has come to the mirror, only if an upload has expired in the    *)
(* database that is asked.                                                 *)
THEOREM OnlyExpiryTurnsAway == ApplicationSpec => []TurnedAwayOnlyByExpiry
<1>1. ASSUME ApplicationInv PROVE TurnedAwayOnlyByExpiry
  <2>1. ASSUME NEW c \in Client, NEW row \in primaryRows, SameSlot(row, input[c]),
               row.digest = input[c].digest, row.subject = input[c].subject,
               ~ UploadsUsable(primaryUploads, c)
        PROVE  Attached[input[c].digest] \cap primaryUploads.expired # {}
    <3>1. Supported({input[c]}, primaryUploads)
      BY <1>1, <2>1 DEF ApplicationInv, ApplicationsAreSupported, Supported, SameSlot
    <3>. QED
      BY <2>1, <3>1, SupportedUnlessExpired
  <2>2. ASSUME NEW c \in Client, pc[c] = "store_mirror", ~ UploadsUsable(mirrorUploads, c)
        PROVE  Attached[input[c].digest] \cap mirrorUploads.expired # {}
    <3>1. Supported({input[c]}, primaryUploads)
      BY <1>1, <2>2 DEF ApplicationInv, HandlersAreSupported, Calls
    <3>2. Supported({input[c]}, mirrorUploads)
      BY <1>1, <3>1, MirrorSupports DEF ApplicationInv
    <3>. QED
      BY <2>2, <3>2, SupportedUnlessExpired
  <2>. QED
    BY <2>1, <2>2 DEF TurnedAwayOnlyByExpiry
<1>. QED
  BY <1>1, Invariant, PTL
=============================================================================
