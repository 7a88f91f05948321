------------------------------ MODULE UploadStatus ------------------------------
(***************************************************************************)
(* What complete_upload promises of the two upload tables, without         *)
(* requests, objects or failures: an upload reserved in the primary, and   *)
(* later in the mirror, is verified in the mirror first and in the primary *)
(* after, both times for one and the same owner.  The owner of the mirror  *)
(* row may be another, for the retry that wrote it may have been sent by   *)
(* another subject.  Either database may find the upload expired, by its   *)
(* own clock, at any time.                                                 *)
(***************************************************************************)
EXTENDS UploadTable

VARIABLES primary, mirror

vars == <<primary, mirror>>

Init == primary = EmptyTable /\ mirror = EmptyTable

ReservePrimary(row) ==
  /\ ~ Reserved(primary, row.upload)
  /\ primary' = Reserve(primary, row)
  /\ UNCHANGED mirror

ReserveMirror(row) ==
  /\ \E p \in primary.rows : p.upload = row.upload /\ p.file = row.file
  /\ ~ Reserved(mirror, row.upload)
  /\ mirror' = Reserve(mirror, row)
  /\ UNCHANGED primary

VerifyMirror(u, o) ==
  /\ Owns(primary, u, o)
  /\ Available(mirror, u, o)
  /\ mirror' = MarkVerified(mirror, u)
  /\ UNCHANGED primary

VerifyPrimary(u, o) ==
  /\ Available(primary, u, o)
  /\ Owns(mirror, u, o)
  /\ u \in mirror.verified
  /\ primary' = MarkVerified(primary, u)
  /\ UNCHANGED mirror

ExpirePrimary(u) ==
  /\ Reserved(primary, u)
  /\ primary' = Expire(primary, u)
  /\ UNCHANGED mirror

ExpireMirror(u) ==
  /\ Reserved(mirror, u)
  /\ mirror' = Expire(mirror, u)
  /\ UNCHANGED primary

Next ==
  \/ \E row \in ReservedUpload : ReservePrimary(row) \/ ReserveMirror(row)
  \/ \E u \in Upload, o \in Owner : VerifyMirror(u, o) \/ VerifyPrimary(u, o)
  \/ \E u \in Upload : ExpirePrimary(u) \/ ExpireMirror(u)

Spec == Init /\ [][Next]_vars

-----------------------------------------------------------------------------
(* An upload has at most one row in a table. *)
OneRowEach(table) == \A r, q \in table.rows : r.upload = q.upload => r = q

(* An upload the primary shows as verified is verified in the mirror, and  *)
(* what a database shows as verified has one and the same owner in both.   *)
VerifiedInOrder == primary.verified \subseteq mirror.verified

VerifiedForOneOwner ==
  \A u \in mirror.verified :
    \E o \in Owner : Owns(primary, u, o) /\ Owns(mirror, u, o)

StatusInv ==
  /\ primary \in Table /\ mirror \in Table
  /\ OneRowEach(primary) /\ OneRowEach(mirror)
  /\ VerifiedInOrder
  /\ VerifiedForOneOwner
=============================================================================
