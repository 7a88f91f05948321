------------------------------ MODULE UploadTable ------------------------------
(***************************************************************************)
(* hhm_intake_uploads, as one of the two databases holds it: the rows that *)
(* were reserved, the uploads marked verified, and those whose expires_at  *)
(* the database's own transaction_timestamp() has passed.  The operators   *)
(* are the statements of persistence.rs, each one transaction.             *)
(***************************************************************************)
CONSTANTS
  Upload,      \* ids of reserved uploads
  Owner,       \* applicant_subject: a verified subject or NULL
  File         \* what a row declares: SHA-256, MIME type, size

ReservedUpload == [upload : Upload, owner : Owner, file : File]

Table == [rows : SUBSET ReservedUpload, verified : SUBSET Upload, expired : SUBSET Upload]

EmptyTable == [rows |-> {}, verified |-> {}, expired |-> {}]

Owns(table, u, o) == \E row \in table.rows : row.upload = u /\ row.owner = o

Reserved(table, u) == \E row \in table.rows : row.upload = u

(* Each row's id is unique: a replay reserves nothing. *)
Reserve(table, row) == [table EXCEPT !.rows = @ \cup {row}]

(* The WHERE clause of pending_upload, which pending and verified uploads  *)
(* satisfy alike, and that of verify_upload but for the digest.            *)
Available(table, u, o) == Owns(table, u, o) /\ u \notin table.expired

MarkVerified(table, u) == [table EXCEPT !.verified = @ \cup {u}]

Expire(table, u) == [table EXCEPT !.expired = @ \cup {u}]

(* A row require_verified_uploads counts. *)
Usable(table, u, o) == Available(table, u, o) /\ u \in table.verified
=============================================================================
