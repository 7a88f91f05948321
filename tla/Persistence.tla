----------------------------- MODULE Persistence -----------------------------
(***************************************************************************)
(* The two intake databases as WriteContext (persistence.rs) uses them:    *)
(* the primary PostgreSQL with its outbox, and the Supabase mirror.  Each  *)
(* method is one READ COMMITTED transaction that a unique index or a row   *)
(* lock serialises with every transaction it conflicts with, so it is one  *)
(* step that takes effect at its commit.  A transaction that returns an    *)
(* error has changed nothing.                                              *)
(***************************************************************************)
EXTENDS Outbox, FiniteSets

CONSTANTS
  Client,      \* senders of requests
  MaxTries,    \* bound: requests one client sends for its submission
  Kind,        \* the kinds of submission, each with a table of its own
  Key,         \* idempotency keys
  Digest,      \* payload digests (payload_sha256)
  Subject,     \* verified Shared Auth subjects
  Anonymous    \* the NULL applicant_subject of a public request

ASSUME TriesAssumption == MaxTries \in Nat \ {0}
ASSUME KindAssumption == Kind \subseteq {"pre_interest", "upload", "application", "referral"}
ASSUME AnonymousAssumption == Anonymous \notin Subject

(* Uuid::new_v4 in SubmissionContext::new: the n-th request of a client    *)
(* draws an id no other request draws.                                     *)
Id == Client \X (1 .. MaxTries)

(* What a request asks to persist.  A referral needs a verified subject.   *)
Submission ==
  {s \in [kind : Kind, key : Key, digest : Digest, subject : Subject \cup {Anonymous}] :
     s.kind = "referral" => s.subject \in Subject}

Row == [kind : Kind, key : Key, digest : Digest,
        subject : Subject \cup {Anonymous}, id : Id]

VARIABLES
  primaryRows,   \* canonical rows of the primary's four submission tables
  rowStatus,     \* their mirror_status, by id
  outboxRows,    \* keys of hhm_submission_outbox: kind, id and digest
  outbox,        \* the mutable part of those rows, by id
  mirrorRows     \* rows of the mirror's four submission tables

primaryDb == <<primaryRows, rowStatus, outboxRows, outbox>>
mirrorDb == <<mirrorRows>>

DatabaseTypeOK ==
  /\ primaryRows \subseteq Row
  /\ rowStatus \in [Id -> RowStatus]
  /\ outboxRows \subseteq [kind : Kind, id : Id, digest : Digest]
  /\ outbox \in [Id -> Entry]
  /\ mirrorRows \subseteq Row

EmptyDatabases ==
  /\ primaryRows = {}
  /\ rowStatus = [id \in Id |-> "pending"]
  /\ outboxRows = {}
  /\ outbox = [id \in Id |-> NewEntry]
  /\ mirrorRows = {}

RowOf(x, id) == [kind |-> x.kind, key |-> x.key, digest |-> x.digest,
                 subject |-> x.subject, id |-> id]

OutboxRowOf(row) == [kind |-> row.kind, id |-> row.id, digest |-> row.digest]

SameSlot(row, x) == row.kind = x.kind /\ row.key = x.key

(* rows hold what x asks for, under id. *)
Stored(rows, x, id) == \E row \in rows : SameSlot(row, x) /\ row.digest = x.digest /\ row.id = id

(* ON CONFLICT (idempotency_key): the rows that keep x from being inserted. *)
Holding(rows, x) == {row \in rows : SameSlot(row, x)}

(* insert_or_replay inserts; otherwise the row in place is replayed if its  *)
(* digest is the same, and a conflict if it is not.                        *)
Insertable(rows, x) == Holding(rows, x) = {}

(* Variants: every second request conflicts; none does. *)
ConflictsOnReplay(rows, x) == Holding(rows, x) # {}
NeverConflicts(rows, x) == FALSE

Conflicting(rows, x) == \E row \in Holding(rows, x) : row.digest # x.digest

(* Variant: the request's own id, although another row is in place. *)
StoredUnderContextId(rows, x, id) == id

(* The id the store returns: the fresh one, or that of the row in place. *)
StoredId(rows, x, id) ==
  IF Insertable(rows, x) THEN id ELSE (CHOOSE row \in Holding(rows, x) : TRUE).id

(***************************************************************************)
(* store_pre_interest, store_upload_intent, store_application and          *)
(* store_referral on the primary: canonical row and outbox row in one      *)
(* transaction; a replay or a conflict writes nothing.                     *)
(***************************************************************************)
InsertPrimary(row) ==
  /\ primaryRows' = primaryRows \cup {row}
  /\ outboxRows' = outboxRows \cup {OutboxRowOf(row)}
  /\ rowStatus' = [rowStatus EXCEPT ![row.id] = "pending"]
  /\ outbox' = [outbox EXCEPT ![row.id] = NewEntry]

(* Variants: an outbox entry for a replay too; the entry in place set back *)
(* to its defaults on a replay; ON CONFLICT DO UPDATE.                     *)
CommitWithOutboxOnReplay(x, id) ==
  IF Insertable(primaryRows, x)
    THEN InsertPrimary(RowOf(x, id))
    ELSE /\ outboxRows' = outboxRows \cup {OutboxRowOf(RowOf(x, id))}
         /\ UNCHANGED <<primaryRows, rowStatus, outbox>>

CommitWithEntryReset(x, id) ==
  IF Insertable(primaryRows, x)
    THEN InsertPrimary(RowOf(x, id))
    ELSE /\ rowStatus' = [rowStatus EXCEPT ![StoredId(primaryRows, x, id)] = "pending"]
         /\ outbox' = [outbox EXCEPT ![StoredId(primaryRows, x, id)] = NewEntry]
         /\ UNCHANGED <<primaryRows, outboxRows>>

CommitWithDoUpdate(x, id) ==
  IF Insertable(primaryRows, x)
    THEN InsertPrimary(RowOf(x, id))
    ELSE /\ primaryRows' = {RowOf(x, row.id) : row \in Holding(primaryRows, x)}
                             \cup (primaryRows \ Holding(primaryRows, x))
         /\ UNCHANGED <<rowStatus, outboxRows, outbox>>

CommitPrimary(x, id) ==
  IF Insertable(primaryRows, x)
    THEN InsertPrimary(RowOf(x, id))
    ELSE UNCHANGED primaryDb

(* The same on the mirror, which has no outbox. *)
CommitMirror(x, id) ==
  mirrorRows' = IF Insertable(mirrorRows, x)
                  THEN mirrorRows \cup {RowOf(x, id)}
                  ELSE mirrorRows

HasStatusColumn(x) == x.kind # "upload"

(* Variant: only an entry no failure was recorded for is acknowledged. *)
CanMarkPending(x, id) ==
  /\ [kind |-> x.kind, id |-> id, digest |-> x.digest] \in outboxRows
  /\ outbox[id].status = "pending"

(* Rows the two UPDATEs of mark_mirrored find; each must find exactly one. *)
CanMarkMirrored(x, id) ==
  /\ HasStatusColumn(x) =>
       \E row \in primaryRows : row.kind = x.kind /\ row.id = id /\ row.digest = x.digest
  /\ [kind |-> x.kind, id |-> id, digest |-> x.digest] \in outboxRows

SetRowStatus(x, id, status) ==
  rowStatus' = IF HasStatusColumn(x) THEN [rowStatus EXCEPT ![id] = status] ELSE rowStatus

(* Variant: the canonical row only, its outbox entry forgotten. *)
MarkRowOnly(x, id) ==
  IF CanMarkMirrored(x, id)
    THEN SetRowStatus(x, id, "mirrored") /\ UNCHANGED <<primaryRows, outboxRows, outbox>>
    ELSE UNCHANGED primaryDb

CommitMarkMirrored(x, id) ==
  IF CanMarkMirrored(x, id)
    THEN /\ outbox' = [outbox EXCEPT ![id] = Delivered(@)]
         /\ SetRowStatus(x, id, "mirrored")
         /\ UNCHANGED <<primaryRows, outboxRows>>
    ELSE UNCHANGED primaryDb

(* record_mirror_failure matches on kind and id only, and looks at neither *)
(* status; it rolls back when the attempts are used up.                    *)
CanRecordFailure(x, id) ==
  /\ HasStatusColumn(x) => \E row \in primaryRows : row.kind = x.kind /\ row.id = id
  /\ \E row \in outboxRows : row.kind = x.kind /\ row.id = id
  /\ CanFail(outbox[id])

(* Variant: two statements instead of one transaction, so that the row's   *)
(* status changes although the outbox entry is used up.                    *)
RecordWithoutRollback(x, id) ==
  /\ outbox' = IF CanRecordFailure(x, id) THEN [outbox EXCEPT ![id] = Failed(@)] ELSE outbox
  /\ SetRowStatus(x, id, "retryable_failure")
  /\ UNCHANGED <<primaryRows, outboxRows>>

CommitMirrorFailure(x, id) ==
  IF CanRecordFailure(x, id)
    THEN /\ outbox' = [outbox EXCEPT ![id] = Failed(@)]
         /\ SetRowStatus(x, id, "retryable_failure")
         /\ UNCHANGED <<primaryRows, outboxRows>>
    ELSE UNCHANGED primaryDb
=============================================================================
