---------------------------- MODULE DualPersistence ----------------------------
(***************************************************************************)
(* The create handlers of api.rs (create_pre_interest,                     *)
(* create_upload_intent, create_application, create_referral) running      *)
(* concurrently over the two databases.  A handler is a sequence of awaits: *)
(*                                                                         *)
(*   store_primary -> store_mirror -> mark_mirrored [-> sign_url] -> 201   *)
(*                         \-> record_failure -> 503 with the id           *)
(*                                                                         *)
(* and may be dropped at any of them, by the request deadline, a client    *)
(* that disconnects, or the death of the process: no handler keeps state   *)
(* in memory, so a crash is every handler being dropped.  A call that is   *)
(* dropped or answers with an error may have committed all the same.       *)
(*                                                                         *)
(* A request enters the model once it has passed validation, identity and  *)
(* the Turnstile check, none of which writes anything.                     *)
(***************************************************************************)
EXTENDS Persistence

CONSTANT MaxFaults      \* bound: failed calls, dropped handlers, lost replies

ASSUME FaultsAssumption == MaxFaults \in Nat

VARIABLES
  pc,         \* the await a client's request is at
  input,      \* the submission a client sends, again and again
  try,        \* requests the client has sent
  storedId,   \* primary.id, as store_primary returned it to the handler
  replies,    \* every 201 and every 503 that carried an id
  faults      \* failures so far

control == <<pc, input, try, storedId, replies, faults>>
vars == <<primaryDb, mirrorDb, control>>

Calls == {"store_primary", "store_mirror", "record_failure", "mark_mirrored", "sign_url"}
States == Calls \cup {"idle", "accepted", "refused"}

Reply == [code : {"created", "incomplete"}, kind : Kind, key : Key, digest : Digest, id : Id]

FreshId(c) == <<c, try[c]>>

Init ==
  /\ EmptyDatabases
  /\ pc = [c \in Client |-> "idle"]
  /\ input \in [Client -> Submission]
  /\ try = [c \in Client |-> 0]
  /\ storedId = [c \in Client |-> <<c, 1>>]
  /\ replies = {}
  /\ faults = 0

Goto(c, from, to) == pc[c] = from /\ pc' = [pc EXCEPT ![c] = to]

Say(c, code) ==
  replies' = replies \cup
    {[code |-> code, kind |-> input[c].kind, key |-> input[c].key,
      digest |-> input[c].digest, id |-> storedId[c]]}

Fault == faults < MaxFaults /\ faults' = faults + 1

(* Rows committed although the caller saw no success, or not at all. *)
MaybeCommitPrimary(c) == CommitPrimary(input[c], FreshId(c)) \/ UNCHANGED primaryDb
MaybeCommitMirror(c) == CommitMirror(input[c], storedId[c]) \/ UNCHANGED mirrorDb
MaybeCommitMark(c) == CommitMarkMirrored(input[c], storedId[c]) \/ UNCHANGED primaryDb
MaybeCommitFailure(c) == CommitMirrorFailure(input[c], storedId[c]) \/ UNCHANGED primaryDb

-----------------------------------------------------------------------------
(* A client sends its submission, for the first time or as a retry. *)
Begin(c) ==
  /\ try[c] < MaxTries
  /\ Goto(c, "idle", "store_primary")
  /\ try' = [try EXCEPT ![c] = @ + 1]
  /\ UNCHANGED <<primaryDb, mirrorDb, input, storedId, replies, faults>>

-----------------------------------------------------------------------------
(* let primary = state.primary.store_...(Primary, &context, &input).await?  *)
StorePrimary(c) ==
  /\ ~ Conflicting(primaryRows, input[c])
  /\ Goto(c, "store_primary", "store_mirror")
  /\ CommitPrimary(input[c], FreshId(c))
  /\ storedId' = [storedId EXCEPT ![c] = StoredId(primaryRows, input[c], FreshId(c))]
  /\ UNCHANGED <<mirrorDb, input, try, replies, faults>>

(* 409: the key is bound to another digest. *)
StoreConflicts(c) ==
  /\ Conflicting(primaryRows, input[c])
  /\ Goto(c, "store_primary", "refused")
  /\ UNCHANGED <<primaryDb, mirrorDb, input, try, storedId, replies, faults>>

(* require_verified_uploads comes before the insert and depends on upload  *)
(* rows and the clock, which this module leaves open.                      *)
UploadsUnavailable(c) ==
  /\ input[c].kind = "application"
  /\ Goto(c, "store_primary", "refused")
  /\ UNCHANGED <<primaryDb, mirrorDb, input, try, storedId, replies, faults>>

(* 503 persistence_unavailable, without an id. *)
FailPrimary(c) ==
  /\ Fault
  /\ Goto(c, "store_primary", "idle")
  /\ MaybeCommitPrimary(c)
  /\ UNCHANGED <<mirrorDb, input, try, storedId, replies>>

-----------------------------------------------------------------------------
(* The mirror stores the row under the id the primary returned; anything   *)
(* but Ok with that very id is a mirror failure.                           *)
MirrorAgrees(c) ==
  /\ ~ Conflicting(mirrorRows, input[c])
  /\ StoredId(mirrorRows, input[c], storedId[c]) = storedId[c]

(* Variant: with_canonical_id dropped, the mirror stores the request's id. *)
StoreMirrorUnderContextId(c) ==
  /\ Goto(c, "store_mirror",
          IF Conflicting(mirrorRows, input[c]) THEN "record_failure" ELSE "mark_mirrored")
  /\ CommitMirror(input[c], FreshId(c))
  /\ UNCHANGED <<primaryDb, input, try, storedId, replies, faults>>

StoreMirror(c) ==
  /\ Goto(c, "store_mirror",
          IF MirrorAgrees(c) THEN "mark_mirrored" ELSE "record_failure")
  /\ CommitMirror(input[c], storedId[c])
  /\ UNCHANGED <<primaryDb, input, try, storedId, replies, faults>>

MirrorUploadsUnavailable(c) ==
  /\ input[c].kind = "application"
  /\ Goto(c, "store_mirror", "record_failure")
  /\ UNCHANGED <<primaryDb, mirrorDb, input, try, storedId, replies, faults>>

(* Variant: the error of the mirror is logged and passed over. *)
PassOverMirrorFailure(c) ==
  /\ Fault
  /\ Goto(c, "store_mirror", "mark_mirrored")
  /\ MaybeCommitMirror(c)
  /\ UNCHANGED <<primaryDb, input, try, storedId, replies>>

FailMirror(c) ==
  /\ Fault
  /\ Goto(c, "store_mirror", "record_failure")
  /\ MaybeCommitMirror(c)
  /\ UNCHANGED <<primaryDb, input, try, storedId, replies>>

-----------------------------------------------------------------------------
(* record_failure(...).await; return Err(mirror_unavailable(primary.id)):   *)
(* the caller is told the same whether or not the failure was recorded.    *)
RecordFailure(c) ==
  /\ Goto(c, "record_failure", "idle")
  /\ CommitMirrorFailure(input[c], storedId[c])
  /\ Say(c, "incomplete")
  /\ UNCHANGED <<mirrorDb, input, try, storedId, faults>>

FailRecord(c) ==
  /\ Fault
  /\ Goto(c, "record_failure", "idle")
  /\ MaybeCommitFailure(c)
  /\ Say(c, "incomplete")
  /\ UNCHANGED <<mirrorDb, input, try, storedId>>

-----------------------------------------------------------------------------
(* finish_submission, and the same call of create_upload_intent, which     *)
(* goes on to sign an upload URL before it answers.                        *)
MarkMirrored(c) ==
  LET marked == CanMarkMirrored(input[c], storedId[c])
      signs == input[c].kind = "upload"
  IN /\ Goto(c, "mark_mirrored",
             IF ~ marked THEN "idle" ELSE IF signs THEN "sign_url" ELSE "accepted")
     /\ CommitMarkMirrored(input[c], storedId[c])
     /\ IF marked /\ signs
          THEN UNCHANGED replies
          ELSE Say(c, IF marked THEN "created" ELSE "incomplete")
     /\ UNCHANGED <<mirrorDb, input, try, storedId, faults>>

FailMark(c) ==
  /\ Fault
  /\ Goto(c, "mark_mirrored", "idle")
  /\ MaybeCommitMark(c)
  /\ Say(c, "incomplete")
  /\ UNCHANGED <<mirrorDb, input, try, storedId>>

SignUrl(c) ==
  /\ Goto(c, "sign_url", "accepted")
  /\ Say(c, "created")
  /\ UNCHANGED <<primaryDb, mirrorDb, input, try, storedId, faults>>

(* 503 external_verification_unavailable, without an id. *)
FailSign(c) ==
  /\ Fault
  /\ Goto(c, "sign_url", "idle")
  /\ UNCHANGED <<primaryDb, mirrorDb, input, try, storedId, replies>>

-----------------------------------------------------------------------------
(* The handler's future is dropped while it awaits a call. *)
Drop(c) ==
  /\ Fault
  /\ pc[c] \in Calls
  /\ pc' = [pc EXCEPT ![c] = "idle"]
  /\ CASE pc[c] = "store_primary" -> MaybeCommitPrimary(c) /\ UNCHANGED mirrorDb
       [] pc[c] = "store_mirror" -> MaybeCommitMirror(c) /\ UNCHANGED primaryDb
       [] pc[c] = "record_failure" -> MaybeCommitFailure(c) /\ UNCHANGED mirrorDb
       [] pc[c] = "mark_mirrored" -> MaybeCommitMark(c) /\ UNCHANGED mirrorDb
       [] pc[c] = "sign_url" -> UNCHANGED <<primaryDb, mirrorDb>>
  /\ UNCHANGED <<input, try, storedId, replies>>

(* The 201 is lost on its way: the client knows no better than to retry. *)
LoseReceipt(c) ==
  /\ Fault
  /\ Goto(c, "accepted", "idle")
  /\ UNCHANGED <<primaryDb, mirrorDb, input, try, storedId, replies>>

-----------------------------------------------------------------------------
Handle(c) ==
  \/ StorePrimary(c) \/ StoreConflicts(c) \/ UploadsUnavailable(c)
  \/ StoreMirror(c) \/ MirrorUploadsUnavailable(c)
  \/ RecordFailure(c)
  \/ MarkMirrored(c)
  \/ SignUrl(c)

Misfortune(c) ==
  \/ FailPrimary(c) \/ FailMirror(c) \/ FailRecord(c) \/ FailMark(c) \/ FailSign(c)
  \/ Drop(c)
  \/ LoseReceipt(c)

Next == \E c \in Client : Begin(c) \/ Handle(c) \/ Misfortune(c)

Spec == Init /\ [][Next]_vars

(* A call that is not failed or dropped returns, and a client that was not *)
(* accepted retries.                                                       *)
Fairness == \A c \in Client : WF_vars(Begin(c)) /\ WF_vars(Handle(c))

FairSpec == Spec /\ Fairness

-----------------------------------------------------------------------------
(* Every variable keeps its type: the shape of the tables, of the handlers *)
(* and of what clients were told.                                          *)
TypeOK ==
  /\ DatabaseTypeOK
  /\ pc \in [Client -> States]
  /\ input \in [Client -> Submission]
  /\ try \in [Client -> 0 .. MaxTries]
  /\ storedId \in [Client -> Id]
  /\ replies \subseteq Reply
  /\ faults \in 0 .. MaxFaults

Created == {r \in replies : r.code = "created"}

(* A 201 is only ever issued for a submission that both databases hold     *)
(* under the same key, digest and UUID, whatever failed on the way and     *)
(* whoever else was sending the same key.                                  *)
ReceiptsAreDurable ==
  \A r \in Created : Stored(primaryRows, r, r.id) /\ Stored(mirrorRows, r, r.id)

(* The mirror never holds a submission the primary does not hold, under    *)
(* the same UUID and digest: the mirror write follows the primary commit.  *)
MirrorFollowsPrimary ==
  \A m \in mirrorRows : Stored(primaryRows, m, m.id)

(* Every canonical row has its outbox row, and no outbox row is without    *)
(* one: replays and concurrent duplicates neither add nor skip an entry.   *)
OutboxComplete == outboxRows = {OutboxRowOf(row) : row \in primaryRows}

(* An outbox entry acknowledged as mirrored is in the mirror. *)
AcknowledgementIsTrue ==
  \A o \in outboxRows :
    outbox[o.id].status = "mirrored" =>
      \E m \in mirrorRows : m.kind = o.kind /\ m.id = o.id /\ m.digest = o.digest

(* The canonical row's mirror_status and the outbox entry never disagree,  *)
(* however the two transactions that write them interleave or fail.        *)
StatusesAgree ==
  \A row \in primaryRows :
    HasStatusColumn(row) => rowStatus[row.id] = AsRowStatus(outbox[row.id].status)

(* Whatever a client was told about a key, accepted or not yet accepted,   *)
(* names one UUID and one digest, and that submission is retained.         *)
StableId ==
  /\ \A r1, r2 \in replies : SameSlot(r1, r2) => r1.id = r2.id /\ r1.digest = r2.digest
  /\ \A r \in replies : Stored(primaryRows, r, r.id)

(* Repeating a submission whose id any client was told, accepted or not    *)
(* yet accepted, is never refused as a conflict (applications apart: their *)
(* uploads are checked first and may have expired).                        *)
RetryIsNeverRefused ==
  \A c \in Client : \A r \in replies :
    SameSlot(r, input[c]) /\ r.digest = input[c].digest /\ r.kind # "application"
      => pc[c] # "refused"

(* The mirror never contradicts the primary, so the branch of the handlers *)
(* for a mirror that answers with another id or a conflict is not taken:   *)
(* a handler about to write the mirror finds it empty or in agreement.     *)
MirrorNeverContradicts ==
  \A c \in Client : pc[c] = "store_mirror" => MirrorAgrees(c)

(* What is stored stays as it was stored: no transaction updates or        *)
(* deletes a canonical row's identity, in either database.                 *)
RowsAreImmutable ==
  [][/\ primaryRows \subseteq primaryRows'
     /\ mirrorRows \subseteq mirrorRows'
     /\ outboxRows \subseteq outboxRows']_vars

(* A client that retries gets its 201, or finds its key bound to another   *)
(* digest, once failures stop: no sequence of failures, drops and races    *)
(* leaves a submission that a retry cannot complete (applications apart,   *)
(* whose uploads may expire).                                              *)
RetriesSucceed ==
  \A c \in Client :
    input[c].kind # "application" =>
      <>[](pc[c] = "accepted" \/ Conflicting(primaryRows, input[c]))

-----------------------------------------------------------------------------
(* The abstract ledger: subjects, statuses and the outbox forgotten.       *)
LedgerEntryOf(r) == [kind |-> r.kind, key |-> r.key, digest |-> r.digest, id |-> r.id]

Ledger == INSTANCE SubmissionLedger WITH
  retained <- {LedgerEntryOf(row) : row \in primaryRows},
  replicated <- {LedgerEntryOf(row) : row \in mirrorRows},
  receipts <- {LedgerEntryOf(r) : r \in Created}

(* The handlers implement the two-site ledger: keys bind once, copies are  *)
(* exact, and only entries on both sites are acknowledged.                 *)
ImplementsLedger == Ledger!Spec

(* The life OutboxRetry gives one outbox row is that of the row of every   *)
(* id: inserted once, then acknowledged and failed in whatever order the   *)
(* handlers that race for the submission have it, and otherwise untouched. *)
Delivery(id) == INSTANCE OutboxRetry WITH entry <- outbox[id]

EntriesFollowRetry ==
  /\ \A id \in Id : Delivery(id)!Init
  /\ [][\A id \in Id : [Delivery(id)!Next]_(outbox[id])]_outbox

-----------------------------------------------------------------------------
(***************************************************************************)
(* The inductive invariant: what the databases satisfy by themselves, and  *)
(* what a handler knows of them at each await.                             *)
(***************************************************************************)
KeysBindOnce(rows) == \A r, q \in rows : SameSlot(r, q) => r = q

IdsAreUnique(rows) == \A r, q \in rows : r.id = q.id => r = q

DatabaseInv ==
  /\ KeysBindOnce(primaryRows) /\ KeysBindOnce(mirrorRows)
  /\ IdsAreUnique(primaryRows)
  /\ MirrorFollowsPrimary
  /\ OutboxComplete
  /\ AcknowledgementIsTrue
  /\ StatusesAgree

(* Ids in use were drawn by a request already sent. *)
IdsAreSpent == \A row \in primaryRows : \E c \in Client : \E n \in 1 .. try[c] : row.id = <<c, n>>

(* What the handler of c knows of the rows at each of its awaits. *)
Backed(c) ==
  /\ pc[c] = "store_primary" =>
       /\ try[c] >= 1
       /\ \A row \in primaryRows : row.id # FreshId(c)
  /\ pc[c] \in {"store_mirror", "record_failure", "mark_mirrored", "sign_url"} =>
       Stored(primaryRows, input[c], storedId[c])
  /\ pc[c] \in {"mark_mirrored", "sign_url"} =>
       Stored(mirrorRows, input[c], storedId[c])
  /\ pc[c] = "refused" /\ input[c].kind # "application" =>
       Conflicting(primaryRows, input[c])

HandlerInv == \A c \in Client : Backed(c)

(* An answer that names a submission is backed by its rows. *)
Truthful(r) == /\ Stored(primaryRows, r, r.id)
               /\ r.code = "created" => Stored(mirrorRows, r, r.id)

RepliesInv == \A r \in replies : Truthful(r)

(* Every handler, wherever it stands, and every answer given is backed by  *)
(* the rows: this is what makes the properties above inductive.            *)
IInv == TypeOK /\ DatabaseInv /\ IdsAreSpent /\ HandlerInv /\ RepliesInv

-----------------------------------------------------------------------------
(* formal/intake_api.qnt, dual_persistence_order and record_mirror_failure: *)
(* a mirror failure is recorded only of a submission neither mirrored nor  *)
(* receipted.  So an acknowledgement stands: what the outbox has as        *)
(* mirrored, or a 201 was given for, no step turns into a failure.         *)
Acknowledged(row) ==
  outbox[row.id].status = "mirrored" \/ \E r \in Created : r.id = row.id

AcknowledgementsStand ==
  [][\A row \in primaryRows :
       Acknowledged(row) => outbox'[row.id].status \notin
                              {"retryable_failure", "terminal_failure"}]_vars

(* docs/architecture.md: the mirror is written with the same UUID, subject *)
(* and payload digest as the primary.                                      *)
SameSubject ==
  \A row \in primaryRows, m \in mirrorRows : row.id = m.id => row.subject = m.subject

(* Every request that sends a digest under a key sends it for one subject. *)
OneIdentityEach ==
  \A c, d \in Client :
    SameSlot(input[c], input[d]) /\ input[c].digest = input[d].digest
      => input[c].subject = input[d].subject

(* Every row, of either database, is the row of a request sent.            *)
RowsAreSent ==
  \A row \in primaryRows \cup mirrorRows :
    \E c \in Client : row = RowOf(input[c], row.id)
=============================================================================
