------------------------ MODULE DualPersistenceProofs ------------------------
(***************************************************************************)
(* Proofs about DualPersistence, for every set of clients, keys, digests   *)
(* and subjects and every bound.  The databases first: each transaction    *)
(* preserves what they satisfy, and rows are never taken away.  Then the   *)
(* handlers: what one knows of the rows stays true because rows stay.      *)
(***************************************************************************)
EXTENDS DualPersistence, OutboxLemmas

(* A store's answer to a replay is the id of the one row that holds the    *)
(* key: CHOOSE has no choice.                                              *)
LEMMA ReplayFindsTheRow ==
  ASSUME NEW rows, KeysBindOnce(rows), NEW x, NEW id, NEW row \in rows, SameSlot(row, x)
  PROVE  StoredId(rows, x, id) = row.id
<1>1. row \in Holding(rows, x)
  BY DEF Holding
<1>2. \A other \in Holding(rows, x) : other = row
  BY DEF Holding, KeysBindOnce, SameSlot
<1>. QED
  BY <1>1, <1>2 DEF StoredId, Insertable

(* A store that is answered with an id has stored what was asked under it. *)
LEMMA StoredIsStored ==
  ASSUME NEW rows, KeysBindOnce(rows), NEW x \in Submission, NEW id,
         ~ Conflicting(rows, x)
  PROVE  IF Insertable(rows, x)
           THEN StoredId(rows, x, id) = id
           ELSE Stored(rows, x, StoredId(rows, x, id))
<1>1. CASE Insertable(rows, x)
  BY <1>1 DEF StoredId
<1>2. CASE ~ Insertable(rows, x)
  <2>1. PICK row \in rows : SameSlot(row, x)
    BY <1>2 DEF Insertable, Holding
  <2>2. row.digest = x.digest
    BY <2>1 DEF Conflicting, Holding
  <2>3. StoredId(rows, x, id) = row.id
    BY <2>1, ReplayFindsTheRow
  <2>. QED
    BY <1>2, <2>1, <2>2, <2>3 DEF Stored
<1>. QED
  BY <1>1, <1>2

-----------------------------------------------------------------------------
(* Storing on the primary under a fresh id. *)
LEMMA CommitPrimaryKeepsDatabases ==
  ASSUME DatabaseTypeOK, DatabaseInv, NEW x \in Submission, NEW id \in Id,
         \A row \in primaryRows : row.id # id,
         CommitPrimary(x, id), UNCHANGED mirrorDb
  PROVE  /\ DatabaseTypeOK' /\ DatabaseInv'
         /\ primaryRows \subseteq primaryRows'
         /\ \A row \in primaryRows' : row \in primaryRows \/ row.id = id
         /\ ~ Conflicting(primaryRows, x) =>
              Stored(primaryRows', x, StoredId(primaryRows, x, id))
<1>1. CASE Insertable(primaryRows, x)
  <2>. DEFINE new == RowOf(x, id)
  <2>1. InsertPrimary(new)
    BY <1>1 DEF CommitPrimary
  <2>2. /\ new \in Row
        /\ new.kind = x.kind /\ new.key = x.key /\ new.digest = x.digest /\ new.id = id
    BY DEF RowOf, Row, Submission
  <2>. HIDE DEF new
  <2>3. /\ primaryRows' = primaryRows \cup {new}
        /\ outboxRows' = outboxRows \cup {OutboxRowOf(new)}
        /\ rowStatus' = [rowStatus EXCEPT ![id] = "pending"]
        /\ outbox' = [outbox EXCEPT ![id] = NewEntry]
        /\ mirrorRows' = mirrorRows
    BY <2>1, <2>2 DEF InsertPrimary, mirrorDb
  <2>4. NewEntry \in Entry
    BY MaxAttemptsAssumption DEF Entry, EntryStatus, RowStatus, NewEntry, Delay
  <2>5. DatabaseTypeOK'
    BY <2>2, <2>3, <2>4 DEF DatabaseTypeOK, OutboxRowOf, Row, RowStatus
  <2>6. KeysBindOnce(primaryRows)'
    BY <1>1, <2>2, <2>3 DEF DatabaseInv, KeysBindOnce, Insertable, Holding, SameSlot
  <2>7. IdsAreUnique(primaryRows)'
    BY <2>2, <2>3 DEF DatabaseInv, IdsAreUnique
  <2>8. MirrorFollowsPrimary' /\ KeysBindOnce(mirrorRows)'
    BY <2>3 DEF DatabaseInv, MirrorFollowsPrimary, Stored, KeysBindOnce
  <2>9. OutboxComplete'
    BY <2>3 DEF DatabaseInv, OutboxComplete
  <2>10. AcknowledgementIsTrue'
    <3>1. \A o \in outboxRows : o.id # id /\ o.id \in Id
      BY DEF DatabaseInv, OutboxComplete, OutboxRowOf, DatabaseTypeOK
    <3>2. OutboxRowOf(new).id = id
      BY <2>2 DEF OutboxRowOf
    <3>3. outbox'[id].status = "pending"
      BY <2>3 DEF DatabaseTypeOK, NewEntry
    <3>4. \A o \in outboxRows : outbox'[o.id] = outbox[o.id]
      BY <2>3, <3>1 DEF DatabaseTypeOK
    <3>. QED
      BY <2>3, <3>2, <3>3, <3>4 DEF DatabaseInv, AcknowledgementIsTrue
  <2>11. StatusesAgree'
    <3>1. \A row \in primaryRows : /\ rowStatus'[row.id] = rowStatus[row.id]
                                  /\ outbox'[row.id] = outbox[row.id]
      BY <2>3 DEF DatabaseTypeOK, Row
    <3>2. rowStatus'[id] = "pending" /\ outbox'[id].status = "pending"
      BY <2>3 DEF DatabaseTypeOK, NewEntry
    <3>. QED
      BY <2>2, <2>3, <3>1, <3>2 DEF DatabaseInv, StatusesAgree, AsRowStatus
  <2>12. Stored(primaryRows', x, StoredId(primaryRows, x, id))
    BY <1>1, <2>2, <2>3 DEF Stored, StoredId, SameSlot
  <2>. QED
    BY <2>2, <2>3, <2>5, <2>6, <2>7, <2>8, <2>9, <2>10, <2>11, <2>12 DEF DatabaseInv
<1>2. CASE ~ Insertable(primaryRows, x)
  <2>1. UNCHANGED <<primaryDb, mirrorDb>>
    BY <1>2 DEF CommitPrimary
  <2>2. DatabaseTypeOK' /\ DatabaseInv'
    BY <2>1 DEF primaryDb, mirrorDb, DatabaseTypeOK, DatabaseInv, KeysBindOnce, IdsAreUnique,
       MirrorFollowsPrimary, OutboxComplete, AcknowledgementIsTrue, StatusesAgree, Stored
  <2>. QED
    BY <1>2, <2>1, <2>2, StoredIsStored DEF primaryDb, DatabaseInv
<1>. QED
  BY <1>1, <1>2

(* Storing on the mirror what the primary holds under that id. *)
LEMMA CommitMirrorKeepsDatabases ==
  ASSUME DatabaseTypeOK, DatabaseInv, NEW x \in Submission, NEW id \in Id,
         Stored(primaryRows, x, id),
         CommitMirror(x, id), UNCHANGED primaryDb
  PROVE  /\ DatabaseTypeOK' /\ DatabaseInv'
         /\ mirrorRows \subseteq mirrorRows'
         /\ \A row \in mirrorRows' : row \in mirrorRows \/ LedgerEntryOf(row) = LedgerEntryOf(RowOf(x, id))
         /\ ~ Conflicting(mirrorRows, x) =>
              Stored(mirrorRows', x, StoredId(mirrorRows, x, id))
<1>1. CASE Insertable(mirrorRows, x)
  <2>. DEFINE new == RowOf(x, id)
  <2>1. mirrorRows' = mirrorRows \cup {new}
    BY <1>1 DEF CommitMirror
  <2>2. /\ new \in Row
        /\ new.kind = x.kind /\ new.key = x.key /\ new.digest = x.digest /\ new.id = id
    BY DEF RowOf, Row, Submission
  <2>. HIDE DEF new
  <2>3. DatabaseTypeOK'
    BY <2>1, <2>2 DEF DatabaseTypeOK, primaryDb
  <2>4. KeysBindOnce(mirrorRows)'
    BY <1>1, <2>1, <2>2 DEF DatabaseInv, KeysBindOnce, Insertable, Holding, SameSlot
  <2>5. MirrorFollowsPrimary'
    BY <2>1, <2>2 DEF DatabaseInv, MirrorFollowsPrimary, Stored, SameSlot, primaryDb
  <2>6. AcknowledgementIsTrue'
    BY <2>1 DEF DatabaseInv, AcknowledgementIsTrue, primaryDb
  <2>7. (KeysBindOnce(primaryRows) /\ IdsAreUnique(primaryRows) /\ OutboxComplete /\ StatusesAgree)'
    BY DEF DatabaseInv, KeysBindOnce, IdsAreUnique, OutboxComplete, StatusesAgree, primaryDb
  <2>8. Stored(mirrorRows', x, StoredId(mirrorRows, x, id))
    BY <1>1, <2>1, <2>2 DEF Stored, StoredId, SameSlot
  <2>. QED
    BY <2>1, <2>3, <2>4, <2>5, <2>6, <2>7, <2>8 DEF DatabaseInv, new
<1>2. CASE ~ Insertable(mirrorRows, x)
  <2>1. UNCHANGED <<primaryDb, mirrorDb>>
    BY <1>2 DEF CommitMirror, mirrorDb
  <2>2. DatabaseTypeOK' /\ DatabaseInv'
    BY <2>1 DEF primaryDb, mirrorDb, DatabaseTypeOK, DatabaseInv, KeysBindOnce, IdsAreUnique,
       MirrorFollowsPrimary, OutboxComplete, AcknowledgementIsTrue, StatusesAgree, Stored
  <2>. QED
    BY <1>2, <2>1, <2>2, StoredIsStored DEF mirrorDb, DatabaseInv
<1>. QED
  BY <1>1, <1>2

(* The mirror never answers with another id, nor with a conflict, for a    *)
(* submission the primary holds.                                           *)
LEMMA MirrorAnswersTheSameId ==
  ASSUME DatabaseInv, NEW x \in Submission, NEW id \in Id, Stored(primaryRows, x, id)
  PROVE  ~ Conflicting(mirrorRows, x) /\ StoredId(mirrorRows, x, id) = id
<1>1. ASSUME NEW m \in mirrorRows, SameSlot(m, x)
      PROVE  m.digest = x.digest /\ m.id = id
  BY <1>1 DEF DatabaseInv, MirrorFollowsPrimary, Stored, KeysBindOnce, SameSlot
<1>2. ~ Conflicting(mirrorRows, x)
  BY <1>1 DEF Conflicting, Holding
<1>3. CASE Insertable(mirrorRows, x)
  BY <1>2, <1>3 DEF StoredId
<1>4. CASE ~ Insertable(mirrorRows, x)
  <2>1. PICK m \in mirrorRows : SameSlot(m, x)
    BY <1>4 DEF Insertable, Holding
  <2>. QED
    BY <1>1, <1>2, <2>1, ReplayFindsTheRow DEF DatabaseInv
<1>. QED
  BY <1>3, <1>4

(* Acknowledging what the mirror holds. *)
LEMMA CommitMarkKeepsDatabases ==
  ASSUME DatabaseTypeOK, DatabaseInv, NEW x \in Submission, NEW id \in Id,
         Stored(mirrorRows, x, id),
         CommitMarkMirrored(x, id), UNCHANGED mirrorDb
  PROVE  DatabaseTypeOK' /\ DatabaseInv' /\ UNCHANGED primaryRows
<1>1. CASE CanMarkMirrored(x, id)
  <2>1. /\ UNCHANGED <<primaryRows, outboxRows, mirrorRows>>
        /\ outbox' = [outbox EXCEPT ![id] = Delivered(outbox[id])]
        /\ rowStatus' = IF HasStatusColumn(x) THEN [rowStatus EXCEPT ![id] = "mirrored"] ELSE rowStatus
    BY <1>1 DEF CommitMarkMirrored, SetRowStatus, mirrorDb
  <2>2. outbox[id] \in Entry
    BY DEF DatabaseTypeOK
  <2>3. DatabaseTypeOK'
    BY <2>1, <2>2, EntryTypes DEF DatabaseTypeOK, RowStatus
  <2>4. PICK owner \in primaryRows : SameSlot(owner, x) /\ owner.digest = x.digest /\ owner.id = id
    BY DEF DatabaseInv, MirrorFollowsPrimary, Stored, SameSlot
  <2>5. AcknowledgementIsTrue'
    <3>1. SUFFICES ASSUME NEW o \in outboxRows, outbox'[o.id].status = "mirrored"
                   PROVE  \E m \in mirrorRows : m.kind = o.kind /\ m.id = o.id /\ m.digest = o.digest
      BY <2>1 DEF AcknowledgementIsTrue
    <3>2. CASE o.id = id
      <4>1. PICK row \in primaryRows : o = OutboxRowOf(row)
        BY DEF DatabaseInv, OutboxComplete
      <4>2. row = owner
        BY <2>4, <3>2, <4>1 DEF OutboxRowOf, DatabaseInv, IdsAreUnique
      <4>. QED
        BY <2>4, <4>1, <4>2 DEF OutboxRowOf, Stored, SameSlot
    <3>3. CASE o.id # id
      BY <2>1, <3>1, <3>3 DEF DatabaseInv, AcknowledgementIsTrue, DatabaseTypeOK
    <3>. QED
      BY <3>2, <3>3
  <2>6. StatusesAgree'
    <3>1. SUFFICES ASSUME NEW row \in primaryRows, HasStatusColumn(row)
                   PROVE  rowStatus'[row.id] = AsRowStatus(outbox'[row.id].status)
      BY <2>1 DEF StatusesAgree
    <3>2. CASE row.id = id
      <4>1. row = owner /\ HasStatusColumn(x)
        BY <2>4, <3>1, <3>2 DEF DatabaseInv, IdsAreUnique, HasStatusColumn, SameSlot
      <4>. QED
        BY <2>1, <2>2, <3>2, <4>1, DeliveredFields DEF DatabaseTypeOK
    <3>3. CASE row.id # id
      BY <2>1, <3>1, <3>3 DEF DatabaseInv, StatusesAgree, DatabaseTypeOK, Row
    <3>. QED
      BY <3>2, <3>3
  <2>7. (/\ KeysBindOnce(primaryRows) /\ KeysBindOnce(mirrorRows) /\ IdsAreUnique(primaryRows)
         /\ MirrorFollowsPrimary /\ OutboxComplete)'
    BY <2>1 DEF DatabaseInv, KeysBindOnce, IdsAreUnique, MirrorFollowsPrimary, OutboxComplete, Stored
  <2>. QED
    BY <2>1, <2>3, <2>5, <2>6, <2>7 DEF DatabaseInv
<1>2. CASE ~ CanMarkMirrored(x, id)
  <2>1. UNCHANGED <<primaryDb, mirrorDb>>
    BY <1>2 DEF CommitMarkMirrored
  <2>. QED
    BY <2>1 DEF primaryDb, mirrorDb, DatabaseTypeOK, DatabaseInv, KeysBindOnce, IdsAreUnique,
       MirrorFollowsPrimary, OutboxComplete, AcknowledgementIsTrue, StatusesAgree, Stored
<1>. QED
  BY <1>1, <1>2

(* Recording a mirror failure of what the primary holds. *)
LEMMA CommitFailureKeepsDatabases ==
  ASSUME DatabaseTypeOK, DatabaseInv, NEW x \in Submission, NEW id \in Id,
         Stored(primaryRows, x, id),
         CommitMirrorFailure(x, id), UNCHANGED mirrorDb
  PROVE  DatabaseTypeOK' /\ DatabaseInv' /\ UNCHANGED primaryRows
<1>1. CASE CanRecordFailure(x, id)
  <2>1. /\ UNCHANGED <<primaryRows, outboxRows, mirrorRows>>
        /\ outbox' = [outbox EXCEPT ![id] = Failed(outbox[id])]
        /\ rowStatus' = IF HasStatusColumn(x)
                          THEN [rowStatus EXCEPT ![id] = "retryable_failure"] ELSE rowStatus
    BY <1>1 DEF CommitMirrorFailure, SetRowStatus, mirrorDb
  <2>2. outbox[id] \in Entry /\ CanFail(outbox[id])
    BY <1>1 DEF DatabaseTypeOK, CanRecordFailure
  <2>3. DatabaseTypeOK'
    BY <2>1, <2>2, EntryTypes DEF DatabaseTypeOK, RowStatus
  <2>4. PICK owner \in primaryRows : SameSlot(owner, x) /\ owner.digest = x.digest /\ owner.id = id
    BY DEF Stored
  <2>5. AcknowledgementIsTrue'
    <3>1. outbox'[id].status # "mirrored"
      BY <2>1, <2>2, FailedFields DEF DatabaseTypeOK
    <3>. QED
      BY <2>1, <3>1 DEF DatabaseInv, AcknowledgementIsTrue, DatabaseTypeOK
  <2>6. StatusesAgree'
    <3>1. SUFFICES ASSUME NEW row \in primaryRows, HasStatusColumn(row)
                   PROVE  rowStatus'[row.id] = AsRowStatus(outbox'[row.id].status)
      BY <2>1 DEF StatusesAgree
    <3>2. CASE row.id = id
      <4>1. row = owner /\ HasStatusColumn(x)
        BY <2>4, <3>1, <3>2 DEF DatabaseInv, IdsAreUnique, HasStatusColumn, SameSlot
      <4>. QED
        BY <2>1, <2>2, <3>2, <4>1, FailedFields DEF DatabaseTypeOK
    <3>3. CASE row.id # id
      BY <2>1, <3>1, <3>3 DEF DatabaseInv, StatusesAgree, DatabaseTypeOK, Row
    <3>. QED
      BY <3>2, <3>3
  <2>7. (/\ KeysBindOnce(primaryRows) /\ KeysBindOnce(mirrorRows) /\ IdsAreUnique(primaryRows)
         /\ MirrorFollowsPrimary /\ OutboxComplete)'
    BY <2>1 DEF DatabaseInv, KeysBindOnce, IdsAreUnique, MirrorFollowsPrimary, OutboxComplete, Stored
  <2>. QED
    BY <2>1, <2>3, <2>5, <2>6, <2>7 DEF DatabaseInv
<1>2. CASE ~ CanRecordFailure(x, id)
  <2>1. UNCHANGED <<primaryDb, mirrorDb>>
    BY <1>2 DEF CommitMirrorFailure
  <2>. QED
    BY <2>1 DEF primaryDb, mirrorDb, DatabaseTypeOK, DatabaseInv, KeysBindOnce, IdsAreUnique,
       MirrorFollowsPrimary, OutboxComplete, AcknowledgementIsTrue, StatusesAgree, Stored
<1>. QED
  BY <1>1, <1>2

-----------------------------------------------------------------------------
(* What is known of the rows stays known. *)
LEMMA RowsStay ==
  ASSUME NEW rows, NEW more, rows \subseteq more, NEW x, NEW id
  PROVE  /\ Stored(rows, x, id) => Stored(more, x, id)
         /\ Conflicting(rows, x) => Conflicting(more, x)
BY DEF Stored, Conflicting, Holding

(* How a call of c's handler may change the databases. *)
DatabasesGrow(c) ==
  /\ DatabaseTypeOK' /\ DatabaseInv'
  /\ primaryRows \subseteq primaryRows' /\ mirrorRows \subseteq mirrorRows'
  /\ \A row \in primaryRows' :
       row \in primaryRows \/ (pc[c] = "store_primary" /\ row.id = FreshId(c))

LEMMA NoCallGrows ==
  ASSUME IInv, NEW c \in Client, UNCHANGED <<primaryDb, mirrorDb>>
  PROVE  DatabasesGrow(c)
BY DEF DatabasesGrow, IInv, TypeOK, primaryDb, mirrorDb, DatabaseTypeOK, DatabaseInv,
   KeysBindOnce, IdsAreUnique, MirrorFollowsPrimary, OutboxComplete, AcknowledgementIsTrue,
   StatusesAgree, Stored

LEMMA StorePrimaryGrows ==
  ASSUME IInv, NEW c \in Client, pc[c] = "store_primary",
         MaybeCommitPrimary(c), UNCHANGED mirrorDb
  PROVE  DatabasesGrow(c)
<1>1. /\ input[c] \in Submission /\ FreshId(c) \in Id
      /\ \A row \in primaryRows : row.id # FreshId(c)
  BY DEF IInv, TypeOK, HandlerInv, Backed, FreshId, Id
<1>2. CASE CommitPrimary(input[c], FreshId(c))
  BY <1>1, <1>2, CommitPrimaryKeepsDatabases DEF DatabasesGrow, IInv, TypeOK, mirrorDb
<1>3. CASE UNCHANGED primaryDb
  BY <1>3, NoCallGrows
<1>. QED
  BY <1>2, <1>3 DEF MaybeCommitPrimary

LEMMA StoreMirrorGrows ==
  ASSUME IInv, NEW c \in Client, pc[c] = "store_mirror",
         MaybeCommitMirror(c), UNCHANGED primaryDb
  PROVE  DatabasesGrow(c)
<1>1. /\ input[c] \in Submission /\ storedId[c] \in Id
      /\ Stored(primaryRows, input[c], storedId[c])
  BY DEF IInv, TypeOK, HandlerInv, Backed
<1>2. CASE CommitMirror(input[c], storedId[c])
  BY <1>1, <1>2, CommitMirrorKeepsDatabases DEF DatabasesGrow, IInv, TypeOK, primaryDb
<1>3. CASE UNCHANGED mirrorDb
  BY <1>3, NoCallGrows
<1>. QED
  BY <1>2, <1>3 DEF MaybeCommitMirror, mirrorDb

LEMMA MarkMirroredGrows ==
  ASSUME IInv, NEW c \in Client, pc[c] = "mark_mirrored",
         MaybeCommitMark(c), UNCHANGED mirrorDb
  PROVE  DatabasesGrow(c)
<1>1. /\ input[c] \in Submission /\ storedId[c] \in Id
      /\ Stored(mirrorRows, input[c], storedId[c])
  BY DEF IInv, TypeOK, HandlerInv, Backed
<1>2. CASE CommitMarkMirrored(input[c], storedId[c])
  BY <1>1, <1>2, CommitMarkKeepsDatabases DEF DatabasesGrow, IInv, TypeOK, mirrorDb
<1>3. CASE UNCHANGED primaryDb
  BY <1>3, NoCallGrows
<1>. QED
  BY <1>2, <1>3 DEF MaybeCommitMark

LEMMA RecordFailureGrows ==
  ASSUME IInv, NEW c \in Client, pc[c] = "record_failure",
         MaybeCommitFailure(c), UNCHANGED mirrorDb
  PROVE  DatabasesGrow(c)
<1>1. /\ input[c] \in Submission /\ storedId[c] \in Id
      /\ Stored(primaryRows, input[c], storedId[c])
  BY DEF IInv, TypeOK, HandlerInv, Backed
<1>2. CASE CommitMirrorFailure(input[c], storedId[c])
  BY <1>1, <1>2, CommitFailureKeepsDatabases DEF DatabasesGrow, IInv, TypeOK, mirrorDb
<1>3. CASE UNCHANGED primaryDb
  BY <1>3, NoCallGrows
<1>. QED
  BY <1>2, <1>3 DEF MaybeCommitFailure

(* An answer backed by the rows a step leaves. *)
TruthfulNext(r) == /\ Stored(primaryRows', r, r.id)
                   /\ r.code = "created" => Stored(mirrorRows', r, r.id)

(* A step of one handler that only adds rows, and knows where it stands    *)
(* afterwards, preserves the invariant: the other handlers know no less.   *)
LEMMA OneHandlerMoves ==
  ASSUME IInv, NEW c \in Client, DatabasesGrow(c),
         pc' = [pc EXCEPT ![c] = pc'[c]], pc'[c] \in States \ {"store_primary"},
         storedId' = [storedId EXCEPT ![c] = storedId'[c]], storedId'[c] \in Id,
         UNCHANGED <<input, try>>,
         \A r \in replies' : r \in replies \/ (r \in Reply /\ TruthfulNext(r)),
         faults' \in 0 .. MaxFaults,
         Backed(c)'
  PROVE  IInv'
<1>. USE DEF DatabasesGrow
<1>1. TypeOK'
  BY DEF IInv, TypeOK
<1>2. IdsAreSpent'
  <2>1. SUFFICES ASSUME NEW row \in primaryRows', row.id = FreshId(c), pc[c] = "store_primary"
                 PROVE  \E d \in Client : \E n \in 1 .. try[d] : row.id = <<d, n>>
    BY DEF IInv, IdsAreSpent
  <2>2. try[c] \in 1 .. try[c]
    BY <2>1 DEF IInv, TypeOK, HandlerInv, Backed
  <2>. QED
    BY <2>1, <2>2 DEF FreshId
<1>3. HandlerInv'
  <2>1. SUFFICES ASSUME NEW d \in Client, d # c PROVE Backed(d)'
    BY DEF HandlerInv
  <2>2. /\ pc'[d] = pc[d] /\ storedId'[d] = storedId[d]
        /\ input'[d] = input[d] /\ try'[d] = try[d]
        /\ Backed(d)
    BY <2>1 DEF IInv, TypeOK, HandlerInv
  <2>3. \A row \in primaryRows' : row \in primaryRows \/ row.id # FreshId(d)
    BY <2>1 DEF FreshId
  <2>. QED
    BY <2>2, <2>3, RowsStay DEF Backed, FreshId
<1>4. RepliesInv'
  BY RowsStay DEF IInv, RepliesInv, Truthful, TruthfulNext
<1>. QED
  BY <1>1, <1>2, <1>3, <1>4 DEF IInv

(* An answer given for a stored submission is truthful. *)
LEMMA SayingIsTruthful ==
  ASSUME IInv, NEW c \in Client, NEW code \in {"created", "incomplete"}, Say(c, code),
         Stored(primaryRows', input[c], storedId[c]),
         code = "created" => Stored(mirrorRows', input[c], storedId[c])
  PROVE  \A r \in replies' : r \in replies \/ (r \in Reply /\ TruthfulNext(r))
<1>. DEFINE new == [code |-> code, kind |-> input[c].kind, key |-> input[c].key,
                    digest |-> input[c].digest, id |-> storedId[c]]
<1>1. input[c] \in Submission /\ storedId[c] \in Id
  BY DEF IInv, TypeOK
<1>2. new \in Reply
  BY <1>1 DEF Reply, Submission
<1>3. TruthfulNext(new)
  BY DEF TruthfulNext, Stored, SameSlot
<1>. QED
  BY <1>2, <1>3 DEF Say

-----------------------------------------------------------------------------
LEMMA InitEstablishesIInv == Init => IInv
<1>. SUFFICES ASSUME Init PROVE IInv
  OBVIOUS
<1>1. NewEntry \in Entry
  BY MaxAttemptsAssumption DEF Entry, EntryStatus, RowStatus, NewEntry, Delay
<1>2. TypeOK
  BY <1>1, TriesAssumption, FaultsAssumption
     DEF Init, EmptyDatabases, TypeOK, DatabaseTypeOK, RowStatus, States, Id
<1>3. DatabaseInv /\ IdsAreSpent /\ RepliesInv
  BY DEF Init, EmptyDatabases, DatabaseInv, KeysBindOnce, IdsAreUnique, MirrorFollowsPrimary,
     OutboxComplete, AcknowledgementIsTrue, StatusesAgree, IdsAreSpent, RepliesInv
<1>4. HandlerInv
  BY DEF Init, HandlerInv, Backed
<1>. QED
  BY <1>2, <1>3, <1>4 DEF IInv

LEMMA BeginPreservesIInv ==
  ASSUME IInv, NEW c \in Client, Begin(c)
  PROVE  IInv'
<1>1. /\ try[c] \in Nat /\ try[c] < MaxTries
      /\ pc' = [pc EXCEPT ![c] = "store_primary"]
      /\ try' = [try EXCEPT ![c] = try[c] + 1]
      /\ UNCHANGED <<primaryDb, mirrorDb, input, storedId, replies, faults>>
  BY DEF Begin, Goto, IInv, TypeOK
<1>2. DatabasesGrow(c)
  BY <1>1, NoCallGrows
<1>3. TypeOK'
  BY <1>1, <1>2, TriesAssumption DEF IInv, TypeOK, DatabasesGrow, States, Calls
<1>4. IdsAreSpent'
  <2>1. SUFFICES ASSUME NEW row \in primaryRows
                 PROVE  \E d \in Client : \E n \in 1 .. try'[d] : row.id = <<d, n>>
    BY <1>1 DEF IdsAreSpent, primaryDb
  <2>2. PICK d \in Client : \E n \in 1 .. try[d] : row.id = <<d, n>>
    BY DEF IInv, IdsAreSpent
  <2>3. 1 .. try[d] \subseteq 1 .. try'[d]
    BY <1>1 DEF IInv, TypeOK
  <2>. QED
    BY <2>2, <2>3
<1>5. \A row \in primaryRows : row.id # <<c, try[c] + 1>>
  BY <1>1 DEF IInv, IdsAreSpent
<1>6. HandlerInv'
  <2>1. SUFFICES ASSUME NEW d \in Client PROVE Backed(d)'
    BY DEF HandlerInv
  <2>2. CASE d = c
    BY <1>1, <1>5, <2>2 DEF Backed, FreshId, IInv, TypeOK, primaryDb
  <2>3. CASE d # c
    BY <1>1, <2>3 DEF Backed, FreshId, IInv, TypeOK, HandlerInv, primaryDb, mirrorDb
  <2>. QED
    BY <2>2, <2>3
<1>7. RepliesInv'
  BY <1>1 DEF IInv, RepliesInv, Truthful, primaryDb, mirrorDb
<1>. QED
  BY <1>2, <1>3, <1>4, <1>6, <1>7 DEF IInv, DatabasesGrow

-----------------------------------------------------------------------------
LEMMA EveryStepGrows ==
  ASSUME IInv, NEW c \in Client, Begin(c) \/ Handle(c) \/ Misfortune(c)
  PROVE  DatabasesGrow(c)
<1>. USE DEF Goto, Begin, Handle, Misfortune, StorePrimary, StoreConflicts, UploadsUnavailable,
         FailPrimary, StoreMirror, MirrorUploadsUnavailable, FailMirror, RecordFailure,
         FailRecord, MarkMirrored, FailMark, SignUrl, FailSign, Drop, LoseReceipt
<1>1. CASE pc[c] = "store_primary"
  <2>1. MaybeCommitPrimary(c) /\ UNCHANGED mirrorDb
    BY <1>1 DEF MaybeCommitPrimary
  <2>. QED
    BY <1>1, <2>1, StorePrimaryGrows
<1>2. CASE pc[c] = "store_mirror"
  <2>1. MaybeCommitMirror(c) /\ UNCHANGED primaryDb
    BY <1>2 DEF MaybeCommitMirror
  <2>. QED
    BY <1>2, <2>1, StoreMirrorGrows
<1>3. CASE pc[c] = "record_failure"
  <2>1. MaybeCommitFailure(c) /\ UNCHANGED mirrorDb
    BY <1>3 DEF MaybeCommitFailure
  <2>. QED
    BY <1>3, <2>1, RecordFailureGrows
<1>4. CASE pc[c] = "mark_mirrored"
  <2>1. MaybeCommitMark(c) /\ UNCHANGED mirrorDb
    BY <1>4 DEF MaybeCommitMark
  <2>. QED
    BY <1>4, <2>1, MarkMirroredGrows
<1>5. CASE pc[c] \notin {"store_primary", "store_mirror", "record_failure", "mark_mirrored"}
  <2>1. UNCHANGED <<primaryDb, mirrorDb>>
    BY <1>5 DEF Calls
  <2>. QED
    BY <2>1, NoCallGrows
<1>. QED
  BY <1>1, <1>2, <1>3, <1>4, <1>5

-----------------------------------------------------------------------------
LEMMA HandlingPreservesIInv ==
  ASSUME IInv, NEW c \in Client, Handle(c)
  PROVE  IInv'
<1>. USE DEF Goto
<1>. /\ pc \in [Client -> States] /\ storedId \in [Client -> Id]
     /\ input[c] \in Submission /\ storedId[c] \in Id
     /\ pc[c] = "store_primary" => FreshId(c) \in Id
     /\ faults \in 0 .. MaxFaults /\ Backed(c)
  BY DEF IInv, TypeOK, HandlerInv, Backed, FreshId, Id
<1>. DatabasesGrow(c)
  BY EveryStepGrows
<1>1. CASE StorePrimary(c)
  <2>1. storedId'[c] = StoredId(primaryRows, input[c], FreshId(c))
    BY <1>1 DEF StorePrimary
  <2>2. Stored(primaryRows', input[c], storedId'[c])
    BY <1>1, <2>1, CommitPrimaryKeepsDatabases DEF StorePrimary, IInv, TypeOK, Backed, mirrorDb
  <2>3. storedId'[c] \in Id
    BY <2>2 DEF Stored, DatabasesGrow, DatabaseTypeOK, Row
  <2>. QED
    BY <1>1, <2>2, <2>3, OneHandlerMoves DEF StorePrimary, States, Calls, Backed
<1>2. CASE StoreConflicts(c)
  BY <1>2, OneHandlerMoves DEF StoreConflicts, States, Calls, Backed, primaryDb
<1>3. CASE UploadsUnavailable(c)
  BY <1>3, OneHandlerMoves DEF UploadsUnavailable, States, Calls, Backed
<1>4. CASE StoreMirror(c)
  <2>1. ~ Conflicting(mirrorRows, input[c]) /\ StoredId(mirrorRows, input[c], storedId[c]) = storedId[c]
    BY <1>4, MirrorAnswersTheSameId DEF StoreMirror, Backed, IInv
  <2>2. pc' = [pc EXCEPT ![c] = "mark_mirrored"]
    BY <1>4, <2>1 DEF StoreMirror, MirrorAgrees
  <2>3. Stored(mirrorRows', input[c], storedId[c])
    BY <1>4, <2>1, CommitMirrorKeepsDatabases DEF StoreMirror, IInv, TypeOK, Backed
  <2>. QED
    BY <1>4, <2>2, <2>3, OneHandlerMoves DEF StoreMirror, States, Calls, Backed, primaryDb
<1>5. CASE MirrorUploadsUnavailable(c)
  BY <1>5, OneHandlerMoves
     DEF MirrorUploadsUnavailable, States, Calls, Backed, primaryDb
<1>6. CASE RecordFailure(c)
  <2>1. Stored(primaryRows', input[c], storedId[c])
    BY <1>6, RowsStay DEF RecordFailure, Backed, DatabasesGrow
  <2>. QED
    BY <1>6, <2>1, SayingIsTruthful, OneHandlerMoves
       DEF RecordFailure, States, Calls, Backed
<1>7. CASE MarkMirrored(c)
  <2>1. Stored(primaryRows', input[c], storedId[c]) /\ Stored(mirrorRows', input[c], storedId[c])
    BY <1>7, RowsStay DEF MarkMirrored, Backed, DatabasesGrow
  <2>2. \A r \in replies' : r \in replies \/ (r \in Reply /\ TruthfulNext(r))
    BY <1>7, <2>1, SayingIsTruthful DEF MarkMirrored
  <2>. QED
    BY <1>7, <2>1, <2>2, OneHandlerMoves DEF MarkMirrored, States, Calls, Backed
<1>8. CASE SignUrl(c)
  <2>1. Stored(primaryRows', input[c], storedId[c]) /\ Stored(mirrorRows', input[c], storedId[c])
    BY <1>8, RowsStay DEF SignUrl, Backed, DatabasesGrow
  <2>. QED
    BY <1>8, <2>1, SayingIsTruthful, OneHandlerMoves DEF SignUrl, States, Calls, Backed
<1>. QED
  BY <1>1, <1>2, <1>3, <1>4, <1>5, <1>6, <1>7, <1>8 DEF Handle

LEMMA MisfortunePreservesIInv ==
  ASSUME IInv, NEW c \in Client, Misfortune(c)
  PROVE  IInv'
<1>. USE DEF Goto, Fault
<1>. /\ pc \in [Client -> States] /\ storedId \in [Client -> Id]
     /\ storedId[c] \in Id /\ Backed(c)
  BY DEF IInv, TypeOK, HandlerInv
<1>. DatabasesGrow(c)
  BY EveryStepGrows
<1>0. Fault => faults' \in 0 .. MaxFaults
  BY FaultsAssumption DEF IInv, TypeOK
<1>1. CASE FailPrimary(c)
  BY <1>0, <1>1, OneHandlerMoves DEF FailPrimary, States, Calls, Backed
<1>2. CASE FailMirror(c)
  BY <1>0, <1>2, OneHandlerMoves DEF FailMirror, States, Calls, Backed, primaryDb
<1>3. CASE FailRecord(c)
  <2>1. Stored(primaryRows', input[c], storedId[c])
    BY <1>3, RowsStay DEF FailRecord, Backed, DatabasesGrow
  <2>. QED
    BY <1>0, <1>3, <2>1, SayingIsTruthful, OneHandlerMoves
       DEF FailRecord, States, Calls, Backed
<1>4. CASE FailMark(c)
  <2>1. Stored(primaryRows', input[c], storedId[c])
    BY <1>4, RowsStay DEF FailMark, Backed, DatabasesGrow
  <2>. QED
    BY <1>0, <1>4, <2>1, SayingIsTruthful, OneHandlerMoves
       DEF FailMark, States, Calls, Backed
<1>5. CASE FailSign(c)
  BY <1>0, <1>5, OneHandlerMoves DEF FailSign, States, Calls, Backed
<1>6. CASE Drop(c)
  <2>1. pc' = [pc EXCEPT ![c] = "idle"] /\ UNCHANGED <<input, try, storedId, replies>> /\ Fault
    BY <1>6 DEF Drop
  <2>. QED
    BY <1>0, <2>1, OneHandlerMoves DEF States, Calls, Backed
<1>7. CASE LoseReceipt(c)
  BY <1>0, <1>7, OneHandlerMoves DEF LoseReceipt, States, Calls, Backed
<1>. QED
  BY <1>1, <1>2, <1>3, <1>4, <1>5, <1>6, <1>7 DEF Misfortune

LEMMA StutteringPreservesIInv == IInv /\ UNCHANGED vars => IInv'
<1>. SUFFICES ASSUME IInv, UNCHANGED vars PROVE IInv'
  OBVIOUS
<1>1. TypeOK' /\ IdsAreSpent' /\ HandlerInv' /\ RepliesInv'
  BY DEF IInv, TypeOK, DatabaseTypeOK, IdsAreSpent, HandlerInv, Backed, FreshId, RepliesInv,
     Truthful, vars, control, primaryDb, mirrorDb
<1>2. DatabaseInv'
  BY DEF IInv, DatabaseInv, KeysBindOnce, IdsAreUnique, MirrorFollowsPrimary, OutboxComplete,
     AcknowledgementIsTrue, StatusesAgree, Stored, vars, primaryDb, mirrorDb
<1>. QED
  BY <1>1, <1>2 DEF IInv

-----------------------------------------------------------------------------
LEMMA StatusTransactionsKeepRows ==
  ASSUME NEW c \in Client, MaybeCommitMark(c) \/ MaybeCommitFailure(c)
  PROVE  UNCHANGED primaryRows
BY DEF MaybeCommitMark, CommitMarkMirrored, MaybeCommitFailure, CommitMirrorFailure, primaryDb

(* A handler adds at most the row its request asks for. *)
LEMMA RowsAdded ==
  ASSUME NEW c \in Client, Handle(c) \/ Misfortune(c)
  PROVE  /\ \A row \in primaryRows' :
              row \in primaryRows \/ (pc[c] \in Calls /\ row = RowOf(input[c], FreshId(c)))
         /\ \A row \in mirrorRows' :
              row \in mirrorRows \/ (pc[c] \in Calls /\ row = RowOf(input[c], storedId[c]))
<1>. DEFINE PrimaryAdds == \A row \in primaryRows' :
                            row \in primaryRows \/ row = RowOf(input[c], FreshId(c))
            MirrorAdds == \A row \in mirrorRows' :
                           row \in mirrorRows \/ row = RowOf(input[c], storedId[c])
<1>. USE DEF Goto, Calls
<1>1. MaybeCommitPrimary(c) => PrimaryAdds
  BY DEF MaybeCommitPrimary, CommitPrimary, InsertPrimary, primaryDb
<1>2. MaybeCommitMirror(c) => MirrorAdds
  BY DEF MaybeCommitMirror, CommitMirror, mirrorDb
<1>3. MaybeCommitMark(c) \/ MaybeCommitFailure(c) => UNCHANGED primaryRows
  BY StatusTransactionsKeepRows
<1>4. CASE StorePrimary(c) \/ FailPrimary(c)
  BY <1>1, <1>4 DEF StorePrimary, FailPrimary, MaybeCommitPrimary, mirrorDb
<1>5. CASE StoreMirror(c) \/ FailMirror(c)
  BY <1>2, <1>5 DEF StoreMirror, FailMirror, MaybeCommitMirror, primaryDb
<1>6. CASE RecordFailure(c) \/ FailRecord(c) \/ MarkMirrored(c) \/ FailMark(c)
  BY <1>3, <1>6 DEF RecordFailure, FailRecord, MarkMirrored, FailMark, MaybeCommitMark,
     MaybeCommitFailure, mirrorDb
<1>7. CASE Drop(c)
  BY <1>1, <1>2, <1>3, <1>7 DEF Drop, primaryDb, mirrorDb
<1>8. CASE StoreConflicts(c) \/ UploadsUnavailable(c) \/ MirrorUploadsUnavailable(c)
             \/ SignUrl(c) \/ FailSign(c) \/ LoseReceipt(c)
  BY <1>8 DEF StoreConflicts, UploadsUnavailable, MirrorUploadsUnavailable, SignUrl, FailSign,
     LoseReceipt, primaryDb, mirrorDb
<1>. QED
  BY <1>4, <1>5, <1>6, <1>7, <1>8 DEF Handle, Misfortune

(* How a handler moves, the databases apart. *)
LEMMA HandlerMoves ==
  ASSUME IInv, NEW c \in Client, Handle(c) \/ Misfortune(c)
  PROVE  /\ pc[c] \in Calls \cup {"accepted"}
         /\ pc'[c] \in Calls => pc[c] \in Calls
         /\ \A d \in Client : d # c => pc'[d] = pc[d]
         /\ UNCHANGED <<input, try>>
BY DEF Handle, Misfortune, Goto, StorePrimary, StoreConflicts, UploadsUnavailable,
   FailPrimary, StoreMirror, MirrorUploadsUnavailable, FailMirror, RecordFailure,
   FailRecord, MarkMirrored, FailMark, SignUrl, FailSign, Drop, LoseReceipt, Calls, IInv, TypeOK

(* Every step of every handler, every failed call and every dropped        *)
(* handler of api.rs keeps the databases, the handlers' knowledge and the  *)
(* answers in accord.                                                      *)
THEOREM InductiveInvariant == Spec => []IInv
<1>1. IInv /\ [Next]_vars => IInv'
  BY BeginPreservesIInv, HandlingPreservesIInv, MisfortunePreservesIInv, StutteringPreservesIInv
     DEF Next
<1>. QED
  BY InitEstablishesIInv, <1>1, PTL DEF Spec

-----------------------------------------------------------------------------
(* What the invariant is worth to those outside: the state properties of   *)
(* DualPersistence, each of which follows from IInv, whatever led there.   *)
Promises ==
  /\ ReceiptsAreDurable
  /\ MirrorFollowsPrimary
  /\ OutboxComplete
  /\ AcknowledgementIsTrue
  /\ StatusesAgree
  /\ StableId
  /\ MirrorNeverContradicts
  /\ RetryIsNeverRefused

LEMMA InvariantNamesOneSubmission == IInv => ReceiptsAreDurable /\ StableId
BY DEF IInv, RepliesInv, Truthful, ReceiptsAreDurable, Created, StableId, Stored, SameSlot,
   DatabaseInv, KeysBindOnce

LEMMA InvariantKeepsMirrorInAgreement == IInv => MirrorNeverContradicts
<1>1. ASSUME IInv, NEW c \in Client, pc[c] = "store_mirror" PROVE MirrorAgrees(c)
  BY <1>1, MirrorAnswersTheSameId
     DEF IInv, TypeOK, HandlerInv, Backed, MirrorAgrees
<1>. QED
  BY <1>1 DEF MirrorNeverContradicts

LEMMA InvariantRefusesNoRetry == IInv => RetryIsNeverRefused
<1>. SUFFICES ASSUME IInv, NEW c \in Client, NEW r \in replies, SameSlot(r, input[c]),
                     r.digest = input[c].digest, r.kind # "application", pc[c] = "refused"
              PROVE  FALSE
  BY DEF RetryIsNeverRefused
<1>1. PICK held \in primaryRows : SameSlot(held, r) /\ held.digest = r.digest
  BY DEF IInv, RepliesInv, Truthful, Stored
<1>2. PICK other \in primaryRows : SameSlot(other, input[c]) /\ other.digest # input[c].digest
  BY DEF IInv, HandlerInv, Backed, Conflicting, Holding, SameSlot
<1>3. held = other
  BY <1>1, <1>2 DEF IInv, DatabaseInv, KeysBindOnce, SameSlot
<1>. QED
  BY <1>1, <1>2, <1>3

LEMMA InvariantKeepsPromises == IInv => Promises
<1>1. IInv => MirrorFollowsPrimary /\ OutboxComplete /\ AcknowledgementIsTrue /\ StatusesAgree
  BY DEF IInv, DatabaseInv
<1>. QED
  BY <1>1, InvariantNamesOneSubmission, InvariantKeepsMirrorInAgreement,
     InvariantRefusesNoRetry DEF Promises

LEMMA PromisesKept == Spec => []Promises
BY InductiveInvariant, InvariantKeepsPromises, PTL

(* The tables, handlers and answers of api.rs and persistence.rs keep      *)
(* their types, for every number of clients and every bound.               *)
THEOREM TypeCorrectness == Spec => []TypeOK
<1>1. IInv => TypeOK
  BY DEF IInv
<1>. QED
  BY <1>1, InductiveInvariant, PTL

(* No client is ever given a 201 by api.rs for a submission one of the two *)
(* databases lacks, whatever fails and whoever races.                      *)
THEOREM ReceiptsDurable == Spec => []ReceiptsAreDurable
<1>1. Promises => ReceiptsAreDurable
  BY DEF Promises
<1>. QED
  BY <1>1, PromisesKept, PTL

(* The mirror never holds a submission, under an id and with a digest,     *)
(* that the primary does not: insert_or_replay keeps them in step.         *)
THEOREM MirrorFollows == Spec => []MirrorFollowsPrimary
<1>1. Promises => MirrorFollowsPrimary
  BY DEF Promises
<1>. QED
  BY <1>1, PromisesKept, PTL

(* Every row of the primary has its outbox row from the transaction that   *)
(* inserted it, whatever persistence.rs is interrupted by.                 *)
THEOREM OutboxIsComplete == Spec => []OutboxComplete
<1>1. Promises => OutboxComplete
  BY DEF Promises
<1>. QED
  BY <1>1, PromisesKept, PTL

(* What mark_mirrored of persistence.rs acknowledges is in the mirror.     *)
THEOREM AcknowledgementsAreTrue == Spec => []AcknowledgementIsTrue
<1>1. Promises => AcknowledgementIsTrue
  BY DEF Promises
<1>. QED
  BY <1>1, PromisesKept, PTL

(* The statuses persistence.rs keeps in a primary row and in its outbox    *)
(* row agree after every transaction.                                      *)
THEOREM StatusesInAccord == Spec => []StatusesAgree
<1>1. Promises => StatusesAgree
  BY DEF Promises
<1>. QED
  BY <1>1, PromisesKept, PTL

(* Whatever api.rs tells clients about one idempotency key names a single  *)
(* UUID and digest that the primary retains.                               *)
THEOREM AnswersNameOneSubmission == Spec => []StableId
<1>1. Promises => StableId
  BY DEF Promises
<1>. QED
  BY <1>1, PromisesKept, PTL

(* The handlers of api.rs never meet a mirror that answers with another id *)
(* or a conflict: their branch for it is taken only when the call fails.   *)
THEOREM MirrorConsistent == Spec => []MirrorNeverContradicts
<1>1. Promises => MirrorNeverContradicts
  BY DEF Promises
<1>. QED
  BY <1>1, PromisesKept, PTL

(* A retry of what a client was told is retained is never answered with a  *)
(* conflict by api.rs.                                                     *)
THEOREM RetriesAreSafe == Spec => []RetryIsNeverRefused
<1>1. Promises => RetryIsNeverRefused
  BY DEF Promises
<1>. QED
  BY <1>1, PromisesKept, PTL

LEMMA RowsOnlyAdded ==
  ASSUME IInv, IInv', [Next]_vars
  PROVE  /\ primaryRows \subseteq primaryRows'
         /\ mirrorRows \subseteq mirrorRows'
         /\ outboxRows \subseteq outboxRows'
<1>1. CASE UNCHANGED vars
  BY <1>1 DEF vars, primaryDb, mirrorDb
<1>. QED
  BY <1>1, EveryStepGrows DEF Next, DatabasesGrow, IInv, DatabaseInv, OutboxComplete

(* No transaction of persistence.rs rewrites or removes the identity of a  *)
(* row, in either database or the outbox.                                  *)
THEOREM RowsNeverChange == Spec => RowsAreImmutable
<1>1. IInv /\ IInv' /\ [Next]_vars =>
        [/\ primaryRows \subseteq primaryRows'
         /\ mirrorRows \subseteq mirrorRows'
         /\ outboxRows \subseteq outboxRows']_vars
  BY RowsOnlyAdded
<1>. QED
  BY <1>1, InductiveInvariant, PTL DEF Spec, RowsAreImmutable

-----------------------------------------------------------------------------
(* Refinement of the two-site ledger: the ledger's variables are projections *)
(* of the rows and of the receipts.                                         *)
Retained == {LedgerEntryOf(row) : row \in primaryRows}
Replicated == {LedgerEntryOf(row) : row \in mirrorRows}
Receipts == {LedgerEntryOf(r) : r \in Created}

LEMMA EntriesTyped ==
  ASSUME TypeOK
  PROVE  /\ \A row \in primaryRows \cup mirrorRows : LedgerEntryOf(row) \in Ledger!LedgerEntry
         /\ \A r \in replies : LedgerEntryOf(r) \in Ledger!LedgerEntry
BY DEF TypeOK, DatabaseTypeOK, Row, Reply, LedgerEntryOf, Ledger!LedgerEntry

(* Storing on the primary retains one entry, or leaves the ledger alone. *)
LEMMA PrimaryStepRefines ==
  ASSUME IInv, NEW c \in Client, pc[c] = "store_primary",
         MaybeCommitPrimary(c), UNCHANGED <<mirrorDb, replies>>
  PROVE  [Ledger!Next]_(Ledger!vars)
<1>1. CASE UNCHANGED primaryRows
  BY <1>1 DEF Ledger!vars, Created, mirrorDb
<1>2. CASE primaryRows' # primaryRows
  <2>. DEFINE x == input[c]
              new == RowOf(x, FreshId(c))
              e == LedgerEntryOf(new)
  <2>1. Insertable(primaryRows, x) /\ primaryRows' = primaryRows \cup {new}
    BY <1>2 DEF MaybeCommitPrimary, CommitPrimary, InsertPrimary, primaryDb
  <2>2. x \in Submission /\ FreshId(c) \in Id /\ \A row \in primaryRows : row.id # FreshId(c)
    BY DEF IInv, TypeOK, HandlerInv, Backed, FreshId, Id
  <2>3. e \in Ledger!LedgerEntry
    BY <2>2 DEF RowOf, Submission, LedgerEntryOf, Ledger!LedgerEntry
  <2>4. \A r \in Retained : r.id # e.id /\ ~ (r.kind = e.kind /\ r.key = e.key)
    BY <2>1, <2>2 DEF Retained, RowOf, LedgerEntryOf, Insertable, Holding, SameSlot
  <2>5. Retained' = Retained \cup {e}
    BY <2>1 DEF Retained
  <2>6. UNCHANGED <<Replicated, Receipts>>
    BY DEF Replicated, Receipts, Created, mirrorDb
  <2>7. Ledger!Retain(e)
    BY <2>4, <2>5, <2>6 DEF Ledger!Retain, Retained, Replicated, Receipts
  <2>. QED
    BY <2>3, <2>7 DEF Ledger!Next
<1>. QED
  BY <1>1, <1>2

(* Storing on the mirror replicates the entry the primary retains. *)
LEMMA MirrorStepRefines ==
  ASSUME IInv, NEW c \in Client, pc[c] = "store_mirror",
         MaybeCommitMirror(c), UNCHANGED <<primaryDb, replies>>
  PROVE  [Ledger!Next]_(Ledger!vars)
<1>1. CASE UNCHANGED mirrorRows
  BY <1>1 DEF Ledger!vars, Created, primaryDb
<1>2. CASE mirrorRows' # mirrorRows
  <2>. DEFINE new == RowOf(input[c], storedId[c])
              e == LedgerEntryOf(new)
  <2>1. mirrorRows' = mirrorRows \cup {new}
    BY <1>2 DEF MaybeCommitMirror, CommitMirror, mirrorDb
  <2>2. PICK owner \in primaryRows :
          SameSlot(owner, input[c]) /\ owner.digest = input[c].digest /\ owner.id = storedId[c]
    BY DEF IInv, HandlerInv, Backed, Stored
  <2>3. e = LedgerEntryOf(owner)
    BY <2>2 DEF RowOf, LedgerEntryOf, SameSlot
  <2>4. e \in Retained /\ e \in Ledger!LedgerEntry
    BY <2>3, EntriesTyped DEF Retained, IInv
  <2>5. Replicated' = Replicated \cup {e}
    BY <2>1 DEF Replicated
  <2>6. UNCHANGED <<Retained, Receipts>>
    BY DEF Retained, Receipts, Created, primaryDb
  <2>7. Ledger!Replicate(e)
    BY <2>4, <2>5, <2>6 DEF Ledger!Replicate, Retained, Replicated, Receipts
  <2>. QED
    BY <2>4, <2>7 DEF Ledger!Next
<1>. QED
  BY <1>1, <1>2

(* A handler that answers acknowledges an entry of both sites, or only     *)
(* says that the submission is incomplete.                                 *)
LEMMA AnswerRefines ==
  ASSUME IInv, NEW c \in Client, UNCHANGED <<primaryRows, mirrorRows>>,
         NEW code \in {"created", "incomplete"}, Say(c, code),
         code = "created" => Stored(mirrorRows, input[c], storedId[c])
  PROVE  [Ledger!Next]_(Ledger!vars)
<1>. DEFINE r == [code |-> code, kind |-> input[c].kind, key |-> input[c].key,
                  digest |-> input[c].digest, id |-> storedId[c]]
            e == LedgerEntryOf(r)
<1>1. replies' = replies \cup {r}
  BY DEF Say
<1>2. UNCHANGED <<Retained, Replicated>>
  BY DEF Retained, Replicated
<1>3. CASE code = "incomplete"
  <2>1. UNCHANGED Receipts
    BY <1>1, <1>3 DEF Receipts, Created
  <2>. QED
    BY <1>2, <2>1 DEF Ledger!vars, Retained, Replicated, Receipts
<1>4. CASE code = "created"
  <2>1. PICK copy \in mirrorRows :
          SameSlot(copy, input[c]) /\ copy.digest = input[c].digest /\ copy.id = storedId[c]
    BY <1>4 DEF Stored
  <2>2. e = LedgerEntryOf(copy)
    BY <2>1 DEF LedgerEntryOf, SameSlot
  <2>3. e \in Replicated /\ e \in Ledger!LedgerEntry
    BY <2>2, EntriesTyped DEF Replicated, IInv
  <2>4. Receipts' = Receipts \cup {e}
    BY <1>1, <1>4 DEF Receipts, Created
  <2>5. Ledger!Acknowledge(e)
    BY <1>2, <2>3, <2>4 DEF Ledger!Acknowledge, Retained, Replicated, Receipts
  <2>. QED
    BY <2>3, <2>5 DEF Ledger!Next
<1>. QED
  BY <1>3, <1>4

(* A step that only moves delivery statuses or control is invisible. *)
LEMMA SilentStepRefines ==
  ASSUME UNCHANGED <<primaryRows, mirrorRows, replies>>
  PROVE  [Ledger!Next]_(Ledger!vars)
BY DEF Ledger!vars, Created

LEMMA NextRefines == IInv /\ [Next]_vars => [Ledger!Next]_(Ledger!vars)
<1>. SUFFICES ASSUME IInv, [Next]_vars PROVE [Ledger!Next]_(Ledger!vars)
  OBVIOUS
<1>1. CASE UNCHANGED vars
  BY <1>1, SilentStepRefines DEF vars, primaryDb, mirrorDb, control
<1>2. ASSUME NEW c \in Client, Begin(c) \/ Handle(c) \/ Misfortune(c)
      PROVE  [Ledger!Next]_(Ledger!vars)
  <2>. USE DEF Goto
  <2>1. CASE StorePrimary(c) \/ FailPrimary(c)
    BY <2>1, PrimaryStepRefines DEF StorePrimary, FailPrimary, MaybeCommitPrimary
  <2>2. CASE StoreMirror(c) \/ FailMirror(c)
    BY <2>2, MirrorStepRefines DEF StoreMirror, FailMirror, MaybeCommitMirror
  <2>3. CASE RecordFailure(c) \/ FailRecord(c) \/ FailMark(c)
    <3>1. UNCHANGED <<primaryRows, mirrorRows>> /\ Say(c, "incomplete")
      BY <2>3, StatusTransactionsKeepRows
         DEF RecordFailure, FailRecord, FailMark, MaybeCommitFailure, mirrorDb
    <3>. QED
      BY <3>1, AnswerRefines
  <2>4. CASE MarkMirrored(c)
    <3>1. UNCHANGED <<primaryRows, mirrorRows>> /\ Stored(mirrorRows, input[c], storedId[c])
      BY <2>4, StatusTransactionsKeepRows
         DEF MarkMirrored, MaybeCommitMark, mirrorDb, IInv, HandlerInv, Backed
    <3>2. UNCHANGED replies \/ Say(c, "created") \/ Say(c, "incomplete")
      BY <2>4 DEF MarkMirrored
    <3>. QED
      BY <3>1, <3>2, AnswerRefines, SilentStepRefines
  <2>5. CASE SignUrl(c)
    <3>1. UNCHANGED <<primaryRows, mirrorRows>> /\ Stored(mirrorRows, input[c], storedId[c])
      BY <2>5 DEF SignUrl, primaryDb, mirrorDb, IInv, HandlerInv, Backed
    <3>. QED
      BY <2>5, <3>1, AnswerRefines DEF SignUrl
  <2>6. CASE Drop(c)
    <3>1. CASE pc[c] = "store_primary"
      BY <2>6, <3>1, PrimaryStepRefines DEF Drop
    <3>2. CASE pc[c] = "store_mirror"
      BY <2>6, <3>2, MirrorStepRefines DEF Drop
    <3>3. CASE pc[c] \in {"record_failure", "mark_mirrored", "sign_url"}
      BY <2>6, <3>3, StatusTransactionsKeepRows, SilentStepRefines DEF Drop, primaryDb, mirrorDb
    <3>. QED
      BY <2>6, <3>1, <3>2, <3>3 DEF Drop, Calls
  <2>7. CASE Begin(c) \/ StoreConflicts(c) \/ UploadsUnavailable(c)
               \/ MirrorUploadsUnavailable(c) \/ FailSign(c) \/ LoseReceipt(c)
    BY <2>7, SilentStepRefines DEF Begin, StoreConflicts, UploadsUnavailable,
       MirrorUploadsUnavailable, FailSign, LoseReceipt, primaryDb, mirrorDb
  <2>. QED
    BY <1>2, <2>1, <2>2, <2>3, <2>4, <2>5, <2>6, <2>7 DEF Handle, Misfortune
<1>. QED
  BY <1>1, <1>2 DEF Next

(* The handlers of api.rs over the databases of persistence.rs implement   *)
(* the two-site ledger: a key is bound once, a copy is exact, and only     *)
(* what both sites hold is acknowledged.                                   *)
THEOREM Refinement == Spec => ImplementsLedger
<1>1. Init => Ledger!Init
  BY DEF Init, EmptyDatabases, Ledger!Init, Created
<1>. QED
  BY <1>1, NextRefines, InductiveInvariant, PTL DEF Spec, ImplementsLedger, Ledger!Spec

-----------------------------------------------------------------------------
(***************************************************************************)
(* Composition with OutboxRetry.  Inserting a row does not touch an entry  *)
(* that was in use, because no entry is in use before its row is inserted; *)
(* and only the two transactions of OutboxRetry touch it afterwards.       *)
(***************************************************************************)
UnusedEntriesAreNew ==
  \A id \in Id : (\A row \in primaryRows : row.id # id) => outbox[id] = NewEntry

(* The entry of one id is failed or acknowledged, and that of no other. *)
EntryMoves(id) ==
  /\ \E row \in primaryRows : row.id = id
  /\ \/ outbox' = [outbox EXCEPT ![id] = Delivered(@)]
     \/ CanFail(outbox[id]) /\ outbox' = [outbox EXCEPT ![id] = Failed(@)]

LEMMA StoringTouchesNoEntry ==
  ASSUME IInv, UnusedEntriesAreNew, NEW c \in Client, pc[c] = "store_primary",
         MaybeCommitPrimary(c)
  PROVE  UNCHANGED outbox
<1>1. FreshId(c) \in Id /\ outbox[FreshId(c)] = NewEntry
  BY DEF UnusedEntriesAreNew, IInv, TypeOK, HandlerInv, Backed, FreshId, Id
<1>2. [outbox EXCEPT ![FreshId(c)] = NewEntry] = outbox
  BY <1>1 DEF IInv, TypeOK, DatabaseTypeOK
<1>. QED
  BY <1>2 DEF MaybeCommitPrimary, CommitPrimary, InsertPrimary, RowOf, primaryDb

LEMMA StatusTransactionsMoveAnEntry ==
  ASSUME IInv, NEW c \in Client, MaybeCommitMark(c) \/ MaybeCommitFailure(c)
  PROVE  UNCHANGED primaryRows /\ (UNCHANGED outbox \/ EntryMoves(storedId[c]))
<1>1. ASSUME NEW o \in outboxRows PROVE \E row \in primaryRows : row.id = o.id
  BY <1>1 DEF IInv, DatabaseInv, OutboxComplete, OutboxRowOf
<1>2. CASE MaybeCommitMark(c)
  BY <1>1, <1>2 DEF MaybeCommitMark, CommitMarkMirrored, CanMarkMirrored, EntryMoves, primaryDb
<1>3. CASE MaybeCommitFailure(c)
  BY <1>1, <1>3 DEF MaybeCommitFailure, CommitMirrorFailure, CanRecordFailure, EntryMoves, primaryDb
<1>. QED
  BY <1>2, <1>3

LEMMA OneEntryMoves ==
  ASSUME IInv, UnusedEntriesAreNew, [Next]_vars
  PROVE  /\ UNCHANGED outbox \/ \E id \in Id : EntryMoves(id)
         /\ primaryRows \subseteq primaryRows'
<1>1. CASE UNCHANGED vars
  BY <1>1 DEF vars, primaryDb
<1>2. ASSUME NEW c \in Client, Begin(c) \/ Handle(c) \/ Misfortune(c)
      PROVE  /\ UNCHANGED outbox \/ \E id \in Id : EntryMoves(id)
             /\ primaryRows \subseteq primaryRows'
  <2>. primaryRows \subseteq primaryRows'
    BY <1>2, EveryStepGrows DEF DatabasesGrow
  <2>. storedId[c] \in Id
    BY DEF IInv, TypeOK
  <2>. USE DEF Goto, Begin, Handle, Misfortune, StorePrimary, StoreConflicts, UploadsUnavailable,
           FailPrimary, StoreMirror, MirrorUploadsUnavailable, FailMirror, RecordFailure,
           FailRecord, MarkMirrored, FailMark, SignUrl, FailSign, Drop, LoseReceipt
  <2>1. CASE pc[c] = "store_primary"
    <3>1. MaybeCommitPrimary(c)
      BY <1>2, <2>1 DEF MaybeCommitPrimary
    <3>. QED
      BY <2>1, <3>1, StoringTouchesNoEntry
  <2>2. CASE pc[c] \in {"record_failure", "mark_mirrored"}
    <3>1. MaybeCommitMark(c) \/ MaybeCommitFailure(c)
      BY <1>2, <2>2 DEF MaybeCommitMark, MaybeCommitFailure
    <3>. QED
      BY <3>1, StatusTransactionsMoveAnEntry
  <2>3. CASE pc[c] \notin {"store_primary", "record_failure", "mark_mirrored"}
    BY <1>2, <2>3 DEF Calls, primaryDb
  <2>. QED
    BY <2>1, <2>2, <2>3
<1>. QED
  BY <1>1, <1>2 DEF Next

LEMMA UnusedEntriesStayNew ==
  ASSUME IInv, UnusedEntriesAreNew, [Next]_vars
  PROVE  UnusedEntriesAreNew'
<1>1. primaryRows \subseteq primaryRows'
  BY OneEntryMoves
<1>2. CASE UNCHANGED outbox
  BY <1>1, <1>2 DEF UnusedEntriesAreNew
<1>3. ASSUME NEW moved \in Id, EntryMoves(moved) PROVE UnusedEntriesAreNew'
  <2>1. \A id \in Id : id # moved => outbox'[id] = outbox[id]
    BY <1>3 DEF EntryMoves, IInv, TypeOK, DatabaseTypeOK
  <2>. QED
    BY <1>1, <1>3, <2>1 DEF EntryMoves, UnusedEntriesAreNew
<1>. QED
  BY <1>2, <1>3, OneEntryMoves

(* What a step makes of the entry of an id: one of the two transactions,   *)
(* or nothing.                                                             *)
LEMMA EntryFate ==
  ASSUME IInv, UnusedEntriesAreNew, [Next]_vars, NEW id \in Id
  PROVE  \/ outbox'[id] = outbox[id]
         \/ outbox'[id] = Delivered(outbox[id])
         \/ CanFail(outbox[id]) /\ outbox'[id] = Failed(outbox[id])
<1>. SUFFICES ASSUME outbox'[id] # outbox[id]
              PROVE  \/ outbox'[id] = Delivered(outbox[id])
                     \/ CanFail(outbox[id]) /\ outbox'[id] = Failed(outbox[id])
  OBVIOUS
<1>1. PICK moved \in Id : EntryMoves(moved)
  BY OneEntryMoves
<1>2. id = moved
  BY <1>1 DEF EntryMoves, IInv, TypeOK, DatabaseTypeOK
<1>. QED
  BY <1>1, <1>2 DEF EntryMoves, IInv, TypeOK, DatabaseTypeOK

LEMMA EntriesTakeRetrySteps ==
  ASSUME IInv, UnusedEntriesAreNew, [Next]_vars
  PROVE  \A id \in Id : [Delivery(id)!Next]_(outbox[id])
<1>. SUFFICES ASSUME NEW id \in Id, outbox'[id] # outbox[id] PROVE Delivery(id)!Next
  OBVIOUS
<1>1. \/ outbox'[id] = Delivered(outbox[id])
      \/ CanFail(outbox[id]) /\ outbox'[id] = Failed(outbox[id])
  BY EntryFate
<1>. QED
  BY <1>1 DEF Delivery!Next, Delivery!RecordMirrorFailure, Delivery!MarkMirrored,
     Delivery!Delivered, Delivery!CanFail, Delivery!Failed, Delivered, CanFail, Failed,
     Delivery!Backoff, Backoff, Delivery!Least, Least, Delivery!Int4ShiftLeft, Int4ShiftLeft

LEMMA EntriesStartNew ==
  Init => UnusedEntriesAreNew /\ \A id \in Id : outbox[id] = NewEntry
BY DEF Init, EmptyDatabases, UnusedEntriesAreNew

LEMMA UnusedEntriesInvariant == Spec => []UnusedEntriesAreNew
BY EntriesStartNew, UnusedEntriesStayNew, InductiveInvariant, PTL DEF Spec

(* Every outbox row that the handlers of api.rs write leads the life       *)
(* OutboxRetry describes, and no other: whichever handlers race for the    *)
(* submission, and whatever is replayed, failed or dropped.                *)
THEOREM RetryImplemented == Spec => EntriesFollowRetry
<1>1. Init => \A id \in Id : Delivery(id)!Init
  BY EntriesStartNew DEF Delivery!Init, Delivery!NewEntry, NewEntry
<1>2. IInv /\ UnusedEntriesAreNew /\ [Next]_vars =>
        [\A id \in Id : [Delivery(id)!Next]_(outbox[id])]_outbox
  BY EntriesTakeRetrySteps
<1>. QED
  BY <1>1, <1>2, InductiveInvariant, UnusedEntriesInvariant, PTL DEF Spec, EntriesFollowRetry

(* The state properties of OutboxRetry, of every row of the outbox. *)
EntryInv(id) == Delivery(id)!TerminalWhenExhausted /\ Delivery(id)!ErrorIffFailed

(* In the running system persistence.rs abandons a delivery exactly when   *)
(* its attempts are used up, and keeps an error code exactly while the     *)
(* last thing recorded of the mirror is a failure.                         *)
THEOREM EveryDeliveryInOrder == Spec => [](\A id \in Id : EntryInv(id))
<1>. USE DEF EntryInv, Delivery!TerminalWhenExhausted, Delivery!ErrorIffFailed
<1>1. Init => \A id \in Id : EntryInv(id)
  BY EntriesStartNew, MaxAttemptsAssumption DEF NewEntry
<1>2. ASSUME IInv, UnusedEntriesAreNew, [Next]_vars, NEW id \in Id, EntryInv(id)
      PROVE  EntryInv(id)'
  <2>. outbox[id] \in Entry
    BY <1>2 DEF IInv, TypeOK, DatabaseTypeOK
  <2>1. CASE outbox'[id] = outbox[id]
    BY <1>2, <2>1
  <2>2. CASE outbox'[id] = Delivered(outbox[id])
    BY <1>2, <2>2, DeliveredFields
  <2>3. CASE CanFail(outbox[id]) /\ outbox'[id] = Failed(outbox[id])
    <3>1. /\ outbox'[id].status = "terminal_failure" <=> outbox'[id].attempts = MaxAttempts
          /\ outbox'[id].status \in {"retryable_failure", "terminal_failure"}
          /\ outbox'[id].error
      BY <2>3, FailedFields, Zenon
    <3>. QED
      BY <3>1, Zenon
  <2>. QED
    BY <1>2, <2>1, <2>2, <2>3, EntryFate
<1>3. IInv /\ UnusedEntriesAreNew /\ (\A id \in Id : EntryInv(id)) /\ [Next]_vars
        => (\A id \in Id : EntryInv(id))'
  BY <1>2
<1>. QED
  BY <1>1, <1>3, InductiveInvariant, UnusedEntriesInvariant, PTL DEF Spec

(* No handler that failed on the mirror long ago takes back, through       *)
(* record_mirror_failure, the acknowledgement of a submission whose        *)
(* attempts are used up: the transaction is rolled back, row and entry.    *)
EveryAcknowledgementFinal ==
  [][\A id \in Id : outbox[id].attempts = MaxAttempts /\ outbox[id].status = "mirrored"
       => outbox'[id].status = "mirrored"]_outbox

THEOREM LateFailuresRollBack == Spec => EveryAcknowledgementFinal
<1>1. IInv /\ UnusedEntriesAreNew /\ [Next]_vars =>
        [\A id \in Id : outbox[id].attempts = MaxAttempts /\ outbox[id].status = "mirrored"
           => outbox'[id].status = "mirrored"]_outbox
  <2>. SUFFICES ASSUME IInv, UnusedEntriesAreNew, [Next]_vars, NEW id \in Id,
                       outbox[id].attempts = MaxAttempts, outbox[id].status = "mirrored"
                PROVE  outbox'[id].status = "mirrored"
    OBVIOUS
  <2>1. outbox[id] \in Entry /\ ~ CanFail(outbox[id])
    BY MaxAttemptsAssumption DEF IInv, TypeOK, DatabaseTypeOK, CanFail
  <2>. QED
    BY <2>1, EntryFate, DeliveredFields
<1>. QED
  BY <1>1, InductiveInvariant, UnusedEntriesInvariant, PTL DEF Spec, EveryAcknowledgementFinal

-----------------------------------------------------------------------------
(* The row of a request keeps its subject, and requests keep theirs.       *)
LEMMA RowsSent == Spec => []RowsAreSent
<1>1. Init => RowsAreSent
  BY DEF Init, EmptyDatabases, RowsAreSent
<1>2. IInv /\ RowsAreSent /\ [Next]_vars => RowsAreSent'
  <2>. SUFFICES ASSUME IInv, RowsAreSent, [Next]_vars PROVE RowsAreSent'
    OBVIOUS
  <2>1. ASSUME NEW c \in Client, Begin(c) PROVE RowsAreSent'
    BY <2>1 DEF Begin, RowsAreSent, primaryDb, mirrorDb
  <2>2. ASSUME NEW c \in Client, Handle(c) \/ Misfortune(c) PROVE RowsAreSent'
    <3>1. UNCHANGED input
      BY <2>2, HandlerMoves
    <3>2. ASSUME NEW row \in primaryRows' \cup mirrorRows'
          PROVE  \/ row \in primaryRows \cup mirrorRows
                 \/ row = RowOf(input[c], FreshId(c)) \/ row = RowOf(input[c], storedId[c])
      BY <2>2, <3>2, RowsAdded
    <3>3. \A id : RowOf(input[c], id) = RowOf(input[c], RowOf(input[c], id).id)
      BY DEF RowOf
    <3>. QED
      BY <3>1, <3>2, <3>3 DEF RowsAreSent
  <2>3. CASE UNCHANGED vars
    BY <2>3 DEF vars, control, primaryDb, mirrorDb, RowsAreSent
  <2>. QED
    BY <2>1, <2>2, <2>3 DEF Next
<1>. QED
  BY <1>1, <1>2, InductiveInvariant, PTL DEF Spec

LEMMA IdentitiesStay == OneIdentityEach /\ [Next]_vars => OneIdentityEach'
BY DEF OneIdentityEach, Next, vars, control, Begin, Handle, Misfortune, StorePrimary,
   StoreConflicts, UploadsUnavailable, FailPrimary, StoreMirror, MirrorUploadsUnavailable,
   FailMirror, RecordFailure, FailRecord, MarkMirrored, FailMark, SignUrl, FailSign, Drop,
   LoseReceipt

(* What it takes for the subject to be the same in both databases: persist *)
(* and insert_or_replay compare digests only, so it is as much the clients'*)
(* doing as the code's.  If whoever repeats a submission does so under the *)
(* identity it was first sent under, the mirror's subject is the primary's,*)
(* whatever fails and whoever races.                                       *)
THEOREM SubjectsFollowIdentity == Spec /\ OneIdentityEach => []SameSubject
<1>1. ASSUME IInv, RowsAreSent, OneIdentityEach PROVE SameSubject
  <2>. SUFFICES ASSUME NEW row \in primaryRows, NEW m \in mirrorRows, row.id = m.id
                PROVE  row.subject = m.subject
    BY DEF SameSubject
  <2>1. PICK owner \in primaryRows :
          SameSlot(owner, m) /\ owner.digest = m.digest /\ owner.id = m.id
    BY <1>1 DEF IInv, DatabaseInv, MirrorFollowsPrimary, Stored
  <2>2. owner = row
    BY <1>1, <2>1 DEF IInv, DatabaseInv, IdsAreUnique
  <2>3. PICK c \in Client : row = RowOf(input[c], row.id)
    BY <1>1 DEF RowsAreSent
  <2>4. PICK d \in Client : m = RowOf(input[d], m.id)
    BY <1>1 DEF RowsAreSent
  <2>5. SameSlot(input[c], input[d]) /\ input[c].digest = input[d].digest
    BY <2>1, <2>2, <2>3, <2>4 DEF RowOf, SameSlot
  <2>6. row.subject = input[c].subject /\ m.subject = input[d].subject
    BY <2>3, <2>4 DEF RowOf
  <2>. QED
    BY <1>1, <2>5, <2>6 DEF OneIdentityEach
<1>2. Spec /\ OneIdentityEach => []OneIdentityEach
  BY IdentitiesStay, PTL DEF Spec
<1>. QED
  BY <1>1, <1>2, InductiveInvariant, RowsSent, PTL
=============================================================================
