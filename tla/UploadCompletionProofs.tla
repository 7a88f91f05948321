------------------------- MODULE UploadCompletionProofs -------------------------
(***************************************************************************)
(* Whatever the database shows as verified is true: the inductive          *)
(* invariant of complete_upload, proved for any clients, uploads, owners,  *)
(* files and bounds.  Then the same with objects read chunk by chunk, by a *)
(* refinement.                                                             *)
(***************************************************************************)
EXTENDS StreamedCompletion, StreamedBodyProofs

(* What the three updates of a table leave alone. *)
LEMMA TableUpdates ==
  ASSUME NEW table \in Table
  PROVE  /\ \A row \in ReservedUpload :
              /\ Reserve(table, row) \in Table
              /\ Reserve(table, row).rows = table.rows \cup {row}
              /\ Reserve(table, row).verified = table.verified
              /\ Reserve(table, row).expired = table.expired
         /\ \A u \in Upload :
              /\ MarkVerified(table, u) \in Table
              /\ MarkVerified(table, u).rows = table.rows
              /\ MarkVerified(table, u).verified = table.verified \cup {u}
              /\ MarkVerified(table, u).expired = table.expired
              /\ Expire(table, u) \in Table
              /\ Expire(table, u).rows = table.rows
              /\ Expire(table, u).verified = table.verified
              /\ Expire(table, u).expired = table.expired \cup {u}
<1>. USE DEF Table
<1>1. ASSUME NEW row \in ReservedUpload
      PROVE  /\ Reserve(table, row) \in Table
             /\ Reserve(table, row).rows = table.rows \cup {row}
             /\ Reserve(table, row).verified = table.verified
             /\ Reserve(table, row).expired = table.expired
  BY <1>1 DEF Reserve
<1>2. ASSUME NEW u \in Upload
      PROVE  /\ MarkVerified(table, u) \in Table
             /\ MarkVerified(table, u).rows = table.rows
             /\ MarkVerified(table, u).verified = table.verified \cup {u}
             /\ MarkVerified(table, u).expired = table.expired
  BY <1>2 DEF MarkVerified
<1>3. ASSUME NEW u \in Upload
      PROVE  /\ Expire(table, u) \in Table
             /\ Expire(table, u).rows = table.rows
             /\ Expire(table, u).verified = table.verified
             /\ Expire(table, u).expired = table.expired \cup {u}
  BY <1>3 DEF Expire
<1>. QED
  BY <1>1, <1>2, <1>3

(* What the invariant says of the tables, apart from the handlers. *)
LEMMA TableTypes ==
  ASSUME IInv
  PROVE  /\ primary \in Table /\ mirror \in Table
         /\ primary.rows \subseteq ReservedUpload /\ mirror.rows \subseteq ReservedUpload
         /\ primary.verified \subseteq Upload /\ mirror.verified \subseteq Upload
         /\ pc \in [Client -> Calls \cup {"idle", "completed"}]
         /\ request \in [Client -> Request]
         /\ \A c \in Client : request[c].upload \in Upload /\ request[c].owner \in Owner
         /\ object \in [Upload -> File \cup {NoFile}]
         /\ completed \subseteq Upload \X Owner
         /\ faults \in 0 .. MaxFaults
BY DEF IInv, TypeOK, Table, Request

-----------------------------------------------------------------------------
(* A step of one handler that leaves the tables alone keeps the invariant  *)
(* if the handler knows what its new place requires.                       *)
LEMMA OneHandlerMoves ==
  ASSUME IInv, NEW c \in Client, NEW to \in Calls \cup {"idle", "completed"},
         pc' = [pc EXCEPT ![c] = to],
         UNCHANGED <<tables, object, request, completed>>,
         faults' \in 0 .. MaxFaults,
         Known(c)'
  PROVE  IInv'
<1>1. TypeOK'
  BY TableTypes DEF tables, TypeOK, IInv
<1>2. ASSUME NEW d \in Client PROVE Known(d)'
  <2>1. CASE d = c
    BY <2>1
  <2>2. CASE d # c
    BY <2>2, TableTypes DEF IInv, Known, tables, RowsFor, Owns, Declares
  <2>. QED
    BY <2>1, <2>2
<1>3. TablesInv' /\ VerifiedObjectsMatch' /\ VerifiedTogether' /\ CompletionIsTrue'
  BY DEF IInv, tables, TablesInv, OneRowEach, Reserved, VerifiedObjectsMatch,
         VerifiedTogether, CompletionIsTrue, Owns
<1>. QED
  BY <1>1, <1>2, <1>3 DEF IInv

LEMMA ReadingPreservesIInv ==
  ASSUME IInv, NEW c \in Client,
         Begin(c) \/ ReadPrimary(c) \/ ReadMirror(c) \/ VerifyObject(c)
  PROVE  IInv'
<1>. USE TableTypes DEF Known, Calls, RowsFor, Owns, Declares, tables, Goto
<1>0. faults' \in 0 .. MaxFaults
  BY DEF Begin, ReadPrimary, ReadMirror, VerifyObject
<1>1. CASE Begin(c)
  BY <1>0, <1>1, OneHandlerMoves DEF Begin
<1>2. CASE ReadPrimary(c)
  <2>1. AvailableTo(primary, c) => Owns(primary, request[c].upload, request[c].owner)
    BY DEF AvailableTo
  <2>. QED
    BY <1>0, <1>2, <2>1, OneHandlerMoves DEF ReadPrimary
<1>3. CASE ReadMirror(c)
  <2>1. AvailableTo(mirror, c) => Owns(mirror, request[c].upload, request[c].owner)
    BY DEF AvailableTo
  <2>2. /\ Owns(primary, request[c].upload, request[c].owner)
        /\ Declares(primary, c, request[c].sha)
    BY <1>3 DEF ReadMirror, IInv
  <2>. QED
    BY <1>0, <1>3, <2>1, <2>2, OneHandlerMoves DEF ReadMirror
<1>4. CASE VerifyObject(c)
  <2>1. /\ Owns(primary, request[c].upload, request[c].owner)
        /\ Owns(mirror, request[c].upload, request[c].owner)
        /\ Declares(primary, c, request[c].sha)
    BY <1>4 DEF VerifyObject, IInv
  <2>. QED
    BY <1>0, <1>4, <2>1, OneHandlerMoves DEF VerifyObject
<1>. QED
  BY <1>1, <1>2, <1>3, <1>4

-----------------------------------------------------------------------------
(* The object of an upload whose file a handler has compared is the file   *)
(* that every row of that upload declares.                                 *)
LEMMA ComparedObjects ==
  ASSUME IInv, NEW c \in Client, pc[c] \in {"verify_mirror", "verify_primary"},
         NEW row \in primary.rows \cup mirror.rows, row.upload = request[c].upload
  PROVE  object[row.upload] = row.file
<1>1. PICK p \in RowsFor(primary, c) : object[request[c].upload] = p.file
  BY DEF IInv, Known
<1>2. p \in primary.rows /\ p.upload = row.upload
  BY <1>1 DEF RowsFor
<1>3. CASE row \in primary.rows
  BY <1>1, <1>2, <1>3 DEF IInv, TablesInv, OneRowEach
<1>4. CASE row \in mirror.rows
  <2>1. PICK q \in primary.rows : q.upload = row.upload /\ q.file = row.file
    BY <1>4 DEF IInv, TablesInv
  <2>2. p = q
    BY <1>2, <2>1 DEF IInv, TablesInv, OneRowEach
  <2>. QED
    BY <1>1, <2>1, <2>2
<1>. QED
  BY <1>3, <1>4

(* The mirror's update, whether the handler lives to see its outcome or    *)
(* not.                                                                    *)
LEMMA MirrorVerified ==
  ASSUME IInv, NEW c \in Client, pc[c] = "verify_mirror",
         mirror' = CommitVerified(mirror, c),
         UNCHANGED <<primary, object, request, completed>>,
         NEW to \in {"idle", "verify_primary"}, pc' = [pc EXCEPT ![c] = to],
         to = "verify_primary" => CanVerify(mirror, c),
         faults' \in 0 .. MaxFaults
  PROVE  IInv'
<1>. DEFINE u == request[c].upload
<1>1. /\ mirror' \in Table
      /\ mirror'.rows = mirror.rows
      /\ mirror.verified \subseteq mirror'.verified
      /\ mirror'.verified \subseteq mirror.verified \cup {u}
      /\ to = "verify_primary" => u \in mirror'.verified
  BY TableTypes, TableUpdates DEF CommitVerified
<1>2. TypeOK'
  BY <1>1, TableTypes DEF TypeOK, IInv, Calls
<1>3. Owns(primary, u, request[c].owner) /\ Owns(mirror, u, request[c].owner)
  BY DEF IInv, Known, Calls
<1>4. Reserved(mirror, u)
  BY <1>3 DEF Owns, Reserved
<1>5. TablesInv'
  BY <1>1, <1>4 DEF IInv, TablesInv, OneRowEach, Reserved
<1>6. ASSUME NEW d \in Client PROVE Known(d)'
  <2>1. CASE d = c
    BY <1>1, <2>1, TableTypes DEF IInv, Known, RowsFor, Owns, Declares, Calls
  <2>2. CASE d # c
    BY <1>1, <2>2, TableTypes DEF IInv, Known, RowsFor, Owns, Declares
  <2>. QED
    BY <2>1, <2>2
<1>7. VerifiedObjectsMatch'
  <2>. SUFFICES ASSUME NEW row \in primary.rows \cup mirror.rows,
                       row.upload \in primary.verified \cup mirror.verified \cup {u}
                PROVE  object[row.upload] = row.file
    BY <1>1 DEF VerifiedObjectsMatch
  <2>1. CASE row.upload = u
    BY <2>1, ComparedObjects
  <2>2. CASE row.upload # u
    BY <2>2 DEF IInv, VerifiedObjectsMatch
  <2>. QED
    BY <2>1, <2>2
<1>8. VerifiedTogether'
  BY <1>1 DEF IInv, VerifiedTogether, Owns
<1>9. CompletionIsTrue'
  BY <1>1 DEF IInv, CompletionIsTrue, Owns
<1>. QED
  BY <1>2, <1>5, <1>6, <1>7, <1>8, <1>9 DEF IInv

(* The primary's update, likewise; only a handler that sees it succeed     *)
(* answers 200.                                                            *)
LEMMA PrimaryVerified ==
  ASSUME IInv, NEW c \in Client, pc[c] = "verify_primary",
         primary' = CommitVerified(primary, c),
         UNCHANGED <<mirror, object, request>>,
         NEW to \in {"idle", "completed"}, pc' = [pc EXCEPT ![c] = to],
         \/ UNCHANGED completed
         \/ /\ CanVerify(primary, c)
            /\ completed' = completed \cup {<<request[c].upload, request[c].owner>>},
         faults' \in 0 .. MaxFaults
  PROVE  IInv'
<1>. DEFINE u == request[c].upload
            o == request[c].owner
<1>1. /\ primary' \in Table
      /\ primary'.rows = primary.rows
      /\ primary.verified \subseteq primary'.verified
      /\ primary'.verified \subseteq primary.verified \cup {u}
      /\ CanVerify(primary, c) => u \in primary'.verified
  BY TableTypes, TableUpdates DEF CommitVerified
<1>2. TypeOK'
  BY <1>1, TableTypes DEF TypeOK, IInv, Calls
<1>3. Owns(primary, u, o) /\ Owns(mirror, u, o) /\ u \in mirror.verified
  BY DEF IInv, Known, Calls
<1>4. Reserved(primary, u)
  BY <1>3 DEF Owns, Reserved
<1>5. TablesInv'
  BY <1>1, <1>4 DEF IInv, TablesInv, OneRowEach, Reserved
<1>6. ASSUME NEW d \in Client PROVE Known(d)'
  <2>1. CASE d = c
    BY <1>1, <2>1, TableTypes DEF IInv, Known, RowsFor, Owns, Declares, Calls
  <2>2. CASE d # c
    BY <1>1, <2>2, TableTypes DEF IInv, Known, RowsFor, Owns, Declares
  <2>. QED
    BY <2>1, <2>2
<1>7. VerifiedObjectsMatch'
  <2>. SUFFICES ASSUME NEW row \in primary.rows \cup mirror.rows,
                       row.upload \in primary.verified \cup mirror.verified \cup {u}
                PROVE  object[row.upload] = row.file
    BY <1>1 DEF VerifiedObjectsMatch
  <2>1. CASE row.upload = u
    BY <2>1, ComparedObjects
  <2>2. CASE row.upload # u
    BY <2>2 DEF IInv, VerifiedObjectsMatch
  <2>. QED
    BY <2>1, <2>2
<1>8. VerifiedTogether'
  <2>1. ASSUME NEW p \in Owner PROVE Owns(primary, u, p) <=> Owns(mirror, u, p)
    BY <1>3 DEF IInv, TablesInv, OneRowEach, Owns
  <2>. QED
    BY <1>1, <1>3, <2>1 DEF IInv, VerifiedTogether, Owns
<1>9. CompletionIsTrue'
  <2>1. \A done \in completed :
          /\ done[1] \in primary'.verified /\ Owns(primary, done[1], done[2])
          /\ done[1] \in mirror.verified /\ Owns(mirror, done[1], done[2])
    BY <1>1 DEF IInv, CompletionIsTrue
  <2>2. ASSUME NEW done \in completed', NEW table \in {primary', mirror'}
        PROVE  done[1] \in table.verified /\ Owns(table, done[1], done[2])
    BY <1>1, <1>3, <2>1 DEF Owns
  <2>. QED
    BY <2>2 DEF CompletionIsTrue, Owns
<1>. QED
  BY <1>2, <1>5, <1>6, <1>7, <1>8, <1>9 DEF IInv

LEMMA VerifyingPreservesIInv ==
  ASSUME IInv, NEW c \in Client, VerifyMirror(c) \/ VerifyPrimary(c)
  PROVE  IInv'
<1>1. CASE VerifyMirror(c)
  BY <1>1, MirrorVerified, TableTypes DEF VerifyMirror, Goto
<1>2. CASE VerifyPrimary(c)
  BY <1>2, PrimaryVerified, TableTypes DEF VerifyPrimary, Goto
<1>. QED
  BY <1>1, <1>2

LEMMA FailingPreservesIInv ==
  ASSUME IInv, NEW c \in Client, Fail(c)
  PROVE  IInv'
<1>1. faults' \in 0 .. MaxFaults
  BY FaultsAssumption, TableTypes DEF Fail, Fault
<1>2. CASE UNCHANGED tables
  BY <1>1, <1>2, OneHandlerMoves, TableTypes DEF Fail, Known, Calls
<1>3. CASE pc[c] = "verify_mirror" /\ mirror' = CommitVerified(mirror, c)
  BY <1>1, <1>3, MirrorVerified DEF Fail
<1>4. CASE pc[c] = "verify_primary" /\ primary' = CommitVerified(primary, c)
  BY <1>1, <1>4, PrimaryVerified DEF Fail
<1>. QED
  BY <1>2, <1>3, <1>4 DEF Fail, tables

-----------------------------------------------------------------------------
(* The environment adds rows for uploads that have none, and so disturbs   *)
(* nothing that is verified.                                               *)
LEMMA ReservingPreservesIInv ==
  ASSUME IInv, NEW row \in ReservedUpload, ReservePrimary(row) \/ ReserveMirror(row)
  PROVE  IInv'
<1>. DEFINE Grows(table, new) == /\ new \in Table
                                 /\ new.rows = table.rows \cup {row}
                                 /\ new.verified = table.verified
<1>1. \/ ReservePrimary(row) /\ Grows(primary, primary') /\ UNCHANGED mirror
      \/ ReserveMirror(row) /\ Grows(mirror, mirror') /\ UNCHANGED primary
  BY TableTypes, TableUpdates DEF ReservePrimary, ReserveMirror
<1>2. UNCHANGED <<object, pc, request, completed, faults>>
  BY DEF ReservePrimary, ReserveMirror
<1>3. row.upload \notin primary.verified /\ row.upload \notin mirror.verified
  <2>1. CASE ReservePrimary(row)
    BY <2>1 DEF ReservePrimary, IInv, TablesInv, Reserved
  <2>2. CASE ReserveMirror(row)
    BY <2>2 DEF ReserveMirror, IInv, TablesInv, VerifiedTogether, Reserved
  <2>. QED
    BY <2>1, <2>2
<1>4. TypeOK'
  BY <1>1, <1>2, TableTypes DEF TypeOK, IInv
<1>5. TablesInv'
  <2>1. CASE ReservePrimary(row)
    BY <1>1, <1>2, <2>1 DEF ReservePrimary, ReserveMirror, IInv, TablesInv, OneRowEach, Reserved
  <2>2. CASE ReserveMirror(row)
    BY <1>1, <1>2, <2>2 DEF ReservePrimary, ReserveMirror, IInv, TablesInv, OneRowEach, Reserved
  <2>. QED
    BY <2>1, <2>2
<1>6. ASSUME NEW c \in Client PROVE Known(c)'
  BY <1>1, <1>2 DEF IInv, Known, RowsFor, Owns, Declares
<1>7. VerifiedObjectsMatch'
  BY <1>1, <1>2, <1>3 DEF IInv, VerifiedObjectsMatch
<1>8. VerifiedTogether'
  BY <1>1, <1>3 DEF IInv, VerifiedTogether, Owns
<1>9. CompletionIsTrue'
  BY <1>1, <1>2 DEF IInv, CompletionIsTrue, Owns
<1>. QED
  BY <1>4, <1>5, <1>6, <1>7, <1>8, <1>9 DEF IInv

(* An object compared with a file is there, so it is not put any more. *)
LEMMA PuttingPreservesIInv ==
  ASSUME IInv, NEW u \in Upload, NEW file \in File, PutObject(u, file)
  PROVE  IInv'
<1>. USE TableTypes, NoFileAssumption DEF PutObject, tables, ReservedUpload
<1>1. TypeOK' /\ TablesInv' /\ VerifiedTogether' /\ CompletionIsTrue'
  BY DEF IInv, TypeOK, TablesInv, OneRowEach, Reserved, VerifiedTogether,
         CompletionIsTrue, Owns
<1>2. ASSUME NEW c \in Client PROVE Known(c)'
  BY <1>2 DEF IInv, Known, RowsFor, Owns, Declares
<1>3. VerifiedObjectsMatch'
  BY DEF IInv, VerifiedObjectsMatch
<1>. QED
  BY <1>1, <1>2, <1>3 DEF IInv

LEMMA ExpiringPreservesIInv ==
  ASSUME IInv, NEW u \in Upload, ExpirePrimary(u) \/ ExpireMirror(u)
  PROVE  IInv'
<1>1. /\ primary' \in Table /\ mirror' \in Table
      /\ primary'.rows = primary.rows /\ primary'.verified = primary.verified
      /\ mirror'.rows = mirror.rows /\ mirror'.verified = mirror.verified
      /\ UNCHANGED <<object, pc, request, completed, faults>>
  BY TableTypes, TableUpdates DEF ExpirePrimary, ExpireMirror
<1>2. TypeOK' /\ TablesInv' /\ VerifiedTogether' /\ CompletionIsTrue' /\ VerifiedObjectsMatch'
  BY <1>1, TableTypes DEF IInv, TypeOK, TablesInv, OneRowEach, Reserved,
         VerifiedTogether, VerifiedObjectsMatch, CompletionIsTrue, Owns
<1>3. ASSUME NEW c \in Client PROVE Known(c)'
  BY <1>1 DEF IInv, Known, RowsFor, Owns, Declares
<1>. QED
  BY <1>2, <1>3 DEF IInv

LEMMA NextPreservesIInv ==
  ASSUME IInv, [Next]_vars
  PROVE  IInv'
<1>1. CASE UNCHANGED vars
  BY <1>1 DEF vars, tables, IInv, TypeOK, TablesInv, OneRowEach, Reserved, Known, RowsFor,
              Owns, Declares, VerifiedObjectsMatch, VerifiedTogether, CompletionIsTrue
<1>2. CASE Environment
  BY <1>2, ReservingPreservesIInv, PuttingPreservesIInv, ExpiringPreservesIInv DEF Environment
<1>3. ASSUME NEW c \in Client, Begin(c) \/ Handle(c) \/ Fail(c) PROVE IInv'
  BY <1>3, ReadingPreservesIInv, VerifyingPreservesIInv, FailingPreservesIInv DEF Handle
<1>. QED
  BY <1>1, <1>2, <1>3 DEF Next

-----------------------------------------------------------------------------
LEMMA InitIInv == Init => IInv
  BY FaultsAssumption
     DEF Init, IInv, TypeOK, EmptyTable, Table, TablesInv, OneRowEach, Known, Calls,
         VerifiedObjectsMatch, VerifiedTogether, CompletionIsTrue

(* complete_upload keeps the inductive invariant: what is verified was     *)
(* compared, in both databases and for one owner.                          *)
THEOREM InductiveInvariant == Spec => []IInv
  BY InitIInv, NextPreservesIInv, PTL DEF Spec

(* No database shows an upload as verified whose object is not the         *)
(* declared file.                                                          *)
THEOREM VerifiedObjects == Spec => []VerifiedObjectsMatch
<1>1. IInv => VerifiedObjectsMatch
  BY DEF IInv
<1>. QED
  BY <1>1, InductiveInvariant, PTL

(* The primary never shows as verified what the mirror does not, nor for   *)
(* another owner.                                                          *)
THEOREM VerifiedInBoth == Spec => []VerifiedTogether
<1>1. IInv => VerifiedTogether
  BY DEF IInv
<1>. QED
  BY <1>1, InductiveInvariant, PTL

(* A 200 of complete_upload is only given for an upload verified in both   *)
(* databases for the subject it is given to.                               *)
THEOREM CompletionTrue == Spec => []CompletionIsTrue
<1>1. IInv => CompletionIsTrue
  BY DEF IInv
<1>. QED
  BY <1>1, InductiveInvariant, PTL

(* The UPDATEs of verify_upload, which look at the rows again long after   *)
(* complete_upload read them, find the owner and the digest they were read *)
(* with: a completion past the object is refused only by an expiry.        *)
THEOREM OnlyExpiryRefuses == Spec => []RefusedOnlyByExpiry
<1>1. ASSUME IInv, NEW c \in Client, pc[c] \in {"verify_mirror", "verify_primary"}
      PROVE  /\ Owns(primary, request[c].upload, request[c].owner)
             /\ Declares(primary, c, request[c].sha)
             /\ Owns(mirror, request[c].upload, request[c].owner)
             /\ Declares(mirror, c, request[c].sha)
  <2>1. /\ Owns(primary, request[c].upload, request[c].owner)
        /\ Declares(primary, c, request[c].sha)
        /\ Owns(mirror, request[c].upload, request[c].owner)
    BY <1>1 DEF IInv, Known, Calls
  <2>2. PICK p \in primary.rows : p.upload = request[c].upload /\ ShaOf[p.file] = request[c].sha
    BY <2>1 DEF Declares, RowsFor
  <2>3. PICK m \in mirror.rows : m.upload = request[c].upload /\ m.owner = request[c].owner
    BY <2>1 DEF Owns
  <2>4. m.file = p.file
    BY <1>1, <2>2, <2>3 DEF IInv, TablesInv, OneRowEach
  <2>. QED
    BY <2>1, <2>2, <2>3, <2>4 DEF Declares, RowsFor
<1>2. IInv => RefusedOnlyByExpiry
  BY <1>1 DEF RefusedOnlyByExpiry, CanVerify, AvailableTo, RowsFor, Owns
<1>. QED
  BY <1>2, InductiveInvariant, PTL

-----------------------------------------------------------------------------
(* The handlers implement UploadStatus: what a handler changes in a table  *)
(* is a step of its own there, and the rest is stuttering.                 *)
LEMMA MirrorStep ==
  ASSUME IInv, NEW c \in Client, pc[c] = "verify_mirror",
         mirror' = CommitVerified(mirror, c), UNCHANGED primary
  PROVE  [Status!Next]_(Status!vars)
<1>. DEFINE u == request[c].upload
            o == request[c].owner
<1>1. CASE CanVerify(mirror, c)
  <2>1. Owns(primary, u, o) /\ Available(mirror, u, o)
    BY <1>1 DEF IInv, Known, Calls, CanVerify, AvailableTo, RowsFor, Available, Owns
  <2>2. mirror' = MarkVerified(mirror, u)
    BY <1>1 DEF CommitVerified
  <2>3. Status!VerifyMirror(u, o)
    BY <2>1, <2>2 DEF Status!VerifyMirror, Status!Owns, Status!Available, Status!MarkVerified,
                      Owns, Available, MarkVerified
  <2>. QED
    BY <2>3, TableTypes DEF Status!Next
<1>2. CASE ~ CanVerify(mirror, c)
  BY <1>2 DEF CommitVerified, Status!vars
<1>. QED
  BY <1>1, <1>2

LEMMA PrimaryStep ==
  ASSUME IInv, NEW c \in Client, pc[c] = "verify_primary",
         primary' = CommitVerified(primary, c), UNCHANGED mirror
  PROVE  [Status!Next]_(Status!vars)
<1>. DEFINE u == request[c].upload
            o == request[c].owner
<1>1. CASE CanVerify(primary, c)
  <2>1. Available(primary, u, o) /\ Owns(mirror, u, o) /\ u \in mirror.verified
    BY <1>1 DEF IInv, Known, Calls, CanVerify, AvailableTo, RowsFor, Available, Owns
  <2>2. primary' = MarkVerified(primary, u)
    BY <1>1 DEF CommitVerified
  <2>3. Status!VerifyPrimary(u, o)
    BY <2>1, <2>2 DEF Status!VerifyPrimary, Status!Owns, Status!Available, Status!MarkVerified,
                      Owns, Available, MarkVerified
  <2>. QED
    BY <2>3, TableTypes DEF Status!Next
<1>2. CASE ~ CanVerify(primary, c)
  BY <1>2 DEF CommitVerified, Status!vars
<1>. QED
  BY <1>1, <1>2

LEMMA EnvironmentStep ==
  ASSUME Environment
  PROVE  [Status!Next]_(Status!vars)
<1>. USE DEF Status!Next, Status!vars, Status!Reserved, Reserved
<1>1. ASSUME NEW row \in ReservedUpload, ReservePrimary(row) PROVE Status!ReservePrimary(row)
  BY <1>1 DEF ReservePrimary, Status!ReservePrimary, Status!Reserve, Reserve
<1>2. ASSUME NEW row \in ReservedUpload, ReserveMirror(row) PROVE Status!ReserveMirror(row)
  BY <1>2 DEF ReserveMirror, Status!ReserveMirror, Status!Reserve, Reserve
<1>3. ASSUME NEW u \in Upload, ExpirePrimary(u) PROVE Status!ExpirePrimary(u)
  BY <1>3 DEF ExpirePrimary, Status!ExpirePrimary, Status!Expire, Expire
<1>4. ASSUME NEW u \in Upload, ExpireMirror(u) PROVE Status!ExpireMirror(u)
  BY <1>4 DEF ExpireMirror, Status!ExpireMirror, Status!Expire, Expire
<1>5. ASSUME NEW u \in Upload, NEW file \in File, PutObject(u, file)
      PROVE  UNCHANGED Status!vars
  BY <1>5 DEF PutObject, tables
<1>6. Status!ReservedUpload = ReservedUpload
  BY DEF Status!ReservedUpload, ReservedUpload
<1>. QED
  BY <1>1, <1>2, <1>3, <1>4, <1>5, <1>6 DEF Environment

LEMMA HandlerStep ==
  ASSUME IInv, NEW c \in Client, Begin(c) \/ Handle(c) \/ Fail(c)
  PROVE  [Status!Next]_(Status!vars)
<1>1. CASE UNCHANGED tables
  BY <1>1 DEF tables, Status!vars
<1>2. CASE VerifyMirror(c)
  BY <1>2, MirrorStep DEF VerifyMirror, Goto
<1>3. CASE VerifyPrimary(c)
  BY <1>3, PrimaryStep DEF VerifyPrimary, Goto
<1>4. CASE Fail(c)
  <2>1. CASE pc[c] = "verify_mirror" /\ mirror' = CommitVerified(mirror, c)
    BY <1>4, <2>1, MirrorStep DEF Fail
  <2>2. CASE pc[c] = "verify_primary" /\ primary' = CommitVerified(primary, c)
    BY <1>4, <2>2, PrimaryStep DEF Fail
  <2>. QED
    BY <1>1, <1>4, <2>1, <2>2 DEF Fail, tables
<1>. QED
  BY <1>1, <1>2, <1>3, <1>4 DEF Handle, Begin, ReadPrimary, ReadMirror, VerifyObject

(* complete_upload and create_upload_intent change the upload tables only  *)
(* as UploadStatus has it.                                                 *)
THEOREM Refinement == Spec => ImplementsUploadStatus
<1>1. Init => Status!Init
  BY DEF Init, Status!Init, EmptyTable, Status!EmptyTable
<1>2. ASSUME IInv, [Next]_vars PROVE [Status!Next]_(Status!vars)
  <2>1. CASE UNCHANGED vars
    BY <2>1 DEF vars, tables, Status!vars
  <2>. QED
    BY <1>2, <2>1, EnvironmentStep, HandlerStep DEF Next
<1>. QED
  BY <1>1, <1>2, InductiveInvariant, PTL DEF Spec, ImplementsUploadStatus, Status!Spec

-----------------------------------------------------------------------------
(* The object read in pieces, as StreamedCompletion has it.  First what a  *)
(* handler that reads has: the verdict of a whole reading, with a success  *)
(* status, is what VerifyObject says in one step.                          *)
LEMMA ObjectTypes ==
  ASSUME StreamedInv, NEW c \in Client, object[request[c].upload] # NoFile
  PROVE  /\ object[request[c].upload] \in File
         /\ object[request[c].upload] \in Declaration
         /\ Whole(object[request[c].upload])
         /\ HeldAt(request[c].upload) \in Held
         /\ \A row \in RowsFor(primary, c) : row.file \in File /\ row.file \in Declaration
<1>1. IInv
  BY DEF StreamedInv
<1>2. /\ object[request[c].upload] \in File /\ Whole(object[request[c].upload])
      /\ \A row \in RowsFor(primary, c) : row.file \in File
  BY <1>1, TableTypes DEF StreamedInv, IInv, TypeOK, RowsFor, ReservedUpload
<1>. QED
  BY <1>2, FileAssumption DEF HeldAt, Held, Declaration

LEMMA VerdictIsComparison ==
  ASSUME StreamedInv, NEW c \in Client, NEW b, Reads(c, b), b.status = "success",
         b.verdict \in {"accepted", "refused"}
  PROVE  b.verdict = "accepted" <=>
           \E row \in RowsFor(primary, c) :
             row.file \in WithinLimit /\ object[request[c].upload] = row.file
<1>. DEFINE f == object[request[c].upload]
<1>1. PICK row \in RowsFor(primary, c) : b.declared = row.file
  BY DEF Reads
<1>2. /\ f \in Declaration /\ row.file \in Declaration /\ f.size = Len(f.content)
      /\ row.file \in WithinLimit <=> row.file.size <= MaxUploadBytes
      /\ b.held.type = f.type /\ b.held.content = f.content
  BY ObjectTypes, FileAssumption DEF Reads, Whole, HeldAt
<1>3. f = row.file <=> f.type = row.file.type /\ f.size = row.file.size
                       /\ f.content = row.file.content
  BY <1>2 DEF Declaration
<1>4. Matches(b) <=> f = row.file /\ row.file \in WithinLimit
  BY <1>1, <1>2, <1>3 DEF Matches
<1>5. b.verdict = "accepted" <=> Matches(b)
  BY DEF Reads, ReadingInv, OfTheWhole, HasCause
<1>6. \A r \in RowsFor(primary, c) : r = row
  BY DEF StreamedInv, IInv, TablesInv, OneRowEach, RowsFor
<1>. QED
  BY <1>4, <1>5, <1>6

(* What a step of a stream leaves the handler with. *)
LEMMA StreamSteps ==
  ASSUME StreamedInv, NEW c \in Client, OpenObject(c) \/ ReadChunk(c) \/ EndObject(c)
  PROVE  /\ pc[c] = "verify_object"
         /\ \E b : /\ Reads(c, b) /\ Settle(c, b)
                   /\ b.verdict \in {"reading", "accepted", "refused"}
                   /\ \/ b.status = "success" /\ UNCHANGED faults
                      \/ b.verdict = "refused" /\ Fault
<1>. DEFINE u == request[c].upload
<1>1. CASE OpenObject(c)
  <2>1. PICK row \in RowsFor(primary, c), s \in Statuses, announced \in BOOLEAN :
          /\ IF s = "success" THEN UNCHANGED faults ELSE Fault
          /\ Settle(c, Opened(Asking("object", row.file, HeldAt(u)), s, announced))
    BY <1>1 DEF OpenObject
  <2>. DEFINE a == Asking("object", row.file, HeldAt(u))
              b == Opened(a, s, announced)
  <2>2. object[u] # NoFile
    BY <1>1 DEF OpenObject
  <2>3. row.file \in Declaration /\ HeldAt(u) \in Held
    BY <2>2, ObjectTypes
  <2>4. ReadingInv(a)
    BY <2>3, AskingInv
  <2>5. a.verdict = "asking" /\ a.reader = "object" /\ a.declared = row.file /\ a.held = HeldAt(u)
    BY DEF Asking
  <2>6. ReadingInv(b)
    BY <2>4, <2>5, OpenedInv
  <2>7. /\ b.reader = "object" /\ b.declared = row.file /\ b.held = HeldAt(u) /\ b.status = s
        /\ b.verdict = JudgeObject(a, s, announced)
    BY <2>5 DEF Opened, Asking
  <2>8. b.verdict \in {"reading", "refused"} /\ (s # "success" => b.verdict = "refused")
    BY <2>7 DEF JudgeObject
  <2>9. Reads(c, b)
    BY <2>2, <2>6, <2>7 DEF Reads
  <2>. QED
    BY <1>1, <2>1, <2>7, <2>8, <2>9 DEF OpenObject
<1>2. CASE ReadChunk(c) \/ EndObject(c)
  <2>. DEFINE a == stream[c]
  <2>1. /\ Reads(c, a) /\ a.verdict = "reading" /\ ReadingInv(a)
        /\ a \in Reading /\ a.status = "success" /\ a.reader = "object"
    BY <1>2 DEF StreamedInv, StreamIsOf, ReadChunk, EndObject, Reads, ReadingInv, WorthReading
  <2>2. CASE ReadChunk(c)
    <3>1. PICK n \in ChunkSizes(a) : Settle(c, WithChunk(a, n))
      BY <2>2 DEF ReadChunk
    <3>2. ReadingInv(WithChunk(a, n))
      BY <2>1, ChunkInv
    <3>3. /\ WithChunk(a, n).reader = a.reader /\ WithChunk(a, n).declared = a.declared
          /\ WithChunk(a, n).held = a.held /\ WithChunk(a, n).status = a.status
          /\ WithChunk(a, n).verdict \in {"reading", "refused"}
      BY <2>1 DEF WithChunk, Reading
    <3>. QED
      BY <2>1, <2>2, <3>1, <3>2, <3>3 DEF Reads, ReadChunk
  <2>3. CASE EndObject(c)
    <3>1. ReadingInv(Concluded(a)) /\ Concluded(a).verdict \in {"accepted", "refused"}
      BY <2>1, <2>3, ConcludedInv DEF EndObject
    <3>2. /\ Concluded(a).reader = a.reader /\ Concluded(a).declared = a.declared
          /\ Concluded(a).held = a.held /\ Concluded(a).status = a.status
      BY <2>1 DEF Concluded, Reading
    <3>. QED
      BY <2>1, <2>3, <3>1, <3>2 DEF Reads, EndObject
  <2>. QED
    BY <1>2, <2>2, <2>3
<1>. QED
  BY <1>1, <1>2

-----------------------------------------------------------------------------
(* Each step is one of UploadCompletion, or changes nothing it has. *)
LEMMA StreamedStep ==
  ASSUME StreamedInv, [StreamedNext]_streamedVars
  PROVE  [Next]_vars
<1>1. CASE UNCHANGED streamedVars
  BY <1>1 DEF streamedVars
<1>2. CASE Change
  BY <1>2 DEF Change, Environment, Next
<1>3. ASSUME NEW c \in Client, Begin(c) \/ Query(c) \/ FailStreamed(c)
      PROVE  Next
  BY <1>3 DEF Query, FailStreamed, Next, Handle
<1>4. ASSUME NEW c \in Client, MissObject(c) PROVE VerifyObject(c)
  <2>1. \A row \in RowsFor(primary, c) : row.file # NoFile
    BY NoFileAssumption, TableTypes DEF StreamedInv, RowsFor, ReservedUpload
  <2>. QED
    BY <1>4, <2>1 DEF MissObject, VerifyObject
<1>5. ASSUME NEW c \in Client, OpenObject(c) \/ ReadChunk(c) \/ EndObject(c)
      PROVE  VerifyObject(c) \/ Fail(c) \/ UNCHANGED vars
  <2>1. pc[c] = "verify_object"
    BY <1>5, StreamSteps
  <2>2. PICK b : /\ Reads(c, b) /\ Settle(c, b)
                 /\ b.verdict \in {"reading", "accepted", "refused"}
                 /\ \/ b.status = "success" /\ UNCHANGED faults
                    \/ b.verdict = "refused" /\ Fault
    BY <1>5, StreamSteps
  <2>3. CASE b.verdict = "refused" /\ Fault
    BY <2>1, <2>2, <2>3 DEF Settle, Fail, Calls, tables
  <2>4. CASE b.verdict = "reading" /\ UNCHANGED faults
    <3>1. pc' = [pc EXCEPT ![c] = "verify_object"] /\ UNCHANGED <<tables, object, request, completed>>
      BY <2>2, <2>4 DEF Settle
    <3>2. pc' = pc
      BY <2>1, <3>1, TableTypes DEF StreamedInv
    <3>. QED
      BY <2>4, <3>1, <3>2 DEF vars
  <2>5. CASE b.verdict \in {"accepted", "refused"} /\ b.status = "success" /\ UNCHANGED faults
    <3>1. b.verdict = "accepted" <=>
            \E row \in RowsFor(primary, c) :
              row.file \in WithinLimit /\ object[request[c].upload] = row.file
      BY <2>2, <2>5, VerdictIsComparison
    <3>. QED
      BY <2>1, <2>2, <2>5, <3>1 DEF Settle, VerifyObject, Goto
  <2>. QED
    BY <2>2, <2>3, <2>4, <2>5
<1>. QED
  BY <1>1, <1>2, <1>3, <1>4, <1>5 DEF StreamedNext, HandleStreamed, Next, Handle

(* While a handler reads, its request stays what it is, and neither its    *)
(* row nor its object goes away.                                           *)
LEMMA WhatIsReadStays ==
  ASSUME StreamedInv, [StreamedNext]_streamedVars
  PROVE  /\ request' = request
         /\ primary.rows \subseteq primary'.rows
         /\ \A u \in Upload : object[u] # NoFile => object'[u] = object[u]
<1>1. IInv /\ [Next]_vars
  BY StreamedStep DEF StreamedInv
<1>2. CASE UNCHANGED vars
  BY <1>2 DEF vars, tables
<1>3. CASE Environment
  <2>1. ASSUME NEW row \in ReservedUpload, ReservePrimary(row) \/ ReserveMirror(row)
        PROVE  request' = request /\ primary.rows \subseteq primary'.rows /\ object' = object
    BY <1>1, <2>1, TableTypes, TableUpdates DEF ReservePrimary, ReserveMirror
  <2>2. ASSUME NEW u \in Upload, ExpirePrimary(u) \/ ExpireMirror(u)
        PROVE  request' = request /\ primary.rows \subseteq primary'.rows /\ object' = object
    BY <1>1, <2>2, TableTypes, TableUpdates DEF ExpirePrimary, ExpireMirror
  <2>3. ASSUME NEW u \in Upload, NEW file \in File, PutObject(u, file)
        PROVE  /\ request' = request /\ primary' = primary
               /\ \A v \in Upload : object[v] # NoFile => object'[v] = object[v]
    BY <1>1, <2>3 DEF PutObject, tables, IInv, TypeOK
  <2>. QED
    BY <1>3, <2>1, <2>2, <2>3 DEF Environment
<1>4. ASSUME NEW c \in Client, Begin(c) \/ Handle(c) \/ Fail(c)
      PROVE  /\ UNCHANGED <<request, object>>
             /\ primary' \in {primary, CommitVerified(primary, c)}
  BY <1>4 DEF Begin, Handle, Fail, ReadPrimary, ReadMirror, VerifyObject, VerifyMirror,
              VerifyPrimary, tables
<1>5. ASSUME NEW c \in Client PROVE CommitVerified(primary, c).rows = primary.rows
  BY <1>1, <1>5, TableTypes, TableUpdates DEF CommitVerified
<1>. QED
  BY <1>1, <1>2, <1>3, <1>4, <1>5 DEF Next

LEMMA OtherStreamsStay ==
  ASSUME StreamedInv, [StreamedNext]_streamedVars, NEW d \in Client,
         stream'[d] = stream[d], pc'[d] = pc[d] \/ stream[d] = NoStream
  PROVE  StreamIsOf(d)'
<1>1. CASE stream[d] = NoStream
  BY <1>1 DEF StreamIsOf
<1>2. CASE stream[d] # NoStream
  <2>. DEFINE u == request[d].upload
  <2>1. pc'[d] = "verify_object" /\ Reads(d, stream[d]) /\ stream[d].verdict = "reading"
    BY <1>2 DEF StreamedInv, StreamIsOf
  <2>2. /\ request' = request /\ primary.rows \subseteq primary'.rows
        /\ u \in Upload /\ object'[u] = object[u] /\ object[u] # NoFile
    BY <2>1, WhatIsReadStays, TableTypes DEF StreamedInv, Reads
  <2>3. Reads(d, stream[d])'
    BY <2>1, <2>2 DEF Reads, HeldAt, RowsFor
  <2>. QED
    BY <1>2, <2>1, <2>3 DEF StreamIsOf
<1>. QED
  BY <1>1, <1>2

(* The handler that moves has a stream of what it reads, or none. *)
LEMMA StreamsStay ==
  ASSUME StreamedInv, [StreamedNext]_streamedVars
  PROVE  /\ stream' \in [Client -> Reading \cup {NoStream}]
         /\ \A d \in Client : StreamIsOf(d)'
<1>. DEFINE Goal == /\ stream' \in [Client -> Reading \cup {NoStream}]
                    /\ \A d \in Client : StreamIsOf(d)'
<1>1. /\ stream \in [Client -> Reading \cup {NoStream}]
      /\ pc \in [Client -> Calls \cup {"idle", "completed"}]
      /\ \A c \in Client : stream[c] # NoStream => pc[c] = "verify_object"
  BY TableTypes DEF StreamedInv, StreamIsOf
<1>2. CASE UNCHANGED <<pc, stream>>
  BY <1>1, <1>2, OtherStreamsStay
<1>3. ASSUME NEW c \in Client, UNCHANGED stream, stream[c] = NoStream,
             \A d \in Client \ {c} : pc'[d] = pc[d]
      PROVE  Goal
  BY <1>1, <1>3, OtherStreamsStay
<1>4. ASSUME NEW c \in Client, FailStreamed(c) PROVE Goal
  <2>1. /\ stream' = [stream EXCEPT ![c] = NoStream]
        /\ \A d \in Client \ {c} : pc'[d] = pc[d]
    BY <1>1, <1>4 DEF FailStreamed, Fail
  <2>2. StreamIsOf(c)'
    BY <1>1, <2>1 DEF StreamIsOf
  <2>. QED
    BY <1>1, <2>1, <2>2, OtherStreamsStay
<1>5. ASSUME NEW c \in Client, OpenObject(c) \/ ReadChunk(c) \/ EndObject(c) PROVE Goal
  <2>1. PICK b : Reads(c, b) /\ Settle(c, b)
    BY <1>5, StreamSteps
  <2>2. b \in Reading /\ UNCHANGED <<primary, object, request>>
    BY <2>1 DEF Reads, ReadingInv, Settle, tables
  <2>3. stream' \in [Client -> Reading \cup {NoStream}]
    BY <1>1, <2>1, <2>2 DEF Settle
  <2>4. StreamIsOf(c)'
    <3>1. CASE b.verdict = "reading"
      <4>1. stream'[c] = b /\ pc'[c] = "verify_object"
        BY <1>1, <2>1, <3>1 DEF Settle
      <4>2. Reads(c, b)'
        BY <2>1, <2>2 DEF Reads, HeldAt, RowsFor
      <4>. QED
        BY <3>1, <4>1, <4>2 DEF StreamIsOf, Reads
    <3>2. CASE b.verdict # "reading"
      BY <1>1, <2>1, <3>2 DEF Settle, StreamIsOf
    <3>. QED
      BY <3>1, <3>2
  <2>5. ASSUME NEW d \in Client, d # c PROVE StreamIsOf(d)'
    BY <1>1, <2>1, <2>5, OtherStreamsStay DEF Settle
  <2>. QED
    BY <2>3, <2>4, <2>5
<1>6. ASSUME NEW c \in Client, Begin(c) \/ Query(c) \/ MissObject(c), UNCHANGED stream PROVE Goal
  <2>1. stream[c] = NoStream /\ \A d \in Client \ {c} : pc'[d] = pc[d]
    BY <1>1, <1>6 DEF Begin, Query, MissObject, ReadPrimary, ReadMirror, VerifyMirror,
                      VerifyPrimary, Goto
  <2>. QED
    BY <1>3, <1>6, <2>1
<1>7. CASE Change
  BY <1>2, <1>7 DEF Change, ReservePrimary, ReserveMirror, PutObject, ExpirePrimary, ExpireMirror
<1>. QED
  BY <1>2, <1>4, <1>5, <1>6, <1>7 DEF StreamedNext, HandleStreamed, Query, MissObject, streamedVars, vars

LEMMA ObjectsStayWhole ==
  ASSUME StreamedInv, [StreamedNext]_streamedVars
  PROVE  (\A u \in Upload : object[u] # NoFile => Whole(object[u]))'
<1>1. CASE UNCHANGED object
  BY <1>1 DEF StreamedInv
<1>2. ASSUME NEW u \in Upload, NEW file \in File, Whole(file), PutObject(u, file)
      PROVE  \A v \in Upload : object'[v] # NoFile => Whole(object'[v])
  BY <1>2 DEF StreamedInv, IInv, TypeOK, PutObject
<1>3. CASE Change
  BY <1>1, <1>2, <1>3 DEF Change, ReservePrimary, ReserveMirror, ExpirePrimary, ExpireMirror
<1>4. ASSUME NEW c \in Client, Begin(c) \/ HandleStreamed(c) \/ FailStreamed(c)
      PROVE  UNCHANGED object
  BY <1>4 DEF Begin, HandleStreamed, Query, ReadPrimary, ReadMirror, VerifyMirror, VerifyPrimary,
              MissObject, OpenObject, ReadChunk, EndObject, Settle, FailStreamed, Fail
<1>. QED
  BY <1>1, <1>3, <1>4 DEF StreamedNext, streamedVars, vars

(* While handlers read objects piece by piece, each reads the object that  *)
(* is in Storage against the row that is in the primary, and everything    *)
(* the invariant of complete_upload says still holds.                      *)
THEOREM StreamedInvariant == StreamedSpec => []StreamedInv
<1>1. StreamedInit => StreamedInv
  BY InitIInv DEF StreamedInit, StreamedInv, StreamIsOf, Init
<1>2. StreamedInv /\ [StreamedNext]_streamedVars => StreamedInv'
  <2>. SUFFICES ASSUME StreamedInv, [StreamedNext]_streamedVars PROVE StreamedInv'
    OBVIOUS
  <2>1. IInv'
    BY StreamedStep, NextPreservesIInv DEF StreamedInv
  <2>. QED
    BY <2>1, StreamsStay, ObjectsStayWhole DEF StreamedInv
<1>. QED
  BY <1>1, <1>2, PTL DEF StreamedSpec

(* verify_object, reading chunk by chunk while other handlers run, decides *)
(* as VerifyObject does at once: complete_upload with streams implements   *)
(* UploadCompletion, for any bytes, chunks, limits, clients and uploads.   *)
THEOREM StreamedRefinement == StreamedSpec => ImplementsUploadCompletion
<1>1. StreamedInit => Init
  BY DEF StreamedInit
<1>. QED
  BY <1>1, StreamedStep, StreamedInvariant, PTL
     DEF StreamedSpec, Spec, ImplementsUploadCompletion

(* So whatever is proved of UploadCompletion holds while objects are read  *)
(* in pieces: neither database shows as verified an object that is not,    *)
(* byte for byte, the declared one, every 200 of complete_upload is true,  *)
(* only an expiry is refused once the object was read, and the tables      *)
(* change only as UploadStatus has it.                                     *)
THEOREM StreamedCompletionIsTrue ==
  StreamedSpec => /\ []VerifiedObjectsMatch /\ []VerifiedTogether /\ []CompletionIsTrue
                  /\ []RefusedOnlyByExpiry
                  /\ ImplementsUploadStatus
  BY StreamedRefinement, VerifiedObjects, VerifiedInBoth, CompletionTrue, OnlyExpiryRefuses,
     Refinement, PTL
     DEF ImplementsUploadCompletion
=============================================================================
