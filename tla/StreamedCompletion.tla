-------------------------- MODULE StreamedCompletion --------------------------
(***************************************************************************)
(* complete_upload with the object read as verify_object reads it: the     *)
(* handler that UploadCompletion has at verify_object asks Storage, and is *)
(* answered with a status and headers, then with one chunk after another,  *)
(* while other handlers read, write or die, rows expire, and the object    *)
(* may have been put after the handler asked.  Everything else is as in    *)
(* UploadCompletion.                                                       *)
(***************************************************************************)
EXTENDS UploadCompletion, BodyReading

CONSTANT NoStream     \* a handler that Storage has not answered

ASSUME NoStreamAssumption == NoStream \notin Reading

(* A file is a declaration, of any size, and its SHA-256 that of content.  *)
ASSUME FileAssumption ==
  /\ File \subseteq Declaration
  /\ WithinLimit = {f \in File : f.size <= MaxUploadBytes}
  /\ \A f, g \in File : ShaOf[f] = ShaOf[g] <=> f.content = g.content

VARIABLE stream       \* what a handler has of the object it reads

streamedVars == <<vars, stream>>

StreamedInit == Init /\ stream = [c \in Client |-> NoStream]

-----------------------------------------------------------------------------
(* Whatever was declared, an object in Storage is as long as its content.  *)
Whole(file) == file.size = Len(file.content)

Change ==
  /\ \/ \E row \in ReservedUpload : ReservePrimary(row) \/ ReserveMirror(row)
     \/ \E u \in Upload, file \in File : Whole(file) /\ PutObject(u, file)
     \/ \E u \in Upload : ExpirePrimary(u) \/ ExpireMirror(u)
  /\ UNCHANGED stream

-----------------------------------------------------------------------------
HeldAt(u) == [type |-> object[u].type, content |-> object[u].content]

(* The handler has got so far; with a verdict it goes on, or answers 409.  *)
Settle(c, b) ==
  /\ stream' = [stream EXCEPT ![c] = IF b.verdict = "reading" THEN b ELSE NoStream]
  /\ pc' = [pc EXCEPT ![c] = CASE b.verdict = "reading" -> "verify_object"
                               [] b.verdict = "accepted" -> "verify_mirror"
                               [] OTHER -> "idle"]
  /\ UNCHANGED <<tables, object, request, completed>>

(* Storage has no such object. *)
MissObject(c) ==
  /\ Goto(c, "verify_object", "idle")
  /\ stream[c] = NoStream
  /\ object[request[c].upload] = NoFile
  /\ UNCHANGED <<tables, object, request, completed, faults, stream>>

(* Storage answers with the object as it is now, or fails to. *)
OpenObject(c) ==
  /\ pc[c] = "verify_object" /\ stream[c] = NoStream
  /\ object[request[c].upload] # NoFile
  /\ \E row \in RowsFor(primary, c), s \in Statuses, announced \in BOOLEAN :
       /\ IF s = "success" THEN UNCHANGED faults ELSE Fault
       /\ Settle(c, Opened(Asking("object", row.file, HeldAt(request[c].upload)), s, announced))

ReadChunk(c) ==
  /\ pc[c] = "verify_object" /\ stream[c] # NoStream
  /\ \E n \in ChunkSizes(stream[c]) : Settle(c, WithChunk(stream[c], n))
  /\ UNCHANGED faults

EndObject(c) ==
  /\ pc[c] = "verify_object" /\ stream[c] # NoStream
  /\ AtEnd(stream[c])
  /\ Settle(c, Concluded(stream[c]))
  /\ UNCHANGED faults

(* No answer, a broken stream, a timeout, or a dropped handler. *)
FailStreamed(c) == Fail(c) /\ stream' = [stream EXCEPT ![c] = NoStream]

Query(c) ==
  /\ ReadPrimary(c) \/ ReadMirror(c) \/ VerifyMirror(c) \/ VerifyPrimary(c)
  /\ UNCHANGED stream

HandleStreamed(c) ==
  Query(c) \/ MissObject(c) \/ OpenObject(c) \/ ReadChunk(c) \/ EndObject(c)

StreamedNext ==
  \/ Change
  \/ \E c \in Client : (Begin(c) /\ UNCHANGED stream) \/ HandleStreamed(c) \/ FailStreamed(c)

StreamedSpec == StreamedInit /\ [][StreamedNext]_streamedVars

(* As in UploadCompletion, and Storage goes on with a stream. *)
StreamedFairness ==
  \A c \in Client :
    WF_streamedVars(Begin(c) /\ UNCHANGED stream) /\ WF_streamedVars(HandleStreamed(c))

FairStreamedSpec == StreamedSpec /\ StreamedFairness

-----------------------------------------------------------------------------
(* Reading an object in pieces is as good as comparing it in one step, as  *)
(* UploadCompletion does: no handler goes on that VerifyObject would have  *)
(* stopped, none is stopped that it would have let go on, whatever happens *)
(* between two chunks.                                                     *)
ImplementsUploadCompletion == Spec

-----------------------------------------------------------------------------
(* A reading is of the object in Storage, against the row of the primary. *)
Reads(c, b) ==
  LET u == request[c].upload
  IN /\ ReadingInv(b) /\ b.reader = "object"
     /\ object[u] # NoFile /\ b.held = HeldAt(u)
     /\ \E row \in RowsFor(primary, c) : b.declared = row.file

StreamIsOf(c) ==
  stream[c] # NoStream =>
    pc[c] = "verify_object" /\ Reads(c, stream[c]) /\ stream[c].verdict = "reading"

(* The inductive invariant: whatever happened while a handler read, its    *)
(* stream is of the object still in Storage and the row still reserved.    *)
StreamedInv ==
  /\ IInv
  /\ \A u \in Upload : object[u] # NoFile => Whole(object[u])
  /\ stream \in [Client -> Reading \cup {NoStream}]
  /\ \A c \in Client : StreamIsOf(c)
=============================================================================
