------------------------------ MODULE BodyReading ------------------------------
(***************************************************************************)
(* One reading, as a record, of a response body the service decides by: a  *)
(* stored object, read by SupabaseStorage::verify_object, or an            *)
(* introspection, read by bounded_response of auth.rs.                     *)
(*                                                                         *)
(*   asking -> reading -> accepted | refused        (or unavailable)       *)
(*                                                                         *)
(* Chunks are of any size.  The length may be announced or not; when it    *)
(* is, it is that of the body, and a body cut short is reported as an      *)
(* error by the client (external).  Equality of contents stands for        *)
(* equality of SHA-256 digests.  An empty chunk changes nothing.  A status *)
(* that is neither a success nor a server error is called a client error.  *)
(***************************************************************************)
EXTENDS Integers, Sequences

CONSTANTS
  Byte,
  Type,              \* media types
  MaxLength,         \* of the bodies modelled
  MaxUploadBytes,    \* MAX_UPLOAD_BYTES
  MaxResponseBytes   \* MAX_RESPONSE_BYTES

ASSUME LimitsAssumption ==
  MaxLength \in Nat /\ MaxUploadBytes \in Nat /\ MaxResponseBytes \in Nat

Body == UNION {[1 .. n -> Byte] : n \in 0 .. MaxLength}

(* What an applicant declared of an object: the size need not be that of   *)
(* the content whose digest was given.                                     *)
Declaration == [type : Type, size : 0 .. MaxLength, content : Body]

(* What the other side holds. *)
Held == [type : Type, content : Body]

Statuses == {"success", "client_error", "server_error"}

(* declared: the expected object.  arrived: bytes taken off the stream.    *)
(* observed: bytes counted.  taken: bytes hashed, or collected.            *)
Reading ==
  [ reader   : {"object", "introspection"},
    declared : Declaration,
    held     : Held,
    status   : Statuses \cup {"none"},
    arrived  : Nat,
    observed : Nat,
    taken    : Seq(Byte),
    verdict  : {"asking", "reading", "accepted", "refused", "unavailable"} ]

Asking(reader, declared, held) ==
  [ reader |-> reader, declared |-> declared, held |-> held, status |-> "none",
    arrived |-> 0, observed |-> 0, taken |-> << >>, verdict |-> "asking" ]

-----------------------------------------------------------------------------
(* Variant: the Content-Type is not compared. *)
JudgeObjectOfAnyType(b, s, announced) ==
  IF \/ b.declared.size > MaxUploadBytes
     \/ s # "success"
     \/ announced /\ Len(b.held.content) # b.declared.size
    THEN "refused" ELSE "reading"

(* What the headers leave to say: refused, unavailable, or worth reading.  *)
JudgeObject(b, s, announced) ==
  IF \/ b.declared.size > MaxUploadBytes
     \/ s # "success"
     \/ b.held.type # b.declared.type
     \/ announced /\ Len(b.held.content) # b.declared.size
    THEN "refused" ELSE "reading"

JudgeIntrospection(b, s, announced) ==
  CASE s = "server_error" -> "unavailable"
    [] s = "client_error" \/ (announced /\ Len(b.held.content) > MaxResponseBytes) -> "refused"
    [] OTHER -> "reading"

(* The request was made, and its status and headers are in. *)
Opened(b, s, announced) ==
  [b EXCEPT !.status = s,
            !.verdict = IF b.reader = "object" THEN JudgeObject(b, s, announced)
                                               ELSE JudgeIntrospection(b, s, announced)]

-----------------------------------------------------------------------------
Limit(b) ==
  IF b.reader = "introspection" THEN MaxResponseBytes
    ELSE IF b.declared.size < MaxUploadBytes THEN b.declared.size ELSE MaxUploadBytes

(* Variant: a body that just fits is refused. *)
CrossesAtLimit(b, n) == b.observed + n >= Limit(b)

Crosses(b, n) == b.observed + n > Limit(b)

(* What is left of the stream may come in one chunk, or in many. *)
ChunkSizes(b) == 1 .. Len(b.held.content) - b.arrived

NextBytes(b, n) == SubSeq(b.held.content, b.arrived + 1, b.arrived + n)

(* Variant: a chunk is taken before it is weighed. *)
TakenThenWeighed(b, n) ==
  [b EXCEPT !.arrived = @ + n, !.observed = @ + n,
            !.taken = @ \o NextBytes(b, n),
            !.verdict = IF Crosses(b, n) THEN "refused" ELSE "reading"]

(* The next chunk is counted, weighed against the limit, then taken. *)
WithChunk(b, n) ==
  [b EXCEPT !.arrived = @ + n, !.observed = @ + n,
            !.taken = IF Crosses(b, n) THEN @ ELSE @ \o NextBytes(b, n),
            !.verdict = IF Crosses(b, n) THEN "refused" ELSE @]

(* The stream is over. *)
AtEnd(b) == b.verdict = "reading" /\ b.arrived = Len(b.held.content)

(* Variant: the digest is not compared. *)
SizeAgrees(b) == b.reader = "object" => b.observed = b.declared.size

(* An object is compared with what was declared; a decision is parsed. *)
Agrees(b) ==
  b.reader = "object" => b.observed = b.declared.size /\ b.taken = b.declared.content

Concluded(b) == [b EXCEPT !.verdict = IF Agrees(b) THEN "accepted" ELSE "refused"]

(* Variant: a stream that breaks off is taken to be over. *)
BrokenAsOver(b) == IF b.verdict = "reading" THEN Concluded(b) ELSE b

(* No response, a broken stream or a timeout. *)
Broken(b) == [b EXCEPT !.verdict = "unavailable"]

-----------------------------------------------------------------------------
(* The object held is the one declared. *)
Matches(b) ==
  /\ b.held.type = b.declared.type
  /\ b.held.content = b.declared.content
  /\ Len(b.held.content) = b.declared.size
  /\ b.declared.size <= MaxUploadBytes

(* What is taken is a prefix of the body, nothing skipped or repeated, as  *)
(* long as what was counted unless the count has crossed the limit.        *)
TakesInOrder(b) ==
  /\ Len(b.taken) <= Limit(b)
  /\ b.taken = SubSeq(b.held.content, 1, Len(b.taken))
  /\ b.verdict \in {"asking", "reading", "accepted"} => Len(b.taken) = b.arrived

(* A verdict on the whole body, and on all of what was declared.           *)
OfTheWhole(b) ==
  b.verdict = "accepted" =>
    IF b.reader = "object" THEN Matches(b)
      ELSE b.taken = b.held.content /\ Len(b.taken) <= MaxResponseBytes

(* A reason in what is held, or in the status: in both readers a 4xx is    *)
(* one, and in verify_object a 5xx as well.                                *)
HasCause(b) ==
  b.verdict = "refused" =>
    \/ b.reader = "object" /\ (~ Matches(b) \/ b.status # "success")
    \/ b.reader = "introspection" /\ (Len(b.held.content) > MaxResponseBytes
                                      \/ b.status = "client_error")

(* A body is read only when its headers gave no reason to refuse it. *)
WorthReading(b) ==
  b.verdict \in {"reading", "accepted"} =>
    /\ b.status = "success"
    /\ b.reader = "object" => /\ b.held.type = b.declared.type
                              /\ b.declared.size <= MaxUploadBytes

(* What holds of a reading at every step. *)
ReadingInv(b) ==
  /\ b \in Reading
  /\ b.observed = b.arrived /\ b.arrived <= Len(b.held.content)
  /\ WorthReading(b) /\ TakesInOrder(b) /\ OfTheWhole(b) /\ HasCause(b)
=============================================================================
