----------------------------- MODULE StreamedBody -----------------------------
(***************************************************************************)
(* Any one reading of a body, from the request to its verdict, under any   *)
(* status, with any content on the other side and in any chunks.           *)
(***************************************************************************)
EXTENDS BodyReading

VARIABLE body

BodyInit ==
  \E reader \in {"object", "introspection"}, declared \in Declaration, held \in Held :
    body = Asking(reader, declared, held)

Open ==
  /\ body.verdict = "asking"
  /\ \E s \in Statuses, announced \in BOOLEAN : body' = Opened(body, s, announced)

Chunk ==
  /\ body.verdict = "reading"
  /\ \E n \in ChunkSizes(body) : body' = WithChunk(body, n)

End == AtEnd(body) /\ body' = Concluded(body)

Break == body.verdict \in {"asking", "reading"} /\ body' = Broken(body)

BodyNext == Open \/ Chunk \/ End \/ Break

BodySpec == BodyInit /\ [][BodyNext]_body

-----------------------------------------------------------------------------
(* Nothing is concluded from part of a body: an accepted object is, to its *)
(* last byte, the declared one, and a decision parsed is all of what       *)
(* Shared Auth said, however the bytes were cut into chunks.               *)
VerdictsAreOfTheWhole == OfTheWhole(body)

(* A refusal, which verify_object tells clients not to repeat, has a       *)
(* reason; none that a body only just fits, or that it came in pieces.     *)
RefusedForCause == HasCause(body)

(* However large a body is, no more than the limit of it is hashed or      *)
(* kept, and always a prefix of it.                                        *)
BoundedReading == TakesInOrder(body)

(* The inductive invariant. *)
StreamInv == ReadingInv(body)
=============================================================================
