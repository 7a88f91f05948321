-------------------------- MODULE StreamedBodyProofs --------------------------
(***************************************************************************)
(* Proofs about readings of a body, for every limit, content and chunking. *)
(* The lemmas are about one step of a reading, wherever it is kept; the    *)
(* theorems are about StreamedBody.                                        *)
(***************************************************************************)
EXTENDS StreamedBody, SequenceTheorems, TLAPS

LEMMA BodiesAreSequences ==
  ASSUME NEW content \in Body
  PROVE  content \in Seq(Byte) /\ Len(content) \in Nat /\ Len(content) <= MaxLength
<1>1. PICK n \in 0 .. MaxLength : content \in [1 .. n -> Byte]
  BY DEF Body
<1>. QED
  BY <1>1, LimitsAssumption

(* A prefix grows by the bytes that follow it. *)
LEMMA PrefixGrows ==
  ASSUME NEW content \in Seq(Byte), NEW k \in Nat, NEW n \in Nat,
         n >= 1, k + n <= Len(content)
  PROVE  /\ SubSeq(content, 1, k) \o SubSeq(content, k + 1, k + n) = SubSeq(content, 1, k + n)
         /\ Len(SubSeq(content, 1, k + n)) = k + n
         /\ SubSeq(content, 1, k + n) \in Seq(Byte)
<1>1. Len(content) \in Nat /\ \A i \in 1 .. k + n : content[i] \in Byte
  OBVIOUS
<1>. QED
  BY <1>1, ConcatAdjacentSubSeq, SubSeqProperties

(* The types behind the comparisons. *)
LEMMA ReadingTyped ==
  ASSUME NEW b \in Reading
  PROVE  /\ b.held.content \in Seq(Byte) /\ Len(b.held.content) \in Nat
         /\ b.declared.size \in Nat /\ Limit(b) \in Nat
         /\ b.arrived \in Nat /\ b.observed \in Nat /\ b.taken \in Seq(Byte)
BY BodiesAreSequences, LimitsAssumption DEF Reading, Held, Declaration, Limit

LEMMA AskingInv ==
  ASSUME NEW reader \in {"object", "introspection"}, NEW declared \in Declaration,
         NEW held \in Held
  PROVE  ReadingInv(Asking(reader, declared, held))
<1>. DEFINE b == Asking(reader, declared, held)
<1>1. b \in Reading /\ b.verdict = "asking" /\ b.arrived = 0 /\ b.observed = 0 /\ b.taken = << >>
  BY DEF Asking, Reading
<1>2. TakesInOrder(b)
  BY <1>1, ReadingTyped, SubSeqEmpty DEF TakesInOrder
<1>. QED
  BY <1>1, <1>2, ReadingTyped DEF ReadingInv, WorthReading, OfTheWhole, HasCause

-----------------------------------------------------------------------------
(* What stays as it is while only the verdict, and the status, change. *)
Resembles(d, b) ==
  /\ d.reader = b.reader /\ d.declared = b.declared /\ d.held = b.held
  /\ d.arrived = b.arrived /\ d.observed = b.observed /\ d.taken = b.taken

LEMMA ResemblanceKeeps ==
  ASSUME NEW b, NEW d, Resembles(d, b), ReadingInv(b),
         b.verdict \in {"asking", "reading", "accepted"}
  PROVE  /\ TakesInOrder(d) /\ Limit(d) = Limit(b) /\ Matches(d) = Matches(b)
         /\ d.observed = d.arrived /\ d.arrived <= Len(d.held.content)
BY DEF Resembles, ReadingInv, TakesInOrder, Limit, Matches

LEMMA OpenedInv ==
  ASSUME NEW b, ReadingInv(b), b.verdict = "asking",
         NEW s \in Statuses, NEW announced \in BOOLEAN
  PROVE  ReadingInv(Opened(b, s, announced))
<1>. DEFINE d == Opened(b, s, announced)
<1>1. b \in Reading
  BY DEF ReadingInv
<1>2. /\ d = [b EXCEPT !.status = s, !.verdict = d.verdict]
      /\ d.verdict = IF b.reader = "object" THEN JudgeObject(b, s, announced)
                                            ELSE JudgeIntrospection(b, s, announced)
  BY <1>1 DEF Opened, Reading
<1>3. d.status = s /\ Resembles(d, b)
  BY <1>1, <1>2 DEF Resembles, Reading
<1>4. CASE b.reader = "object"
  <2>1. /\ d.verdict \in {"refused", "reading"}
        /\ d.verdict = "reading" =>
             s = "success" /\ b.held.type = b.declared.type /\ b.declared.size <= MaxUploadBytes
        /\ d.verdict = "refused" => ~ Matches(b) \/ s # "success"
    BY <1>1, <1>2, <1>4, ReadingTyped, LimitsAssumption DEF JudgeObject, Matches
  <2>2. d \in Reading
    BY <1>1, <1>2, <2>1 DEF Reading, Statuses
  <2>. QED
    BY <1>3, <1>4, <2>1, <2>2, ResemblanceKeeps
       DEF ReadingInv, WorthReading, OfTheWhole, HasCause, Resembles
<1>5. CASE b.reader = "introspection"
  <2>1. /\ d.verdict \in {"refused", "reading", "unavailable"}
        /\ d.verdict = "reading" => s = "success"
        /\ d.verdict = "refused" =>
             s = "client_error" \/ Len(b.held.content) > MaxResponseBytes
    BY <1>2, <1>5 DEF JudgeIntrospection, Statuses
  <2>2. d \in Reading
    BY <1>1, <1>2, <2>1 DEF Reading, Statuses
  <2>. QED
    BY <1>3, <1>5, <2>1, <2>2, ResemblanceKeeps
       DEF ReadingInv, WorthReading, OfTheWhole, HasCause, Resembles
<1>. QED
  BY <1>1, <1>4, <1>5 DEF Reading

LEMMA ReadingAdvances ==
  ASSUME NEW b \in Reading, NEW k \in Nat, NEW t \in Seq(Byte), NEW v \in {"reading", "refused"},
         NEW d, d = [b EXCEPT !.arrived = k, !.observed = k, !.taken = t, !.verdict = v]
  PROVE  d \in Reading
BY DEF Reading

LEMMA ChunkInv ==
  ASSUME NEW b, ReadingInv(b), b.verdict = "reading", NEW n \in ChunkSizes(b)
  PROVE  ReadingInv(WithChunk(b, n))
<1>. DEFINE d == WithChunk(b, n)
<1>2. /\ b \in Reading /\ b.observed = b.arrived /\ b.arrived \in Nat /\ n \in Nat /\ n >= 1
      /\ b.held.content \in Seq(Byte) /\ b.arrived + n <= Len(b.held.content)
      /\ Len(b.taken) = b.arrived /\ b.taken = SubSeq(b.held.content, 1, b.arrived)
      /\ Limit(b) \in Nat /\ b.declared.size \in Nat /\ Len(b.held.content) \in Nat
      /\ b.taken \in Seq(Byte)
  BY ReadingTyped DEF ReadingInv, TakesInOrder, ChunkSizes
<1>3. /\ d.reader = b.reader /\ d.declared = b.declared /\ d.held = b.held
      /\ d.status = b.status /\ d.arrived = b.arrived + n /\ d.observed = b.arrived + n
      /\ Limit(d) = Limit(b)
  BY <1>2 DEF WithChunk, Reading, Limit
<1>4. CASE Crosses(b, n)
  <2>1. d.verdict = "refused" /\ d.taken = b.taken /\ b.arrived + n > Limit(b)
    BY <1>2, <1>4 DEF WithChunk, Crosses, Reading
  <2>2. d \in Reading
    <3>1. d = [b EXCEPT !.arrived = b.arrived + n, !.observed = b.arrived + n,
                        !.taken = b.taken, !.verdict = "refused"]
      BY <1>2, <1>4 DEF WithChunk, Reading
    <3>2. b \in Reading /\ b.arrived + n \in Nat /\ b.taken \in Seq(Byte)
      BY <1>2
    <3>. QED
      BY <3>1, <3>2, ReadingAdvances
  <2>3. HasCause(d)
    BY <1>2, <1>3, <2>1, LimitsAssumption DEF ReadingInv, HasCause, Matches, Limit, Reading
  <2>4. WorthReading(d) /\ TakesInOrder(d) /\ OfTheWhole(d)
    BY <1>2, <1>3, <2>1 DEF ReadingInv, WorthReading, TakesInOrder, OfTheWhole
  <2>. QED
    BY <1>2, <1>3, <2>2, <2>3, <2>4 DEF ReadingInv
<1>5. CASE ~ Crosses(b, n)
  <2>1. d.verdict = "reading" /\ d.taken = b.taken \o NextBytes(b, n) /\ b.arrived + n <= Limit(b)
    BY <1>2, <1>5 DEF WithChunk, Crosses, Reading
  <2>2. /\ d.taken = SubSeq(b.held.content, 1, b.arrived + n)
        /\ Len(d.taken) = b.arrived + n /\ d.taken \in Seq(Byte)
    <3>1. /\ SubSeq(b.held.content, 1, b.arrived) \o
               SubSeq(b.held.content, b.arrived + 1, b.arrived + n)
                 = SubSeq(b.held.content, 1, b.arrived + n)
          /\ Len(SubSeq(b.held.content, 1, b.arrived + n)) = b.arrived + n
          /\ SubSeq(b.held.content, 1, b.arrived + n) \in Seq(Byte)
      BY <1>2, PrefixGrows
    <3>. QED
      BY <1>2, <2>1, <3>1 DEF NextBytes
  <2>3. d \in Reading
    <3>1. d = [b EXCEPT !.arrived = b.arrived + n, !.observed = b.arrived + n,
                        !.taken = d.taken, !.verdict = "reading"]
      BY <1>2, <1>5, <2>1 DEF WithChunk, Reading
    <3>2. b \in Reading /\ b.arrived + n \in Nat /\ d.taken \in Seq(Byte)
      BY <1>2, <2>2
    <3>. QED
      BY <3>1, <3>2, ReadingAdvances
  <2>4. WorthReading(d) /\ TakesInOrder(d) /\ OfTheWhole(d) /\ HasCause(d)
    BY <1>2, <1>3, <2>1, <2>2
       DEF ReadingInv, WorthReading, TakesInOrder, OfTheWhole, HasCause
  <2>. QED
    BY <1>2, <1>3, <2>3, <2>4 DEF ReadingInv
<1>. QED
  BY <1>4, <1>5

LEMMA ConcludedInv ==
  ASSUME NEW b, ReadingInv(b), AtEnd(b)
  PROVE  /\ ReadingInv(Concluded(b))
         /\ Concluded(b).verdict \in {"accepted", "refused"}
<1>. DEFINE d == Concluded(b)
<1>1. /\ b \in Reading /\ b.verdict = "reading" /\ b.observed = Len(b.held.content)
      /\ Len(b.taken) = Len(b.held.content)
      /\ b.taken = SubSeq(b.held.content, 1, Len(b.held.content))
      /\ Len(b.taken) <= Limit(b)
  BY DEF AtEnd, ReadingInv, TakesInOrder
<1>2. b.taken = b.held.content
  BY <1>1, ReadingTyped, SubSeqFull
<1>3. d.verdict = (IF Agrees(b) THEN "accepted" ELSE "refused") /\ d.status = b.status
      /\ Resembles(d, b) /\ d \in Reading
  BY <1>1 DEF Concluded, Resembles, Reading
<1>4. OfTheWhole(d) /\ HasCause(d) /\ WorthReading(d)
  BY <1>1, <1>2, <1>3 DEF ReadingInv, Agrees, WorthReading, OfTheWhole, HasCause, Matches,
     Limit, Resembles, Reading
<1>. QED
  BY <1>1, <1>3, <1>4, ResemblanceKeeps DEF ReadingInv

LEMMA BrokenInv ==
  ASSUME NEW b, ReadingInv(b), b.verdict \in {"asking", "reading"}
  PROVE  ReadingInv(Broken(b))
<1>1. b \in Reading
  BY DEF ReadingInv
<1>2. Broken(b).verdict = "unavailable" /\ Resembles(Broken(b), b) /\ Broken(b) \in Reading
  BY <1>1 DEF Broken, Resembles, Reading
<1>. QED
  BY <1>2, ResemblanceKeeps DEF ReadingInv, WorthReading, OfTheWhole, HasCause

-----------------------------------------------------------------------------
(* Whatever is stored or answered, and however it is cut: the two readers  *)
(* keep to their limits and take nothing out of order.                     *)
THEOREM StreamInvariant == BodySpec => []StreamInv
<1>1. BodyInit => StreamInv
  BY AskingInv DEF BodyInit, StreamInv
<1>2. StreamInv /\ [BodyNext]_body => StreamInv'
  <2>. SUFFICES ASSUME StreamInv, BodyNext PROVE StreamInv'
    BY DEF StreamInv
  <2>1. CASE Open
    BY <2>1, OpenedInv DEF Open, StreamInv
  <2>2. CASE Chunk
    BY <2>2, ChunkInv DEF Chunk, StreamInv
  <2>3. CASE End
    BY <2>3, ConcludedInv DEF End, StreamInv
  <2>4. CASE Break
    BY <2>4, BrokenInv DEF Break, StreamInv
  <2>. QED
    BY <2>1, <2>2, <2>3, <2>4 DEF BodyNext
<1>. QED
  BY <1>1, <1>2, PTL DEF BodySpec

(* verify_object accepts no object but the declared one, and auth.rs       *)
(* parses no part of a decision, for every limit and every chunking.       *)
THEOREM WholeBodiesOnly == BodySpec => []VerdictsAreOfTheWhole
<1>1. StreamInv => VerdictsAreOfTheWhole
  BY DEF StreamInv, ReadingInv, VerdictsAreOfTheWhole
<1>. QED
  BY <1>1, StreamInvariant, PTL

(* verify_object and bounded_response refuse nothing that fits and matches, *)
(* unless the status is at fault.                                           *)
THEOREM RefusalsHaveCause == BodySpec => []RefusedForCause
<1>1. StreamInv => RefusedForCause
  BY DEF StreamInv, ReadingInv, RefusedForCause
<1>. QED
  BY <1>1, StreamInvariant, PTL

(* Neither reader hashes or keeps more than its limit of a body. *)
THEOREM ReadingIsBounded == BodySpec => []BoundedReading
<1>1. StreamInv => BoundedReading
  BY DEF StreamInv, ReadingInv, BoundedReading
<1>. QED
  BY <1>1, StreamInvariant, PTL
=============================================================================
