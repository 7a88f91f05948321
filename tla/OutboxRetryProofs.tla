-------------------------- MODULE OutboxRetryProofs --------------------------
(* Proofs about OutboxRetry, for every bound on the attempts. *)
EXTENDS OutboxRetry, OutboxLemmas

(* The state properties are inductive together. *)
OutboxInv == TypeOK /\ TerminalWhenExhausted /\ ErrorIffFailed

LEMMA InitEstablishesOutboxInv == Init => OutboxInv
<1>. SUFFICES ASSUME Init PROVE OutboxInv
  OBVIOUS
<1>1. TypeOK
  BY MaxAttemptsAssumption DEF Init, TypeOK, Entry, EntryStatus, RowStatus, NewEntry, Delay
<1>2. TerminalWhenExhausted /\ ErrorIffFailed
  BY MaxAttemptsAssumption DEF Init, NewEntry, TerminalWhenExhausted, ErrorIffFailed
<1>. QED
  BY <1>1, <1>2 DEF OutboxInv

LEMMA NextPreservesOutboxInv == OutboxInv /\ [Next]_entry => OutboxInv'
<1>. SUFFICES ASSUME OutboxInv, [Next]_entry PROVE OutboxInv'
  OBVIOUS
<1>. USE DEF OutboxInv, TypeOK
<1>1. CASE RecordMirrorFailure
  <2>1. CanFail(entry) /\ entry' = Failed(entry)
    BY <1>1 DEF RecordMirrorFailure
  <2>2. TypeOK'
    BY <2>1, EntryTypes
  <2>3. TerminalWhenExhausted'
    BY <2>1, FailedFields DEF TerminalWhenExhausted
  <2>4. ErrorIffFailed'
    BY <2>1, FailedFields, Zenon DEF ErrorIffFailed
  <2>. QED
    BY <2>2, <2>3, <2>4
<1>2. CASE MarkMirrored
  <2>1. entry' = Delivered(entry)
    BY <1>2 DEF MarkMirrored
  <2>2. TypeOK'
    BY <2>1, EntryTypes
  <2>3. TerminalWhenExhausted'
    BY <2>1, DeliveredFields DEF TerminalWhenExhausted
  <2>4. ErrorIffFailed'
    BY <2>1, DeliveredFields DEF ErrorIffFailed
  <2>. QED
    BY <2>2, <2>3, <2>4
<1>3. CASE UNCHANGED entry
  BY <1>3 DEF TerminalWhenExhausted, ErrorIffFailed
<1>. QED
  BY <1>1, <1>2, <1>3 DEF Next

(* Whatever the bound on attempts and however the acknowledgements and     *)
(* failures of persistence.rs interleave: a delivery is abandoned exactly  *)
(* when its attempts are used up, and an error code is on record exactly   *)
(* while a failure is.                                                     *)
THEOREM OutboxInvariant == Spec => [](TypeOK /\ TerminalWhenExhausted /\ ErrorIffFailed)
BY InitEstablishesOutboxInv, NextPreservesOutboxInv, PTL DEF Spec, OutboxInv

(* The columns of an outbox row written by persistence.rs keep their types, *)
(* and the delay is always one of the back-off, for every bound.            *)
THEOREM EntryTyped == Spec => []TypeOK
BY OutboxInvariant, PTL

(* last_error_code is on record exactly while the last thing persistence.rs *)
(* recorded of the mirror is a failure.                                     *)
THEOREM ErrorsInAccord == Spec => []ErrorIffFailed
BY OutboxInvariant, PTL

(* The failure update of persistence.rs leaves an acknowledgement alone    *)
(* once the attempts are used up, for every bound.                         *)
THEOREM AcknowledgementFinal == Spec => AcknowledgedAfterExhaustionIsFinal
<1>1. TypeOK /\ [Next]_entry =>
        [entry.attempts = MaxAttempts /\ entry.status = "mirrored"
           => entry'.status = "mirrored"]_entry
  BY MaxAttemptsAssumption, DeliveredFields
     DEF TypeOK, Next, RecordMirrorFailure, MarkMirrored, CanFail
<1>. QED
  BY <1>1, OutboxInvariant, PTL DEF Spec, AcknowledgedAfterExhaustionIsFinal

-----------------------------------------------------------------------------
(* The back-off after each number of failures: LEAST stops the doubling    *)
(* at 2048 s, and LEAST(3600, ...) never binds.                            *)
LEMMA Backoffs ==
  /\ Backoff(0) = 1   /\ Backoff(1) = 2   /\ Backoff(2) = 4    /\ Backoff(3) = 8
  /\ Backoff(4) = 16  /\ Backoff(5) = 32  /\ Backoff(6) = 64   /\ Backoff(7) = 128
  /\ Backoff(8) = 256 /\ Backoff(9) = 512 /\ Backoff(10) = 1024
  /\ \A attempts \in Nat : attempts >= 11 => Backoff(attempts) = 2048
<1>1. /\ Least(0, 11) = 0 /\ Least(1, 11) = 1 /\ Least(2, 11) = 2 /\ Least(3, 11) = 3
      /\ Least(4, 11) = 4 /\ Least(5, 11) = 5 /\ Least(6, 11) = 6 /\ Least(7, 11) = 7
      /\ Least(8, 11) = 8 /\ Least(9, 11) = 9 /\ Least(10, 11) = 10
      /\ \A attempts \in Nat : attempts >= 11 => Least(attempts, 11) = 11
  BY DEF Least
<1>2. /\ Int4ShiftLeft(0) = 1   /\ Int4ShiftLeft(1) = 2    /\ Int4ShiftLeft(2) = 4
      /\ Int4ShiftLeft(3) = 8   /\ Int4ShiftLeft(4) = 16   /\ Int4ShiftLeft(5) = 32
      /\ Int4ShiftLeft(6) = 64  /\ Int4ShiftLeft(7) = 128  /\ Int4ShiftLeft(8) = 256
      /\ Int4ShiftLeft(9) = 512 /\ Int4ShiftLeft(10) = 1024 /\ Int4ShiftLeft(11) = 2048
  BY DEF Int4ShiftLeft
<1>3. /\ Least(3600, 1) = 1     /\ Least(3600, 2) = 2     /\ Least(3600, 4) = 4
      /\ Least(3600, 8) = 8     /\ Least(3600, 16) = 16   /\ Least(3600, 32) = 32
      /\ Least(3600, 64) = 64   /\ Least(3600, 128) = 128 /\ Least(3600, 256) = 256
      /\ Least(3600, 512) = 512 /\ Least(3600, 1024) = 1024
      /\ Least(3600, 2048) = 2048
  BY DEF Least
<1>. QED
  BY <1>1, <1>2, <1>3, SMT DEF Backoff

(* The back-off of every count is within the hour, and that of one failure *)
(* more is no shorter.                                                     *)
LEMMA BackoffGrows ==
  \A attempts \in Nat : /\ Backoff(attempts) \in Nat
                        /\ 1 <= Backoff(attempts) /\ Backoff(attempts) <= 3600
                        /\ Backoff(attempts) <= Backoff(attempts + 1)
<1>. SUFFICES ASSUME NEW attempts \in Nat
              PROVE  /\ Backoff(attempts) \in Nat
                     /\ 1 <= Backoff(attempts) /\ Backoff(attempts) <= 3600
                     /\ Backoff(attempts) <= Backoff(attempts + 1)
  OBVIOUS
<1>1. CASE attempts < 11
  <2>1. attempts \in {0, 1, 2, 3, 4, 5, 6, 7, 8, 9, 10}
    BY <1>1
  <2>2. Backoff(11) = 2048
    BY Backoffs
  <2>. QED
    BY <2>1, <2>2, Backoffs
<1>2. CASE attempts >= 11
  BY <1>2, Backoffs
<1>. QED
  BY <1>1, <1>2

(* The delay on record is that of the last failure, which is what makes    *)
(* the schedule comparable with the next one.                              *)
DelayOfLastFailure ==
  entry.delay = IF entry.attempts = 0 THEN 0 ELSE Backoff(entry.attempts - 1)

(* It is kept by both transactions. *)
LEMMA DelayFollowsAttempts == Spec => []DelayOfLastFailure
<1>1. Init => DelayOfLastFailure
  BY DEF Init, NewEntry, DelayOfLastFailure
<1>2. TypeOK /\ DelayOfLastFailure /\ [Next]_entry => DelayOfLastFailure'
  <2>. SUFFICES ASSUME TypeOK, DelayOfLastFailure, [Next]_entry
                PROVE  DelayOfLastFailure'
    OBVIOUS
  <2>1. CASE RecordMirrorFailure
    <3>1. /\ entry'.attempts = entry.attempts + 1
          /\ entry'.delay = Backoff(entry.attempts)
      BY <2>1 DEF RecordMirrorFailure, Failed
    <3>2. entry.attempts \in Nat
      BY MaxAttemptsAssumption DEF TypeOK, Entry
    <3>3. entry'.attempts # 0 /\ entry'.attempts - 1 = entry.attempts
      BY <3>1, <3>2
    <3>. QED
      BY <3>1, <3>3, Zenon DEF DelayOfLastFailure
  <2>2. CASE MarkMirrored
    BY <2>2, DeliveredFields DEF MarkMirrored, TypeOK, DelayOfLastFailure
  <2>3. CASE UNCHANGED entry
    BY <2>3 DEF DelayOfLastFailure
  <2>. QED
    BY <2>1, <2>2, <2>3 DEF Next
<1>. QED
  BY <1>1, <1>2, OutboxInvariant, PTL DEF Spec

(* What the delay on record is bounded by. *)
LEMMA DelayBounded ==
  ASSUME TypeOK, DelayOfLastFailure
  PROVE  /\ entry.attempts \in Nat
         /\ entry.delay \in Int
         /\ entry.attempts > 0 => 1 <= entry.delay /\ entry.delay <= 3600
<1>1. entry.attempts \in Nat
  BY MaxAttemptsAssumption DEF TypeOK, Entry
<1>2. CASE entry.attempts = 0
  BY <1>2 DEF DelayOfLastFailure
<1>3. CASE entry.attempts # 0
  <2>1. entry.attempts - 1 \in Nat
    BY <1>1, <1>3
  <2>2. /\ Backoff(entry.attempts - 1) \in Nat
        /\ 1 <= Backoff(entry.attempts - 1) /\ Backoff(entry.attempts - 1) <= 3600
    BY <2>1, BackoffGrows
  <2>. QED
    BY <1>1, <1>3, <2>2 DEF DelayOfLastFailure
<1>. QED
  BY <1>1, <1>2, <1>3

(* The shift of the failure update in persistence.rs neither overflows nor *)
(* turns negative: a failure on record is retried within the hour, for     *)
(* every bound on the attempts.                                            *)
THEOREM BackoffBounded == Spec => []BackoffInRange
<1>1. TypeOK /\ DelayOfLastFailure => BackoffInRange
  BY DelayBounded DEF BackoffInRange
<1>. QED
  BY <1>1, OutboxInvariant, DelayFollowsAttempts, PTL

(* The waiting time recorded by persistence.rs never shrinks, whatever     *)
(* acknowledgements come in between, for every bound on the attempts.      *)
THEOREM BackoffNeverShrinks == Spec => RetriesSlowDown
<1>1. TypeOK /\ DelayOfLastFailure /\ [Next]_entry =>
        [entry'.attempts >= entry.attempts /\ entry'.delay >= entry.delay]_entry
  <2>. SUFFICES ASSUME TypeOK, DelayOfLastFailure, Next
                PROVE  entry'.attempts >= entry.attempts /\ entry'.delay >= entry.delay
    OBVIOUS
  <2>1. entry.attempts \in Nat
    BY DelayBounded
  <2>2. entry.delay \in Int
    BY DelayBounded
  <2>3. CASE RecordMirrorFailure
    <3>1. /\ entry'.attempts = entry.attempts + 1
          /\ entry'.delay = Backoff(entry.attempts)
      BY <2>3 DEF RecordMirrorFailure, Failed
    <3>2. CASE entry.attempts = 0
      <4>1. Backoff(entry.attempts) \in Nat
        BY <2>1, BackoffGrows
      <4>. QED
        BY <3>1, <3>2, <4>1 DEF DelayOfLastFailure
    <3>3. CASE entry.attempts # 0
      <4>1. entry.attempts - 1 \in Nat /\ (entry.attempts - 1) + 1 = entry.attempts
        BY <3>3, <2>1
      <4>2. Backoff(entry.attempts - 1) <= Backoff(entry.attempts)
        BY <4>1, BackoffGrows
      <4>. QED
        BY <3>1, <3>3, <4>2, <2>1 DEF DelayOfLastFailure
    <3>. QED
      BY <3>2, <3>3
  <2>4. CASE MarkMirrored
    BY <2>1, <2>2, <2>4, DeliveredFields DEF MarkMirrored, TypeOK
  <2>. QED
    BY <2>3, <2>4 DEF Next
<1>. QED
  BY <1>1, OutboxInvariant, DelayFollowsAttempts, PTL DEF Spec, RetriesSlowDown
=============================================================================
