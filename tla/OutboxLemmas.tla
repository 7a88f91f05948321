----------------------------- MODULE OutboxLemmas -----------------------------
(* What the operators of Outbox return, for every bound on the attempts. *)
EXTENDS Outbox, TLAPS

(* An entry is created well formed, and acknowledging or failing it keeps  *)
(* it so; the attempts never exceed their bound.                           *)
LEMMA EntryTypes ==
  ASSUME NEW entry \in Entry
  PROVE  /\ NewEntry \in Entry
         /\ Delivered(entry) \in Entry
         /\ CanFail(entry) => Failed(entry) \in Entry
<1>1. NewEntry \in Entry
  BY MaxAttemptsAssumption DEF Entry, EntryStatus, RowStatus, NewEntry, Delay
<1>2. Delivered(entry) \in Entry
  BY Zenon DEF Entry, EntryStatus, RowStatus, Delivered
<1>3. ASSUME CanFail(entry) PROVE Failed(entry) \in Entry
  <2>1. Backoff(entry.attempts) \in Delay
    BY DEF Entry, Delay
  <2>2. entry.attempts + 1 \in 0 .. MaxAttempts
    BY <1>3, MaxAttemptsAssumption DEF Entry, CanFail
  <2>3. Failed(entry).status \in EntryStatus
    BY DEF Failed, EntryStatus, RowStatus
  <2>. QED
    BY <2>1, <2>2, <2>3, Zenon DEF Entry, Failed
<1>. QED
  BY <1>1, <1>2, <1>3

(* What a recorded failure leaves behind. *)
LEMMA FailedFields ==
  ASSUME NEW entry \in Entry, CanFail(entry)
  PROVE  /\ Failed(entry).attempts = entry.attempts + 1
         /\ Failed(entry).status = "terminal_failure" <=> Failed(entry).attempts = MaxAttempts
         /\ Failed(entry).status \in {"retryable_failure", "terminal_failure"}
         /\ AsRowStatus(Failed(entry).status) = "retryable_failure"
         /\ Failed(entry).error
BY MaxAttemptsAssumption DEF Entry, CanFail, Failed, AsRowStatus

(* What an acknowledgement leaves behind. *)
LEMMA DeliveredFields ==
  ASSUME NEW entry \in Entry
  PROVE  /\ Delivered(entry).attempts = entry.attempts
         /\ Delivered(entry).delay = entry.delay
         /\ Delivered(entry).status = "mirrored"
         /\ AsRowStatus(Delivered(entry).status) = "mirrored"
         /\ ~ Delivered(entry).error
BY Zenon DEF Entry, Delivered, AsRowStatus
=============================================================================
