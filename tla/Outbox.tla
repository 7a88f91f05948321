------------------------------- MODULE Outbox -------------------------------
(***************************************************************************)
(* One row of hhm_submission_outbox, the primary database's evidence that  *)
(* a submission still has to reach the Supabase mirror, and what the two   *)
(* UPDATE statements of persistence.rs do to it.  The row is created with  *)
(* the canonical row, retried at most MaxAttempts times, and never         *)
(* deleted.                                                                *)
(***************************************************************************)
EXTENDS Integers

CONSTANT MaxAttempts    \* 100 in the code: "WHERE ... attempts < 100"

ASSUME MaxAttemptsAssumption == MaxAttempts \in Nat \ {0}

(* mirror_status of the canonical row, and of the outbox row. *)
RowStatus == {"pending", "mirrored", "retryable_failure"}
EntryStatus == RowStatus \cup {"terminal_failure"}

Least(a, b) == IF a <= b THEN a ELSE b

(* PostgreSQL's  1 << n  on a 32-bit integer: the count is taken modulo 32 *)
(* and the result wraps into the sign bit.                                 *)
Int4ShiftLeft(n) == IF n % 32 = 31 THEN -2147483647 - 1 ELSE 2 ^ (n % 32)

(* Variant: the exponent is not capped. *)
BackoffUncapped(attempts) == Least(3600, Int4ShiftLeft(attempts))

Backoff(attempts) == Least(3600, Int4ShiftLeft(Least(attempts, 11)))

(***************************************************************************)
(* delay stands for next_attempt_at: the seconds between the transaction   *)
(* that last recorded a failure and the next attempt (0: due at once, the  *)
(* column's default).  error says whether last_error_code is set.          *)
(***************************************************************************)
Delay == {0} \cup {Backoff(attempts) : attempts \in 0 .. MaxAttempts}

Entry == [status : EntryStatus, attempts : 0 .. MaxAttempts,
          delay : Delay, error : BOOLEAN]

NewEntry == [status |-> "pending", attempts |-> 0, delay |-> 0, error |-> FALSE]

(* The WHERE clause of the failure update: without a row the transaction   *)
(* fails with DataError::Invariant and everything in it is rolled back.    *)
(* Variant: the limit forgotten. *)
CanAlwaysFail(entry) == TRUE

CanFail(entry) == entry.attempts < MaxAttempts

(* Variants: the CASE compares as if the count were already incremented;   *)
(* the schedule starts over after an acknowledgement.                      *)
FailedLate(entry) ==
  [ status   |-> IF entry.attempts >= MaxAttempts
                   THEN "terminal_failure" ELSE "retryable_failure",
    attempts |-> Least(entry.attempts + 1, MaxAttempts),
    delay    |-> Backoff(entry.attempts),
    error    |-> TRUE ]

FailedAfresh(entry) ==
  [ status   |-> IF entry.attempts >= MaxAttempts - 1
                   THEN "terminal_failure" ELSE "retryable_failure",
    attempts |-> entry.attempts + 1,
    delay    |-> Backoff(IF entry.status = "mirrored" THEN 0 ELSE entry.attempts),
    error    |-> TRUE ]

(* Every expression of the SET clause reads the row as it was. *)
Failed(entry) ==
  [ status   |-> IF entry.attempts >= MaxAttempts - 1
                   THEN "terminal_failure" ELSE "retryable_failure",
    attempts |-> entry.attempts + 1,
    delay    |-> Backoff(entry.attempts),
    error    |-> TRUE ]

(* Acknowledging neither resets attempts nor the schedule. *)
Delivered(entry) == [entry EXCEPT !.status = "mirrored", !.error = FALSE]

(* What the canonical row's mirror_status can say of an entry's status:    *)
(* the table has no terminal state of its own.                             *)
AsRowStatus(status) ==
  IF status = "terminal_failure" THEN "retryable_failure" ELSE status
=============================================================================
