----------------------------- MODULE OutboxRetry -----------------------------
(***************************************************************************)
(* The life of one hhm_submission_outbox row under any sequence of the two *)
(* transactions that update it, mark_mirrored and record_mirror_failure.   *)
(* Callers are left out: requests for one submission race, so the          *)
(* transactions arrive in any order and any number.                        *)
(***************************************************************************)
EXTENDS Outbox

VARIABLE entry

Init == entry = NewEntry

RecordMirrorFailure == CanFail(entry) /\ entry' = Failed(entry)

MarkMirrored == entry' = Delivered(entry)

Next == RecordMirrorFailure \/ MarkMirrored

Spec == Init /\ [][Next]_entry

-----------------------------------------------------------------------------
(* The row only ever holds values of its columns' types. *)
TypeOK == entry \in Entry

(* A delivery is abandoned as terminal_failure only when its attempts are  *)
(* used up, and one whose attempts are used up never again asks for a      *)
(* retry that could not be recorded: persistence.rs compares the count     *)
(* before the increment with 99 in the CASE and with 100 in the WHERE.     *)
TerminalWhenExhausted ==
  /\ entry.status = "terminal_failure" => entry.attempts = MaxAttempts
  /\ entry.attempts = MaxAttempts => entry.status \in {"terminal_failure", "mirrored"}

(* last_error_code is set exactly while the last thing recorded of the     *)
(* mirror is a failure.                                                    *)
ErrorIffFailed ==
  entry.error <=> entry.status \in {"retryable_failure", "terminal_failure"}

(* A recorded failure schedules the next attempt ahead of the present and  *)
(* at most an hour away: the shift neither overflows nor wraps into a      *)
(* negative interval as attempts grow to 100.                              *)
BackoffInRange == entry.attempts > 0 => 1 <= entry.delay /\ entry.delay <= 3600

(* Attempts are never given back, and the waiting time never shrinks from  *)
(* one failure to the next, acknowledgements in between included.          *)
RetriesSlowDown ==
  [][entry'.attempts >= entry.attempts /\ entry'.delay >= entry.delay]_entry

(* Once the attempts are used up and the submission is acknowledged, no    *)
(* late failure report takes the acknowledgement back.                     *)
AcknowledgedAfterExhaustionIsFinal ==
  [][entry.attempts = MaxAttempts /\ entry.status = "mirrored"
       => entry'.status = "mirrored"]_entry
=============================================================================
