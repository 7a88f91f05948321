\* Three clients race for one key with two payloads; the first recorded
\* failure already uses the attempts up.
CONSTANTS
  Client = {c1, c2, c3}
  MaxTries = 2
  MaxFaults = 2
  MaxAttempts = 1
  Kind = {"pre_interest"}
  Key = {k1}
  Digest = {d1, d2}
  Subject = {}
  Anonymous = Anonymous
SYMMETRY ClientSymmetry
SPECIFICATION Spec
INVARIANTS ReceiptsAreDurable MirrorFollowsPrimary OutboxComplete AcknowledgementIsTrue
  StatusesAgree StableId RetryIsNeverRefused MirrorNeverContradicts
PROPERTIES RowsAreImmutable ImplementsLedger EntriesFollowRetry
CHECK_DEADLOCK FALSE
