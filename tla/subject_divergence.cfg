\* A submission is retried under another identity than it was first sent under.
CONSTANTS
  Client = {c1, c2}
  MaxTries = 1
  MaxFaults = 1
  MaxAttempts = 2
  Kind = {"pre_interest"}
  Key = {k1}
  Digest = {d1}
  Subject = {alice}
  Anonymous = Anonymous
SPECIFICATION Spec
INVARIANT SameSubject
CHECK_DEADLOCK FALSE
