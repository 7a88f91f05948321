\* The kinds with steps of their own; one try more than there are faults, so
\* that the last can succeed.
CONSTANTS
  Client = {c1, c2}
  MaxTries = 3
  MaxFaults = 2
  MaxAttempts = 2
  Kind = {"pre_interest", "upload", "application"}
  Key = {k1}
  Digest = {d1, d2}
  Subject = {}
  Anonymous = Anonymous
SPECIFICATION FairSpec
INVARIANT IInv
PROPERTY RetriesSucceed
CHECK_DEADLOCK FALSE
