\* One applicant retries an application that was retained.
CONSTANTS
  Client = {c1}
  MaxTries = 2
  MaxFaults = 1
  MaxAttempts = 2
  Kind = {"application"}
  Key = {k1}
  Digest = {d1}
  Subject = {alice}
  Anonymous = Anonymous
  u1 = u1
  u2 = u2
  Upload = {u1, u2}
  File = {pdf}
  Attached <- BothUploads
SPECIFICATION ApplicationSpec
INVARIANT RetainedApplicationsAreRetryable
CHECK_DEADLOCK FALSE
