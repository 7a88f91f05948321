CONSTANTS
  Client = {c1, c2}
  MaxTries = 2
  MaxFaults = 1
  MaxAttempts = 2
  Kind = {"application"}
  Key = {k1}
  Digest = {d1}
  Subject = {alice}
  Anonymous = Anonymous
  u1 = u1
  u2 = u2
  Upload = {u1, u2}
  File = {pdf}
  Attached <- BothUploads
SYMMETRY Interchangeable
SPECIFICATION ApplicationSpec
INVARIANTS ApplicationInv ApplicationsAreSupported ApplicationsKeepTheirSubject
  TurnedAwayOnlyByExpiry
CHECK_DEADLOCK FALSE
