\* Two requests for one submission, and one fault: one is answered
\* 201; the other's call of the mirror fails, and it records the failure after that.
CONSTANTS
  Client = {c1, c2}
  MaxTries = 1
  MaxFaults = 1
  MaxAttempts = 2
  Kind = {"pre_interest"}
  Key = {k1}
  Digest = {d1}
  Subject = {}
  Anonymous = Anonymous
SPECIFICATION Spec
PROPERTY AcknowledgementsStand
CHECK_DEADLOCK FALSE
