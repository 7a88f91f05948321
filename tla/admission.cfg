\* Two clients with any credentials race for one key with two forms.
CONSTANTS
  alice = alice
  own = own
  other = other
  reader = reader
  nobody = nobody
  Client = {c1, c2}
  MaxTries = 2
  MaxFaults = 1
  MaxAttempts = 2
  Kind = {"pre_interest", "referral"}
  Key = {k1}
  Payload = {p1, p2}
  Digest <- Digests
  Subject = {alice}
  Anonymous = Anonymous
  Token = {own, other, reader, nobody}
  Grant <- Grants
  NoSubject = NoSubject
  NoHeader = NoHeader
  BadHeader = BadHeader
  NoProof = NoProof
  Foreign = Foreign
SPECIFICATION FairAdmission
INVARIANTS AdmissionInv RowsAreVouchedFor NeverDowngraded RefusalsStoreNothing
PROPERTY FreshCredentialsSucceed
CHECK_DEADLOCK FALSE
