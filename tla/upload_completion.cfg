\* Two clients complete one upload, or try to, with any claims.
CONSTANTS
  Client = {c1, c2}
  Upload = {u1}
  Owner = {alice, anonymous}
  File <- Files
  WithinLimit <- FilesWithinLimit
  Sha <- Digests
  ShaOf <- FileDigests
  NoFile = NoFile
  NoStream = NoStream
  MaxFaults = 2
  Byte = {0, 1}
  Type = {"png", "pdf"}
  MaxLength = 3
  MaxUploadBytes = 2
  MaxResponseBytes = 0
SPECIFICATION FairStreamedSpec
INVARIANTS StreamedInv VerifiedObjectsMatch VerifiedTogether CompletionIsTrue
PROPERTIES ImplementsUploadCompletion ImplementsUploadStatus CompletionSucceeds
CHECK_DEADLOCK FALSE
