\* Any object of up to four bytes against any declaration, in chunks of any size.
CONSTANTS
  Byte = {0, 1}
  Type = {png, pdf}
  MaxLength = 4
  MaxUploadBytes = 3
  MaxResponseBytes = 2
SPECIFICATION BodySpec
INVARIANTS StreamInv VerdictsAreOfTheWhole RefusedForCause
CHECK_DEADLOCK FALSE
