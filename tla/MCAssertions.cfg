SPECIFICATION Spec
CONSTANTS
  V4 = {1, 2, 3}
  V6 = {1, 2, 3, 4}
  FlagClaims <- MCFlagClaims
  FileInputs <- MCFileInputs
  Subject <- MCSubject
  L16 = 9
  MaxQueued = 1
  Error = Error
  None = None
INVARIANTS
  QueueReadable
  FoundAgain
  ChecksumHolds
CHECK_DEADLOCK FALSE
