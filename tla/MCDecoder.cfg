SPECIFICATION FairSpec
CONSTANTS
  Streams <- MCStreams
  InitLen = 1
  MaxSize = 5
INVARIANTS
  DeliveredRight
  NothingDropped
  HonestError
PROPERTY UnmarshalReturns
CHECK_DEADLOCK FALSE
