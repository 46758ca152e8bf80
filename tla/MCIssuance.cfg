SPECIFICATION Spec
CONSTANTS
  StartTime = 1
  BatchDuration = 1
  Lifetime = 2
  ValidityWindowSize = 2
  StorageWindowSize = 4
  U32 = 16
  a = a
  b = b
  x = x
  p1 = p1
  p2 = p2
  Proc = {p1, p2}
  Cron = p1
  Submissions = {a, b}
  Unreadable = {}
  Garbled = Garbled
  Calls <- MCCalls
  Outcomes <- AllRight
  MaxTime = 7
  MaxFaults = 2
  Nil = Nil
SYMMETRY ProcSymmetry
INVARIANTS
  TypeOK
  OneHandle
  Contiguous
  WindowChain
  NoLostSubmission
  DuplicateBound
  CacheFresh
  RetainedWindow
  CanContinue
  NotEarly
  LatestLag
PROPERTIES
  IssueComplete
  ImplementsBatchLog
CHECK_DEADLOCK FALSE
