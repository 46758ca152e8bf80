SPECIFICATION Spec
CONSTANTS
  StartTime = 1
  BatchDuration = 1
  Lifetime = 1
  ValidityWindowSize = 1
  StorageWindowSize = 2
  U32 = 16
  a = a
  b = b
  x = x
  p1 = p1
  p2 = p2
  Proc = {p1, p2}
  Cron = p1
  Submissions = {a, b}
  Unreadable = {}
  Garbled = Garbled
  Calls <- MCCalls
  Outcomes <- TreeMayBeWrong
  MaxTime = 4
  MaxFaults = 0
  Nil = Nil
PROPERTY PassesAgree
CHECK_DEADLOCK FALSE
