SPECIFICATION Spec
CONSTANTS
  a = a
  b = b
  Keys = {a, b}
  Contents <- MCContents
  MaxBatches = 4
  U32 = 8
  Nil = Nil
INVARIANT UnknownIsAbsent
