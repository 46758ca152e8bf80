SPECIFICATION Spec
CONSTANTS
  a = a
  b = b
  Assertions = {a, b}
  Streams <- MCStreams
  MaxIndex = 10
  U8 = 5
  Presented <- MCPresented
INVARIANTS
  TreeAsDefined
  NodeCountRight
  ReadsLevel
  Complete
  Sound
