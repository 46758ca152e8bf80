SPECIFICATION FairSpec
CONSTANTS
  KeyMax = 7
  Size <- MCSize
  Streams <- MCStreams
  Nil = Nil
INVARIANTS
  IndexExact
  OffsetsRight
  Bracket
  ProbeInside
  Answer
PROPERTIES
  Shrinks
  Terminates
