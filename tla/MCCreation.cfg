SPECIFICATION Spec
CONSTANTS
  Runs = {p, q, r}
  Options <- MCOptions
  DefaultBatch = 2
  DefaultLifetime = 4
  Second = 2
  U64 = 64
  MaxKeys = 3
  Empty = Empty
  None = None
INVARIANTS
  OpenedIsComplete
  SignerPublished
  MadeStaysOpenable
SYMMETRY MCSymmetry
