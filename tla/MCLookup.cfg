SPECIFICATION FairSpec
CONSTANTS
  a = a
  b = b
  Keys = {a, b}
  Contents <- MCContents
  MaxBatches = 4
  U32 = 8
  Nil = Nil
INVARIANTS
  OpenFilesStored
  CertificateRight
  StoredIsFound
PROPERTY Returns
