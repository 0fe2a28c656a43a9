SPECIFICATION Spec
CONSTANTS
  k0 = k0
  z0 = z0
  k1 = k1
  k2 = k2
  a = a
  b = b
  Keys = {k1, k2}
  Chunks = {a, b}
  Threads = {t1, t2, t3}
  Requests <- SafeRequests
  MaxOps = 2
  BucketCount = 3
  Hasher <- MCHasher
SYMMETRY Symmetry
INVARIANTS
  DataRaceFree
PROPERTIES
  Linearizable
