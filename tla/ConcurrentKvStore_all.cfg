SPECIFICATION Spec
CONSTANTS
  k0 = k0
  z0 = z0
  k1 = k1
  k2 = k2
  a = a
  b = b
  Keys = {k0, k1, k2}
  Chunks = {a, b}
  Threads = {t1, t2, t3}
  Requests <- AllRequests
  MaxOps = 1
  BucketCount = 3
  Hasher <- MCHasher
INVARIANTS
  RaceConfined
PROPERTIES
  CallsReturn
\* Threads that wait for each other for ever violate CallsReturn.
CHECK_DEADLOCK FALSE
