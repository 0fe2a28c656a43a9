SPECIFICATION Spec
CONSTANTS
  k1 = k1
  k2 = k2
  a = a
  b = b
  Keys = {k1, k2}
  Chunks = {a, b}
  Threads = {t1, t2}
  Requests <- MCRequests
  MaxOps = 2
PROPERTIES
  Linearizable
  CallsReturnOrLeak
