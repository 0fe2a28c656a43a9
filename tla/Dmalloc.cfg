SPECIFICATION Spec
CONSTANTS
  HeapEnd = 32
  SizeMax = 63
  Sizes <- MCSizes
  Callocs <- MCCallocs
  MaxCalls = 3
INVARIANTS
  BlocksAreOwn
  StatsAreExact
  FreesAreJudged
