SPECIFICATION Spec
CONSTANTS
  Bytes = {0, 1, 2}
  CacheSize = 2
  MaxSize = 6
  Uses <- MCUses
INVARIANTS
  check_invariants
PROPERTIES
  ImplementsFile
  CallsReturn
