SPECIFICATION MCSpec
CONSTANTS
  Base = 2
  MaxGranularity = 4
  MaxShards = 16
  OffBits = 1
  IndexBits = 1
  Levels = 3
  MaxTables = 5
  MaxMaps = 2
  Maps <- MCMaps
  W = 6
  MaxNumber = 140
  RAND_MAX = 15
  Sector = 2
  Memory = 8
  Slots = 3
  Funcs = 2
  LastSize = 3
  Programs = {p1, p2}
  Rows = 2
  Columns = 2
  MaxPuts = 4
  Positions <- MCPositions
  MaxBytes = 2
  MaxDown = 3
SYMMETRY MCSymmetry
INVARIANTS
  ShardsPartitionTheKeys
  OverlapIsExact
  VmiterIsTheMmu
  EveryTableFreedOnce
  LibraryIsExact
  LaidOutIsFound
  ConsoleShowsTheText
  ModifiersFollowTheKeys
CHECK_DEADLOCK FALSE
