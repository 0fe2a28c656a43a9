SPECIFICATION Spec
CONSTANTS
  NPages = 17
  NLow = 12
  PidMax = 3
  CountMod = 256
  Boot = {1}
  AllocAt = {"heap", "beyond"}
  RemapAt = {"heap"}
  StoreAt = {"data", "stack"}
INVARIANTS
  NoPageFreedInUse
  ViewerTellsTheTruth
PROPERTIES
  LossesAreKnown
  ProcessIsolation
  EveryoneRuns
