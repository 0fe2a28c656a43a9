SPECIFICATION MCSpec
CONSTANTS
  Width = 6
  Height = 5
  Walls <- MCWalls
  Grass = {8, 14, 20}
  Start = 7
  MaxScore = 12
  NodeCount = 4
  Data = {1, 2}
  Dimensions <- MCDimensions
  Runs <- MCRuns
  MaxRuns = 2
  MaxRows = 2
  NameBytes = {0, 1, 2, 3, 4, 5, 10}
  MaxTyped = 4
INVARIANTS
  SnakeIsOnItsCells
  SnakeCanGoOn
  BoardIsTheString
  NameIsMeasured
PROPERTIES
  ListIsSequence
CHECK_DEADLOCK FALSE
