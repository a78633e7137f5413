CONSTANTS
  PoolX = 17
  PoolY = 5
  Columns <- MCColumns
  Rows <- MCRows
  NoNode = NoNode
  Size = 13
  Spacing = 4
  Samples = 6
  Obstacles <- MCObstacles
  SolverRows <- MCSolverRows
  MaxPasses = 3
SPECIFICATION CpsSpec
INVARIANTS SearchIsSound SegmentsInOrder GuidanceIsSound
PROPERTY SearchEnds
CHECK_DEADLOCK FALSE
