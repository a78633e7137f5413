\* The three bridges, five attitudes, a tilted camera with an offset, SLAM in half units;
\* and the walk, in every scene of a few cells.
CONSTANTS
  Attitudes <- SomeAttitudes
  Positions <- TwoPositions
  Velocities <- TwoVelocities
  ImuAttitudes <- TwoHeadings
  SlamFrames <- TwoMaps
  UpFrames <- TwoWorlds
  BodyOffset <- Ahead
  SlamScale = 2
  CameraPitch <- Tilted
  SettleFrames = 2
  MaxStamp = 4
  MaxGap = 3
  Word = 100
  Scenes <- AllScenes
SPECIFICATION MCSpec
INVARIANTS BridgeInv WalkIsSound
PROPERTIES
  OdometryIsTrue
  MisalignedOnlyInTransit
CHECK_DEADLOCK FALSE
