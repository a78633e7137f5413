\* The node with every operator call and sensor change, under one faulty step or two.
CONSTANTS
  DeadlineTicks = 3
  Enabled <- MCEnabled
  Attempts <- MCAttempts
  Ids <- MCIds
  Configs <- MCConfigs
  MaxEvents = 3
SPECIFICATION EngineFairSpec
INVARIANT BtInv
PROPERTIES
  SafetyPreempts
  NoSecondTakeoff
  FlightsEndLanded
  MissionsEnd
