\* The tick that reports the depth stream lost.
CONSTANTS
  Goals <- MCOpenGoals
  GateEnable = TRUE
  GateMin <- MCGateMin
  GateMax <- MCGateMax
  Keepouts <- MCKeepouts
  Wps <- MCWps
  Mid = Mid
  NoPt = NoPt
  Uninit = Uninit
  Roles = {"lone"}
  MaxGoals = 1
SPECIFICATION Spec
PROPERTY DepthLossStops
CHECK_DEADLOCK FALSE
