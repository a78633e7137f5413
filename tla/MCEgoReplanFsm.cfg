\* A lone drone and drones of a swarm, flown by goals or along the preset tour.
CONSTANTS
  Goals <- MCGoals
  GateEnable = TRUE
  GateMin <- MCGateMin
  GateMax <- MCGateMax
  Keepouts <- MCKeepouts
  Wps <- MCWps
  Mid = Mid
  NoPt = NoPt
  Uninit = Uninit
  Roles = {"lone", "leader", "follower"}
  MaxGoals = 3
SPECIFICATION Spec
INVARIANTS
  FlagWrittenBeforeRead
  ExecFollowsPlan
  BusyIffTarget
PROPERTY KeepsGoalPromise
CHECK_DEADLOCK FALSE
