\* The stop trajectory of a second emergency.
CONSTANTS
  Goals <- MCOpenGoals
  GateEnable = TRUE
  GateMin <- MCGateMin
  GateMax <- MCGateMax
  Keepouts <- MCKeepouts
  Wps <- MCWps
  Mid = Mid
  NoPt = NoPt
  Uninit = Uninit
  Roles = {"lone"}
  MaxGoals = 1
SPECIFICATION Spec
PROPERTY EmergencyCommandsStop
CHECK_DEADLOCK FALSE
