\* The gate and the planner, with a depth watchdog that may take goals away.
CONSTANTS
  Reasons = {"not_ready"}
  Regions = {left, right}
  NoRegion = NoRegion
  Places = {here, there}
  NoPlace = NoPlace
  ConsistencyRequired = 2
  SafetyLossRequired = 2
  MaxGoals = 3
SPECIFICATION FairSpec
INVARIANTS
  WaitsForAnAnswer
  InStep
PROPERTIES
  FreshAgreement
  UnflownGoalEnds
CHECK_DEADLOCK FALSE
