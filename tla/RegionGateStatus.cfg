\* Is the status that ends the gate's goal a status about that goal?
CONSTANTS
  Reasons = {"not_ready"}
  Regions = {left, right}
  NoRegion = NoRegion
  Places = {here, there}
  NoPlace = NoPlace
  ConsistencyRequired = 2
  SafetyLossRequired = 2
  MaxGoals = 3
SPECIFICATION Spec
PROPERTY OwnStatusEndsGoal
CHECK_DEADLOCK FALSE
