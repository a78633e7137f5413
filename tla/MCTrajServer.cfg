SPECIFICATION Spec
CONSTANTS
  Places = {0, 1, 2, 3, 4}
  TooLong = 4
  StopTime = 2
  MaxPlan = 1
  Trials = 1
  MaxTrajs = 2
  MaxNow = 5
  HalfTurn = 4
  Rate = 2
  Headings <- FewHeadings
  Ahead = 1
  MaxDelay = 1
INVARIANT ServerInv
PROPERTIES JumpsAreDelays YawKeepsItsRate
CHECK_DEADLOCK FALSE
