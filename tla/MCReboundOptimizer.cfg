\* A planning with and without peers: one restart and two rebounds.
CONSTANTS
  Mem = 2
  MaxIterations = 4
  MaxLinesearch = 5
  MaxStep = 6
  FirstStep = 1
  FDec = 1
  SCurv = 2
  Costs <- MCCosts
  Slopes <- MCSlopes
  MaxRestarts = 2
  ReboundLimit = 1
  QuietEvals = 3
SPECIFICATION Spec
INVARIANTS
  BracketKept
  CorrectionsAreLatest
  SuccessIsTheSolution
  OptimizerInv
PROPERTY StopsAreHonoured
CHECK_DEADLOCK FALSE
