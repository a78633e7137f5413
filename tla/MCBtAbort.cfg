\* What clears the abort latch.
CONSTANTS
  DeadlineTicks = 3
  Enabled <- MCEnabled
  Attempts <- MCAttempts
  Ids <- MCIds
  Configs <- MCShipped
  MaxEvents = 4
SPECIFICATION EngineSpec
PROPERTY AbortNeedsStop
