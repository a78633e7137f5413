\* A landing step that never answers.
CONSTANTS
  DeadlineTicks = 3
  Enabled <- MCEnabled
  Attempts <- MCAttempts
  Ids <- MCIds
  Configs <- MCHung
  MaxEvents = 1
SPECIFICATION EngineFairSpec
PROPERTY LandingFinishes
