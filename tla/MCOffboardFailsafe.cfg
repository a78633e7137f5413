\* A takeoff under failsafe.
CONSTANTS
  CmdVelTimeout = 1
  HeartbeatTimeout = 2
  Durations = {0, 2}
  Altitudes <- SomeAltitudes
  MaxAltitude <- FiftyUp
  SignalTimeout = 1
  MaxInFlight = 2
SPECIFICATION Spec
PROPERTY FailsafeBlocksTakeoff
CHECK_DEADLOCK FALSE
