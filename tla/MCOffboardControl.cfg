\* Two frames, bounded and unbounded velocities, climbs beyond both ends of the range.
CONSTANTS
  CmdVelTimeout = 1
  HeartbeatTimeout = 2
  Durations = {0, 2}
  Altitudes <- SomeAltitudes
  MaxAltitude <- FiftyUp
  SignalTimeout = 1
  MaxInFlight = 2
SPECIFICATION FairSpec
INVARIANT ClimbsWithinLimits
PROPERTIES
  VelocityHasAnOrder
  EstopEndsOffboard
