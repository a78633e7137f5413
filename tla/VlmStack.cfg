\* Supervised mode: two threads of the VLM node, two gates, the supervisor.
CONSTANTS
  PointRejectionLimit = 2
  PrimitiveRejectionLimit = 1
  MaxUnread = 1
SPECIFICATION FairSpec
INVARIANT StackInv
PROPERTIES
  ModesAgree
CHECK_DEADLOCK FALSE
