\* Are rays cast from the pose the image was taken at?
SPECIFICATION Spec
CONSTANTS
    NumX = 4
    NumZ = 4
    InfStep = 1
    LocalMapMargin = 1
    VecMargin = 1
    CeilId = 3
    ProbHitLog = 150
    ProbMissLog <- MCProbMissLog
    ClampMinLog <- MCClampMinLog
    ClampMaxLog = 220
    MinOccupancyLog = 139
    UnknownFlag = 1
    CharMax = 1
    MinDepth = 2
    OdomDepthTimeout = 0
    MaxChanges = 1
    Poses <- MCPoses
    Outside <- MCOutside
    Pixels <- MCPixels
    Worlds <- MCWorlds
    UpdateRange <- MCUpdateRange
PROPERTY ImagesKeepTheirPose
CHECK_DEADLOCK FALSE
