\* The same clients with one match, for the liveness properties.
SPECIFICATION SeatedFairSpec
CONSTANTS
    MaxConnection = 2
    MaxPlayer = 2
    MaxRoom = 1
    MaxOrdinal = 2
    MaxMatch = 1
    RoomCapacity = 2
    MaximumRooms = 1
    Worker = {1}
    MaxControl = 2
PROPERTIES
    StartResolves
    LossesResolve
CHECK_DEADLOCK FALSE
