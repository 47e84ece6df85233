\* Two clients and one room, so that the control channel carries the state: one
\* game server that can come back on a second connection, and two matches.
SPECIFICATION HostedSpec
CONSTANTS
    MaxConnection = 2
    MaxPlayer = 2
    MaxRoom = 1
    MaxOrdinal = 2
    MaxMatch = 2
    RoomCapacity = 2
    MaximumRooms = 1
    Worker = {1}
    MaxControl = 2
INVARIANTS
    ServersMatchRegistry
PROPERTIES
    LifecycleSafe
CHECK_DEADLOCK FALSE
