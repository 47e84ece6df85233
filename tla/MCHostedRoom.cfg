\* One match of a host and two bots, with one thing going wrong.
SPECIFICATION RoomSpec
CONSTANTS
    MaxConnection = 3
    MaxPlayer = 3
    MaxRoom = 1
    MaxOrdinal = 3
    MaxMatch = 1
    RoomCapacity = 3
    MaximumRooms = 1
    Worker = {1}
    ExpectedPlayers = 3
    Bots = 2
    MaxTrouble = 1
VIEW RoomView
INVARIANTS
    OnlyTroubleFails
    StopLeavesNothing
CHECK_DEADLOCK FALSE
