\* Three players on three connections, two rooms and two matches.
SPECIFICATION Spec
CONSTANTS
    MaxConnection = 3
    MaxPlayer = 3
    MaxRoom = 2
    MaxOrdinal = 5
    MaxMatch = 2
    RoomCapacity = 3
    MaximumRooms = 2
    Worker = {1}
INVARIANTS
    TypeOK
    LobbyAgrees
    RoomsAreAttended
    TicketsBelongToMatches
    ClientsSeeTheirRoom
PROPERTIES
    RosterFrozen
CHECK_DEADLOCK FALSE
