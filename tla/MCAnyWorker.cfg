\* Two game servers, one of which can reconnect, and two reservations.
SPECIFICATION OpenSpec
CONSTANTS
    Worker = {1, 2}
    MaxControl = 3
    MaxMatch = 2
    MaxInFlight = 1
INVARIANTS
    RegistryAgrees
    OwedAnswersAreTimed
    EventsInOrder
    NothingForgotten
VIEW View
CHECK_DEADLOCK FALSE
