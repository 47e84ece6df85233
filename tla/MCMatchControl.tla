--------------------------- MODULE MCMatchControl ---------------------------
(* Instances of MatchControl for TLC: the values of the constants are in the *)
(* .cfg files.  The safety run starts with the first player alone in its     *)
(* room, the liveness run with both players seated and ready, which skips    *)
(* the ways to get there that the lobby's own run explores.                  *)
EXTENDS MatchControl

SeatedInit ==
    /\ nextConnection = 3 /\ nextPlayer = 3 /\ nextRoom = 2
    /\ nextOrdinal = 3 /\ nextMatch = 1
    /\ open = {1, 2}
    /\ connPlayer = <<1, 2>> /\ playerConn = <<1, 2>>
    /\ playerRoom = <<1, 1>>
    /\ roomState = <<"Waiting">> /\ roomHost = <<1>>
    /\ members = <<{1, 2}>> /\ ready = <<{1, 2}>>
    /\ ordinal = <<<<1, 2>>>>
    /\ pending = [m \in MatchId |-> NoReservation]
    /\ roomRes = [r \in RoomId |-> None]
    /\ active = [m \in MatchId |-> NoMatch]
    /\ tickets = {}
    /\ closing = 0 /\ expired = 0
    /\ seen = [c \in ConnectionId |-> Snapshot(1)]
    /\ C!Init /\ S!Init

HostedInit ==
    /\ nextConnection = 2 /\ nextPlayer = 2 /\ nextRoom = 2
    /\ nextOrdinal = 2 /\ nextMatch = 1
    /\ open = {1}
    /\ connPlayer = <<1, None>> /\ playerConn = <<1, None>>
    /\ playerRoom = <<1, None>>
    /\ roomState = <<"Waiting">> /\ roomHost = <<1>>
    /\ members = <<{1}>> /\ ready = <<{}>>
    /\ ordinal = <<<<1, None>>>>
    /\ pending = [m \in MatchId |-> NoReservation]
    /\ roomRes = [r \in RoomId |-> None]
    /\ active = [m \in MatchId |-> NoMatch]
    /\ tickets = {}
    /\ closing = 0 /\ expired = 0
    /\ seen = <<Snapshot(1), NoRoomView>>
    /\ C!Init /\ S!Init

HostedSpec == HostedInit /\ [][SystemNext]_vars

SeatedFairSpec == SeatedInit /\ [][SystemNext]_vars /\ Fairness
=============================================================================
