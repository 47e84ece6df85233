-------------------------------- MODULE Lobby --------------------------------
(***************************************************************************)
(* The lobby server's LobbyService with the Room and MatchTicketRegistry   *)
(* objects it owns: connections, players, rooms, match reservations and    *)
(* match tickets.  lobby_server runs its io_context on one thread, so each *)
(* request, disconnect or worker event is one atomic step.                 *)
(*                                                                         *)
(* Every id of the program is a counter value and 0 is never a valid id,   *)
(* so None == 0 stands for an absent map entry and for an empty optional.  *)
(* A match and its reservation draw their ids from two counters that are   *)
(* always advanced together (HandleStartMatch), so one number names both.  *)
(*                                                                         *)
(* The requests the code answers with an ErrorResponse and no other effect *)
(* (out-of-order request ids, wrong state, full room, exhausted ids) are   *)
(* steps that change nothing here.                                         *)
(***************************************************************************)
EXTENDS Naturals, FiniteSets

CONSTANTS
    MaxConnection,  \* greatest ConnectionId; the counter is reset after it
    MaxPlayer,      \* greatest PlayerId
    MaxRoom,        \* greatest RoomId
    MaxOrdinal,     \* greatest join ordinal
    MaxMatch,       \* greatest MatchId and ReservationId
    RoomCapacity,   \* members a room can hold
    MaximumRooms,   \* rooms the lobby keeps at a time
    Worker          \* ids of the game servers that events may name

None == 0

ASSUME LobbyAssumption ==
    /\ {MaxConnection, MaxPlayer, MaxRoom, MaxOrdinal, MaxMatch} \subseteq Nat
    /\ RoomCapacity \in Nat \ {0}
    /\ MaximumRooms \in Nat
    /\ None \notin Worker

ConnectionId == 1..MaxConnection
PlayerId     == 1..MaxPlayer
RoomId       == 1..MaxRoom
Ordinal      == 1..MaxOrdinal
MatchId      == 1..MaxMatch

RoomState == {"Absent", "Waiting", "Starting", "InMatch"}

Reservation == [room : RoomId \cup {None}, requester : PlayerId \cup {None},
                players : SUBSET PlayerId]
NoReservation == [room |-> None, requester |-> None, players |-> {}]

ActiveMatch == [room : RoomId \cup {None}, worker : Worker \cup {None},
                players : SUBSET PlayerId]
NoMatch == [room |-> None, worker |-> None, players |-> {}]

View == [room : RoomId \cup {None}, state : RoomState,
         host : PlayerId \cup {None}, members : SUBSET PlayerId,
         ready : SUBSET PlayerId, ticket : MatchId \cup {None}]
NoRoomView == [room |-> None, state |-> "Absent", host |-> None,
               members |-> {}, ready |-> {}, ticket |-> None]

VARIABLES
    nextConnection, nextPlayer, nextRoom, nextOrdinal, nextMatch,
    open,          \* keys of connections_
    connPlayer,    \* ConnectionState::player of each connection
    playerConn,    \* playerToConnection_
    playerRoom,    \* playerToRoom_
    roomState,     \* Room::state_; "Absent" when rooms_ has no such key
    roomHost,      \* Room::host_
    members,       \* keys of Room::members_
    ready,         \* the members whose RoomMember::ready is set
    ordinal,       \* RoomMember::joinOrdinal of each member
    pending,       \* pendingReservations_
    roomRes,       \* roomToReservation_
    active,        \* activeMatches_
    tickets,       \* the registry's tickets, as <<match, player>>
    closing,       \* matches up to this id have less than a second left
    expired,       \* matches up to this id have expired tickets
    seen           \* last room message sent to each connection

counters == <<nextConnection, nextPlayer, nextRoom, nextOrdinal, nextMatch>>
connVars == <<open, connPlayer, playerConn>>
roomVars == <<playerRoom, roomState, roomHost, members, ready, ordinal>>
matchVars == <<pending, roomRes, active, tickets>>
timeVars == <<closing, expired>>
lobbyVars == <<counters, connVars, roomVars, matchVars, timeVars, seen>>

Exists(r)   == roomState[r] # "Absent"
Welcomed(c) == c \in open /\ connPlayer[c] # None
PlayerOf(c) == connPlayer[c]
RoomOf(c)   == playerRoom[connPlayer[c]]

Init ==
    /\ nextConnection = 1 /\ nextPlayer = 1 /\ nextRoom = 1
    /\ nextOrdinal = 1 /\ nextMatch = 1
    /\ open = {}
    /\ connPlayer = [c \in ConnectionId |-> None]
    /\ playerConn = [p \in PlayerId |-> None]
    /\ playerRoom = [p \in PlayerId |-> None]
    /\ roomState = [r \in RoomId |-> "Absent"]
    /\ roomHost = [r \in RoomId |-> None]
    /\ members = [r \in RoomId |-> {}]
    /\ ready = [r \in RoomId |-> {}]
    /\ ordinal = [r \in RoomId |-> [p \in PlayerId |-> None]]
    /\ pending = [m \in MatchId |-> NoReservation]
    /\ roomRes = [r \in RoomId |-> None]
    /\ active = [m \in MatchId |-> NoMatch]
    /\ tickets = {}
    /\ closing = 0 /\ expired = 0
    /\ seen = [c \in ConnectionId |-> NoRoomView]

-----------------------------------------------------------------------------
(* What the outbound messages leave at the clients. *)

\* The snapshot of r as it is after the step, with the id r taken before it.
NextSnapshot(r, m) ==
    [room |-> r, state |-> roomState'[r], host |-> roomHost'[r],
     members |-> members'[r], ready |-> ready'[r], ticket |-> m]

ConnectionsOf(S) == {playerConn[p] : p \in S} \ {None}

BroadcastStale(r, gone) ==
    seen' = [c \in ConnectionId |->
                IF c \in gone THEN NoRoomView
                ELSE IF c \in ConnectionsOf(members[r]) THEN NextSnapshot(r, None)
                ELSE seen[c]]

\* BroadcastSnapshot: every connected member of r is sent the room as it is
\* after the step; the connections in "gone" are sent a RoomList instead.
Broadcast(r, gone) ==
    seen' = [c \in ConnectionId |->
                IF c \in gone THEN NoRoomView
                ELSE IF c \in ConnectionsOf(members'[r]) THEN NextSnapshot(r, None)
                ELSE seen[c]]

-----------------------------------------------------------------------------
(* Connections and players. *)

OpenConnection ==
    /\ nextConnection \in ConnectionId
    /\ nextConnection' = nextConnection + 1
    /\ open' = open \cup {nextConnection}
    /\ UNCHANGED <<nextPlayer, nextRoom, nextOrdinal, nextMatch, connPlayer,
                   playerConn, roomVars, matchVars, timeVars, seen>>

Hello(c) ==
    /\ c \in open /\ connPlayer[c] = None
    /\ nextPlayer \in PlayerId
    /\ nextPlayer' = nextPlayer + 1
    /\ connPlayer' = [connPlayer EXCEPT ![c] = nextPlayer]
    /\ playerConn' = [playerConn EXCEPT ![nextPlayer] = c]
    /\ UNCHANGED <<nextConnection, nextRoom, nextOrdinal, nextMatch, open,
                   roomVars, matchVars, timeVars, seen>>

-----------------------------------------------------------------------------
(* Rooms. *)

CreateRoom(c) ==
    /\ Welcomed(c) /\ RoomOf(c) = None
    /\ Cardinality({r \in RoomId : Exists(r)}) < MaximumRooms
    /\ nextRoom \in RoomId /\ nextOrdinal \in Ordinal
    /\ nextRoom' = nextRoom + 1 /\ nextOrdinal' = nextOrdinal + 1
    /\ playerRoom' = [playerRoom EXCEPT ![PlayerOf(c)] = nextRoom]
    /\ roomState' = [roomState EXCEPT ![nextRoom] = "Waiting"]
    /\ roomHost' = [roomHost EXCEPT ![nextRoom] = PlayerOf(c)]
    /\ members' = [members EXCEPT ![nextRoom] = {PlayerOf(c)}]
    /\ ordinal' = [ordinal EXCEPT ![nextRoom][PlayerOf(c)] = nextOrdinal]
    /\ UNCHANGED <<nextConnection, nextPlayer, nextMatch, connVars, ready,
                   matchVars, timeVars>>
    /\ Broadcast(nextRoom, {})

JoinRoom(c, r) ==
    /\ Welcomed(c) /\ RoomOf(c) = None
    /\ roomState[r] = "Waiting"
    /\ Cardinality(members[r]) < RoomCapacity
    /\ nextOrdinal \in Ordinal
    /\ nextOrdinal' = nextOrdinal + 1
    /\ playerRoom' = [playerRoom EXCEPT ![PlayerOf(c)] = r]
    /\ members' = [members EXCEPT ![r] = @ \cup {PlayerOf(c)}]
    /\ ordinal' = [ordinal EXCEPT ![r][PlayerOf(c)] = nextOrdinal]
    /\ UNCHANGED <<nextConnection, nextPlayer, nextRoom, nextMatch, connVars,
                   roomState, roomHost, ready, matchVars, timeVars>>
    /\ Broadcast(r, {})

\* Room::Leave's successor: the member that joined first, the smaller id on a
\* tie; the host stays when somebody else leaves.
JoinedBefore(r, p, q) ==
    \/ ordinal[r][p] < ordinal[r][q]
    \/ ordinal[r][p] = ordinal[r][q] /\ p <= q

Eldest(r, S) == CHOOSE q \in S : \A s \in S : JoinedBefore(r, q, s)

Successor(r, p) ==
    LET rest == members[r] \ {p}
    IN  IF rest = {} THEN None
        ELSE IF p # roomHost[r] THEN roomHost[r]
        ELSE Eldest(r, rest)

\* LeaveWaitingRoom: the room is erased with its last member.  A Starting room
\* is returned to Waiting first (DisconnectStartingPlayer).
RemoveMember(r, p) ==
    /\ playerRoom' = [playerRoom EXCEPT ![p] = None]
    /\ roomState' = [roomState EXCEPT
                        ![r] = IF members[r] = {p} THEN "Absent" ELSE "Waiting"]
    /\ roomHost' = [roomHost EXCEPT ![r] = Successor(r, p)]
    /\ members' = [members EXCEPT ![r] = @ \ {p}]
    /\ ready' = [ready EXCEPT ![r] = @ \ {p}]
    /\ ordinal' = [ordinal EXCEPT ![r][p] = None]

\* Room::Leave and Room::SetReady refuse in any other state.
MayChangeOutsideStart(r) == roomState[r] # "Starting"
MayChange(r) == roomState[r] = "Waiting"

LeaveRoom(c) ==
    /\ Welcomed(c) /\ RoomOf(c) # None
    /\ MayChange(RoomOf(c))
    /\ RemoveMember(RoomOf(c), PlayerOf(c))
    /\ UNCHANGED <<counters, connVars, matchVars, timeVars>>
    /\ Broadcast(RoomOf(c), {c})

SetReady(c, flag) ==
    /\ Welcomed(c) /\ RoomOf(c) # None
    /\ MayChange(RoomOf(c))
    /\ ready' = [ready EXCEPT ![RoomOf(c)] =
                    IF flag THEN @ \cup {PlayerOf(c)} ELSE @ \ {PlayerOf(c)}]
    /\ UNCHANGED <<counters, connVars, playerRoom, roomState, roomHost,
                   members, ordinal, matchVars, timeVars>>
    /\ Broadcast(RoomOf(c), {})

-----------------------------------------------------------------------------
(* Matches: a Starting room has a pending reservation, an InMatch room an  *)
(* active match; the tickets live as long as either does.                  *)

CanStartUnbounded(c) ==
    LET r == RoomOf(c)
    IN  /\ Welcomed(c) /\ r # None
        /\ roomState[r] = "Waiting"
        /\ roomHost[r] = PlayerOf(c)
        /\ Cardinality(members[r]) >= 2
        /\ members[r] \subseteq ready[r]

\* Room::ValidateStart, with the id check that follows it.
CanStart(c) ==
    LET r == RoomOf(c)
    IN  /\ Welcomed(c) /\ r # None
        /\ roomState[r] = "Waiting"
        /\ roomHost[r] = PlayerOf(c)
        /\ Cardinality(members[r]) >= 2
        /\ members[r] \subseteq ready[r]
        /\ nextMatch \in MatchId

TicketsFor(m, S) == {m} \X S

\* MatchTicketRegistry::PurgeExpired, which every Issue runs first.
UnexpiredTickets == {t \in tickets : t[1] > expired}

StartMatch(c) ==
    /\ CanStart(c)
    /\ LET r == RoomOf(c)
       IN  /\ roomState' = [roomState EXCEPT ![r] = "Starting"]
           /\ pending' = [pending EXCEPT ![nextMatch] =
                             [room |-> r, requester |-> PlayerOf(c),
                              players |-> members[r]]]
           /\ roomRes' = [roomRes EXCEPT ![r] = nextMatch]
           /\ tickets' = UnexpiredTickets \cup TicketsFor(nextMatch, members[r])
           /\ nextMatch' = nextMatch + 1
           /\ UNCHANGED <<nextConnection, nextPlayer, nextRoom, nextOrdinal,
                          connVars, playerRoom, roomHost, members, ready,
                          ordinal, active, timeVars>>
           /\ Broadcast(r, {})

\* The rollback of HandleStartMatch: the ticket source fails for some member
\* after the ids were taken.  The tickets issued so far are revoked and the
\* room goes back to Waiting within the step.
StartMatchRollback(c) ==
    /\ CanStart(c)
    /\ nextMatch' = nextMatch + 1
    /\ tickets' = UnexpiredTickets
    /\ UNCHANGED <<nextConnection, nextPlayer, nextRoom, nextOrdinal, connVars,
                   roomVars, pending, roomRes, active, timeVars>>
    /\ Broadcast(RoomOf(c), {})

RevokeNothing(m, S) == tickets' = tickets
Revoke(m, S) == tickets' = tickets \ TicketsFor(m, S)

\* Every way out of a pending reservation erases it from both maps.
DropReservationOnly(m) ==
    /\ pending' = [pending EXCEPT ![m] = NoReservation]
    /\ roomRes' = roomRes
DropRoomOnly(m) ==
    /\ pending' = pending
    /\ roomRes' = [roomRes EXCEPT ![pending[m].room] = None]
DropReservation(m) ==
    /\ pending' = [pending EXCEPT ![m] = NoReservation]
    /\ roomRes' = [roomRes EXCEPT ![pending[m].room] = None]

\* FailPendingReservation.
FailPending(m) ==
    LET r == pending[m].room
    IN  /\ DropReservation(m)
        /\ Revoke(m, pending[m].players)
        /\ roomState' = [roomState EXCEPT
                            ![r] = IF @ = "Starting" THEN "Waiting" ELSE @]
        /\ UNCHANGED <<counters, connVars, playerRoom, roomHost, members, ready,
                       ordinal, active, timeVars>>
        /\ IF roomState[r] = "Starting" THEN Broadcast(r, {}) ELSE UNCHANGED seen

ReservationFailed(m) ==
    /\ pending[m].room # None
    /\ FailPending(m)

\* ReservationReadyEvent that comes too late for the tickets.
ReservationTooLate(m) ==
    /\ pending[m].room # None
    /\ m <= closing
    /\ FailPending(m)

\* A pending reservation's room is Starting (StartingIffPending), so the branch
\* of the code for another room state has no step here.
ReservationReady(m, w) ==
    LET r == pending[m].room
    IN  /\ r # None
        /\ m > closing
        /\ roomState[r] = "Starting"
        /\ DropReservation(m)
        /\ active' = [active EXCEPT ![m] =
                         [room |-> r, worker |-> w, players |-> pending[m].players]]
        /\ roomState' = [roomState EXCEPT ![r] = "InMatch"]
        /\ UNCHANGED <<counters, connVars, playerRoom, roomHost, members, ready,
                       ordinal, tickets, timeVars>>
        /\ seen' = [c \in ConnectionId |->
                       IF c \in ConnectionsOf(pending[m].players)
                       THEN NextSnapshot(r, m)
                       ELSE seen[c]]

\* FinishActiveMatch, for MatchFinishedEvent and MatchUnavailableEvent alike:
\* the events differ only in the error sent to the members.
FinishMatch(m, w) ==
    LET r == active[m].room
    IN  /\ r # None /\ active[m].worker = w
        /\ active' = [active EXCEPT ![m] = NoMatch]
        /\ Revoke(m, active[m].players)
        /\ playerRoom' = [p \in PlayerId |->
                             IF p \in members[r] THEN None ELSE playerRoom[p]]
        /\ roomState' = [roomState EXCEPT ![r] = "Absent"]
        /\ roomHost' = [roomHost EXCEPT ![r] = None]
        /\ members' = [members EXCEPT ![r] = {}]
        /\ ready' = [ready EXCEPT ![r] = {}]
        /\ ordinal' = [ordinal EXCEPT ![r] = [p \in PlayerId |-> None]]
        /\ seen' = [c \in ConnectionId |->
                       IF c \in ConnectionsOf(members[r]) THEN NoRoomView
                       ELSE seen[c]]
        /\ UNCHANGED <<counters, connVars, pending, roomRes, timeVars>>

-----------------------------------------------------------------------------
(* Disconnects. *)

CloseConnection(c) ==
    /\ open' = open \ {c}
    /\ connPlayer' = [connPlayer EXCEPT ![c] = None]
    /\ playerConn' = [p \in PlayerId |->
                         IF p = connPlayer[c] THEN None ELSE playerConn[p]]

\* A player whose room is InMatch stays a member of it.
StaysMemberWhenNotWaiting(r) == roomState[r] \in {"InMatch", "Starting"}
StaysMember(r) ==
    \/ roomState[r] = "InMatch"
    \/ roomState[r] = "Starting" /\ roomRes[r] = None

\* A connection without a player, a player without a room or one that stays.
DisconnectOutside(c) ==
    /\ c \in open
    /\ \/ connPlayer[c] = None
       \/ Welcomed(c) /\ RoomOf(c) = None
       \/ Welcomed(c) /\ RoomOf(c) # None /\ StaysMember(RoomOf(c))
    /\ CloseConnection(c)
    /\ seen' = [seen EXCEPT ![c] = NoRoomView]
    /\ UNCHANGED <<counters, roomVars, matchVars, timeVars>>

DisconnectWaiting(c) ==
    /\ Welcomed(c) /\ RoomOf(c) # None
    /\ roomState[RoomOf(c)] = "Waiting"
    /\ RemoveMember(RoomOf(c), PlayerOf(c))
    /\ CloseConnection(c)
    /\ UNCHANGED <<counters, matchVars, timeVars>>
    /\ Broadcast(RoomOf(c), {c})

\* DisconnectStartingPlayer: the whole start is cancelled.  The match whose
\* reservation the lobby asks the worker control to cancel is roomRes[r].
DisconnectStarting(c) ==
    LET r == RoomOf(c)
        m == roomRes[r]
    IN  /\ Welcomed(c) /\ r # None
        /\ roomState[r] = "Starting"
        /\ m # None
        /\ DropReservation(m)
        /\ Revoke(m, pending[m].players)
        /\ RemoveMember(r, PlayerOf(c))
        /\ CloseConnection(c)
        /\ UNCHANGED <<counters, active, timeVars>>
        /\ Broadcast(r, {c})

-----------------------------------------------------------------------------
(* The clock: tickets of earlier matches run out first.  A match reaches   *)
(* its last second before it expires.                                      *)

LastSecond ==
    /\ closing + 1 < nextMatch
    /\ closing' = closing + 1
    /\ UNCHANGED <<counters, connVars, roomVars, matchVars, expired, seen>>

TicketsExpire ==
    /\ expired < closing
    /\ expired' = expired + 1
    /\ UNCHANGED <<counters, connVars, roomVars, matchVars, closing, seen>>

-----------------------------------------------------------------------------

Request(c) ==
    \/ Hello(c)
    \/ CreateRoom(c)
    \/ \E r \in RoomId : JoinRoom(c, r)
    \/ LeaveRoom(c)
    \/ \E flag \in BOOLEAN : SetReady(c, flag)
    \/ StartMatch(c)
    \/ StartMatchRollback(c)

Disconnect(c) ==
    \/ DisconnectOutside(c)
    \/ DisconnectWaiting(c)
    \/ DisconnectStarting(c)

WorkerEvent(m) ==
    \/ ReservationFailed(m)
    \/ ReservationTooLate(m)
    \/ \E w \in Worker : ReservationReady(m, w)
    \/ \E w \in Worker : FinishMatch(m, w)

Next ==
    \/ OpenConnection
    \/ \E c \in ConnectionId : Request(c) \/ Disconnect(c)
    \/ \E m \in MatchId : WorkerEvent(m)
    \/ LastSecond
    \/ TicketsExpire

Spec == Init /\ [][Next]_lobbyVars

-----------------------------------------------------------------------------
(* Correctness. *)

\* Every variable has its type.
TypeOK ==
    /\ nextConnection \in 1..(MaxConnection + 1)
    /\ nextPlayer \in 1..(MaxPlayer + 1)
    /\ nextRoom \in 1..(MaxRoom + 1)
    /\ nextOrdinal \in 1..(MaxOrdinal + 1)
    /\ nextMatch \in 1..(MaxMatch + 1)
    /\ open \subseteq ConnectionId
    /\ connPlayer \in [ConnectionId -> PlayerId \cup {None}]
    /\ playerConn \in [PlayerId -> ConnectionId \cup {None}]
    /\ playerRoom \in [PlayerId -> RoomId \cup {None}]
    /\ roomState \in [RoomId -> RoomState]
    /\ roomHost \in [RoomId -> PlayerId \cup {None}]
    /\ members \in [RoomId -> SUBSET PlayerId]
    /\ ready \in [RoomId -> SUBSET PlayerId]
    /\ ordinal \in [RoomId -> [PlayerId -> Ordinal \cup {None}]]
    /\ pending \in [MatchId -> Reservation]
    /\ roomRes \in [RoomId -> MatchId \cup {None}]
    /\ active \in [MatchId -> ActiveMatch]
    /\ tickets \subseteq MatchId \X PlayerId
    /\ closing \in Nat /\ expired \in Nat
    /\ seen \in [ConnectionId -> View]

\* Nothing is known of an id that was not handed out yet: a newcomer never meets
\* a room, a ticket or a join ordinal left by somebody who had its id before.
IdsAreFresh ==
    /\ \A c \in open : c < nextConnection
    /\ \A p \in PlayerId :
           playerConn[p] # None \/ playerRoom[p] # None => p < nextPlayer
    /\ \A r \in RoomId : Exists(r) => r < nextRoom
    /\ \A r \in RoomId, p \in PlayerId : ordinal[r][p] < nextOrdinal
    /\ \A m \in MatchId :
           pending[m].room # None \/ active[m].room # None => m < nextMatch

\* connections_ and playerToConnection_ are inverse maps: a message for a
\* player always goes to the one open connection that said hello as it.
ConnectionsAgree ==
    /\ \A c \in ConnectionId, p \in PlayerId :
           connPlayer[c] = p <=> playerConn[p] = c
    /\ \A c \in ConnectionId : connPlayer[c] # None => c \in open

\* playerToRoom_ and the member lists of the rooms say the same, whatever the
\* order of joins, leaves, disconnects and match ends: no player is in two
\* rooms, none is locked in a room that is gone, and no room is empty.
MembershipAgrees ==
    /\ \A p \in PlayerId, r \in RoomId :
           p \in members[r] <=> playerRoom[p] = r
    /\ \A r \in RoomId : Exists(r) <=> members[r] # {}

\* The host of a room is its member with the smallest join ordinal, through
\* every chain of host departures: Leave's succession never leaves the room to
\* somebody who left or to a later arrival.
HostIsEldest ==
    \A r \in RoomId : Exists(r) =>
        /\ roomHost[r] \in members[r]
        /\ \A p \in members[r] \ {roomHost[r]} :
               ordinal[r][roomHost[r]] < ordinal[r][p]

\* A room is Starting exactly while one pending reservation is for it, and the
\* two maps that record it point at each other: ReturnToWaiting and MarkInMatch
\* never throw, the InternalError branch of HandleStartMatch is never taken, and
\* the reserved players are still the members.
StartingIffPending ==
    /\ \A r \in RoomId :
           roomState[r] = "Starting" <=> roomRes[r] # None
    /\ \A r \in RoomId : roomRes[r] # None =>
           /\ pending[roomRes[r]].room = r
           /\ pending[roomRes[r]].players = members[r]
    /\ \A m \in MatchId : pending[m].room # None =>
           roomRes[pending[m].room] = m

\* A room is InMatch exactly while one active match is for it, and the players
\* of that match are its members even after some of them disconnected.
InMatchIffActive ==
    /\ \A r \in RoomId : roomState[r] = "InMatch" <=>
           \E m \in MatchId : active[m].room = r
    /\ \A m \in MatchId : active[m].room # None =>
           /\ members[active[m].room] = active[m].players
           /\ pending[m].room = None
    /\ \A m, n \in MatchId :
           active[m].room # None /\ active[m].room = active[n].room => m = n

\* The four accounts of who is where hold together: LobbyService's handlers change
\* several of its maps each, and none of them is ever left out.
LobbyAgrees ==
    /\ ConnectionsAgree
    /\ MembershipAgrees
    /\ StartingIffPending
    /\ InMatchIffActive

\* Every ticket in the registry belongs to a player of a match that is pending
\* or active; until it expires such a player's ticket is there.  No path out of
\* a match (failure, disconnect, finish, late answer) leaves a ticket behind.
MatchPlayers(m) == pending[m].players \cup active[m].players

TicketsBelongToMatches ==
    \A m \in MatchId, p \in PlayerId :
        /\ <<m, p>> \in tickets => p \in MatchPlayers(m)
        /\ p \in MatchPlayers(m) /\ m > expired => <<m, p>> \in tickets

\* Only connected players hold a place in a room that waits or starts; a player
\* who went away can only remain in a match.
OnlyConnectedWait ==
    \A r \in RoomId : roomState[r] \in {"Waiting", "Starting"} =>
        \A p \in members[r] : playerConn[p] # None

\* A room is led and filled by people who are there: a departure, of the host too
\* and at any stage of a start, takes the player out of it and hands it on.
RoomsAreAttended == HostIsEldest /\ OnlyConnectedWait

\* What each client was last told is true: a connected member has the current
\* snapshot of its room (and its ticket, when the room is InMatch), everybody
\* else was told it is in none.  A change of a room that misses one member's
\* broadcast breaks this until the next one.
TicketShown(r) ==
    IF roomState[r] = "InMatch" THEN CHOOSE m \in MatchId : active[m].room = r
    ELSE None

Snapshot(r) ==
    [room |-> r, state |-> roomState[r], host |-> roomHost[r],
     members |-> members[r], ready |-> ready[r], ticket |-> TicketShown(r)]

ClientsSeeTheirRoom ==
    \A c \in ConnectionId :
        seen[c] = IF connPlayer[c] # None /\ RoomOf(c) # None
                  THEN Snapshot(RoomOf(c))
                  ELSE NoRoomView

\* While a room stays Starting, or stays InMatch, nobody enters or leaves it
\* and its host and ready flags do not move.
RosterFrozen ==
    [][\A r \in RoomId :
          roomState[r] \in {"Starting", "InMatch"} /\ roomState'[r] = roomState[r]
          => /\ members'[r] = members[r]
             /\ ready'[r] = ready[r]
             /\ roomHost'[r] = roomHost[r]]_lobbyVars

=============================================================================
