----------------------------- MODULE LobbyProofs -----------------------------
(***************************************************************************)
(* Theorems about Lobby for every number of clients, rooms and matches:    *)
(* types, the lobby's maps, who leads a room and who holds a place in it.  *)
(***************************************************************************)
EXTENDS Lobby, WellFoundedInduction, TLAPS

-----------------------------------------------------------------------------
(* Types. *)

\* The room variables a snapshot is taken of.
RoomTypes ==
    /\ roomState \in [RoomId -> RoomState]
    /\ roomHost \in [RoomId -> PlayerId \cup {None}]
    /\ members \in [RoomId -> SUBSET PlayerId]
    /\ ready \in [RoomId -> SUBSET PlayerId]

\* A snapshot of a room, taken after a step that keeps the rooms' types, is a
\* view; so the messages of Broadcast are.
LEMMA SnapshotType ==
    ASSUME NEW r \in RoomId, NEW m \in MatchId \cup {None}, RoomTypes'
    PROVE  NextSnapshot(r, m) \in View
BY DEF RoomTypes, NextSnapshot, View

LEMMA Bounds ==
    /\ MaxConnection \in Nat /\ MaxPlayer \in Nat /\ MaxRoom \in Nat
    /\ MaxOrdinal \in Nat /\ MaxMatch \in Nat
BY LobbyAssumption

LEMMA NoRoomViewType == NoRoomView \in View
BY DEF NoRoomView, View, RoomState

LEMMA BroadcastType ==
    ASSUME NEW r \in RoomId, NEW gone, RoomTypes',
           seen \in [ConnectionId -> View], Broadcast(r, gone)
    PROVE  seen' \in [ConnectionId -> View]
<1>1. NextSnapshot(r, None) \in View  BY SnapshotType
<1> QED  BY <1>1, NoRoomViewType DEF Broadcast

LEMMA InitTypeOK == Init => TypeOK
<1> SUFFICES ASSUME Init PROVE TypeOK  OBVIOUS
<1>1. NoReservation \in Reservation /\ NoMatch \in ActiveMatch
  BY DEF NoReservation, Reservation, NoMatch, ActiveMatch
<1> QED
  BY <1>1, NoRoomViewType, Bounds
  DEF Init, TypeOK, ConnectionId, PlayerId, RoomId, MatchId, Ordinal, RoomState

LEMMA OpenConnectionTypeOK ==
    TypeOK /\ OpenConnection => TypeOK'
BY Bounds
DEF TypeOK, OpenConnection, ConnectionId, roomVars, matchVars, timeVars

LEMMA HelloTypeOK ==
    ASSUME TypeOK, NEW c \in ConnectionId, Hello(c)
    PROVE  TypeOK'
<1>1. nextPlayer' \in 1..(MaxPlayer + 1)
  BY Bounds DEF TypeOK, Hello, PlayerId
<1>2. /\ connPlayer' \in [ConnectionId -> PlayerId \cup {None}]
      /\ playerConn' \in [PlayerId -> ConnectionId \cup {None}]
  BY DEF TypeOK, Hello
<1> QED
  BY <1>1, <1>2 DEF TypeOK, Hello, roomVars, matchVars, timeVars

LEMMA PlayerOfType ==
    ASSUME TypeOK, NEW c \in ConnectionId, Welcomed(c)
    PROVE  PlayerOf(c) \in PlayerId /\ RoomOf(c) \in RoomId \cup {None}
BY DEF TypeOK, Welcomed, PlayerOf, RoomOf

LEMMA CreateRoomTypeOK ==
    ASSUME TypeOK, NEW c \in ConnectionId, CreateRoom(c)
    PROVE  TypeOK'
<1>1. PlayerOf(c) \in PlayerId  BY PlayerOfType DEF CreateRoom
<1>2. nextRoom \in RoomId /\ nextOrdinal \in Ordinal  BY DEF CreateRoom
<1>3. RoomTypes'
  BY <1>1, <1>2 DEF CreateRoom, TypeOK, RoomTypes, RoomState, connVars, matchVars
<1>4. seen' \in [ConnectionId -> View]
  BY <1>2, <1>3, BroadcastType DEF CreateRoom, TypeOK
<1> QED
  BY <1>1, <1>2, <1>3, <1>4, Bounds
  DEF CreateRoom, TypeOK, RoomTypes, RoomId, Ordinal, connVars, matchVars, timeVars

LEMMA JoinRoomTypeOK ==
    ASSUME TypeOK, NEW c \in ConnectionId, NEW r \in RoomId, JoinRoom(c, r)
    PROVE  TypeOK'
<1>1. PlayerOf(c) \in PlayerId  BY PlayerOfType DEF JoinRoom
<1>2. nextOrdinal \in Ordinal  BY DEF JoinRoom
<1>3. RoomTypes'
  BY <1>1 DEF JoinRoom, TypeOK, RoomTypes, connVars, matchVars
<1>4. seen' \in [ConnectionId -> View]
  BY <1>3, BroadcastType DEF JoinRoom, TypeOK
<1>5. ordinal' \in [RoomId -> [PlayerId -> Ordinal \cup {None}]]
  BY <1>2 DEF JoinRoom, TypeOK
<1>6. nextOrdinal' \in 1..(MaxOrdinal + 1)
  BY <1>2, Bounds DEF JoinRoom, Ordinal
<1> QED
  BY <1>1, <1>3, <1>4, <1>5, <1>6
  DEF JoinRoom, TypeOK, RoomTypes, connVars, matchVars, timeVars

\* A non-empty set of numbers has a least one.
LEMMA LeastNumber ==
    ASSUME NEW X, X \subseteq Nat, X # {}
    PROVE  \E x \in X : \A y \in X : x <= y
<1> DEFINE R == OpToRel(<, Nat)
<1>1. PICK x \in X : \A y \in X : ~ (<<y, x>> \in R)
  <2> HIDE DEF R
  <2> IsWellFoundedOn(R, Nat)  BY NatLessThanWellFounded DEF R
  <2> QED  BY WFMin
<1>2. ASSUME NEW y \in X PROVE x <= y
  <2>1. ~ (y < x)  BY <1>1 DEF OpToRel
  <2> QED  BY <2>1
<1> QED  BY <1>2

\* Among any players of a room one joined before the others: the eldest is one
\* of them, though the code finds it by a loop and Eldest by a CHOOSE.
LEMMA EldestJoinedFirst ==
    ASSUME TypeOK, NEW r \in RoomId, NEW S, S \subseteq PlayerId, S # {}
    PROVE  /\ Eldest(r, S) \in S
           /\ \A s \in S : JoinedBefore(r, Eldest(r, S), s)
<1> DEFINE o == ordinal[r]
           O == {o[s] : s \in S}
<1>1. \A s \in S : o[s] \in Nat /\ s \in Nat
  <2>1. o \in [PlayerId -> Ordinal \cup {None}]  BY DEF TypeOK
  <2>2. PlayerId \subseteq Nat /\ Ordinal \cup {None} \subseteq Nat
    BY DEF PlayerId, Ordinal, None
  <2> QED  BY <2>1, <2>2
<1>2. PICK least \in O : \A y \in O : least <= y
  <2>1. O \subseteq Nat /\ O # {}  BY <1>1
  <2> HIDE DEF O
  <2> QED  BY <2>1, LeastNumber
<1> DEFINE T == {s \in S : o[s] = least}
<1>3. PICK q \in T : \A y \in T : q <= y
  <2>1. T \subseteq Nat /\ T # {}  BY <1>1, <1>2
  <2> HIDE DEF T
  <2> QED  BY <2>1, LeastNumber
<1>4. q \in S /\ o[q] = least  BY <1>3
<1>5. ASSUME NEW s \in S PROVE JoinedBefore(r, q, s)
  <2>1. least <= o[s] /\ o[s] \in Nat /\ o[q] \in Nat /\ q \in Nat /\ s \in Nat
    BY <1>1, <1>2, <1>4
  <2>2. CASE o[s] = least
    <3>1. q <= s  BY <1>3, <2>2
    <3> QED  BY <1>4, <2>2, <3>1 DEF JoinedBefore
  <2>3. CASE o[s] # least
    <3>1. o[q] < o[s]  BY <1>4, <2>1, <2>3
    <3> QED  BY <3>1 DEF JoinedBefore
  <2> QED  BY <2>2, <2>3
<1>6. \E x \in S : \A s \in S : JoinedBefore(r, x, s)  BY <1>4, <1>5
<1> QED  BY <1>6 DEF Eldest

\* Successor is a remaining member, the host itself if it stays, and nobody only
\* when the room empties.
LEMMA SuccessorIs ==
    ASSUME TypeOK, NEW r \in RoomId, NEW p \in PlayerId
    PROVE  /\ members[r] \ {p} = {} => Successor(r, p) = None
           /\ members[r] \ {p} # {} /\ p # roomHost[r]
                => Successor(r, p) = roomHost[r]
           /\ members[r] \ {p} # {} /\ p = roomHost[r]
                => Successor(r, p) = Eldest(r, members[r] \ {p})
BY DEF Successor

LEMMA SuccessorType ==
    ASSUME TypeOK, NEW r \in RoomId, NEW p \in PlayerId
    PROVE  Successor(r, p) \in PlayerId \cup {None}
<1>1. members[r] \ {p} \subseteq PlayerId  BY DEF TypeOK
<1>2. roomHost[r] \in PlayerId \cup {None}  BY DEF TypeOK
<1>3. CASE members[r] \ {p} = {}
  <2>1. Successor(r, p) = None  BY <1>3, SuccessorIs
  <2> QED  BY <2>1
<1>4. CASE members[r] \ {p} # {} /\ p # roomHost[r]
  <2>1. Successor(r, p) = roomHost[r]  BY <1>4, SuccessorIs
  <2> QED  BY <1>2, <2>1
<1>5. CASE members[r] \ {p} # {} /\ p = roomHost[r]
  <2> DEFINE rest == members[r] \ {p}
  <2>1. Successor(r, p) = Eldest(r, rest)  BY <1>5, SuccessorIs
  <2>2. rest \subseteq PlayerId /\ rest # {}  BY <1>1, <1>5
  <2> HIDE DEF rest
  <2>3. Eldest(r, rest) \in rest  BY <2>2, EldestJoinedFirst
  <2> QED  BY <2>1, <2>2, <2>3
<1> QED  BY <1>3, <1>4, <1>5

LEMMA RemoveMemberTypes ==
    ASSUME TypeOK, NEW r \in RoomId, NEW p \in PlayerId, RemoveMember(r, p)
    PROVE  /\ RoomTypes'
           /\ playerRoom' \in [PlayerId -> RoomId \cup {None}]
           /\ ordinal' \in [RoomId -> [PlayerId -> Ordinal \cup {None}]]
<1>1. Successor(r, p) \in PlayerId \cup {None}  BY SuccessorType
<1> QED
  BY <1>1 DEF RemoveMember, TypeOK, RoomTypes, RoomState

LEMMA CloseConnectionTypes ==
    ASSUME TypeOK, NEW c \in ConnectionId, CloseConnection(c)
    PROVE  /\ open' \subseteq ConnectionId
           /\ connPlayer' \in [ConnectionId -> PlayerId \cup {None}]
           /\ playerConn' \in [PlayerId -> ConnectionId \cup {None}]
BY DEF TypeOK, CloseConnection

LEMMA LeaveRoomTypeOK ==
    ASSUME TypeOK, NEW c \in ConnectionId, LeaveRoom(c)
    PROVE  TypeOK'
<1>1. PlayerOf(c) \in PlayerId /\ RoomOf(c) \in RoomId
  BY PlayerOfType DEF LeaveRoom
<1>2. RemoveMember(RoomOf(c), PlayerOf(c)) /\ Broadcast(RoomOf(c), {c})
  BY DEF LeaveRoom
<1>3. seen' \in [ConnectionId -> View]
  BY <1>1, <1>2, RemoveMemberTypes, BroadcastType DEF TypeOK
<1> QED
  BY <1>1, <1>2, <1>3, RemoveMemberTypes
  DEF LeaveRoom, TypeOK, RoomTypes, counters, connVars, matchVars, timeVars

LEMMA SetReadyTypeOK ==
    ASSUME TypeOK, NEW c \in ConnectionId, NEW flag \in BOOLEAN, SetReady(c, flag)
    PROVE  TypeOK'
<1>1. PlayerOf(c) \in PlayerId /\ RoomOf(c) \in RoomId
  BY PlayerOfType DEF SetReady
<1>2. RoomTypes'
  BY <1>1 DEF SetReady, TypeOK, RoomTypes
<1>3. seen' \in [ConnectionId -> View]
  BY <1>1, <1>2, BroadcastType DEF SetReady, TypeOK
<1> QED
  BY <1>1, <1>2, <1>3
  DEF SetReady, TypeOK, RoomTypes, counters, connVars, matchVars, timeVars

LEMMA DisconnectOutsideTypeOK ==
    ASSUME TypeOK, NEW c \in ConnectionId, DisconnectOutside(c)
    PROVE  TypeOK'
<1>1. CloseConnection(c)  BY DEF DisconnectOutside
<1>2. seen' \in [ConnectionId -> View]
  BY NoRoomViewType DEF DisconnectOutside, TypeOK
<1> QED
  BY <1>1, <1>2, CloseConnectionTypes
  DEF DisconnectOutside, TypeOK, counters, roomVars, matchVars, timeVars

LEMMA DisconnectWaitingTypeOK ==
    ASSUME TypeOK, NEW c \in ConnectionId, DisconnectWaiting(c)
    PROVE  TypeOK'
<1>1. PlayerOf(c) \in PlayerId /\ RoomOf(c) \in RoomId
  BY PlayerOfType DEF DisconnectWaiting
<1>2. /\ RemoveMember(RoomOf(c), PlayerOf(c)) /\ CloseConnection(c)
      /\ Broadcast(RoomOf(c), {c})
  BY DEF DisconnectWaiting
<1>3. seen' \in [ConnectionId -> View]
  BY <1>1, <1>2, RemoveMemberTypes, BroadcastType DEF TypeOK
<1> QED
  BY <1>1, <1>2, <1>3, RemoveMemberTypes, CloseConnectionTypes
  DEF DisconnectWaiting, TypeOK, RoomTypes, counters, matchVars, timeVars

LEMMA PendingType ==
    ASSUME TypeOK, NEW m \in MatchId, pending[m].room # None
    PROVE  pending[m].room \in RoomId /\ pending[m].players \subseteq PlayerId
BY DEF TypeOK, Reservation

LEMMA DropReservationTypes ==
    ASSUME TypeOK, NEW m \in MatchId, DropReservation(m)
    PROVE  /\ pending' \in [MatchId -> Reservation]
           /\ roomRes' \in [RoomId -> MatchId \cup {None}]
<1>1. NoReservation \in Reservation  BY DEF NoReservation, Reservation
<1> QED  BY <1>1 DEF DropReservation, TypeOK

LEMMA StartMatchTypeOK ==
    ASSUME TypeOK, NEW c \in ConnectionId, StartMatch(c)
    PROVE  TypeOK'
<1> DEFINE r == RoomOf(c)
<1>1. PlayerOf(c) \in PlayerId /\ r \in RoomId /\ nextMatch \in MatchId
  BY PlayerOfType DEF StartMatch, CanStart
<1>2. members[r] \subseteq PlayerId  BY <1>1 DEF TypeOK
<1>3. RoomTypes'
  BY <1>1 DEF StartMatch, TypeOK, RoomTypes, RoomState
<1>4. seen' \in [ConnectionId -> View]
  <2>1. Broadcast(r, {})  BY DEF StartMatch
  <2> QED  BY <1>1, <1>3, <2>1, BroadcastType DEF TypeOK
<1>5. pending' \in [MatchId -> Reservation]
  <2>1. [room |-> r, requester |-> PlayerOf(c), players |-> members[r]]
          \in Reservation
    BY <1>1, <1>2 DEF Reservation
  <2> QED  BY <1>1, <2>1 DEF StartMatch, TypeOK
<1>6. roomRes' \in [RoomId -> MatchId \cup {None}]
  BY <1>1 DEF StartMatch, TypeOK
<1>7. tickets' \subseteq MatchId \X PlayerId
  BY <1>1, <1>2 DEF StartMatch, TypeOK, UnexpiredTickets, TicketsFor
<1>8. nextMatch' \in 1..(MaxMatch + 1)
  BY <1>1, Bounds DEF StartMatch, MatchId
<1> QED
  BY <1>3, <1>4, <1>5, <1>6, <1>7, <1>8
  DEF StartMatch, TypeOK, RoomTypes, connVars, timeVars

LEMMA StartMatchRollbackTypeOK ==
    ASSUME TypeOK, NEW c \in ConnectionId, StartMatchRollback(c)
    PROVE  TypeOK'
<1>1. RoomOf(c) \in RoomId /\ nextMatch \in MatchId
  BY PlayerOfType DEF StartMatchRollback, CanStart
<1>2. RoomTypes'
  BY DEF StartMatchRollback, TypeOK, RoomTypes, roomVars
<1>3. seen' \in [ConnectionId -> View]
  BY <1>1, <1>2, BroadcastType DEF StartMatchRollback, TypeOK
<1>4. nextMatch' \in 1..(MaxMatch + 1)
  BY <1>1, Bounds DEF StartMatchRollback, MatchId
<1>5. tickets' \subseteq MatchId \X PlayerId
  BY DEF StartMatchRollback, TypeOK, UnexpiredTickets
<1> QED
  BY <1>2, <1>3, <1>4, <1>5
  DEF StartMatchRollback, TypeOK, RoomTypes, connVars, roomVars, timeVars

LEMMA FailPendingTypeOK ==
    ASSUME TypeOK, NEW m \in MatchId, pending[m].room # None, FailPending(m)
    PROVE  TypeOK'
<1>1. pending[m].room \in RoomId  BY PendingType
<1>2. RoomTypes'
  BY <1>1 DEF FailPending, TypeOK, RoomTypes, RoomState
<1>3. seen' \in [ConnectionId -> View]
  BY <1>1, <1>2, BroadcastType DEF FailPending, TypeOK
<1>4. DropReservation(m)  BY DEF FailPending
<1>5. tickets' \subseteq MatchId \X PlayerId
  BY DEF FailPending, Revoke, TypeOK
<1> QED
  BY <1>2, <1>3, <1>4, <1>5, DropReservationTypes
  DEF FailPending, TypeOK, RoomTypes, counters, connVars, timeVars

LEMMA ReservationReadyTypeOK ==
    ASSUME TypeOK, NEW m \in MatchId, NEW w \in Worker, ReservationReady(m, w)
    PROVE  TypeOK'
<1>1. pending[m].room # None /\ DropReservation(m)  BY DEF ReservationReady
<1>2. pending[m].room \in RoomId /\ pending[m].players \subseteq PlayerId
  BY <1>1, PendingType
<1>3. RoomTypes'
  BY <1>2 DEF ReservationReady, TypeOK, RoomTypes, RoomState
<1>4. seen' \in [ConnectionId -> View]
  <2>1. NextSnapshot(pending[m].room, m) \in View  BY <1>2, <1>3, SnapshotType
  <2> QED  BY <2>1 DEF ReservationReady, TypeOK
<1>5. active' \in [MatchId -> ActiveMatch]
  <2>1. [room |-> pending[m].room, worker |-> w, players |-> pending[m].players]
          \in ActiveMatch
    BY <1>2 DEF ActiveMatch
  <2> QED  BY <2>1 DEF ReservationReady, TypeOK
<1> QED
  BY <1>1, <1>3, <1>4, <1>5, DropReservationTypes
  DEF ReservationReady, TypeOK, RoomTypes, counters, connVars, timeVars

LEMMA FinishMatchTypeOK ==
    ASSUME TypeOK, NEW m \in MatchId, NEW w \in Worker, FinishMatch(m, w)
    PROVE  TypeOK'
<1>1. active[m].room \in RoomId  BY DEF FinishMatch, TypeOK, ActiveMatch
<1>2. RoomTypes'
  BY <1>1 DEF FinishMatch, TypeOK, RoomTypes, RoomState
<1>3. seen' \in [ConnectionId -> View]
  BY NoRoomViewType DEF FinishMatch, TypeOK
<1>4. active' \in [MatchId -> ActiveMatch]
  <2>1. NoMatch \in ActiveMatch  BY DEF NoMatch, ActiveMatch
  <2> QED  BY <2>1 DEF FinishMatch, TypeOK
<1>5. tickets' \subseteq MatchId \X PlayerId
  BY DEF FinishMatch, Revoke, TypeOK
<1>6. /\ playerRoom' \in [PlayerId -> RoomId \cup {None}]
      /\ ordinal' \in [RoomId -> [PlayerId -> Ordinal \cup {None}]]
  BY <1>1 DEF FinishMatch, TypeOK
<1> QED
  BY <1>2, <1>3, <1>4, <1>5, <1>6
  DEF FinishMatch, TypeOK, RoomTypes, counters, connVars, timeVars

LEMMA DisconnectStartingTypeOK ==
    ASSUME TypeOK, NEW c \in ConnectionId, DisconnectStarting(c)
    PROVE  TypeOK'
<1> DEFINE r == RoomOf(c)
           m == roomRes[r]
<1>1. PlayerOf(c) \in PlayerId /\ r \in RoomId
  BY PlayerOfType DEF DisconnectStarting
<1>2. m \in MatchId  BY <1>1 DEF DisconnectStarting, TypeOK
<1>3. /\ RemoveMember(r, PlayerOf(c)) /\ CloseConnection(c)
      /\ Broadcast(r, {c}) /\ DropReservation(m)
  BY DEF DisconnectStarting
<1>4. seen' \in [ConnectionId -> View]
  BY <1>1, <1>3, RemoveMemberTypes, BroadcastType DEF TypeOK
<1>5. tickets' \subseteq MatchId \X PlayerId
  BY DEF DisconnectStarting, Revoke, TypeOK
<1> QED
  BY <1>1, <1>2, <1>3, <1>4, <1>5, RemoveMemberTypes, CloseConnectionTypes,
     DropReservationTypes
  DEF DisconnectStarting, TypeOK, RoomTypes, counters, timeVars

LEMMA ClockTypeOK ==
    TypeOK /\ (LastSecond \/ TicketsExpire) => TypeOK'
BY DEF TypeOK, LastSecond, TicketsExpire, counters, connVars, roomVars, matchVars

\* The step of the induction, one action at a time.
LEMMA NextTypeOK ==
    ASSUME TypeOK, [Next]_lobbyVars
    PROVE  TypeOK'
<1>1. CASE OpenConnection  BY <1>1, OpenConnectionTypeOK
<1>2. ASSUME NEW c \in ConnectionId, Request(c) PROVE TypeOK'
  BY <1>2, HelloTypeOK, CreateRoomTypeOK, JoinRoomTypeOK, LeaveRoomTypeOK,
     SetReadyTypeOK, StartMatchTypeOK, StartMatchRollbackTypeOK
  DEF Request
<1>3. ASSUME NEW c \in ConnectionId, Disconnect(c) PROVE TypeOK'
  BY <1>3, DisconnectOutsideTypeOK, DisconnectWaitingTypeOK,
     DisconnectStartingTypeOK
  DEF Disconnect
<1>4. ASSUME NEW m \in MatchId, WorkerEvent(m) PROVE TypeOK'
  BY <1>4, FailPendingTypeOK, ReservationReadyTypeOK, FinishMatchTypeOK
  DEF WorkerEvent, ReservationFailed, ReservationTooLate
<1>5. CASE LastSecond \/ TicketsExpire  BY <1>5, ClockTypeOK
<1>6. CASE UNCHANGED lobbyVars
  BY <1>6 DEF TypeOK, lobbyVars, counters, connVars, roomVars, matchVars, timeVars
<1> QED  BY <1>1, <1>2, <1>3, <1>4, <1>5, <1>6 DEF Next

\* LobbyService's maps keep their types, for any number of clients and rooms:
\* ids only come from the counters, and every lookup finds what it expects.
THEOREM TypesHold == Spec => []TypeOK
<1>1. Init => TypeOK  BY InitTypeOK
<1>2. TypeOK /\ [Next]_lobbyVars => TypeOK'  BY NextTypeOK
<1> QED  BY <1>1, <1>2, PTL DEF Spec

-----------------------------------------------------------------------------
(* The lobby's maps.                                                       *)
(*                                                                         *)
(* None of the invariants is inductive alone: that a new member enters no  *)
(* second room needs fresh ids, that a leaver's room is not about to start *)
(* needs the state of the room to match the reservations, and that needs   *)
(* the members to match.  They are proved together as LobbyInv.            *)

LobbyInv ==
    /\ TypeOK
    /\ IdsAreFresh
    /\ ConnectionsAgree
    /\ MembershipAgrees
    /\ StartingIffPending
    /\ InMatchIffActive

LEMMA InitLobbyInv == Init => LobbyInv
<1> SUFFICES ASSUME Init PROVE LobbyInv  OBVIOUS
<1>1. TypeOK  BY InitTypeOK
<1>2. IdsAreFresh
  BY DEF Init, IdsAreFresh, Exists, NoReservation, NoMatch, None
<1>3. ConnectionsAgree
  BY DEF Init, ConnectionsAgree, ConnectionId, PlayerId, None
<1>4. MembershipAgrees
  BY DEF Init, MembershipAgrees, Exists, PlayerId, RoomId, None
<1>5. StartingIffPending  BY DEF Init, StartingIffPending, NoReservation
<1>6. InMatchIffActive
  BY DEF Init, InMatchIffActive, NoMatch, RoomId, None
<1> QED  BY <1>1, <1>2, <1>3, <1>4, <1>5, <1>6 DEF LobbyInv

-----------------------------------------------------------------------------
(* Connections. *)

LEMMA HelloConnections ==
    ASSUME LobbyInv, NEW c \in ConnectionId, Hello(c)
    PROVE  ConnectionsAgree'
<1>1. playerConn[nextPlayer] = None /\ nextPlayer \in PlayerId
  BY DEF Hello, LobbyInv, TypeOK, IdsAreFresh, PlayerId
<1> QED
  BY <1>1 DEF Hello, LobbyInv, TypeOK, ConnectionsAgree, PlayerId, ConnectionId, None

LEMMA CloseConnections ==
    ASSUME LobbyInv, NEW c \in ConnectionId, CloseConnection(c)
    PROVE  ConnectionsAgree'
BY DEF CloseConnection, LobbyInv, TypeOK, ConnectionsAgree, PlayerId, ConnectionId, None

LEMMA ConnectionsStep ==
    ASSUME LobbyInv, [Next]_lobbyVars
    PROVE  ConnectionsAgree'
<1> USE DEF connVars, LobbyInv
<1>1. CASE UNCHANGED connVars  BY <1>1 DEF ConnectionsAgree
<1>2. CASE OpenConnection  BY <1>2 DEF OpenConnection, ConnectionsAgree
<1>3. ASSUME NEW c \in ConnectionId, Hello(c) PROVE ConnectionsAgree'
  BY <1>3, HelloConnections
<1>4. ASSUME NEW c \in ConnectionId, CloseConnection(c) PROVE ConnectionsAgree'
  BY <1>4, CloseConnections
<1>5. ASSUME NEW c \in ConnectionId, Request(c) PROVE ConnectionsAgree'
  BY <1>1, <1>3, <1>5
  DEF Request, CreateRoom, JoinRoom, LeaveRoom, SetReady, StartMatch,
      StartMatchRollback
<1>6. ASSUME NEW c \in ConnectionId, Disconnect(c) PROVE ConnectionsAgree'
  BY <1>4, <1>6
  DEF Disconnect, DisconnectOutside, DisconnectWaiting, DisconnectStarting
<1>7. ASSUME NEW m \in MatchId, WorkerEvent(m) PROVE ConnectionsAgree'
  BY <1>1, <1>7
  DEF WorkerEvent, ReservationFailed, ReservationTooLate, FailPending,
      ReservationReady, FinishMatch
<1> QED
  BY <1>1, <1>2, <1>5, <1>6, <1>7 DEF Next, LastSecond, TicketsExpire, lobbyVars

-----------------------------------------------------------------------------
(* Rooms. *)

\* A member's room exists and lists it.
LEMMA RoomOfMember ==
    ASSUME LobbyInv, NEW c \in ConnectionId, Welcomed(c), RoomOf(c) # None
    PROVE  /\ PlayerOf(c) \in PlayerId /\ RoomOf(c) \in RoomId
           /\ PlayerOf(c) \in members[RoomOf(c)]
           /\ playerRoom[PlayerOf(c)] = RoomOf(c)
<1>1. PlayerOf(c) \in PlayerId /\ RoomOf(c) \in RoomId
  BY PlayerOfType DEF LobbyInv
<1> QED  BY <1>1 DEF LobbyInv, MembershipAgrees, RoomOf, PlayerOf

LEMMA RemoveMemberKeeps ==
    ASSUME LobbyInv, NEW r \in RoomId, NEW p \in members[r], RemoveMember(r, p)
    PROVE  MembershipAgrees'
<1>1. p \in PlayerId  BY DEF LobbyInv, TypeOK
<1>2. /\ playerRoom' = [playerRoom EXCEPT ![p] = None]
      /\ members' = [members EXCEPT ![r] = @ \ {p}]
      /\ roomState' = [roomState EXCEPT
                          ![r] = IF members[r] = {p} THEN "Absent" ELSE "Waiting"]
  BY DEF RemoveMember
<1>3. \A q \in PlayerId, s \in RoomId : q \in members'[s] <=> playerRoom'[q] = s
  BY <1>1, <1>2 DEF LobbyInv, TypeOK, MembershipAgrees, RoomId, None
<1>4. \A s \in RoomId : Exists(s)' <=> members'[s] # {}
  BY <1>1, <1>2 DEF LobbyInv, TypeOK, MembershipAgrees, Exists
<1> QED  BY <1>3, <1>4 DEF MembershipAgrees

LEMMA CreateRoomMembership ==
    ASSUME LobbyInv, NEW c \in ConnectionId, CreateRoom(c)
    PROVE  MembershipAgrees'
<1>1. PlayerOf(c) \in PlayerId /\ playerRoom[PlayerOf(c)] = None
  BY PlayerOfType DEF CreateRoom, LobbyInv, RoomOf, PlayerOf
<1>2. nextRoom \in RoomId /\ members[nextRoom] = {}
  BY DEF CreateRoom, LobbyInv, IdsAreFresh, MembershipAgrees, RoomId
<1>3. /\ playerRoom' = [playerRoom EXCEPT ![PlayerOf(c)] = nextRoom]
      /\ members' = [members EXCEPT ![nextRoom] = {PlayerOf(c)}]
      /\ roomState' = [roomState EXCEPT ![nextRoom] = "Waiting"]
  BY DEF CreateRoom
<1>4. \A q \in PlayerId, s \in RoomId : q \in members'[s] <=> playerRoom'[q] = s
  BY <1>1, <1>2, <1>3 DEF LobbyInv, TypeOK, MembershipAgrees, RoomId, None
<1>5. \A s \in RoomId : Exists(s)' <=> members'[s] # {}
  BY <1>1, <1>2, <1>3 DEF LobbyInv, TypeOK, MembershipAgrees, Exists
<1> QED  BY <1>4, <1>5 DEF MembershipAgrees

LEMMA JoinRoomMembership ==
    ASSUME LobbyInv, NEW c \in ConnectionId, NEW r \in RoomId, JoinRoom(c, r)
    PROVE  MembershipAgrees'
<1>1. PlayerOf(c) \in PlayerId /\ playerRoom[PlayerOf(c)] = None
  BY PlayerOfType DEF JoinRoom, LobbyInv, RoomOf, PlayerOf
<1>2. /\ playerRoom' = [playerRoom EXCEPT ![PlayerOf(c)] = r]
      /\ members' = [members EXCEPT ![r] = @ \cup {PlayerOf(c)}]
      /\ roomState' = roomState /\ Exists(r)
  BY DEF JoinRoom, Exists
<1>3. \A q \in PlayerId, s \in RoomId : q \in members'[s] <=> playerRoom'[q] = s
  BY <1>1, <1>2 DEF LobbyInv, TypeOK, MembershipAgrees, RoomId, None
<1>4. \A s \in RoomId : Exists(s)' <=> members'[s] # {}
  BY <1>1, <1>2 DEF LobbyInv, TypeOK, MembershipAgrees, Exists
<1> QED  BY <1>3, <1>4 DEF MembershipAgrees

LEMMA FinishMatchMembership ==
    ASSUME LobbyInv, NEW m \in MatchId, NEW w \in Worker, FinishMatch(m, w)
    PROVE  MembershipAgrees'
<1> DEFINE r == active[m].room
<1>1. r \in RoomId  BY DEF FinishMatch, LobbyInv, TypeOK, ActiveMatch
<1>2. /\ playerRoom' = [p \in PlayerId |->
                          IF p \in members[r] THEN None ELSE playerRoom[p]]
      /\ members' = [members EXCEPT ![r] = {}]
      /\ roomState' = [roomState EXCEPT ![r] = "Absent"]
  BY DEF FinishMatch
<1> HIDE DEF r
<1>3. \A q \in PlayerId, s \in RoomId : q \in members'[s] <=> playerRoom'[q] = s
  BY <1>1, <1>2 DEF LobbyInv, TypeOK, MembershipAgrees, RoomId, None
<1>4. \A s \in RoomId : Exists(s)' <=> members'[s] # {}
  BY <1>1, <1>2 DEF LobbyInv, TypeOK, MembershipAgrees, Exists
<1> QED  BY <1>3, <1>4 DEF MembershipAgrees

\* Changes of a room's state between Waiting, Starting and InMatch.
LEMMA StateChangeKeeps ==
    ASSUME LobbyInv, NEW r \in RoomId, Exists(r),
           NEW s \in {"Waiting", "Starting", "InMatch"},
           roomState' = [roomState EXCEPT ![r] = s],
           UNCHANGED <<playerRoom, members>>
    PROVE  MembershipAgrees'
BY DEF LobbyInv, TypeOK, MembershipAgrees, Exists

LEMMA PendingRoom ==
    ASSUME LobbyInv, NEW m \in MatchId, pending[m].room # None
    PROVE  /\ pending[m].room \in RoomId
           /\ roomRes[pending[m].room] = m
           /\ roomState[pending[m].room] = "Starting"
           /\ pending[m].players = members[pending[m].room]
<1>1. pending[m].room \in RoomId  BY PendingType DEF LobbyInv
<1>2. m # None  BY DEF MatchId, None
<1> QED  BY <1>1, <1>2 DEF LobbyInv, StartingIffPending

LEMMA MembershipStep ==
    ASSUME LobbyInv, [Next]_lobbyVars
    PROVE  MembershipAgrees'
<1>1. CASE UNCHANGED <<playerRoom, roomState, members>>
  BY <1>1 DEF LobbyInv, MembershipAgrees, Exists
<1>2. ASSUME NEW c \in ConnectionId, Welcomed(c), RoomOf(c) # None,
             RemoveMember(RoomOf(c), PlayerOf(c))
      PROVE  MembershipAgrees'
  BY <1>2, RoomOfMember, RemoveMemberKeeps
<1>3. ASSUME NEW c \in ConnectionId, StartMatch(c) PROVE MembershipAgrees'
  <2>1. RoomOf(c) \in RoomId /\ Exists(RoomOf(c))
    BY <1>3, PlayerOfType DEF StartMatch, CanStart, LobbyInv, Exists
  <2> QED  BY <1>3, <2>1, StateChangeKeeps DEF StartMatch
<1>4. ASSUME NEW c \in ConnectionId, Request(c) PROVE MembershipAgrees'
  BY <1>1, <1>2, <1>3, <1>4, CreateRoomMembership, JoinRoomMembership
  DEF Request, Hello, LeaveRoom, SetReady, StartMatchRollback, roomVars
<1>5. ASSUME NEW c \in ConnectionId, Disconnect(c) PROVE MembershipAgrees'
  BY <1>1, <1>2, <1>5
  DEF Disconnect, DisconnectOutside, DisconnectWaiting, DisconnectStarting,
      roomVars
<1>6. ASSUME NEW m \in MatchId, pending[m].room # None, FailPending(m)
      PROVE  MembershipAgrees'
  <2>1. pending[m].room \in RoomId /\ roomState[pending[m].room] = "Starting"
    BY <1>6, PendingRoom
  <2>2. roomState' = [roomState EXCEPT ![pending[m].room] = "Waiting"]
    BY <1>6, <2>1 DEF FailPending, LobbyInv, TypeOK
  <2> QED  BY <1>6, <2>1, <2>2, StateChangeKeeps DEF FailPending, Exists
<1>7. ASSUME NEW m \in MatchId, NEW w \in Worker, ReservationReady(m, w)
      PROVE  MembershipAgrees'
  <2>1. pending[m].room \in RoomId  BY <1>7, PendingRoom DEF ReservationReady
  <2> QED  BY <1>7, <2>1, StateChangeKeeps DEF ReservationReady, Exists
<1>8. ASSUME NEW m \in MatchId, WorkerEvent(m) PROVE MembershipAgrees'
  BY <1>6, <1>7, <1>8, FinishMatchMembership
  DEF WorkerEvent, ReservationFailed, ReservationTooLate
<1> QED
  BY <1>1, <1>4, <1>5, <1>8
  DEF Next, OpenConnection, LastSecond, TicketsExpire, lobbyVars, roomVars

-----------------------------------------------------------------------------
(* Matches.  Both invariants relate roomState, members, the reservation    *)
(* maps and the active matches, so each action is shown to keep them       *)
(* together.                                                               *)

MatchesAgree == StartingIffPending /\ InMatchIffActive

\* Nothing is pending or active in a room that waits or does not exist.
LEMMA FreeRoom ==
    ASSUME LobbyInv, NEW r \in RoomId, roomState[r] \notin {"Starting", "InMatch"}
    PROVE  /\ roomRes[r] = None
           /\ \A m \in MatchId : pending[m].room # r /\ active[m].room # r
<1>1. roomRes[r] = None /\ \A m \in MatchId : active[m].room # r
  BY DEF LobbyInv, StartingIffPending, InMatchIffActive
<1>2. \A m \in MatchId : pending[m].room # r
  BY <1>1 DEF LobbyInv, StartingIffPending, MatchId, RoomId, None
<1> QED  BY <1>1, <1>2

\* What happens to the members of such a room does not matter to the matches.
LEMMA FreeRoomChanges ==
    ASSUME LobbyInv, NEW r \in RoomId, roomState[r] \notin {"Starting", "InMatch"},
           NEW s \in {"Absent", "Waiting"}, NEW M,
           roomState' = [roomState EXCEPT ![r] = s],
           members' = [members EXCEPT ![r] = M],
           UNCHANGED <<pending, roomRes, active>>
    PROVE  MatchesAgree'
<1>1. /\ roomRes[r] = None
      /\ \A m \in MatchId : pending[m].room # r /\ active[m].room # r
  BY FreeRoom
<1>2. \A q \in RoomId : q # r => roomState'[q] = roomState[q] /\ members'[q] = members[q]
  BY DEF LobbyInv, TypeOK
<1>3. roomState'[r] = s  BY DEF LobbyInv, TypeOK
<1>4. StartingIffPending'
  BY <1>1, <1>2, <1>3 DEF LobbyInv, TypeOK, StartingIffPending
<1>5. InMatchIffActive'
  <2>1. \A q \in RoomId : roomState'[q] = "InMatch" <=>
            \E m \in MatchId : active'[m].room = q
    BY <1>1, <1>2, <1>3 DEF LobbyInv, InMatchIffActive
  <2>2. ASSUME NEW m \in MatchId, active'[m].room # None
        PROVE  members'[active'[m].room] = active'[m].players /\ pending'[m].room = None
    <3>1. active[m].room \in RoomId /\ active[m].room # r
      BY <1>1, <2>2 DEF LobbyInv, TypeOK, ActiveMatch
    <3> QED  BY <1>2, <2>2, <3>1 DEF LobbyInv, InMatchIffActive
  <2> QED  BY <2>1, <2>2 DEF LobbyInv, InMatchIffActive
<1> QED  BY <1>4, <1>5 DEF MatchesAgree

LEMMA CreateRoomMatches ==
    ASSUME LobbyInv, NEW c \in ConnectionId, CreateRoom(c)
    PROVE  MatchesAgree'
<1>1. nextRoom \in RoomId /\ roomState[nextRoom] = "Absent"
  BY DEF CreateRoom, LobbyInv, IdsAreFresh, Exists, RoomId
<1> QED  BY <1>1, FreeRoomChanges DEF CreateRoom, matchVars

LEMMA JoinRoomMatches ==
    ASSUME LobbyInv, NEW c \in ConnectionId, NEW r \in RoomId, JoinRoom(c, r)
    PROVE  MatchesAgree'
<1>1. roomState' = [roomState EXCEPT ![r] = "Waiting"]
  BY DEF JoinRoom, LobbyInv, TypeOK
<1> QED  BY <1>1, FreeRoomChanges DEF JoinRoom, matchVars

LEMMA LeaveWaitingMatches ==
    ASSUME LobbyInv, NEW r \in RoomId, roomState[r] = "Waiting", NEW p,
           RemoveMember(r, p), UNCHANGED matchVars
    PROVE  MatchesAgree'
<1>1. PICK s \in {"Absent", "Waiting"} : roomState' = [roomState EXCEPT ![r] = s]
  BY DEF RemoveMember
<1> QED  BY <1>1, FreeRoomChanges DEF RemoveMember, matchVars

LEMMA StartMatchMatches ==
    ASSUME LobbyInv, NEW c \in ConnectionId, StartMatch(c)
    PROVE  MatchesAgree'
<1> DEFINE r == RoomOf(c)
           m == nextMatch
<1>1. r \in RoomId /\ m \in MatchId /\ roomState[r] = "Waiting"
  BY PlayerOfType DEF StartMatch, CanStart, LobbyInv
<1>2. /\ roomRes[r] = None
      /\ \A n \in MatchId : pending[n].room # r /\ active[n].room # r
  BY <1>1, FreeRoom
<1>3. pending[m].room = None /\ active[m].room = None
  BY <1>1 DEF LobbyInv, IdsAreFresh, MatchId
<1>4. /\ roomState' = [roomState EXCEPT ![r] = "Starting"]
      /\ pending' = [pending EXCEPT ![m] = [room |-> r, requester |-> PlayerOf(c),
                                           players |-> members[r]]]
      /\ roomRes' = [roomRes EXCEPT ![r] = m]
      /\ UNCHANGED <<members, active>>
  BY DEF StartMatch
<1>5. r # None /\ m # None  BY <1>1 DEF RoomId, MatchId, None
<1> HIDE DEF r, m
<1>6. StartingIffPending'
  <2>1. ASSUME NEW q \in RoomId
        PROVE  /\ roomState'[q] = "Starting" <=> roomRes'[q] # None
               /\ roomRes'[q] # None => /\ pending'[roomRes'[q]].room = q
                                       /\ pending'[roomRes'[q]].players = members'[q]
    <3>1. CASE q = r  BY <1>1, <1>4, <1>5, <3>1 DEF LobbyInv, TypeOK
    <3>2. CASE q # r
      <4>1. roomRes'[q] = roomRes[q] /\ members'[q] = members[q]
            /\ roomState'[q] = roomState[q]
        BY <1>4, <3>2 DEF LobbyInv, TypeOK
      <4>2. roomRes[q] # None => roomRes[q] # m
        BY <1>3, <3>2 DEF LobbyInv, StartingIffPending, RoomId, None
      <4>3. roomRes[q] # None => pending'[roomRes[q]] = pending[roomRes[q]]
        BY <1>4, <4>2 DEF LobbyInv, TypeOK
      <4> QED  BY <4>1, <4>3 DEF LobbyInv, StartingIffPending
    <3> QED  BY <3>1, <3>2
  <2>2. ASSUME NEW n \in MatchId, pending'[n].room # None
        PROVE  roomRes'[pending'[n].room] = n
    <3>1. CASE n = m  BY <1>1, <1>4, <3>1 DEF LobbyInv, TypeOK
    <3>2. CASE n # m
      <4>1. pending'[n] = pending[n]  BY <1>4, <3>2 DEF LobbyInv, TypeOK
      <4>2. roomRes'[pending[n].room] = roomRes[pending[n].room]
        BY <1>2, <1>4, <2>2, <4>1, PendingRoom DEF LobbyInv, TypeOK
      <4> QED  BY <2>2, <4>1, <4>2 DEF LobbyInv, StartingIffPending
    <3> QED  BY <3>1, <3>2
  <2> QED  BY <2>1, <2>2 DEF StartingIffPending
<1>7. InMatchIffActive'
  BY <1>1, <1>2, <1>3, <1>4, <1>5 DEF LobbyInv, TypeOK, InMatchIffActive
<1> QED  BY <1>6, <1>7 DEF MatchesAgree

\* A reservation is dropped and its room goes on in another state.
LEMMA DropReservationMatches ==
    ASSUME LobbyInv, NEW m \in MatchId, pending[m].room # None,
           DropReservation(m), active' = active,
           NEW s \in {"Absent", "Waiting"}, NEW M,
           roomState' = [roomState EXCEPT ![pending[m].room] = s],
           members' = [members EXCEPT ![pending[m].room] = M]
    PROVE  MatchesAgree'
<1> DEFINE r == pending[m].room
<1>1. r \in RoomId /\ r # None /\ roomRes[r] = m /\ roomState[r] = "Starting"
  BY PendingRoom
<1>2. /\ pending' = [pending EXCEPT ![m] = NoReservation]
      /\ roomRes' = [roomRes EXCEPT ![r] = None]
  BY DEF DropReservation
<1>3. \A n \in MatchId : active[n].room # r
  BY <1>1 DEF LobbyInv, InMatchIffActive
<1>4. \A n \in MatchId : pending[n].room = r => n = m
  BY <1>1 DEF LobbyInv, StartingIffPending
<1>5. /\ roomState' = [roomState EXCEPT ![r] = s]
      /\ members' = [members EXCEPT ![r] = M]
  OBVIOUS
<1> HIDE DEF r
<1>6. NoReservation.room = None  BY DEF NoReservation
<1>7. StartingIffPending'
  <2>1. ASSUME NEW q \in RoomId
        PROVE  /\ roomState'[q] = "Starting" <=> roomRes'[q] # None
               /\ roomRes'[q] # None => /\ pending'[roomRes'[q]].room = q
                                       /\ pending'[roomRes'[q]].players = members'[q]
    <3>1. CASE q = r  BY <1>1, <1>2, <1>5, <3>1 DEF LobbyInv, TypeOK
    <3>2. CASE q # r
      <4>1. roomRes[q] # m
        BY <1>1, <3>2 DEF LobbyInv, StartingIffPending
      <4>2. roomRes'[q] = roomRes[q] /\ members'[q] = members[q]
            /\ roomState'[q] = roomState[q]
        BY <1>1, <1>2, <1>5, <3>2 DEF LobbyInv, TypeOK
      <4>3. roomRes[q] # None => pending'[roomRes[q]] = pending[roomRes[q]]
        BY <1>2, <4>1 DEF LobbyInv, TypeOK
      <4> QED  BY <4>2, <4>3 DEF LobbyInv, StartingIffPending
    <3> QED  BY <3>1, <3>2
  <2>2. ASSUME NEW n \in MatchId, pending'[n].room # None
        PROVE  roomRes'[pending'[n].room] = n
    <3>1. n # m  BY <1>2, <1>6, <2>2 DEF LobbyInv, TypeOK
    <3>2. pending'[n] = pending[n]  BY <1>2, <3>1 DEF LobbyInv, TypeOK
    <3>3. pending[n].room \in RoomId /\ pending[n].room # r
      BY <1>4, <2>2, <3>1, <3>2, PendingRoom
    <3>4. roomRes'[pending[n].room] = roomRes[pending[n].room]
      BY <1>2, <3>3 DEF LobbyInv, TypeOK
    <3> QED  BY <2>2, <3>2, <3>4 DEF LobbyInv, StartingIffPending
  <2> QED  BY <2>1, <2>2 DEF StartingIffPending
<1>8. InMatchIffActive'
  <2>1. ASSUME NEW q \in RoomId
        PROVE  roomState'[q] = "InMatch" <=> \E n \in MatchId : active'[n].room = q
    BY <1>1, <1>3, <1>5 DEF LobbyInv, TypeOK, InMatchIffActive
  <2>2. ASSUME NEW n \in MatchId, active'[n].room # None
        PROVE  members'[active'[n].room] = active'[n].players /\ pending'[n].room = None
    <3>1. active[n].room \in RoomId /\ active[n].room # r
      BY <1>3, <2>2 DEF LobbyInv, TypeOK, ActiveMatch
    <3>2. members'[active[n].room] = members[active[n].room]
      BY <1>5, <3>1 DEF LobbyInv, TypeOK
    <3>3. pending'[n].room = None
      BY <1>2, <1>6, <2>2 DEF LobbyInv, TypeOK, InMatchIffActive
    <3> QED  BY <2>2, <3>2, <3>3 DEF LobbyInv, InMatchIffActive
  <2> QED  BY <2>1, <2>2 DEF LobbyInv, InMatchIffActive
<1> QED  BY <1>7, <1>8 DEF MatchesAgree

LEMMA FailPendingMatches ==
    ASSUME LobbyInv, NEW m \in MatchId, pending[m].room # None, FailPending(m)
    PROVE  MatchesAgree'
<1> DEFINE r == pending[m].room
<1>1. r \in RoomId /\ roomState[r] = "Starting"  BY PendingRoom
<1>2. roomState' = [roomState EXCEPT ![r] = "Waiting"]
  BY <1>1 DEF FailPending, LobbyInv, TypeOK
<1>3. members' = [members EXCEPT ![r] = members[r]]
  BY <1>1 DEF FailPending, LobbyInv, TypeOK
<1> QED  BY <1>2, <1>3, DropReservationMatches DEF FailPending

LEMMA DisconnectStartingMatches ==
    ASSUME LobbyInv, NEW c \in ConnectionId, DisconnectStarting(c)
    PROVE  MatchesAgree'
<1> DEFINE r == RoomOf(c)
           m == roomRes[r]
<1>1. r \in RoomId /\ m # None
  BY PlayerOfType DEF DisconnectStarting, LobbyInv
<1>2. m \in MatchId /\ pending[m].room = r /\ r # None
  BY <1>1 DEF LobbyInv, TypeOK, StartingIffPending, RoomId, None
<1>3. RemoveMember(r, PlayerOf(c)) /\ DropReservation(m) /\ active' = active
  BY DEF DisconnectStarting
<1>4. PICK s \in {"Absent", "Waiting"} : roomState' = [roomState EXCEPT ![r] = s]
  BY <1>3 DEF RemoveMember
<1>5. members' = [members EXCEPT ![r] = @ \ {PlayerOf(c)}]
  BY <1>3 DEF RemoveMember
<1> QED  BY <1>2, <1>3, <1>4, <1>5, DropReservationMatches

LEMMA ReservationReadyMatches ==
    ASSUME LobbyInv, NEW m \in MatchId, NEW w \in Worker, ReservationReady(m, w)
    PROVE  MatchesAgree'
<1> DEFINE r == pending[m].room
<1>1. /\ r \in RoomId /\ r # None /\ roomRes[r] = m /\ roomState[r] = "Starting"
      /\ pending[m].players = members[r]
  BY PendingRoom DEF ReservationReady
<1>2. /\ pending' = [pending EXCEPT ![m] = NoReservation]
      /\ roomRes' = [roomRes EXCEPT ![r] = None]
      /\ roomState' = [roomState EXCEPT ![r] = "InMatch"]
      /\ active' = [active EXCEPT ![m] = [room |-> r, worker |-> w,
                                         players |-> members[r]]]
      /\ members' = members
  BY <1>1 DEF ReservationReady, DropReservation
<1>3. \A n \in MatchId : active[n].room # r
  BY <1>1 DEF LobbyInv, InMatchIffActive
<1>4. \A n \in MatchId : pending[n].room = r => n = m
  BY <1>1 DEF LobbyInv, StartingIffPending
<1> HIDE DEF r
<1>5. NoReservation.room = None  BY DEF NoReservation
<1>6. StartingIffPending'
  <2>1. ASSUME NEW q \in RoomId
        PROVE  /\ roomState'[q] = "Starting" <=> roomRes'[q] # None
               /\ roomRes'[q] # None => /\ pending'[roomRes'[q]].room = q
                                       /\ pending'[roomRes'[q]].players = members'[q]
    <3>1. CASE q = r  BY <1>1, <1>2, <3>1 DEF LobbyInv, TypeOK
    <3>2. CASE q # r
      <4>1. roomRes[q] # m
        BY <1>1, <3>2 DEF LobbyInv, StartingIffPending, r
      <4>2. roomRes'[q] = roomRes[q] /\ members'[q] = members[q]
            /\ roomState'[q] = roomState[q]
        BY <1>2, <3>2 DEF LobbyInv, TypeOK
      <4>3. roomRes[q] # None => pending'[roomRes[q]] = pending[roomRes[q]]
        BY <1>2, <4>1 DEF LobbyInv, TypeOK
      <4> QED  BY <4>2, <4>3 DEF LobbyInv, StartingIffPending
    <3> QED  BY <3>1, <3>2
  <2>2. ASSUME NEW n \in MatchId, pending'[n].room # None
        PROVE  roomRes'[pending'[n].room] = n
    <3>1. n # m  BY <1>2, <1>5, <2>2 DEF LobbyInv, TypeOK
    <3>2. pending'[n] = pending[n]  BY <1>2, <3>1 DEF LobbyInv, TypeOK
    <3>3. pending[n].room \in RoomId /\ pending[n].room # r
      BY <1>4, <2>2, <3>1, <3>2, PendingRoom
    <3>4. roomRes'[pending[n].room] = roomRes[pending[n].room]
      BY <1>2, <3>3 DEF LobbyInv, TypeOK
    <3> QED  BY <2>2, <3>2, <3>4 DEF LobbyInv, StartingIffPending
  <2> QED  BY <2>1, <2>2 DEF StartingIffPending
<1>7. InMatchIffActive'
  <2>1. ASSUME NEW q \in RoomId
        PROVE  roomState'[q] = "InMatch" <=> \E n \in MatchId : active'[n].room = q
    <3>1. CASE q = r  BY <1>1, <1>2, <3>1 DEF LobbyInv, TypeOK
    <3>2. CASE q # r
      <4>1. \A n \in MatchId : active'[n].room = q => active[n].room = q
        BY <1>2, <3>2 DEF LobbyInv, TypeOK
      <4>2. \A n \in MatchId : active[n].room = q => active'[n].room = q
        <5>1. active[m].room = None
          BY <1>1 DEF LobbyInv, InMatchIffActive, r
        <5>2. q # None  BY DEF RoomId, None
        <5> QED  BY <1>2, <5>1, <5>2 DEF LobbyInv, TypeOK
      <4>3. roomState'[q] = roomState[q]  BY <1>2, <3>2 DEF LobbyInv, TypeOK
      <4> QED  BY <4>1, <4>2, <4>3 DEF LobbyInv, InMatchIffActive
    <3> QED  BY <3>1, <3>2
  <2>2. ASSUME NEW n \in MatchId, active'[n].room # None
        PROVE  members'[active'[n].room] = active'[n].players /\ pending'[n].room = None
    BY <1>2, <1>5, <2>2 DEF LobbyInv, TypeOK, InMatchIffActive
  <2>3. ASSUME NEW n \in MatchId, NEW o \in MatchId,
               active'[n].room # None, active'[n].room = active'[o].room
        PROVE  n = o
    BY <1>2, <1>3, <2>3 DEF LobbyInv, TypeOK, InMatchIffActive
  <2> QED  BY <2>1, <2>2, <2>3 DEF InMatchIffActive
<1> QED  BY <1>6, <1>7 DEF MatchesAgree

LEMMA FinishMatchMatches ==
    ASSUME LobbyInv, NEW m \in MatchId, NEW w \in Worker, FinishMatch(m, w)
    PROVE  MatchesAgree'
<1> DEFINE r == active[m].room
<1>1. r \in RoomId /\ r # None /\ roomState[r] = "InMatch"
  BY DEF FinishMatch, LobbyInv, TypeOK, ActiveMatch, InMatchIffActive
<1>2. /\ active' = [active EXCEPT ![m] = NoMatch]
      /\ members' = [members EXCEPT ![r] = {}]
      /\ roomState' = [roomState EXCEPT ![r] = "Absent"]
      /\ UNCHANGED <<pending, roomRes>>
  BY DEF FinishMatch
<1>3. \A n \in MatchId : active[n].room = r => n = m
  BY <1>1 DEF LobbyInv, InMatchIffActive
<1>4. roomRes[r] = None  BY <1>1 DEF LobbyInv, StartingIffPending
<1> HIDE DEF r
<1>5. NoMatch.room = None  BY DEF NoMatch
<1>6. StartingIffPending'
  <2>1. \A q \in RoomId : q # r => members'[q] = members[q] /\ roomState'[q] = roomState[q]
    BY <1>2 DEF LobbyInv, TypeOK
  <2> QED  BY <1>1, <1>2, <1>4, <2>1 DEF LobbyInv, TypeOK, StartingIffPending
<1>7. InMatchIffActive'
  <2>1. ASSUME NEW n \in MatchId, active'[n].room # None
        PROVE  /\ active'[n] = active[n] /\ active[n].room \in RoomId
               /\ active[n].room # r
    <3>1. n # m /\ active'[n] = active[n]  BY <1>2, <1>5, <2>1 DEF LobbyInv, TypeOK
    <3> QED  BY <1>3, <2>1, <3>1 DEF LobbyInv, TypeOK, ActiveMatch
  <2>2. ASSUME NEW q \in RoomId
        PROVE  roomState'[q] = "InMatch" <=> \E n \in MatchId : active'[n].room = q
    <3>1. q # None  BY DEF RoomId, None
    <3>2. CASE q = r  BY <1>1, <1>2, <2>1, <3>1, <3>2 DEF LobbyInv, TypeOK
    <3>3. CASE q # r
      <4>1. \A n \in MatchId : active[n].room = q => active'[n].room = q
        <5> TAKE n \in MatchId
        <5>1. active[n].room = q => n # m  BY <3>3 DEF r
        <5> QED  BY <1>2, <5>1 DEF LobbyInv, TypeOK
      <4>2. roomState'[q] = roomState[q]  BY <1>2, <3>3 DEF LobbyInv, TypeOK
      <4> QED  BY <2>1, <3>1, <4>1, <4>2 DEF LobbyInv, InMatchIffActive
    <3> QED  BY <3>2, <3>3
  <2>3. ASSUME NEW n \in MatchId, active'[n].room # None
        PROVE  members'[active'[n].room] = active'[n].players /\ pending'[n].room = None
    <3>1. members'[active[n].room] = members[active[n].room]
      BY <1>2, <2>1, <2>3 DEF LobbyInv, TypeOK
    <3> QED  BY <1>2, <2>1, <2>3, <3>1 DEF LobbyInv, InMatchIffActive
  <2>4. ASSUME NEW n \in MatchId, NEW o \in MatchId,
               active'[n].room # None, active'[n].room = active'[o].room
        PROVE  n = o
    BY <2>1, <2>4 DEF LobbyInv, InMatchIffActive
  <2> QED  BY <2>2, <2>3, <2>4 DEF InMatchIffActive
<1> QED  BY <1>6, <1>7 DEF MatchesAgree

LEMMA MatchesStep ==
    ASSUME LobbyInv, [Next]_lobbyVars
    PROVE  MatchesAgree'
<1>1. CASE UNCHANGED <<roomState, members, pending, roomRes, active>>
  <2>1. StartingIffPending'  BY <1>1 DEF LobbyInv, StartingIffPending
  <2>2. InMatchIffActive'  BY <1>1 DEF LobbyInv, InMatchIffActive
  <2> QED  BY <2>1, <2>2 DEF MatchesAgree
<1>2. ASSUME NEW c \in ConnectionId, Welcomed(c), RoomOf(c) # None,
             roomState[RoomOf(c)] = "Waiting", UNCHANGED matchVars,
             RemoveMember(RoomOf(c), PlayerOf(c))
      PROVE  MatchesAgree'
  BY <1>2, RoomOfMember, LeaveWaitingMatches
<1>3. ASSUME NEW c \in ConnectionId, StartMatchRollback(c) PROVE MatchesAgree'
  BY <1>1, <1>3 DEF StartMatchRollback, roomVars
<1>4. ASSUME NEW c \in ConnectionId, Request(c) PROVE MatchesAgree'
  BY <1>1, <1>2, <1>3, <1>4, CreateRoomMatches, JoinRoomMatches,
     StartMatchMatches
  DEF Request, Hello, LeaveRoom, MayChange, SetReady, roomVars, matchVars
<1>5. ASSUME NEW c \in ConnectionId, Disconnect(c) PROVE MatchesAgree'
  BY <1>1, <1>2, <1>5, DisconnectStartingMatches
  DEF Disconnect, DisconnectOutside, DisconnectWaiting, roomVars, matchVars
<1>6. ASSUME NEW m \in MatchId, WorkerEvent(m) PROVE MatchesAgree'
  BY <1>6, FailPendingMatches, ReservationReadyMatches, FinishMatchMatches
  DEF WorkerEvent, ReservationFailed, ReservationTooLate
<1> QED
  BY <1>1, <1>4, <1>5, <1>6
  DEF Next, OpenConnection, LastSecond, TicketsExpire, lobbyVars, roomVars,
      matchVars

-----------------------------------------------------------------------------
(* Ids. *)

LEMMA RemoveMemberFresh ==
    ASSUME LobbyInv, NEW r \in RoomId, NEW p \in members[r], RemoveMember(r, p),
           UNCHANGED counters
    PROVE  /\ \A q \in PlayerId : playerRoom'[q] # None => q < nextPlayer'
           /\ \A s \in RoomId : roomState'[s] # "Absent" => s < nextRoom'
           /\ \A s \in RoomId, q \in PlayerId : ordinal'[s][q] < nextOrdinal'
<1>1. p \in PlayerId /\ roomState[r] # "Absent"
  BY DEF LobbyInv, TypeOK, MembershipAgrees, Exists
<1>2. 0 < nextOrdinal  BY DEF LobbyInv, TypeOK
<1>3. \A s \in RoomId, q \in PlayerId : ordinal'[s][q] \in {ordinal[s][q], 0}
  BY <1>1 DEF RemoveMember, LobbyInv, TypeOK, None
<1>4. \A s \in RoomId, q \in PlayerId : ordinal'[s][q] < nextOrdinal'
  BY <1>2, <1>3 DEF LobbyInv, IdsAreFresh, counters
<1>5. \A q \in PlayerId : playerRoom'[q] # None => playerRoom[q] # None
  BY <1>1 DEF RemoveMember, LobbyInv, TypeOK
<1>6. \A s \in RoomId : roomState'[s] # "Absent" => roomState[s] # "Absent"
  BY <1>1 DEF RemoveMember, LobbyInv, TypeOK
<1> QED  BY <1>4, <1>5, <1>6 DEF LobbyInv, IdsAreFresh, Exists, counters

LEMMA CloseConnectionFresh ==
    ASSUME LobbyInv, NEW c \in ConnectionId, CloseConnection(c), UNCHANGED counters
    PROVE  /\ \A d \in open' : d < nextConnection'
           /\ \A p \in PlayerId : playerConn'[p] # None => p < nextPlayer'
BY DEF CloseConnection, LobbyInv, TypeOK, IdsAreFresh, counters

LEMMA DropReservationFresh ==
    ASSUME LobbyInv, NEW m \in MatchId, DropReservation(m)
    PROVE  \A n \in MatchId : pending'[n].room # None => pending[n].room # None
BY DEF DropReservation, LobbyInv, TypeOK, NoReservation

LEMMA HelloFresh ==
    ASSUME LobbyInv, NEW c \in ConnectionId, Hello(c)
    PROVE  IdsAreFresh'
<1>1. \A p \in PlayerId : playerConn'[p] # None => playerConn[p] # None \/ p = nextPlayer
  BY DEF Hello, LobbyInv, TypeOK
<1>2. nextPlayer' = nextPlayer + 1 /\ nextPlayer \in Nat
  BY DEF Hello, PlayerId
<1>3. \A p \in PlayerId :
          playerConn'[p] # None \/ playerRoom'[p] # None => p < nextPlayer'
  <2> TAKE p \in PlayerId
  <2>1. p \in Nat  BY DEF PlayerId
  <2>2. playerRoom' = playerRoom  BY DEF Hello, roomVars
  <2> QED  BY <1>1, <1>2, <2>1, <2>2 DEF LobbyInv, IdsAreFresh
<1> QED
  BY <1>3 DEF Hello, LobbyInv, IdsAreFresh, Exists, roomVars, matchVars

LEMMA RoomEntryFresh ==
    ASSUME LobbyInv, NEW c \in ConnectionId, Welcomed(c), NEW r \in RoomId,
           playerRoom' = [playerRoom EXCEPT ![PlayerOf(c)] = r],
           nextOrdinal \in Ordinal, nextOrdinal' = nextOrdinal + 1,
           ordinal' = [ordinal EXCEPT ![r][PlayerOf(c)] = nextOrdinal],
           UNCHANGED <<playerConn, nextPlayer>>
    PROVE  /\ \A p \in PlayerId :
                 playerConn'[p] # None \/ playerRoom'[p] # None => p < nextPlayer'
           /\ \A s \in RoomId, p \in PlayerId : ordinal'[s][p] < nextOrdinal'
<1>1. PlayerOf(c) \in PlayerId  BY PlayerOfType DEF LobbyInv
<1>2. playerConn[PlayerOf(c)] = c /\ c # None
  BY <1>1 DEF LobbyInv, ConnectionsAgree, PlayerOf, ConnectionId, None
<1>3. \A p \in PlayerId : playerRoom'[p] # None => playerRoom[p] # None \/ p = PlayerOf(c)
  BY <1>1 DEF LobbyInv, TypeOK
<1>4. \A s \in RoomId, p \in PlayerId : ordinal'[s][p] \in {ordinal[s][p], nextOrdinal}
  BY <1>1 DEF LobbyInv, TypeOK
<1>5. nextOrdinal \in Nat  BY DEF Ordinal
<1>6. \A s \in RoomId, p \in PlayerId : ordinal[s][p] \in Nat
  <2> TAKE s \in RoomId, p \in PlayerId
  <2>1. ordinal[s] \in [PlayerId -> Ordinal \cup {None}]  BY DEF LobbyInv, TypeOK
  <2> QED  BY <2>1 DEF Ordinal, None
<1>7. \A s \in RoomId, p \in PlayerId : ordinal'[s][p] < nextOrdinal'
  BY <1>4, <1>5, <1>6 DEF LobbyInv, IdsAreFresh
<1> QED  BY <1>1, <1>2, <1>3, <1>7 DEF LobbyInv, IdsAreFresh

LEMMA IdsStep ==
    ASSUME LobbyInv, [Next]_lobbyVars
    PROVE  IdsAreFresh'
<1>1. CASE UNCHANGED lobbyVars
  BY <1>1
  DEF LobbyInv, IdsAreFresh, Exists, lobbyVars, counters, connVars, roomVars, matchVars
<1>2. CASE OpenConnection
  <2>1. \A c \in open' : c < nextConnection'
    <3>1. nextConnection \in Nat /\ open \subseteq Nat
      BY <1>2 DEF LobbyInv, TypeOK, ConnectionId
    <3> QED  BY <1>2, <3>1 DEF OpenConnection, LobbyInv, IdsAreFresh
  <2> QED
    BY <1>2, <2>1
    DEF OpenConnection, LobbyInv, IdsAreFresh, Exists, roomVars, matchVars
<1>3. ASSUME NEW c \in ConnectionId, CreateRoom(c) PROVE IdsAreFresh'
  <2>1. nextRoom \in RoomId  BY <1>3 DEF CreateRoom
  <2>2. /\ \A p \in PlayerId :
             playerConn'[p] # None \/ playerRoom'[p] # None => p < nextPlayer'
        /\ \A s \in RoomId, p \in PlayerId : ordinal'[s][p] < nextOrdinal'
    BY <1>3, <2>1, RoomEntryFresh DEF CreateRoom, connVars
  <2>3. \A r \in RoomId : roomState'[r] # "Absent" => r < nextRoom'
    <3> TAKE r \in RoomId
    <3>1. r \in Nat /\ nextRoom \in Nat /\ nextRoom' = nextRoom + 1
      BY <1>3, <2>1 DEF CreateRoom, RoomId
    <3>2. roomState'[r] # "Absent" => roomState[r] # "Absent" \/ r = nextRoom
      BY <1>3, <2>1 DEF CreateRoom, LobbyInv, TypeOK
    <3> QED  BY <3>1, <3>2 DEF LobbyInv, IdsAreFresh, Exists
  <2> QED
    BY <1>3, <2>2, <2>3
    DEF CreateRoom, LobbyInv, IdsAreFresh, Exists, connVars, matchVars
<1>4. ASSUME NEW c \in ConnectionId, NEW r \in RoomId, JoinRoom(c, r)
      PROVE  IdsAreFresh'
  <2>1. /\ \A p \in PlayerId :
             playerConn'[p] # None \/ playerRoom'[p] # None => p < nextPlayer'
        /\ \A s \in RoomId, p \in PlayerId : ordinal'[s][p] < nextOrdinal'
    BY <1>4, RoomEntryFresh DEF JoinRoom, connVars
  <2> QED
    BY <1>4, <2>1 DEF JoinRoom, LobbyInv, IdsAreFresh, Exists, connVars, matchVars
<1>5. ASSUME NEW c \in ConnectionId, LeaveRoom(c) PROVE IdsAreFresh'
  <2>1. PlayerOf(c) \in members[RoomOf(c)] /\ RoomOf(c) \in RoomId
    BY <1>5, RoomOfMember DEF LeaveRoom
  <2> QED
    BY <1>5, <2>1, RemoveMemberFresh
    DEF LeaveRoom, LobbyInv, IdsAreFresh, Exists, counters, connVars, matchVars
<1>6. ASSUME NEW c \in ConnectionId, StartMatch(c) PROVE IdsAreFresh'
  <2>1. RoomOf(c) \in RoomId /\ roomState[RoomOf(c)] = "Waiting"
    BY <1>6, PlayerOfType DEF StartMatch, CanStart, LobbyInv
  <2>2. \A r \in RoomId : roomState'[r] # "Absent" => roomState[r] # "Absent"
    BY <1>6, <2>1 DEF StartMatch, LobbyInv, TypeOK
  <2>3. \A m \in MatchId :
            pending'[m].room # None \/ active'[m].room # None => m < nextMatch'
    <3> TAKE m \in MatchId
    <3>1. m \in Nat /\ nextMatch \in Nat /\ nextMatch' = nextMatch + 1
      BY <1>6 DEF StartMatch, CanStart, MatchId
    <3>2. pending'[m].room # None => pending[m].room # None \/ m = nextMatch
      BY <1>6 DEF StartMatch, LobbyInv, TypeOK
    <3>3. active' = active  BY <1>6 DEF StartMatch
    <3> QED  BY <3>1, <3>2, <3>3 DEF LobbyInv, IdsAreFresh
  <2> QED
    BY <1>6, <2>2, <2>3 DEF StartMatch, LobbyInv, IdsAreFresh, Exists, connVars
<1>7. ASSUME NEW c \in ConnectionId, StartMatchRollback(c) PROVE IdsAreFresh'
  <2>1. nextMatch \in Nat /\ nextMatch' = nextMatch + 1 /\ MatchId \subseteq Nat
    BY <1>7 DEF StartMatchRollback, CanStart, MatchId
  <2> QED
    BY <1>7, <2>1
    DEF StartMatchRollback, LobbyInv, IdsAreFresh, Exists, connVars, roomVars
<1>8. ASSUME NEW c \in ConnectionId, Request(c) PROVE IdsAreFresh'
  <2>1. ASSUME NEW flag \in BOOLEAN, SetReady(c, flag) PROVE IdsAreFresh'
    BY <2>1 DEF SetReady, LobbyInv, IdsAreFresh, Exists, counters, connVars, matchVars
  <2> QED
    BY <1>3, <1>4, <1>5, <1>6, <1>7, <1>8, <2>1, HelloFresh DEF Request
<1>9. ASSUME NEW c \in ConnectionId, Disconnect(c) PROVE IdsAreFresh'
  <2>1. CASE DisconnectOutside(c)
    BY <2>1, CloseConnectionFresh
    DEF DisconnectOutside, LobbyInv, IdsAreFresh, Exists, counters, roomVars, matchVars
  <2>2. CASE DisconnectWaiting(c)
    <3>1. PlayerOf(c) \in members[RoomOf(c)] /\ RoomOf(c) \in RoomId
      BY <2>2, RoomOfMember DEF DisconnectWaiting
    <3> QED
      BY <2>2, <3>1, CloseConnectionFresh, RemoveMemberFresh
      DEF DisconnectWaiting, LobbyInv, IdsAreFresh, Exists, counters, matchVars
  <2>3. CASE DisconnectStarting(c)
    <3>1. PlayerOf(c) \in members[RoomOf(c)] /\ RoomOf(c) \in RoomId
      BY <2>3, RoomOfMember DEF DisconnectStarting
    <3>2. roomRes[RoomOf(c)] \in MatchId
      BY <2>3, <3>1 DEF DisconnectStarting, LobbyInv, TypeOK
    <3> QED
      BY <2>3, <3>1, <3>2, CloseConnectionFresh, RemoveMemberFresh,
         DropReservationFresh
      DEF DisconnectStarting, LobbyInv, IdsAreFresh, Exists, counters
  <2> QED  BY <1>9, <2>1, <2>2, <2>3 DEF Disconnect
<1>10. ASSUME NEW m \in MatchId, pending[m].room # None, FailPending(m)
       PROVE  IdsAreFresh'
  <2>1. \A r \in RoomId : roomState'[r] # "Absent" => roomState[r] # "Absent"
    BY <1>10, PendingRoom DEF FailPending, LobbyInv, TypeOK
  <2> QED
    BY <1>10, <2>1, DropReservationFresh
    DEF FailPending, LobbyInv, IdsAreFresh, Exists, counters, connVars
<1>11. ASSUME NEW m \in MatchId, NEW w \in Worker, ReservationReady(m, w)
       PROVE  IdsAreFresh'
  <2>1. pending[m].room # None /\ pending[m].room \in RoomId
    BY <1>11, PendingRoom DEF ReservationReady
  <2>2. \A r \in RoomId : roomState'[r] # "Absent" => roomState[r] # "Absent"
    BY <1>11, <2>1 DEF ReservationReady, LobbyInv, TypeOK
  <2>3. \A n \in MatchId : active'[n].room # None => active[n].room # None \/ n = m
    BY <1>11 DEF ReservationReady, LobbyInv, TypeOK
  <2> QED
    BY <1>11, <2>1, <2>2, <2>3, DropReservationFresh
    DEF ReservationReady, LobbyInv, IdsAreFresh, Exists, counters, connVars
<1>12. ASSUME NEW m \in MatchId, NEW w \in Worker, FinishMatch(m, w)
       PROVE  IdsAreFresh'
  <2>1. active[m].room \in RoomId  BY <1>12 DEF FinishMatch, LobbyInv, TypeOK, ActiveMatch
  <2>2. \A r \in RoomId : roomState'[r] # "Absent" => roomState[r] # "Absent"
    BY <1>12, <2>1 DEF FinishMatch, LobbyInv, TypeOK
  <2>3. \A p \in PlayerId : playerRoom'[p] # None => playerRoom[p] # None
    BY <1>12 DEF FinishMatch
  <2>4. \A n \in MatchId : active'[n].room # None => active[n].room # None
    BY <1>12 DEF FinishMatch, LobbyInv, TypeOK, NoMatch
  <2>5. \A r \in RoomId, p \in PlayerId : ordinal'[r][p] < nextOrdinal'
    <3>1. \A r \in RoomId, p \in PlayerId : ordinal'[r][p] \in {ordinal[r][p], 0}
      BY <1>12, <2>1 DEF FinishMatch, LobbyInv, TypeOK, None
    <3>2. 0 < nextOrdinal /\ nextOrdinal' = nextOrdinal
      BY <1>12 DEF FinishMatch, LobbyInv, TypeOK, counters
    <3> QED  BY <3>1, <3>2 DEF LobbyInv, IdsAreFresh
  <2> QED
    BY <1>12, <2>2, <2>3, <2>4, <2>5
    DEF FinishMatch, LobbyInv, IdsAreFresh, Exists, counters, connVars
<1>13. ASSUME NEW m \in MatchId, WorkerEvent(m) PROVE IdsAreFresh'
  BY <1>10, <1>11, <1>12, <1>13
  DEF WorkerEvent, ReservationFailed, ReservationTooLate
<1>14. CASE LastSecond \/ TicketsExpire
  BY <1>14
  DEF LastSecond, TicketsExpire, LobbyInv, IdsAreFresh, Exists, counters,
      connVars, roomVars, matchVars
<1> QED  BY <1>1, <1>2, <1>8, <1>9, <1>13, <1>14 DEF Next

-----------------------------------------------------------------------------

\* LobbyService's maps agree with each other at all times, whatever clients,
\* rooms, matches and game servers there are.
THEOREM LobbyInvHolds == Spec => []LobbyInv
<1>1. Init => LobbyInv  BY InitLobbyInv
<1>2. LobbyInv /\ [Next]_lobbyVars => LobbyInv'
  BY NextTypeOK, IdsStep, ConnectionsStep, MembershipStep, MatchesStep
  DEF LobbyInv, MatchesAgree
<1> QED  BY <1>1, <1>2, PTL DEF Spec

\* LobbyService's accounts of connections, rooms, reservations and matches agree
\* after every handler: a player has one connection and one room, a room is
\* Starting exactly while one reservation is pending for it, and InMatch exactly
\* while one match is active in it.
THEOREM LobbyAgreesHolds == Spec => []LobbyAgrees
<1>1. LobbyInv => LobbyAgrees  BY DEF LobbyInv, LobbyAgrees
<1> QED  BY <1>1, LobbyInvHolds, PTL

-----------------------------------------------------------------------------
(* Hosts.  A successor joined before the other members only if no two of   *)
(* them have one ordinal, which HostIsEldest does not say.                 *)

HostLeads(r) ==
    Exists(r) => /\ roomHost[r] \in members[r]
                 /\ \A p \in members[r] \ {roomHost[r]} :
                        ordinal[r][roomHost[r]] < ordinal[r][p]

OrdinalsDiffer(r) ==
    \A p, q \in members[r] : p # q => ordinal[r][p] # ordinal[r][q]

RoomInOrder(r) == HostLeads(r) /\ OrdinalsDiffer(r)

HostInv == \A r \in RoomId : RoomInOrder(r)

LEMMA HostInvSuffices == HostInv => HostIsEldest
BY DEF HostInv, RoomInOrder, HostLeads, HostIsEldest

LEMMA OrdinalType ==
    ASSUME TypeOK, NEW r \in RoomId, NEW p \in PlayerId
    PROVE  ordinal[r][p] \in Nat
<1>1. ordinal[r] \in [PlayerId -> Ordinal \cup {None}]  BY DEF TypeOK
<1> QED  BY <1>1 DEF Ordinal, None

\* A room that the step does not touch, or whose state alone it changes.
LEMMA SameRoomInOrder ==
    ASSUME NEW r, RoomInOrder(r), Exists(r)' => Exists(r),
           roomHost'[r] = roomHost[r], members'[r] = members[r],
           ordinal'[r] = ordinal[r]
    PROVE  RoomInOrder(r)'
<1>1. OrdinalsDiffer(r)'  BY DEF RoomInOrder, OrdinalsDiffer
<1>2. HostLeads(r)'  BY DEF RoomInOrder, HostLeads
<1> QED  BY <1>1, <1>2 DEF RoomInOrder

LEMMA CreateRoomInOrder ==
    ASSUME LobbyInv, HostInv, NEW c \in ConnectionId, CreateRoom(c)
    PROVE  HostInv'
<1> DEFINE p == PlayerOf(c)
<1>1. p \in PlayerId /\ nextRoom \in RoomId
  BY PlayerOfType DEF CreateRoom, LobbyInv
<1>2. /\ roomState' = [roomState EXCEPT ![nextRoom] = "Waiting"]
      /\ roomHost' = [roomHost EXCEPT ![nextRoom] = p]
      /\ members' = [members EXCEPT ![nextRoom] = {p}]
      /\ ordinal' = [ordinal EXCEPT ![nextRoom][p] = nextOrdinal]
  BY DEF CreateRoom
<1> HIDE DEF p
<1>3. ASSUME NEW r \in RoomId PROVE RoomInOrder(r)'
  <2>1. CASE r = nextRoom
    <3>1. roomHost'[r] = p /\ members'[r] = {p}
      BY <1>1, <1>2, <2>1 DEF LobbyInv, TypeOK
    <3> QED  BY <3>1 DEF RoomInOrder, HostLeads, OrdinalsDiffer
  <2>2. CASE r # nextRoom
    <3>1. /\ roomState'[r] = roomState[r] /\ roomHost'[r] = roomHost[r]
          /\ members'[r] = members[r] /\ ordinal'[r] = ordinal[r]
      BY <1>1, <1>2, <2>2 DEF LobbyInv, TypeOK
    <3> QED  BY <3>1, SameRoomInOrder DEF HostInv, Exists
  <2> QED  BY <2>1, <2>2
<1> QED  BY <1>3 DEF HostInv

LEMMA JoinRoomInOrder ==
    ASSUME LobbyInv, HostInv, NEW c \in ConnectionId, NEW r \in RoomId, JoinRoom(c, r)
    PROVE  HostInv'
<1> DEFINE p == PlayerOf(c)
<1>1. p \in PlayerId /\ playerRoom[p] = None
  BY PlayerOfType DEF JoinRoom, LobbyInv, RoomOf, PlayerOf
<1>2. /\ UNCHANGED <<roomState, roomHost>> /\ Exists(r)
      /\ members' = [members EXCEPT ![r] = @ \cup {p}]
      /\ ordinal' = [ordinal EXCEPT ![r][p] = nextOrdinal]
  BY DEF JoinRoom, Exists
<1> HIDE DEF p
<1>3. ASSUME NEW s \in RoomId PROVE RoomInOrder(s)'
  <2>1. CASE s = r
    <3>1. p \notin members[s]
      BY <1>1 DEF LobbyInv, MembershipAgrees, RoomId, None
    <3>2. /\ roomHost'[s] = roomHost[s] /\ members'[s] = members[s] \cup {p}
          /\ Exists(s)
      BY <1>2, <2>1 DEF LobbyInv, TypeOK
    <3>3. members[s] \subseteq PlayerId /\ roomHost[s] \in members[s]
      BY <3>2 DEF LobbyInv, TypeOK, HostInv, RoomInOrder, HostLeads
    <3>4. ordinal'[s][p] = nextOrdinal
      BY <1>1, <1>2, <2>1 DEF LobbyInv, TypeOK
    <3>5. \A q \in members[s] : /\ ordinal'[s][q] = ordinal[s][q]
                                /\ ordinal[s][q] < nextOrdinal
                                /\ ordinal[s][q] # nextOrdinal
      <4> TAKE q \in members[s]
      <4>1. q \in PlayerId /\ q # p  BY <3>1, <3>3
      <4>2. ordinal'[s][q] = ordinal[s][q]
        BY <1>1, <1>2, <2>1, <4>1 DEF LobbyInv, TypeOK
      <4>3. ordinal[s][q] < nextOrdinal  BY <4>1 DEF LobbyInv, IdsAreFresh
      <4>4. ordinal[s][q] \in Nat /\ nextOrdinal \in Nat
        BY <4>1, OrdinalType DEF LobbyInv, TypeOK
      <4> QED  BY <4>2, <4>3, <4>4
    <3>6. OrdinalsDiffer(s)'
      BY <3>2, <3>4, <3>5 DEF HostInv, RoomInOrder, OrdinalsDiffer
    <3>7. HostLeads(s)'
      BY <3>2, <3>3, <3>4, <3>5 DEF HostInv, RoomInOrder, HostLeads
    <3> QED  BY <3>6, <3>7 DEF RoomInOrder
  <2>2. CASE s # r
    <3>1. /\ roomState'[s] = roomState[s] /\ roomHost'[s] = roomHost[s]
          /\ members'[s] = members[s] /\ ordinal'[s] = ordinal[s]
      BY <1>1, <1>2, <2>2 DEF LobbyInv, TypeOK
    <3> QED  BY <3>1, SameRoomInOrder DEF HostInv, Exists
  <2> QED  BY <2>1, <2>2
<1> QED  BY <1>3 DEF HostInv

\* Room::Leave: whoever leaves, the eldest that remains is the host.
LEMMA RemoveMemberInOrder ==
    ASSUME LobbyInv, HostInv, NEW r \in RoomId, NEW p \in members[r],
           RemoveMember(r, p)
    PROVE  HostInv'
<1> DEFINE rest == members[r] \ {p}
<1>1. p \in PlayerId /\ rest \subseteq PlayerId /\ Exists(r)
  BY DEF LobbyInv, TypeOK, MembershipAgrees
<1>2. /\ roomState' = [roomState EXCEPT
                          ![r] = IF members[r] = {p} THEN "Absent" ELSE "Waiting"]
      /\ roomHost' = [roomHost EXCEPT ![r] = Successor(r, p)]
      /\ members' = [members EXCEPT ![r] = @ \ {p}]
      /\ ordinal' = [ordinal EXCEPT ![r][p] = None]
  BY DEF RemoveMember
<1>3. members'[r] = rest /\ roomHost'[r] = Successor(r, p)
  BY <1>2 DEF LobbyInv, TypeOK
<1>4. \A q \in rest : ordinal'[r][q] = ordinal[r][q]
  BY <1>1, <1>2 DEF LobbyInv, TypeOK
<1>5. rest = {} => ~ Exists(r)'
  BY <1>2 DEF LobbyInv, TypeOK, Exists
<1>6. OrdinalsDiffer(r)'
  BY <1>3, <1>4 DEF HostInv, RoomInOrder, OrdinalsDiffer
<1>7. HostLeads(r)'
  <2>1. CASE rest = {}  BY <1>5, <2>1 DEF HostLeads
  <2>2. CASE rest # {} /\ p # roomHost[r]
    <3>1. Successor(r, p) = roomHost[r]
      BY <1>1, <2>2, SuccessorIs DEF LobbyInv
    <3>2. /\ roomHost[r] \in rest
          /\ \A q \in rest \ {roomHost[r]} : ordinal[r][roomHost[r]] < ordinal[r][q]
      BY <1>1, <2>2 DEF HostInv, RoomInOrder, HostLeads
    <3> QED  BY <1>3, <1>4, <3>1, <3>2 DEF HostLeads
  <2>3. CASE rest # {} /\ p = roomHost[r]
    <3> DEFINE e == Eldest(r, rest)
    <3>1. Successor(r, p) = e
      BY <1>1, <2>3, SuccessorIs DEF LobbyInv
    <3> HIDE DEF rest
    <3>2. e \in rest /\ \A q \in rest : JoinedBefore(r, e, q)
      BY <1>1, <2>3, EldestJoinedFirst DEF LobbyInv
    <3> HIDE DEF e
    <3> USE DEF rest
    <3>3. \A q \in rest \ {e} : ordinal[r][e] < ordinal[r][q]
      <4> TAKE q \in rest \ {e}
      <4>1. ordinal[r][e] # ordinal[r][q]
        BY <3>2 DEF HostInv, RoomInOrder, OrdinalsDiffer
      <4> QED  BY <3>2, <4>1 DEF JoinedBefore
    <3> QED  BY <1>3, <1>4, <3>1, <3>2, <3>3 DEF HostLeads
  <2> QED  BY <2>1, <2>2, <2>3
<1> HIDE DEF rest
<1>8. ASSUME NEW s \in RoomId, s # r PROVE RoomInOrder(s)'
  <2>1. /\ roomState'[s] = roomState[s] /\ roomHost'[s] = roomHost[s]
        /\ members'[s] = members[s] /\ ordinal'[s] = ordinal[s]
    BY <1>1, <1>2, <1>8 DEF LobbyInv, TypeOK
  <2> QED  BY <2>1, SameRoomInOrder DEF HostInv, Exists
<1> QED  BY <1>6, <1>7, <1>8 DEF HostInv, RoomInOrder

LEMMA FinishMatchInOrder ==
    ASSUME LobbyInv, HostInv, NEW m \in MatchId, NEW w \in Worker, FinishMatch(m, w)
    PROVE  HostInv'
<1> DEFINE r == active[m].room
<1>1. r \in RoomId  BY DEF FinishMatch, LobbyInv, TypeOK, ActiveMatch
<1>2. /\ roomState' = [roomState EXCEPT ![r] = "Absent"]
      /\ roomHost' = [roomHost EXCEPT ![r] = None]
      /\ members' = [members EXCEPT ![r] = {}]
      /\ ordinal' = [ordinal EXCEPT ![r] = [p \in PlayerId |-> None]]
  BY DEF FinishMatch
<1> HIDE DEF r
<1>3. ASSUME NEW s \in RoomId PROVE RoomInOrder(s)'
  <2>1. CASE s = r
    <3>1. members'[s] = {} /\ ~ Exists(s)'
      BY <1>1, <1>2, <2>1 DEF LobbyInv, TypeOK, Exists
    <3> QED  BY <3>1 DEF RoomInOrder, HostLeads, OrdinalsDiffer
  <2>2. CASE s # r
    <3>1. /\ roomState'[s] = roomState[s] /\ roomHost'[s] = roomHost[s]
          /\ members'[s] = members[s] /\ ordinal'[s] = ordinal[s]
      BY <1>1, <1>2, <2>2 DEF LobbyInv, TypeOK
    <3> QED  BY <3>1, SameRoomInOrder DEF HostInv, Exists
  <2> QED  BY <2>1, <2>2
<1> QED  BY <1>3 DEF HostInv

\* Starts, failures and answers only move a room between its states.
LEMMA StateChangeInOrder ==
    ASSUME LobbyInv, HostInv, NEW r \in RoomId, Exists(r), NEW s,
           roomState' = [roomState EXCEPT ![r] = s],
           UNCHANGED <<roomHost, members, ordinal>>
    PROVE  HostInv'
<1>1. ASSUME NEW q \in RoomId PROVE RoomInOrder(q)'
  <2>1. Exists(q)' => Exists(q)  BY DEF LobbyInv, TypeOK, Exists
  <2> QED  BY <2>1, SameRoomInOrder DEF HostInv
<1> QED  BY <1>1 DEF HostInv

LEMMA HostStep ==
    ASSUME LobbyInv, HostInv, [Next]_lobbyVars
    PROVE  HostInv'
<1>1. CASE UNCHANGED <<roomState, roomHost, members, ordinal>>
  BY <1>1 DEF HostInv, RoomInOrder, HostLeads, OrdinalsDiffer, Exists
<1>2. ASSUME NEW c \in ConnectionId, Welcomed(c), RoomOf(c) # None,
             RemoveMember(RoomOf(c), PlayerOf(c))
      PROVE  HostInv'
  BY <1>2, RoomOfMember, RemoveMemberInOrder
<1>3. ASSUME NEW c \in ConnectionId, StartMatch(c) PROVE HostInv'
  <2>1. RoomOf(c) \in RoomId /\ Exists(RoomOf(c))
    BY <1>3, PlayerOfType DEF StartMatch, CanStart, LobbyInv, Exists
  <2> QED  BY <1>3, <2>1, StateChangeInOrder DEF StartMatch
<1>4. ASSUME NEW c \in ConnectionId, Request(c) PROVE HostInv'
  BY <1>1, <1>2, <1>3, <1>4, CreateRoomInOrder, JoinRoomInOrder
  DEF Request, Hello, LeaveRoom, SetReady, StartMatchRollback, roomVars
<1>5. ASSUME NEW c \in ConnectionId, Disconnect(c) PROVE HostInv'
  BY <1>1, <1>2, <1>5
  DEF Disconnect, DisconnectOutside, DisconnectWaiting, DisconnectStarting, roomVars
<1>6. ASSUME NEW m \in MatchId, pending[m].room # None, FailPending(m)
      PROVE  HostInv'
  <2>1. pending[m].room \in RoomId /\ roomState[pending[m].room] = "Starting"
    BY <1>6, PendingRoom
  <2>2. roomState' = [roomState EXCEPT ![pending[m].room] = "Waiting"]
    BY <1>6, <2>1 DEF FailPending, LobbyInv, TypeOK
  <2> QED  BY <1>6, <2>1, <2>2, StateChangeInOrder DEF FailPending, Exists
<1>7. ASSUME NEW m \in MatchId, NEW w \in Worker, ReservationReady(m, w)
      PROVE  HostInv'
  <2>1. pending[m].room \in RoomId  BY <1>7, PendingRoom DEF ReservationReady
  <2> QED  BY <1>7, <2>1, StateChangeInOrder DEF ReservationReady, Exists
<1>8. ASSUME NEW m \in MatchId, WorkerEvent(m) PROVE HostInv'
  BY <1>6, <1>7, <1>8, FinishMatchInOrder
  DEF WorkerEvent, ReservationFailed, ReservationTooLate
<1> QED
  BY <1>1, <1>4, <1>5, <1>8
  DEF Next, OpenConnection, LastSecond, TicketsExpire, lobbyVars, roomVars

-----------------------------------------------------------------------------
(* Who waits is connected. *)

AtDoor == {"Waiting", "Starting"}

\* A step that brings nobody into a room at the door and disconnects nobody.
LEMMA NobodyGoes ==
    ASSUME OnlyConnectedWait, TypeOK,
           \A r \in RoomId : roomState'[r] \in AtDoor =>
               roomState[r] \in AtDoor /\ members'[r] \subseteq members[r],
           \A p \in PlayerId : playerConn[p] # None => playerConn'[p] # None
    PROVE  OnlyConnectedWait'
<1>1. ASSUME NEW r \in RoomId, roomState'[r] \in AtDoor, NEW p \in members'[r]
      PROVE  playerConn'[p] # None
  <2>1. roomState[r] \in AtDoor /\ p \in members[r]  BY <1>1
  <2>2. p \in PlayerId  BY <2>1 DEF TypeOK
  <2> QED  BY <2>1, <2>2 DEF OnlyConnectedWait, AtDoor
<1> QED  BY <1>1 DEF OnlyConnectedWait, AtDoor

\* Somebody who is connected enters.
LEMMA EntersConnected ==
    ASSUME LobbyInv, OnlyConnectedWait, NEW c \in ConnectionId, Welcomed(c),
           NEW r \in RoomId, UNCHANGED playerConn,
           \A s \in RoomId : s # r =>
               roomState'[s] = roomState[s] /\ members'[s] = members[s],
           members'[r] \subseteq members[r] \cup {PlayerOf(c)},
           members[r] # {} => roomState[r] = "Waiting"
    PROVE  OnlyConnectedWait'
<1>1. PlayerOf(c) \in PlayerId  BY PlayerOfType DEF LobbyInv
<1>2. playerConn[PlayerOf(c)] # None
  BY <1>1 DEF LobbyInv, ConnectionsAgree, PlayerOf, ConnectionId, None
<1>3. ASSUME NEW s \in RoomId, roomState'[s] \in AtDoor, NEW p \in members'[s]
      PROVE  playerConn'[p] # None
  <2>1. CASE s = r /\ p = PlayerOf(c)  BY <1>2, <2>1
  <2>2. CASE s = r /\ p # PlayerOf(c)
    <3>1. p \in members[r] /\ roomState[r] = "Waiting"  BY <1>3, <2>2
    <3> QED  BY <3>1 DEF OnlyConnectedWait
  <2>3. CASE s # r
    <3>1. p \in members[s] /\ roomState[s] \in AtDoor  BY <1>3, <2>3
    <3> QED  BY <3>1 DEF OnlyConnectedWait, AtDoor
  <2> QED  BY <2>1, <2>2, <2>3
<1> QED  BY <1>3 DEF OnlyConnectedWait, AtDoor

\* Somebody goes: the connection's player is at no door afterwards.
LEMMA GoesElsewhere ==
    ASSUME LobbyInv, OnlyConnectedWait, NEW c \in ConnectionId, CloseConnection(c),
           \A r \in RoomId : roomState'[r] \in AtDoor =>
               roomState[r] \in AtDoor /\ members'[r] \subseteq members[r] \ {connPlayer[c]}
    PROVE  OnlyConnectedWait'
<1>1. ASSUME NEW r \in RoomId, roomState'[r] \in AtDoor, NEW p \in members'[r]
      PROVE  playerConn'[p] # None
  <2>1. roomState[r] \in AtDoor /\ p \in members[r] /\ p # connPlayer[c]
    BY <1>1
  <2>2. p \in PlayerId /\ playerConn[p] # None
    BY <2>1 DEF LobbyInv, TypeOK, OnlyConnectedWait, AtDoor
  <2> QED  BY <2>1, <2>2 DEF CloseConnection
<1> QED  BY <1>1 DEF OnlyConnectedWait, AtDoor

LEMMA LeavesRoom ==
    ASSUME LobbyInv, NEW r \in RoomId, roomState[r] \in AtDoor,
           NEW p \in members[r], RemoveMember(r, p)
    PROVE  \A s \in RoomId : roomState'[s] \in AtDoor =>
               roomState[s] \in AtDoor /\ members'[s] \subseteq members[s] \ {p}
<1>1. p \in PlayerId /\ playerRoom[p] = r
  BY DEF LobbyInv, TypeOK, MembershipAgrees
<1>2. /\ roomState' = [roomState EXCEPT
                          ![r] = IF members[r] = {p} THEN "Absent" ELSE "Waiting"]
      /\ members' = [members EXCEPT ![r] = @ \ {p}]
  BY DEF RemoveMember
<1> TAKE s \in RoomId
<1>3. CASE s = r  BY <1>2, <1>3 DEF LobbyInv, TypeOK
<1>4. CASE s # r
  <2>1. roomState'[s] = roomState[s] /\ members'[s] = members[s]
    BY <1>2, <1>4 DEF LobbyInv, TypeOK
  <2>2. p \notin members[s]  BY <1>1, <1>4 DEF LobbyInv, MembershipAgrees
  <2> QED  BY <2>1, <2>2
<1> QED  BY <1>3, <1>4

\* A connection closes and no room changes: its player, if it has one and is in
\* a room, is in a match.
LEMMA OutsideWait ==
    ASSUME LobbyInv, OnlyConnectedWait, NEW c \in ConnectionId, DisconnectOutside(c)
    PROVE  OnlyConnectedWait'
<1>1. CloseConnection(c) /\ UNCHANGED roomVars  BY DEF DisconnectOutside
<1>2. ASSUME NEW r \in RoomId, roomState[r] \in AtDoor
      PROVE  connPlayer[c] \notin members[r]
  <2>1. r # None  BY DEF RoomId, None
  <2>2. CASE connPlayer[c] = None
    BY <2>2 DEF LobbyInv, TypeOK, PlayerId, None
  <2>3. CASE Welcomed(c) /\ RoomOf(c) = None
    <3>1. PlayerOf(c) \in PlayerId  BY <2>3, PlayerOfType DEF LobbyInv
    <3> QED  BY <2>1, <2>3, <3>1 DEF LobbyInv, MembershipAgrees, RoomOf, PlayerOf
  <2>4. CASE Welcomed(c) /\ RoomOf(c) # None /\ StaysMember(RoomOf(c))
    <3>1. /\ PlayerOf(c) \in PlayerId /\ RoomOf(c) \in RoomId
          /\ playerRoom[PlayerOf(c)] = RoomOf(c)
      BY <2>4, RoomOfMember
    <3>2. roomState[RoomOf(c)] = "InMatch"
      BY <2>4, <3>1 DEF StaysMember, LobbyInv, StartingIffPending
    <3>3. RoomOf(c) # r  BY <1>2, <3>2 DEF AtDoor
    <3> QED  BY <3>1, <3>3 DEF LobbyInv, MembershipAgrees, PlayerOf
  <2> QED  BY <2>2, <2>3, <2>4 DEF DisconnectOutside
<1> QED  BY <1>1, <1>2, GoesElsewhere DEF roomVars

LEMMA WaitStep ==
    ASSUME LobbyInv, OnlyConnectedWait, [Next]_lobbyVars
    PROVE  OnlyConnectedWait'
<1> USE DEF LobbyInv
<1>1. CASE UNCHANGED <<roomState, members, playerConn>>
  BY <1>1 DEF OnlyConnectedWait
<1>2. ASSUME NEW c \in ConnectionId, Hello(c) PROVE OnlyConnectedWait'
  <2>1. \A p \in PlayerId : playerConn[p] # None => playerConn'[p] # None
    BY <1>2 DEF Hello, TypeOK, ConnectionId, None
  <2> QED  BY <1>2, <2>1, NobodyGoes DEF Hello, roomVars
<1>3. ASSUME NEW c \in ConnectionId, CreateRoom(c) PROVE OnlyConnectedWait'
  <2>1. nextRoom \in RoomId /\ members[nextRoom] = {}
    BY <1>3 DEF CreateRoom, IdsAreFresh, MembershipAgrees, RoomId
  <2>2. /\ members'[nextRoom] = {PlayerOf(c)}
        /\ \A s \in RoomId : s # nextRoom =>
               roomState'[s] = roomState[s] /\ members'[s] = members[s]
    BY <1>3, <2>1 DEF CreateRoom, TypeOK
  <2> QED  BY <1>3, <2>1, <2>2, EntersConnected DEF CreateRoom, connVars
<1>4. ASSUME NEW c \in ConnectionId, NEW r \in RoomId, JoinRoom(c, r)
      PROVE  OnlyConnectedWait'
  <2>1. /\ members'[r] = members[r] \cup {PlayerOf(c)}
        /\ \A s \in RoomId : s # r =>
               roomState'[s] = roomState[s] /\ members'[s] = members[s]
    BY <1>4 DEF JoinRoom, TypeOK
  <2> QED  BY <1>4, <2>1, EntersConnected DEF JoinRoom, connVars
<1>5. ASSUME NEW c \in ConnectionId, LeaveRoom(c) PROVE OnlyConnectedWait'
  <2>1. \A s \in RoomId : roomState'[s] \in AtDoor =>
            roomState[s] \in AtDoor /\ members'[s] \subseteq members[s]
    BY <1>5, RoomOfMember, LeavesRoom DEF LeaveRoom, MayChange, AtDoor
  <2> QED  BY <1>5, <2>1, NobodyGoes DEF LeaveRoom, connVars
<1>6. ASSUME NEW c \in ConnectionId, StartMatch(c) PROVE OnlyConnectedWait'
  <2>1. RoomOf(c) \in RoomId /\ roomState[RoomOf(c)] = "Waiting"
    BY <1>6, PlayerOfType DEF StartMatch, CanStart
  <2>2. \A s \in RoomId : roomState'[s] \in AtDoor => roomState[s] \in AtDoor
    BY <1>6, <2>1 DEF StartMatch, TypeOK, AtDoor
  <2> QED  BY <1>6, <2>2, NobodyGoes DEF StartMatch, connVars
<1>7. ASSUME NEW c \in ConnectionId, Request(c) PROVE OnlyConnectedWait'
  BY <1>1, <1>2, <1>3, <1>4, <1>5, <1>6, <1>7
  DEF Request, SetReady, StartMatchRollback, roomVars, connVars
<1>8. ASSUME NEW c \in ConnectionId, Welcomed(c), RoomOf(c) # None,
             roomState[RoomOf(c)] \in AtDoor, CloseConnection(c),
             RemoveMember(RoomOf(c), PlayerOf(c))
      PROVE  OnlyConnectedWait'
  BY <1>8, RoomOfMember, LeavesRoom, GoesElsewhere DEF PlayerOf
<1>9. ASSUME NEW c \in ConnectionId, Disconnect(c) PROVE OnlyConnectedWait'
  BY <1>8, <1>9, OutsideWait
  DEF Disconnect, DisconnectWaiting, DisconnectStarting, AtDoor
<1>10. ASSUME NEW m \in MatchId, pending[m].room # None, FailPending(m)
       PROVE  OnlyConnectedWait'
  <2>1. pending[m].room \in RoomId /\ roomState[pending[m].room] = "Starting"
    BY <1>10, PendingRoom
  <2>2. \A s \in RoomId : roomState'[s] \in AtDoor => roomState[s] \in AtDoor
    BY <1>10, <2>1 DEF FailPending, TypeOK, AtDoor
  <2> QED  BY <1>10, <2>2, NobodyGoes DEF FailPending, connVars
<1>11. ASSUME NEW m \in MatchId, NEW w \in Worker, ReservationReady(m, w)
       PROVE  OnlyConnectedWait'
  <2>1. pending[m].room \in RoomId  BY <1>11, PendingRoom DEF ReservationReady
  <2>2. \A s \in RoomId : roomState'[s] \in AtDoor => roomState[s] \in AtDoor
    BY <1>11, <2>1 DEF ReservationReady, TypeOK, AtDoor
  <2> QED  BY <1>11, <2>2, NobodyGoes DEF ReservationReady, connVars
<1>12. ASSUME NEW m \in MatchId, NEW w \in Worker, FinishMatch(m, w)
       PROVE  OnlyConnectedWait'
  <2>1. active[m].room \in RoomId  BY <1>12 DEF FinishMatch, TypeOK, ActiveMatch
  <2>2. \A s \in RoomId : roomState'[s] \in AtDoor =>
            roomState[s] \in AtDoor /\ members'[s] \subseteq members[s]
    BY <1>12, <2>1 DEF FinishMatch, TypeOK, AtDoor
  <2> QED  BY <1>12, <2>2, NobodyGoes DEF FinishMatch, connVars
<1>13. ASSUME NEW m \in MatchId, WorkerEvent(m) PROVE OnlyConnectedWait'
  BY <1>10, <1>11, <1>12, <1>13
  DEF WorkerEvent, ReservationFailed, ReservationTooLate
<1>14. CASE OpenConnection \/ LastSecond \/ TicketsExpire \/ UNCHANGED lobbyVars
  BY <1>1, <1>14
  DEF OpenConnection, LastSecond, TicketsExpire, lobbyVars, roomVars, connVars
<1> QED  BY <1>7, <1>9, <1>13, <1>14 DEF Next

\* Every room is led by the member that joined first, and every member of a room
\* that waits or starts is connected, through every order of joins, departures,
\* disconnects and starts (Room::Leave, LobbyService's disconnect handlers).
THEOREM RoomsAlwaysAttended == Spec => []RoomsAreAttended
<1>1. Init => HostInv /\ OnlyConnectedWait
  BY DEF Init, HostInv, RoomInOrder, HostLeads, OrdinalsDiffer, Exists,
         OnlyConnectedWait
<1>2. LobbyInv /\ HostInv /\ OnlyConnectedWait /\ [Next]_lobbyVars
          => (HostInv /\ OnlyConnectedWait)'
  BY HostStep, WaitStep
<1>3. HostInv /\ OnlyConnectedWait => RoomsAreAttended
  BY HostInvSuffices DEF RoomsAreAttended
<1> QED  BY <1>1, <1>2, <1>3, LobbyInvHolds, PTL DEF Spec

-----------------------------------------------------------------------------
(* Tickets. *)

\* An absent reservation or match has no players; without it a late ticket of a
\* match that is over would count as somebody's.
NobodyInNoMatch ==
    \A m \in MatchId : /\ pending[m].room = None => pending[m].players = {}
                       /\ active[m].room = None => active[m].players = {}

TicketInv == TicketsBelongToMatches /\ NobodyInNoMatch

\* Nothing changes but, perhaps, that tickets of expired matches are purged.
LEMMA PurgeKeepsTickets ==
    ASSUME TicketInv, TypeOK, UNCHANGED <<pending, active>>,
           tickets' \in {tickets, UnexpiredTickets}, expired' \in Nat, expired <= expired'
    PROVE  TicketInv'
<1>1. NobodyInNoMatch'  BY DEF TicketInv, NobodyInNoMatch
<1>2. ASSUME NEW m \in MatchId, NEW p \in PlayerId
      PROVE  /\ <<m, p>> \in tickets' => p \in MatchPlayers(m)'
             /\ p \in MatchPlayers(m)' /\ m > expired' => <<m, p>> \in tickets'
  <2>1. MatchPlayers(m)' = MatchPlayers(m)  BY DEF MatchPlayers
  <2>2. m \in Nat /\ expired \in Nat  BY DEF MatchId, TypeOK
  <2>3. m > expired' => m > expired  BY <2>2
  <2>4. <<m, p>> \in tickets' => <<m, p>> \in tickets  BY DEF UnexpiredTickets
  <2>5. m > expired /\ <<m, p>> \in tickets => <<m, p>> \in tickets'
    BY DEF UnexpiredTickets
  <2> QED
    BY <2>1, <2>3, <2>4, <2>5 DEF TicketInv, TicketsBelongToMatches
<1> QED  BY <1>1, <1>2 DEF TicketInv, TicketsBelongToMatches

\* A match gets players and every one of them a ticket, or loses its players and
\* they their tickets.
LEMMA ChangeKeepsTickets ==
    ASSUME TicketInv, TypeOK, NEW m \in MatchId, NEW before, NEW after,
           before \subseteq tickets, NEW S,
           \A n \in MatchId, p \in PlayerId :
               n > expired /\ <<n, p>> \in tickets => <<n, p>> \in before,
           \A n \in MatchId, p \in PlayerId : n # m =>
               (<<n, p>> \in tickets' <=> <<n, p>> \in before),
           \A p \in PlayerId : <<m, p>> \in tickets' <=> p \in S,
           \A n \in MatchId : n # m => MatchPlayers(n)' = MatchPlayers(n),
           MatchPlayers(m)' = S, NobodyInNoMatch', UNCHANGED expired
    PROVE  TicketInv'
<1>1. ASSUME NEW n \in MatchId, NEW p \in PlayerId
      PROVE  /\ <<n, p>> \in tickets' => p \in MatchPlayers(n)'
             /\ p \in MatchPlayers(n)' /\ n > expired' => <<n, p>> \in tickets'
  <2>1. CASE n = m  BY <2>1
  <2>2. CASE n # m
    BY <2>2 DEF TicketInv, TicketsBelongToMatches
  <2> QED  BY <2>1, <2>2
<1> QED  BY <1>1 DEF TicketInv, TicketsBelongToMatches

LEMMA PlayersOfPending ==
    ASSUME LobbyInv, TicketInv, NEW m \in MatchId, pending[m].room # None
    PROVE  MatchPlayers(m) = pending[m].players /\ active[m].players = {}
<1>1. active[m].room = None  BY DEF LobbyInv, InMatchIffActive
<1> QED  BY <1>1 DEF TicketInv, NobodyInNoMatch, MatchPlayers

LEMMA PlayersOfActive ==
    ASSUME LobbyInv, TicketInv, NEW m \in MatchId, active[m].room # None
    PROVE  MatchPlayers(m) = active[m].players /\ pending[m].players = {}
<1>1. pending[m].room = None  BY DEF LobbyInv, InMatchIffActive
<1> QED  BY <1>1 DEF TicketInv, NobodyInNoMatch, MatchPlayers

\* Revoke takes every ticket of m, and none of another match.
LEMMA RevokeTakesAll ==
    ASSUME TicketInv, NEW m \in MatchId, Revoke(m, MatchPlayers(m))
    PROVE  /\ \A n \in MatchId, p \in PlayerId : n # m =>
                  (<<n, p>> \in tickets' <=> <<n, p>> \in tickets)
           /\ \A p \in PlayerId : <<m, p>> \notin tickets'
<1>1. \A p \in PlayerId : <<m, p>> \in tickets => p \in MatchPlayers(m)
  BY DEF TicketInv, TicketsBelongToMatches
<1> QED  BY <1>1 DEF Revoke, TicketsFor

LEMMA StartMatchTickets ==
    ASSUME LobbyInv, TicketInv, NEW c \in ConnectionId, StartMatch(c)
    PROVE  TicketInv'
<1>0. PICK m \in MatchId : m = nextMatch  BY DEF StartMatch, CanStart
<1> DEFINE r == RoomOf(c)
           S == members[r]
<1>1. r \in RoomId /\ r # None
  BY PlayerOfType DEF StartMatch, CanStart, LobbyInv
<1>2. pending[m].room = None /\ active[m].room = None
  BY <1>0, <1>1 DEF LobbyInv, IdsAreFresh, MatchId
<1>3. /\ pending' = [pending EXCEPT ![m] = [room |-> r, requester |-> PlayerOf(c),
                                           players |-> S]]
      /\ tickets' = UnexpiredTickets \cup TicketsFor(m, S)
      /\ UNCHANGED <<active, expired>>
  BY <1>0 DEF StartMatch, timeVars
<1>4. S \subseteq PlayerId  BY <1>1 DEF LobbyInv, TypeOK
<1> HIDE DEF r, S
<1>5. pending[m].players = {} /\ active[m].players = {}
  BY <1>1, <1>2 DEF TicketInv, NobodyInNoMatch
<1>6. \A p \in PlayerId : <<m, p>> \notin tickets
  BY <1>1, <1>5 DEF TicketInv, TicketsBelongToMatches, MatchPlayers
<1>7. pending'[m].room = r /\ pending'[m].players = S
  BY <1>1, <1>3 DEF LobbyInv, TypeOK
<1>8. \A n \in MatchId : n # m => pending'[n] = pending[n]
  BY <1>3 DEF LobbyInv, TypeOK
<1>9. NobodyInNoMatch'
  BY <1>1, <1>3, <1>7, <1>8 DEF TicketInv, NobodyInNoMatch
<1>10. MatchPlayers(m)' = S
  BY <1>3, <1>5, <1>7 DEF MatchPlayers
<1>11. \A n \in MatchId : n # m => MatchPlayers(n)' = MatchPlayers(n)
  BY <1>3, <1>8 DEF MatchPlayers
<1>12. \A p \in PlayerId : <<m, p>> \in tickets' <=> p \in S
  BY <1>3, <1>6 DEF UnexpiredTickets, TicketsFor
<1>13. \A n \in MatchId, p \in PlayerId : n # m =>
           (<<n, p>> \in tickets' <=> <<n, p>> \in UnexpiredTickets)
  BY <1>3 DEF TicketsFor
<1>14. \A n \in MatchId, p \in PlayerId :
           n > expired /\ <<n, p>> \in tickets => <<n, p>> \in UnexpiredTickets
  BY DEF UnexpiredTickets
<1>15. UnexpiredTickets \subseteq tickets  BY DEF UnexpiredTickets
<1> QED
  BY <1>1, <1>3, <1>9, <1>10, <1>11, <1>12, <1>13, <1>14, <1>15,
     ChangeKeepsTickets DEF LobbyInv

\* Every way out of a reservation revokes its players' tickets.
LEMMA DropTickets ==
    ASSUME LobbyInv, TicketInv, NEW m \in MatchId, pending[m].room # None,
           DropReservation(m), Revoke(m, pending[m].players),
           UNCHANGED <<active, expired>>
    PROVE  TicketInv'
<1>1. MatchPlayers(m) = pending[m].players /\ active[m].players = {}
  BY PlayersOfPending
<1>2. /\ \A n \in MatchId, p \in PlayerId : n # m =>
             (<<n, p>> \in tickets' <=> <<n, p>> \in tickets)
      /\ \A p \in PlayerId : <<m, p>> \notin tickets'
  BY <1>1, RevokeTakesAll
<1>3. /\ pending'[m] = NoReservation
      /\ \A n \in MatchId : n # m => pending'[n] = pending[n]
  BY DEF DropReservation, LobbyInv, TypeOK
<1>4. NobodyInNoMatch'
  BY <1>3 DEF TicketInv, NobodyInNoMatch, NoReservation
<1>5. MatchPlayers(m)' = {}  BY <1>1, <1>3 DEF MatchPlayers, NoReservation
<1>6. \A n \in MatchId : n # m => MatchPlayers(n)' = MatchPlayers(n)
  BY <1>3 DEF MatchPlayers
<1> QED  BY <1>2, <1>4, <1>5, <1>6, ChangeKeepsTickets DEF LobbyInv

LEMMA FinishMatchTickets ==
    ASSUME LobbyInv, TicketInv, NEW m \in MatchId, NEW w \in Worker, FinishMatch(m, w)
    PROVE  TicketInv'
<1>1. MatchPlayers(m) = active[m].players /\ pending[m].players = {}
  BY PlayersOfActive DEF FinishMatch
<1>2. /\ \A n \in MatchId, p \in PlayerId : n # m =>
             (<<n, p>> \in tickets' <=> <<n, p>> \in tickets)
      /\ \A p \in PlayerId : <<m, p>> \notin tickets'
  <2>1. Revoke(m, active[m].players)  BY DEF FinishMatch
  <2> QED  BY <1>1, <2>1, RevokeTakesAll
<1>3. /\ active'[m] = NoMatch
      /\ \A n \in MatchId : n # m => active'[n] = active[n]
      /\ UNCHANGED <<pending, expired>>
  BY DEF FinishMatch, LobbyInv, TypeOK, timeVars
<1>4. NobodyInNoMatch'
  BY <1>3 DEF TicketInv, NobodyInNoMatch, NoMatch
<1>5. MatchPlayers(m)' = {}  BY <1>1, <1>3 DEF MatchPlayers, NoMatch
<1>6. \A n \in MatchId : n # m => MatchPlayers(n)' = MatchPlayers(n)
  BY <1>3 DEF MatchPlayers
<1> QED  BY <1>2, <1>3, <1>4, <1>5, <1>6, ChangeKeepsTickets DEF LobbyInv

\* The players of a reservation become those of the match: no ticket moves.
LEMMA ReadyTickets ==
    ASSUME LobbyInv, TicketInv, NEW m \in MatchId, NEW w \in Worker,
           ReservationReady(m, w)
    PROVE  TicketInv'
<1>1. pending[m].room # None  BY DEF ReservationReady
<1>2. MatchPlayers(m) = pending[m].players  BY <1>1, PlayersOfPending
<1>3. /\ pending'[m] = NoReservation
      /\ \A n \in MatchId : n # m => pending'[n] = pending[n]
  BY DEF ReservationReady, DropReservation, LobbyInv, TypeOK
<1>4. /\ active'[m].room = pending[m].room
      /\ active'[m].players = pending[m].players
      /\ \A n \in MatchId : n # m => active'[n] = active[n]
  BY DEF ReservationReady, LobbyInv, TypeOK
<1>5. UNCHANGED <<tickets, expired>>  BY DEF ReservationReady, timeVars
<1>6. NobodyInNoMatch'
  BY <1>1, <1>3, <1>4 DEF TicketInv, NobodyInNoMatch, NoReservation
<1>7. \A n \in MatchId : MatchPlayers(n)' = MatchPlayers(n)
  BY <1>2, <1>3, <1>4 DEF MatchPlayers, NoReservation
<1> QED  BY <1>5, <1>6, <1>7 DEF TicketInv, TicketsBelongToMatches

LEMMA TicketStep ==
    ASSUME LobbyInv, TicketInv, [Next]_lobbyVars
    PROVE  TicketInv'
<1>1. expired \in Nat  BY DEF LobbyInv, TypeOK
<1>2. CASE UNCHANGED <<pending, active, expired>> /\ tickets' \in {tickets, UnexpiredTickets}
  BY <1>1, <1>2, PurgeKeepsTickets DEF LobbyInv
<1>3. CASE TicketsExpire
  BY <1>1, <1>3, PurgeKeepsTickets DEF TicketsExpire, LobbyInv, matchVars
<1>4. ASSUME NEW c \in ConnectionId, Request(c) PROVE TicketInv'
  BY <1>2, <1>4, StartMatchTickets
  DEF Request, Hello, CreateRoom, JoinRoom, LeaveRoom, SetReady,
      StartMatchRollback, matchVars, timeVars
<1>5. ASSUME NEW c \in ConnectionId, DisconnectStarting(c) PROVE TicketInv'
  <2> DEFINE m == roomRes[RoomOf(c)]
  <2>1. RoomOf(c) \in RoomId  BY <1>5, RoomOfMember DEF DisconnectStarting
  <2>2. m \in MatchId /\ pending[m].room = RoomOf(c) /\ RoomOf(c) # None
    BY <1>5, <2>1 DEF DisconnectStarting, LobbyInv, TypeOK, StartingIffPending
  <2>3. /\ DropReservation(m) /\ Revoke(m, pending[m].players)
        /\ UNCHANGED <<active, expired>>
    BY <1>5 DEF DisconnectStarting, timeVars
  <2> HIDE DEF m
  <2> QED  BY <2>2, <2>3, DropTickets
<1>6. ASSUME NEW c \in ConnectionId, Disconnect(c) PROVE TicketInv'
  BY <1>2, <1>5, <1>6
  DEF Disconnect, DisconnectOutside, DisconnectWaiting, matchVars, timeVars
<1>7. ASSUME NEW m \in MatchId, WorkerEvent(m) PROVE TicketInv'
  <2>1. ASSUME pending[m].room # None, FailPending(m) PROVE TicketInv'
    BY <2>1, DropTickets DEF FailPending, timeVars
  <2> QED
    BY <1>7, <2>1, ReadyTickets, FinishMatchTickets
    DEF WorkerEvent, ReservationFailed, ReservationTooLate
<1> QED
  BY <1>2, <1>3, <1>4, <1>6, <1>7
  DEF Next, OpenConnection, LastSecond, lobbyVars, matchVars, timeVars

\* MatchTicketRegistry holds a ticket exactly for the players of the matches that
\* are pending or active, until it expires: every way out of a match revokes them.
THEOREM TicketsAlwaysBelong == Spec => []TicketsBelongToMatches
<1>1. Init => TicketInv
  BY DEF Init, TicketInv, TicketsBelongToMatches, NobodyInNoMatch, MatchPlayers,
         NoReservation, NoMatch
<1>2. LobbyInv /\ TicketInv /\ [Next]_lobbyVars => TicketInv'
  BY TicketStep
<1>3. TicketInv => TicketsBelongToMatches  BY DEF TicketInv
<1> QED  BY <1>1, <1>2, <1>3, LobbyInvHolds, PTL DEF Spec

-----------------------------------------------------------------------------
(* Rosters. *)

SameRoster(r) ==
    /\ members'[r] = members[r]
    /\ ready'[r] = ready[r]
    /\ roomHost'[r] = roomHost[r]

LEMMA RosterStep ==
    ASSUME LobbyInv, [Next]_lobbyVars, NEW r \in RoomId,
           roomState[r] \in {"Starting", "InMatch"}, roomState'[r] = roomState[r]
    PROVE  SameRoster(r)
<1>1. CASE UNCHANGED <<members, ready, roomHost>>  BY <1>1 DEF SameRoster
<1>2. ASSUME NEW c \in ConnectionId, Welcomed(c), RoomOf(c) # None,
             RemoveMember(RoomOf(c), PlayerOf(c))
      PROVE  SameRoster(r)
  <2>1. RoomOf(c) \in RoomId  BY <1>2, PlayerOfType DEF LobbyInv
  <2>2. CASE RoomOf(c) = r /\ roomState[r] = "Starting"
    <3>1. roomState'[r] \in {"Absent", "Waiting"}
      BY <1>2, <2>2 DEF RemoveMember, LobbyInv, TypeOK, SameRoster
    <3> QED  BY <2>2, <3>1
  <2>3. CASE RoomOf(c) = r /\ roomState[r] = "InMatch"
    <3>1. roomState'[r] \in {"Absent", "Waiting"}
      BY <1>2, <2>3 DEF RemoveMember, LobbyInv, TypeOK, SameRoster
    <3> QED  BY <2>3, <3>1
  <2>4. CASE RoomOf(c) # r
    BY <1>2, <2>1, <2>4 DEF RemoveMember, LobbyInv, TypeOK, SameRoster
  <2> QED  BY <2>2, <2>3, <2>4
<1>3. ASSUME NEW c \in ConnectionId, CreateRoom(c) PROVE SameRoster(r)
  <2>1. nextRoom \in RoomId /\ roomState[nextRoom] = "Absent"
    BY <1>3 DEF CreateRoom, LobbyInv, IdsAreFresh, Exists, RoomId
  <2>2. r # nextRoom  BY <2>1
  <2> QED  BY <1>3, <2>1, <2>2 DEF CreateRoom, LobbyInv, TypeOK, SameRoster
<1>4. ASSUME NEW c \in ConnectionId, NEW s \in RoomId, JoinRoom(c, s) PROVE SameRoster(r)
  <2>1. r # s  BY <1>4 DEF JoinRoom
  <2> QED  BY <1>4, <2>1 DEF JoinRoom, LobbyInv, TypeOK, SameRoster
<1>5. ASSUME NEW c \in ConnectionId, NEW flag \in BOOLEAN, SetReady(c, flag)
      PROVE  SameRoster(r)
  <2>1. RoomOf(c) \in RoomId  BY <1>5, PlayerOfType DEF SetReady, LobbyInv
  <2>2. r # RoomOf(c)  BY <1>5 DEF SetReady, MayChange
  <2> QED  BY <1>5, <2>1, <2>2 DEF SetReady, LobbyInv, TypeOK, SameRoster
<1>6. ASSUME NEW m \in MatchId, NEW w \in Worker, FinishMatch(m, w) PROVE SameRoster(r)
  <2>1. active[m].room \in RoomId
    BY <1>6 DEF FinishMatch, LobbyInv, TypeOK, ActiveMatch
  <2>2. r # active[m].room
    <3>1. roomState'[active[m].room] = "Absent"
      BY <1>6, <2>1 DEF FinishMatch, LobbyInv, TypeOK, SameRoster
    <3> QED  BY <3>1
  <2> QED  BY <1>6, <2>1, <2>2 DEF FinishMatch, LobbyInv, TypeOK, SameRoster
<1>7. ASSUME NEW c \in ConnectionId, Request(c) PROVE SameRoster(r)
  BY <1>1, <1>2, <1>3, <1>4, <1>5, <1>7
  DEF Request, Hello, LeaveRoom, StartMatch, StartMatchRollback, roomVars
<1>8. ASSUME NEW c \in ConnectionId, Disconnect(c) PROVE SameRoster(r)
  BY <1>1, <1>2, <1>8
  DEF Disconnect, DisconnectOutside, DisconnectWaiting, DisconnectStarting, roomVars
<1>9. ASSUME NEW m \in MatchId, WorkerEvent(m) PROVE SameRoster(r)
  BY <1>1, <1>6, <1>9
  DEF WorkerEvent, ReservationFailed, ReservationTooLate, FailPending, ReservationReady
<1> QED
  BY <1>1, <1>7, <1>8, <1>9
  DEF Next, OpenConnection, LastSecond, TicketsExpire, lobbyVars, roomVars

\* While a room stays Starting, or stays InMatch, nobody enters or leaves it and
\* neither its host nor a ready flag moves: Room::Join, Leave and SetReady refuse.
THEOREM RostersStayFrozen == Spec => RosterFrozen
<1>1. LobbyInv /\ [Next]_lobbyVars =>
          [\A r \in RoomId :
              roomState[r] \in {"Starting", "InMatch"} /\ roomState'[r] = roomState[r]
              => /\ members'[r] = members[r]
                 /\ ready'[r] = ready[r]
                 /\ roomHost'[r] = roomHost[r]]_lobbyVars
  BY RosterStep DEF SameRoster
<1> QED  BY <1>1, LobbyInvHolds, PTL DEF Spec, RosterFrozen

-----------------------------------------------------------------------------
(* What the clients were told. *)

\* A client is told of the room it is in, or that it is in none.
Placed(c, r) == connPlayer[c] # None /\ RoomOf(c) = r /\ seen[c] = Snapshot(r)
Outside(c) == (connPlayer[c] = None \/ RoomOf(c) = None) /\ seen[c] = NoRoomView

ClientsTold == \A c \in ConnectionId : Outside(c) \/ \E r \in RoomId : Placed(c, r)

LEMMA ClientsToldSuffices == ClientsTold => ClientsSeeTheirRoom
<1> SUFFICES ASSUME ClientsTold, NEW c \in ConnectionId
             PROVE  seen[c] = IF connPlayer[c] # None /\ RoomOf(c) # None
                              THEN Snapshot(RoomOf(c)) ELSE NoRoomView
  BY DEF ClientsSeeTheirRoom
<1>1. CASE Outside(c)  BY <1>1 DEF Outside
<1>2. ASSUME NEW r \in RoomId, Placed(c, r)
      PROVE  seen[c] = IF connPlayer[c] # None /\ RoomOf(c) # None
                       THEN Snapshot(RoomOf(c)) ELSE NoRoomView
  <2>1. r # None  BY DEF RoomId, None
  <2> QED  BY <1>2, <2>1 DEF Placed
<1> QED  BY <1>1, <1>2 DEF ClientsTold

\* The one active match of a room in a match.
LEMMA TicketShownIs ==
    ASSUME InMatchIffActive, NEW m \in MatchId, active[m].room \in RoomId
    PROVE  TicketShown(active[m].room) = m
<1> DEFINE r == active[m].room
<1>1. roomState[r] = "InMatch"  BY DEF InMatchIffActive
<1>2. r # None  BY DEF RoomId, None
<1>3. \A n \in MatchId : active[n].room = r => n = m
  BY <1>2 DEF InMatchIffActive
<1> QED  BY <1>1, <1>3 DEF TicketShown

\* The snapshot of a room changes only with the room or its match.
LEMMA SameSnapshot ==
    ASSUME LobbyInv, LobbyInv', NEW r \in RoomId,
           roomState'[r] = roomState[r], roomHost'[r] = roomHost[r],
           members'[r] = members[r], ready'[r] = ready[r],
           \A m \in MatchId : active[m].room = r => active'[m].room = r
    PROVE  Snapshot(r)' = Snapshot(r)
<1>1. TicketShown(r)' = TicketShown(r)
  <2>1. CASE roomState[r] = "InMatch"
    <3>1. PICK m \in MatchId : active[m].room = r
      BY <2>1 DEF LobbyInv, InMatchIffActive
    <3>2. active'[m].room = r  BY <3>1
    <3>3. TicketShown(r) = m  BY <3>1, TicketShownIs DEF LobbyInv
    <3>4. roomState'[r] = "InMatch" /\ r # None  BY <2>1 DEF RoomId, None
    <3>5. \A n \in MatchId : active'[n].room = r => n = m
      BY <3>2, <3>4 DEF LobbyInv, InMatchIffActive
    <3>6. TicketShown(r)' = m  BY <3>2, <3>4, <3>5 DEF TicketShown
    <3> QED  BY <3>3, <3>6
  <2>2. CASE roomState[r] # "InMatch"  BY <2>2 DEF TicketShown
  <2> QED  BY <2>1, <2>2
<1> QED  BY <1>1 DEF Snapshot

\* The connections told of a room are those of its members after the step.
LEMMA ToldAreMembers ==
    ASSUME LobbyInv, NEW S, S \subseteq PlayerId, NEW c \in ConnectionId
    PROVE  c \in ConnectionsOf(S) <=> connPlayer[c] \in S
<1>1. c # None  BY DEF ConnectionId, None
<1>2. \A p \in PlayerId : connPlayer[c] = p <=> playerConn[p] = c
  BY DEF LobbyInv, ConnectionsAgree
<1>3. c \in ConnectionsOf(S) <=> \E p \in S : playerConn[p] = c
  BY <1>1 DEF ConnectionsOf
<1> QED  BY <1>2, <1>3

\* Every step that changes a room tells its members, and whoever is out of it.
LEMMA TellsRoom ==
    ASSUME LobbyInv, LobbyInv', ClientsTold, NEW r \in RoomId, NEW gone,
           seen' = [c \in ConnectionId |->
                       IF c \in gone THEN NoRoomView
                       ELSE IF c \in ConnectionsOf(members'[r]) THEN Snapshot(r)'
                       ELSE seen[c]],
           \A s \in RoomId : s # r => Snapshot(s)' = Snapshot(s),
           \A c \in ConnectionId :
               IF c \in gone
               THEN connPlayer'[c] # None => playerRoom'[connPlayer'[c]] = None
               ELSE connPlayer'[c] = connPlayer[c],
           \A p \in PlayerId : \/ playerRoom'[p] \in {playerRoom[p], r}
                               \/ playerConn[p] \in gone \cup {None}
    PROVE  ClientsTold'
<1>1. ASSUME NEW c \in ConnectionId, c \in gone PROVE Outside(c)'
  BY <1>1 DEF Outside, RoomOf
<1>2. ASSUME NEW c \in ConnectionId, c \notin gone
      PROVE  Outside(c)' \/ \E s \in RoomId : Placed(c, s)'
  <2>1. PICK p : p = connPlayer[c]  OBVIOUS
  <2>2. connPlayer'[c] = p  BY <1>2, <2>1
  <2>3. CASE p = None
    <3>1. members'[r] \subseteq PlayerId /\ p \notin PlayerId
      BY <2>3 DEF LobbyInv, TypeOK, PlayerId, None
    <3>2. c \notin ConnectionsOf(members'[r])  BY <2>1, <3>1, ToldAreMembers
    <3>3. seen'[c] = seen[c]  BY <1>2, <3>2
    <3>4. seen[c] = NoRoomView
      BY <2>1, <2>3 DEF ClientsTold, Outside, Placed
    <3> QED  BY <2>2, <2>3, <3>3, <3>4 DEF Outside
  <2>4. CASE p # None
    <3>1. p \in PlayerId /\ members'[r] \subseteq PlayerId
      BY <2>1, <2>4 DEF LobbyInv, TypeOK
    <3>2. playerConn[p] = c  BY <2>1, <3>1 DEF LobbyInv, ConnectionsAgree
    <3>3. c \in ConnectionsOf(members'[r]) <=> playerRoom'[p] = r
      <4>1. c \in ConnectionsOf(members'[r]) <=> p \in members'[r]
        BY <2>1, <3>1, ToldAreMembers
      <4> QED  BY <3>1, <4>1 DEF LobbyInv, MembershipAgrees
    <3>4. CASE playerRoom'[p] = r
      <4>1. seen'[c] = Snapshot(r)'  BY <1>2, <3>3, <3>4
      <4>2. Placed(c, r)'  BY <2>2, <2>4, <3>4, <4>1 DEF Placed, RoomOf
      <4> QED  BY <4>2
    <3>5. CASE playerRoom'[p] # r
      <4>1. playerRoom'[p] = playerRoom[p] /\ seen'[c] = seen[c]
        BY <1>2, <3>1, <3>2, <3>3, <3>5 DEF ConnectionId, None
      <4>2. CASE Outside(c)
        <5>1. Outside(c)'  BY <2>1, <2>2, <4>1, <4>2 DEF Outside, RoomOf
        <5> QED  BY <5>1
      <4>3. ASSUME NEW s \in RoomId, Placed(c, s)
            PROVE  Placed(c, s)'
        <5>1. playerRoom[p] = s /\ seen[c] = Snapshot(s)
          BY <2>1, <4>3 DEF Placed, RoomOf
        <5>2. Snapshot(s)' = Snapshot(s)  BY <3>5, <4>1, <5>1
        <5> QED  BY <2>2, <2>4, <4>1, <5>1, <5>2 DEF Placed, RoomOf
      <4> QED  BY <4>2, <4>3 DEF ClientsTold
    <3> QED  BY <3>4, <3>5
  <2> QED  BY <2>3, <2>4
<1> QED  BY <1>1, <1>2 DEF ClientsTold

\* The other rooms are as they were.
OthersSame(r) ==
    \A s \in RoomId : s # r => /\ roomState'[s] = roomState[s]
                               /\ roomHost'[s] = roomHost[s]
                               /\ members'[s] = members[s]
                               /\ ready'[s] = ready[s]

\* BroadcastSnapshot of a room that is in no match.
LEMMA BroadcastTells ==
    ASSUME LobbyInv, LobbyInv', ClientsTold, NEW r \in RoomId, NEW gone,
           Broadcast(r, gone), roomState'[r] # "InMatch", UNCHANGED active,
           OthersSame(r),
           \A c \in ConnectionId :
               IF c \in gone
               THEN connPlayer'[c] # None => playerRoom'[connPlayer'[c]] = None
               ELSE connPlayer'[c] = connPlayer[c],
           \A p \in PlayerId : \/ playerRoom'[p] \in {playerRoom[p], r}
                               \/ playerConn[p] \in gone \cup {None}
    PROVE  ClientsTold'
<1>1. NextSnapshot(r, None) = Snapshot(r)'
  BY DEF NextSnapshot, Snapshot, TicketShown
<1>2. \A s \in RoomId : s # r => Snapshot(s)' = Snapshot(s)
  BY SameSnapshot DEF OthersSame
<1>3. seen' = [c \in ConnectionId |->
                  IF c \in gone THEN NoRoomView
                  ELSE IF c \in ConnectionsOf(members'[r]) THEN Snapshot(r)'
                  ELSE seen[c]]
  BY <1>1 DEF Broadcast
<1> QED  BY <1>2, <1>3, TellsRoom

\* A step in which no room changes.
LEMMA NobodyTold ==
    ASSUME LobbyInv, LobbyInv', ClientsTold, UNCHANGED <<roomVars, active>>,
           \A c \in ConnectionId :
               Outside(c)' \/ UNCHANGED <<connPlayer[c], seen[c]>>
    PROVE  ClientsTold'
<1>1. UNCHANGED <<playerRoom, roomState, roomHost, members, ready>>  BY DEF roomVars
<1>2. \A r \in RoomId : Snapshot(r)' = Snapshot(r)  BY <1>1, SameSnapshot
<1>3. ASSUME NEW c \in ConnectionId, UNCHANGED <<connPlayer[c], seen[c]>>
      PROVE  Outside(c)' \/ \E r \in RoomId : Placed(c, r)'
  <2>1. CASE Outside(c)
    <3>1. Outside(c)'  BY <1>1, <1>3, <2>1 DEF Outside, RoomOf
    <3> QED  BY <3>1
  <2>2. ASSUME NEW r \in RoomId, Placed(c, r) PROVE Placed(c, r)'
    BY <1>1, <1>2, <1>3, <2>2 DEF Placed, RoomOf
  <2> QED  BY <2>1, <2>2 DEF ClientsTold
<1> QED  BY <1>3 DEF ClientsTold

LEMMA HelloTells ==
    ASSUME LobbyInv, LobbyInv', ClientsTold, NEW c \in ConnectionId, Hello(c)
    PROVE  ClientsTold'
<1>1. nextPlayer \in PlayerId /\ playerRoom[nextPlayer] = None
  BY DEF Hello, LobbyInv, IdsAreFresh, PlayerId
<1>2. seen[c] = NoRoomView  BY DEF Hello, ClientsTold, Outside, Placed
<1>3. connPlayer' = [connPlayer EXCEPT ![c] = nextPlayer]
      /\ UNCHANGED <<roomVars, active, seen>>
  BY DEF Hello, matchVars
<1>4. Outside(c)'
  <2>1. connPlayer'[c] = nextPlayer /\ playerRoom' = playerRoom /\ seen' = seen
    BY <1>3 DEF LobbyInv, TypeOK, roomVars
  <2> QED  BY <1>1, <1>2, <2>1 DEF Outside, RoomOf
<1>5. \A d \in ConnectionId : d # c => UNCHANGED <<connPlayer[d], seen[d]>>
  BY <1>3 DEF LobbyInv, TypeOK
<1> QED  BY <1>3, <1>4, <1>5, NobodyTold

LEMMA OutsideTells ==
    ASSUME LobbyInv, LobbyInv', ClientsTold, NEW c \in ConnectionId,
           DisconnectOutside(c)
    PROVE  ClientsTold'
<1>1. /\ connPlayer' = [connPlayer EXCEPT ![c] = None]
      /\ seen' = [seen EXCEPT ![c] = NoRoomView]
      /\ UNCHANGED <<roomVars, active>>
  BY DEF DisconnectOutside, CloseConnection, matchVars
<1>2. Outside(c)'  BY <1>1 DEF Outside, LobbyInv, TypeOK
<1>3. \A d \in ConnectionId : d # c => UNCHANGED <<connPlayer[d], seen[d]>>
  BY <1>1 DEF LobbyInv, TypeOK
<1> QED  BY <1>1, <1>2, <1>3, NobodyTold

LEMMA EntryTells ==
    ASSUME LobbyInv, LobbyInv', ClientsTold, NEW c \in ConnectionId,
           CreateRoom(c) \/ \E r \in RoomId : JoinRoom(c, r)
    PROVE  ClientsTold'
<1>1. PICK r \in RoomId : (CreateRoom(c) /\ r = nextRoom) \/ JoinRoom(c, r)
  BY DEF CreateRoom
<1>2. /\ playerRoom' = [playerRoom EXCEPT ![PlayerOf(c)] = r]
      /\ Broadcast(r, {}) /\ UNCHANGED <<connVars, active>>
      /\ roomState'[r] # "InMatch" /\ OthersSame(r)
  <2>1. CASE CreateRoom(c) /\ r = nextRoom
    <3>1. roomState'[r] = "Waiting"  BY <2>1 DEF CreateRoom, LobbyInv, TypeOK
    <3>2. OthersSame(r)  BY <2>1 DEF CreateRoom, LobbyInv, TypeOK, OthersSame
    <3> QED  BY <2>1, <3>1, <3>2 DEF CreateRoom, matchVars
  <2>2. CASE JoinRoom(c, r)
    <3>1. roomState'[r] = "Waiting"  BY <2>2 DEF JoinRoom
    <3>2. OthersSame(r)  BY <2>2 DEF JoinRoom, LobbyInv, TypeOK, OthersSame
    <3> QED  BY <2>2, <3>1, <3>2 DEF JoinRoom, matchVars
  <2> QED  BY <1>1, <2>1, <2>2
<1>3. \A p \in PlayerId : playerRoom'[p] \in {playerRoom[p], r}
  BY <1>2 DEF LobbyInv, TypeOK
<1> QED  BY <1>2, <1>3, BroadcastTells DEF connVars

LEMMA RemovalTells ==
    ASSUME LobbyInv, LobbyInv', ClientsTold, NEW c \in ConnectionId,
           Welcomed(c), RoomOf(c) # None, RemoveMember(RoomOf(c), PlayerOf(c)),
           UNCHANGED connPlayer \/ CloseConnection(c),
           Broadcast(RoomOf(c), {c}), UNCHANGED active
    PROVE  ClientsTold'
<1>1. PICK r \in RoomId : r = RoomOf(c)  BY RoomOfMember
<1>2. PICK p \in PlayerId : p = PlayerOf(c)  BY RoomOfMember
<1>3. /\ playerRoom' = [playerRoom EXCEPT ![p] = None]
      /\ roomState' = [roomState EXCEPT
                          ![r] = IF members[r] = {p} THEN "Absent" ELSE "Waiting"]
      /\ roomHost' = [roomHost EXCEPT ![r] = Successor(r, p)]
      /\ members' = [members EXCEPT ![r] = @ \ {p}]
      /\ ready' = [ready EXCEPT ![r] = @ \ {p}]
  BY <1>1, <1>2 DEF RemoveMember
<1>4. playerConn[p] = c
  BY <1>2 DEF PlayerOf, LobbyInv, ConnectionsAgree
<1>5. roomState'[r] # "InMatch"  BY <1>3 DEF LobbyInv, TypeOK
<1>6. OthersSame(r)  BY <1>3 DEF LobbyInv, TypeOK, OthersSame
<1>7. \A q \in PlayerId : playerRoom'[q] \in {playerRoom[q], r} \/ playerConn[q] \in {c, None}
  BY <1>3, <1>4 DEF LobbyInv, TypeOK
<1>8. playerRoom'[p] = None  BY <1>3 DEF LobbyInv, TypeOK
<1>9. \A d \in ConnectionId :
          IF d \in {c}
          THEN connPlayer'[d] # None => playerRoom'[connPlayer'[d]] = None
          ELSE connPlayer'[d] = connPlayer[d]
  <2>1. CASE UNCHANGED connPlayer  BY <1>2, <1>8, <2>1 DEF PlayerOf
  <2>2. CASE CloseConnection(c)
    BY <2>2 DEF CloseConnection, LobbyInv, TypeOK
  <2> QED  BY <2>1, <2>2
<1>10. Broadcast(r, {c})  BY <1>1
<1> QED  BY <1>5, <1>6, <1>7, <1>9, <1>10, BroadcastTells

\* A room that only changes state or ready flags.
LEMMA ChangeTells ==
    ASSUME LobbyInv, LobbyInv', ClientsTold, NEW r \in RoomId,
           Broadcast(r, {}), roomState'[r] # "InMatch", UNCHANGED active,
           OthersSame(r), UNCHANGED <<playerRoom, connPlayer>>
    PROVE  ClientsTold'
BY BroadcastTells

LEMMA MemberRequestTells ==
    ASSUME LobbyInv, LobbyInv', ClientsTold, NEW c \in ConnectionId,
           \/ \E flag \in BOOLEAN : SetReady(c, flag)
           \/ StartMatch(c) \/ StartMatchRollback(c)
    PROVE  ClientsTold'
<1>1. RoomOf(c) \in RoomId /\ roomState[RoomOf(c)] = "Waiting"
  BY PlayerOfType
  DEF SetReady, MayChange, StartMatch, StartMatchRollback, CanStart, LobbyInv
<1>2. PICK r \in RoomId : r = RoomOf(c)  BY <1>1
<1>3. /\ Broadcast(r, {}) /\ UNCHANGED <<active, playerRoom, connPlayer>>
  BY <1>2
  DEF SetReady, StartMatch, StartMatchRollback, connVars, roomVars, matchVars
<1>4. roomState'[r] # "InMatch"
  BY <1>1, <1>2
  DEF SetReady, StartMatch, StartMatchRollback, roomVars, LobbyInv, TypeOK
<1>5. OthersSame(r)
  BY <1>2
  DEF SetReady, StartMatch, StartMatchRollback, roomVars, LobbyInv, TypeOK, OthersSame
<1> QED  BY <1>3, <1>4, <1>5, ChangeTells

LEMMA FailPendingTells ==
    ASSUME LobbyInv, LobbyInv', ClientsTold, NEW m \in MatchId,
           pending[m].room # None, FailPending(m)
    PROVE  ClientsTold'
<1>1. PICK r \in RoomId : r = pending[m].room /\ roomState[r] = "Starting"
  BY PendingRoom
<1>2. /\ roomState' = [roomState EXCEPT ![r] = "Waiting"]
      /\ Broadcast(r, {}) /\ UNCHANGED <<active, playerRoom, connPlayer>>
      /\ UNCHANGED <<roomHost, members, ready>>
  BY <1>1 DEF FailPending, connVars, LobbyInv, TypeOK
<1>3. roomState'[r] # "InMatch"  BY <1>2 DEF LobbyInv, TypeOK
<1>4. OthersSame(r)  BY <1>2 DEF LobbyInv, TypeOK, OthersSame
<1> QED  BY <1>2, <1>3, <1>4, ChangeTells

LEMMA ReadyTells ==
    ASSUME LobbyInv, LobbyInv', ClientsTold, NEW m \in MatchId, NEW w \in Worker,
           ReservationReady(m, w)
    PROVE  ClientsTold'
<1>1. PICK r \in RoomId : r = pending[m].room /\ pending[m].players = members[r]
  BY PendingRoom DEF ReservationReady
<1>2. active[m].room = None /\ r # None
  BY <1>1 DEF ReservationReady, LobbyInv, InMatchIffActive
<1>3. /\ active' = [active EXCEPT ![m] = [room |-> r, worker |-> w,
                                          players |-> pending[m].players]]
      /\ roomState' = [roomState EXCEPT ![r] = "InMatch"]
      /\ UNCHANGED <<playerRoom, roomHost, members, ready, connPlayer>>
      /\ seen' = [c \in ConnectionId |->
                     IF c \in ConnectionsOf(members[r]) THEN NextSnapshot(r, m)
                     ELSE seen[c]]
  BY <1>1 DEF ReservationReady, connVars
<1>4. active'[m].room = r
      /\ \A n \in MatchId : n # m => active'[n] = active[n]
  BY <1>3 DEF LobbyInv, TypeOK
<1>5. NextSnapshot(r, m) = Snapshot(r)'
  <2>1. roomState'[r] = "InMatch"  BY <1>3 DEF LobbyInv, TypeOK
  <2>2. \A n \in MatchId : active'[n].room = r => n = m
    BY <1>2, <1>4 DEF LobbyInv, InMatchIffActive
  <2>3. TicketShown(r)' = m  BY <1>4, <2>1, <2>2 DEF TicketShown
  <2> QED  BY <2>3 DEF NextSnapshot, Snapshot
<1>6. ASSUME NEW s \in RoomId, s # r PROVE Snapshot(s)' = Snapshot(s)
  <2>1. \A n \in MatchId : active[n].room = s => active'[n].room = s
    <3>1. s # None  BY DEF RoomId, None
    <3> QED  BY <1>2, <1>4, <3>1
  <2>2. roomState'[s] = roomState[s]  BY <1>3, <1>6 DEF LobbyInv, TypeOK
  <2> QED  BY <1>3, <2>1, <2>2, SameSnapshot
<1>7. PICK gone : gone = {}  OBVIOUS
<1>8. seen' = [c \in ConnectionId |->
                  IF c \in gone THEN NoRoomView
                  ELSE IF c \in ConnectionsOf(members'[r]) THEN Snapshot(r)'
                  ELSE seen[c]]
  BY <1>3, <1>5, <1>7
<1>9. /\ \A c \in ConnectionId : c \notin gone /\ connPlayer'[c] = connPlayer[c]
      /\ \A p \in PlayerId : playerRoom'[p] = playerRoom[p]
  BY <1>3, <1>7
<1> QED  BY <1>6, <1>8, <1>9, TellsRoom

LEMMA FinishTells ==
    ASSUME LobbyInv, LobbyInv', ClientsTold, NEW m \in MatchId, NEW w \in Worker,
           FinishMatch(m, w)
    PROVE  ClientsTold'
<1>1. PICK r \in RoomId : r = active[m].room
  BY DEF FinishMatch, LobbyInv, TypeOK, ActiveMatch
<1>2. PICK gone : gone = ConnectionsOf(members[r])  OBVIOUS
<1>3. /\ active' = [active EXCEPT ![m] = NoMatch]
      /\ playerRoom' = [p \in PlayerId |->
                           IF p \in members[r] THEN None ELSE playerRoom[p]]
      /\ roomState' = [roomState EXCEPT ![r] = "Absent"]
      /\ roomHost' = [roomHost EXCEPT ![r] = None]
      /\ members' = [members EXCEPT ![r] = {}]
      /\ ready' = [ready EXCEPT ![r] = {}]
      /\ seen' = [c \in ConnectionId |-> IF c \in gone THEN NoRoomView ELSE seen[c]]
      /\ connPlayer' = connPlayer
  BY <1>1, <1>2 DEF FinishMatch, connVars
<1>4. ASSUME NEW s \in RoomId, s # r PROVE Snapshot(s)' = Snapshot(s)
  <2>1. \A n \in MatchId : active[n].room = s => active'[n].room = s
    <3> TAKE n \in MatchId
    <3>1. active[n].room = s => n # m  BY <1>1, <1>4
    <3> QED  BY <1>3, <3>1 DEF LobbyInv, TypeOK
  <2>2. /\ roomState'[s] = roomState[s] /\ roomHost'[s] = roomHost[s]
        /\ members'[s] = members[s] /\ ready'[s] = ready[s]
    BY <1>3, <1>4 DEF LobbyInv, TypeOK
  <2> QED  BY <2>1, <2>2, SameSnapshot
<1>5. ConnectionsOf(members'[r]) = {}
  <2>1. members'[r] = {}  BY <1>3 DEF LobbyInv, TypeOK
  <2> QED  BY <2>1 DEF ConnectionsOf
<1>6. seen' = [c \in ConnectionId |->
                  IF c \in gone THEN NoRoomView
                  ELSE IF c \in ConnectionsOf(members'[r]) THEN Snapshot(r)'
                  ELSE seen[c]]
  BY <1>3, <1>5
<1>7. members[r] \subseteq PlayerId  BY DEF LobbyInv, TypeOK
<1>8. ASSUME NEW c \in ConnectionId, c \in gone
      PROVE  playerRoom'[connPlayer'[c]] = None
  <2>1. connPlayer[c] \in members[r]  BY <1>2, <1>7, <1>8, ToldAreMembers
  <2> QED  BY <1>3, <1>7, <2>1
<1>9. ASSUME NEW p \in PlayerId
      PROVE  playerRoom'[p] \in {playerRoom[p], r} \/ playerConn[p] \in gone \cup {None}
  <2>1. p \in members[r] => playerConn[p] \in gone \cup {None}
    BY <1>2 DEF ConnectionsOf
  <2> QED  BY <1>3, <2>1
<1> QED  BY <1>3, <1>4, <1>6, <1>8, <1>9, TellsRoom

LEMMA ToldStep ==
    ASSUME LobbyInv, LobbyInv', ClientsTold, [Next]_lobbyVars
    PROVE  ClientsTold'
<1>1. CASE OpenConnection \/ LastSecond \/ TicketsExpire \/ UNCHANGED lobbyVars
  <2>1. UNCHANGED <<roomVars, active, connPlayer, seen>>
    BY <1>1
    DEF OpenConnection, LastSecond, TicketsExpire, lobbyVars, connVars, matchVars
  <2> QED  BY <2>1, NobodyTold
<1>2. ASSUME NEW c \in ConnectionId, Request(c) PROVE ClientsTold'
  <2>1. CASE LeaveRoom(c)
    BY <2>1, RemovalTells DEF LeaveRoom, connVars, matchVars
  <2> QED
    BY <1>2, <2>1, HelloTells, EntryTells, MemberRequestTells DEF Request
<1>3. ASSUME NEW c \in ConnectionId, Disconnect(c) PROVE ClientsTold'
  BY <1>3, OutsideTells, RemovalTells
  DEF Disconnect, DisconnectWaiting, DisconnectStarting, matchVars
<1>4. ASSUME NEW m \in MatchId, WorkerEvent(m) PROVE ClientsTold'
  BY <1>4, FailPendingTells, ReadyTells, FinishTells
  DEF WorkerEvent, ReservationFailed, ReservationTooLate
<1> QED  BY <1>1, <1>2, <1>3, <1>4 DEF Next

\* What every client was last told is true after every handler: BroadcastSnapshot,
\* the ticket and the room list reach everybody whose room changed, and no step
\* changes a room without them.
THEOREM ClientsAlwaysSee == Spec => []ClientsSeeTheirRoom
<1>1. Init => ClientsTold  BY DEF Init, ClientsTold, Outside
<1>2. LobbyInv /\ LobbyInv' /\ ClientsTold /\ [Next]_lobbyVars => ClientsTold'
  BY ToldStep
<1> QED  BY <1>1, <1>2, ClientsToldSuffices, LobbyInvHolds, PTL DEF Spec

=============================================================================
