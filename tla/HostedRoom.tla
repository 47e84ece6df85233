----------------------------- MODULE HostedRoom -----------------------------
(***************************************************************************)
(* One match as the network load scripts set it up: a hosting client and a *)
(* bot coordinator (LobbyHost, BotCoordinator), each of their players on a *)
(* lobby connection of its own, and the lobby (Lobby) between them.        *)
(*                                                                         *)
(* Requests and messages travel in order on each connection and take their *)
(* time, so every client acts on what the lobby was like when it sent.  A  *)
(* connection may fail, which either end notices when it does, having read *)
(* what it had received or not.  What the game server does is its worker   *)
(* events and the results of the game sessions.                            *)
(*                                                                         *)
(* The bots are given the room the host has printed and are told to play   *)
(* (run_network_load.ps1:281), and nobody else comes to the lobby.         *)
(***************************************************************************)
EXTENDS Lobby, BotParameters, Sequences

CONSTANTS
    ExpectedPlayers,
    MaxTrouble   \* bound: how often something goes wrong in a behaviour

ASSUME HostedRoomAssumption ==
    ExpectedPlayers \in Nat \ {0, 1} /\ MaxTrouble \in Nat \ {0}

\* The host expects all of them, the lobby has a room for them and no id of the
\* lobby runs out, as the scripts start the three (run_network_load.ps1).
ASSUME RoomSuffices ==
    /\ Bots + 1 <= ExpectedPlayers /\ Bots + 1 <= RoomCapacity
    /\ Bots + 1 <= MaxConnection /\ Bots + 1 <= MaxPlayer /\ Bots + 1 <= MaxOrdinal
    /\ 1 <= MaximumRooms /\ 1 <= MaxRoom /\ 1 <= MaxMatch

VARIABLES
    flow, hostFailed, hostStop, hostGame,
    play, bot, co, lobbyTimer, gameTimer, moving,
    requests,   \* sent by each connection's client and not read by the lobby
    messages,   \* sent by the lobby and not read by the client
    link,       \* "Down", "Up", "Cut": neither end's sends arrive any more
    over,       \* matches whose result the game server has sent
    trouble     \* what went wrong outside the clients' hands, counted (history)

H == INSTANCE LobbyHost
B == INSTANCE BotCoordinator

hostVars == <<flow, hostFailed, hostStop, hostGame>>
botVars  == <<play, bot, co, lobbyTimer, gameTimer, moving>>
wires    == <<requests, messages, link>>
vars == <<lobbyVars, hostVars, botVars, wires, over, trouble>>

Troubles == trouble < MaxTrouble /\ trouble' = trouble + 1

HostConnection == 1
BotConnection(b) == b + 1

RoomInit ==
    /\ Init /\ H!Init /\ B!BotInit /\ play
    /\ requests = [c \in ConnectionId |-> <<>>]
    /\ messages = [c \in ConnectionId |-> <<>>]
    /\ link = [c \in ConnectionId |-> "Down"]
    /\ over = {} /\ trouble = 0

-----------------------------------------------------------------------------
(* The lobby's end of the connections. *)

WelcomeTo(p)   == [type |-> "Welcome", player |-> p]
TicketFor(m)   == [type |-> "Ticket", match |-> m]
ErrorResponse  == [type |-> "Error"]
RoomList       == [type |-> "RoomList"]
RoomMessage(r) == [type |-> "Room", view |-> NextSnapshot(r, None)]

\* What BroadcastSnapshot sends to c in this step.
Broadcasted(c, r) ==
    IF c \in ConnectionsOf(members'[r]) THEN <<RoomMessage(r)>> ELSE <<>>

Only(c, d, m) == IF c = d THEN <<m>> ELSE <<>>

\* Every connection is sent sent[c]; a cut one loses it.
Delivered(sent) ==
    [c \in ConnectionId |-> IF link[c] = "Up" THEN messages[c] \o sent[c]
                            ELSE messages[c]]
Sends(sent) == messages' = Delivered(sent)

RoomKnown == flow.room

\* The lobby would not answer q with an error.
Granted(c, q) ==
    CASE q = "Hello"      -> connPlayer[c] = None /\ nextPlayer \in PlayerId
      [] q = "CreateRoom" -> /\ Welcomed(c) /\ RoomOf(c) = None
                             /\ Cardinality({r \in RoomId : Exists(r)}) < MaximumRooms
                             /\ nextRoom \in RoomId /\ nextOrdinal \in Ordinal
      [] q = "JoinRoom"   -> /\ Welcomed(c) /\ RoomOf(c) = None
                             /\ roomState[RoomKnown] = "Waiting"
                             /\ Cardinality(members[RoomKnown]) < RoomCapacity
                             /\ nextOrdinal \in Ordinal
      [] q = "SetReady"   -> Welcomed(c) /\ RoomOf(c) # None /\ MayChange(RoomOf(c))
      [] q = "StartMatch" -> CanStart(c)

Grants(c, q) ==
    \/ q = "Hello" /\ Hello(c)
       /\ Sends([d \in ConnectionId |-> Only(d, c, WelcomeTo(nextPlayer))])
    \/ q = "CreateRoom" /\ CreateRoom(c)
       /\ Sends([d \in ConnectionId |-> Broadcasted(d, nextRoom)])
    \/ q = "JoinRoom" /\ JoinRoom(c, RoomKnown)
       /\ Sends([d \in ConnectionId |-> Broadcasted(d, RoomKnown)])
    \/ q = "SetReady" /\ SetReady(c, TRUE)
       /\ Sends([d \in ConnectionId |-> Broadcasted(d, RoomOf(c))])
    \/ q = "StartMatch" /\ StartMatch(c)
       /\ Sends([d \in ConnectionId |-> Broadcasted(d, RoomOf(c))])

TakesRequest(c) ==
    /\ c \in open /\ requests[c] # <<>>
    /\ requests' = [requests EXCEPT ![c] = Tail(@)]
    /\ UNCHANGED <<hostVars, botVars, link, over>>

LobbyGrants(c) ==
    /\ TakesRequest(c)
    /\ Grants(c, Head(requests[c]))
    /\ UNCHANGED trouble

LobbyRefuses(c) ==
    /\ TakesRequest(c)
    /\ ~Granted(c, Head(requests[c]))
    /\ Sends([d \in ConnectionId |-> Only(d, c, ErrorResponse)])
    /\ UNCHANGED <<lobbyVars, trouble>>

\* The ticket source fails.
LobbyRollsBack(c) ==
    /\ TakesRequest(c)
    /\ Head(requests[c]) = "StartMatch" /\ StartMatchRollback(c)
    /\ Sends([d \in ConnectionId |->
                Broadcasted(d, RoomOf(c)) \o Only(d, c, ErrorResponse)])
    /\ Troubles

\* The lobby notices that a client is gone; the requester of a start that this
\* cancels is told.
LobbyDisconnects(c) ==
    LET r == IF Welcomed(c) THEN RoomOf(c) ELSE None
        requester == IF r # None /\ roomState[r] = "Starting"
                     THEN playerConn[pending[roomRes[r]].requester] ELSE None
    IN  /\ c \in open /\ link[c] = "Cut"
        /\ Disconnect(c)
        /\ Sends([d \in ConnectionId |->
                    IF r = None \/ roomState[r] = "InMatch" \/ d = c THEN <<>>
                    ELSE Broadcasted(d, r) \o Only(d, requester, ErrorResponse)])
        /\ requests' = [requests EXCEPT ![c] = <<>>]
        /\ UNCHANGED <<hostVars, botVars, link, over, trouble>>

-----------------------------------------------------------------------------
(* The game server. *)

ServerReady(m, w) ==
    /\ ReservationReady(m, w)
    /\ Sends([d \in ConnectionId |->
                Broadcasted(d, pending[m].room)
                \o IF d \in ConnectionsOf(pending[m].players)
                   THEN <<TicketFor(m)>> ELSE <<>>])
    /\ UNCHANGED <<hostVars, botVars, requests, link, over, trouble>>

\* A start that comes too late (ReservationTooLate) is to the clients the same.
ServerFails(m) ==
    /\ ReservationFailed(m)
    /\ Sends([d \in ConnectionId |->
                Broadcasted(d, pending[m].room)
                \o Only(d, playerConn[pending[m].requester], ErrorResponse)])
    /\ Troubles
    /\ UNCHANGED <<hostVars, botVars, requests, link, over>>

\* The match is decided: one handler of the game server tells the lobby, which
\* hears of it in MatchEnds, and sends every player the same result.
MatchIsOver(m) ==
    /\ active[m].room # None /\ m \notin over
    /\ over' = over \cup {m}
    /\ UNCHANGED <<lobbyVars, hostVars, botVars, wires, trouble>>

\* The worker may be lost before the lobby has read of the end of its match: what
\* the lobby then tells the players is that the match is unavailable.
MatchEnds(m, w) ==
    /\ FinishMatch(m, w)
    /\ \E gone \in BOOLEAN :
           /\ m \notin over => gone
           /\ Sends([d \in ConnectionId |->
                        IF d \notin ConnectionsOf(members[active[m].room]) THEN <<>>
                        ELSE IF gone THEN <<ErrorResponse, RoomList>>
                        ELSE <<RoomList>>])
           /\ IF gone THEN Troubles ELSE UNCHANGED trouble
    /\ UNCHANGED <<hostVars, botVars, requests, link, over>>

-----------------------------------------------------------------------------
(* The clients' end.  A client that is done, failed or stopped closes its  *)
(* connections and reads no more.                                          *)

Asks(c, q) == requests' = [requests EXCEPT ![c] = IF link[c] = "Up" THEN Append(@, q) ELSE @]

\* LobbyClient::AsyncConnect, the lobby's accept and the Hello that follows it.
Connects(c) ==
    /\ OpenConnection /\ nextConnection = c
    /\ link' = [link EXCEPT ![c] = "Up"]
    /\ requests' = [requests EXCEPT ![c] = <<"Hello">>]
    /\ UNCHANGED <<messages, over, trouble>>

ConnectionFails(c) ==
    /\ link[c] = "Up"
    /\ link' = [link EXCEPT ![c] = "Cut"]
    /\ Troubles
    /\ UNCHANGED <<lobbyVars, hostVars, botVars, requests, messages, over>>

HostConnects ==
    /\ H!Listens
    /\ Connects(HostConnection)
    /\ UNCHANGED <<hostVars, botVars>>

\* The flow's answer to a message of the lobby.
Answer(m) ==
    CASE m.type = "Welcome"  -> H!OnWelcome(m.player)
      [] m.type = "Room"     -> H!OnRoomSnapshot(m.view)
      [] m.type = "Ticket"   -> H!OnMatchTicket
      [] m.type = "RoomList" -> H!OnRoomList

\* Fail and the handler that Stop posts close the connection.
HostCloses ==
    /\ link' = [link EXCEPT ![HostConnection] = "Cut"]
    /\ messages' = [messages EXCEPT ![HostConnection] = <<>>]

HostReceives ==
    LET c == HostConnection
        m == Head(messages[c])
        answer == Answer(m)
    IN  /\ hostGame # "Started"     \* the lobby thread is not in StartGame
        /\ H!Listens /\ messages[c] # <<>>
        /\ IF m.type = "Error"
           THEN H!Fail("Error") /\ HostCloses /\ UNCHANGED requests
           ELSE IF answer.command = "Throw"
           THEN H!Obey(answer) /\ HostCloses /\ UNCHANGED requests
           ELSE /\ H!Obey(answer)
                /\ messages' = [messages EXCEPT ![c] = Tail(@)]
                /\ IF answer.command \in {"None", "StartGame"} THEN UNCHANGED requests
                   ELSE Asks(c, answer.command)
                /\ UNCHANGED link
        /\ UNCHANGED <<lobbyVars, botVars, over, trouble>>

HostNotices ==
    /\ link[HostConnection] = "Cut" /\ hostGame # "Started"
    /\ H!Listens
    /\ H!Fail("Closed") /\ HostCloses
    /\ UNCHANGED <<lobbyVars, botVars, requests, over, trouble>>

HostThreads ==
    /\ \/ H!StoreSession /\ UNCHANGED <<messages, link, trouble>>
       \/ H!RequestStop /\ Troubles /\ UNCHANGED <<messages, link>>
       \/ H!StopSession /\ UNCHANGED <<messages, link, trouble>>
       \/ H!CloseOnThread /\ HostCloses /\ UNCHANGED trouble
       \/ H!Join /\ UNCHANGED <<messages, link, trouble>>
    /\ UNCHANGED <<lobbyVars, botVars, requests, over>>

-----------------------------------------------------------------------------
(* The bots. *)

\* Shutdown closes the connections of all bots, connected or not.
BotsClose ==
    LET cut == {c \in ConnectionId : c # HostConnection /\ link[c] = "Up"}
    IN  IF ~co.done /\ co'.done
        THEN /\ link' = [c \in ConnectionId |-> IF c \in cut THEN "Cut" ELSE link[c]]
             /\ messages' = [c \in ConnectionId |->
                                IF c = HostConnection THEN messages[c] ELSE <<>>]
        ELSE UNCHANGED <<link, messages>>

BotsStart ==
    /\ flow.room # None
    /\ B!Start
    /\ UNCHANGED <<lobbyVars, hostVars, wires, over, trouble>>

BotConnects(b) ==
    /\ B!Ready
    /\ Connects(BotConnection(b))
    /\ UNCHANGED <<hostVars, botVars>>

BotReceives(b) ==
    LET c == BotConnection(b)
        m == Head(messages[c])
    IN  /\ B!Ready /\ messages[c] # <<>>
        /\ \/ m.type = "Welcome" /\ B!Welcomed(b, m.player)
           \/ m.type = "Room" /\ B!SawRoom(b, m.view)
           \/ m.type = "Ticket" /\ B!TookTicket(b, m.match)
           \/ m.type = "Error" /\ B!Fail("Error")
           \/ m.type = "RoomList" /\ UNCHANGED botVars
        /\ IF co'.done THEN BotsClose
           ELSE messages' = [messages EXCEPT ![c] = Tail(@)] /\ UNCHANGED link
        /\ IF co'.done THEN UNCHANGED requests
           ELSE IF m.type = "Welcome" THEN Asks(c, "JoinRoom")
           ELSE IF m.type = "Room" /\ B!MustReady(b, m.view) THEN Asks(c, "SetReady")
           ELSE UNCHANGED requests
        /\ UNCHANGED <<lobbyVars, hostVars, over, trouble>>

BotNotices(b) ==
    /\ B!Ready /\ link[BotConnection(b)] = "Cut"
    /\ B!LobbyClosed(b)
    /\ BotsClose
    /\ UNCHANGED <<lobbyVars, hostVars, requests, over, trouble>>

BotSessions(b) ==
    /\ \/ B!SessionMoves(b, IF bot[b].ticket \in over THEN {1} ELSE {})
          /\ UNCHANGED trouble
       \/ B!SessionFails(b) /\ Troubles
    /\ UNCHANGED <<lobbyVars, hostVars, wires, over>>

BotTicks ==
    /\ (\E b \in 1..Bots : B!TickBot(b)) \/ B!TickSetsDestination
    /\ BotsClose
    /\ UNCHANGED <<lobbyVars, hostVars, requests, over, trouble>>

BotTimers ==
    /\ \/ (B!LobbyTimerExpires \/ B!GameTimerExpires)
          /\ trouble' = IF trouble = 0 THEN 1 ELSE trouble   \* time is not bounded
       \/ B!TimerRuns /\ UNCHANGED trouble
    /\ BotsClose
    /\ UNCHANGED <<lobbyVars, hostVars, requests, over>>

BotsStop ==
    /\ B!StopBots /\ BotsClose /\ Troubles
    /\ UNCHANGED <<lobbyVars, hostVars, requests, over>>

-----------------------------------------------------------------------------

RoomNext ==
    \/ \E c \in ConnectionId :
          \/ LobbyGrants(c) \/ LobbyRefuses(c) \/ LobbyRollsBack(c)
          \/ LobbyDisconnects(c) \/ ConnectionFails(c)
    \/ \E m \in MatchId :
          \/ \E w \in Worker : ServerReady(m, w) \/ MatchEnds(m, w)
          \/ ServerFails(m) \/ MatchIsOver(m)
    \/ HostConnects \/ HostReceives \/ HostNotices \/ HostThreads
    \/ BotsStart \/ BotTicks \/ BotTimers \/ BotsStop
    \/ \E b \in 1..Bots :
          BotConnects(b) \/ BotReceives(b) \/ BotNotices(b) \/ BotSessions(b)

RoomSpec == RoomInit /\ [][RoomNext]_vars

-----------------------------------------------------------------------------
(* Correctness. *)

\* The clients fit the lobby and each other: none is ever surprised by a message
\* (the logic errors of LobbyHostFlow, the protocol failures of Message), and
\* unless something outside their hands goes wrong, none fails: no request is
\* refused because it was made on a view of the room that is out of date.  The
\* one failure of the bots' own making is a destination set as the match ends.
OnlyTroubleFails ==
    /\ hostFailed # "Throw" /\ co.why # "Confused"
    /\ hostFailed # "No" => trouble > 0
    /\ co.why \notin {"None", "Results", "Destination"} =>
           trouble > 0 \/ hostFailed # "No"

\* NetworkClientController::Stop leaves no game session running, whether
\* StartGame has begun, started or stored it when the stop comes.
StopLeavesNothing == hostStop = "Done" => hostGame \in {"None", "Stopped"}

\* The controller draws the scene by ExpectedPlayers
\* (NetworkClientController::SampleScene throws when a neutral actor has a smaller
\* id), so the match it is in has that many players.
MatchIsAsExpected ==
    \A m \in MatchId : active[m].room # None /\ flow.ticketReceived =>
        Cardinality(active[m].players) = ExpectedPlayers

\* A match that ends well is reported as one: no bot has its destination refused
\* by a session that has just got the result (PlayCoordinatorReportsEverySession
\* expects the exit code 0 of every session).
DestinationsAreTaken == co.why # "Destination"

=============================================================================
