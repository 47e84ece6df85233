---------------------------- MODULE MatchControl ----------------------------
(***************************************************************************)
(* The lobby and its game servers: Lobby, WorkerControl and                *)
(* GameServerControl joined by the calls and frames that pass between      *)
(* them.                                                                   *)
(*   - LobbyTcpServer::Route executes the actions of a LobbyService result *)
(*     on the worker control server in the same call, and the worker       *)
(*     control server hands its events back to LobbyService in the same    *)
(*     call: while "inbox" is not empty no other lobby step happens.       *)
(*   - frames travel in order on each TCP connection.  Either end may see  *)
(*     the connection fail at any time, and does in the end when the other *)
(*     end has closed; a close loses the frames in flight to the closer    *)
(*     and may lose those in flight from it.                               *)
(*   - a game server may crash and come back under the same worker id.     *)
(***************************************************************************)
EXTENDS Lobby, Sequences

CONSTANT MaxControl   \* connections of the worker control channel

ASSUME ControlAssumption ==
    /\ Worker \subseteq Nat \ {0}
    /\ MaxControl \in Nat

VARIABLES
    nextControl, session, wstate, wconn, wmatch, tracked, timer,
    toServer, toLobby, inbox,
    link, linkState, registered, hosted

C == INSTANCE WorkerControl
S == INSTANCE GameServerControl

ControlId == 1..MaxControl

channels   == <<toServer, toLobby>>
lobbySide  == <<nextControl, session, wstate, wconn, wmatch, tracked, timer, inbox>>
serverVars == <<link, linkState, registered, hosted>>
vars == <<lobbyVars, lobbySide, channels, serverVars>>

SystemInit == Init /\ C!Init /\ S!Init

Quiet == inbox = <<>>

-----------------------------------------------------------------------------
(* The lobby's clients.  A start goes straight on to the registry, and so  *)
(* does the cancellation when a member of a Starting room goes away.       *)

ClientStarts(c) ==
    /\ Quiet
    /\ StartMatch(c)
    /\ C!Reserve(nextMatch)
    /\ UNCHANGED serverVars

ClientLeavesStart(c) ==
    /\ Quiet
    /\ DisconnectStarting(c)
    /\ C!Cancel(roomRes[RoomOf(c)])
    /\ UNCHANGED serverVars

ClientStep(c) ==
    /\ Quiet
    /\ \/ Hello(c)
       \/ CreateRoom(c)
       \/ \E r \in RoomId : JoinRoom(c, r)
       \/ LeaveRoom(c)
       \/ \E flag \in BOOLEAN : SetReady(c, flag)
       \/ StartMatchRollback(c)
       \/ DisconnectOutside(c)
       \/ DisconnectWaiting(c)
    /\ UNCHANGED <<lobbySide, channels, serverVars>>

ClientConnects ==
    /\ Quiet
    /\ OpenConnection
    /\ UNCHANGED <<lobbySide, channels, serverVars>>

Clock ==
    /\ Quiet
    /\ LastSecond \/ TicketsExpire
    /\ UNCHANGED <<lobbySide, channels, serverVars>>

-----------------------------------------------------------------------------
(* LobbyService::HandleWorkerEvent. *)

\* An event about a reservation or match the lobby has given up is ignored.
Ignored(e) ==
    /\ e.type \in {"Failed", "Ready"} => pending[e.match].room = None
    /\ e.type \in {"Finished", "Unavailable"} => active[e.match].worker # e.worker
    /\ UNCHANGED lobbyVars

LobbyHandles ==
    /\ inbox # <<>>
    /\ LET e == Head(inbox)
       IN  \/ e.type = "Failed" /\ ReservationFailed(e.match)
           \/ e.type = "Ready" /\ ReservationTooLate(e.match)
           \/ e.type = "Ready" /\ ReservationReady(e.match, e.worker)
           \/ e.type = "Finished" /\ FinishMatch(e.match, e.worker)
           \/ e.type = "Unavailable" /\ FinishMatch(e.match, e.worker)
           \/ Ignored(e)
    /\ inbox' = Tail(inbox)
    /\ UNCHANGED <<nextControl, session, wstate, wconn, wmatch, tracked, timer,
                   channels, serverVars>>

-----------------------------------------------------------------------------
(* The control channel. *)

ServerConnects(w) ==
    /\ Quiet
    /\ \E k \in ControlId : S!Connect(w, k) /\ C!Accept(k)
    /\ UNCHANGED lobbyVars

LobbyReceives(k) ==
    /\ Quiet
    /\ C!ControlStep(k)
    /\ UNCHANGED <<lobbyVars, serverVars>>

TimerFires(m) ==
    /\ Quiet
    /\ C!TimerFires(m)
    /\ UNCHANGED <<lobbyVars, serverVars>>

SessionFails(k) ==
    /\ Quiet
    /\ C!SessionFails(k)
    /\ UNCHANGED <<lobbyVars, serverVars>>

\* The lobby reads the end of stream after the server's end closed.
LobbyNotices(k) ==
    /\ \A w \in Worker : link[w] = k => linkState[w] # "Up"
    /\ SessionFails(k)

ServerStep(w) ==
    /\ S!HandleFrame(w) \/ S!MatchEnds(w) \/ S!ControlClosed(w)
    /\ UNCHANGED <<lobbyVars, lobbySide>>

ServerFails(w) ==
    /\ S!LinkFails(w) \/ S!Crash(w)
    /\ UNCHANGED <<lobbyVars, lobbySide>>

-----------------------------------------------------------------------------

SystemNext ==
    \/ \E c \in ConnectionId : ClientStarts(c) \/ ClientLeavesStart(c) \/ ClientStep(c)
    \/ ClientConnects
    \/ Clock
    \/ LobbyHandles
    \/ \E k \in ControlId : LobbyReceives(k) \/ SessionFails(k)
    \/ \E m \in MatchId : TimerFires(m)
    \/ \E w \in Worker : ServerConnects(w) \/ ServerStep(w) \/ ServerFails(w)

\* What runs without anybody's choice: the lobby's event loop takes the work that
\* is posted to it, its timers go off, and it sees that a connection was closed
\* at the other end.  Nothing is assumed of the clients or of the game servers,
\* which may hang for ever with the connection up.
Fairness ==
    /\ WF_vars(LobbyHandles)
    /\ \A k \in ControlId : WF_vars(LobbyReceives(k)) /\ WF_vars(LobbyNotices(k))
    /\ \A m \in MatchId : WF_vars(TimerFires(m))

SystemSpec == SystemInit /\ [][SystemNext]_vars
FairSpec == SystemSpec /\ Fairness

-----------------------------------------------------------------------------
(* Correctness. *)

\* Between two calls the lobby and the registry agree.  A pending reservation is
\* with the one Reserved worker that must answer for it; an active match is on a
\* worker that is Active with it; and an Active worker's match is the lobby's,
\* unless the answer came too late for the tickets and the lobby gave it up.
LobbyAndRegistryAgree ==
    Quiet =>
      /\ \A m \in MatchId :
            pending[m].room # None <=>
                \E w \in Worker : wstate[w] = "Reserved" /\ wmatch[w] = m
      /\ \A m \in MatchId, w \in Worker :
            active[m].worker = w => wstate[w] = "Active" /\ wmatch[w] = m
      /\ \A w \in Worker : wstate[w] = "Active" =>
            active[wmatch[w]].worker = w \/ wmatch[w] <= closing

\* A match that runs on a connected game server is the one the registry has for
\* it: crossed cancellations, failures and reconnects never leave a server with
\* a match the lobby takes for free.
RunningMatchesAreKnown ==
    \A w \in Worker :
        hosted[w] # None /\ linkState[w] = "Up" /\ session[link[w]] = "Open"
        => wconn[w] = link[w] /\ wmatch[w] = hosted[w]

\* The server's defensive branches against the lobby stay unused: the first
\* frame of a connection is Registered and comes once, and a reservation always
\* finds the server without a match (it is never Busy).
FramesExpected ==
    \A w \in Worker :
        linkState[w] = "Up" /\ toServer[link[w]] # <<>> =>
            LET f == Head(toServer[link[w]])
            IN  /\ f.type = "Registered" <=> ~registered[w]
                /\ f.type = "Reserve" => hosted[w] = None

\* The lobby, the registry and the game servers have the same matches in mind, on
\* every frame that crosses another one.
ServersMatchRegistry ==
    /\ S!ServerTypeOK
    /\ LobbyAndRegistryAgree
    /\ RunningMatchesAreKnown
    /\ FramesExpected

\* No start hangs: whatever happens to the workers, their connections and the
\* frames, a Starting room leaves that state.
StartResolves ==
    \A m \in MatchId : pending[m].room # None ~> pending[m].room = None

\* No worker is lost to a cancellation that is never acknowledged.
CancelResolves ==
    \A w \in Worker : wstate[w] = "Cancelling" ~> wstate[w] # "Cancelling"

\* The lobby learns that a match is gone, by its result or by the loss of its
\* server, and lets the players out of the room.
GoneMatchesAreReported ==
    \A m \in MatchId, w \in Worker :
        active[m].worker = w /\ hosted[w] # m ~> active[m].room = None

\* Whatever the lobby waits for a server to end, ends.
LossesResolve == CancelResolves /\ GoneMatchesAreReported

\* The lobby with its game servers implements MatchLifecycle.
Stage(m) ==
    IF pending[m].room # None THEN "Asked"
    ELSE IF active[m].room # None THEN "Running"
    ELSE IF m < nextMatch THEN "Over"
    ELSE "Unused"

Lifecycle == INSTANCE MatchLifecycle WITH
    MatchIds <- MatchId, Servers <- Worker, NoServer <- None,
    stage <- [m \in MatchId |-> Stage(m)],
    server <- [m \in MatchId |-> active[m].worker]

LifecycleSafe == Lifecycle!SafeSpec

=============================================================================
