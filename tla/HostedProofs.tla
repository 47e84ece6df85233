---------------------------- MODULE HostedProofs ----------------------------
(***************************************************************************)
(* NetworkClientController::Stop finds the game session in whatever hands   *)
(* it is, and the three programs of one room fit each other: as long as no  *)
(* connection is lost, no worker dies, no timer fires and nobody stops, no  *)
(* client finds a message it did not expect and the lobby refuses nothing   *)
(* (HostedRoom, LobbyHost, BotCoordinator): proved for any number of        *)
(* players, bots, rooms and matches.                                        *)
(***************************************************************************)
EXTENDS HostedRoom, LobbyProofs, FiniteSetTheorems, SequenceTheorems

\* While Stop goes on: once it has looked for the stored session none is stored
\* any more, and once the handler it posted has run none is being started.
StopInv ==
    /\ hostGame \in {"None", "Started", "Stored", "Stopped"}
    /\ hostStop = "Posted" => hostGame # "Stored"
    /\ hostStop \in {"Closed", "Done"} => hostGame \in {"None", "Stopped"}

-----------------------------------------------------------------------------
\* What a step of the whole room is to the controller's two threads: a session
\* is only ever started by a lobby thread that nobody has stopped.
ThreadStep ==
    \/ UNCHANGED <<hostStop, hostGame>>
    \/ hostStop = "No" /\ hostStop' = "No" /\ hostGame' = "Started"
    \/ H!StoreSession \/ H!RequestStop \/ H!StopSession \/ H!CloseOnThread \/ H!Join

LEMMA ObeySteps ==
    ASSUME NEW answer, H!Listens, H!Obey(answer)
    PROVE  ThreadStep
<1>1. hostStop = "No"  BY DEF H!Listens, H!StopRequested
<1>2. hostStop' = hostStop  BY DEF H!Obey
<1>3. hostGame' = "Started" \/ hostGame' = hostGame  BY DEF H!Obey
<1> QED  BY <1>1, <1>2, <1>3 DEF ThreadStep

LEMMA FailSteps ==
    ASSUME NEW reason, H!Fail(reason)
    PROVE  ThreadStep
BY DEF H!Fail, ThreadStep

LEMMA ReceiveSteps ==
    ASSUME HostReceives
    PROVE  ThreadStep
<1> DEFINE m == Head(messages[HostConnection])
<1>1. H!Listens  BY DEF HostReceives
<1>2. H!Fail("Error") \/ H!Obey(Answer(m))
  BY DEF HostReceives
<1> HIDE DEF m
<1> QED  BY <1>1, <1>2, ObeySteps, FailSteps

LEMMA ThreadSteps ==
    ASSUME HostThreads
    PROVE  ThreadStep
BY DEF HostThreads, ThreadStep

\* Every other step is the lobby's, the game server's or the bots'.
LEMMA OtherSteps ==
    ASSUME UNCHANGED hostVars
    PROVE  ThreadStep
BY DEF hostVars, ThreadStep

LEMMA RoomSteps ==
    ASSUME [RoomNext]_vars
    PROVE  ThreadStep
<1>1. ASSUME NEW c \in ConnectionId,
             LobbyGrants(c) \/ LobbyRefuses(c) \/ LobbyRollsBack(c)
             \/ LobbyDisconnects(c) \/ ConnectionFails(c)
      PROVE  ThreadStep
  <2>1. UNCHANGED hostVars
    BY <1>1 DEF LobbyGrants, LobbyRefuses, LobbyRollsBack, LobbyDisconnects,
                ConnectionFails, TakesRequest
  <2> QED  BY <2>1, OtherSteps
<1>2. ASSUME NEW m \in MatchId, NEW w \in Worker, ServerReady(m, w) \/ MatchEnds(m, w)
      PROVE  ThreadStep
  <2>1. UNCHANGED hostVars  BY <1>2 DEF ServerReady, MatchEnds
  <2> QED  BY <2>1, OtherSteps
<1>3. ASSUME NEW m \in MatchId, ServerFails(m) \/ MatchIsOver(m)
      PROVE  ThreadStep
  <2>1. UNCHANGED hostVars  BY <1>3 DEF ServerFails, MatchIsOver
  <2> QED  BY <2>1, OtherSteps
<1>4. ASSUME HostConnects \/ BotsStart \/ BotTicks \/ BotTimers \/ BotsStop
      PROVE  ThreadStep
  <2>1. UNCHANGED hostVars
    BY <1>4 DEF HostConnects, BotsStart, BotTicks, BotTimers, BotsStop
  <2> QED  BY <2>1, OtherSteps
<1>5. ASSUME NEW b \in 1..Bots,
             BotConnects(b) \/ BotReceives(b) \/ BotNotices(b) \/ BotSessions(b)
      PROVE  ThreadStep
  <2>1. UNCHANGED hostVars
    BY <1>5 DEF BotConnects, BotReceives, BotNotices, BotSessions
  <2> QED  BY <2>1, OtherSteps
<1>6. CASE HostReceives  BY <1>6, ReceiveSteps
<1>7. CASE HostNotices  BY <1>7, FailSteps DEF HostNotices
<1>8. CASE HostThreads  BY <1>8, ThreadSteps
<1>9. CASE UNCHANGED vars
  <2>1. UNCHANGED hostVars  BY <1>9 DEF vars
  <2> QED  BY <2>1, OtherSteps
<1> QED  BY <1>1, <1>2, <1>3, <1>4, <1>5, <1>6, <1>7, <1>8, <1>9 DEF RoomNext

-----------------------------------------------------------------------------
LEMMA StepInv ==
    ASSUME StopInv, ThreadStep
    PROVE  StopInv'
<1>1. CASE UNCHANGED <<hostStop, hostGame>>  BY <1>1 DEF StopInv
<1>2. CASE hostStop = "No" /\ hostStop' = "No" /\ hostGame' = "Started"
  BY <1>2 DEF StopInv
<1>3. CASE H!StoreSession  BY <1>3 DEF StopInv, H!StoreSession, H!StopRequested
<1>4. CASE H!RequestStop  BY <1>4 DEF StopInv, H!RequestStop
<1>5. CASE H!StopSession  BY <1>5 DEF StopInv, H!StopSession
<1>6. CASE H!CloseOnThread  BY <1>6 DEF StopInv, H!CloseOnThread
<1>7. CASE H!Join  BY <1>7 DEF StopInv, H!Join
<1> QED  BY <1>1, <1>2, <1>3, <1>4, <1>5, <1>6, <1>7 DEF ThreadStep

\* The controller's Stop (NetworkClientController.cpp:445) leaves no game session
\* running, whether the lobby thread has begun, started or stored it by then.
THEOREM StopAlwaysLeavesNothing == RoomSpec => []StopLeavesNothing
<1>1. RoomInit => StopInv  BY DEF RoomInit, H!Init, StopInv
<1>2. StopInv /\ [RoomNext]_vars => StopInv'  BY RoomSteps, StepInv
<1>3. StopInv => StopLeavesNothing  BY DEF StopInv, StopLeavesNothing
<1> QED  BY <1>1, <1>2, <1>3, PTL DEF RoomSpec

-----------------------------------------------------------------------------
(* The conversation on each connection.  The invariant of the whole room   *)
(* has to say how far every client has come, what the lobby knows of it and *)
(* what is under way between them.                                         *)

Seat == 1..(Bots + 1)       \* the connections: the host's and the bots'
Everyone == 1..(Bots + 1)   \* the players the lobby makes of them

Me(c) == IF c = HostConnection THEN flow.player ELSE bot[c - 1].player
HasReadied(c) == IF c = HostConnection THEN flow.readyRequested ELSE bot[c - 1].readySent
Way(c) == IF c = HostConnection THEN "CreateRoom" ELSE "JoinRoom"

Asked(c, q) == requests[c] = <<q>>
Inbox(c) == 1..Len(messages[c])
Hears(c, type) == \E i \in Inbox(c) : messages[c][i].type = type

Note ==
    [type : {"Welcome"}, player : PlayerId] \cup [type : {"Room"}, view : View]
    \cup [type : {"Ticket"}, match : MatchId] \cup [type : {"Error", "RoomList"}]

WireTypes ==
    /\ DOMAIN requests = ConnectionId
    /\ messages \in [ConnectionId -> Seq(Note)]
    /\ link \in [ConnectionId -> {"Down", "Up", "Cut"}]
    /\ trouble \in Nat

\* The one result that the game server sends.
TheResult == B!Result(1, 1)
Results == {B!NoResult, TheResult}
Playing == {"Connecting", "Running", "Finished"}

\* The flow and the coordinator have met nothing that confuses them.
ClientTypes ==
    /\ flow \in [player : PlayerId \cup {None}, room : {None, 1},
                 readyRequested : BOOLEAN, startRequested : BOOLEAN,
                 ticketReceived : BOOLEAN]
    /\ bot \in [1..Bots -> [player : PlayerId \cup {None}, readySent : BOOLEAN,
                            ticket : {None, 1}, game : B!GameState,
                            result : Results, finished : BOOLEAN, exit : Nat]]
    /\ co \in [started : BOOLEAN, done : BOOLEAN, exit : Nat,
               why : {"None", "Results", "Destination", "Stopped", "Timeout", "Error",
                      "Closed", "Session"},
               tickets : Nat, sessions : Nat, match : {None, 1}, ticking : BOOLEAN,
               result : Results]
    /\ moving \in 0..Bots /\ play = TRUE
    /\ hostFailed \in {"No", "Error", "Closed"}

\* The five stages of a conversation.  Nobody asks twice before an answer, and
\* the welcome is never behind another message.
Silent(c) ==
    /\ requests[c] = <<>> /\ messages[c] = <<>> /\ link[c] # "Up"
    /\ Me(c) = None /\ ~HasReadied(c)
    /\ c \in open => connPlayer[c] # None
Greeting(c) ==
    /\ Asked(c, "Hello") /\ messages[c] = <<>>
    /\ Me(c) = None /\ ~HasReadied(c) /\ connPlayer[c] = None
Greeted(c) ==
    /\ requests[c] = <<>> /\ Me(c) = None /\ ~HasReadied(c)
    /\ \E p \in PlayerId : /\ messages[c] = <<WelcomeTo(p)>>
                           /\ c \in open => connPlayer[c] = p /\ playerRoom[p] = None
Entering(c) ==
    /\ Asked(c, Way(c)) /\ messages[c] = <<>>
    /\ Me(c) # None /\ ~HasReadied(c)
    /\ c \in open => connPlayer[c] = Me(c) /\ playerRoom[Me(c)] = None
Inside(c) ==
    /\ \/ requests[c] = <<>>
       \/ Asked(c, "SetReady") /\ HasReadied(c)
       \/ Asked(c, "StartMatch") /\ c = HostConnection
    /\ ~Hears(c, "Welcome")
    /\ Me(c) # None
    /\ c \in open => connPlayer[c] = Me(c)

Talk(c) == Silent(c) \/ Greeting(c) \/ Greeted(c) \/ Entering(c) \/ Inside(c)
TalkInv == \A c \in Seat : Talk(c)

\* Connections are opened once each, the bots' after the host has its room.
LinkInv ==
    /\ nextConnection <= Bots + 2
    /\ \A c \in ConnectionId :
         /\ link[c] = "Up" => c \in open
         /\ c >= nextConnection => link[c] # "Up"
    /\ \A c \in Seat : c >= nextConnection => Silent(c)
    /\ nextConnection > 2 => co.started
    /\ co.started => flow.room # None

\* Who is ready has said so, and the lobby has read it.
ReadyInv ==
    /\ \A r \in RoomId : ready[r] \subseteq members[r]
    /\ \A c \in Seat, r \in RoomId :
          c \in open /\ connPlayer[c] \in ready[r] =>
              HasReadied(c) /\ ~Asked(c, "SetReady")

Begun == nextMatch = 2 /\ pending[1].room = None

\* The host is where its flow says; there is one room and one match, and the
\* host leads the room while it is connected.
FlowInv ==
    /\ nextRoom <= 2 /\ nextMatch <= 2
    /\ flow.room # None => nextRoom = 2
    /\ ~Inside(HostConnection) => nextRoom = 1
    /\ flow.readyRequested => flow.room # None
    /\ flow.startRequested => flow.readyRequested
    /\ flow.ticketReceived => flow.startRequested /\ Begun
    /\ Asked(HostConnection, "StartMatch") => flow.startRequested /\ nextMatch = 1
    /\ ~flow.startRequested => nextMatch = 1

LeadInv ==
    /\ HostConnection \in open /\ Exists(1) =>
         connPlayer[HostConnection] \in members[1] /\ roomHost[1] = connPlayer[HostConnection]
    /\ \A m \in MatchId :
         pending[m].room # None => pending[m].requester \in pending[m].players

\* What the host finds in its messages is what its flow expects.
ViewFits(v) ==
    /\ v.room = 1 /\ nextRoom = 2
    /\ v.host = flow.player /\ flow.player \in v.members
    /\ v.members \subseteq Everyone
    /\ flow.player \in v.ready => flow.readyRequested /\ ~Asked(HostConnection, "SetReady")

RoomsFit ==
    \A i \in Inbox(HostConnection) : messages[HostConnection][i].type = "Room" =>
        ViewFits(messages[HostConnection][i].view)

TicketAt(i) == messages[HostConnection][i].type = "Ticket"
TicketsFit ==
    /\ \A i \in Inbox(HostConnection) : TicketAt(i) =>
         /\ flow.startRequested /\ ~flow.ticketReceived
         /\ \A j \in Inbox(HostConnection) : TicketAt(j) => i = j
    /\ \A i \in Inbox(HostConnection) : messages[HostConnection][i].type = "RoomList" =>
         flow.ticketReceived \/ \E j \in 1..(i - 1) : TicketAt(j)
    /\ link[HostConnection] = "Up" /\ (\E m \in MatchId : active[m].room # None) =>
         flow.ticketReceived \/ Hears(HostConnection, "Ticket")

\* Tickets, game sessions and their results are of the one match, after it has
\* begun.
GamesFit ==
    /\ \A c \in Seat : \A i \in Inbox(c) :
         messages[c][i].type = "Ticket" => messages[c][i].match = 1 /\ Begun
    /\ co.ticking => Begun
    /\ moving # None => co.ticking
    /\ \A b \in 1..Bots :
         /\ bot[b].game # "None" => co.ticking
         /\ bot[b].game \in Playing => bot[b].ticket = 1
         /\ bot[b].game = "Finished" => bot[b].result = TheResult

\* Each connection makes one player.
Greeters == {c \in Seat : c < nextConnection /\ ~Asked(c, "Hello")}
CountInv == nextPlayer <= Cardinality(Greeters) + 1

\* As long as nothing has gone wrong: nobody has failed or gone, and no error is
\* on its way;
Quiet ==
    /\ hostFailed = "No" /\ hostStop = "No"
    /\ co.why \in {"None", "Results", "Destination"}
    /\ co.done => Begun
    /\ lobbyTimer # "Fired" /\ gameTimer # "Fired"
    /\ \A b \in 1..Bots : bot[b].game # "Failed"
    /\ \A c \in Seat :
         /\ ~Hears(c, "Error")
         /\ c < nextConnection => link[c] = "Up" \/ (c # HostConnection /\ co.done)
         /\ link[c] = "Cut" => c < nextConnection

\* until the start the room only grows, so what the host has seen of it is still
\* there;
Grows ==
    /\ nextOrdinal = Cardinality(members[1]) + 1
    /\ nextRoom = 2 => roomState[1] = "Waiting"
    /\ \A c \in Seat : Inside(c) => Me(c) \in members[1]
    /\ \A i \in Inbox(HostConnection) : messages[HostConnection][i].type = "Room" =>
         /\ messages[HostConnection][i].view.members \subseteq members[1]
         /\ messages[HostConnection][i].view.ready \subseteq ready[1]
    /\ Asked(HostConnection, "StartMatch") =>
         Everyone \subseteq members[1] /\ Everyone \subseteq ready[1]

\* and after the start nobody asks for anything any more.
Settled == \A c \in Seat : requests[c] = <<>> /\ HasReadied(c)

QuietInv ==
    trouble = 0 => /\ Quiet
                   /\ nextMatch = 1 => Grows
                   /\ nextMatch = 2 => Settled

RoomInv ==
    /\ LobbyInv /\ WireTypes /\ ClientTypes
    /\ TalkInv /\ LinkInv /\ ReadyInv /\ FlowInv /\ LeadInv
    /\ RoomsFit /\ TicketsFit /\ GamesFit /\ CountInv /\ QuietInv

-----------------------------------------------------------------------------
(* First consequences. *)

LEMMA RoomBounds ==
    /\ Bots \in Nat /\ Bots >= 1
    /\ Seat \subseteq ConnectionId /\ HostConnection \in Seat /\ HostConnection = 1
    /\ Everyone \subseteq PlayerId
    /\ 1 \in RoomId /\ 1 \in MatchId /\ 1 \in ConnectionId
    /\ \A b \in 1..Bots : BotConnection(b) \in Seat \ {1} /\ BotConnection(b) - 1 = b
BY Bounds, BotAssumption, RoomSuffices
DEF Seat, ConnectionId, HostConnection, Everyone, PlayerId, RoomId, MatchId, BotConnection

\* Only the seats' connections are ever open.
LEMMA OpenSeat ==
    ASSUME LobbyInv, LinkInv, NEW c \in open
    PROVE  c \in Seat /\ c < nextConnection
<1>1. c \in ConnectionId /\ c < nextConnection /\ nextConnection \in Nat
  BY Bounds DEF LobbyInv, TypeOK, IdsAreFresh
<1> QED  BY <1>1, RoomBounds DEF LinkInv, Seat, ConnectionId

LEMMA UpSeat ==
    ASSUME LobbyInv, LinkInv, NEW c \in ConnectionId, link[c] = "Up"
    PROVE  c \in Seat /\ c \in open /\ c < nextConnection
<1>1. c \in open  BY DEF LinkInv
<1> QED  BY <1>1, OpenSeat

\* There is one room and one match.
LEMMA OneRoom ==
    ASSUME LobbyInv, FlowInv, NEW r \in RoomId, Exists(r) \/ members[r] # {}
    PROVE  r = 1 /\ nextRoom = 2 /\ Exists(1) /\ members[1] # {}
<1>1. Exists(r) /\ members[r] # {}  BY DEF LobbyInv, MembershipAgrees
<1>2. r < nextRoom /\ nextRoom \in Nat
  BY <1>1, Bounds DEF LobbyInv, TypeOK, IdsAreFresh
<1> QED  BY <1>1, <1>2 DEF FlowInv, RoomId

LEMMA OneMatch ==
    ASSUME LobbyInv, FlowInv, NEW m \in MatchId, pending[m].room # None \/ active[m].room # None
    PROVE  m = 1 /\ nextMatch = 2
<1>1. m < nextMatch /\ nextMatch \in Nat
  BY Bounds DEF LobbyInv, TypeOK, IdsAreFresh
<1> QED  BY <1>1 DEF FlowInv, MatchId

LEMMA GreetersAreFew ==
    /\ IsFiniteSet(Greeters) /\ IsFiniteSet(Seat)
    /\ Cardinality(Greeters) \in Nat /\ Cardinality(Greeters) <= Bots + 1
    /\ Greeters = Seat \/ Cardinality(Greeters) <= Bots
<1>1. IsFiniteSet(Seat) /\ Cardinality(Seat) = Bots + 1
  BY FS_Interval, RoomBounds DEF Seat
<1>2. Greeters \subseteq Seat  BY DEF Greeters
<1>3. /\ IsFiniteSet(Greeters) /\ Cardinality(Greeters) <= Cardinality(Seat)
      /\ Cardinality(Greeters) = Cardinality(Seat) => Greeters = Seat
  BY <1>1, <1>2, FS_Subset
<1>4. Cardinality(Greeters) \in Nat  BY <1>3, FS_CardinalityType
<1> QED  BY <1>1, <1>3, <1>4, RoomBounds

\* So there are no more players than connections, and a room has no others.
LEMMA PlayersAreFew ==
    ASSUME LobbyInv, CountInv
    PROVE  /\ nextPlayer <= Bots + 2
           /\ \A p \in PlayerId : playerConn[p] # None \/ playerRoom[p] # None => p \in Everyone
           /\ \A r \in RoomId : members[r] \subseteq Everyone
           /\ \A c \in ConnectionId : connPlayer[c] # None => connPlayer[c] \in Everyone
<1>1. nextPlayer \in Nat  BY Bounds DEF LobbyInv, TypeOK
<1>2. nextPlayer <= Bots + 2  BY <1>1, GreetersAreFew, RoomBounds DEF CountInv
<1>3. ASSUME NEW p \in PlayerId, playerConn[p] # None \/ playerRoom[p] # None
      PROVE  p \in Everyone
  <2>1. p < nextPlayer  BY <1>3 DEF LobbyInv, IdsAreFresh
  <2> QED  BY <1>1, <1>2, <2>1, RoomBounds, Bounds DEF Everyone, PlayerId
<1>4. ASSUME NEW r \in RoomId, NEW p \in members[r] PROVE p \in Everyone
  <2>1. p \in PlayerId /\ playerRoom[p] = r /\ r # None
    BY <1>4 DEF LobbyInv, TypeOK, MembershipAgrees, RoomId, None
  <2> QED  BY <2>1, <1>3
<1>5. ASSUME NEW c \in ConnectionId, connPlayer[c] # None PROVE connPlayer[c] \in Everyone
  <2>1. connPlayer[c] \in PlayerId /\ playerConn[connPlayer[c]] = c /\ c # None
    BY <1>5 DEF LobbyInv, TypeOK, ConnectionsAgree, ConnectionId, None
  <2> QED  BY <2>1, <1>3
<1> QED  BY <1>2, <1>3, <1>4, <1>5

\* A greeting is never refused: there is a player left for everybody.
LEMMA GreetingFits ==
    ASSUME LobbyInv, CountInv, NEW c \in Seat, Asked(c, "Hello")
    PROVE  nextPlayer \in PlayerId /\ nextPlayer \in Everyone /\ nextPlayer \in 1..(Bots + 1)
<1>1. Greeters # Seat  BY DEF Greeters
<1>2. nextPlayer \in Nat /\ nextPlayer >= 1  BY Bounds DEF LobbyInv, TypeOK
<1> QED  BY <1>1, <1>2, GreetersAreFew, RoomBounds, Bounds, RoomSuffices
         DEF CountInv, Everyone, PlayerId

\* Whom a broadcast reaches.
LEMMA ReachedAre ==
    ASSUME LobbyInv, NEW S, S \subseteq PlayerId, NEW c \in ConnectionId
    PROVE  c \in ConnectionsOf(S) <=> connPlayer[c] \in S
<1>1. \A p \in PlayerId : connPlayer[c] = p <=> playerConn[p] = c
  BY DEF LobbyInv, ConnectionsAgree
<1>2. c # None  BY DEF ConnectionId, None
<1> QED  BY <1>1, <1>2 DEF ConnectionsOf

-----------------------------------------------------------------------------
(* What is sent. *)

\* In this step c is sent messages in N only.
SentOnly(c, N) ==
    /\ messages'[c] \in Seq(Note)
    /\ Len(messages[c]) <= Len(messages'[c])
    /\ \A i \in Inbox(c) : messages'[c][i] = messages[c][i]
    /\ \A i \in Inbox(c)' \ Inbox(c) : messages'[c][i] \in N
    /\ link[c] # "Up" => messages'[c] = messages[c]

LEMMA InboxType ==
    ASSUME WireTypes, NEW c \in ConnectionId
    PROVE  /\ messages[c] \in Seq(Note) /\ Len(messages[c]) \in Nat
           /\ \A i \in Inbox(c) : messages[c][i] \in Note /\ i \in Nat
<1>1. messages[c] \in Seq(Note)  BY DEF WireTypes
<1>2. Len(messages[c]) \in Nat /\ \A i \in 1..Len(messages[c]) : messages[c][i] \in Note
  BY <1>1, LenProperties, ElementOfSeq
<1> QED  BY <1>1, <1>2 DEF Inbox

LEMMA SendsOnly ==
    ASSUME WireTypes, NEW sent, Sends(sent), NEW c \in ConnectionId,
           NEW N, N \subseteq Note, sent[c] \in Seq(N)
    PROVE  SentOnly(c, N)
<1> DEFINE s == messages[c]  t == sent[c]
<1>1. s \in Seq(Note) /\ Len(s) \in Nat  BY InboxType
<1>2. t \in Seq(Note)  BY SeqMonotonic
<1>3. Len(t) \in Nat /\ \A i \in 1..Len(t) : t[i] \in N  BY LenProperties, ElementOfSeq
<1>4. /\ s \o t \in Seq(Note) /\ Len(s \o t) = Len(s) + Len(t)
      /\ \A i \in 1..Len(s) + Len(t) :
             (s \o t)[i] = IF i <= Len(s) THEN s[i] ELSE t[i - Len(s)]
  BY <1>1, <1>2, ConcatProperties
<1>5. messages'[c] = IF link[c] = "Up" THEN s \o t ELSE s  BY DEF Sends, Delivered
<1> HIDE DEF s, t
<1>6. CASE link[c] = "Up"
  <2>1. messages'[c] = s \o t  BY <1>5, <1>6
  <2>2. \A i \in 1..Len(s) : (s \o t)[i] = s[i]  BY <1>1, <1>3, <1>4
  <2>3. ASSUME NEW i \in (1..Len(s) + Len(t)) \ (1..Len(s)) PROVE (s \o t)[i] \in N
    <3>1. i - Len(s) \in 1..Len(t) /\ ~(i <= Len(s))  BY <1>1, <1>3, <2>3
    <3> QED  BY <1>1, <1>3, <1>4, <3>1
  <2>4. Inbox(c)' = 1..Len(s) + Len(t) /\ Inbox(c) = 1..Len(s)
    BY <1>4, <2>1 DEF Inbox, s
  <2> QED  BY <1>1, <1>3, <1>4, <1>6, <2>1, <2>2, <2>3, <2>4 DEF SentOnly, s
<1>7. CASE link[c] # "Up"
  BY <1>1, <1>5, <1>7 DEF SentOnly, Inbox, s
<1> QED  BY <1>6, <1>7

LEMMA SentMore ==
    ASSUME NEW c, NEW M, NEW N, M \subseteq N, SentOnly(c, M)
    PROVE  SentOnly(c, N)
BY DEF SentOnly

LEMMA SentNothing ==
    ASSUME WireTypes, NEW c \in ConnectionId, SentOnly(c, {})
    PROVE  messages'[c] = messages[c]
<1>1. messages[c] \in Seq(Note) /\ messages'[c] \in Seq(Note)  BY InboxType DEF SentOnly
<1>2. Len(messages[c]) \in Nat /\ Len(messages'[c]) \in Nat  BY <1>1, LenProperties
<1>3. Len(messages[c]) = Len(messages'[c])
  BY <1>2 DEF SentOnly, Inbox
<1> QED  BY <1>1, <1>3, SeqEqual DEF SentOnly, Inbox

LEMMA SendsTypes ==
    ASSUME WireTypes, NEW sent, Sends(sent), \A c \in ConnectionId : sent[c] \in Seq(Note)
    PROVE  messages' \in [ConnectionId -> Seq(Note)]
<1>1. \A c \in ConnectionId : messages'[c] \in Seq(Note)
  BY SendsOnly DEF SentOnly
<1> QED  BY <1>1 DEF Sends, Delivered

LEMMA OneNote ==
    ASSUME NEW N, NEW m \in N
    PROVE  <<m>> \in Seq(N)
OBVIOUS

LEMMA NoNote ==
    ASSUME NEW N
    PROVE  <<>> \in Seq(N)
BY EmptySeq

-----------------------------------------------------------------------------
(* A step of the lobby or the game server, as the clients see it.          *)

\* What connection c may be sent by a step that answers a request of a or loses
\* a; 0 for the steps of the game server.
Proper(a, c) ==
    {m \in Note :
        /\ m.type # "Welcome"
        /\ connPlayer[c] # None /\ (c = a \/ playerRoom[connPlayer[c]] # None)
        /\ m.type = "Room" => m = RoomMessage(1) /\ connPlayer[c] \in members'[1]
        /\ m.type = "Ticket" => /\ m.match = 1 /\ Begun'
                               /\ active[1].room = None /\ active'[1].room # None
        /\ m.type = "Error" => trouble' > 0
        /\ m.type = "RoomList" => \E n \in MatchId : active[n].room # None}

\* The clients do not move, their connections neither, and the lobby changes its
\* mind about no other client than a.
LobbySide(a) ==
    /\ UNCHANGED <<hostVars, botVars, link, nextConnection, nextPlayer>>
    /\ DOMAIN requests' = ConnectionId
    /\ \A c \in ConnectionId : requests'[c] = IF c = a THEN <<>> ELSE requests[c]
    /\ messages' \in [ConnectionId -> Seq(Note)]
    /\ \A c \in ConnectionId : SentOnly(c, Proper(a, c))
    /\ trouble' \in Nat /\ trouble <= trouble'
    /\ open' \subseteq open /\ open \ {a} \subseteq open'
    /\ \A c \in open' : connPlayer'[c] = connPlayer[c]
    /\ \A c \in open' \ {a} :
          connPlayer[c] # None /\ playerRoom[connPlayer[c]] = None =>
              playerRoom'[connPlayer[c]] = None
    /\ \A c \in open', r \in RoomId :
          connPlayer[c] \in ready'[r] => connPlayer[c] \in ready[r] \/ (c = a /\ HasReadied(a))
    /\ a # None => /\ a \in open
                   /\ a \in open' => Entering(a) \/ Inside(a)
                   /\ a \notin open' => link[a] # "Up"
    /\ Begun => Begun'

LEMMA SameClients ==
    ASSUME UNCHANGED <<hostVars, botVars>>, NEW c
    PROVE  Me(c)' = Me(c) /\ HasReadied(c)' = HasReadied(c)
BY DEF hostVars, botVars, Me, HasReadied

\* A client outside the room is not spoken to.
LEMMA NotSpokenTo ==
    ASSUME WireTypes, NEW a, NEW c \in ConnectionId, SentOnly(c, Proper(a, c)),
           \/ link[c] # "Up"
           \/ connPlayer[c] = None
           \/ c # a /\ playerRoom[connPlayer[c]] = None
    PROVE  messages'[c] = messages[c]
<1>1. CASE link[c] # "Up"  BY <1>1 DEF SentOnly
<1>2. CASE link[c] = "Up"
  <2>1. Proper(a, c) = {}  BY <1>2 DEF Proper
  <2> QED  BY <2>1, SentNothing
<1> QED  BY <1>1, <1>2

LEMMA NoWelcomeSent ==
    ASSUME NEW a, NEW c \in ConnectionId, SentOnly(c, Proper(a, c)), ~Hears(c, "Welcome")
    PROVE  ~Hears(c, "Welcome")'
<1>1. \A i \in Inbox(c)' : messages'[c][i].type # "Welcome"
  BY DEF SentOnly, Proper, Hears
<1> QED  BY <1>1 DEF Hears

LEMMA InsideStays ==
    ASSUME RoomInv, NEW a, LobbySide(a), NEW c \in Seat, Inside(c)
    PROVE  Inside(c)'
<1>1. c \in ConnectionId  BY RoomBounds
<1>2. Me(c)' = Me(c) /\ HasReadied(c)' = HasReadied(c)  BY SameClients DEF LobbySide
<1>3. ~Hears(c, "Welcome")'  BY <1>1, NoWelcomeSent DEF LobbySide, Inside
<1>4. requests'[c] \in {requests[c], <<>>}  BY <1>1 DEF LobbySide
<1>5. c \in open' => connPlayer'[c] = Me(c)  BY DEF LobbySide, Inside
<1> QED  BY <1>2, <1>3, <1>4, <1>5 DEF Inside, Asked

LEMMA EntersOrStays ==
    ASSUME RoomInv, NEW a \in Seat, LobbySide(a), Entering(a)
    PROVE  Inside(a)'
<1>1. a \in ConnectionId /\ a # None  BY RoomBounds DEF ConnectionId, None
<1>2. Me(a)' = Me(a) /\ HasReadied(a)' = HasReadied(a)  BY SameClients DEF LobbySide
<1>3. ~Hears(a, "Welcome")
  <2>1. Inbox(a) = {}  BY DEF Entering, Inbox
  <2> QED  BY <2>1 DEF Hears
<1>4. ~Hears(a, "Welcome")'  BY <1>1, <1>3, NoWelcomeSent DEF LobbySide
<1>5. requests'[a] = <<>>  BY <1>1 DEF LobbySide
<1>6. a \in open' => connPlayer'[a] = Me(a)  BY DEF LobbySide, Entering
<1> QED  BY <1>2, <1>4, <1>5, <1>6 DEF Inside, Entering

LEMMA TalkAside ==
    ASSUME RoomInv, NEW a, LobbySide(a), LobbyInv', NEW c \in Seat
    PROVE  Talk(c)' /\ (Inside(c) => Inside(c)') /\ (Silent(c) => Silent(c)')
<1> USE DEF LobbySide
<1>1. c \in ConnectionId /\ WireTypes /\ c # None
  BY RoomBounds DEF RoomInv, ConnectionId, None
<1>2. Me(c)' = Me(c) /\ HasReadied(c)' = HasReadied(c)  BY SameClients
<1>3. link'[c] = link[c]  OBVIOUS
<1>4. c \in open' => c \in open /\ connPlayer'[c] = connPlayer[c]  OBVIOUS
<1>5. c \notin open' => connPlayer'[c] = None
  BY <1>1 DEF LobbyInv, ConnectionsAgree
<1>6. ASSUME link[c] # "Up" \/ connPlayer[c] = None
             \/ (c # a /\ playerRoom[connPlayer[c]] = None)
      PROVE  messages'[c] = messages[c]
  BY <1>1, <1>6, NotSpokenTo
<1>7. link[c] = "Up" => c \in open  BY <1>1 DEF RoomInv, LinkInv
<1>8. CASE Silent(c)
  <2>1. messages'[c] = messages[c]  BY <1>6, <1>8 DEF Silent
  <2>2. requests'[c] = <<>>  BY <1>1, <1>8 DEF Silent
  <2>3. Silent(c)'  BY <1>2, <1>3, <1>4, <1>8, <2>1, <2>2 DEF Silent
  <2>4. ~Inside(c)  BY <1>8 DEF Silent, Inside
  <2> QED  BY <2>3, <2>4 DEF Talk
<1>9. CASE Inside(c)
  <2>1. Inside(c)'  BY <1>9, InsideStays
  <2>2. ~Silent(c)  BY <1>9 DEF Silent, Inside
  <2> QED  BY <2>1, <2>2 DEF Talk
<1>10. CASE Greeting(c)
  <2>1. messages'[c] = messages[c]  BY <1>6, <1>10 DEF Greeting
  <2>2. ~Silent(c) /\ ~Inside(c) /\ ~Entering(c)
    BY <1>10 DEF Greeting, Silent, Inside, Asked, Entering, Way
  <2>3. CASE c # a
    <3>1. requests'[c] = requests[c]  BY <1>1, <2>3
    <3>2. connPlayer'[c] = None  BY <1>4, <1>5, <1>10 DEF Greeting
    <3>3. Greeting(c)'  BY <1>2, <1>10, <2>1, <3>1, <3>2 DEF Greeting, Asked
    <3> QED  BY <2>2, <3>3 DEF Talk
  <2>4. CASE c = a
    <3>1. requests'[c] = <<>>  BY <1>1, <2>4
    <3>2. c \notin open' /\ link[c] # "Up"  BY <1>1, <2>2, <2>4
    <3>3. Silent(c)'  BY <1>2, <1>3, <1>10, <2>1, <3>1, <3>2 DEF Greeting, Silent
    <3> QED  BY <2>2, <3>3 DEF Talk
  <2> QED  BY <2>3, <2>4
<1>11. CASE Greeted(c)
  <2>1. PICK p \in PlayerId : /\ messages[c] = <<WelcomeTo(p)>>
                              /\ c \in open => connPlayer[c] = p /\ playerRoom[p] = None
    BY <1>11 DEF Greeted
  <2>2. ~Silent(c) /\ ~Inside(c) /\ ~Entering(c)
    <3>1. messages[c] # <<>>  BY <2>1
    <3> QED  BY <1>11, <3>1 DEF Greeted, Silent, Inside, Entering
  <2>3. c = a => c \notin open' /\ link[c] # "Up"  BY <1>1, <2>2
  <2>4. messages'[c] = messages[c]  BY <1>6, <1>7, <2>1, <2>3
  <2>5. requests'[c] = <<>>  BY <1>1, <1>11 DEF Greeted
  <2>6. c \in open' => connPlayer'[c] = p /\ playerRoom'[p] = None
    <3>1. p # None  BY DEF PlayerId, None
    <3> QED  BY <1>4, <2>1, <2>3, <3>1
  <2>7. Greeted(c)'  BY <1>2, <1>11, <2>1, <2>4, <2>5, <2>6 DEF Greeted
  <2> QED  BY <2>2, <2>7 DEF Talk
<1>12. CASE Entering(c)
  <2>1. ~Silent(c) /\ ~Inside(c)
    BY <1>12 DEF Entering, Silent, Inside, Asked, Way
  <2>2. CASE c = a
    <3>1. Inside(c)'  BY <1>12, <2>2, EntersOrStays
    <3> QED  BY <2>1, <3>1 DEF Talk
  <2>3. CASE c # a
    <3>1. requests'[c] = requests[c]  BY <1>1, <2>3
    <3>2. messages'[c] = messages[c]
      BY <1>6, <1>7, <1>12, <2>3 DEF Entering
    <3>3. c \in open' => connPlayer'[c] = Me(c) /\ playerRoom'[Me(c)] = None
      BY <1>4, <1>12, <2>3 DEF Entering
    <3>4. Entering(c)'
      BY <1>2, <1>12, <3>1, <3>2, <3>3 DEF Entering, Asked, Way
    <3> QED  BY <2>1, <3>4 DEF Talk
  <2> QED  BY <2>2, <2>3
<1>13. Talk(c)  BY DEF RoomInv, TalkInv
<1> QED  BY <1>8, <1>9, <1>10, <1>11, <1>12, <1>13 DEF Talk

\* So who is spoken to is inside.
LEMMA SpokenToIsInside ==
    ASSUME RoomInv, NEW a, LobbySide(a), LobbyInv', NEW c \in ConnectionId,
           messages'[c] # messages[c]
    PROVE  c \in Seat /\ link[c] = "Up" /\ c \in open' /\ Inside(c)'
<1> USE DEF LobbySide
<1>1. WireTypes /\ LobbyInv /\ LinkInv  BY DEF RoomInv
<1>2. /\ link[c] = "Up" /\ connPlayer[c] # None
      /\ c = a \/ playerRoom[connPlayer[c]] # None
  BY <1>1, NotSpokenTo
<1>3. c \in Seat /\ c \in open  BY <1>1, <1>2, UpSeat
<1>4. CASE c = a
  <2>1. c # None  BY DEF ConnectionId, None
  <2>2. c \in open' /\ (Entering(c) \/ Inside(c))  BY <1>2, <1>4, <2>1
  <2> QED  BY <1>2, <1>3, <1>4, <2>2, EntersOrStays, InsideStays
<1>5. CASE c # a
  <2>1. ~Silent(c)  BY <1>2 DEF Silent
  <2>2. ~Greeting(c)  BY <1>2 DEF Greeting
  <2>3. ~Greeted(c)  BY <1>2, <1>3, <1>5 DEF Greeted
  <2>4. ~Entering(c)  BY <1>2, <1>3, <1>5 DEF Entering
  <2>5. Inside(c)  BY <1>3, <2>1, <2>2, <2>3, <2>4 DEF RoomInv, TalkInv, Talk
  <2>6. Inside(c)'  BY <1>3, <2>5, InsideStays
  <2>7. c \in open'  BY <1>3, <1>5
  <2> QED  BY <1>2, <1>3, <2>6, <2>7
<1> QED  BY <1>4, <1>5

-----------------------------------------------------------------------------
(* What such a step does to each part of the invariant. *)

LEMMA Unasked == \A q : <<>> # <<q>>
OBVIOUS

LEMMA SideTypes ==
    ASSUME RoomInv, NEW a, LobbySide(a)
    PROVE  WireTypes' /\ ClientTypes'
<1>1. WireTypes'  BY DEF RoomInv, WireTypes, LobbySide
<1>2. ClientTypes'
  BY DEF RoomInv, ClientTypes, LobbySide, hostVars, botVars
<1> QED  BY <1>1, <1>2

LEMMA SideTalk ==
    ASSUME RoomInv, NEW a, LobbySide(a), LobbyInv'
    PROVE  TalkInv'
BY TalkAside DEF TalkInv, Seat

LEMMA SideLinks ==
    ASSUME RoomInv, NEW a, LobbySide(a), LobbyInv'
    PROVE  LinkInv'
<1> USE DEF LobbySide
<1>1. LinkInv /\ LobbyInv  BY DEF RoomInv
<1>2. ASSUME NEW c \in ConnectionId, link'[c] = "Up" PROVE c \in open'
  <2>1. link[c] = "Up" /\ c \in open  BY <1>1, <1>2 DEF LinkInv
  <2>2. c # None  BY DEF ConnectionId, None
  <2> QED  BY <2>1, <2>2
<1>3. ASSUME NEW c \in Seat, c >= nextConnection' PROVE Silent(c)'
  BY <1>1, <1>3, TalkAside DEF LinkInv
<1>4. \A c \in Seat : c >= nextConnection' => Silent(c)'  BY <1>3
<1>5. flow' = flow /\ co' = co  BY DEF hostVars, botVars
<1> QED  BY <1>1, <1>2, <1>4, <1>5 DEF LinkInv, Seat

LEMMA SideReady ==
    ASSUME RoomInv, NEW a, LobbySide(a), \A r \in RoomId : ready'[r] \subseteq members'[r]
    PROVE  ReadyInv'
<1> USE DEF LobbySide
<1>1. ASSUME NEW c \in Seat, NEW r \in RoomId, c \in open', connPlayer'[c] \in ready'[r]
      PROVE  HasReadied(c)' /\ ~Asked(c, "SetReady")'
  <2>1. c \in ConnectionId  BY RoomBounds
  <2>2. c \in open /\ connPlayer'[c] = connPlayer[c]  BY <1>1
  <2>3. connPlayer[c] \in ready[r] \/ (c = a /\ HasReadied(a))  BY <1>1, <2>2
  <2>4. /\ connPlayer[c] \in ready[r] => HasReadied(c) /\ ~Asked(c, "SetReady")
    BY <2>2 DEF RoomInv, ReadyInv
  <2>5. requests'[c] = <<>> \/ (c # a /\ requests'[c] = requests[c])  BY <2>1
  <2>6. HasReadied(c)' = HasReadied(c)  BY SameClients
  <2> QED  BY <2>3, <2>4, <2>5, <2>6, Unasked DEF Asked
<1> QED  BY <1>1 DEF ReadyInv, Seat, RoomId

\* The room is made and the match is started for the host, once.
CountsUp(a) ==
    /\ \/ nextRoom' = nextRoom
       \/ nextRoom = 1 /\ nextRoom' = 2 /\ a = HostConnection /\ HostConnection \in open'
    /\ \/ nextMatch' = nextMatch
       \/ nextMatch = 1 /\ nextMatch' = 2 /\ a = HostConnection /\ flow.startRequested

LEMMA SideFlow ==
    ASSUME RoomInv, NEW a, LobbySide(a), LobbyInv', CountsUp(a)
    PROVE  FlowInv'
<1> USE DEF LobbySide
<1>1. FlowInv  BY DEF RoomInv
<1>2. flow' = flow  BY DEF hostVars
<1>3. nextRoom' <= 2 /\ nextMatch' <= 2  BY <1>1 DEF FlowInv, CountsUp
<1>4. flow.room # None => nextRoom' = 2  BY <1>1 DEF FlowInv, CountsUp
<1>5. ~Inside(HostConnection)' => nextRoom' = 1
  <2>1. Inside(HostConnection) => Inside(HostConnection)'  BY InsideStays, RoomBounds
  <2>2. CASE nextRoom' = nextRoom  BY <1>1, <2>1, <2>2 DEF FlowInv
  <2>3. CASE a = HostConnection /\ HostConnection \in open'
    <3>1. HostConnection # None  BY RoomBounds DEF None
    <3>2. Entering(HostConnection) \/ Inside(HostConnection)  BY <2>3, <3>1
    <3> QED  BY <2>1, <2>3, <3>2, EntersOrStays, RoomBounds
  <2> QED  BY <2>2, <2>3 DEF CountsUp
<1>6. flow.ticketReceived => flow.startRequested /\ Begun'  BY <1>1 DEF FlowInv
<1>7. Asked(HostConnection, "StartMatch")' => flow.startRequested /\ nextMatch' = 1
  <2>1. SUFFICES ASSUME requests'[HostConnection] = <<"StartMatch">>
                 PROVE  flow.startRequested /\ nextMatch' = 1
    BY DEF Asked
  <2>2. HostConnection # a /\ Asked(HostConnection, "StartMatch")
    <3>1. requests'[HostConnection] =
              IF HostConnection = a THEN <<>> ELSE requests[HostConnection]
      BY RoomBounds
    <3> QED  BY <2>1, <3>1, Unasked DEF Asked
  <2> QED  BY <1>1, <2>2 DEF FlowInv, CountsUp
<1>8. ~flow.startRequested => nextMatch' = 1  BY <1>1 DEF FlowInv, CountsUp
<1> QED
  BY <1>1, <1>2, <1>3, <1>4, <1>5, <1>6, <1>7, <1>8 DEF FlowInv

LEMMA SideCount ==
    ASSUME RoomInv, NEW a, LobbySide(a)
    PROVE  CountInv'
<1> USE DEF LobbySide
<1>1. nextPlayer \in Nat  BY Bounds DEF RoomInv, LobbyInv, TypeOK
<1>2. ASSUME NEW c \in Greeters PROVE c \in Greeters'
  <2>1. c \in Seat /\ c \in ConnectionId /\ c < nextConnection /\ requests[c] # <<"Hello">>
    BY RoomBounds DEF Greeters, Asked
  <2>2. requests'[c] # <<"Hello">>
    <3>1. requests'[c] = IF c = a THEN <<>> ELSE requests[c]  BY <2>1
    <3> QED  BY <2>1, <3>1, Unasked
  <2> QED  BY <2>1, <2>2 DEF Greeters, Asked, Seat
<1>3. IsFiniteSet(Greeters')
  <2>1. Greeters' \subseteq Seat  BY DEF Greeters, Seat
  <2> QED  BY <2>1, GreetersAreFew, FS_Subset
<1>4. Cardinality(Greeters) <= Cardinality(Greeters')
  <2>1. Greeters \subseteq Greeters'  BY <1>2
  <2> QED  BY <1>3, <2>1, FS_Subset
<1>5. Cardinality(Greeters') \in Nat  BY <1>3, FS_CardinalityType
<1>6. nextPlayer' <= Cardinality(Greeters') + 1
  BY <1>1, <1>4, <1>5, GreetersAreFew DEF RoomInv, CountInv
<1> QED  BY <1>6 DEF CountInv

\* The first consequences again, for the state after the step.
Small ==
    /\ \A r \in RoomId : Exists(r) \/ members[r] # {} => r = 1 /\ nextRoom = 2 /\ Exists(1)
    /\ \A m \in MatchId :
          pending[m].room # None \/ active[m].room # None => m = 1 /\ nextMatch = 2
    /\ \A r \in RoomId : members[r] \subseteq Everyone

LEMMA SmallNow == LobbyInv /\ FlowInv /\ CountInv => Small
<1> SUFFICES ASSUME LobbyInv, FlowInv, CountInv PROVE Small  OBVIOUS
<1>1. \A r \in RoomId : Exists(r) \/ members[r] # {} => r = 1 /\ nextRoom = 2 /\ Exists(1)
  BY OneRoom
<1>2. \A m \in MatchId :
          pending[m].room # None \/ active[m].room # None => m = 1 /\ nextMatch = 2
  BY OneMatch
<1>3. \A r \in RoomId : members[r] \subseteq Everyone  BY PlayersAreFew
<1> QED  BY <1>1, <1>2, <1>3 DEF Small

LEMMA SmallNext == LobbyInv' /\ FlowInv' /\ CountInv' => Small'
BY SmallNow, PTL

FitsNext(v) ==
    /\ v.room = 1 /\ nextRoom' = 2
    /\ v.host = flow'.player /\ flow'.player \in v.members
    /\ v.members \subseteq Everyone
    /\ flow'.player \in v.ready =>
          flow'.readyRequested /\ requests'[HostConnection] # <<"SetReady">>

LEMMA RoomsFitNext ==
    ASSUME \A i \in Inbox(HostConnection)' : messages'[HostConnection][i].type = "Room" =>
               FitsNext(messages'[HostConnection][i].view)
    PROVE  RoomsFit'
BY DEF RoomsFit, ViewFits, FitsNext, Asked, Everyone, HostConnection, Inbox

\* A host that is told of the room finds what it expects.
LEMMA FitsNow ==
    ASSUME RoomInv, NEW a, LobbySide(a), LobbyInv', FlowInv', LeadInv', CountInv', ReadyInv',
           Inside(HostConnection)', HostConnection \in open',
           connPlayer[HostConnection] \in members'[1]
    PROVE  FitsNext(RoomMessage(1).view)
<1> DEFINE p == flow.player
<1>1. connPlayer'[HostConnection] = connPlayer[HostConnection] /\ flow' = flow
  BY DEF LobbySide, hostVars
<1>2. connPlayer[HostConnection] = p
  BY <1>1 DEF Inside, Me
<1>3. members'[1] \subseteq Everyone  BY RoomBounds, SmallNext DEF Small, Everyone
<1>4. nextRoom' = 2 /\ Exists(1)'  BY RoomBounds, SmallNext DEF Small, RoomId
<1>5. roomHost'[1] = p  BY <1>1, <1>2, <1>4 DEF LeadInv
<1>6. p \in ready'[1] => flow'.readyRequested /\ requests'[HostConnection] # <<"SetReady">>
  BY <1>1, <1>2, RoomBounds DEF ReadyInv, HasReadied, Asked
<1>7. RoomMessage(1).view = NextSnapshot(1, None)  BY DEF RoomMessage
<1> QED
  BY <1>1, <1>2, <1>3, <1>4, <1>5, <1>6, <1>7
  DEF FitsNext, NextSnapshot

LEMMA SideRooms ==
    ASSUME RoomInv, NEW a, LobbySide(a), LobbyInv', FlowInv', LeadInv', CountInv', ReadyInv',
           nextRoom <= nextRoom'
    PROVE  RoomsFit'
<1> DEFINE h == HostConnection
<1>1. h \in ConnectionId /\ h \in Seat  BY RoomBounds
<1>2. flow' = flow  BY DEF LobbySide, hostVars
<1>3. SUFFICES ASSUME NEW i \in Inbox(h)', messages'[h][i].type = "Room"
              PROVE  FitsNext(messages'[h][i].view)
  BY RoomsFitNext
<1>4. CASE i \in Inbox(h)
  <2>1. messages'[h][i] = messages[h][i]  BY <1>1, <1>4 DEF LobbySide, SentOnly
  <2> DEFINE v == messages[h][i].view
  <2>2. ViewFits(v)  BY <1>3, <1>4, <2>1 DEF RoomInv, RoomsFit
  <2> HIDE DEF v
  <2>3. nextRoom' = 2
    <3>1. nextRoom' \in Nat  BY Bounds DEF LobbyInv, TypeOK
    <3> QED  BY <2>2, <3>1 DEF ViewFits, FlowInv
  <2>4. requests'[h] \in {requests[h], <<>>}  BY <1>1 DEF LobbySide
  <2>5. FitsNext(v)  BY <1>2, <2>2, <2>3, <2>4, Unasked DEF ViewFits, FitsNext, Asked
  <2> QED  BY <2>1, <2>5 DEF v
<1>5. CASE i \notin Inbox(h)
  <2>1. messages'[h][i] \in Proper(a, h)  BY <1>1, <1>5 DEF LobbySide, SentOnly
  <2>2. messages'[h][i] = RoomMessage(1) /\ connPlayer[h] \in members'[1]
    BY <1>3, <2>1 DEF Proper
  <2>3. messages'[h] # messages[h]  BY <1>5 DEF Inbox
  <2>4. h \in open' /\ Inside(h)'  BY <1>1, <2>3, SpokenToIsInside
  <2> QED  BY <2>2, <2>4, FitsNow
<1> QED  BY <1>4, <1>5

LEMMA SideGames ==
    ASSUME RoomInv, NEW a, LobbySide(a)
    PROVE  GamesFit'
<1>1. co' = co /\ moving' = moving /\ bot' = bot  BY DEF LobbySide, botVars
<1>2. Begun => Begun'  BY DEF LobbySide
<1>3. ASSUME NEW c \in Seat, NEW i \in Inbox(c)', messages'[c][i].type = "Ticket"
      PROVE  messages'[c][i].match = 1 /\ Begun'
  <2>1. c \in ConnectionId  BY RoomBounds
  <2>2. SentOnly(c, Proper(a, c))  BY <2>1 DEF LobbySide
  <2>3. CASE i \in Inbox(c)
    BY <1>2, <1>3, <2>2, <2>3 DEF SentOnly, RoomInv, GamesFit
  <2>4. CASE i \notin Inbox(c)
    BY <1>3, <2>2, <2>4 DEF SentOnly, Proper
  <2> QED  BY <2>3, <2>4
<1>4. GamesFit  BY DEF RoomInv
<1> QED  BY <1>1, <1>2, <1>3, <1>4 DEF GamesFit, Seat

\* What was told before stays told, and a room list is only sent after it.
LEMMA SideLists ==
    ASSUME RoomInv, NEW a, LobbySide(a)
    PROVE  /\ Hears(HostConnection, "Ticket") => Hears(HostConnection, "Ticket")'
           /\ \A i \in Inbox(HostConnection)' :
                 messages'[HostConnection][i].type = "RoomList" =>
                     flow.ticketReceived \/ \E j \in 1..(i - 1) : TicketAt(j)'
<1> DEFINE h == HostConnection
<1>1. h \in ConnectionId /\ h \in Seat  BY RoomBounds
<1>2. SentOnly(h, Proper(a, h)) /\ TicketsFit /\ WireTypes
  BY <1>1 DEF LobbySide, RoomInv
<1>3. Len(messages[h]) \in Nat /\ Len(messages'[h]) \in Nat
  BY <1>1, <1>2, InboxType, LenProperties DEF SentOnly
<1>4. \A i \in Inbox(h) : i \in Inbox(h)' /\ (TicketAt(i) => TicketAt(i)')
  BY <1>2, <1>3 DEF SentOnly, Inbox, TicketAt
<1>5. Hears(h, "Ticket") => Hears(h, "Ticket")'  BY <1>4 DEF Hears, TicketAt
<1>6. ASSUME NEW i \in Inbox(h)', messages'[h][i].type = "RoomList"
      PROVE  flow.ticketReceived \/ \E j \in 1..(i - 1) : TicketAt(j)'
  <2>1. CASE i \in Inbox(h)
    <3>1. messages[h][i].type = "RoomList"  BY <1>2, <1>6, <2>1 DEF SentOnly
    <3>2. flow.ticketReceived \/ \E j \in 1..(i - 1) : TicketAt(j)
      BY <1>2, <2>1, <3>1 DEF TicketsFit
    <3>3. \A j \in 1..(i - 1) : j \in Inbox(h)  BY <1>3, <2>1 DEF Inbox
    <3> QED  BY <1>4, <3>2, <3>3
  <2>2. CASE i \notin Inbox(h)
    <3>1. messages'[h][i] \in Proper(a, h)  BY <1>2, <2>2 DEF SentOnly
    <3>2. \E n \in MatchId : active[n].room # None  BY <1>6, <3>1 DEF Proper
    <3>3. link[h] = "Up"  BY <1>2, <2>2 DEF SentOnly, Inbox
    <3>4. flow.ticketReceived \/ Hears(h, "Ticket")
      BY <1>2, <3>2, <3>3 DEF TicketsFit
    <3>5. \A j \in Inbox(h) : j \in 1..(i - 1)  BY <1>3, <2>2 DEF Inbox
    <3> QED  BY <1>4, <3>4, <3>5 DEF Hears, TicketAt
  <2> QED  BY <2>1, <2>2
<1> QED  BY <1>5, <1>6

LEMMA SideTickets ==
    ASSUME RoomInv, NEW a, LobbySide(a),
           \A m \in MatchId : active'[m].room # None => active[m].room # None
    PROVE  TicketsFit'
<1> DEFINE h == HostConnection
<1>1. h \in ConnectionId  BY RoomBounds
<1>2. SentOnly(h, Proper(a, h)) /\ TicketsFit  BY <1>1 DEF LobbySide, RoomInv
<1>3. flow' = flow /\ link' = link  BY DEF LobbySide, hostVars
<1>4. \A i \in Inbox(h)' : TicketAt(i)' => i \in Inbox(h) /\ TicketAt(i)
  BY <1>2, RoomBounds DEF SentOnly, TicketAt, Proper
<1>5. \A i \in Inbox(h)' : TicketAt(i)' =>
         /\ flow.startRequested /\ ~flow.ticketReceived
         /\ \A j \in Inbox(h)' : TicketAt(j)' => i = j
  BY <1>2, <1>4 DEF TicketsFit
<1>6. link[h] = "Up" /\ (\E m \in MatchId : active'[m].room # None) =>
         flow.ticketReceived \/ Hears(h, "Ticket")'
  BY <1>2, SideLists DEF TicketsFit
<1> QED  BY <1>3, <1>5, <1>6, SideLists DEF TicketsFit, MatchId

LEMMA SideQuiet ==
    ASSUME RoomInv, NEW a, LobbySide(a), trouble' = 0
    PROVE  trouble = 0 /\ Quiet'
<1> USE DEF LobbySide
<1>1. trouble = 0  BY DEF RoomInv, WireTypes
<1>2. Quiet  BY <1>1 DEF RoomInv, QuietInv
<1>3. ASSUME NEW c \in Seat PROVE ~Hears(c, "Error")'
  <2>1. c \in ConnectionId  BY RoomBounds
  <2>2. ~Hears(c, "Error")  BY <1>2 DEF Quiet
  <2>3. \A i \in Inbox(c)' : messages'[c][i].type # "Error"
    BY <2>1, <2>2 DEF SentOnly, Proper, Hears
  <2> QED  BY <2>3 DEF Hears
<1>4. co.done => Begun'  BY <1>2 DEF Quiet
<1> QED  BY <1>1, <1>2, <1>3, <1>4 DEF Quiet, hostVars, botVars, Seat

\* Once the match has started it stays so.
LEMMA SideSettled ==
    ASSUME RoomInv, NEW a, LobbySide(a), trouble' = 0, nextMatch = 2
    PROVE  Settled'
<1>1. Settled  BY SideQuiet DEF RoomInv, QuietInv
<1>2. ASSUME NEW c \in Seat PROVE requests'[c] = <<>> /\ HasReadied(c)'
  <2>1. c \in ConnectionId  BY RoomBounds
  <2>2. HasReadied(c)' = HasReadied(c)  BY SameClients DEF LobbySide
  <2> QED  BY <1>1, <2>1, <2>2 DEF Settled, LobbySide
<1> QED  BY <1>2 DEF Settled, Seat

LEMMA SideInv ==
    ASSUME RoomInv, NEW a, LobbySide(a), LobbyInv', CountsUp(a),
           \A r \in RoomId : ready'[r] \subseteq members'[r], LeadInv', TicketsFit',
           trouble' = 0 /\ nextMatch' = 1 => Grows',
           trouble' = 0 /\ nextMatch = 1 /\ nextMatch' = 2 => Settled'
    PROVE  RoomInv'
<1>1. WireTypes' /\ ClientTypes'  BY SideTypes
<1>2. TalkInv' /\ LinkInv' /\ GamesFit' /\ CountInv'
  BY SideTalk, SideLinks, SideGames, SideCount
<1>3. ReadyInv' /\ FlowInv'  BY SideReady, SideFlow
<1>4. nextRoom <= nextRoom'
  <2>1. nextRoom \in Nat  BY Bounds DEF RoomInv, LobbyInv, TypeOK
  <2> QED  BY <2>1 DEF CountsUp
<1>5. RoomsFit'  BY <1>2, <1>3, <1>4, SideRooms
<1>6. trouble' = 0 /\ nextMatch' = 2 => Settled'  BY SideSettled DEF CountsUp
<1>7. QuietInv'  BY <1>6, SideQuiet DEF QuietInv
<1> QED  BY <1>1, <1>2, <1>3, <1>5, <1>7 DEF RoomInv

\* The lobby keeps its own invariant, and a ready player is a member.
LEMMA LobbyStep ==
    ASSUME RoomInv, [Next]_lobbyVars
    PROVE  LobbyInv'
BY NextTypeOK, IdsStep, ConnectionsStep, MembershipStep, MatchesStep
DEF RoomInv, LobbyInv, MatchesAgree

LEMMA ReadyAreMembers ==
    ASSUME RoomInv, [Next]_lobbyVars
    PROVE  \A r \in RoomId : ready'[r] \subseteq members'[r]
<1>1. LobbyInv /\ \A r \in RoomId : ready[r] \subseteq members[r]
  BY DEF RoomInv, ReadyInv
<1>2. members \in [RoomId -> SUBSET PlayerId] /\ ready \in [RoomId -> SUBSET PlayerId]
  BY <1>1 DEF LobbyInv, TypeOK
<1>3. CASE UNCHANGED <<members, ready>>  BY <1>1, <1>3
<1>4. ASSUME NEW r \in RoomId, NEW p, RemoveMember(r, p)
      PROVE  \A s \in RoomId : ready'[s] \subseteq members'[s]
  BY <1>1, <1>2, <1>4 DEF RemoveMember
<1>5. ASSUME NEW c \in ConnectionId, Request(c)
      PROVE  \A r \in RoomId : ready'[r] \subseteq members'[r]
  <2>1. CASE CreateRoom(c)
    <3>1. /\ nextRoom \in RoomId /\ ready' = ready
          /\ members' = [members EXCEPT ![nextRoom] = {PlayerOf(c)}]
      BY <2>1 DEF CreateRoom
    <3>2. members[nextRoom] = {}
      BY <1>1, <3>1, Bounds DEF LobbyInv, TypeOK, IdsAreFresh, MembershipAgrees
    <3> QED  BY <1>1, <1>2, <3>1, <3>2
  <2>2. CASE \E r \in RoomId : JoinRoom(c, r)
    <3>1. PICK r \in RoomId : JoinRoom(c, r)  BY <2>2
    <3>2. ready' = ready /\ members' = [members EXCEPT ![r] = @ \cup {PlayerOf(c)}]
      BY <3>1 DEF JoinRoom
    <3> QED  BY <1>1, <1>2, <3>2
  <2>3. CASE LeaveRoom(c)
    <3>1. RoomOf(c) \in RoomId /\ RemoveMember(RoomOf(c), PlayerOf(c))
      BY <1>1, <2>3, RoomOfMember DEF LeaveRoom
    <3> QED  BY <1>4, <3>1
  <2>4. CASE \E flag \in BOOLEAN : SetReady(c, flag)
    <3> DEFINE r == RoomOf(c)
    <3>1. r \in RoomId /\ PlayerOf(c) \in members[r]
      BY <1>1, <2>4, RoomOfMember DEF SetReady
    <3>2. members' = members
      BY <2>4 DEF SetReady
    <3>3. \/ ready' = [ready EXCEPT ![r] = @ \cup {PlayerOf(c)}]
          \/ ready' = [ready EXCEPT ![r] = @ \ {PlayerOf(c)}]
      BY <2>4 DEF SetReady
    <3> HIDE DEF r
    <3> QED  BY <1>1, <1>2, <3>1, <3>2, <3>3
  <2>5. CASE Hello(c) \/ StartMatch(c) \/ StartMatchRollback(c)
    BY <1>3, <2>5 DEF Hello, StartMatch, StartMatchRollback, roomVars
  <2> QED  BY <1>5, <2>1, <2>2, <2>3, <2>4, <2>5 DEF Request
<1>6. ASSUME NEW c \in ConnectionId, Disconnect(c)
      PROVE  \A r \in RoomId : ready'[r] \subseteq members'[r]
  <2>1. CASE DisconnectOutside(c)  BY <1>3, <2>1 DEF DisconnectOutside, roomVars
  <2>2. CASE DisconnectWaiting(c) \/ DisconnectStarting(c)
    <3>1. RoomOf(c) \in RoomId /\ RemoveMember(RoomOf(c), PlayerOf(c))
      BY <1>1, <2>2, RoomOfMember DEF DisconnectWaiting, DisconnectStarting
    <3> QED  BY <1>4, <3>1
  <2> QED  BY <1>6, <2>1, <2>2 DEF Disconnect
<1>7. ASSUME NEW m \in MatchId, WorkerEvent(m)
      PROVE  \A r \in RoomId : ready'[r] \subseteq members'[r]
  <2>1. CASE ReservationFailed(m) \/ ReservationTooLate(m)
             \/ \E w \in Worker : ReservationReady(m, w)
    BY <1>3, <2>1
    DEF ReservationFailed, ReservationTooLate, FailPending, ReservationReady
  <2>2. CASE \E w \in Worker : FinishMatch(m, w)
    <3>1. /\ members' = [members EXCEPT ![active[m].room] = {}]
          /\ ready' = [ready EXCEPT ![active[m].room] = {}]
      BY <2>2 DEF FinishMatch
    <3> QED  BY <1>1, <1>2, <3>1
  <2> QED  BY <1>7, <2>1, <2>2 DEF WorkerEvent
<1> QED
  BY <1>3, <1>5, <1>6, <1>7
  DEF Next, OpenConnection, LastSecond, TicketsExpire, lobbyVars, roomVars

-----------------------------------------------------------------------------
(* The messages of the lobby's steps. *)

LEMMA NoteTypes ==
    /\ ErrorResponse \in Note /\ RoomList \in Note
    /\ \A m \in MatchId : TicketFor(m) \in Note
    /\ \A p \in PlayerId : WelcomeTo(p) \in Note
BY DEF ErrorResponse, RoomList, TicketFor, WelcomeTo, Note

LEMMA RoomMessageType ==
    ASSUME LobbyInv', NEW r \in RoomId
    PROVE  RoomMessage(r) \in Note /\ RoomMessage(r).type = "Room"
<1>1. RoomTypes'  BY DEF LobbyInv, TypeOK, RoomTypes
<1>2. None \in MatchId \cup {None}  OBVIOUS
<1>3. NextSnapshot(r, None) \in View  BY <1>1, <1>2, SnapshotType
<1> QED  BY <1>3 DEF RoomMessage, Note

\* The members after the step are those before it, and perhaps a's player.
OnlyEnters(a) ==
    \A p \in members'[1] : p \in members[1] \/ (a \in ConnectionId /\ p = connPlayer[a])

LEMMA Broadcasts ==
    ASSUME RoomInv, LobbyInv', NEW a, OnlyEnters(a), NEW c \in ConnectionId
    PROVE  Broadcasted(c, 1) \in Seq(Proper(a, c))
<1>1. 1 \in RoomId  BY RoomBounds
<1>2. RoomMessage(1) \in Note /\ RoomMessage(1).type = "Room"  BY <1>1, RoomMessageType
<1>3. members'[1] \subseteq PlayerId  BY <1>1 DEF LobbyInv, TypeOK
<1>4. LobbyInv  BY DEF RoomInv
<1>5. CASE c \in ConnectionsOf(members'[1])
  <2>1. connPlayer[c] \in members'[1]  BY <1>3, <1>4, <1>5, ReachedAre
  <2>2. connPlayer[c] # None  BY <1>3, <2>1 DEF PlayerId, None
  <2>3. c = a \/ playerRoom[connPlayer[c]] # None
    <3>1. CASE connPlayer[c] \in members[1]
      BY <1>1, <1>3, <1>4, <2>1, <3>1 DEF LobbyInv, MembershipAgrees, None
    <3>2. CASE a \in ConnectionId /\ connPlayer[c] = connPlayer[a]
      <4>1. connPlayer[c] \in PlayerId  BY <1>3, <2>1
      <4> QED  BY <1>4, <3>2, <4>1 DEF LobbyInv, ConnectionsAgree
    <3> QED  BY <2>1, <3>1, <3>2 DEF OnlyEnters
  <2>4. RoomMessage(1) \in Proper(a, c)  BY <1>2, <2>1, <2>2, <2>3 DEF Proper
  <2> QED  BY <1>5, <2>4, OneNote DEF Broadcasted
<1>6. CASE c \notin ConnectionsOf(members'[1])
  BY <1>6, NoNote DEF Broadcasted
<1> QED  BY <1>5, <1>6

LEMMA TellsError ==
    ASSUME NEW a, NEW c \in ConnectionId, NEW d, trouble' > 0,
           c = d => connPlayer[c] # None /\ (c = a \/ playerRoom[connPlayer[c]] # None)
    PROVE  Only(c, d, ErrorResponse) \in Seq(Proper(a, c))
<1>1. CASE c = d
  <2>1. ErrorResponse \in Proper(a, c)
    BY <1>1, NoteTypes DEF Proper, ErrorResponse
  <2> QED  BY <1>1, <2>1, OneNote DEF Only
<1>2. CASE c # d  BY <1>2, NoNote DEF Only
<1> QED  BY <1>1, <1>2

LEMMA SendsProper ==
    ASSUME RoomInv, NEW a, NEW sent, Sends(sent),
           \A c \in ConnectionId : sent[c] \in Seq(Proper(a, c))
    PROVE  /\ messages' \in [ConnectionId -> Seq(Note)]
           /\ \A c \in ConnectionId : SentOnly(c, Proper(a, c))
<1>1. WireTypes  BY DEF RoomInv
<1>2. \A c \in ConnectionId : Proper(a, c) \subseteq Note  BY DEF Proper
<1>3. \A c \in ConnectionId : SentOnly(c, Proper(a, c))  BY <1>1, <1>2, SendsOnly
<1>4. \A c \in ConnectionId : sent[c] \in Seq(Note)  BY <1>2, SeqMonotonic
<1> QED  BY <1>1, <1>3, <1>4, SendsTypes

-----------------------------------------------------------------------------
(* The lobby answers a request. *)

LEMMA OneRequest ==
    ASSUME RoomInv, NEW c \in ConnectionId, TakesRequest(c)
    PROVE  /\ c \in Seat /\ c \in open /\ c # None /\ Talk(c)
           /\ DOMAIN requests' = ConnectionId
           /\ \A d \in ConnectionId : requests'[d] = IF d = c THEN <<>> ELSE requests[d]
           /\ UNCHANGED <<hostVars, botVars, link, over>>
<1>1. c \in Seat /\ c \in open  BY OpenSeat DEF RoomInv, TakesRequest
<1>2. Talk(c)  BY <1>1 DEF RoomInv, TalkInv
<1>3. PICK q : requests[c] = <<q>>
  BY <1>2 DEF TakesRequest, Talk, Silent, Greeting, Greeted, Entering, Inside, Asked
<1>4. Tail(requests[c]) = <<>>  BY <1>3
<1>5. requests' = [requests EXCEPT ![c] = <<>>]  BY <1>4 DEF TakesRequest
<1>6. DOMAIN requests = ConnectionId  BY DEF RoomInv, WireTypes
<1>7. DOMAIN requests' = ConnectionId  BY <1>5, <1>6
<1>8. \A d \in ConnectionId : requests'[d] = IF d = c THEN <<>> ELSE requests[d]
  BY <1>5, <1>6
<1>9. c # None  BY DEF ConnectionId, None
<1>10. UNCHANGED <<hostVars, botVars, link, over>>  BY DEF TakesRequest
<1> QED  BY <1>1, <1>2, <1>7, <1>8, <1>9, <1>10

LEMMA RequestIs ==
    ASSUME RoomInv, NEW c \in ConnectionId, TakesRequest(c)
    PROVE  \/ Head(requests[c]) = "Hello" /\ Greeting(c)
           \/ Head(requests[c]) = "CreateRoom" /\ Entering(c) /\ c = HostConnection
           \/ Head(requests[c]) = "JoinRoom" /\ Entering(c) /\ c # HostConnection
           \/ Head(requests[c]) = "SetReady" /\ Inside(c) /\ Asked(c, "SetReady") /\ HasReadied(c)
           \/ Head(requests[c]) = "StartMatch" /\ Inside(c) /\ Asked(c, "StartMatch")
              /\ c = HostConnection
<1>1. Talk(c) /\ requests[c] # <<>>  BY OneRequest DEF TakesRequest
<1>2. \A q : Asked(c, q) => Head(requests[c]) = q  BY DEF Asked
<1>3. CASE Greeting(c)  BY <1>2, <1>3 DEF Greeting
<1>4. CASE Entering(c)  BY <1>2, <1>4 DEF Entering, Way
<1>5. CASE Inside(c)  BY <1>1, <1>2, <1>5 DEF Inside
<1> QED  BY <1>1, <1>3, <1>4, <1>5 DEF Talk, Silent, Greeted

\* What all answers but the welcome have in common.
LEMMA AnswerSide ==
    ASSUME RoomInv, NEW c \in ConnectionId, TakesRequest(c), Entering(c) \/ Inside(c),
           NEW sent, Sends(sent), \A d \in ConnectionId : sent[d] \in Seq(Proper(c, d)),
           UNCHANGED <<nextConnection, nextPlayer, connVars>>,
           trouble' \in Nat, trouble <= trouble',
           \A p \in PlayerId : p # connPlayer[c] => playerRoom'[p] = playerRoom[p],
           \A r \in RoomId : \A p \in ready'[r] :
               p \in ready[r] \/ (p = connPlayer[c] /\ HasReadied(c)),
           Begun => Begun'
    PROVE  LobbySide(c)
<1>1. messages' \in [ConnectionId -> Seq(Note)] /\ \A d \in ConnectionId : SentOnly(d, Proper(c, d))
  BY SendsProper
<1>2. /\ c \in Seat /\ c \in open /\ c # None
      /\ DOMAIN requests' = ConnectionId
      /\ \A d \in ConnectionId : requests'[d] = IF d = c THEN <<>> ELSE requests[d]
      /\ UNCHANGED <<hostVars, botVars, link, over>>
  BY OneRequest
<1>3. open' = open /\ connPlayer' = connPlayer  BY DEF connVars
<1>4. open \subseteq ConnectionId /\ connPlayer \in [ConnectionId -> PlayerId \cup {None}]
  BY DEF RoomInv, LobbyInv, TypeOK
<1>5. \A d, e \in ConnectionId : connPlayer[d] # None /\ connPlayer[d] = connPlayer[e] => d = e
  BY <1>4 DEF RoomInv, LobbyInv, ConnectionsAgree
<1>6. ASSUME NEW d \in open' \ {c}, connPlayer[d] # None, playerRoom[connPlayer[d]] = None
      PROVE  playerRoom'[connPlayer[d]] = None
  BY <1>3, <1>4, <1>5, <1>6
<1>7. ASSUME NEW d \in open', NEW r \in RoomId, connPlayer[d] \in ready'[r]
      PROVE  connPlayer[d] \in ready[r] \/ (d = c /\ HasReadied(c))
  <2>1. connPlayer[c] # None
    <3>1. connPlayer[c] = Me(c) /\ Me(c) # None  BY <1>2 DEF Entering, Inside
    <3> QED  BY <3>1
  <2> QED  BY <1>3, <1>4, <1>5, <1>7, <2>1
<1> QED  BY <1>1, <1>2, <1>3, <1>6, <1>7 DEF LobbySide

\* An inside client was inside before, unless this step let it in.
LEMMA InsideBefore ==
    ASSUME RoomInv, NEW a, LobbySide(a), NEW c \in Seat, c # a, Inside(c)'
    PROVE  Inside(c)
<1>1. c \in ConnectionId  BY RoomBounds
<1>2. requests'[c] = requests[c] /\ Me(c)' = Me(c)
  BY <1>1, SameClients DEF LobbySide
<1>3. Me(c) # None  BY <1>2 DEF Inside
<1>4. ~Asked(c, Way(c))  BY <1>2 DEF Inside, Asked, Way
<1> QED  BY <1>3, <1>4 DEF RoomInv, TalkInv, Talk, Silent, Greeting, Greeted, Entering

\* While the room only grows, so do its views.
LEMMA StillGrows ==
    ASSUME RoomInv, NEW a \in Seat, LobbySide(a), trouble' = 0, nextMatch = 1,
           members[1] \subseteq members'[1], ready[1] \subseteq ready'[1],
           nextOrdinal' = Cardinality(members'[1]) + 1,
           nextRoom' = 2 => roomState'[1] = "Waiting",
           Me(a) \in members'[1]
    PROVE  Grows'
<1> DEFINE h == HostConnection
<1>1. trouble = 0 /\ Grows  BY SideQuiet DEF RoomInv, QuietInv
<1>2. h \in ConnectionId  BY RoomBounds
<1>3. ASSUME NEW c \in Seat, Inside(c)' PROVE Me(c)' \in members'[1]
  <2>1. Me(c)' = Me(c)  BY SameClients DEF LobbySide
  <2>2. CASE c # a
    <3>1. Inside(c)  BY <1>3, <2>2, InsideBefore
    <3> QED  BY <1>1, <2>1, <3>1 DEF Grows
  <2> QED  BY <2>1, <2>2
<1>4. ASSUME NEW i \in Inbox(h)', messages'[h][i].type = "Room"
      PROVE  /\ messages'[h][i].view.members \subseteq members'[1]
             /\ messages'[h][i].view.ready \subseteq ready'[1]
  <2>1. SentOnly(h, Proper(a, h))  BY <1>2 DEF LobbySide
  <2>2. CASE i \in Inbox(h)
    <3>1. messages'[h][i] = messages[h][i]  BY <2>1, <2>2 DEF SentOnly
    <3>2. messages[h][i].type = "Room"  BY <1>4, <3>1
    <3>3. /\ messages[h][i].view.members \subseteq members[1]
          /\ messages[h][i].view.ready \subseteq ready[1]
      BY <1>1, <2>2, <3>2 DEF Grows
    <3> QED  BY <3>1, <3>3
  <2>3. CASE i \notin Inbox(h)
    <3>1. messages'[h][i] = RoomMessage(1)  BY <1>4, <2>1, <2>3 DEF SentOnly, Proper
    <3>2. messages'[h][i].view = NextSnapshot(1, None)  BY <3>1 DEF RoomMessage
    <3> QED  BY <3>2 DEF NextSnapshot
  <2> QED  BY <2>2, <2>3
<1>5. ASSUME Asked(h, "StartMatch")'
      PROVE  Everyone \subseteq members'[1] /\ Everyone \subseteq ready'[1]
  <2>1. requests'[h] = IF h = a THEN <<>> ELSE requests[h]  BY <1>2 DEF LobbySide
  <2>2. Asked(h, "StartMatch")  BY <1>5, <2>1, Unasked DEF Asked
  <2> QED  BY <1>1, <2>2 DEF Grows
<1> QED  BY <1>3, <1>4, <1>5 DEF Grows, Seat, Everyone

-----------------------------------------------------------------------------
(* The requests that are granted. *)

LEMMA CreateKeeps ==
    ASSUME RoomInv, NEW c \in ConnectionId, TakesRequest(c), Entering(c), c = HostConnection,
           CreateRoom(c), Sends([d \in ConnectionId |-> Broadcasted(d, nextRoom)]),
           UNCHANGED trouble
    PROVE  RoomInv'
<1> DEFINE p == connPlayer[c]
<1>1. LobbyInv /\ FlowInv /\ WireTypes /\ c \in open /\ c \in Seat
  BY OneRequest DEF RoomInv
<1>2. [Next]_lobbyVars  BY DEF Next, Request
<1>3. LobbyInv'  BY <1>2, LobbyStep
<1>4. ~Inside(c)  BY DEF Entering, Inside, Asked, Way
<1>5. nextRoom = 1 /\ nextRoom' = 2  BY <1>1, <1>4 DEF FlowInv, CreateRoom
<1>6. ~Exists(1) /\ members[1] = {} /\ 1 \in RoomId
  BY <1>1, <1>5, OneRoom, RoomBounds
<1>7. p \in PlayerId /\ p = Me(c)
  BY <1>1 DEF CreateRoom, Welcomed, LobbyInv, TypeOK, Entering
<1>8. /\ members' = [members EXCEPT ![1] = {p}] /\ ready' = ready
      /\ roomState' = [roomState EXCEPT ![1] = "Waiting"]
      /\ roomHost' = [roomHost EXCEPT ![1] = p]
      /\ playerRoom' = [playerRoom EXCEPT ![p] = 1]
      /\ nextOrdinal' = nextOrdinal + 1
      /\ UNCHANGED <<nextConnection, nextPlayer, nextMatch, connVars, pending, active>>
  BY <1>5 DEF CreateRoom, PlayerOf, matchVars
<1> HIDE DEF p
<1>9. members'[1] = {p} /\ roomState'[1] = "Waiting" /\ roomHost'[1] = p
  BY <1>1, <1>6, <1>8 DEF LobbyInv, TypeOK
<1>10. OnlyEnters(c)  BY <1>9 DEF OnlyEnters, p
<1>11. Sends([d \in ConnectionId |-> Broadcasted(d, 1)])  BY <1>5
<1>12. LobbySide(c)
  <2> DEFINE sent == [d \in ConnectionId |-> Broadcasted(d, 1)]
  <2>1. \A d \in ConnectionId : sent[d] \in Seq(Proper(c, d))  BY <1>3, <1>10, Broadcasts
  <2>2. trouble' \in Nat /\ trouble <= trouble'  BY <1>1 DEF WireTypes
  <2>3. \A q \in PlayerId : q # connPlayer[c] => playerRoom'[q] = playerRoom[q]
    BY <1>1, <1>8 DEF p, LobbyInv, TypeOK
  <2>4. Begun => Begun'  BY <1>8 DEF Begun
  <2>5. Sends(sent)  BY <1>11
  <2> HIDE DEF sent
  <2> QED  BY <1>8, <2>1, <2>2, <2>3, <2>4, <2>5, AnswerSide
<1>13. CountsUp(c)
  BY <1>1, <1>5, <1>8 DEF CountsUp, connVars
<1>14. LeadInv'
  BY <1>1, <1>8, <1>9 DEF RoomInv, LeadInv, p, connVars
<1>15. TicketsFit'  BY <1>8, <1>12, SideTickets
<1>16. ASSUME trouble' = 0, nextMatch' = 1 PROVE Grows'
  <2>1. Grows  BY <1>8, <1>12, <1>16, SideQuiet DEF RoomInv, QuietInv
  <2>2. nextOrdinal' = 2 /\ Cardinality(members'[1]) = 1
    <3>1. nextOrdinal = Cardinality(members[1]) + 1  BY <2>1 DEF Grows
    <3>2. Cardinality({}) = 0 /\ Cardinality({p}) = 1  BY FS_EmptySet, FS_Singleton
    <3> QED  BY <1>6, <1>8, <1>9, <3>1, <3>2
  <2>3. ready[1] \subseteq ready'[1] /\ members[1] \subseteq members'[1] /\ nextMatch = 1
    BY <1>6, <1>8, <1>16
  <2> QED  BY <1>1, <1>7, <1>9, <1>12, <1>16, <2>2, <2>3, StillGrows
<1> QED
  BY <1>2, <1>3, <1>8, <1>12, <1>13, <1>14, <1>15, <1>16, ReadyAreMembers, SideInv

LEMMA JoinKeeps ==
    ASSUME RoomInv, NEW c \in ConnectionId, TakesRequest(c), Entering(c), c # HostConnection,
           JoinRoom(c, RoomKnown),
           Sends([d \in ConnectionId |-> Broadcasted(d, RoomKnown)]), UNCHANGED trouble
    PROVE  RoomInv' /\ [Next]_lobbyVars
<1> DEFINE p == connPlayer[c]
<1>1. LobbyInv /\ FlowInv /\ WireTypes /\ CountInv /\ c \in open /\ c \in Seat
  BY OneRequest DEF RoomInv
<1>2. RoomKnown = 1 /\ 1 \in RoomId
  <2>1. c < nextConnection  BY <1>1, OpenSeat DEF RoomInv
  <2>2. nextConnection > 2
    BY <1>1, <2>1, RoomBounds, Bounds DEF Seat, LobbyInv, TypeOK
  <2>3. flow.room # None  BY <2>2 DEF RoomInv, LinkInv
  <2> QED  BY <2>3, RoomBounds DEF RoomKnown, RoomInv, ClientTypes
<1>3. [Next]_lobbyVars  BY <1>2 DEF Next, Request
<1>4. LobbyInv'  BY <1>3, LobbyStep
<1>5. p \in PlayerId /\ p = Me(c)
  BY <1>1 DEF JoinRoom, Welcomed, LobbyInv, TypeOK, Entering
<1>6. /\ members' = [members EXCEPT ![1] = @ \cup {p}]
      /\ playerRoom' = [playerRoom EXCEPT ![p] = 1]
      /\ nextOrdinal' = nextOrdinal + 1
      /\ UNCHANGED <<nextConnection, nextPlayer, nextRoom, nextMatch, connVars,
                     roomState, roomHost, ready, pending, active>>
  BY <1>2 DEF JoinRoom, PlayerOf, matchVars
<1>7. p \notin members[1] /\ roomState[1] = "Waiting"
  BY <1>1, <1>2, <1>5 DEF JoinRoom, RoomOf, LobbyInv, MembershipAgrees, None
<1> HIDE DEF p
<1>8. members'[1] = members[1] \cup {p}
  BY <1>1, <1>2, <1>6 DEF LobbyInv, TypeOK
<1>9. OnlyEnters(c)  BY <1>8 DEF OnlyEnters, p
<1>10. Sends([d \in ConnectionId |-> Broadcasted(d, 1)])  BY <1>2
<1>11. LobbySide(c)
  <2> DEFINE sent == [d \in ConnectionId |-> Broadcasted(d, 1)]
  <2>1. \A d \in ConnectionId : sent[d] \in Seq(Proper(c, d))  BY <1>4, <1>9, Broadcasts
  <2>2. trouble' \in Nat /\ trouble <= trouble'  BY <1>1 DEF WireTypes
  <2>3. \A q \in PlayerId : q # connPlayer[c] => playerRoom'[q] = playerRoom[q]
    BY <1>1, <1>6 DEF p, LobbyInv, TypeOK
  <2>4. Begun => Begun'  BY <1>6 DEF Begun
  <2>5. Sends(sent)  BY <1>10
  <2> HIDE DEF sent
  <2> QED  BY <1>6, <2>1, <2>2, <2>3, <2>4, <2>5, AnswerSide
<1>12. CountsUp(c)  BY <1>6 DEF CountsUp
<1>13. LeadInv'
  <2>1. LeadInv  BY DEF RoomInv
  <2> QED  BY <1>6, <1>8, <2>1 DEF LeadInv, connVars, Exists
<1>14. TicketsFit'  BY <1>6, <1>11, SideTickets
<1>15. ASSUME trouble' = 0, nextMatch' = 1 PROVE Grows'
  <2>1. Grows  BY <1>6, <1>11, <1>15, SideQuiet DEF RoomInv, QuietInv
  <2>2. IsFiniteSet(members[1])
    <3>1. IsFiniteSet(Everyone)  BY FS_Interval, RoomBounds DEF Everyone
    <3> QED  BY <1>1, <1>2, <3>1, PlayersAreFew, FS_Subset
  <2>3. Cardinality(members'[1]) = Cardinality(members[1]) + 1
    BY <1>7, <1>8, <2>2, FS_AddElement
  <2>4. nextOrdinal' = Cardinality(members'[1]) + 1  BY <1>6, <2>1, <2>3 DEF Grows
  <2>5. ready[1] \subseteq ready'[1] /\ members[1] \subseteq members'[1] /\ nextMatch = 1
    BY <1>6, <1>8, <1>15
  <2> QED  BY <1>1, <1>5, <1>6, <1>7, <1>8, <1>11, <1>15, <2>4, <2>5, StillGrows
<1> QED
  BY <1>3, <1>4, <1>6, <1>11, <1>12, <1>13, <1>14, <1>15, ReadyAreMembers, SideInv

\* The room a client is in is the one there is.
LEMMA InOneRoom ==
    ASSUME RoomInv, NEW c \in ConnectionId, Welcomed(c), RoomOf(c) # None
    PROVE  RoomOf(c) = 1 /\ 1 \in RoomId /\ connPlayer[c] \in members[1] /\ nextRoom = 2
<1>1. RoomOf(c) \in RoomId /\ connPlayer[c] \in members[RoomOf(c)]
  BY RoomOfMember DEF RoomInv, PlayerOf
<1> QED  BY <1>1, OneRoom DEF RoomInv

LEMMA SetReadyKeeps ==
    ASSUME RoomInv, NEW c \in ConnectionId, TakesRequest(c), Inside(c), HasReadied(c),
           SetReady(c, TRUE),
           Sends([d \in ConnectionId |-> Broadcasted(d, RoomOf(c))]), UNCHANGED trouble
    PROVE  RoomInv'
<1> DEFINE p == connPlayer[c]
<1>1. LobbyInv /\ WireTypes /\ c \in open /\ c \in Seat
  BY OneRequest DEF RoomInv
<1>2. [Next]_lobbyVars  BY DEF Next, Request
<1>3. LobbyInv'  BY <1>2, LobbyStep
<1>4. RoomOf(c) = 1 /\ 1 \in RoomId /\ p \in members[1]
  BY InOneRoom DEF SetReady
<1>5. p = Me(c) /\ roomState[1] = "Waiting"
  BY <1>1, <1>4 DEF SetReady, MayChange, Inside
<1>6. /\ ready' = [ready EXCEPT ![1] = @ \cup {p}]
      /\ UNCHANGED <<counters, connVars, playerRoom, roomState, roomHost, members, pending,
                     active>>
  BY <1>4 DEF SetReady, PlayerOf, matchVars
<1> HIDE DEF p
<1>7. \A r \in RoomId : ready[r] \subseteq ready'[r] /\ ready'[r] \subseteq ready[r] \cup {p}
  BY <1>1, <1>4, <1>6 DEF LobbyInv, TypeOK
<1>8. OnlyEnters(c)  BY <1>6 DEF OnlyEnters
<1>9. Sends([d \in ConnectionId |-> Broadcasted(d, 1)])  BY <1>4
<1>10. LobbySide(c)
  <2> DEFINE sent == [d \in ConnectionId |-> Broadcasted(d, 1)]
  <2>1. \A d \in ConnectionId : sent[d] \in Seq(Proper(c, d))  BY <1>3, <1>8, Broadcasts
  <2>2. trouble' \in Nat /\ trouble <= trouble'  BY <1>1 DEF WireTypes
  <2>3. \A r \in RoomId : \A q \in ready'[r] :
            q \in ready[r] \/ (q = connPlayer[c] /\ HasReadied(c))
    BY <1>7 DEF p
  <2>4. Begun => Begun'  BY <1>6 DEF Begun, counters
  <2>5. Sends(sent)  BY <1>9
  <2> HIDE DEF sent
  <2> QED  BY <1>6, <2>1, <2>2, <2>3, <2>4, <2>5, AnswerSide DEF counters
<1>11. CountsUp(c)  BY <1>6 DEF CountsUp, counters
<1>12. LeadInv'
  <2>1. LeadInv  BY DEF RoomInv
  <2> QED  BY <1>6, <2>1 DEF LeadInv, connVars, Exists
<1>13. TicketsFit'  BY <1>6, <1>10, SideTickets
<1>14. ASSUME trouble' = 0, nextMatch' = 1 PROVE Grows'
  <2>1. Grows  BY <1>6, <1>10, <1>14, SideQuiet DEF RoomInv, QuietInv, counters
  <2>2. nextOrdinal' = Cardinality(members'[1]) + 1  BY <1>6, <2>1 DEF Grows, counters
  <2>3. ready[1] \subseteq ready'[1]  BY <1>4, <1>7
  <2>4. members'[1] = members[1] /\ nextMatch = 1 /\ roomState'[1] = "Waiting"
    BY <1>5, <1>6, <1>14 DEF counters
  <2> QED  BY <1>1, <1>4, <1>5, <1>10, <1>14, <2>2, <2>3, <2>4, StillGrows
<1> QED
  BY <1>2, <1>3, <1>6, <1>10, <1>11, <1>12, <1>13, <1>14, ReadyAreMembers, SideInv
  DEF counters

\* Everybody who is in a full room has said everything there is to say.
LEMMA AllHaveReadied ==
    ASSUME RoomInv, trouble = 0, nextMatch = 1, Asked(HostConnection, "StartMatch"),
           members[1] \subseteq ready[1], NEW c \in Seat
    PROVE  HasReadied(c) /\ (requests[c] = <<>> \/ c = HostConnection)
<1>1. Quiet /\ Grows  BY DEF RoomInv, QuietInv
<1>2. LobbyInv /\ CountInv /\ LinkInv  BY DEF RoomInv
<1>3. c \in ConnectionId /\ 1 \in RoomId  BY RoomBounds
<1>4. members[1] = Everyone
  BY <1>1, <1>2, <1>3, PlayersAreFew DEF Grows
<1>5. Greeters = Seat
  <2>1. Bots + 1 \in Everyone /\ Bots + 1 \in PlayerId  BY RoomBounds DEF Everyone
  <2>2. playerRoom[Bots + 1] # None
    BY <1>2, <1>3, <1>4, <2>1 DEF LobbyInv, MembershipAgrees, None
  <2>3. Bots + 1 < nextPlayer /\ nextPlayer \in Nat
    BY <1>2, <2>1, <2>2, Bounds DEF LobbyInv, TypeOK, IdsAreFresh
  <2> QED  BY <1>2, <2>3, GreetersAreFew, RoomBounds DEF CountInv
<1>6. c < nextConnection /\ ~Asked(c, "Hello")  BY <1>5 DEF Greeters
<1>7. link[c] = "Up" /\ c \in open
  <2>1. ~co.done  BY <1>1 DEF Quiet, Begun
  <2>2. link[c] = "Up"  BY <1>1, <1>6, <2>1 DEF Quiet
  <2> QED  BY <1>2, <1>3, <2>2 DEF LinkInv
<1>8. ~Silent(c) /\ ~Greeting(c)  BY <1>6, <1>7 DEF Silent, Greeting
<1>9. connPlayer[c] # None
  BY <1>7, <1>8 DEF RoomInv, TalkInv, Talk, Greeted, Entering, Inside, PlayerId, None
<1>10. connPlayer[c] \in members[1] /\ connPlayer[c] \in PlayerId
  <2>1. connPlayer[c] \in Everyone  BY <1>2, <1>3, <1>9, PlayersAreFew
  <2> QED  BY <1>4, <2>1, RoomBounds
<1>11. playerRoom[connPlayer[c]] # None
  BY <1>2, <1>3, <1>10 DEF LobbyInv, MembershipAgrees, None
<1>12. Inside(c)
  <2>1. ~Greeted(c) /\ ~Entering(c)  BY <1>7, <1>11 DEF Greeted, Entering
  <2> QED  BY <1>8, <2>1 DEF RoomInv, TalkInv, Talk
<1>13. HasReadied(c) /\ ~Asked(c, "SetReady")
  BY <1>3, <1>7, <1>10 DEF RoomInv, ReadyInv
<1> QED  BY <1>12, <1>13 DEF Inside

LEMMA StartKeeps ==
    ASSUME RoomInv, NEW c \in ConnectionId, TakesRequest(c), Inside(c), c = HostConnection,
           Asked(c, "StartMatch"), StartMatch(c),
           Sends([d \in ConnectionId |-> Broadcasted(d, RoomOf(c))]), UNCHANGED trouble
    PROVE  RoomInv'
<1> DEFINE p == connPlayer[c]
<1>1. LobbyInv /\ WireTypes /\ FlowInv /\ c \in open /\ c \in Seat
  BY OneRequest DEF RoomInv
<1>2. [Next]_lobbyVars  BY DEF Next, Request
<1>3. LobbyInv'  BY <1>2, LobbyStep
<1>4. RoomOf(c) = 1 /\ 1 \in RoomId /\ p \in members[1] /\ members[1] \subseteq ready[1]
  BY InOneRoom DEF StartMatch, CanStart
<1>5. nextMatch = 1 /\ flow.startRequested  BY <1>1 DEF FlowInv
<1>6. /\ nextMatch' = 2
      /\ pending' = [pending EXCEPT ![1] =
                        [room |-> 1, requester |-> p, players |-> members[1]]]
      /\ roomState' = [roomState EXCEPT ![1] = "Starting"]
      /\ UNCHANGED <<nextConnection, nextPlayer, nextRoom, nextOrdinal, connVars,
                     playerRoom, roomHost, members, ready, active>>
  BY <1>4, <1>5 DEF StartMatch, PlayerOf
<1>7. OnlyEnters(c)  BY <1>6 DEF OnlyEnters
<1>8. Sends([d \in ConnectionId |-> Broadcasted(d, 1)])  BY <1>4
<1>9. LobbySide(c)
  <2> DEFINE sent == [d \in ConnectionId |-> Broadcasted(d, 1)]
  <2>1. \A d \in ConnectionId : sent[d] \in Seq(Proper(c, d))  BY <1>3, <1>7, Broadcasts
  <2>2. trouble' \in Nat /\ trouble <= trouble'  BY <1>1 DEF WireTypes
  <2>3. ~Begun  BY <1>5 DEF Begun
  <2>4. Sends(sent)  BY <1>8
  <2> HIDE DEF sent
  <2> QED  BY <1>6, <2>1, <2>2, <2>3, <2>4, AnswerSide
<1>10. CountsUp(c)  BY <1>5, <1>6 DEF CountsUp
<1>11. LeadInv'
  <2>1. LeadInv  BY DEF RoomInv
  <2>2. HostConnection \in open' /\ Exists(1)' =>
           connPlayer'[HostConnection] \in members'[1]
           /\ roomHost'[1] = connPlayer'[HostConnection]
    <3>1. Exists(1)  BY <1>1, <1>4 DEF LobbyInv, MembershipAgrees
    <3> QED  BY <1>6, <2>1, <3>1 DEF LeadInv, connVars
  <2>3. \A m \in MatchId : pending'[m].room # None => pending'[m].requester \in pending'[m].players
    BY <1>1, <1>4, <1>6, <2>1 DEF LeadInv, LobbyInv, TypeOK
  <2> QED  BY <2>2, <2>3 DEF LeadInv, MatchId
<1>12. TicketsFit'  BY <1>6, <1>9, SideTickets
<1>13. ASSUME trouble' = 0 PROVE Settled'
  <2>1. trouble = 0  BY <1>13
  <2>2. ASSUME NEW d \in Seat PROVE requests'[d] = <<>> /\ HasReadied(d)'
    <3>1. HasReadied(d)' = HasReadied(d)  BY SameClients, OneRequest
    <3>2. HasReadied(d) /\ (requests[d] = <<>> \/ d = c)
      BY <1>4, <1>5, <2>1, AllHaveReadied
    <3>3. d \in ConnectionId  BY RoomBounds
    <3> QED  BY <3>1, <3>2, <3>3, OneRequest
  <2> QED  BY <2>2 DEF Settled, Seat
<1> QED
  BY <1>2, <1>3, <1>6, <1>9, <1>10, <1>11, <1>12, <1>13, ReadyAreMembers, SideInv

\* The ticket source fails: the room waits again, one match later.
LEMMA RollbackKeeps ==
    ASSUME RoomInv, NEW c \in ConnectionId, LobbyRollsBack(c)
    PROVE  RoomInv' /\ [Next]_lobbyVars
<1>1. /\ TakesRequest(c) /\ StartMatchRollback(c) /\ trouble' = trouble + 1
      /\ Sends([d \in ConnectionId |->
                  Broadcasted(d, RoomOf(c)) \o Only(d, c, ErrorResponse)])
  BY DEF LobbyRollsBack, Troubles
<1>2. Inside(c) /\ Asked(c, "StartMatch") /\ c = HostConnection
  BY <1>1, RequestIs DEF LobbyRollsBack
<1>3. LobbyInv /\ WireTypes /\ FlowInv /\ c \in open /\ c \in Seat
  BY <1>1, OneRequest DEF RoomInv
<1>4. [Next]_lobbyVars  BY <1>1 DEF Next, Request
<1>5. LobbyInv'  BY <1>4, LobbyStep
<1>6. RoomOf(c) = 1 /\ connPlayer[c] # None
  BY <1>1, InOneRoom DEF StartMatchRollback, CanStart, Welcomed
<1>7. nextMatch = 1 /\ flow.startRequested  BY <1>2, <1>3 DEF FlowInv
<1>8. /\ nextMatch' = 2
      /\ UNCHANGED <<nextConnection, nextPlayer, nextRoom, nextOrdinal, connVars,
                     playerRoom, roomState, roomHost, members, ready, active, pending>>
  BY <1>1, <1>7 DEF StartMatchRollback, roomVars
<1>9. OnlyEnters(c)  BY <1>8 DEF OnlyEnters
<1>10. trouble' \in Nat /\ trouble <= trouble' /\ trouble' > 0  BY <1>1, <1>3 DEF WireTypes
<1>11. LobbySide(c)
  <2> DEFINE sent == [d \in ConnectionId |->
                        Broadcasted(d, 1) \o Only(d, c, ErrorResponse)]
  <2>1. ASSUME NEW d \in ConnectionId PROVE sent[d] \in Seq(Proper(c, d))
    <3>1. Broadcasted(d, 1) \in Seq(Proper(c, d))  BY <1>5, <1>9, Broadcasts
    <3>2. Only(d, c, ErrorResponse) \in Seq(Proper(c, d))  BY <1>6, <1>10, TellsError
    <3> QED  BY <3>1, <3>2, ConcatProperties
  <2>2. ~Begun  BY <1>7 DEF Begun
  <2>3. Sends(sent)  BY <1>1, <1>6
  <2> HIDE DEF sent
  <2> QED  BY <1>1, <1>2, <1>8, <1>10, <2>1, <2>2, <2>3, AnswerSide
<1>12. CountsUp(c)  BY <1>2, <1>7, <1>8 DEF CountsUp
<1>13. LeadInv'
  <2>1. LeadInv  BY DEF RoomInv
  <2> QED  BY <1>8, <2>1 DEF LeadInv, connVars, Exists
<1>14. TicketsFit'  BY <1>8, <1>11, SideTickets
<1> QED
  BY <1>4, <1>5, <1>8, <1>10, <1>11, <1>12, <1>13, <1>14, ReadyAreMembers, SideInv

-----------------------------------------------------------------------------
(* The greeting. *)

\* Nothing about the connection changes, for its client or the lobby.
SameSeat(c) ==
    /\ Me(c)' = Me(c) /\ HasReadied(c)' = HasReadied(c)
    /\ requests'[c] = requests[c] /\ messages'[c] = messages[c] /\ link'[c] = link[c]
    /\ c \in open' <=> c \in open
    /\ connPlayer'[c] = connPlayer[c]

LEMMA SeatSame ==
    ASSUME NEW c, SameSeat(c), playerRoom' = playerRoom
    PROVE  /\ Talk(c) => Talk(c)'
           /\ Silent(c) => Silent(c)'
           /\ Inside(c)' <=> Inside(c)
<1>1. Silent(c) => Silent(c)'  BY DEF SameSeat, Silent
<1>2. Greeting(c) => Greeting(c)'  BY DEF SameSeat, Greeting, Asked
<1>3. Greeted(c) => Greeted(c)'  BY DEF SameSeat, Greeted
<1>4. Entering(c) => Entering(c)'  BY DEF SameSeat, Entering, Asked, Way
<1>5. Hears(c, "Welcome")' <=> Hears(c, "Welcome")  BY DEF SameSeat, Hears, Inbox
<1>6. Inside(c)' <=> Inside(c)  BY <1>5 DEF SameSeat, Inside, Asked
<1> QED  BY <1>1, <1>2, <1>3, <1>4, <1>6 DEF Talk

LEMMA HelloKeeps ==
    ASSUME RoomInv, NEW c \in ConnectionId, TakesRequest(c), Greeting(c), Hello(c),
           Sends([d \in ConnectionId |-> Only(d, c, WelcomeTo(nextPlayer))]),
           UNCHANGED trouble
    PROVE  RoomInv'
<1> DEFINE n == nextPlayer  h == HostConnection
<1>1. /\ LobbyInv /\ WireTypes /\ FlowInv /\ CountInv /\ TalkInv /\ LinkInv /\ ReadyInv
      /\ c \in Seat /\ c \in open
      /\ DOMAIN requests' = ConnectionId
      /\ \A d \in ConnectionId : requests'[d] = IF d = c THEN <<>> ELSE requests[d]
      /\ UNCHANGED <<hostVars, botVars, link, over>>
  BY OneRequest DEF RoomInv
<1>2. [Next]_lobbyVars  BY DEF Next, Request
<1>3. LobbyInv'  BY <1>2, LobbyStep
<1>4. n \in PlayerId /\ n \in Everyone  BY <1>1, GreetingFits DEF Greeting
<1>5. /\ nextPlayer' = n + 1 /\ connPlayer' = [connPlayer EXCEPT ![c] = n]
      /\ UNCHANGED <<nextConnection, nextRoom, nextOrdinal, nextMatch, open, playerRoom,
                     roomState, roomHost, members, ready, pending, active>>
  BY DEF Hello, roomVars, matchVars
<1>6. connPlayer'[c] = n /\ \A d \in ConnectionId : d # c => connPlayer'[d] = connPlayer[d]
  BY <1>1, <1>5 DEF LobbyInv, TypeOK
<1>7. playerRoom[n] = None /\ \A r \in RoomId : n \notin members[r] /\ n \notin ready[r]
  <2>1. ~(n < n)  BY <1>1, Bounds DEF LobbyInv, TypeOK
  <2>2. playerRoom[n] = None  BY <1>1, <1>4, <2>1 DEF LobbyInv, IdsAreFresh
  <2>3. \A r \in RoomId : r # None  BY DEF RoomId, None
  <2> QED  BY <1>1, <1>4, <2>2, <2>3 DEF LobbyInv, MembershipAgrees, ReadyInv
<1>8. \A d \in ConnectionId : d # c => messages'[d] = messages[d]
  <2> SUFFICES ASSUME NEW d \in ConnectionId, d # c PROVE messages'[d] = messages[d]
    OBVIOUS
  <2>1. messages'[d] = IF link[d] = "Up" THEN messages[d] \o <<>> ELSE messages[d]
    BY DEF Sends, Delivered, Only
  <2>2. messages[d] \in Seq(Note)  BY <1>1, InboxType
  <2> QED  BY <2>1, <2>2, ConcatEmptySeq
<1>9. messages'[c] = IF link[c] = "Up" THEN <<WelcomeTo(n)>> ELSE <<>>
  <2>1. messages'[c] = IF link[c] = "Up" THEN messages[c] \o <<WelcomeTo(n)>> ELSE messages[c]
    BY DEF Sends, Delivered, Only
  <2>2. messages[c] = <<>> /\ <<WelcomeTo(n)>> \in Seq(Note)
    BY <1>4, NoteTypes, OneNote DEF Greeting
  <2> QED  BY <2>1, <2>2, ConcatEmptySeq
<1>10. Me(c)' = None /\ ~HasReadied(c)'
  BY <1>1, SameClients DEF Greeting
<1>11. \A d \in Seat : d # c => SameSeat(d)
  BY <1>1, <1>5, <1>6, <1>8, SameClients, RoomBounds DEF SameSeat
<1>12. \A i \in Inbox(c)' : messages'[c][i] = WelcomeTo(n) /\ i = 1
  <2>1. CASE link[c] = "Up"
    <3>1. messages'[c] = <<WelcomeTo(n)>>  BY <1>9, <2>1
    <3>2. Len(messages'[c]) = 1 /\ messages'[c][1] = WelcomeTo(n)  BY <3>1
    <3> QED  BY <3>2 DEF Inbox
  <2>2. CASE link[c] # "Up"
    <3>1. Len(messages'[c]) = 0  BY <1>9, <2>2
    <3> QED  BY <3>1 DEF Inbox
  <2> QED  BY <2>1, <2>2
<1>13. WelcomeTo(n).type = "Welcome"  BY DEF WelcomeTo
<1>14. WireTypes' /\ ClientTypes'
  <2>1. \A d \in ConnectionId : messages'[d] \in Seq(Note)
    <3>1. messages'[c] \in Seq(Note)  BY <1>4, <1>9, NoteTypes, OneNote, NoNote
    <3> QED  BY <1>1, <1>8, <3>1, InboxType
  <2>2. messages' \in [ConnectionId -> Seq(Note)]  BY <2>1 DEF Sends, Delivered
  <2>3. WireTypes'  BY <1>1, <2>2 DEF WireTypes
  <2>4. ClientTypes'  BY <1>1 DEF RoomInv, ClientTypes, hostVars, botVars
  <2> QED  BY <2>3, <2>4
<1>15. Talk(c)' /\ ~Inside(c)'
  <2>1. requests'[c] = <<>>  BY <1>1
  <2>2. CASE link[c] = "Up"
    <3>1. Greeted(c)'  BY <1>4, <1>5, <1>6, <1>7, <1>9, <1>10, <2>1, <2>2 DEF Greeted
    <3> QED  BY <1>10, <3>1 DEF Talk, Inside
  <2>3. CASE link[c] # "Up"
    <3>1. n # None  BY <1>4 DEF PlayerId, None
    <3>2. Silent(c)'  BY <1>1, <1>6, <1>9, <1>10, <2>1, <2>3, <3>1 DEF Silent
    <3> QED  BY <1>10, <3>2 DEF Talk, Inside
  <2> QED  BY <2>2, <2>3
<1>16. TalkInv'
  <2>1. \A d \in Seat : Talk(d)'
    BY <1>1, <1>5, <1>11, <1>15, SeatSame DEF TalkInv
  <2> QED  BY <2>1 DEF TalkInv, Seat
<1>17. LinkInv'
  <2>1. \A d \in Seat : d >= nextConnection' => Silent(d)'
    <3> SUFFICES ASSUME NEW d \in Seat, d >= nextConnection' PROVE Silent(d)'
      OBVIOUS
    <3>1. Silent(d)  BY <1>1, <1>5 DEF LinkInv
    <3>2. d # c  BY <3>1, Unasked DEF Greeting, Silent, Asked
    <3> QED  BY <1>5, <1>11, <3>1, <3>2, SeatSame
  <2>2. flow' = flow /\ co' = co /\ link' = link /\ open' = open
    BY <1>1, <1>5 DEF hostVars, botVars
  <2> QED  BY <1>1, <1>5, <2>1, <2>2 DEF LinkInv, Seat
<1>18. ReadyInv'
  <2>1. ASSUME NEW d \in Seat, NEW r \in RoomId, d \in open', connPlayer'[d] \in ready'[r]
        PROVE  HasReadied(d)' /\ ~Asked(d, "SetReady")'
    <3>1. d # c  BY <1>5, <1>6, <1>7, <2>1
    <3>2. SameSeat(d)  BY <1>11, <3>1
    <3> QED  BY <1>1, <1>5, <2>1, <3>2 DEF SameSeat, ReadyInv, Asked
  <2>2. \A r \in RoomId : ready'[r] \subseteq members'[r]  BY <1>2, ReadyAreMembers
  <2> QED  BY <2>1, <2>2 DEF ReadyInv, Seat, RoomId
<1>19. c = h => nextRoom = 1
  BY <1>1 DEF FlowInv, Greeting, Inside
<1>20. FlowInv'
  <2>1. ~Inside(h)' => nextRoom' = 1
    <3>1. c # h => (Inside(h)' <=> Inside(h))  BY <1>5, <1>11, SeatSame, RoomBounds
    <3> QED  BY <1>1, <1>5, <1>19, <3>1 DEF FlowInv
  <2>2. Asked(h, "StartMatch")' => Asked(h, "StartMatch")
    BY <1>1, Unasked, RoomBounds DEF Asked
  <2>3. flow' = flow  BY <1>1 DEF hostVars
  <2>4. Begun' = Begun  BY <1>5 DEF Begun
  <2> QED  BY <1>1, <1>5, <2>1, <2>2, <2>3, <2>4 DEF FlowInv
<1>21. LeadInv'
  <2>1. LeadInv  BY DEF RoomInv
  <2>2. c = h => ~Exists(1)  BY <1>1, <1>19, OneRoom, RoomBounds
  <2>3. c # h => connPlayer'[h] = connPlayer[h]  BY <1>6, RoomBounds
  <2> QED  BY <1>5, <2>1, <2>2, <2>3 DEF LeadInv, Exists
<1>22. RoomsFit'
  <2>1. ASSUME NEW i \in Inbox(h)', messages'[h][i].type = "Room"
        PROVE  FitsNext(messages'[h][i].view)
    <3>1. c # h  BY <1>12, <1>13, <2>1
    <3>2. messages'[h] = messages[h] /\ requests'[h] = requests[h]
      BY <1>1, <1>8, <3>1, RoomBounds
    <3>3. ViewFits(messages[h][i].view)  BY <2>1, <3>2 DEF RoomInv, RoomsFit, Inbox
    <3>4. flow' = flow  BY <1>1 DEF hostVars
    <3> QED  BY <1>5, <3>2, <3>3, <3>4 DEF ViewFits, FitsNext, Asked
  <2> QED  BY <2>1, RoomsFitNext
<1>23. TicketsFit'
  <2>1. TicketsFit /\ flow' = flow /\ link' = link  BY <1>1 DEF RoomInv, hostVars
  <2>2. CASE c # h
    <3>1. messages'[h] = messages[h]  BY <1>8, <2>2, RoomBounds
    <3> QED  BY <1>5, <2>1, <3>1 DEF TicketsFit, TicketAt, Inbox, Hears
  <2>3. CASE c = h
    <3>1. ~Hears(h, "Ticket")
      <4>1. Inbox(h) = {}  BY <2>3 DEF Greeting, Inbox
      <4> QED  BY <4>1 DEF Hears
    <3>2. \A i \in Inbox(h)' : messages'[h][i].type = "Welcome"  BY <1>12, <1>13, <2>3
    <3> QED  BY <1>5, <2>1, <3>1, <3>2 DEF TicketsFit, TicketAt
  <2> QED  BY <2>2, <2>3
<1>24. GamesFit'
  <2>1. GamesFit /\ co' = co /\ moving' = moving /\ bot' = bot
    BY <1>1 DEF RoomInv, botVars
  <2>2. Begun' = Begun  BY <1>5 DEF Begun
  <2>3. \A d \in Seat : \A i \in Inbox(d)' :
            messages'[d][i].type = "Ticket" => messages'[d][i].match = 1 /\ Begun
    <3> SUFFICES ASSUME NEW d \in Seat, NEW i \in Inbox(d)', messages'[d][i].type = "Ticket"
                 PROVE  messages'[d][i].match = 1 /\ Begun
      OBVIOUS
    <3>1. d # c  BY <1>12, <1>13
    <3>2. messages'[d] = messages[d]  BY <1>8, <3>1, RoomBounds
    <3> QED  BY <2>1, <3>2 DEF GamesFit, Inbox
  <2> QED  BY <2>1, <2>2, <2>3 DEF GamesFit, Seat
<1>25. CountInv'
  <2>1. c \notin Greeters /\ Greeters' = Greeters \cup {c}
    <3>1. c < nextConnection  BY <1>1, OpenSeat
    <3>2. \A d \in ConnectionId : Asked(d, "Hello")' <=> d # c /\ Asked(d, "Hello")
      BY <1>1, Unasked DEF Asked
    <3> QED  BY <1>1, <1>5, <3>1, <3>2, RoomBounds DEF Greeters, Greeting, Seat
  <2>2. Cardinality(Greeters') = Cardinality(Greeters) + 1
    BY <2>1, GreetersAreFew, FS_AddElement
  <2>3. n \in Nat  BY <1>1, Bounds DEF LobbyInv, TypeOK
  <2> HIDE DEF n
  <2> QED  BY <1>1, <1>5, <2>2, <2>3, GreetersAreFew DEF CountInv, n
<1>26. QuietInv'
  <2>1. SUFFICES ASSUME trouble' = 0
                 PROVE  /\ Quiet' /\ (nextMatch' = 1 => Grows') /\ nextMatch' # 2
    BY DEF QuietInv
  <2>2. trouble = 0 /\ Quiet  BY <2>1 DEF RoomInv, QuietInv
  <2>3. Quiet'
    <3>1. ASSUME NEW d \in Seat PROVE ~Hears(d, "Error")'
      <4>1. CASE d = c  BY <1>12, <1>13, <4>1 DEF Hears
      <4>2. CASE d # c
        <5>1. messages'[d] = messages[d]  BY <1>8, <4>2, RoomBounds
        <5> QED  BY <2>2, <5>1 DEF Quiet, Hears, Inbox
      <4> QED  BY <4>1, <4>2
    <3>2. Begun' = Begun  BY <1>5 DEF Begun
    <3>3. UNCHANGED <<hostFailed, hostStop, co, lobbyTimer, gameTimer, bot, link>>
      BY <1>1 DEF hostVars, botVars
    <3> QED  BY <1>5, <2>2, <3>1, <3>2, <3>3 DEF Quiet, Seat
  <2>4. ASSUME nextMatch' = 1 PROVE Grows'
    <3>1. Grows  BY <1>5, <2>2, <2>4 DEF RoomInv, QuietInv
    <3>2. ASSUME NEW d \in Seat, Inside(d)' PROVE Me(d)' \in members'[1]
      <4>1. d # c  BY <1>15, <3>2
      <4>2. Inside(d) /\ Me(d)' = Me(d)  BY <1>5, <1>11, <3>2, <4>1, SeatSame DEF SameSeat
      <4> QED  BY <1>5, <3>1, <4>2 DEF Grows
    <3>3. ASSUME NEW i \in Inbox(h)', messages'[h][i].type = "Room"
          PROVE  /\ messages'[h][i].view.members \subseteq members[1]
                 /\ messages'[h][i].view.ready \subseteq ready[1]
      <4>1. c # h  BY <1>12, <1>13, <3>3
      <4>2. messages'[h] = messages[h]  BY <1>8, <4>1, RoomBounds
      <4> QED  BY <3>1, <3>3, <4>2 DEF Grows, Inbox
    <3>4. Asked(h, "StartMatch")' => Asked(h, "StartMatch")
      BY <1>1, Unasked, RoomBounds DEF Asked
    <3> QED  BY <1>5, <3>1, <3>2, <3>3, <3>4 DEF Grows, Seat, Everyone
  <2>5. nextMatch # 2
    <3>1. ~Settled  BY <1>1, Unasked DEF Settled, Greeting, Asked
    <3> QED  BY <2>2, <3>1 DEF RoomInv, QuietInv
  <2> QED  BY <1>5, <2>3, <2>4, <2>5
<1> QED
  BY <1>3, <1>14, <1>16, <1>17, <1>18, <1>20, <1>21, <1>22, <1>23, <1>24, <1>25, <1>26
  DEF RoomInv

-----------------------------------------------------------------------------
(* The requests that are refused. *)

\* A refusal has its reason in something that went wrong before.
LEMMA RefusedAfterTrouble ==
    ASSUME RoomInv, NEW c \in ConnectionId, TakesRequest(c),
           ~Granted(c, Head(requests[c]))
    PROVE  trouble > 0 /\ (Entering(c) \/ Inside(c))
<1> DEFINE q == Head(requests[c])
<1>1. /\ LobbyInv /\ WireTypes /\ FlowInv /\ CountInv /\ LinkInv /\ LeadInv
      /\ c \in Seat /\ c \in open /\ c < nextConnection
  BY OneRequest, OpenSeat DEF RoomInv
<1>2. CASE q = "Hello" /\ Greeting(c)
  <2>1. nextPlayer \in PlayerId  BY <1>1, <1>2, GreetingFits DEF Greeting
  <2> QED  BY <1>2, <2>1 DEF Granted, Greeting
<1>3. ASSUME q # "Hello", Entering(c) \/ Inside(c) PROVE trouble > 0
  <2>1. SUFFICES ASSUME trouble = 0 PROVE FALSE
    BY <1>1 DEF WireTypes
  <2>2. Quiet /\ nextMatch \in {1, 2}
    <3>1. nextMatch \in Nat /\ nextMatch >= 1  BY <1>1, Bounds DEF LobbyInv, TypeOK
    <3>2. nextMatch <= 2  BY <1>1 DEF FlowInv
    <3>3. Quiet  BY <2>1 DEF RoomInv, QuietInv
    <3> QED  BY <3>1, <3>2, <3>3
  <2>3. nextMatch = 1 /\ Grows
    <3>1. ~Settled  BY <1>1 DEF Settled, TakesRequest
    <3> QED  BY <2>1, <2>2, <3>1 DEF RoomInv, QuietInv
  <2>4. 1 \in RoomId /\ 1 \in MatchId /\ members[1] \subseteq Everyone
    BY <1>1, RoomBounds, PlayersAreFew
  <2>5. IsFiniteSet(Everyone) /\ Cardinality(Everyone) = Bots + 1
    BY FS_Interval, RoomBounds DEF Everyone
  <2>6. /\ IsFiniteSet(members[1]) /\ Cardinality(members[1]) \in Nat
        /\ Cardinality(members[1]) <= Bots + 1
        /\ Cardinality(members[1]) = Bots + 1 => members[1] = Everyone
    BY <2>4, <2>5, FS_Subset, FS_CardinalityType
  <2>7. Welcomed(c) /\ connPlayer[c] = Me(c) /\ Me(c) \in PlayerId
    BY <1>1, <1>3 DEF Welcomed, Entering, Inside, LobbyInv, TypeOK
  <2>8. nextOrdinal = Cardinality(members[1]) + 1  BY <2>3 DEF Grows
  <2>9. ASSUME Inside(c)
        PROVE  RoomOf(c) = 1 /\ roomState[1] = "Waiting" /\ connPlayer[c] \in members[1]
               /\ Exists(1)
    <3>1. connPlayer[c] \in members[1]  BY <1>1, <2>3, <2>7, <2>9 DEF Grows
    <3>2. nextRoom = 2 /\ Exists(1)  BY <1>1, <2>4, <3>1, OneRoom
    <3>3. RoomOf(c) = 1
      BY <1>1, <2>4, <2>7, <3>1 DEF LobbyInv, MembershipAgrees, RoomOf
    <3> QED  BY <2>3, <3>1, <3>2, <3>3 DEF Grows
  <2>10. CASE q = "CreateRoom" /\ Entering(c) /\ c = HostConnection
    <3>1. ~Inside(c)  BY <2>10 DEF Entering, Inside, Asked, Way
    <3>2. nextRoom = 1  BY <1>1, <2>10, <3>1 DEF FlowInv
    <3>3. members[1] = {} /\ \A r \in RoomId : ~Exists(r)
      BY <1>1, <2>4, <3>2, OneRoom
    <3>4. Cardinality({}) = 0  BY FS_EmptySet
    <3>5. nextOrdinal \in Ordinal
      <4>1. nextOrdinal = 1  BY <2>8, <3>3, <3>4
      <4> QED  BY <4>1, <1>1, Bounds, RoomBounds, RoomSuffices DEF Ordinal
    <3>6. Cardinality({r \in RoomId : Exists(r)}) < MaximumRooms
      <4> DEFINE there == {r \in RoomId : Exists(r)}
      <4>1. there = {}  BY <3>3
      <4> HIDE DEF there
      <4>2. Cardinality(there) = 0  BY <3>4, <4>1
      <4>3. Cardinality(there) < MaximumRooms  BY <4>2, RoomSuffices, LobbyAssumption
      <4> QED  BY <4>3 DEF there
    <3>7. RoomOf(c) = None  BY <1>1, <2>7, <2>10 DEF Entering, RoomOf
    <3> QED  BY <2>4, <2>7, <2>10, <3>2, <3>5, <3>6, <3>7 DEF Granted
  <2>11. CASE q = "JoinRoom" /\ Entering(c) /\ c # HostConnection
    <3>1. flow.room # None
      BY <1>1, <2>11, RoomBounds, Bounds DEF Seat, LobbyInv, TypeOK, LinkInv
    <3>2. RoomKnown = 1 /\ nextRoom = 2
      BY <1>1, <3>1 DEF RoomKnown, RoomInv, ClientTypes, FlowInv
    <3>3. RoomOf(c) = None  BY <1>1, <2>7, <2>11 DEF Entering, RoomOf
    <3>4. connPlayer[c] \in Everyone /\ connPlayer[c] \notin members[1]
      <4>1. connPlayer[c] # None  BY <2>7 DEF PlayerId, None
      <4> QED
        BY <1>1, <2>4, <2>7, <3>3, <4>1, PlayersAreFew
        DEF LobbyInv, MembershipAgrees, RoomOf, None
    <3>5. Cardinality(members[1]) <= Bots
      BY <2>6, <3>4, RoomBounds
    <3>6. Cardinality(members[1]) < RoomCapacity
      BY <2>6, <3>5, RoomBounds, RoomSuffices, LobbyAssumption
    <3>7. nextOrdinal \in Ordinal
      BY <2>6, <2>8, <3>5, RoomBounds, Bounds, RoomSuffices DEF Ordinal
    <3>8. roomState[1] = "Waiting"  BY <2>3, <3>2 DEF Grows
    <3> QED  BY <2>7, <2>11, <3>2, <3>3, <3>6, <3>7, <3>8 DEF Granted
  <2>12. CASE q = "SetReady" /\ Inside(c)
    <3>1. RoomOf(c) # None /\ MayChange(RoomOf(c))
      BY <2>9, <2>12 DEF MayChange, None
    <3> QED  BY <2>7, <2>12, <3>1 DEF Granted
  <2>13. CASE q = "StartMatch" /\ Inside(c) /\ Asked(c, "StartMatch") /\ c = HostConnection
    <3>1. members[1] = Everyone /\ members[1] \subseteq ready[1]
      BY <2>3, <2>4, <2>13 DEF Grows
    <3>2. Cardinality(members[1]) >= 2  BY <2>5, <3>1, RoomBounds
    <3>3. roomHost[1] = connPlayer[c]  BY <1>1, <2>9, <2>13 DEF LeadInv
    <3>4. CanStart(c)
      BY <2>3, <2>4, <2>7, <2>9, <2>13, <3>1, <3>2, <3>3 DEF CanStart, PlayerOf, None
    <3> QED  BY <2>13, <3>4 DEF Granted
  <2> QED  BY <1>3, <2>10, <2>11, <2>12, <2>13, RequestIs
<1> QED  BY <1>2, <1>3, RequestIs

LEMMA RefuseKeeps ==
    ASSUME RoomInv, NEW c \in ConnectionId, LobbyRefuses(c)
    PROVE  RoomInv'
<1>1. /\ TakesRequest(c) /\ UNCHANGED <<lobbyVars, trouble>>
      /\ Sends([d \in ConnectionId |-> Only(d, c, ErrorResponse)])
  BY DEF LobbyRefuses
<1>2. trouble > 0 /\ (Entering(c) \/ Inside(c))
  BY <1>1, RefusedAfterTrouble DEF LobbyRefuses
<1>3. c \in open /\ WireTypes  BY <1>1, OneRequest DEF RoomInv
<1>4. LobbyInv'  BY <1>1, LobbyStep
<1>5. /\ UNCHANGED <<nextConnection, nextPlayer, nextRoom, nextMatch, connVars, playerRoom>>
      /\ UNCHANGED <<roomState, roomHost, members, ready, pending, active>>
  BY <1>1 DEF lobbyVars, counters, roomVars, matchVars
<1>6. LobbySide(c)
  <2> DEFINE sent == [d \in ConnectionId |-> Only(d, c, ErrorResponse)]
  <2>1. connPlayer[c] # None
    <3>1. connPlayer[c] = Me(c) /\ Me(c) # None  BY <1>2, <1>3 DEF Entering, Inside
    <3> QED  BY <3>1
  <2>2. \A d \in ConnectionId : sent[d] \in Seq(Proper(c, d))
    BY <1>1, <1>2, <2>1, TellsError
  <2>3. trouble' \in Nat /\ trouble <= trouble'  BY <1>1, <1>3 DEF WireTypes
  <2>4. Begun => Begun'  BY <1>5 DEF Begun
  <2>5. Sends(sent)  BY <1>1
  <2> HIDE DEF sent
  <2> QED  BY <1>1, <1>2, <1>5, <2>2, <2>3, <2>4, <2>5, AnswerSide
<1>7. CountsUp(c)  BY <1>5 DEF CountsUp
<1>8. LeadInv'
  <2>1. LeadInv  BY DEF RoomInv
  <2> QED  BY <1>5, <2>1 DEF LeadInv, connVars, Exists
<1>9. TicketsFit'  BY <1>5, <1>6, SideTickets
<1> QED
  BY <1>1, <1>2, <1>4, <1>5, <1>6, <1>7, <1>8, <1>9, ReadyAreMembers, SideInv

-----------------------------------------------------------------------------
(* A client is gone. *)

\* What all losses have in common.
LEMMA GoneSide ==
    ASSUME RoomInv, NEW c \in ConnectionId, c \in open, link[c] = "Cut",
           requests' = [requests EXCEPT ![c] = <<>>],
           UNCHANGED <<hostVars, botVars, link, trouble, nextConnection, nextPlayer>>,
           CloseConnection(c),
           NEW sent, Sends(sent), \A d \in ConnectionId : sent[d] \in Seq(Proper(c, d)),
           \A p \in PlayerId : playerRoom'[p] = None \/ playerRoom'[p] = playerRoom[p],
           \A r \in RoomId : ready'[r] \subseteq ready[r],
           Begun => Begun'
    PROVE  LobbySide(c)
<1>1. messages' \in [ConnectionId -> Seq(Note)] /\ \A d \in ConnectionId : SentOnly(d, Proper(c, d))
  BY SendsProper
<1>2. WireTypes /\ LobbyInv  BY DEF RoomInv
<1>3. DOMAIN requests' = ConnectionId  BY <1>2 DEF WireTypes
<1>4. \A d \in ConnectionId : requests'[d] = IF d = c THEN <<>> ELSE requests[d]
  BY <1>2 DEF WireTypes
<1>5. c \notin open' /\ open' \subseteq open /\ open \ {c} \subseteq open' /\ link[c] # "Up"
  BY DEF CloseConnection
<1>6. open \subseteq ConnectionId /\ connPlayer \in [ConnectionId -> PlayerId \cup {None}]
  BY <1>2 DEF LobbyInv, TypeOK
<1>7. \A d \in open' : connPlayer'[d] = connPlayer[d]
  BY <1>5, <1>6 DEF CloseConnection
<1>8. \A d \in open' \ {c} : connPlayer[d] # None /\ playerRoom[connPlayer[d]] = None =>
          playerRoom'[connPlayer[d]] = None
  <2> SUFFICES ASSUME NEW d \in open', connPlayer[d] # None,
                      playerRoom[connPlayer[d]] = None
               PROVE  playerRoom'[connPlayer[d]] = None
    OBVIOUS
  <2>1. connPlayer[d] \in PlayerId  BY <1>5, <1>6
  <2> QED  BY <2>1
<1>9. trouble' \in Nat /\ trouble <= trouble'  BY <1>2 DEF WireTypes
<1> QED  BY <1>1, <1>3, <1>4, <1>5, <1>7, <1>8, <1>9 DEF LobbySide

\* It has gone before the match only because something went wrong.
LEMMA LostAfterTrouble ==
    ASSUME RoomInv, NEW c \in ConnectionId, c \in open, link[c] = "Cut", trouble = 0
    PROVE  Begun
<1>1. Quiet /\ c \in Seat /\ c < nextConnection
  BY OpenSeat DEF RoomInv, QuietInv
<1> QED  BY <1>1 DEF Quiet

LEMMA GoneKeeps ==
    ASSUME RoomInv, NEW c \in ConnectionId, c \in open, link[c] = "Cut", LobbySide(c),
           c \notin open', [Next]_lobbyVars, UNCHANGED <<counters, active, trouble>>, LeadInv'
    PROVE  RoomInv'
<1>1. LobbyInv'  BY LobbyStep
<1>2. CountsUp(c)  BY DEF CountsUp, counters
<1>3. TicketsFit'  BY SideTickets
<1>4. trouble' = 0 => nextMatch' = 2  BY LostAfterTrouble DEF Begun, counters
<1>5. nextMatch' = nextMatch  BY DEF counters
<1> QED  BY <1>1, <1>2, <1>3, <1>4, <1>5, ReadyAreMembers, SideInv

\* The room lets a member go: its host stays.
LEMMA HostStays ==
    ASSUME RoomInv, NEW c \in ConnectionId, c \in open, connPlayer[c] \in members[1],
           RemoveMember(1, connPlayer[c]), CloseConnection(c),
           \A m \in MatchId : pending'[m] = pending[m] \/ pending'[m].room = None
    PROVE  LeadInv'
<1> DEFINE h == HostConnection  p == connPlayer[c]
<1>1. LobbyInv /\ LeadInv /\ 1 \in RoomId /\ h \in ConnectionId /\ p \in PlayerId
  BY RoomBounds DEF RoomInv, LobbyInv, TypeOK
<1>2. ASSUME h \in open', Exists(1)'
      PROVE  connPlayer'[h] \in members'[1] /\ roomHost'[1] = connPlayer'[h]
  <2>1. h \in open /\ h # c /\ connPlayer'[h] = connPlayer[h]
    BY <1>1, <1>2 DEF CloseConnection, LobbyInv, TypeOK
  <2>2. Exists(1)  BY <1>1 DEF LobbyInv, MembershipAgrees
  <2>3. connPlayer[h] \in members[1] /\ roomHost[1] = connPlayer[h]
    BY <1>1, <2>1, <2>2 DEF LeadInv
  <2>4. connPlayer[h] # p
    BY <1>1, <2>1 DEF LobbyInv, ConnectionsAgree
  <2>5. members'[1] = members[1] \ {p}
    BY <1>1 DEF RemoveMember, LobbyInv, TypeOK
  <2>6. roomHost'[1] = Successor(1, p)
    BY <1>1 DEF RemoveMember, LobbyInv, TypeOK
  <2>7. Successor(1, p) = roomHost[1]  BY <2>3, <2>4 DEF Successor
  <2> QED  BY <2>1, <2>3, <2>4, <2>5, <2>6, <2>7
<1>3. \A m \in MatchId : pending'[m].room # None => pending'[m].requester \in pending'[m].players
  BY <1>1 DEF LeadInv
<1> QED  BY <1>2, <1>3 DEF LeadInv, MatchId

LEMMA DisconnectOutsideKeeps ==
    ASSUME RoomInv, NEW c \in ConnectionId, LobbyDisconnects(c), DisconnectOutside(c)
    PROVE  RoomInv'
<1>1. /\ c \in open /\ link[c] = "Cut" /\ requests' = [requests EXCEPT ![c] = <<>>]
      /\ UNCHANGED <<hostVars, botVars, link, over, trouble>>
  BY DEF LobbyDisconnects
<1>2. LobbyInv  BY DEF RoomInv
<1>3. CloseConnection(c) /\ UNCHANGED <<counters, roomVars, matchVars>>
  BY DEF DisconnectOutside
<1>4. UNCHANGED <<nextConnection, nextPlayer, nextMatch, playerRoom, roomState, roomHost,
                  members, ready, pending, active>>
  BY <1>3 DEF counters, roomVars, matchVars
<1>5. Welcomed(c) /\ RoomOf(c) # None => roomState[RoomOf(c)] = "InMatch"
  <2> SUFFICES ASSUME Welcomed(c), RoomOf(c) # None PROVE roomState[RoomOf(c)] = "InMatch"
    OBVIOUS
  <2>1. RoomOf(c) \in RoomId  BY <1>2, RoomOfMember
  <2>2. StaysMember(RoomOf(c))  BY DEF DisconnectOutside, Welcomed
  <2> QED  BY <1>2, <2>1, <2>2 DEF StaysMember, LobbyInv, StartingIffPending
<1>6. Sends([d \in ConnectionId |-> <<>>])
  <2> DEFINE r == IF Welcomed(c) THEN RoomOf(c) ELSE None
  <2>1. r = None \/ roomState[r] = "InMatch"  BY <1>5
  <2> QED  BY <2>1 DEF LobbyDisconnects
<1>7. LobbySide(c)
  <2> DEFINE sent == [d \in ConnectionId |-> <<>>]
  <2>1. \A d \in ConnectionId : sent[d] \in Seq(Proper(c, d))  BY NoNote
  <2>2. Begun => Begun'  BY <1>4 DEF Begun
  <2>3. Sends(sent)  BY <1>6
  <2> HIDE DEF sent
  <2> QED  BY <1>1, <1>3, <1>4, <2>1, <2>2, <2>3, GoneSide
<1>8. c \notin open'  BY <1>3 DEF CloseConnection
<1>9. [Next]_lobbyVars  BY DEF Next, Disconnect
<1>10. LeadInv'
  <2>1. LeadInv  BY DEF RoomInv
  <2>2. HostConnection \in open' => HostConnection \in open
                                    /\ connPlayer'[HostConnection] = connPlayer[HostConnection]
    BY <1>2, <1>3, RoomBounds DEF CloseConnection, LobbyInv, TypeOK
  <2> QED  BY <1>4, <2>1, <2>2 DEF LeadInv, Exists
<1> QED  BY <1>1, <1>3, <1>4, <1>7, <1>8, <1>9, <1>10, GoneKeeps

\* What both ways of leaving a room that has not started share.
LEMMA RemovedSide ==
    ASSUME RoomInv, NEW c \in ConnectionId, LobbyDisconnects(c),
           Welcomed(c), RoomOf(c) # None, roomState[RoomOf(c)] # "InMatch",
           RemoveMember(RoomOf(c), PlayerOf(c)), CloseConnection(c),
           [Next]_lobbyVars, UNCHANGED <<counters, active>>,
           \A m \in MatchId : pending'[m] = pending[m] \/ pending'[m].room = None,
           NEW e, Sends([d \in ConnectionId |->
                            IF d = c THEN <<>>
                            ELSE Broadcasted(d, RoomOf(c)) \o Only(d, e, ErrorResponse)]),
           e \in ConnectionId => trouble > 0 /\ connPlayer[e] # None
                                 /\ playerRoom[connPlayer[e]] # None
    PROVE  RoomInv'
<1> DEFINE p == connPlayer[c]
<1>1. /\ c \in open /\ link[c] = "Cut" /\ requests' = [requests EXCEPT ![c] = <<>>]
      /\ UNCHANGED <<hostVars, botVars, link, over, trouble>>
  BY DEF LobbyDisconnects
<1>2. LobbyInv /\ WireTypes  BY DEF RoomInv
<1>3. RoomOf(c) = 1 /\ 1 \in RoomId /\ p \in members[1]  BY InOneRoom
<1>4. RemoveMember(1, p)  BY <1>3 DEF PlayerOf
<1>5. LobbyInv'  BY LobbyStep
<1>6. c \notin open'  BY DEF CloseConnection
<1>7. members'[1] \subseteq members[1] /\ \A r \in RoomId : ready'[r] \subseteq ready[r]
  BY <1>2, <1>3, <1>4 DEF RemoveMember, LobbyInv, TypeOK
<1>8. \A q \in PlayerId : playerRoom'[q] = None \/ playerRoom'[q] = playerRoom[q]
  BY <1>2, <1>4 DEF RemoveMember, LobbyInv, TypeOK
<1>9. OnlyEnters(c)  BY <1>7 DEF OnlyEnters
<1>10. UNCHANGED <<nextConnection, nextPlayer, nextMatch>>  BY DEF counters
<1>11. Begun => Begun'
  <2>1. pending'[1] = pending[1] \/ pending'[1].room = None  BY RoomBounds
  <2> QED  BY <1>10, <2>1 DEF Begun
<1>12. LobbySide(c)
  <2> DEFINE sent == [d \in ConnectionId |->
                        IF d = c THEN <<>>
                        ELSE Broadcasted(d, 1) \o Only(d, e, ErrorResponse)]
  <2>1. ASSUME NEW d \in ConnectionId PROVE sent[d] \in Seq(Proper(c, d))
    <3>1. Broadcasted(d, 1) \in Seq(Proper(c, d))  BY <1>5, <1>9, Broadcasts
    <3>2. Only(d, e, ErrorResponse) \in Seq(Proper(c, d))
      <4>1. CASE d = e
        <5>1. trouble' > 0 /\ connPlayer[d] # None /\ playerRoom[connPlayer[d]] # None
          BY <1>1, <4>1
        <5> QED  BY <4>1, <5>1, TellsError
      <4>2. CASE d # e  BY <4>2, NoNote DEF Only
      <4> QED  BY <4>1, <4>2
    <3>3. <<>> \in Seq(Proper(c, d))  BY NoNote
    <3> QED  BY <3>1, <3>2, <3>3, ConcatProperties
  <2>2. Sends(sent)  BY <1>3
  <2> HIDE DEF sent
  <2> QED  BY <1>1, <1>7, <1>8, <1>10, <1>11, <2>1, <2>2, GoneSide
<1>13. LeadInv'  BY <1>1, <1>3, <1>4, HostStays
<1> QED  BY <1>1, <1>6, <1>12, <1>13, GoneKeeps

LEMMA DisconnectWaitingKeeps ==
    ASSUME RoomInv, NEW c \in ConnectionId, LobbyDisconnects(c), DisconnectWaiting(c)
    PROVE  RoomInv'
<1>1. /\ Welcomed(c) /\ RoomOf(c) # None /\ roomState[RoomOf(c)] = "Waiting"
      /\ RemoveMember(RoomOf(c), PlayerOf(c)) /\ CloseConnection(c)
      /\ UNCHANGED <<counters, matchVars>>
  BY DEF DisconnectWaiting
<1>2. [Next]_lobbyVars  BY DEF Next, Disconnect
<1>3. UNCHANGED <<counters, active>> /\ pending' = pending  BY <1>1 DEF matchVars
<1>4. Sends([d \in ConnectionId |->
                IF d = c THEN <<>>
                ELSE Broadcasted(d, RoomOf(c)) \o Only(d, None, ErrorResponse)])
  BY <1>1 DEF LobbyDisconnects
<1>5. None \notin ConnectionId  BY DEF ConnectionId, None
<1>6. roomState[RoomOf(c)] # "InMatch"  BY <1>1
<1> QED  BY <1>1, <1>2, <1>3, <1>4, <1>5, <1>6, RemovedSide

\* The start a room is in, and the player who asked for it.
LEMMA StartIs ==
    ASSUME RoomInv, NEW m \in MatchId, pending[m].room # None
    PROVE  /\ m = 1 /\ nextMatch = 2 /\ pending[m].room = 1 /\ 1 \in RoomId
           /\ roomState[1] = "Starting" /\ roomRes[1] = 1 /\ Exists(1)
           /\ pending[m].players = members[1] /\ members[1] \subseteq PlayerId
           /\ pending[m].requester \in members[1]
           /\ \A p \in members[1] : playerRoom[p] = 1
           /\ ~Begun
<1>1. LobbyInv /\ FlowInv /\ LeadInv  BY DEF RoomInv
<1>2. m = 1 /\ nextMatch = 2  BY <1>1, OneMatch
<1>3. pending[m].room \in RoomId
  BY <1>1 DEF LobbyInv, TypeOK, Reservation
<1>4. roomRes[pending[m].room] = m /\ m # None
  BY <1>1 DEF LobbyInv, StartingIffPending, MatchId, None
<1>5. roomState[pending[m].room] = "Starting" /\ pending[m].players = members[pending[m].room]
  BY <1>1, <1>3, <1>4 DEF LobbyInv, StartingIffPending
<1>6. pending[m].room = 1 /\ Exists(1)
  <2>1. Exists(pending[m].room)  BY <1>5 DEF Exists
  <2> QED  BY <1>1, <1>3, <2>1, OneRoom
<1>7. \A p \in members[1] : p \in PlayerId /\ playerRoom[p] = 1
  BY <1>1, <1>3, <1>6 DEF LobbyInv, TypeOK, MembershipAgrees
<1>8. pending[m].requester \in members[1]  BY <1>1, <1>5, <1>6 DEF LeadInv
<1> QED
  BY <1>2, <1>3, <1>4, <1>5, <1>6, <1>7, <1>8 DEF Begun

\* Whom the end of a start is told besides the room.
LEMMA RequesterIs ==
    ASSUME RoomInv, NEW m \in MatchId, pending[m].room # None,
           playerConn[pending[m].requester] \in ConnectionId
    PROVE  LET e == playerConn[pending[m].requester]
           IN  connPlayer[e] # None /\ playerRoom[connPlayer[e]] # None
<1> DEFINE e == playerConn[pending[m].requester]  p == pending[m].requester
<1>1. p \in members[1] /\ p \in PlayerId /\ playerRoom[p] = 1  BY StartIs
<1>2. connPlayer[e] = p  BY <1>1 DEF RoomInv, LobbyInv, ConnectionsAgree
<1> QED  BY <1>1, <1>2 DEF PlayerId, None

LEMMA DisconnectStartingKeeps ==
    ASSUME RoomInv, NEW c \in ConnectionId, LobbyDisconnects(c), DisconnectStarting(c)
    PROVE  RoomInv'
<1> DEFINE r == RoomOf(c)  m == roomRes[r]  e == playerConn[pending[m].requester]
<1>1. /\ Welcomed(c) /\ RoomOf(c) # None /\ roomState[RoomOf(c)] = "Starting" /\ m # None
      /\ RemoveMember(RoomOf(c), PlayerOf(c)) /\ CloseConnection(c)
      /\ DropReservation(m) /\ UNCHANGED <<counters, active>>
  BY DEF DisconnectStarting
<1>2. [Next]_lobbyVars  BY DEF Next, Disconnect
<1>3. r \in RoomId /\ m \in MatchId /\ pending[m].room = r /\ pending[m].room # None
  <2>1. r \in RoomId  BY <1>1, RoomOfMember DEF RoomInv
  <2> QED  BY <1>1, <2>1 DEF RoomInv, LobbyInv, TypeOK, StartingIffPending
<1>4. \A n \in MatchId : pending'[n] = pending[n] \/ pending'[n].room = None
  <2>1. pending' = [pending EXCEPT ![m] = NoReservation]  BY <1>1 DEF DropReservation
  <2>2. DOMAIN pending = MatchId  BY DEF RoomInv, LobbyInv, TypeOK
  <2> QED  BY <1>3, <2>1, <2>2 DEF NoReservation
<1>5. Sends([d \in ConnectionId |->
                IF d = c THEN <<>>
                ELSE Broadcasted(d, RoomOf(c)) \o Only(d, e, ErrorResponse)])
  BY <1>1 DEF LobbyDisconnects
<1>6. trouble > 0
  <2>1. ~Begun  BY <1>3, StartIs
  <2>2. c \in open /\ link[c] = "Cut" /\ trouble \in Nat
    BY DEF LobbyDisconnects, RoomInv, WireTypes
  <2> QED  BY <2>1, <2>2, LostAfterTrouble
<1>7. e \in ConnectionId => connPlayer[e] # None /\ playerRoom[connPlayer[e]] # None
  BY <1>3, RequesterIs
<1>8. roomState[RoomOf(c)] # "InMatch"  BY <1>1
<1> HIDE DEF e, m
<1> QED  BY <1>1, <1>2, <1>4, <1>5, <1>6, <1>7, <1>8, RemovedSide

LEMMA DisconnectsKeep ==
    ASSUME RoomInv, NEW c \in ConnectionId, LobbyDisconnects(c)
    PROVE  RoomInv'
<1>1. Disconnect(c)  BY DEF LobbyDisconnects
<1> QED
  BY <1>1, DisconnectOutsideKeeps, DisconnectWaitingKeeps, DisconnectStartingKeeps
  DEF Disconnect

-----------------------------------------------------------------------------
(* The game server.  Its steps answer nobody: None stands for the client. *)

LEMMA ServerSide ==
    ASSUME RoomInv, UNCHANGED <<hostVars, botVars, requests, link>>,
           UNCHANGED <<counters, connVars>>,
           NEW sent, Sends(sent), \A d \in ConnectionId : sent[d] \in Seq(Proper(None, d)),
           trouble' \in Nat, trouble <= trouble',
           \A p \in PlayerId : playerRoom'[p] = None \/ playerRoom'[p] = playerRoom[p],
           \A r \in RoomId : ready'[r] \subseteq ready[r],
           Begun => Begun'
    PROVE  LobbySide(None)
<1>1. /\ messages' \in [ConnectionId -> Seq(Note)]
      /\ \A d \in ConnectionId : SentOnly(d, Proper(None, d))
  BY SendsProper
<1>2. WireTypes /\ LobbyInv  BY DEF RoomInv
<1>3. DOMAIN requests' = ConnectionId  BY <1>2 DEF WireTypes
<1>4. \A d \in ConnectionId : d # None  BY DEF ConnectionId, None
<1>5. open' = open /\ connPlayer' = connPlayer /\ open \subseteq ConnectionId
  BY <1>2 DEF connVars, LobbyInv, TypeOK
<1>6. ASSUME NEW d \in open', connPlayer[d] # None, playerRoom[connPlayer[d]] = None
      PROVE  playerRoom'[connPlayer[d]] = None
  <2>1. connPlayer[d] \in PlayerId  BY <1>2, <1>5, <1>6 DEF LobbyInv, TypeOK
  <2> QED  BY <1>6, <2>1
<1> QED  BY <1>1, <1>3, <1>4, <1>5, <1>6 DEF LobbySide, counters

LEMMA ServerKeeps ==
    ASSUME RoomInv, LobbySide(None), [Next]_lobbyVars, UNCHANGED counters, nextMatch = 2,
           LeadInv', TicketsFit'
    PROVE  RoomInv'
<1>1. LobbyInv'  BY LobbyStep
<1>2. CountsUp(None)  BY DEF CountsUp, counters
<1>3. nextMatch' = 2  BY DEF counters
<1> QED  BY <1>1, <1>2, <1>3, ReadyAreMembers, SideInv

\* The match ends the pending reservation it came from.
LEMMA PendingGoes ==
    ASSUME RoomInv, NEW m \in MatchId, pending[m].room # None, DropReservation(m),
           UNCHANGED <<counters, connVars, members, roomHost>>
    PROVE  /\ LeadInv' /\ Begun'
           /\ pending'[1].room = None
<1>1. m = 1 /\ nextMatch = 2 /\ Exists(1)  BY StartIs
<1>2. pending' = [pending EXCEPT ![1] = NoReservation]  BY <1>1 DEF DropReservation
<1>3. DOMAIN pending = MatchId /\ 1 \in MatchId  BY RoomBounds DEF RoomInv, LobbyInv, TypeOK
<1>4. \A n \in MatchId : pending'[n] = IF n = 1 THEN NoReservation ELSE pending[n]
  BY <1>2, <1>3
<1>5. pending'[1].room = None  BY <1>3, <1>4 DEF NoReservation
<1>6. \A n \in MatchId : pending'[n].room # None => pending'[n] = pending[n]
  BY <1>4, <1>5
<1>7. LeadInv'  BY <1>1, <1>6 DEF RoomInv, LeadInv, connVars, MatchId
<1>8. Begun'  BY <1>1, <1>5 DEF Begun, counters
<1> QED  BY <1>5, <1>7, <1>8

LEMMA ServerFailsKeeps ==
    ASSUME RoomInv, NEW m \in MatchId, ServerFails(m)
    PROVE  RoomInv'
<1> DEFINE e == playerConn[pending[m].requester]
<1>1. /\ pending[m].room # None /\ FailPending(m) /\ trouble' = trouble + 1
      /\ UNCHANGED <<hostVars, botVars, requests, link>>
      /\ Sends([d \in ConnectionId |->
                  Broadcasted(d, pending[m].room) \o Only(d, e, ErrorResponse)])
  BY DEF ServerFails, ReservationFailed, Troubles
<1>2. /\ DropReservation(m)
      /\ UNCHANGED <<counters, connVars, playerRoom, roomHost, members, ready, active>>
  BY <1>1 DEF FailPending
<1>3. [Next]_lobbyVars  BY DEF ServerFails, Next, WorkerEvent
<1>4. LobbyInv'  BY <1>3, LobbyStep
<1>5. pending[m].room = 1 /\ nextMatch = 2 /\ ~Begun  BY <1>1, StartIs
<1>6. OnlyEnters(None)  BY <1>2 DEF OnlyEnters
<1>7. trouble' \in Nat /\ trouble <= trouble' /\ trouble' > 0
  BY <1>1 DEF RoomInv, WireTypes
<1>8. LobbySide(None)
  <2> DEFINE sent == [d \in ConnectionId |-> Broadcasted(d, 1) \o Only(d, e, ErrorResponse)]
  <2>1. ASSUME NEW d \in ConnectionId PROVE sent[d] \in Seq(Proper(None, d))
    <3>1. Broadcasted(d, 1) \in Seq(Proper(None, d))  BY <1>4, <1>6, Broadcasts
    <3>2. d = e => connPlayer[d] # None /\ playerRoom[connPlayer[d]] # None
      BY <1>1, RequesterIs
    <3>3. Only(d, e, ErrorResponse) \in Seq(Proper(None, d))  BY <1>7, <3>2, TellsError
    <3> QED  BY <3>1, <3>3, ConcatProperties
  <2>2. Sends(sent)  BY <1>1, <1>5
  <2>3. playerRoom' = playerRoom /\ ready' = ready  BY <1>2
  <2> HIDE DEF sent
  <2> QED  BY <1>1, <1>2, <1>5, <1>7, <2>1, <2>2, <2>3, ServerSide
<1>9. LeadInv'  BY <1>1, <1>2, PendingGoes
<1>10. TicketsFit'  BY <1>2, <1>8, SideTickets
<1> QED  BY <1>2, <1>3, <1>5, <1>8, <1>9, <1>10, ServerKeeps

\* A ticket that is sent comes last.
LastIs(s, b, t, w) ==
    /\ Len(w) \in Nat /\ Len(w) = Len(s) + Len(b) + 1
    /\ Len(s) \in Nat /\ Len(b) \in Nat
    /\ w[Len(w)] = t
    /\ \A i \in 1..Len(b) : w[Len(s) + i] = b[i]

LEMMA LastSent ==
    ASSUME NEW s \in Seq(Note), NEW b \in Seq(Note), NEW t \in Note
    PROVE  LastIs(s, b, t, s \o (b \o <<t>>))
<1> DEFINE w == s \o (b \o <<t>>)
<1> SUFFICES LastIs(s, b, t, w)
  OBVIOUS
<1> USE DEF LastIs
<1>1. Len(s) \in Nat /\ Len(b) \in Nat  BY LenProperties
<1>2. <<t>> \in Seq(Note) /\ Len(<<t>>) = 1 /\ <<t>>[1] = t  BY OneNote
<1> DEFINE u == b \o <<t>>
<1>3. /\ u \in Seq(Note) /\ Len(u) = Len(b) + 1
      /\ \A i \in 1..Len(b) + 1 : u[i] = IF i <= Len(b) THEN b[i] ELSE <<t>>[i - Len(b)]
  BY <1>2, ConcatProperties
<1>4. u[Len(b) + 1] = t
  <2>1. Len(b) + 1 \in 1..Len(b) + 1 /\ ~(Len(b) + 1 <= Len(b)) /\ (Len(b) + 1) - Len(b) = 1
    BY <1>1
  <2> QED  BY <1>2, <1>3, <2>1
<1>5. \A i \in 1..Len(b) : u[i] = b[i]  BY <1>1, <1>3
<1> HIDE DEF u
<1>6. w = s \o u  BY DEF u
<1> HIDE DEF w
<1>7. /\ Len(w) = Len(s) + Len(u)
      /\ \A i \in 1..Len(s) + Len(u) : w[i] = IF i <= Len(s) THEN s[i] ELSE u[i - Len(s)]
  BY <1>3, <1>6, ConcatProperties
<1>8. ASSUME NEW i \in 1..Len(u) PROVE w[Len(s) + i] = u[i]
  <2>1. /\ Len(s) + i \in 1..Len(s) + Len(u) /\ ~(Len(s) + i <= Len(s))
        /\ (Len(s) + i) - Len(s) = i
    BY <1>1, <1>3
  <2> QED  BY <1>7, <2>1
<1>9. w[Len(w)] = t
  <2>1. Len(b) + 1 \in 1..Len(u) /\ Len(w) = Len(s) + (Len(b) + 1)  BY <1>1, <1>3, <1>7
  <2> QED  BY <1>4, <1>8, <2>1
<1>10. \A i \in 1..Len(b) : w[Len(s) + i] = b[i]
  <2>1. \A i \in 1..Len(b) : i \in 1..Len(u)  BY <1>1, <1>3
  <2> QED  BY <1>5, <1>8, <2>1
<1> QED  BY <1>1, <1>3, <1>7, <1>9, <1>10

LEMMA ReadyKeeps ==
    ASSUME RoomInv, NEW m \in MatchId, NEW w \in Worker, ServerReady(m, w)
    PROVE  RoomInv'
<1> DEFINE h == HostConnection
           told(d) == IF d \in ConnectionsOf(members[1]) THEN <<TicketFor(1)>> ELSE <<>>
<1>1. /\ pending[m].room # None /\ ReservationReady(m, w)
      /\ UNCHANGED <<hostVars, botVars, requests, link, over, trouble>>
  BY DEF ServerReady, ReservationReady
<1>2. /\ m = 1 /\ nextMatch = 2 /\ pending[1].room = 1 /\ ~Begun
      /\ pending[1].players = members[1] /\ members[1] \subseteq PlayerId
      /\ roomState[1] = "Starting" /\ Exists(1)
      /\ \A p \in members[1] : playerRoom[p] = 1
  BY <1>1, StartIs
<1>3. /\ DropReservation(m)
      /\ UNCHANGED <<counters, connVars, playerRoom, roomHost, members, ready>>
      /\ active' = [active EXCEPT ![1] = [room |-> 1, worker |-> w, players |-> members[1]]]
  BY <1>1, <1>2 DEF ReservationReady
<1>4. [Next]_lobbyVars  BY <1>1 DEF Next, WorkerEvent
<1>5. LobbyInv'  BY <1>4, LobbyStep
<1>6. Sends([d \in ConnectionId |-> Broadcasted(d, 1) \o told(d)])
  BY <1>2 DEF ServerReady
<1>7. LobbyInv /\ WireTypes /\ h \in ConnectionId /\ h \in Seat /\ 1 \in MatchId /\ 1 \in RoomId
  BY RoomBounds DEF RoomInv
<1>8. OnlyEnters(None)  BY <1>3 DEF OnlyEnters
<1>9. Begun' /\ LeadInv'  BY <1>1, <1>3, PendingGoes
<1>10. active'[1].room # None
  BY <1>3, <1>7 DEF LobbyInv, TypeOK, None
<1>11. \A n \in MatchId : active[n].room = None
  <2> SUFFICES ASSUME NEW n \in MatchId, active[n].room # None PROVE FALSE
    OBVIOUS
  <2>1. active[n].room \in RoomId  BY <1>7 DEF LobbyInv, TypeOK, ActiveMatch
  <2>2. roomState[active[n].room] = "InMatch"
    BY <1>7, <2>1 DEF LobbyInv, InMatchIffActive
  <2>3. active[n].room = 1  BY <1>7, <2>1, <2>2, OneRoom DEF RoomInv, Exists
  <2> QED  BY <1>2, <2>2, <2>3
<1>12. ASSUME NEW d \in ConnectionId, d \in ConnectionsOf(members[1])
       PROVE  TicketFor(1) \in Proper(None, d)
  <2>1. connPlayer[d] \in members[1]  BY <1>2, <1>7, <1>12, ReachedAre
  <2>2. connPlayer[d] # None /\ playerRoom[connPlayer[d]] # None
    BY <1>2, <2>1 DEF PlayerId, None
  <2>3. TicketFor(1) \in Note /\ TicketFor(1).type = "Ticket" /\ TicketFor(1).match = 1
    BY <1>7, NoteTypes DEF TicketFor
  <2> QED  BY <1>7, <1>9, <1>10, <1>11, <2>2, <2>3 DEF Proper
<1>13. LobbySide(None)
  <2> DEFINE sent == [d \in ConnectionId |-> Broadcasted(d, 1) \o told(d)]
  <2>1. ASSUME NEW d \in ConnectionId PROVE sent[d] \in Seq(Proper(None, d))
    <3>1. Broadcasted(d, 1) \in Seq(Proper(None, d))  BY <1>5, <1>8, Broadcasts
    <3>2. told(d) \in Seq(Proper(None, d))  BY <1>12, OneNote, NoNote
    <3> QED  BY <3>1, <3>2, ConcatProperties
  <2>2. Sends(sent)  BY <1>6
  <2>3. playerRoom' = playerRoom /\ ready' = ready  BY <1>3
  <2>4. trouble' \in Nat /\ trouble <= trouble'  BY <1>1, <1>7 DEF WireTypes
  <2> HIDE DEF sent
  <2> QED  BY <1>1, <1>3, <1>9, <2>1, <2>2, <2>3, <2>4, ServerSide
<1>14. flow.startRequested /\ ~flow.ticketReceived
  BY <1>2 DEF RoomInv, FlowInv
<1>15. \A i \in Inbox(h) : ~TicketAt(i)
  BY <1>2, <1>7 DEF RoomInv, GamesFit, TicketAt
<1>16. ASSUME NEW i \in Inbox(h)', TicketAt(i)' PROVE i = Len(messages'[h])
  <2>1. i \notin Inbox(h) /\ link[h] = "Up"
    <3>1. SentOnly(h, Proper(None, h))  BY <1>7, <1>13 DEF LobbySide
    <3>2. i \notin Inbox(h)
      BY <1>15, <1>16, <3>1 DEF SentOnly, TicketAt
    <3> QED  BY <3>1, <3>2 DEF SentOnly, Inbox
  <2>2. messages'[h] = messages[h] \o (Broadcasted(h, 1) \o told(h))
    BY <1>6, <1>7, <2>1 DEF Sends, Delivered
  <2>3. RoomMessage(1) \in Note /\ RoomMessage(1).type = "Room"
    BY <1>5, <1>7, RoomMessageType
  <2> DEFINE b == Broadcasted(h, 1)
  <2>4. messages[h] \in Seq(Note) /\ Len(messages[h]) \in Nat  BY <1>7, InboxType
  <2>5. /\ b \in Seq(Note) /\ Len(b) \in Nat /\ Len(b) <= 1
        /\ \A j \in 1..Len(b) : b[j].type = "Room"
    <3>1. CASE h \in ConnectionsOf(members'[1])
      <4>1. b = <<RoomMessage(1)>>  BY <3>1 DEF Broadcasted
      <4> HIDE DEF b
      <4>2. Len(b) = 1 /\ b[1] = RoomMessage(1)  BY <4>1
      <4>3. b \in Seq(Note)  BY <2>3, <4>1, OneNote
      <4> QED  BY <2>3, <4>2, <4>3
    <3>2. CASE h \notin ConnectionsOf(members'[1])
      <4>1. b = <<>>  BY <3>2 DEF Broadcasted
      <4>2. Len(b) = 0 /\ b \in Seq(Note)  BY <4>1, NoNote
      <4> HIDE DEF b
      <4> QED  BY <4>2
    <3> QED  BY <3>1, <3>2
  <2> HIDE DEF b
  <2>6. CASE h \in ConnectionsOf(members[1])
    <3>1. messages'[h] = messages[h] \o (b \o <<TicketFor(1)>>)  BY <2>2, <2>6 DEF b
    <3>2. TicketFor(1) \in Note  BY <1>7, NoteTypes
    <3>3. /\ Len(messages'[h]) = Len(messages[h]) + Len(b) + 1
          /\ \A j \in 1..Len(b) : messages'[h][Len(messages[h]) + j] = b[j]
      <4>1. LastIs(messages[h], b, TicketFor(1), messages'[h])
        BY <2>4, <2>5, <3>1, <3>2, LastSent
      <4> QED  BY <4>1 DEF LastIs
    <3>4. SUFFICES ASSUME i # Len(messages'[h]) PROVE FALSE
      OBVIOUS
    <3>5. i - Len(messages[h]) \in 1..Len(b) /\ Len(messages[h]) + (i - Len(messages[h])) = i
      BY <1>16, <2>1, <2>4, <2>5, <3>3, <3>4 DEF Inbox
    <3>6. messages'[h][i] = b[i - Len(messages[h])]  BY <3>3, <3>5
    <3> QED  BY <1>16, <2>5, <3>5, <3>6 DEF TicketAt
  <2>7. CASE h \notin ConnectionsOf(members[1])
    <3>1. messages'[h] = messages[h] \o (b \o <<>>)  BY <2>2, <2>7 DEF b
    <3>2. messages'[h] = messages[h] \o b  BY <2>5, <3>1, ConcatEmptySeq
    <3>3. ConnectionsOf(members'[1]) = ConnectionsOf(members[1])
          \/ h \notin ConnectionsOf(members'[1])
      <4>1. members' = members /\ connPlayer' = connPlayer /\ playerConn' = playerConn
        BY <1>3 DEF connVars
      <4> QED  BY <4>1
    <3>4. b = <<>>  BY <2>7, <3>3 DEF b, Broadcasted
    <3>5. messages'[h] = messages[h]  BY <2>4, <3>2, <3>4, ConcatEmptySeq
    <3> QED  BY <1>16, <2>1, <3>5 DEF Inbox
  <2> QED  BY <2>6, <2>7
<1>17. ASSUME link[h] = "Up" PROVE Hears(h, "Ticket")'
  <2>1. h \in open  BY <1>7, <1>17 DEF RoomInv, LinkInv
  <2>2. connPlayer[h] \in members[1]  BY <1>2, <2>1 DEF RoomInv, LeadInv
  <2>3. h \in ConnectionsOf(members[1])  BY <1>2, <1>7, <2>2, ReachedAre
  <2>4. messages'[h] = messages[h] \o (Broadcasted(h, 1) \o <<TicketFor(1)>>)
    BY <1>6, <1>7, <1>17, <2>3 DEF Sends, Delivered
  <2>5. messages[h] \in Seq(Note) /\ TicketFor(1) \in Note  BY <1>7, InboxType, NoteTypes
  <2>6. Broadcasted(h, 1) \in Seq(Note)
    <3>1. Broadcasted(h, 1) \in Seq(Proper(None, h))  BY <1>5, <1>7, <1>8, Broadcasts
    <3>2. Proper(None, h) \subseteq Note  BY DEF Proper
    <3> QED  BY <3>1, <3>2, SeqMonotonic
  <2>7. /\ Len(messages'[h]) \in Nat /\ Len(messages'[h]) >= 1
        /\ messages'[h][Len(messages'[h])] = TicketFor(1)
    <3>1. LastIs(messages[h], Broadcasted(h, 1), TicketFor(1), messages'[h])
      BY <2>4, <2>5, <2>6, LastSent
    <3> QED  BY <3>1 DEF LastIs
  <2>8. Len(messages'[h]) \in Inbox(h)'  BY <2>7 DEF Inbox
  <2> QED  BY <2>7, <2>8 DEF Hears, TicketFor
<1>18. TicketsFit'
  <2>1. flow' = flow /\ link' = link  BY <1>1 DEF hostVars
  <2>2. \A i \in Inbox(h)' : TicketAt(i)' =>
          /\ flow.startRequested /\ ~flow.ticketReceived
          /\ \A j \in Inbox(h)' : TicketAt(j)' => i = j
    BY <1>14, <1>16
  <2>3. \A i \in Inbox(h)' : messages'[h][i].type = "RoomList" =>
            flow.ticketReceived \/ \E j \in 1..(i - 1) : TicketAt(j)'
    BY <1>13, SideLists
  <2> QED  BY <1>17, <2>1, <2>2, <2>3 DEF TicketsFit
<1> QED  BY <1>2, <1>3, <1>4, <1>9, <1>13, <1>18, ServerKeeps

LEMMA MatchEndsKeeps ==
    ASSUME RoomInv, NEW m \in MatchId, NEW w \in Worker, MatchEnds(m, w)
    PROVE  RoomInv'
<1>12. PICK gone \in BOOLEAN :
        /\ Sends([d \in ConnectionId |->
                     IF d \notin ConnectionsOf(members[active[m].room]) THEN <<>>
                     ELSE IF gone THEN <<ErrorResponse, RoomList>>
                     ELSE <<RoomList>>])
        /\ IF gone THEN Troubles ELSE UNCHANGED trouble
  BY DEF MatchEnds
<1> DEFINE r == active[m].room
           told(d) == IF d \notin ConnectionsOf(members[1]) THEN <<>>
                      ELSE IF gone THEN <<ErrorResponse, RoomList>>
                      ELSE <<RoomList>>
<1>1. /\ r # None /\ FinishMatch(m, w)
      /\ UNCHANGED <<hostVars, botVars, requests, link, over>>
      /\ IF gone THEN trouble' = trouble + 1 ELSE trouble' = trouble
  BY <1>12 DEF MatchEnds, FinishMatch, Troubles
<1>2. /\ active' = [active EXCEPT ![m] = NoMatch]
      /\ playerRoom' = [p \in PlayerId |-> IF p \in members[r] THEN None ELSE playerRoom[p]]
      /\ roomState' = [roomState EXCEPT ![r] = "Absent"]
      /\ members' = [members EXCEPT ![r] = {}] /\ ready' = [ready EXCEPT ![r] = {}]
      /\ UNCHANGED <<counters, connVars, pending, roomRes>>
  BY <1>1 DEF FinishMatch
<1>3. LobbyInv /\ WireTypes /\ FlowInv  BY DEF RoomInv
<1>4. [Next]_lobbyVars  BY <1>1 DEF Next, WorkerEvent
<1>5. nextMatch = 2 /\ r \in RoomId
  BY <1>1, <1>3, OneMatch DEF LobbyInv, TypeOK, ActiveMatch
<1>6. r = 1 /\ 1 \in RoomId /\ members[1] \subseteq PlayerId
  <2>1. Exists(r)  BY <1>1, <1>3, <1>5 DEF LobbyInv, InMatchIffActive, Exists
  <2> QED  BY <1>3, <1>5, <2>1, OneRoom DEF LobbyInv, TypeOK
<1>7. trouble' \in Nat /\ trouble <= trouble' /\ (gone => trouble' > 0)
  BY <1>1, <1>3 DEF WireTypes
<1>8. ASSUME NEW d \in ConnectionId, d \in ConnectionsOf(members[1])
      PROVE  /\ RoomList \in Proper(None, d)
             /\ gone => ErrorResponse \in Proper(None, d)
  <2>1. connPlayer[d] \in members[1]  BY <1>3, <1>6, <1>8, ReachedAre
  <2>2. connPlayer[d] \in PlayerId /\ playerRoom[connPlayer[d]] = 1
    BY <1>3, <1>6, <2>1 DEF LobbyInv, MembershipAgrees
  <2>3. connPlayer[d] # None /\ playerRoom[connPlayer[d]] # None
    BY <2>2 DEF PlayerId, None
  <2> QED  BY <1>1, <1>7, <2>3, NoteTypes DEF Proper, RoomList, ErrorResponse
<1>9. LobbySide(None)
  <2> DEFINE sent == [d \in ConnectionId |-> told(d)]
  <2>1. ASSUME NEW d \in ConnectionId PROVE sent[d] \in Seq(Proper(None, d))
    <3>1. CASE d \notin ConnectionsOf(members[1])  BY <3>1, NoNote
    <3>2. CASE d \in ConnectionsOf(members[1]) /\ gone
      <4>1. RoomList \in Proper(None, d) /\ ErrorResponse \in Proper(None, d)
        BY <1>8, <3>2
      <4> QED  BY <3>2, <4>1
    <3>3. CASE d \in ConnectionsOf(members[1]) /\ ~gone
      BY <1>8, <3>3, OneNote
    <3> QED  BY <3>1, <3>2, <3>3
  <2>2. Sends(sent)  BY <1>6, <1>12
  <2>3. \A p \in PlayerId : playerRoom'[p] = None \/ playerRoom'[p] = playerRoom[p]
    BY <1>2
  <2>4. \A q \in RoomId : ready'[q] \subseteq ready[q]
    BY <1>2, <1>3 DEF LobbyInv, TypeOK
  <2>5. Begun => Begun'  BY <1>2 DEF Begun, counters
  <2> HIDE DEF sent
  <2> QED  BY <1>1, <1>2, <1>7, <2>1, <2>2, <2>3, <2>4, <2>5, ServerSide
<1>10. LeadInv'
  <2>1. ~Exists(1)'  BY <1>2, <1>3, <1>6 DEF Exists, LobbyInv, TypeOK
  <2> QED  BY <1>2, <2>1 DEF LeadInv, RoomInv
<1>11. TicketsFit'
  <2>1. DOMAIN active = MatchId  BY <1>3 DEF LobbyInv, TypeOK
  <2>2. \A n \in MatchId : active'[n].room # None => active[n].room # None
    BY <1>2, <2>1 DEF NoMatch
  <2> QED  BY <1>9, <2>2, SideTickets
<1> QED  BY <1>2, <1>4, <1>5, <1>9, <1>10, <1>11, ServerKeeps

-----------------------------------------------------------------------------
(* All steps of the lobby and the game server. *)

LEMMA GrantsKeep ==
    ASSUME RoomInv, NEW c \in ConnectionId, LobbyGrants(c)
    PROVE  RoomInv'
<1>1. TakesRequest(c) /\ Grants(c, Head(requests[c])) /\ UNCHANGED trouble
  BY DEF LobbyGrants
<1>2. CASE Head(requests[c]) = "Hello" /\ Greeting(c)
  BY <1>1, <1>2, HelloKeeps DEF Grants
<1>3. CASE Head(requests[c]) = "CreateRoom" /\ Entering(c) /\ c = HostConnection
  BY <1>1, <1>3, CreateKeeps DEF Grants
<1>4. CASE Head(requests[c]) = "JoinRoom" /\ Entering(c) /\ c # HostConnection
  BY <1>1, <1>4, JoinKeeps DEF Grants
<1>5. CASE Head(requests[c]) = "SetReady" /\ Inside(c) /\ HasReadied(c)
  BY <1>1, <1>5, SetReadyKeeps DEF Grants
<1>6. CASE Head(requests[c]) = "StartMatch" /\ Inside(c) /\ Asked(c, "StartMatch")
           /\ c = HostConnection
  BY <1>1, <1>6, StartKeeps DEF Grants
<1> QED  BY <1>1, <1>2, <1>3, <1>4, <1>5, <1>6, RequestIs

\* None of them changes anything.
LEMMA NothingHappens ==
    ASSUME RoomInv, UNCHANGED <<lobbyVars, hostVars, botVars, wires, trouble>>
    PROVE  RoomInv'
<1> USE DEF RoomInv, lobbyVars, counters, connVars, roomVars, matchVars, timeVars,
            hostVars, botVars, wires
<1>1. LobbyInv'  BY LobbyStep
<1>2. WireTypes' /\ ClientTypes'  BY DEF WireTypes, ClientTypes
<1>3. \A c \in Seat : SameSeat(c)
  BY DEF SameSeat, Me, HasReadied
<1>4. TalkInv'
  <2>1. \A c \in Seat : Talk(c)'  BY <1>3, SeatSame DEF TalkInv
  <2> QED  BY <2>1 DEF TalkInv, Seat
<1>5. LinkInv'
  <2>1. \A c \in Seat : c >= nextConnection => Silent(c)'  BY <1>3, SeatSame DEF LinkInv
  <2> QED  BY <2>1 DEF LinkInv, Seat
<1>6. ReadyInv'  BY DEF ReadyInv, HasReadied, Asked, Seat, RoomId
<1>7. Begun' = Begun  BY DEF Begun
<1>8. FlowInv'
  <2>1. Inside(HostConnection)' <=> Inside(HostConnection)
    BY <1>3, SeatSame, RoomBounds
  <2> QED  BY <1>7, <2>1 DEF FlowInv, Asked
<1>9. LeadInv'  BY DEF LeadInv, Exists, MatchId
<1>10. RoomsFit'  BY DEF RoomsFit, ViewFits, Asked, Everyone, Inbox, HostConnection
<1>11. TicketsFit'  BY DEF TicketsFit, TicketAt, Inbox, Hears, MatchId, HostConnection
<1>12. GamesFit'  BY <1>7 DEF GamesFit, Inbox, Seat
<1>13. CountInv'  BY DEF CountInv, Greeters, Asked, Seat
<1>14. QuietInv'
  <2>1. Quiet' <=> Quiet  BY <1>7 DEF Quiet, Hears, Inbox, Seat
  <2>2. Settled' <=> Settled  BY DEF Settled, HasReadied, Seat
  <2>3. Grows => Grows'
    <3> SUFFICES ASSUME Grows PROVE Grows'
      OBVIOUS
    <3>1. \A c \in Seat : Inside(c)' => Me(c)' \in members'[1]
      BY <1>3, SeatSame DEF Grows, SameSeat
    <3>2. \A i \in Inbox(HostConnection)' : messages'[HostConnection][i].type = "Room" =>
             /\ messages'[HostConnection][i].view.members \subseteq members'[1]
             /\ messages'[HostConnection][i].view.ready \subseteq ready'[1]
      BY DEF Grows, Inbox
    <3> QED  BY <3>1, <3>2 DEF Grows, Seat, Asked, Everyone
  <2> QED  BY <2>1, <2>2, <2>3 DEF QuietInv
<1> QED
  BY <1>1, <1>2, <1>4, <1>5, <1>6, <1>8, <1>9, <1>10, <1>11, <1>12, <1>13, <1>14

LEMMA LobbyKeeps ==
    ASSUME RoomInv, NEW c \in ConnectionId,
           LobbyGrants(c) \/ LobbyRefuses(c) \/ LobbyRollsBack(c) \/ LobbyDisconnects(c)
    PROVE  RoomInv'
BY GrantsKeep, RefuseKeeps, RollbackKeeps, DisconnectsKeep

LEMMA GameServerKeeps ==
    ASSUME RoomInv, NEW m \in MatchId,
           \/ (\E w \in Worker : ServerReady(m, w) \/ MatchEnds(m, w))
           \/ ServerFails(m) \/ MatchIsOver(m)
    PROVE  RoomInv'
<1>1. MatchIsOver(m) => RoomInv'  BY NothingHappens DEF MatchIsOver
<1> QED  BY <1>1, ReadyKeeps, MatchEndsKeeps, ServerFailsKeeps

-----------------------------------------------------------------------------
(* A step of the clients, as the lobby sees it. *)

Keeps(c) ==
    Me(c)' = Me(c) /\ HasReadied(c)' = HasReadied(c) /\ requests'[c] = requests[c]
Rests(c)  == Keeps(c) /\ messages'[c] = messages[c]
Closes(c) == Keeps(c) /\ messages'[c] = <<>> /\ link'[c] # "Up"

\* A client reads its next message and may answer it.
Takes(c) == /\ messages[c] # <<>> /\ messages'[c] = Tail(messages[c])
            /\ link'[c] = link[c]
Says(c, q) == requests[c] = <<>> /\ requests'[c] = IF link[c] = "Up" THEN <<q>> ELSE <<>>
Reads(c) == Takes(c) /\ Keeps(c) /\ messages[c][1].type # "Welcome"
Enters(c) ==
    /\ Takes(c) /\ messages[c][1].type = "Welcome" /\ Me(c)' = messages[c][1].player
    /\ HasReadied(c)' = HasReadied(c) /\ Says(c, Way(c))
Readies(c) ==
    /\ Takes(c) /\ messages[c][1].type # "Welcome" /\ Me(c)' = Me(c)
    /\ ~HasReadied(c) /\ HasReadied(c)' /\ Says(c, "SetReady")
Starts(c) ==
    /\ Takes(c) /\ messages[c][1].type # "Welcome" /\ Me(c)' = Me(c)
    /\ HasReadied(c)' = HasReadied(c) /\ c = HostConnection /\ nextMatch = 1
    /\ ~flow.startRequested /\ flow'.startRequested /\ Says(c, "StartMatch")

Move(c) ==
    /\ link'[c] = "Up" => link[c] = "Up"
    /\ Rests(c) \/ Closes(c) \/ Reads(c) \/ Enters(c) \/ Readies(c) \/ Starts(c)

ClientSide ==
    /\ UNCHANGED lobbyVars
    /\ DOMAIN requests' = ConnectionId
    /\ messages' \in [ConnectionId -> Seq(Note)]
    /\ link' \in [ConnectionId -> {"Down", "Up", "Cut"}]
    /\ \A c \in ConnectionId : link'[c] = "Up" => link[c] = "Up"
    /\ trouble' \in Nat /\ trouble <= trouble'
    /\ \A c \in Seat : Move(c)

\* What is left to read after a message was taken.
LEMMA TakenIs ==
    ASSUME WireTypes, NEW c \in ConnectionId, Takes(c)
    PROVE  /\ 1 \in Inbox(c) /\ Len(messages[c]) \in Nat
           /\ messages'[c] \in Seq(Note)
           /\ \A i \in Inbox(c)' :
                  i \in Nat /\ i + 1 \in Inbox(c) /\ messages'[c][i] = messages[c][i + 1]
           /\ \A i \in Inbox(c) : i # 1 =>
                 i \in Nat /\ i - 1 \in Inbox(c)' /\ messages'[c][i - 1] = messages[c][i]
<1> DEFINE s == messages[c]
<1>1. s \in Seq(Note) /\ s # <<>> /\ messages'[c] = Tail(s)  BY InboxType DEF Takes
<1>2. Len(s) \in Nat /\ Len(s) # 0  BY <1>1, LenProperties, EmptySeq
<1>3. /\ Tail(s) \in Seq(Note) /\ Len(Tail(s)) = Len(s) - 1
      /\ \A i \in 1..Len(Tail(s)) : Tail(s)[i] = s[i + 1]
  BY <1>1, HeadTailProperties
<1> HIDE DEF s
<1>4. Inbox(c) = 1..Len(s) /\ Inbox(c)' = 1..(Len(s) - 1)
  BY <1>1, <1>3 DEF Inbox, s
<1>5. \A i \in 1..(Len(s) - 1) : messages'[c][i] = s[i + 1]  BY <1>1, <1>3
<1>6. \A i \in 1..Len(s) : i # 1 =>
         i - 1 \in 1..(Len(s) - 1) /\ messages'[c][i - 1] = s[i]
  <2> SUFFICES ASSUME NEW i \in 1..Len(s), i # 1
               PROVE  i - 1 \in 1..(Len(s) - 1) /\ messages'[c][i - 1] = s[i]
    OBVIOUS
  <2>1. i - 1 \in 1..(Len(s) - 1) /\ (i - 1) + 1 = i  BY <1>2
  <2> QED  BY <1>5, <2>1
<1>7. \A i \in 1..(Len(s) - 1) : i \in Nat /\ i + 1 \in 1..Len(s)  BY <1>2
<1>8. 1 \in 1..Len(s) /\ \A i \in 1..Len(s) : i \in Nat  BY <1>2
<1>9. messages'[c] \in Seq(Note)  BY <1>1, <1>3
<1> QED  BY <1>2, <1>4, <1>5, <1>6, <1>7, <1>8, <1>9 DEF s

\* A client is left with messages it had before.
LEMMA HadBefore ==
    ASSUME WireTypes, NEW c \in ConnectionId, Move(c)
    PROVE  \A i \in Inbox(c)' : \E j \in Inbox(c) : messages'[c][i] = messages[c][j]
<1>1. CASE Rests(c)  BY <1>1 DEF Rests, Inbox
<1>2. CASE Closes(c)
  <2>1. Inbox(c)' = {}  BY <1>2 DEF Closes, Inbox
  <2> QED  BY <2>1
<1>3. CASE Takes(c)  BY <1>3, TakenIs
<1> QED  BY <1>1, <1>2, <1>3 DEF Move, Reads, Enters, Readies, Starts

LEMMA HeardBefore ==
    ASSUME WireTypes, NEW c \in ConnectionId, Move(c), NEW type
    PROVE  Hears(c, type)' => Hears(c, type)
BY HadBefore DEF Hears

\* Who finds something in its messages and was not just welcomed is inside.
LEMMA StageOf ==
    ASSUME RoomInv, NEW c \in Seat, messages[c] # <<>>
    PROVE  /\ 1 \in Inbox(c)
           /\ \/ Greeted(c) /\ messages[c][1].type = "Welcome" /\ Inbox(c) = {1}
                 /\ messages[c] = <<WelcomeTo(messages[c][1].player)>>
                 /\ messages[c][1].player \in PlayerId
              \/ Inside(c) /\ \A i \in Inbox(c) : messages[c][i].type # "Welcome"
<1>1. messages[c] \in Seq(Note) /\ Len(messages[c]) \in Nat
  BY InboxType, RoomBounds DEF RoomInv
<1>2. 1 \in Inbox(c)  BY <1>1, EmptySeq, LenProperties DEF Inbox
<1>3. CASE Greeted(c)
  <2>1. PICK p \in PlayerId : messages[c] = <<WelcomeTo(p)>>  BY <1>3 DEF Greeted
  <2>2. Len(messages[c]) = 1 /\ messages[c][1] = WelcomeTo(p)  BY <2>1
  <2>3. messages[c][1].type = "Welcome" /\ messages[c][1].player = p
    BY <2>2 DEF WelcomeTo
  <2> QED  BY <1>2, <1>3, <2>1, <2>2, <2>3 DEF Inbox
<1>4. CASE Inside(c)  BY <1>2, <1>4 DEF Inside, Hears
<1> QED  BY <1>3, <1>4 DEF RoomInv, TalkInv, Talk, Silent, Greeting, Entering

LEMMA MoveTalks ==
    ASSUME RoomInv, NEW c \in Seat, Move(c), UNCHANGED <<open, connPlayer, playerRoom>>
    PROVE  /\ Talk(c)'
           /\ Silent(c) => Silent(c)'
           /\ Inside(c) => Inside(c)' /\ Me(c)' = Me(c)
           /\ Inside(c)' => Inside(c) \/ link[c] # "Up"
<1>1. c \in ConnectionId /\ WireTypes  BY RoomBounds DEF RoomInv
<1>2. ~Hears(c, "Welcome") => ~Hears(c, "Welcome")'  BY <1>1, HeardBefore
<1>3. messages[c] = <<>> => Rests(c) \/ Closes(c)
  BY DEF Move, Reads, Enters, Readies, Starts, Takes
<1>4. CASE Silent(c)
  <2>1. Silent(c)'  BY <1>3, <1>4 DEF Silent, Move, Rests, Closes, Keeps
  <2> QED  BY <1>4, <2>1 DEF Talk, Inside, Silent
<1>5. CASE Greeting(c)
  <2>1. Greeting(c)'
    BY <1>3, <1>5 DEF Greeting, Move, Rests, Closes, Keeps, Asked
  <2> QED  BY <1>5, <2>1, Unasked DEF Talk, Inside, Silent, Greeting, Asked
<1>6. CASE Entering(c)
  <2>1. Entering(c)'
    BY <1>3, <1>6 DEF Entering, Move, Rests, Closes, Keeps, Asked, Way
  <2>2. ~Silent(c) /\ ~Inside(c) /\ ~Inside(c)'
    BY <1>6, <2>1, Unasked DEF Entering, Inside, Silent, Asked, Way
  <2> QED  BY <2>1, <2>2 DEF Talk
<1>7. CASE Inside(c)
  <2>1. messages[c] # <<>> => 1 \in Inbox(c)  BY StageOf
  <2>2. ~Enters(c)  BY <1>7, <2>1 DEF Enters, Takes, Inside, Hears
  <2>3. Me(c)' = Me(c)
    BY <2>2 DEF Move, Rests, Closes, Reads, Readies, Starts, Keeps
  <2>4. \/ requests'[c] = <<>>
        \/ Asked(c, "SetReady")' /\ HasReadied(c)'
        \/ Asked(c, "StartMatch")' /\ c = HostConnection
    <3>1. CASE Rests(c) \/ Closes(c) \/ Reads(c)
      BY <1>7, <3>1 DEF Rests, Closes, Reads, Keeps, Inside, Asked
    <3>2. CASE Readies(c)  BY <3>2 DEF Readies, Says, Asked
    <3>3. CASE Starts(c)  BY <3>3 DEF Starts, Says, Asked
    <3> QED  BY <2>2, <3>1, <3>2, <3>3 DEF Move
  <2>5. Inside(c)'  BY <1>2, <1>7, <2>3, <2>4 DEF Inside
  <2> QED  BY <1>7, <2>3, <2>5 DEF Talk, Silent, Inside
<1>8. CASE Greeted(c)
  <2>1. PICK p \in PlayerId : /\ messages[c] = <<WelcomeTo(p)>>
                              /\ c \in open => connPlayer[c] = p /\ playerRoom[p] = None
    BY <1>8 DEF Greeted
  <2>2. p # None /\ messages[c] # <<>>  BY <2>1 DEF PlayerId, None
  <2>3. ~Silent(c) /\ ~Inside(c)  BY <1>8, <2>2 DEF Greeted, Silent, Inside
  <2>4. CASE Rests(c)
    <3>1. Greeted(c)'  BY <1>8, <2>1, <2>4 DEF Greeted, Rests, Keeps
    <3>2. ~Inside(c)'  BY <3>1 DEF Greeted, Inside
    <3> QED  BY <2>3, <3>1, <3>2 DEF Talk
  <2>5. CASE Closes(c)
    <3>1. Silent(c)'  BY <1>8, <2>1, <2>2, <2>5 DEF Greeted, Silent, Closes, Keeps
    <3>2. ~Inside(c)'  BY <3>1 DEF Silent, Inside
    <3> QED  BY <2>3, <3>1, <3>2 DEF Talk
  <2>7. messages[c][1].type = "Welcome" /\ messages[c][1].player = p
    BY <2>1 DEF WelcomeTo
  <2>6. CASE Enters(c)
    <3>1. Takes(c)  BY <2>6 DEF Enters
    <3>2. messages'[c] = <<>>
      <4>1. messages'[c] = Tail(<<WelcomeTo(p)>>)  BY <2>1, <3>1 DEF Takes
      <4> QED  BY <4>1
    <3>4. Me(c)' = p /\ ~HasReadied(c)'  BY <1>8, <2>7, <2>6 DEF Enters, Greeted
    <3>5. CASE link[c] = "Up"
      <4>1. Entering(c)'
        BY <2>1, <2>2, <3>2, <2>6, <3>4, <3>5 DEF Entering, Enters, Says, Asked, Way
      <4>2. ~Inside(c)'
        BY <4>1, Unasked DEF Entering, Inside, Asked, Way
      <4> QED  BY <2>3, <4>1, <4>2 DEF Talk
    <3>6. CASE link[c] # "Up"
      <4>1. ~Hears(c, "Welcome")'  BY <3>2 DEF Hears, Inbox
      <4>2. Inside(c)'  BY <2>1, <2>2, <2>6, <3>4, <3>6, <4>1 DEF Inside, Enters, Says
      <4> QED  BY <2>3, <3>6, <4>2 DEF Talk
    <3> QED  BY <3>5, <3>6
  <2> QED  BY <2>7, <2>4, <2>5, <2>6 DEF Move, Reads, Readies, Starts
<1> QED  BY <1>4, <1>5, <1>6, <1>7, <1>8 DEF RoomInv, TalkInv, Talk

\* Nobody takes back what it has said, and it asks for a thing once.
LEMMA MoveAsks ==
    ASSUME RoomInv, NEW c \in Seat, Move(c)
    PROVE  /\ HasReadied(c) => HasReadied(c)'
           /\ requests'[c] = <<"SetReady">> => requests[c] = <<"SetReady">> \/ ~HasReadied(c)
           /\ requests'[c] = <<"Hello">> => requests[c] = <<"Hello">>
           /\ requests'[c] = <<"StartMatch">> => requests[c] = <<"StartMatch">> \/ Starts(c)
<1>1. CASE Rests(c) \/ Closes(c) \/ Reads(c)
  BY <1>1 DEF Rests, Closes, Reads, Keeps
<1>2. CASE Enters(c)  BY <1>2, Unasked DEF Enters, Says, Way
<1>3. CASE Readies(c)  BY <1>3, Unasked DEF Readies, Says
<1>4. CASE Starts(c)  BY <1>4, Unasked DEF Starts, Says
<1> QED  BY <1>1, <1>2, <1>3, <1>4 DEF Move

\* The games are of the match, and nothing has gone wrong at the clients or on
\* their connections.
GamesOk ==
    /\ co.ticking => Begun
    /\ moving # None => co.ticking
    /\ \A b \in 1..Bots :
         /\ bot[b].game # "None" => co.ticking
         /\ bot[b].game \in Playing => bot[b].ticket = 1
         /\ bot[b].game = "Finished" => bot[b].result = TheResult
Unharmed ==
    /\ hostFailed = "No" /\ hostStop = "No"
    /\ co.why \in {"None", "Results", "Destination"}
    /\ co.done => Begun
    /\ lobbyTimer # "Fired" /\ gameTimer # "Fired"
    /\ \A b \in 1..Bots : bot[b].game # "Failed"
    /\ \A c \in Seat :
         /\ c < nextConnection => link[c] = "Up" \/ (c # HostConnection /\ co.done)
         /\ link[c] = "Cut" => c < nextConnection

LEMMA QuietIs == (Quiet <=> Unharmed /\ \A c \in Seat : ~Hears(c, "Error"))
BY DEF Quiet, Unharmed

LEMMA QuietIsNext == (Quiet' <=> Unharmed' /\ \A c \in Seat : ~Hears(c, "Error")')
<1>1. (Quiet <=> Unharmed /\ \A c \in Seat : ~Hears(c, "Error"))'  BY QuietIs, PTL
<1> QED  BY <1>1 DEF Seat

\* What the flow's moves have to keep besides.
LEMMA ClientInv ==
    ASSUME RoomInv, ClientSide, ClientTypes', FlowInv', TicketsFit', GamesOk',
           co.started => co'.started, co'.started => flow'.room # None,
           trouble' = 0 => Unharmed',
           trouble' = 0 /\ Starts(HostConnection) =>
               Everyone \subseteq members[1] /\ Everyone \subseteq ready[1]
    PROVE  RoomInv'
<1> DEFINE h == HostConnection
<1> USE DEF ClientSide
<1>1. WireTypes /\ h \in Seat /\ h \in ConnectionId /\ \A c \in Seat : c \in ConnectionId
  BY RoomBounds DEF RoomInv
<1>2. UNCHANGED <<nextConnection, nextPlayer, nextRoom, nextOrdinal, nextMatch,
                  open, connPlayer, playerRoom, roomState, roomHost, members, ready,
                  pending, active>>
  BY DEF lobbyVars, counters, connVars, roomVars, matchVars
<1>3. LobbyInv'  BY LobbyStep
<1>4. WireTypes'  BY DEF WireTypes
<1>5. \A c \in Seat : /\ Move(c) /\ Talk(c)'
                      /\ Silent(c) => Silent(c)'
                      /\ Inside(c) => Inside(c)' /\ Me(c)' = Me(c)
                      /\ Inside(c)' => Inside(c) \/ link[c] # "Up"
  BY <1>2, MoveTalks
<1>6. TalkInv'  BY <1>5 DEF TalkInv, Seat
<1>7. LinkInv'
  <2>1. LinkInv  BY DEF RoomInv
  <2>2. \A c \in Seat : c >= nextConnection' => Silent(c)'
    BY <1>2, <1>5, <2>1 DEF LinkInv
  <2> QED  BY <1>2, <2>1, <2>2 DEF LinkInv, Seat
<1>8. ReadyInv'
  <2>1. ReadyInv  BY DEF RoomInv
  <2>2. ASSUME NEW c \in Seat, NEW r \in RoomId, c \in open', connPlayer'[c] \in ready'[r]
        PROVE  HasReadied(c)' /\ ~Asked(c, "SetReady")'
    <3>1. HasReadied(c) /\ ~Asked(c, "SetReady")  BY <1>2, <2>1, <2>2 DEF ReadyInv
    <3> QED  BY <1>5, <3>1, MoveAsks DEF Asked
  <2> QED  BY <1>2, <2>1, <2>2 DEF ReadyInv, Seat, RoomId
<1>9. LeadInv'  BY <1>2 DEF RoomInv, LeadInv, Exists, MatchId
<1>10. RoomsFit'
  <2>1. ASSUME NEW i \in Inbox(h)', messages'[h][i].type = "Room"
        PROVE  FitsNext(messages'[h][i].view)
    <3>1. PICK j \in Inbox(h) : messages'[h][i] = messages[h][j]
      BY <1>1, <1>5, HadBefore
    <3>2. ViewFits(messages[h][j].view)  BY <2>1, <3>1 DEF RoomInv, RoomsFit
    <3>3. messages[h] # <<>>
      BY <3>1 DEF Inbox
    <3>4. Inside(h)  BY <1>1, <2>1, <3>1, <3>3, StageOf
    <3>5. Me(h)' = Me(h)  BY <1>1, <1>5, <3>4
    <3>6. flow'.player = flow.player  BY <3>5 DEF Me
    <3>7. /\ flow.readyRequested => flow'.readyRequested
          /\ requests'[h] = <<"SetReady">> =>
                requests[h] = <<"SetReady">> \/ ~flow.readyRequested
      BY <1>1, <1>5, MoveAsks DEF HasReadied
    <3> DEFINE v == messages[h][j].view
    <3> HIDE DEF v
    <3>8. ViewFits(v)  BY <3>2 DEF v
    <3>9. FitsNext(v)  BY <1>2, <3>6, <3>7, <3>8 DEF ViewFits, FitsNext, Asked
    <3> QED  BY <3>1, <3>9 DEF v
  <2> QED  BY <2>1, RoomsFitNext
<1>11. Begun' = Begun  BY <1>2 DEF Begun
<1>12. GamesFit'
  <2>1. ASSUME NEW c \in Seat, NEW i \in Inbox(c)', messages'[c][i].type = "Ticket"
        PROVE  messages'[c][i].match = 1 /\ Begun'
    <3>1. PICK j \in Inbox(c) : messages'[c][i] = messages[c][j]
      BY <1>1, <1>5, HadBefore
    <3> QED  BY <1>11, <2>1, <3>1 DEF RoomInv, GamesFit
  <2> QED  BY <2>1 DEF GamesFit, GamesOk, Seat
<1>13. CountInv'
  <2>1. Greeters \subseteq Greeters'
    <3>1. \A c \in Seat : Asked(c, "Hello")' => Asked(c, "Hello")
      BY <1>5, MoveAsks DEF Asked
    <3> QED  BY <1>2, <3>1 DEF Greeters, Seat
  <2>2. IsFiniteSet(Greeters')
    <3>1. Greeters' \subseteq Seat  BY DEF Greeters, Seat
    <3> QED  BY <3>1, GreetersAreFew, FS_Subset
  <2>3. Cardinality(Greeters) <= Cardinality(Greeters')  BY <2>1, <2>2, FS_Subset
  <2>4. Cardinality(Greeters') \in Nat  BY <2>2, FS_CardinalityType
  <2>5. nextPlayer \in Nat  BY Bounds DEF RoomInv, LobbyInv, TypeOK
  <2>6. nextPlayer' <= Cardinality(Greeters') + 1
    BY <1>2, <2>3, <2>4, <2>5, GreetersAreFew DEF RoomInv, CountInv
  <2> QED  BY <2>6 DEF CountInv
<1>14. ASSUME trouble' = 0
       PROVE  /\ Quiet'
              /\ nextMatch = 1 => Grows'
              /\ nextMatch = 2 => Settled'
  <2>1. trouble = 0 /\ Quiet  BY <1>1, <1>14 DEF WireTypes, RoomInv, QuietInv
  <2>2. Quiet'
    <3>1. \A c \in Seat : ~Hears(c, "Error")'
      BY <1>1, <1>5, <2>1, HeardBefore DEF Quiet
    <3> QED  BY <1>14, <3>1, QuietIsNext
  <2>3. ASSUME nextMatch = 1 PROVE Grows'
    <3>1. Grows  BY <2>1, <2>3 DEF RoomInv, QuietInv
    <3>2. ASSUME NEW c \in Seat, Inside(c)' PROVE Me(c)' \in members'[1]
      <4>1. Inside(c)
        <5>1. ~Silent(c)'  BY <3>2 DEF Silent, Inside
        <5>2. c < nextConnection
          <6>1. c \in Nat /\ nextConnection \in Nat
            BY Bounds, RoomBounds DEF Seat, RoomInv, LobbyInv, TypeOK
          <6>2. ~(c >= nextConnection)  BY <1>5, <5>1 DEF RoomInv, LinkInv
          <6> QED  BY <6>1, <6>2
        <5>3. ~co.done  BY <2>1, <2>3 DEF Quiet, Begun
        <5>4. link[c] = "Up"  BY <2>1, <5>2, <5>3 DEF Quiet
        <5> QED  BY <1>5, <3>2, <5>4
      <4> QED  BY <1>2, <1>5, <3>1, <4>1 DEF Grows
    <3>3. ASSUME NEW i \in Inbox(h)', messages'[h][i].type = "Room"
          PROVE  /\ messages'[h][i].view.members \subseteq members'[1]
                 /\ messages'[h][i].view.ready \subseteq ready'[1]
      <4>1. PICK j \in Inbox(h) : messages'[h][i] = messages[h][j]
        BY <1>1, <1>5, HadBefore
      <4>2. /\ messages[h][j].view.members \subseteq members[1]
            /\ messages[h][j].view.ready \subseteq ready[1]
        BY <3>1, <3>3, <4>1 DEF Grows
      <4> QED  BY <1>2, <4>1, <4>2
    <3>4. Asked(h, "StartMatch")' => Everyone \subseteq members[1] /\ Everyone \subseteq ready[1]
      BY <1>1, <1>5, <1>14, <3>1, MoveAsks DEF Grows, Asked
    <3> QED  BY <1>2, <3>1, <3>2, <3>3, <3>4 DEF Grows, Seat, Everyone
  <2>4. ASSUME nextMatch = 2 PROVE Settled'
    <3>1. Settled  BY <2>1, <2>4 DEF RoomInv, QuietInv
    <3>2. ASSUME NEW c \in Seat PROVE requests'[c] = <<>> /\ HasReadied(c)'
      <4>1. requests[c] = <<>> /\ HasReadied(c) /\ Move(c)  BY <1>5, <3>1 DEF Settled
      <4>2. ~Readies(c) /\ ~Starts(c)  BY <2>4, <4>1 DEF Readies, Starts
      <4>3. ~Enters(c)
        <5>1. Enters(c) => messages[c] # <<>> /\ messages[c][1].type = "Welcome"
          BY DEF Enters, Takes
        <5> QED  BY <4>1, <5>1, StageOf DEF Greeted
      <4> QED  BY <4>1, <4>2, <4>3 DEF Move, Rests, Closes, Reads, Keeps
    <3> QED  BY <3>2 DEF Settled, Seat
  <2> QED  BY <2>2, <2>3, <2>4
<1>15. QuietInv'  BY <1>2, <1>14 DEF QuietInv
<1> QED
  BY <1>3, <1>4, <1>6, <1>7, <1>8, <1>9, <1>10, <1>12, <1>13, <1>15 DEF RoomInv

-----------------------------------------------------------------------------
(* The clients' steps. *)

BotRecord == [player : PlayerId \cup {None}, readySent : BOOLEAN,
              ticket : {None, 1}, game : B!GameState, result : Results,
              finished : BOOLEAN, exit : Nat]
CoRecord ==
    [started : BOOLEAN, done : BOOLEAN, exit : Nat,
     why : {"None", "Results", "Destination", "Stopped", "Timeout", "Error", "Closed",
            "Session"},
     tickets : Nat, sessions : Nat, match : {None, 1}, ticking : BOOLEAN,
     result : Results]
BotsTyped ==
    /\ bot \in [1..Bots -> BotRecord] /\ co \in CoRecord
    /\ moving \in 0..Bots /\ play = TRUE

LEMMA BotsAreTyped ==
    ASSUME ClientTypes
    PROVE  BotsTyped
BY DEF ClientTypes, BotsTyped, BotRecord, CoRecord

LEMMA BotsAreTypedNext ==
    ASSUME ClientTypes, UNCHANGED hostVars, BotsTyped'
    PROVE  ClientTypes'
BY DEF ClientTypes, BotsTyped, BotRecord, CoRecord, hostVars

\* A host that does not move, or only closes, keeps to its flow.
LEMMA HostRests ==
    ASSUME RoomInv, ClientSide, flow' = flow, Rests(HostConnection) \/ Closes(HostConnection)
    PROVE  FlowInv' /\ TicketsFit' /\ ~Starts(HostConnection)
<1> DEFINE h == HostConnection
<1>1. /\ FlowInv /\ TicketsFit /\ WireTypes
      /\ h \in Seat /\ h \in ConnectionId
  BY RoomBounds DEF RoomInv
<1>2. UNCHANGED <<nextConnection, nextRoom, nextMatch, open, connPlayer, playerRoom,
                  pending, active>>
  BY DEF ClientSide, lobbyVars, counters, connVars, roomVars, matchVars
<1>3. Inside(h) => Inside(h)'
  BY <1>1, <1>2, MoveTalks DEF ClientSide
<1>4. requests'[h] = requests[h]  BY DEF Rests, Closes, Keeps
<1>5. FlowInv'  BY <1>1, <1>2, <1>3, <1>4 DEF FlowInv, Begun, Asked
<1>6. TicketsFit'
  <2>1. link'[h] = "Up" => link[h] = "Up"  BY <1>1 DEF ClientSide
  <2>2. CASE Rests(h)
    <3>1. messages'[h] = messages[h]  BY <2>2 DEF Rests
    <3> QED  BY <1>1, <1>2, <2>1, <3>1 DEF TicketsFit, TicketAt, Inbox, Hears, MatchId
  <2>3. CASE Closes(h)
    <3>1. Inbox(h)' = {} /\ link'[h] # "Up"  BY <2>3 DEF Closes, Inbox
    <3> QED  BY <1>1, <1>2, <3>1 DEF TicketsFit, TicketAt
  <2> QED  BY <2>2, <2>3
<1>7. ~Starts(h)  BY DEF Starts
<1> QED  BY <1>5, <1>6, <1>7

\* The bots move and the host does not.
LEMMA BotsKeep ==
    ASSUME RoomInv, ClientSide, UNCHANGED hostVars, Rests(HostConnection),
           BotsTyped', GamesOk', co.started => co'.started,
           co'.started => flow.room # None, trouble' = 0 => Unharmed'
    PROVE  RoomInv'
<1>1. flow' = flow  BY DEF hostVars
<1>2. ClientTypes'  BY BotsAreTypedNext DEF RoomInv
<1>3. FlowInv' /\ TicketsFit' /\ ~Starts(HostConnection)  BY <1>1, HostRests
<1> QED  BY <1>1, <1>2, <1>3, ClientInv

\* Nobody is sent anything, and no bot says more to the lobby than before.
LEMMA BotsOnly ==
    ASSUME RoomInv, UNCHANGED <<lobbyVars, flow, requests, messages, link>>,
           \A b \in 1..Bots :
              bot'[b].player = bot[b].player /\ bot'[b].readySent = bot[b].readySent,
           trouble' \in Nat, trouble <= trouble'
    PROVE  ClientSide /\ \A c \in Seat : Rests(c)
<1>1. ASSUME NEW c \in Seat PROVE Rests(c) /\ Move(c)
  <2>1. c = HostConnection \/ c - 1 \in 1..Bots  BY RoomBounds DEF Seat, HostConnection
  <2>2. Me(c)' = Me(c) /\ HasReadied(c)' = HasReadied(c)
    BY <2>1 DEF Me, HasReadied
  <2> QED  BY <2>2 DEF Rests, Keeps, Move
<1> QED  BY <1>1 DEF ClientSide, RoomInv, WireTypes

\* All seats are of the host or a bot.
LEMMA SeatIs ==
    ASSUME NEW c \in Seat
    PROVE  c = HostConnection \/ (c # HostConnection /\ c - 1 \in 1..Bots)
BY RoomBounds DEF Seat, HostConnection

\* The end of the bot coordinator: its players are done and hang up.
LEMMA ShutdownKeeps ==
    ASSUME RoomInv, NEW code \in Nat,
           NEW why \in {"None", "Results", "Destination", "Stopped", "Timeout", "Error",
                        "Closed", "Session"},
           NEW codes \in [1..Bots -> BotRecord],
           \A b \in 1..Bots : /\ codes[b].player = bot[b].player
                              /\ codes[b].readySent = bot[b].readySent
                              /\ codes[b].game = bot[b].game,
           NEW result \in Results, B!Shutdown(code, why, codes, result), BotsClose,
           UNCHANGED <<lobbyVars, hostVars, requests>>,
           trouble' \in Nat, trouble <= trouble',
           trouble' = 0 => why \in {"Results", "Destination"} /\ co.ticking
    PROVE  RoomInv'
<1> DEFINE h == HostConnection
<1>1. /\ LobbyInv /\ LinkInv /\ WireTypes /\ GamesFit /\ BotsTyped
      /\ h \in Seat /\ h \in ConnectionId /\ \A c \in Seat : c \in ConnectionId
  BY RoomBounds, BotsAreTyped DEF RoomInv
<1>2. /\ co' = [co EXCEPT !.done = TRUE, !.exit = code, !.why = why, !.result = result]
      /\ bot' = [b \in 1..Bots |-> [codes[b] EXCEPT !.game = B!Stopped(@)]]
      /\ lobbyTimer' = "Off" /\ gameTimer' = "Off" /\ moving' = 0 /\ play' = play
  BY DEF B!Shutdown, B!Unset, B!Bot
<1>3. /\ co' \in CoRecord /\ co'.done /\ co'.why = why
      /\ co'.started = co.started /\ co'.ticking = co.ticking
  BY <1>1, <1>2 DEF BotsTyped, CoRecord
<1>4. ASSUME NEW b \in 1..Bots
      PROVE  /\ bot'[b] \in BotRecord /\ bot'[b].game \in {"None", "Stopped"}
             /\ bot'[b].player = bot[b].player /\ bot'[b].readySent = bot[b].readySent
             /\ bot'[b].game # "None" => bot[b].game # "None"
  <2>1. codes[b] \in BotRecord /\ codes[b].game \in B!GameState  BY DEF BotRecord
  <2>2. bot'[b] = [codes[b] EXCEPT !.game = B!Stopped(codes[b].game)]  BY <1>2
  <2>3. /\ B!Stopped(codes[b].game) \in B!GameState
        /\ B!Stopped(codes[b].game) \in {"None", "Stopped"}
        /\ B!Stopped(codes[b].game) # "None" => codes[b].game # "None"
    BY <2>1 DEF B!Stopped, B!GameState
  <2> DEFINE g == B!Stopped(codes[b].game)
  <2> HIDE DEF g
  <2>4. bot'[b] = [codes[b] EXCEPT !.game = g]  BY <2>2 DEF g
  <2>5. g \in B!GameState /\ g \in {"None", "Stopped"} /\ (g # "None" => codes[b].game # "None")
    BY <2>3 DEF g
  <2>6. bot'[b] \in BotRecord  BY <2>1, <2>4, <2>5 DEF BotRecord
  <2>7. /\ bot'[b].game = g /\ bot'[b].player = codes[b].player
        /\ bot'[b].readySent = codes[b].readySent
    BY <2>1, <2>4 DEF BotRecord
  <2> QED  BY <2>5, <2>6, <2>7
<1>5. BotsTyped'
  <2>1. bot' \in [1..Bots -> BotRecord]  BY <1>2, <1>4
  <2> QED  BY <1>1, <1>2, <1>3, <2>1, RoomBounds DEF BotsTyped, BotRecord, CoRecord, B!GameState
<1>6. GamesOk'
  <2>1. Begun' = Begun  BY DEF Begun, lobbyVars, counters, matchVars
  <2>2. moving' = None  BY <1>2 DEF None
  <2> QED  BY <1>1, <1>3, <1>4, <2>1, <2>2 DEF GamesFit, GamesOk, Playing
<1>7. ASSUME NEW c \in ConnectionId
      PROVE  /\ link'[c] \in {"Down", "Up", "Cut"} /\ messages'[c] \in Seq(Note)
             /\ link'[c] = "Up" => link[c] = "Up"
             /\ link'[c] = "Cut" => link[c] \in {"Cut", "Up"}
             /\ c = h => link'[c] = link[c] /\ messages'[c] = messages[c]
             /\ \/ link'[c] = link[c] /\ messages'[c] = messages[c]
                \/ link'[c] # "Up" /\ messages'[c] = <<>>
  <2>1. link[c] \in {"Down", "Up", "Cut"} /\ messages[c] \in Seq(Note)
    BY <1>1 DEF WireTypes
  <2> QED  BY <1>1, <2>1, NoNote DEF BotsClose, WireTypes
<1>8. ASSUME NEW c \in Seat PROVE Move(c) /\ (c = h => Rests(c))
  <2>1. c = h \/ c - 1 \in 1..Bots  BY SeatIs
  <2>2. Me(c)' = Me(c) /\ HasReadied(c)' = HasReadied(c) /\ requests'[c] = requests[c]
    BY <1>4, <2>1 DEF Me, HasReadied, hostVars
  <2> QED  BY <1>1, <1>7, <2>2 DEF Move, Rests, Closes, Keeps
<1>9. link' \in [ConnectionId -> {"Down", "Up", "Cut"}] /\ messages' \in [ConnectionId -> Seq(Note)]
  <2>1. /\ link' = [c \in ConnectionId |-> link'[c]]
        /\ messages' = [c \in ConnectionId |-> messages'[c]]
    BY <1>1 DEF BotsClose, WireTypes
  <2> QED  BY <1>7, <2>1
<1>10. ClientSide
  BY <1>1, <1>7, <1>8, <1>9 DEF ClientSide, WireTypes
<1>11. ASSUME trouble' = 0 PROVE Unharmed'
  <2>1. Quiet /\ why \in {"Results", "Destination"} /\ co.ticking
    BY <1>1, <1>11 DEF RoomInv, QuietInv, WireTypes
  <2>2. UNCHANGED <<hostFailed, hostStop, nextConnection, nextMatch, pending>>
    BY DEF hostVars, lobbyVars, counters, matchVars
  <2>3. ASSUME NEW c \in Seat
        PROVE  /\ c < nextConnection' => link'[c] = "Up" \/ (c # h /\ co'.done)
               /\ link'[c] = "Cut" => c < nextConnection'
    <3>1. link'[c] = "Cut" => c < nextConnection'
      <4>1. link[c] = "Cut" => c < nextConnection  BY <2>1 DEF Quiet
      <4>2. link[c] = "Up" => c < nextConnection  BY <1>1, UpSeat
      <4> QED  BY <1>1, <1>7, <2>2, <4>1, <4>2
    <3>2. c = h /\ c < nextConnection => link[c] = "Up"  BY <2>1 DEF Quiet
    <3> QED  BY <1>1, <1>3, <1>7, <2>2, <3>1, <3>2
  <2>4. Begun'  BY <1>1, <2>1, <2>2 DEF GamesFit, Begun
  <2> QED  BY <1>2, <1>3, <1>4, <2>1, <2>2, <2>3, <2>4 DEF Quiet, Unharmed, Seat
<1>12. Rests(h)  BY <1>1, <1>8
<1>13. co'.started = co.started /\ (co.started => flow.room # None)
  BY <1>1, <1>3 DEF LinkInv
<1> QED  BY <1>5, <1>6, <1>10, <1>11, <1>12, <1>13, BotsKeep

-----------------------------------------------------------------------------
(* The host's end, and connections that fail. *)

\* The flow stays: what happens to the host is trouble or no concern of the lobby.
LEMMA HostKeeps ==
    ASSUME RoomInv, ClientSide, UNCHANGED <<botVars, flow>>, ClientTypes',
           Rests(HostConnection) \/ Closes(HostConnection),
           trouble' = 0 => UNCHANGED <<hostFailed, hostStop, link>>
    PROVE  RoomInv'
<1>1. UNCHANGED <<co, bot, moving, lobbyTimer, gameTimer, flow>>  BY DEF botVars
<1>2. UNCHANGED <<nextConnection, nextMatch, pending>>
  BY DEF ClientSide, lobbyVars, counters, matchVars
<1>3. FlowInv' /\ TicketsFit' /\ ~Starts(HostConnection)  BY <1>1, HostRests
<1>4. GamesOk'  BY <1>1, <1>2 DEF RoomInv, GamesFit, GamesOk, Begun
<1>5. ASSUME trouble' = 0 PROVE Unharmed'
  <2>1. Quiet  BY <1>5 DEF ClientSide, RoomInv, QuietInv, WireTypes
  <2> QED  BY <1>1, <1>2, <1>5, <2>1 DEF Quiet, Unharmed, Begun, Seat
<1>6. co'.started => flow'.room # None  BY <1>1 DEF RoomInv, LinkInv
<1> QED  BY <1>1, <1>3, <1>4, <1>5, <1>6, ClientInv

LEMMA HangsUp ==
    ASSUME RoomInv, UNCHANGED <<lobbyVars, requests, botVars, flow>>,
           HostCloses \/ UNCHANGED <<messages, link>>,
           trouble' \in Nat, trouble <= trouble'
    PROVE  ClientSide /\ (Rests(HostConnection) \/ Closes(HostConnection))
<1> DEFINE h == HostConnection
<1>1. WireTypes /\ h \in Seat /\ h \in ConnectionId /\ \A c \in Seat : c \in ConnectionId
  BY RoomBounds DEF RoomInv
<1>2. ASSUME NEW c \in ConnectionId
      PROVE  /\ link'[c] \in {"Down", "Up", "Cut"} /\ messages'[c] \in Seq(Note)
             /\ link'[c] = "Up" => link[c] = "Up"
             /\ \/ link'[c] = link[c] /\ messages'[c] = messages[c]
                \/ c = h /\ link'[c] # "Up" /\ messages'[c] = <<>>
  <2>1. link[c] \in {"Down", "Up", "Cut"} /\ messages[c] \in Seq(Note)
    BY <1>1 DEF WireTypes
  <2> QED  BY <1>1, <2>1, NoNote DEF HostCloses, WireTypes
<1>3. ASSUME NEW c \in Seat PROVE Move(c) /\ (Rests(c) \/ Closes(c))
  <2>1. Me(c)' = Me(c) /\ HasReadied(c)' = HasReadied(c) /\ requests'[c] = requests[c]
    BY DEF Me, HasReadied, botVars
  <2> QED  BY <1>1, <1>2, <2>1 DEF Move, Rests, Closes, Keeps
<1>4. link' \in [ConnectionId -> {"Down", "Up", "Cut"}] /\ messages' \in [ConnectionId -> Seq(Note)]
  <2>1. /\ link' = [c \in ConnectionId |-> link'[c]]
        /\ messages' = [c \in ConnectionId |-> messages'[c]]
    BY <1>1 DEF HostCloses, WireTypes
  <2> QED  BY <1>2, <2>1
<1> QED  BY <1>1, <1>2, <1>3, <1>4 DEF ClientSide, WireTypes

LEMMA FailureKeeps ==
    ASSUME RoomInv, NEW c \in ConnectionId, ConnectionFails(c)
    PROVE  RoomInv'
<1>1. WireTypes /\ \A d \in Seat : d \in ConnectionId  BY RoomBounds DEF RoomInv
<1>2. trouble \in Nat /\ trouble' = trouble + 1  BY <1>1 DEF ConnectionFails, Troubles, WireTypes
<1>3. trouble' \in Nat /\ trouble <= trouble' /\ trouble' # 0  BY <1>2
<1>4. /\ UNCHANGED <<lobbyVars, hostVars, botVars, requests, messages>>
      /\ link' = [link EXCEPT ![c] = "Cut"]
  BY DEF ConnectionFails
<1>5. ASSUME NEW d \in Seat PROVE Rests(d) /\ Move(d)
  <2>1. Me(d)' = Me(d) /\ HasReadied(d)' = HasReadied(d)
    BY <1>4 DEF Me, HasReadied, botVars, hostVars
  <2>2. link'[d] = "Up" => link[d] = "Up"  BY <1>1, <1>4 DEF WireTypes
  <2> QED  BY <1>4, <2>1, <2>2 DEF Rests, Keeps, Move
<1>6. ClientSide
  BY <1>1, <1>3, <1>4, <1>5 DEF ClientSide, WireTypes
<1>7. ClientTypes' /\ flow' = flow  BY <1>4 DEF RoomInv, ClientTypes, hostVars, botVars
<1>8. Rests(HostConnection)  BY <1>5, RoomBounds
<1> QED  BY <1>3, <1>4, <1>6, <1>7, <1>8, HostKeeps

LEMMA NoticeKeeps ==
    ASSUME RoomInv, HostNotices
    PROVE  RoomInv'
<1>1. /\ UNCHANGED <<lobbyVars, requests, botVars, flow, trouble>>
      /\ link[HostConnection] = "Cut" /\ hostFailed = "No" /\ hostFailed' = "Closed"
      /\ HostCloses
  BY DEF HostNotices, H!Fail, H!Listens
<1>2. trouble \in Nat  BY DEF RoomInv, WireTypes
<1>3. ClientSide /\ (Rests(HostConnection) \/ Closes(HostConnection))
  BY <1>1, <1>2, HangsUp
<1>4. ClientTypes'  BY <1>1 DEF RoomInv, ClientTypes, botVars
<1>5. trouble # 0
  <2>1. HostConnection \in Seat  BY RoomBounds
  <2> QED  BY <1>1, <2>1 DEF RoomInv, QuietInv, Quiet
<1> QED  BY <1>1, <1>3, <1>4, <1>5, HostKeeps

LEMMA ThreadsKeep ==
    ASSUME RoomInv, HostThreads
    PROVE  RoomInv'
<1>1. /\ UNCHANGED <<lobbyVars, requests, botVars, flow, hostFailed>>
      /\ HostCloses \/ UNCHANGED <<messages, link>>
  BY DEF HostThreads, H!StoreSession, H!RequestStop, H!StopSession, H!CloseOnThread, H!Join
<1>2. trouble \in Nat  BY DEF RoomInv, WireTypes
<1>3. /\ trouble' \in Nat /\ trouble <= trouble'
      /\ \/ UNCHANGED <<hostStop, messages, link>>
         \/ trouble' # 0
         \/ hostStop # "No" /\ trouble' = trouble
  BY <1>2 DEF HostThreads, H!StoreSession, H!RequestStop, H!StopSession, H!CloseOnThread,
              H!Join, Troubles
<1>4. ClientSide /\ (Rests(HostConnection) \/ Closes(HostConnection))
  BY <1>1, <1>3, HangsUp
<1>5. ClientTypes'  BY <1>1 DEF RoomInv, ClientTypes, botVars
<1>6. trouble' = 0 => UNCHANGED <<hostFailed, hostStop, link>>
  <2>1. hostStop # "No" => trouble # 0  BY DEF RoomInv, QuietInv, Quiet
  <2> QED  BY <1>1, <1>3, <2>1
<1> QED  BY <1>1, <1>4, <1>5, <1>6, HostKeeps

\* An error tells the host of trouble.
LEMMA ErrorKeeps ==
    ASSUME RoomInv, HostReceives, Head(messages[HostConnection]).type = "Error"
    PROVE  RoomInv'
<1>1. /\ UNCHANGED <<lobbyVars, requests, botVars, flow, trouble>>
      /\ messages[HostConnection] # <<>> /\ hostFailed = "No" /\ hostFailed' = "Error"
      /\ HostCloses
  BY DEF HostReceives, H!Fail, H!Listens
<1>2. trouble \in Nat  BY DEF RoomInv, WireTypes
<1>3. ClientSide /\ (Rests(HostConnection) \/ Closes(HostConnection))
  BY <1>1, <1>2, HangsUp
<1>4. ClientTypes'  BY <1>1 DEF RoomInv, ClientTypes, botVars
<1>5. trouble # 0
  <2>1. HostConnection \in Seat  BY RoomBounds
  <2>2. 1 \in Inbox(HostConnection)  BY <1>1, <2>1, StageOf
  <2>3. messages[HostConnection][1].type = "Error"  BY <1>1
  <2>4. Hears(HostConnection, "Error")  BY <2>2, <2>3 DEF Hears
  <2> QED  BY <2>1, <2>4 DEF RoomInv, QuietInv, Quiet
<1> QED  BY <1>1, <1>3, <1>4, <1>5, HostKeeps

\* The host takes its next message and answers as it does.
HostTakes ==
    /\ UNCHANGED <<lobbyVars, botVars, link, trouble, hostFailed, hostStop>>
    /\ messages[HostConnection] # <<>>
    /\ messages' = [messages EXCEPT ![HostConnection] = Tail(@)]
    /\ DOMAIN requests' = ConnectionId
    /\ \A d \in ConnectionId : d # HostConnection => requests'[d] = requests[d]

\* What a message may change of the flow.
FlowMoves ==
    /\ flow' \in [player : PlayerId \cup {None}, room : {None, 1},
                  readyRequested : BOOLEAN, startRequested : BOOLEAN,
                  ticketReceived : BOOLEAN]
    /\ flow.room # None => flow'.room # None
    /\ flow'.room # None => nextRoom = 2
    /\ flow'.readyRequested => flow'.room # None
    /\ flow'.startRequested => flow'.readyRequested
    /\ flow'.ticketReceived => flow'.startRequested /\ Begun
    /\ flow.startRequested => flow'.startRequested
    /\ \/ /\ messages[HostConnection][1].type # "Ticket"
          /\ flow'.ticketReceived = flow.ticketReceived
       \/ /\ messages[HostConnection][1].type = "Ticket"
          /\ flow'.ticketReceived

LEMMA TicketsMove ==
    ASSUME WireTypes, TicketsFit, Takes(HostConnection), FlowMoves,
           HostConnection \in ConnectionId, UNCHANGED active
    PROVE  TicketsFit'
<1> DEFINE h == HostConnection
<1>1. /\ 1 \in Inbox(h)
      /\ \A i \in Inbox(h)' : i \in Nat /\ i >= 1 /\ i + 1 \in Inbox(h)
                              /\ messages'[h][i] = messages[h][i + 1]
      /\ \A i \in Inbox(h) : i # 1 =>
            i \in Nat /\ i - 1 \in Inbox(h)' /\ messages'[h][i - 1] = messages[h][i]
  BY TakenIs DEF Inbox
<1>2. \A i \in Inbox(h)' : TicketAt(i)' <=> TicketAt(i + 1)  BY <1>1 DEF TicketAt
<1>3. CASE messages[h][1].type # "Ticket" /\ flow'.ticketReceived = flow.ticketReceived
  <2>1. ~TicketAt(1)  BY <1>3 DEF TicketAt
  <2>2. ASSUME NEW i \in Inbox(h)', TicketAt(i)'
        PROVE  /\ flow'.startRequested /\ ~flow'.ticketReceived
               /\ \A j \in Inbox(h)' : TicketAt(j)' => i = j
    <3>1. i + 1 \in Inbox(h) /\ TicketAt(i + 1)  BY <1>1, <1>2, <2>2
    <3>2. ASSUME NEW j \in Inbox(h)', TicketAt(j)' PROVE i = j
      <4>1. j + 1 \in Inbox(h) /\ TicketAt(j + 1)  BY <1>1, <1>2, <3>2
      <4>2. i + 1 = j + 1  BY <3>1, <4>1 DEF TicketsFit
      <4>3. i \in Nat /\ j \in Nat  BY <1>1
      <4> QED  BY <4>2, <4>3
    <3>3. flow.startRequested /\ ~flow.ticketReceived  BY <3>1 DEF TicketsFit
    <3> QED  BY <1>3, <3>2, <3>3 DEF FlowMoves
  <2>3. ASSUME NEW i \in Inbox(h)', messages'[h][i].type = "RoomList"
        PROVE  flow'.ticketReceived \/ \E j \in 1..(i - 1) : TicketAt(j)'
    <3>1. i + 1 \in Inbox(h) /\ messages[h][i + 1].type = "RoomList" /\ i \in Nat
      BY <1>1, <2>3
    <3>2. CASE flow.ticketReceived  BY <1>3, <3>2
    <3>3. CASE ~flow.ticketReceived
      <4>1. PICK j \in 1..((i + 1) - 1) : TicketAt(j)  BY <3>1, <3>3 DEF TicketsFit
      <4>2. j # 1  BY <2>1, <4>1
      <4>3. j - 1 \in 1..(i - 1) /\ j \in Nat /\ (j - 1) + 1 = j  BY <3>1, <4>1, <4>2
      <4>4. j - 1 \in Inbox(h)'  BY <3>1, <4>3 DEF Inbox
      <4>5. TicketAt(j - 1)'  BY <1>2, <4>1, <4>3, <4>4
      <4> QED  BY <4>3, <4>5
    <3> QED  BY <3>2, <3>3
  <2>4. Hears(h, "Ticket") => Hears(h, "Ticket")'
    <3> SUFFICES ASSUME NEW i \in Inbox(h), messages[h][i].type = "Ticket"
                 PROVE  Hears(h, "Ticket")'
      BY DEF Hears
    <3>1. i # 1  BY <1>3
    <3>2. i - 1 \in Inbox(h)' /\ messages'[h][i - 1].type = "Ticket"  BY <1>1, <3>1
    <3> QED  BY <3>2 DEF Hears
  <2>5. link'[h] = link[h]  BY DEF Takes
  <2>6. link'[h] = "Up" /\ (\E m \in MatchId : active'[m].room # None) =>
            flow'.ticketReceived \/ Hears(h, "Ticket")'
    BY <1>3, <2>4, <2>5 DEF TicketsFit
  <2> QED  BY <2>2, <2>3, <2>6 DEF TicketsFit, MatchId
<1>4. CASE messages[h][1].type = "Ticket" /\ flow'.ticketReceived
  <2>1. TicketAt(1)  BY <1>4 DEF TicketAt
  <2>2. ASSUME NEW i \in Inbox(h)', TicketAt(i)' PROVE FALSE
    <3>1. i + 1 \in Inbox(h) /\ TicketAt(i + 1)  BY <1>1, <1>2, <2>2
    <3>2. i + 1 = 1  BY <1>1, <2>1, <3>1 DEF TicketsFit
    <3>3. i \in Nat /\ i >= 1  BY <1>1
    <3> QED  BY <3>2, <3>3
  <2> QED  BY <1>4, <2>2 DEF TicketsFit
<1> QED  BY <1>3, <1>4 DEF FlowMoves

LEMMA AnswerKeeps ==
    ASSUME RoomInv, HostTakes, FlowMoves, Move(HostConnection), Takes(HostConnection),
           trouble = 0 /\ Starts(HostConnection) =>
               Everyone \subseteq members[1] /\ Everyone \subseteq ready[1]
    PROVE  RoomInv'
<1> DEFINE h == HostConnection
<1>1. /\ WireTypes /\ FlowInv /\ TicketsFit /\ GamesFit
      /\ h \in Seat /\ h \in ConnectionId /\ \A c \in Seat : c \in ConnectionId
  BY RoomBounds DEF RoomInv
<1>2. UNCHANGED <<nextConnection, nextRoom, nextMatch, open, connPlayer, playerRoom,
                  pending, active>>
  BY DEF HostTakes, lobbyVars, counters, connVars, roomVars, matchVars
<1>3. ASSUME NEW c \in ConnectionId PROVE messages'[c] \in Seq(Note) /\ link'[c] = link[c]
  <2>1. messages[c] \in Seq(Note) /\ messages[h] \in Seq(Note)  BY <1>1 DEF WireTypes
  <2>2. Tail(messages[h]) \in Seq(Note)  BY <2>1, HeadTailProperties DEF HostTakes
  <2> QED  BY <1>1, <2>1, <2>2 DEF HostTakes, WireTypes
<1>4. ASSUME NEW c \in Seat PROVE Move(c)
  <2>1. CASE c # h
    <3>1. Me(c)' = Me(c) /\ HasReadied(c)' = HasReadied(c) /\ requests'[c] = requests[c]
      BY <1>1, <2>1 DEF Me, HasReadied, HostTakes, botVars
    <3>2. messages'[c] = messages[c]  BY <1>1, <2>1 DEF HostTakes, WireTypes
    <3> QED  BY <1>1, <1>3, <3>1, <3>2 DEF Move, Rests, Keeps
  <2> QED  BY <2>1
<1>5. ClientSide
  <2>1. messages' = [c \in ConnectionId |-> messages'[c]]  BY <1>1 DEF HostTakes, WireTypes
  <2>2. messages' \in [ConnectionId -> Seq(Note)]  BY <1>3, <2>1
  <2>3. trouble' = trouble /\ trouble \in Nat /\ link' = link  BY <1>1 DEF HostTakes, WireTypes
  <2> QED  BY <1>1, <1>4, <2>2, <2>3 DEF ClientSide, HostTakes, WireTypes
<1>6. ClientTypes'  BY DEF RoomInv, ClientTypes, HostTakes, FlowMoves, botVars
<1>7. FlowInv'
  <2>1. Inside(h) => Inside(h)'  BY <1>1, <1>2, MoveTalks
  <2>2. Asked(h, "StartMatch")' => flow'.startRequested /\ nextMatch = 1
    <3>1. Asked(h, "StartMatch")' => Asked(h, "StartMatch") \/ Starts(h)
      BY <1>1, MoveAsks DEF Asked
    <3> QED  BY <1>1, <3>1 DEF FlowInv, FlowMoves, Starts
  <2> QED  BY <1>1, <1>2, <2>1, <2>2 DEF FlowInv, FlowMoves, Begun
<1>8. TicketsFit'  BY <1>1, <1>2, TicketsMove
<1>9. UNCHANGED <<co, bot, moving, lobbyTimer, gameTimer, hostFailed, hostStop, link, trouble>>
  BY DEF HostTakes, botVars
<1>10. GamesOk'  BY <1>1, <1>2, <1>9 DEF GamesFit, GamesOk, Begun
<1>11. ASSUME trouble' = 0 PROVE Unharmed'
  <2>1. Quiet  BY <1>9, <1>11 DEF RoomInv, QuietInv
  <2> QED  BY <1>2, <1>9, <2>1 DEF Quiet, Unharmed, Begun, Seat
<1>12. (co.started => co'.started) /\ (co'.started => flow'.room # None)
  BY <1>9 DEF RoomInv, LinkInv, FlowMoves
<1> QED  BY <1>5, <1>6, <1>7, <1>8, <1>9, <1>10, <1>11, <1>12, ClientInv

LEMMA HostAnswers ==
    ASSUME RoomInv, HostReceives, NEW m, m = Head(messages[HostConnection]), m.type # "Error",
           NEW f, NEW q, q # "Throw", Answer(m) = [flow |-> f, command |-> q]
    PROVE  /\ HostTakes /\ Takes(HostConnection) /\ flow' = f
           /\ requests'[HostConnection] =
                  IF q \notin {"None", "StartGame"} /\ link[HostConnection] = "Up"
                  THEN Append(requests[HostConnection], q) ELSE requests[HostConnection]
<1> DEFINE h == HostConnection
<1>1. WireTypes /\ h \in ConnectionId  BY RoomBounds DEF RoomInv
<1>2. Answer(m).flow = f /\ Answer(m).command = q  OBVIOUS
<1>3. /\ messages[h] # <<>>
      /\ H!Obey(Answer(m))
      /\ messages' = [messages EXCEPT ![h] = Tail(@)]
      /\ IF q \in {"None", "StartGame"} THEN UNCHANGED requests ELSE Asks(h, q)
      /\ UNCHANGED <<link, lobbyVars, botVars, trouble>>
  BY <1>2 DEF HostReceives
<1>4. flow' = f /\ UNCHANGED <<hostFailed, hostStop>>  BY <1>2, <1>3 DEF H!Obey
<1>5. /\ DOMAIN requests' = ConnectionId
      /\ \A d \in ConnectionId : d # h => requests'[d] = requests[d]
      /\ requests'[h] = IF q \notin {"None", "StartGame"} /\ link[h] = "Up"
                        THEN Append(requests[h], q) ELSE requests[h]
  BY <1>1, <1>3 DEF WireTypes, Asks
<1>6. messages'[h] = Tail(messages[h]) /\ link' = link
  BY <1>1, <1>3 DEF WireTypes
<1> QED  BY <1>3, <1>4, <1>5, <1>6 DEF HostTakes, Takes

\* Saying something when nothing is unread.
LEMMA SaysIt ==
    ASSUME NEW c, NEW q, requests[c] = <<>>,
           requests'[c] = IF link[c] = "Up" THEN Append(requests[c], q) ELSE requests[c]
    PROVE  Says(c, q)
<1>1. Append(<<>>, q) = <<q>>  OBVIOUS
<1> QED  BY <1>1 DEF Says

LEMMA WelcomeKeeps ==
    ASSUME RoomInv, HostReceives, Head(messages[HostConnection]).type = "Welcome"
    PROVE  RoomInv'
<1> DEFINE h == HostConnection  m == Head(messages[h])
           f == [flow EXCEPT !.player = m.player]
<1>1. WireTypes /\ FlowInv /\ h \in Seat /\ h \in ConnectionId  BY RoomBounds DEF RoomInv
<1>2. messages[h] # <<>>  BY DEF HostReceives
<1>3. m = messages[h][1]  BY <1>2
<1>4. Greeted(h) /\ m.player \in PlayerId
  <2>1. 1 \in Inbox(h)  BY <1>1, <1>2, StageOf
  <2> QED  BY <1>1, <1>2, <1>3, <2>1, StageOf
<1>5. flow.player = None /\ requests[h] = <<>>  BY <1>4 DEF Greeted, Me
<1>6. Answer(m) = [flow |-> f, command |-> "CreateRoom"]
  BY <1>5 DEF Answer, H!OnWelcome, H!Unset, None
<1>7. /\ HostTakes /\ Takes(h) /\ flow' = f
      /\ requests'[h] = IF link[h] = "Up" THEN Append(requests[h], "CreateRoom") ELSE requests[h]
  <2> HIDE DEF m, f
  <2>1. m = Head(messages[h]) /\ m.type # "Error"  BY DEF m
  <2> QED  BY <1>6, <2>1, HostAnswers
<1>8. /\ flow'.player = m.player /\ flow'.room = flow.room
      /\ flow'.readyRequested = flow.readyRequested
      /\ flow'.startRequested = flow.startRequested
      /\ flow'.ticketReceived = flow.ticketReceived
      /\ flow' \in [player : PlayerId \cup {None}, room : {None, 1},
                    readyRequested : BOOLEAN, startRequested : BOOLEAN,
                    ticketReceived : BOOLEAN]
  <2>1. flow \in [player : PlayerId \cup {None}, room : {None, 1},
                  readyRequested : BOOLEAN, startRequested : BOOLEAN,
                  ticketReceived : BOOLEAN]
    BY DEF RoomInv, ClientTypes
  <2> HIDE DEF m
  <2> QED  BY <1>4, <1>7, <2>1
<1>9. Says(h, "CreateRoom")  BY <1>5, <1>7, SaysIt
<1>10. Move(h) /\ ~Starts(h)
  <2>1. Enters(h)
    BY <1>3, <1>7, <1>8, <1>9 DEF Enters, Me, HasReadied, Way
  <2>2. link'[h] = link[h]  BY <1>7 DEF Takes
  <2>3. ~Starts(h)  BY <1>3 DEF Starts
  <2> QED  BY <2>1, <2>2, <2>3 DEF Move
<1>11. FlowMoves  BY <1>1, <1>3, <1>8 DEF FlowMoves, FlowInv
<1> QED  BY <1>7, <1>10, <1>11, AnswerKeeps

\* Who reads anything else is inside.
LEMMA HostIsInside ==
    ASSUME RoomInv, HostReceives, Head(messages[HostConnection]).type # "Welcome"
    PROVE  /\ Inside(HostConnection) /\ flow.player \in PlayerId /\ flow.player # None
           /\ 1 \in Inbox(HostConnection)
           /\ Head(messages[HostConnection]) = messages[HostConnection][1]
<1> DEFINE h == HostConnection
<1>1. h \in Seat  BY RoomBounds
<1>2. messages[h] # <<>>  BY DEF HostReceives
<1>3. Head(messages[h]) = messages[h][1]  BY <1>2
<1>4. Inside(h) /\ 1 \in Inbox(h)  BY <1>1, <1>2, <1>3, StageOf
<1>5. flow.player # None  BY <1>4 DEF Inside, Me
<1>6. flow.player \in PlayerId \cup {None}  BY DEF RoomInv, ClientTypes
<1> QED  BY <1>3, <1>4, <1>5, <1>6

LEMMA TicketKeeps ==
    ASSUME RoomInv, HostReceives, Head(messages[HostConnection]).type = "Ticket"
    PROVE  RoomInv'
<1> DEFINE h == HostConnection  m == Head(messages[h])
           f == [flow EXCEPT !.ticketReceived = TRUE]
<1>1. /\ FlowInv /\ TicketsFit /\ GamesFit /\ h \in Seat  BY RoomBounds DEF RoomInv
<1>2. flow.player # None /\ 1 \in Inbox(h) /\ m = messages[h][1] /\ m.type = "Ticket"
  BY HostIsInside
<1>3. flow.startRequested /\ ~flow.ticketReceived
  BY <1>1, <1>2 DEF TicketsFit, TicketAt
<1>4. Begun  BY <1>1, <1>2 DEF GamesFit
<1>5. flow.room # None  BY <1>1, <1>3 DEF FlowInv
<1>6. Answer(m) = [flow |-> f, command |-> "StartGame"]
  <2>1. H!OnMatchTicket = [flow |-> f, command |-> "StartGame"]
    BY <1>2, <1>3, <1>5 DEF H!OnMatchTicket, H!Unset, None
  <2> QED  BY <1>2, <2>1 DEF Answer
<1>7. HostTakes /\ Takes(h) /\ flow' = f /\ requests'[h] = requests[h]
  <2> HIDE DEF m, f
  <2>1. m = Head(messages[h]) /\ m.type # "Error"  BY <1>2 DEF m
  <2> QED  BY <1>6, <2>1, HostAnswers
<1>8. /\ flow'.player = flow.player /\ flow'.room = flow.room
      /\ flow'.readyRequested = flow.readyRequested
      /\ flow'.startRequested = flow.startRequested
      /\ flow'.ticketReceived
      /\ flow' \in [player : PlayerId \cup {None}, room : {None, 1},
                    readyRequested : BOOLEAN, startRequested : BOOLEAN,
                    ticketReceived : BOOLEAN]
  BY <1>7 DEF RoomInv, ClientTypes
<1>9. Move(h) /\ ~Starts(h)
  <2>1. Reads(h)
    BY <1>2, <1>7, <1>8 DEF Reads, Keeps, Me, HasReadied
  <2>2. link'[h] = link[h]  BY <1>7 DEF Takes
  <2>3. ~Starts(h)  BY <1>8 DEF Starts
  <2> QED  BY <2>1, <2>2, <2>3 DEF Move
<1>10. FlowMoves  BY <1>1, <1>2, <1>3, <1>4, <1>8 DEF FlowMoves, FlowInv
<1> QED  BY <1>7, <1>9, <1>10, AnswerKeeps

LEMMA RoomListKeeps ==
    ASSUME RoomInv, HostReceives, Head(messages[HostConnection]).type = "RoomList"
    PROVE  RoomInv'
<1> DEFINE h == HostConnection  m == Head(messages[h])
<1>1. /\ FlowInv /\ TicketsFit /\ h \in Seat  BY RoomBounds DEF RoomInv
<1>2. 1 \in Inbox(h) /\ m = messages[h][1] /\ m.type = "RoomList"  BY HostIsInside
<1>3. flow.ticketReceived
  <2>1. ~\E j \in 1..(1 - 1) : TicketAt(j)  OBVIOUS
  <2> QED  BY <1>1, <1>2, <2>1 DEF TicketsFit
<1>4. Answer(m) = [flow |-> flow, command |-> "None"]
  <2>1. H!OnRoomList = [flow |-> flow, command |-> "None"]  BY <1>3 DEF H!OnRoomList
  <2> QED  BY <1>2, <2>1 DEF Answer
<1>5. HostTakes /\ Takes(h) /\ flow' = flow /\ requests'[h] = requests[h]
  <2> HIDE DEF m
  <2>1. m = Head(messages[h]) /\ m.type # "Error"  BY <1>2 DEF m
  <2> QED  BY <1>4, <2>1, HostAnswers
<1>6. Move(h) /\ ~Starts(h)
  <2>1. Reads(h)  BY <1>2, <1>5 DEF Reads, Keeps, Me, HasReadied
  <2>2. link'[h] = link[h]  BY <1>5 DEF Takes
  <2>3. ~Starts(h)  BY <1>5 DEF Starts
  <2> QED  BY <2>1, <2>2, <2>3 DEF Move
<1>7. FlowMoves  BY <1>1, <1>2, <1>5 DEF FlowMoves, FlowInv, RoomInv, ClientTypes
<1> QED  BY <1>5, <1>6, <1>7, AnswerKeeps

\* The host counts as everybody else.
LEMMA SameCardinality ==
    ASSUME NEW S
    PROVE  H!Cardinality(S) = Cardinality(S)
BY DEF H!Cardinality, Cardinality

LEMMA RoomKeeps ==
    ASSUME RoomInv, HostReceives, Head(messages[HostConnection]).type = "Room"
    PROVE  RoomInv'
<1> DEFINE h == HostConnection  m == Head(messages[h])  v == m.view
<1>1. /\ FlowInv /\ RoomsFit /\ WireTypes /\ h \in Seat /\ h \in ConnectionId
  BY RoomBounds DEF RoomInv
<1>2. /\ Inside(h) /\ flow.player # None /\ 1 \in Inbox(h) /\ m = messages[h][1]
      /\ m.type = "Room"
  BY HostIsInside
<1>3. ViewFits(v)  BY <1>1, <1>2 DEF RoomsFit
<1>4. /\ flow \in [player : PlayerId \cup {None}, room : {None, 1},
                   readyRequested : BOOLEAN, startRequested : BOOLEAN,
                   ticketReceived : BOOLEAN]
  BY DEF RoomInv, ClientTypes
<1>5. Answer(m) = H!OnRoomSnapshot(v)  BY <1>2 DEF Answer
<1>6. m = Head(messages[h]) /\ m.type # "Error"  BY <1>2
<1> HIDE DEF m, v
<1>7. /\ v.room = 1 /\ v.host = flow.player /\ flow.player \in v.members
      /\ v.members \subseteq Everyone /\ nextRoom = 2
      /\ flow.player \in v.ready => flow.readyRequested /\ ~Asked(h, "SetReady")
  BY <1>3 DEF ViewFits
<1>8. /\ IsFiniteSet(v.members) /\ Cardinality(v.members) \in Nat
      /\ Cardinality(v.members) <= Bots + 1
      /\ Cardinality(v.members) = Bots + 1 => v.members = Everyone
  <2>1. IsFiniteSet(Everyone) /\ Cardinality(Everyone) = Bots + 1
    BY FS_Interval, RoomBounds DEF Everyone
  <2>2. /\ IsFiniteSet(v.members) /\ Cardinality(v.members) <= Cardinality(Everyone)
        /\ Cardinality(v.members) = Cardinality(Everyone) => v.members = Everyone
    BY <1>7, <2>1, FS_Subset
  <2>3. Cardinality(v.members) \in Nat  BY <2>2, FS_CardinalityType
  <2> QED  BY <2>1, <2>2, <2>3
<1>9. ExpectedPlayers \in Nat /\ Bots + 1 <= ExpectedPlayers /\ Bots \in Nat
  BY HostedRoomAssumption, RoomSuffices, RoomBounds
<1>10. /\ H!Cardinality(v.members) = Cardinality(v.members)
       /\ ~(H!Cardinality(v.members) > ExpectedPlayers)
  BY <1>8, <1>9, SameCardinality
<1>11. ~H!Foreign(v)  BY <1>2, <1>4, <1>7, <1>10 DEF H!Foreign, H!Unset, None
<1> DEFINE in == [flow EXCEPT !.room = v.room]
           raised == [in EXCEPT !.readyRequested = TRUE]
           begun == [in EXCEPT !.startRequested = TRUE]
           all == Cardinality(v.members) = ExpectedPlayers
<1>12. Answer(m) =
         IF v.state # "Waiting" THEN [flow |-> in, command |-> "None"]
         ELSE IF flow.player \notin v.ready
         THEN [flow |-> raised,
               command |-> IF flow.readyRequested THEN "None" ELSE "SetReady"]
         ELSE IF all /\ v.members \subseteq v.ready /\ ~flow.startRequested
         THEN [flow |-> begun, command |-> "StartMatch"]
         ELSE [flow |-> in, command |-> "None"]
  BY <1>5, <1>7, <1>10, <1>11 DEF H!OnRoomSnapshot
<1>13. /\ in.player = flow.player /\ in.room = 1
       /\ in.readyRequested = flow.readyRequested
       /\ in.startRequested = flow.startRequested
       /\ in.ticketReceived = flow.ticketReceived
       /\ in \in [player : PlayerId \cup {None}, room : {None, 1},
                  readyRequested : BOOLEAN, startRequested : BOOLEAN,
                  ticketReceived : BOOLEAN]
  BY <1>4, <1>7
<1> HIDE DEF in
<1>14. /\ raised.player = flow.player /\ raised.room = 1
       /\ raised.readyRequested = TRUE
       /\ raised.startRequested = flow.startRequested
       /\ raised.ticketReceived = flow.ticketReceived
       /\ raised \in [player : PlayerId \cup {None}, room : {None, 1},
                  readyRequested : BOOLEAN, startRequested : BOOLEAN,
                  ticketReceived : BOOLEAN]
  BY <1>13
<1>15. /\ begun.player = flow.player /\ begun.room = 1
       /\ begun.readyRequested = flow.readyRequested
       /\ begun.startRequested = TRUE
       /\ begun.ticketReceived = flow.ticketReceived
       /\ begun \in [player : PlayerId \cup {None}, room : {None, 1},
                  readyRequested : BOOLEAN, startRequested : BOOLEAN,
                  ticketReceived : BOOLEAN]
  BY <1>13
<1> HIDE DEF raised, begun, all
<1>16. 1 # None  BY DEF None
<1>17. ASSUME Answer(m) = [flow |-> in, command |-> "None"] PROVE RoomInv'
  <2>1. HostTakes /\ Takes(h) /\ flow' = in /\ requests'[h] = requests[h]
    BY <1>6, <1>17, HostAnswers
  <2>2. Reads(h)
    BY <1>2, <1>13, <2>1 DEF Reads, Keeps, Me, HasReadied
  <2>3. Move(h)  BY <2>1, <2>2 DEF Move, Takes
  <2>4. ~Starts(h)  BY <1>13, <2>1 DEF Starts
  <2>5. FlowMoves  BY <1>1, <1>2, <1>7, <1>13, <1>16, <2>1 DEF FlowMoves, FlowInv
  <2> QED  BY <2>1, <2>3, <2>4, <2>5, AnswerKeeps
<1>18. ASSUME Answer(m) = [flow |-> raised, command |-> "None"], flow.readyRequested
       PROVE  RoomInv'
  <2>1. HostTakes /\ Takes(h) /\ flow' = raised /\ requests'[h] = requests[h]
    BY <1>6, <1>18, HostAnswers
  <2>2. Reads(h)
    BY <1>2, <1>14, <1>18, <2>1 DEF Reads, Keeps, Me, HasReadied
  <2>3. Move(h)  BY <2>1, <2>2 DEF Move, Takes
  <2>4. ~Starts(h)  BY <1>14, <2>1 DEF Starts
  <2>5. FlowMoves  BY <1>1, <1>2, <1>7, <1>14, <1>16, <2>1 DEF FlowMoves, FlowInv
  <2> QED  BY <2>1, <2>3, <2>4, <2>5, AnswerKeeps
<1>19. ASSUME Answer(m) = [flow |-> raised, command |-> "SetReady"], ~flow.readyRequested
       PROVE  RoomInv'
  <2>1. HostTakes /\ Takes(h) /\ flow' = raised
        /\ requests'[h] = IF link[h] = "Up" THEN Append(requests[h], "SetReady") ELSE requests[h]
    BY <1>6, <1>19, HostAnswers
  <2>2. requests[h] = <<>>
    BY <1>1, <1>2, <1>19 DEF Inside, HasReadied, FlowInv
  <2>3. Says(h, "SetReady")  BY <2>1, <2>2, SaysIt
  <2>4. Readies(h)
    BY <1>2, <1>14, <1>19, <2>1, <2>3 DEF Readies, Me, HasReadied
  <2>5. Move(h)  BY <2>1, <2>4 DEF Move, Takes
  <2>6. ~Starts(h)  BY <1>14, <2>1 DEF Starts
  <2>7. FlowMoves  BY <1>1, <1>2, <1>7, <1>14, <1>16, <2>1 DEF FlowMoves, FlowInv
  <2> QED  BY <2>1, <2>5, <2>6, <2>7, AnswerKeeps
<1>20. ASSUME Answer(m) = [flow |-> begun, command |-> "StartMatch"], flow.player \in v.ready,
              all, v.members \subseteq v.ready, ~flow.startRequested
       PROVE  RoomInv'
  <2>1. HostTakes /\ Takes(h) /\ flow' = begun
        /\ requests'[h] = IF link[h] = "Up" THEN Append(requests[h], "StartMatch") ELSE requests[h]
    BY <1>6, <1>20, HostAnswers
  <2>2. flow.readyRequested /\ requests[h] = <<>>
    BY <1>1, <1>2, <1>7, <1>20 DEF Inside, FlowInv
  <2>3. Says(h, "StartMatch")  BY <2>1, <2>2, SaysIt
  <2>4. nextMatch = 1  BY <1>1, <1>20 DEF FlowInv
  <2>5. Starts(h)
    BY <1>2, <1>15, <1>20, <2>1, <2>3, <2>4 DEF Starts, Me, HasReadied
  <2>6. Move(h)  BY <2>1, <2>5 DEF Move, Takes
  <2>7. FlowMoves  BY <1>1, <1>2, <1>7, <1>15, <1>16, <2>1, <2>2 DEF FlowMoves, FlowInv
  <2>8. ASSUME trouble = 0
        PROVE  Everyone \subseteq members[1] /\ Everyone \subseteq ready[1]
    <3>1. v.members = Everyone  BY <1>8, <1>9, <1>20 DEF all
    <3>2. v.members \subseteq members[1] /\ v.ready \subseteq ready[1]
      BY <1>2, <2>4, <2>8 DEF RoomInv, QuietInv, Grows, v
    <3> QED  BY <1>20, <3>1, <3>2
  <2> QED  BY <2>1, <2>6, <2>7, <2>8, AnswerKeeps
<1> QED  BY <1>12, <1>17, <1>18, <1>19, <1>20

\* The lobby thread of the controller takes a message of any kind.
LEMMA ReceiveKeeps ==
    ASSUME RoomInv, HostReceives
    PROVE  RoomInv'
<1> DEFINE h == HostConnection
<1>1. h \in Seat /\ h \in ConnectionId /\ WireTypes  BY RoomBounds DEF RoomInv
<1>2. messages[h] # <<>>  BY DEF HostReceives
<1>3. Head(messages[h]) \in Note
  <2>1. messages[h] \in Seq(Note)  BY <1>1 DEF WireTypes
  <2> QED  BY <1>2, <2>1, HeadTailProperties
<1>4. Head(messages[h]).type \in {"Welcome", "Room", "Ticket", "Error", "RoomList"}
  BY <1>3 DEF Note
<1> QED  BY <1>4, WelcomeKeeps, RoomKeeps, TicketKeeps, RoomListKeeps, ErrorKeeps

-----------------------------------------------------------------------------
(* The bots' own steps. *)

\* The bots go on and say nothing.
LEMMA BotsWork ==
    ASSUME RoomInv, UNCHANGED <<lobbyVars, hostVars, requests, messages, link>>, BotsTyped',
           \A b \in 1..Bots : /\ bot'[b].player = bot[b].player
                              /\ bot'[b].readySent = bot[b].readySent
                              /\ bot'[b].game # "None" => bot[b].game # "None"
                              /\ bot'[b].game \in Playing => bot'[b].ticket = 1
                              /\ bot'[b].game = "Finished" => bot'[b].result = TheResult
                              /\ trouble' = 0 /\ bot[b].game # "Failed" =>
                                     bot'[b].game # "Failed",
           co'.ticking = co.ticking, co'.done = co.done, co'.why = co.why,
           co.started => co'.started, co'.started => flow.room # None,
           moving' # None => co.ticking,
           trouble' \in Nat, trouble <= trouble',
           trouble' = 0 => /\ lobbyTimer' = "Fired" => lobbyTimer = "Fired"
                           /\ gameTimer' = "Fired" => gameTimer = "Fired"
    PROVE  RoomInv'
<1>1. flow' = flow /\ UNCHANGED <<hostFailed, hostStop>>  BY DEF hostVars
<1>2. ClientSide /\ Rests(HostConnection)  BY <1>1, BotsOnly, RoomBounds
<1>3. UNCHANGED <<nextConnection, nextMatch, pending>>  BY DEF lobbyVars, counters, matchVars
<1>4. GamesOk'  BY <1>3 DEF RoomInv, GamesFit, GamesOk, Begun
<1>5. ASSUME trouble' = 0 PROVE Unharmed'
  <2>1. Quiet  BY <1>5 DEF RoomInv, QuietInv, WireTypes
  <2> QED  BY <1>1, <1>3, <1>5, <2>1 DEF Quiet, Unharmed, Begun, Seat
<1> QED  BY <1>2, <1>4, <1>5, BotsKeep

LEMMA BotsStartKeeps ==
    ASSUME RoomInv, BotsStart
    PROVE  RoomInv'
<1>1. /\ flow.room # None /\ ~co.started /\ co' = [co EXCEPT !.started = TRUE]
      /\ lobbyTimer' = "Armed" /\ UNCHANGED <<play, bot, gameTimer, moving>>
      /\ UNCHANGED <<lobbyVars, hostVars, requests, messages, link, trouble>>
  BY DEF BotsStart, B!Start, wires
<1>2. BotsTyped /\ trouble \in Nat  BY BotsAreTyped DEF RoomInv, WireTypes
<1>3. /\ co' \in CoRecord /\ co'.ticking = co.ticking /\ co'.done = co.done
      /\ co'.why = co.why /\ co'.started
  BY <1>1, <1>2 DEF BotsTyped, CoRecord
<1>4. BotsTyped'
  BY <1>1, <1>2, <1>3 DEF BotsTyped, BotRecord, CoRecord, B!GameState
<1>5. moving' # None => co.ticking  BY <1>1 DEF RoomInv, GamesFit
<1>6. \A b \in 1..Bots :
          /\ bot'[b].game \in Playing => bot'[b].ticket = 1
          /\ bot'[b].game = "Finished" => bot'[b].result = TheResult
  BY <1>1 DEF RoomInv, GamesFit
<1> QED  BY <1>1, <1>2, <1>3, <1>4, <1>5, <1>6, BotsWork

LEMMA SessionsKeep ==
    ASSUME RoomInv, NEW b \in 1..Bots, BotSessions(b)
    PROVE  RoomInv'
<1>1. /\ UNCHANGED <<play, co, lobbyTimer, gameTimer, moving>>
      /\ UNCHANGED <<lobbyVars, hostVars, requests, messages, link>>
      /\ bot[b].game \in {"Connecting", "Running"}
  BY DEF BotSessions, B!SessionMoves, B!SessionFails, wires
<1>2. BotsTyped /\ GamesFit /\ LinkInv /\ trouble \in Nat
  BY BotsAreTyped DEF RoomInv, WireTypes
<1>10. bot \in [1..Bots -> BotRecord] /\ bot[b] \in BotRecord  BY <1>2 DEF BotsTyped
<1>3. PICK g \in {"Running", "Finished", "Failed"}, v \in Results :
        /\ bot' = [bot EXCEPT ![b].game = g, ![b].result = v]
        /\ IF g = "Failed" THEN Troubles ELSE trouble' = trouble
        /\ g = "Finished" => bot[b].ticket = 1 /\ v = TheResult
  <2>1. ASSUME NEW g \in {"Running", "Failed"}, bot' = [bot EXCEPT ![b].game = g]
        PROVE  bot' = [bot EXCEPT ![b].game = g, ![b].result = bot[b].result]
    <3>1. [bot[b] EXCEPT !.game = g] = [bot[b] EXCEPT !.game = g, !.result = bot[b].result]
      BY <1>10 DEF BotRecord
    <3> QED  BY <1>10, <2>1, <3>1
  <2>2. bot[b].result \in Results  BY <1>10 DEF BotRecord
  <2>3. CASE B!SessionFails(b) /\ Troubles
    <3>1. bot' = [bot EXCEPT ![b].game = "Failed"]  BY <2>3 DEF B!SessionFails
    <3> QED  BY <2>1, <2>2, <2>3, <3>1
  <2>4. CASE bot' = [bot EXCEPT ![b].game = "Running"] /\ trouble' = trouble
    BY <2>1, <2>2, <2>4
  <2>5. ASSUME NEW o \in IF bot[b].ticket \in over THEN {1} ELSE {}, trouble' = trouble,
               bot' = [bot EXCEPT ![b].game = "Finished",
                                  ![b].result = B!Result(bot[b].ticket, o)]
        PROVE  \E g \in {"Running", "Finished", "Failed"}, v \in Results :
                  /\ bot' = [bot EXCEPT ![b].game = g, ![b].result = v]
                  /\ IF g = "Failed" THEN Troubles ELSE trouble' = trouble
                  /\ g = "Finished" => bot[b].ticket = 1 /\ v = TheResult
    <3>1. o = 1 /\ bot[b].ticket \in over  BY <2>5
    <3>2. bot[b].ticket = 1  BY <1>1, <1>2 DEF GamesFit, Playing
    <3>3. B!Result(bot[b].ticket, o) = TheResult  BY <3>1, <3>2 DEF TheResult
    <3>4. TheResult \in Results  BY DEF Results
    <3> QED  BY <2>5, <3>2, <3>3, <3>4
  <2> QED  BY <2>3, <2>4, <2>5 DEF BotSessions, B!SessionMoves
<1>4. /\ trouble' \in Nat /\ trouble <= trouble' /\ (g = "Failed" => trouble' # 0)
  BY <1>2, <1>3 DEF Troubles
<1>5. g \in B!GameState  BY DEF B!GameState
<1>6. /\ bot' \in [1..Bots -> BotRecord]
      /\ \A a \in 1..Bots : /\ bot'[a].player = bot[a].player
                            /\ bot'[a].readySent = bot[a].readySent
                            /\ bot'[a].game = IF a = b THEN g ELSE bot[a].game
                            /\ bot'[a].ticket = bot[a].ticket
                            /\ bot'[a].result = IF a = b THEN v ELSE bot[a].result
  <2>1. bot \in [1..Bots -> BotRecord]  BY <1>2 DEF BotsTyped
  <2>2. ASSUME NEW a \in 1..Bots
        PROVE  /\ bot'[a] \in BotRecord /\ bot'[a].player = bot[a].player
               /\ bot'[a].readySent = bot[a].readySent
               /\ bot'[a].game = IF a = b THEN g ELSE bot[a].game
               /\ bot'[a].ticket = bot[a].ticket
               /\ bot'[a].result = IF a = b THEN v ELSE bot[a].result
    <3>1. bot'[a] = IF a = b THEN [bot[a] EXCEPT !.game = g, !.result = v] ELSE bot[a]
      BY <1>3, <2>1
    <3>2. bot[a] \in BotRecord  BY <2>1
    <3> QED  BY <1>5, <3>1, <3>2 DEF BotRecord
  <2>3. bot' = [a \in 1..Bots |-> bot'[a]]  BY <1>3, <2>1
  <2> QED  BY <2>2, <2>3
<1>7. BotsTyped'  BY <1>1, <1>2, <1>6 DEF BotsTyped, BotRecord, CoRecord, B!GameState
<1>8. (moving' # None => co.ticking) /\ (co'.started => flow.room # None)
  BY <1>1, <1>2 DEF GamesFit, LinkInv
<1>9. \A a \in 1..Bots : /\ bot'[a].game # "None" => bot[a].game # "None"
                         /\ bot'[a].game \in Playing => bot'[a].ticket = 1
                         /\ bot'[a].game = "Finished" => bot'[a].result = TheResult
                         /\ trouble' = 0 /\ bot[a].game # "Failed" => bot'[a].game # "Failed"
  BY <1>1, <1>2, <1>3, <1>4, <1>6 DEF GamesFit, Playing
<1> QED  BY <1>1, <1>2, <1>4, <1>6, <1>7, <1>8, <1>9, BotsWork

\* The exit codes that Fail and Timeout set change nothing else of a bot.
LEMMA UnfinishedAre ==
    ASSUME BotsTyped, NEW code \in Nat
    PROVE  /\ B!SetUnfinished(code) \in [1..Bots -> BotRecord]
           /\ \A b \in 1..Bots : /\ B!SetUnfinished(code)[b].player = bot[b].player
                                 /\ B!SetUnfinished(code)[b].readySent = bot[b].readySent
                                 /\ B!SetUnfinished(code)[b].game = bot[b].game
<1> DEFINE f == B!SetUnfinished(code)
<1>1. f = [b \in 1..Bots |-> IF bot[b].finished THEN bot[b] ELSE [bot[b] EXCEPT !.exit = code]]
  BY DEF B!SetUnfinished, B!Bot
<1>2. ASSUME NEW b \in 1..Bots
      PROVE  /\ f[b] \in BotRecord /\ f[b].player = bot[b].player
             /\ f[b].readySent = bot[b].readySent /\ f[b].game = bot[b].game
  <2>1. f[b] = IF bot[b].finished THEN bot[b] ELSE [bot[b] EXCEPT !.exit = code]  BY <1>1
  <2>2. bot[b] \in BotRecord  BY DEF BotsTyped
  <2> HIDE DEF f
  <2> QED  BY <2>1, <2>2 DEF BotRecord
<1> QED  BY <1>1, <1>2

LEMMA FailKeeps ==
    ASSUME RoomInv, NEW why \in {"Error", "Closed", "Session", "Destination"},
           B!Fail(why), BotsClose, UNCHANGED <<lobbyVars, hostVars, requests, trouble>>,
           trouble = 0 => why = "Destination" /\ co.ticking
    PROVE  RoomInv'
<1>1. B!Shutdown(3, why, B!SetUnfinished(3), co.result)  BY DEF B!Fail
<1>2. BotsTyped /\ trouble \in Nat /\ co.result \in Results
  BY BotsAreTyped DEF RoomInv, WireTypes, BotsTyped, CoRecord
<1> DEFINE codes == B!SetUnfinished(3)
<1>3. /\ codes \in [1..Bots -> BotRecord]
      /\ \A b \in 1..Bots : /\ codes[b].player = bot[b].player
                            /\ codes[b].readySent = bot[b].readySent
                            /\ codes[b].game = bot[b].game
  BY <1>2, UnfinishedAre
<1>4. B!Shutdown(3, why, codes, co.result)  BY <1>1
<1> HIDE DEF codes
<1>5. /\ trouble' \in Nat /\ trouble <= trouble'
      /\ trouble' = 0 => why \in {"Results", "Destination"} /\ co.ticking
  BY <1>2
<1>6. /\ 3 \in Nat
      /\ why \in {"None", "Results", "Destination", "Stopped", "Timeout", "Error", "Closed",
                  "Session"}
  OBVIOUS
<1> QED  BY <1>2, <1>3, <1>4, <1>5, <1>6, ShutdownKeeps

LEMMA StopKeeps ==
    ASSUME RoomInv, BotsStop
    PROVE  RoomInv'
<1>1. BotsTyped /\ trouble \in Nat  BY BotsAreTyped DEF RoomInv, WireTypes
<1>2. /\ B!Shutdown(co.exit, "Stopped", bot, co.result) /\ BotsClose
      /\ UNCHANGED <<lobbyVars, hostVars, requests>> /\ trouble' = trouble + 1
  BY DEF BotsStop, B!StopBots, Troubles
<1>3. bot \in [1..Bots -> BotRecord] /\ co.exit \in Nat /\ co.result \in Results
  BY <1>1 DEF BotsTyped, CoRecord
<1>4. trouble' \in Nat /\ trouble <= trouble' /\ trouble' # 0  BY <1>1, <1>2
<1> QED  BY <1>2, <1>3, <1>4, ShutdownKeeps

LEMMA TimersKeep ==
    ASSUME RoomInv, BotTimers
    PROVE  RoomInv'
<1>1. BotsTyped /\ GamesFit /\ LinkInv /\ trouble \in Nat
  BY BotsAreTyped DEF RoomInv, WireTypes
<1>2. /\ BotsClose /\ UNCHANGED <<lobbyVars, hostVars, requests>>
      /\ \/ /\ UNCHANGED <<play, bot, co, moving>>
            /\ trouble' = IF trouble = 0 THEN 1 ELSE trouble
         \/ B!TimerRuns /\ UNCHANGED trouble
  BY DEF BotTimers, B!LobbyTimerExpires, B!GameTimerExpires
<1>3. CASE UNCHANGED <<play, bot, co, moving>> /\ trouble' = IF trouble = 0 THEN 1 ELSE trouble
  <2>1. trouble' \in Nat /\ trouble <= trouble' /\ trouble' # 0  BY <1>1, <1>3
  <2>2. UNCHANGED <<messages, link>>  BY <1>2, <1>3 DEF BotsClose
  <2>3. BotsTyped'  BY <1>1, <1>3 DEF BotsTyped, BotRecord, CoRecord, B!GameState
  <2>4. (moving' # None => co.ticking) /\ (co'.started => flow.room # None)
    BY <1>1, <1>3 DEF GamesFit, LinkInv
  <2>5. \A b \in 1..Bots :
        /\ bot'[b].game \in Playing => bot'[b].ticket = 1
        /\ bot'[b].game = "Finished" => bot'[b].result = TheResult
    BY <1>1, <1>3 DEF GamesFit
  <2> QED  BY <1>2, <1>3, <2>1, <2>2, <2>3, <2>4, <2>5, BotsWork
<1>4. CASE B!TimerRuns /\ UNCHANGED trouble
  <2> DEFINE codes == B!SetUnfinished(4)
  <2>1. B!Shutdown(4, "Timeout", codes, co.result) /\ "Fired" \in {lobbyTimer, gameTimer}
    BY <1>4 DEF B!TimerRuns, B!Timeout
  <2>2. /\ codes \in [1..Bots -> BotRecord]
        /\ \A b \in 1..Bots : /\ codes[b].player = bot[b].player
                              /\ codes[b].readySent = bot[b].readySent
                              /\ codes[b].game = bot[b].game
    BY <1>1, UnfinishedAre
  <2>3. trouble # 0  BY <2>1 DEF RoomInv, QuietInv, Quiet
  <2>4. trouble' \in Nat /\ trouble <= trouble' /\ trouble' # 0  BY <1>1, <1>4, <2>3
  <2>5. co.result \in Results  BY <1>1 DEF BotsTyped, CoRecord
  <2> HIDE DEF codes
  <2> QED  BY <1>2, <2>1, <2>2, <2>4, <2>5, ShutdownKeeps
<1> QED  BY <1>2, <1>3, <1>4

LEMMA BotNoticeKeeps ==
    ASSUME RoomInv, NEW b \in 1..Bots, BotNotices(b)
    PROVE  RoomInv'
<1>1. play = TRUE  BY DEF RoomInv, ClientTypes
<1>2. /\ link[BotConnection(b)] = "Cut" /\ ~co.done /\ BotsClose
      /\ UNCHANGED <<lobbyVars, hostVars, requests, trouble>>
  BY DEF BotNotices, B!Ready
<1>3. B!Fail("Closed")  BY <1>1 DEF BotNotices, B!LobbyClosed
<1>4. trouble # 0
  <2>1. BotConnection(b) \in Seat  BY RoomBounds
  <2> QED  BY <1>2, <2>1 DEF RoomInv, QuietInv, Quiet
<1> QED  BY <1>2, <1>3, <1>4, FailKeeps

\* GameTick at a bot whose session has ended, still runs or has failed.
LEMMA TicksKeep ==
    ASSUME RoomInv, BotTicks
    PROVE  RoomInv'
<1>1. BotsTyped /\ GamesFit /\ LinkInv /\ trouble \in Nat
  BY BotsAreTyped DEF RoomInv, WireTypes
<1>2. BotsClose /\ UNCHANGED <<lobbyVars, hostVars, requests, trouble>>
  BY DEF BotTicks
<1>3. ASSUME UNCHANGED <<play, bot, co, lobbyTimer, gameTimer>>, moving' \in 0..Bots,
             moving' # None => co.ticking
      PROVE  RoomInv'
  <2>1. UNCHANGED <<messages, link>>  BY <1>2, <1>3 DEF BotsClose
  <2>2. BotsTyped'  BY <1>1, <1>3 DEF BotsTyped, BotRecord, CoRecord, B!GameState
  <2>3. co'.started => flow.room # None  BY <1>1, <1>3 DEF LinkInv
  <2>4. \A b \in 1..Bots :
        /\ bot'[b].game \in Playing => bot'[b].ticket = 1
        /\ bot'[b].game = "Finished" => bot'[b].result = TheResult
    BY <1>1, <1>3 DEF GamesFit
  <2> QED  BY <1>1, <1>2, <1>3, <2>1, <2>2, <2>3, <2>4, BotsWork
<1>4. CASE B!TickSetsDestination
  <2>1. moving # None /\ co.ticking
    BY <1>1, <1>4 DEF B!TickSetsDestination, B!Unset, None, GamesFit
  <2>2. CASE bot[moving].game = "Running"
    <3>1. moving' = 0 /\ UNCHANGED <<play, bot, co, lobbyTimer, gameTimer>>
      BY <1>4, <2>2 DEF B!TickSetsDestination, B!Unset
    <3>2. 0 \in 0..Bots  BY RoomBounds
    <3> QED  BY <1>3, <2>1, <3>1, <3>2
  <2>3. CASE bot[moving].game # "Running"
    <3>1. B!Fail("Destination")  BY <1>4, <2>3 DEF B!TickSetsDestination
    <3> QED  BY <1>2, <2>1, <3>1, FailKeeps
  <2> QED  BY <2>2, <2>3
<1>5. ASSUME NEW b \in 1..Bots, B!TickBot(b) PROVE RoomInv'
  <2>1. bot[b] \in BotRecord  BY <1>1 DEF BotsTyped
  <2>2. bot[b].game # "None" => co.ticking  BY <1>1 DEF GamesFit
  <2>3. CASE bot[b].game = "Running"
    <3>1. moving' = b /\ UNCHANGED <<play, bot, co, lobbyTimer, gameTimer>>
      BY <1>5, <2>3 DEF B!TickBot
    <3>2. b \in 0..Bots  BY RoomBounds
    <3> QED  BY <1>3, <2>2, <2>3, <3>1, <3>2
  <2>4. CASE bot[b].game = "Finished"
    <3> DEFINE done == [bot EXCEPT ![b].finished = TRUE, ![b].exit = 0]
    <3>1. /\ done \in [1..Bots -> BotRecord]
          /\ \A a \in 1..Bots : /\ done[a].player = bot[a].player
                                /\ done[a].readySent = bot[a].readySent
                                /\ done[a].game = bot[a].game
                                /\ done[a].ticket = bot[a].ticket
                                /\ done[a].result = bot[a].result
      <4>1. bot \in [1..Bots -> BotRecord]  BY <1>1 DEF BotsTyped
      <4>2. done = [bot EXCEPT ![b] = [bot[b] EXCEPT !.finished = TRUE, !.exit = 0]]
        BY <4>1
      <4>3. /\ [bot[b] EXCEPT !.finished = TRUE, !.exit = 0] \in BotRecord
            /\ [bot[b] EXCEPT !.finished = TRUE, !.exit = 0].player = bot[b].player
            /\ [bot[b] EXCEPT !.finished = TRUE, !.exit = 0].readySent = bot[b].readySent
            /\ [bot[b] EXCEPT !.finished = TRUE, !.exit = 0].game = bot[b].game
            /\ [bot[b] EXCEPT !.finished = TRUE, !.exit = 0].ticket = bot[b].ticket
            /\ [bot[b] EXCEPT !.finished = TRUE, !.exit = 0].result = bot[b].result
        BY <2>1 DEF BotRecord
      <4> HIDE DEF done
      <4> DEFINE one == [bot[b] EXCEPT !.finished = TRUE, !.exit = 0]
      <4> HIDE DEF one
      <4>4. /\ done = [bot EXCEPT ![b] = one] /\ one \in BotRecord
            /\ one.player = bot[b].player /\ one.readySent = bot[b].readySent
            /\ one.game = bot[b].game /\ one.ticket = bot[b].ticket
            /\ one.result = bot[b].result
        BY <4>2, <4>3 DEF one
      <4> QED  BY <4>1, <4>4
    <3>5. bot[b].ticket = 1 /\ bot[b].result = TheResult /\ TheResult \in Results
      BY <1>1, <2>4 DEF GamesFit, Results, Playing
    <3>6. ~B!Disagrees(b)
      <4>1. TheResult.match = 1  BY DEF TheResult, B!Result
      <4>2. co.result \in {B!NoResult, TheResult}  BY <1>1 DEF BotsTyped, CoRecord, Results
      <4> QED  BY <3>5, <4>1, <4>2 DEF B!Disagrees
    <3>2. \/ B!Shutdown(0, "Results", done, TheResult)
          \/ /\ bot' = done
             /\ co' = [co EXCEPT !.sessions = @ + 1, !.result = TheResult]
             /\ UNCHANGED <<play, lobbyTimer, gameTimer, moving>>
      BY <1>5, <2>4, <3>5, <3>6 DEF B!TickBot, B!FinishGame, B!CountSession
    <3> HIDE DEF done
    <3>3. CASE B!Shutdown(0, "Results", done, TheResult)
      <4>1. co.ticking /\ trouble' = trouble /\ trouble' \in Nat /\ trouble <= trouble'
        BY <1>1, <1>2, <2>2, <2>4
      <4>2. "Results" \in {"None", "Results", "Destination", "Stopped", "Timeout", "Error",
                           "Closed", "Session"} /\ 0 \in Nat
        OBVIOUS
      <4> QED  BY <1>2, <3>1, <3>3, <3>5, <4>1, <4>2, ShutdownKeeps
    <3>4. CASE /\ bot' = done
               /\ co' = [co EXCEPT !.sessions = @ + 1, !.result = TheResult]
               /\ UNCHANGED <<play, lobbyTimer, gameTimer, moving>>
      <4>1. /\ co' \in CoRecord /\ co'.ticking = co.ticking /\ co'.done = co.done
            /\ co'.why = co.why /\ co'.started = co.started
        <5>1. co \in CoRecord /\ co.sessions + 1 \in Nat  BY <1>1 DEF BotsTyped, CoRecord
        <5> QED  BY <3>4, <3>5, <5>1 DEF CoRecord
      <4>2. UNCHANGED <<messages, link>>  BY <1>2, <4>1 DEF BotsClose
      <4>3. BotsTyped'
        BY <1>1, <3>1, <3>4, <4>1 DEF BotsTyped, BotRecord, CoRecord, B!GameState
      <4>4. (moving' # None => co.ticking) /\ (co'.started => flow.room # None)
        BY <1>1, <3>4, <4>1 DEF GamesFit, LinkInv
      <4>5. \A a \in 1..Bots :
            /\ bot'[a].game \in Playing => bot'[a].ticket = 1
            /\ bot'[a].game = "Finished" => bot'[a].result = TheResult
        BY <1>1, <3>1, <3>4 DEF GamesFit
      <4> QED  BY <1>1, <1>2, <3>1, <3>4, <4>1, <4>2, <4>3, <4>4, <4>5, BotsWork
    <3> QED  BY <3>2, <3>3, <3>4
  <2>5. CASE bot[b].game = "Failed"
    <3>1. B!Fail("Session")  BY <1>5, <2>5 DEF B!TickBot
    <3>2. trouble # 0  BY <2>5 DEF RoomInv, QuietInv, Quiet
    <3> QED  BY <1>2, <3>1, <3>2, FailKeeps
  <2> QED  BY <1>5, <2>3, <2>4, <2>5 DEF B!TickBot
<1> QED  BY <1>4, <1>5 DEF BotTicks

-----------------------------------------------------------------------------
(* The bots' messages. *)

\* Bot b takes its next message, and no other bot learns of it.
BotTakes(b) ==
    /\ UNCHANGED <<lobbyVars, hostVars, link, trouble>>
    /\ messages[BotConnection(b)] # <<>>
    /\ messages' = [messages EXCEPT ![BotConnection(b)] = Tail(@)]
    /\ DOMAIN requests' = ConnectionId
    /\ \A d \in ConnectionId : d # BotConnection(b) => requests'[d] = requests[d]
    /\ \A a \in 1..Bots : a # b => bot'[a] = bot[a]

LEMMA BotTakesIt ==
    ASSUME RoomInv, NEW b \in 1..Bots, BotTakes(b)
    PROVE  Takes(BotConnection(b))
<1>1. BotConnection(b) \in ConnectionId  BY RoomBounds
<1> QED  BY <1>1 DEF BotTakes, Takes, RoomInv, WireTypes

LEMMA BotMoves ==
    ASSUME RoomInv, NEW b \in 1..Bots, BotTakes(b), Move(BotConnection(b)),
           BotsTyped', GamesOk',
           co'.started = co.started, co'.done = co.done, co'.why = co.why,
           lobbyTimer' = "Fired" => lobbyTimer = "Fired",
           gameTimer' = "Fired" => gameTimer = "Fired",
           bot'[b].game = "Failed" => bot[b].game = "Failed"
    PROVE  RoomInv'
<1> DEFINE k == BotConnection(b)  h == HostConnection
<1>1. /\ WireTypes /\ LinkInv /\ k \in Seat /\ h \in Seat /\ k # h /\ k - 1 = b
      /\ \A c \in Seat : c \in ConnectionId
  BY RoomBounds DEF RoomInv
<1> HIDE DEF k
<1>2. ASSUME NEW c \in ConnectionId PROVE messages'[c] \in Seq(Note) /\ link'[c] = link[c]
  <2>1. messages[c] \in Seq(Note) /\ messages[k] \in Seq(Note)  BY <1>1 DEF WireTypes
  <2>2. Tail(messages[k]) \in Seq(Note)  BY <2>1, HeadTailProperties DEF BotTakes, k
  <2> QED  BY <1>1, <2>1, <2>2 DEF BotTakes, WireTypes, k
<1>3. ASSUME NEW c \in Seat PROVE Move(c) /\ (c = h => Rests(c))
  <2>1. CASE c = k  BY <1>1, <2>1 DEF k
  <2>2. CASE c # k
    <3>1. c = h \/ (c # h /\ c - 1 \in 1..Bots)  BY SeatIs
    <3>2. c # h => c - 1 # b
      <4>1. c \in Nat /\ k \in Nat  BY <1>1, RoomBounds DEF Seat
      <4> QED  BY <1>1, <2>2, <4>1
    <3>3. Me(c)' = Me(c) /\ HasReadied(c)' = HasReadied(c)
      BY <3>1, <3>2 DEF Me, HasReadied, BotTakes, hostVars
    <3>4. requests'[c] = requests[c]  BY <1>1, <2>2 DEF BotTakes, k
    <3>5. messages'[c] = messages[c]  BY <1>1, <2>2 DEF BotTakes, WireTypes, k
    <3> QED  BY <1>1, <1>2, <3>3, <3>4, <3>5 DEF Move, Rests, Keeps
  <2> QED  BY <2>1, <2>2
<1>4. ClientSide
  <2>1. messages' = [c \in ConnectionId |-> messages'[c]]  BY <1>1 DEF BotTakes, WireTypes
  <2>2. messages' \in [ConnectionId -> Seq(Note)]  BY <1>2, <2>1
  <2>3. trouble' = trouble /\ trouble \in Nat /\ link' = link  BY <1>1 DEF BotTakes, WireTypes
  <2> QED  BY <1>1, <1>3, <2>2, <2>3 DEF ClientSide, BotTakes, WireTypes
<1>5. ASSUME trouble' = 0 PROVE Unharmed'
  <2>1. UNCHANGED <<trouble, link, hostFailed, hostStop, nextConnection, nextMatch, pending>>
    BY DEF BotTakes, hostVars, lobbyVars, counters, matchVars
  <2>2. Quiet  BY <1>5, <2>1 DEF RoomInv, QuietInv
  <2>3. \A a \in 1..Bots : bot'[a].game # "Failed"  BY <2>2 DEF Quiet, BotTakes
  <2> QED  BY <2>1, <2>2, <2>3 DEF Quiet, Unharmed, Begun, Seat
<1>6. co'.started => flow.room # None  BY <1>1 DEF LinkInv
<1>7. Rests(h) /\ UNCHANGED hostVars  BY <1>1, <1>3 DEF BotTakes
<1> QED  BY <1>4, <1>5, <1>6, <1>7, BotsKeep

\* What the handlers of Message have in common.
LEMMA BotHears ==
    ASSUME RoomInv, NEW b \in 1..Bots, BotReceives(b)
    PROVE  LET c == BotConnection(b)
           IN  /\ c \in Seat /\ c # HostConnection /\ c - 1 = b /\ c \in ConnectionId
               /\ messages[c] # <<>> /\ 1 \in Inbox(c) /\ Head(messages[c]) = messages[c][1]
               /\ co.started /\ ~co.done /\ moving = 0
               /\ UNCHANGED <<lobbyVars, hostVars, trouble>>
               /\ Head(messages[c]) \in Note
<1> DEFINE c == BotConnection(b)
<1>1. WireTypes /\ c \in Seat /\ c # HostConnection /\ c - 1 = b /\ c \in ConnectionId
  BY RoomBounds DEF RoomInv
<1>2. /\ messages[c] # <<>> /\ UNCHANGED <<lobbyVars, hostVars, trouble>> /\ B!Ready
  BY DEF BotReceives
<1>3. 1 \in Inbox(c)  BY <1>1, <1>2, StageOf
<1>4. Head(messages[c]) = messages[c][1]  BY <1>2
<1>5. Head(messages[c]) \in Note  BY <1>1, <1>3, <1>4, InboxType
<1> QED  BY <1>1, <1>2, <1>3, <1>4, <1>5 DEF B!Ready, B!Unset

\* A message that does not end the bots.
LEMMA BotGoesOn ==
    ASSUME RoomInv, NEW b \in 1..Bots, BotReceives(b), ~co'.done,
           \A a \in 1..Bots : a # b => bot'[a] = bot[a],
           NEW m, m = Head(messages[BotConnection(b)])
    PROVE  /\ BotTakes(b) /\ Takes(BotConnection(b))
           /\ requests' = requests \/ Asks(BotConnection(b), "JoinRoom")
                          \/ Asks(BotConnection(b), "SetReady")
           /\ m.type = "Welcome" => Asks(BotConnection(b), "JoinRoom")
           /\ m.type = "Room" => IF B!MustReady(b, m.view) THEN Asks(BotConnection(b), "SetReady")
                                 ELSE requests' = requests
           /\ m.type \notin {"Welcome", "Room"} => requests' = requests
<1> DEFINE c == BotConnection(b)
<1>1. WireTypes /\ c \in ConnectionId  BY BotHears DEF RoomInv
<1>2. /\ messages[c] # <<>> /\ UNCHANGED <<lobbyVars, hostVars, trouble, link>>
      /\ messages' = [messages EXCEPT ![c] = Tail(@)]
  BY BotHears DEF BotReceives
<1>3. IF m.type = "Welcome" THEN Asks(c, "JoinRoom")
      ELSE IF m.type = "Room" /\ B!MustReady(b, m.view) THEN Asks(c, "SetReady")
      ELSE UNCHANGED requests
  BY DEF BotReceives
<1>4. requests' = requests \/ Asks(c, "JoinRoom") \/ Asks(c, "SetReady")  BY <1>3
<1>5. /\ DOMAIN requests' = ConnectionId
      /\ \A d \in ConnectionId : d # c => requests'[d] = requests[d]
  BY <1>1, <1>4 DEF WireTypes, Asks
<1>6. BotTakes(b)  BY <1>2, <1>5 DEF BotTakes
<1>7. Takes(c)  BY <1>6, BotTakesIt
<1> QED  BY <1>3, <1>4, <1>6, <1>7

LEMMA AsksIt ==
    ASSUME WireTypes, NEW c \in ConnectionId, NEW q, Asks(c, q), requests[c] = <<>>
    PROVE  Says(c, q)
<1>1. requests'[c] = IF link[c] = "Up" THEN Append(requests[c], q) ELSE requests[c]
  BY DEF Asks, WireTypes
<1> QED  BY <1>1, SaysIt

LEMMA BotBecomes ==
    ASSUME BotsTyped, NEW b \in 1..Bots, NEW r \in BotRecord, bot' = [bot EXCEPT ![b] = r]
    PROVE  /\ bot' \in [1..Bots -> BotRecord] /\ bot'[b] = r
           /\ \A a \in 1..Bots : a # b => bot'[a] = bot[a]
BY DEF BotsTyped

\* A bot whose message changes nothing, or only what it reads of it.
LEMMA BotOnlyReads ==
    ASSUME RoomInv, NEW b \in 1..Bots, BotReceives(b),
           Head(messages[BotConnection(b)]).type # "Welcome",
           UNCHANGED botVars,
           Head(messages[BotConnection(b)]).type = "Room" =>
               ~B!MustReady(b, Head(messages[BotConnection(b)]).view)
    PROVE  RoomInv'
<1> DEFINE c == BotConnection(b)  m == Head(messages[c])
<1>1. UNCHANGED <<bot, co, moving, lobbyTimer, gameTimer, play>>  BY DEF botVars
<1>2. /\ c # HostConnection /\ c - 1 = b /\ ~co.done /\ m = messages[c][1]
      /\ UNCHANGED lobbyVars
  BY BotHears
<1>3. BotTakes(b) /\ Takes(c) /\ requests' = requests
  <2>1. m = Head(messages[BotConnection(b)]) /\ m.type # "Welcome"
        /\ (m.type = "Room" => ~B!MustReady(b, m.view))
    OBVIOUS
  <2>2. ~co'.done /\ \A a \in 1..Bots : a # b => bot'[a] = bot[a]  BY <1>1, <1>2
  <2> HIDE DEF m
  <2> QED  BY <2>1, <2>2, BotGoesOn
<1>4. Move(c)
  <2>1. Reads(c)  BY <1>1, <1>2, <1>3 DEF Reads, Keeps, Me, HasReadied
  <2> QED  BY <1>3, <2>1 DEF Move, Takes
<1>5. BotsTyped'
  BY <1>1, BotsAreTyped DEF BotsTyped, BotRecord, CoRecord, B!GameState, RoomInv
<1>6. GamesOk'
  BY <1>1, <1>2 DEF RoomInv, GamesFit, GamesOk, Begun, lobbyVars, counters, matchVars
<1> QED  BY <1>1, <1>3, <1>4, <1>5, <1>6, BotMoves

LEMMA BotWelcomeKeeps ==
    ASSUME RoomInv, NEW b \in 1..Bots, BotReceives(b),
           Head(messages[BotConnection(b)]).type = "Welcome"
    PROVE  RoomInv'
<1> DEFINE c == BotConnection(b)  m == Head(messages[c])  p == m.player
           r == [bot[b] EXCEPT !.player = p]
<1>1. /\ c \in Seat /\ c # HostConnection /\ c - 1 = b /\ c \in ConnectionId /\ ~co.done
      /\ m = messages[c][1] /\ messages[c] # <<>> /\ m.type = "Welcome"
      /\ UNCHANGED lobbyVars
  BY BotHears
<1>2. WireTypes /\ GamesFit /\ BotsTyped  BY BotsAreTyped DEF RoomInv
<1>3. Greeted(c) /\ p \in PlayerId  BY <1>1, StageOf DEF Inside, Hears
<1>4. bot[b].player = None /\ requests[c] = <<>>  BY <1>1, <1>3 DEF Greeted, Me
<1>5. /\ bot' = [bot EXCEPT ![b].player = p]
      /\ UNCHANGED <<play, co, lobbyTimer, gameTimer, moving>>
  <2>1. B!Welcomed(b, p)  BY <1>1 DEF BotReceives
  <2> QED  BY <1>4, <2>1 DEF B!Welcomed, B!Unset, None
<1>6. bot[b] \in BotRecord  BY <1>2 DEF BotsTyped
<1> HIDE DEF p, m
<1>7. /\ r \in BotRecord /\ r.player = p /\ r.readySent = bot[b].readySent
      /\ r.game = bot[b].game /\ r.ticket = bot[b].ticket /\ r.result = bot[b].result
  BY <1>3, <1>6 DEF BotRecord
<1>8. bot' = [bot EXCEPT ![b] = r]  BY <1>2, <1>5 DEF BotsTyped
<1> HIDE DEF r
<1>9. /\ bot' \in [1..Bots -> BotRecord] /\ bot'[b] = r
      /\ \A a \in 1..Bots : a # b => bot'[a] = bot[a]
  BY <1>2, <1>7, <1>8, BotBecomes
<1>10. BotTakes(b) /\ Takes(c) /\ Asks(c, "JoinRoom")
  <2>1. m = Head(messages[BotConnection(b)])  BY DEF m
  <2> QED  BY <1>1, <1>5, <1>9, <2>1, BotGoesOn
<1>11. Says(c, "JoinRoom")  BY <1>1, <1>2, <1>4, <1>10, AsksIt
<1>12. Move(c)
  <2>1. Me(c)' = messages[c][1].player /\ HasReadied(c)' = HasReadied(c)
    BY <1>1, <1>7, <1>9 DEF Me, HasReadied, p
  <2>2. Enters(c)  BY <1>1, <1>10, <1>11, <2>1 DEF Enters, Way
  <2> QED  BY <1>10, <2>2 DEF Move, Takes
<1>13. BotsTyped'
  BY <1>2, <1>5, <1>9 DEF BotsTyped, BotRecord, CoRecord, B!GameState
<1>14. GamesOk'
  <2>1. \A a \in 1..Bots : /\ bot'[a].game = bot[a].game
                           /\ bot'[a].ticket = bot[a].ticket
                           /\ bot'[a].result = bot[a].result
    BY <1>7, <1>9
  <2> QED  BY <1>1, <1>2, <1>5, <2>1 DEF GamesFit, GamesOk, Begun, lobbyVars, counters, matchVars
<1> QED  BY <1>5, <1>7, <1>9, <1>10, <1>12, <1>13, <1>14, BotMoves

\* Who reads anything else is inside.
LEMMA BotIsInside ==
    ASSUME RoomInv, NEW b \in 1..Bots, BotReceives(b),
           Head(messages[BotConnection(b)]).type # "Welcome"
    PROVE  Inside(BotConnection(b)) /\ bot[b].player # None
<1>1. Inside(BotConnection(b))  BY BotHears, StageOf
<1> QED  BY <1>1, BotHears DEF Inside, Me

LEMMA BotRoomKeeps ==
    ASSUME RoomInv, NEW b \in 1..Bots, BotReceives(b),
           Head(messages[BotConnection(b)]).type = "Room"
    PROVE  RoomInv'
<1> DEFINE c == BotConnection(b)  m == Head(messages[c])  v == m.view
           r == [bot[b] EXCEPT !.readySent = TRUE]
<1>1. /\ c \in Seat /\ c # HostConnection /\ c - 1 = b /\ c \in ConnectionId /\ ~co.done
      /\ m = messages[c][1] /\ messages[c] # <<>> /\ m.type = "Room"
      /\ UNCHANGED lobbyVars
  BY BotHears
<1>2. WireTypes /\ GamesFit /\ BotsTyped  BY BotsAreTyped DEF RoomInv
<1>3. Inside(c) /\ bot[b].player # None  BY BotIsInside
<1>4. /\ bot' = [bot EXCEPT ![b].readySent = @ \/ B!MustReady(b, v)]
      /\ UNCHANGED <<play, co, lobbyTimer, gameTimer, moving>>
  <2>1. B!SawRoom(b, v)  BY <1>1 DEF BotReceives
  <2> QED  BY <1>3, <2>1 DEF B!SawRoom, B!Unset, None
<1>5. bot \in [1..Bots -> BotRecord] /\ bot[b] \in BotRecord  BY <1>2 DEF BotsTyped
<1> HIDE DEF m, v
<1>6. CASE ~B!MustReady(b, v)
  <2>1. bot' = bot
    <3>1. bot[b].readySent \in BOOLEAN  BY <1>5 DEF BotRecord
    <3>2. (bot[b].readySent \/ B!MustReady(b, v)) = bot[b].readySent  BY <1>6, <3>1
    <3>3. bot' = [bot EXCEPT ![b] = [bot[b] EXCEPT !.readySent =
                                        (bot[b].readySent \/ B!MustReady(b, v))]]
      BY <1>4, <1>5
    <3>4. bot' = [bot EXCEPT ![b] = [bot[b] EXCEPT !.readySent = bot[b].readySent]]
      BY <3>2, <3>3
    <3>5. [bot[b] EXCEPT !.readySent = bot[b].readySent] = bot[b]
      BY <1>5 DEF BotRecord
    <3> QED  BY <1>5, <3>4, <3>5
  <2>2. UNCHANGED botVars  BY <1>4, <2>1 DEF botVars
  <2> QED  BY <1>1, <1>6, <2>2, BotOnlyReads DEF m, v
<1>7. CASE B!MustReady(b, v)
  <2>1. ~bot[b].readySent  BY <1>7 DEF B!MustReady
  <2>2. /\ r \in BotRecord /\ r.player = bot[b].player /\ r.readySent = TRUE
        /\ r.game = bot[b].game /\ r.ticket = bot[b].ticket /\ r.result = bot[b].result
    BY <1>5 DEF BotRecord
  <2>3. bot' = [bot EXCEPT ![b] = r]
    <3>1. (bot[b].readySent \/ B!MustReady(b, v)) = TRUE  BY <1>7
    <3>2. bot' = [bot EXCEPT ![b] = [bot[b] EXCEPT !.readySent =
                                        (bot[b].readySent \/ B!MustReady(b, v))]]
      BY <1>4, <1>5
    <3> QED  BY <3>1, <3>2
  <2> HIDE DEF r
  <2>4. /\ bot' \in [1..Bots -> BotRecord] /\ bot'[b] = r
        /\ \A a \in 1..Bots : a # b => bot'[a] = bot[a]
    BY <1>2, <2>2, <2>3, BotBecomes
  <2>5. BotTakes(b) /\ Takes(c) /\ Asks(c, "SetReady")
    <3>1. m = Head(messages[BotConnection(b)]) /\ m.type = "Room" /\ B!MustReady(b, m.view)
      BY <1>1, <1>7 DEF m, v
    <3>2. ~co'.done  BY <1>1, <1>4
    <3> QED  BY <2>4, <3>1, <3>2, BotGoesOn
  <2>6. requests[c] = <<>>
    BY <1>1, <1>3, <2>1 DEF Inside, HasReadied
  <2>7. Says(c, "SetReady")  BY <1>1, <1>2, <2>5, <2>6, AsksIt
  <2>8. Move(c)
    <3>1. Me(c)' = Me(c) /\ ~HasReadied(c) /\ HasReadied(c)'
      BY <1>1, <2>1, <2>2, <2>4 DEF Me, HasReadied
    <3>2. messages[c][1].type # "Welcome"  BY <1>1
    <3>3. Readies(c)  BY <2>5, <2>7, <3>1, <3>2 DEF Readies
    <3> QED  BY <2>5, <3>3 DEF Move, Takes
  <2>9. BotsTyped'
    BY <1>2, <1>4, <2>4 DEF BotsTyped, BotRecord, CoRecord, B!GameState
  <2>10. GamesOk'
    <3>1. \A a \in 1..Bots : /\ bot'[a].game = bot[a].game
                             /\ bot'[a].ticket = bot[a].ticket
                             /\ bot'[a].result = bot[a].result
      BY <2>2, <2>4
    <3> QED
      BY <1>1, <1>2, <1>4, <3>1 DEF GamesFit, GamesOk, Begun, lobbyVars, counters, matchVars
  <2> QED  BY <1>4, <2>2, <2>4, <2>5, <2>8, <2>9, <2>10, BotMoves
<1> QED  BY <1>6, <1>7

LEMMA BotTicketKeeps ==
    ASSUME RoomInv, NEW b \in 1..Bots, BotReceives(b),
           Head(messages[BotConnection(b)]).type = "Ticket"
    PROVE  RoomInv'
<1> DEFINE c == BotConnection(b)  m == Head(messages[c])
           r == [bot[b] EXCEPT !.ticket = 1, !.game = "Connecting"]
<1>1. /\ c \in Seat /\ c # HostConnection /\ c - 1 = b /\ c \in ConnectionId /\ ~co.done
      /\ m = messages[c][1] /\ 1 \in Inbox(c) /\ m.type = "Ticket" /\ moving = 0
      /\ UNCHANGED lobbyVars
  BY BotHears
<1>2. WireTypes /\ GamesFit /\ BotsTyped  BY BotsAreTyped DEF RoomInv
<1>3. Inside(c) /\ bot[b].player # None  BY BotIsInside
<1>4. m.match = 1 /\ Begun  BY <1>1, <1>2 DEF GamesFit
<1>5. B!TookTicket(b, 1)  BY <1>1, <1>4 DEF BotReceives
<1>6. bot[b] \in BotRecord /\ co \in CoRecord /\ play = TRUE  BY <1>2 DEF BotsTyped
<1>7. co.match \in {0, 1} /\ 1 # None /\ None = 0  BY <1>6 DEF CoRecord, None
<1> HIDE DEF m
<1>8. CASE bot[b].ticket # None
  <2>1. UNCHANGED botVars
    BY <1>3, <1>5, <1>8 DEF B!TookTicket, B!Unset, B!botVars, botVars, None
  <2> QED  BY <1>1, <2>1, BotOnlyReads DEF m
<1>9. CASE bot[b].ticket = None
  <2>1. B!StartGame(b, 1)
    BY <1>3, <1>5, <1>6, <1>7, <1>9 DEF B!TookTicket, B!Unset
  <2>2. /\ bot' = [bot EXCEPT ![b].ticket = 1, ![b].game = "Connecting"]
        /\ co' = [co EXCEPT !.tickets = @ + 1, !.match = 1, !.ticking = TRUE]
        /\ lobbyTimer' = B!TimerCancelled(lobbyTimer)
        /\ gameTimer' = IF co.ticking THEN gameTimer ELSE "Armed"
        /\ UNCHANGED <<play, moving>>
    BY <2>1 DEF B!StartGame
  <2>3. r \in BotRecord /\ r.player = bot[b].player /\ r.readySent = bot[b].readySent
        /\ r.game = "Connecting" /\ r.ticket = 1
    <3>1. "Connecting" \in B!GameState  BY DEF B!GameState
    <3> QED  BY <1>6, <3>1 DEF BotRecord
  <2>4. bot' = [bot EXCEPT ![b] = r]  BY <1>2, <2>2 DEF BotsTyped
  <2> HIDE DEF r
  <2>5. /\ bot' \in [1..Bots -> BotRecord] /\ bot'[b] = r
        /\ \A a \in 1..Bots : a # b => bot'[a] = bot[a]
    BY <1>2, <2>3, <2>4, BotBecomes
  <2>6. /\ co' \in CoRecord /\ co'.ticking /\ co'.done = co.done /\ co'.why = co.why
        /\ co'.started = co.started
    <3> DEFINE n == co.tickets + 1
    <3>1. n \in Nat  BY <1>6 DEF CoRecord
    <3>2. co' = [co EXCEPT !.tickets = n, !.match = 1, !.ticking = TRUE]  BY <2>2
    <3> HIDE DEF n
    <3>3. 1 \in {None, 1} /\ TRUE \in BOOLEAN  OBVIOUS
    <3>4. co' \in CoRecord  BY <1>6, <3>1, <3>2, <3>3 DEF CoRecord
    <3>5. /\ co'.ticking = TRUE /\ co'.done = co.done /\ co'.why = co.why
          /\ co'.started = co.started
      BY <1>6, <3>2 DEF CoRecord
    <3> QED  BY <3>4, <3>5
  <2>7. BotTakes(b) /\ Takes(c) /\ requests' = requests
    <3>1. m = Head(messages[BotConnection(b)]) /\ m.type \notin {"Welcome", "Room"}
      BY <1>1 DEF m
    <3>2. ~co'.done  BY <1>1, <2>6
    <3> QED  BY <2>5, <3>1, <3>2, BotGoesOn
  <2>8. Move(c)
    <3>1. Me(c)' = Me(c) /\ HasReadied(c)' = HasReadied(c)
      BY <1>1, <2>3, <2>5 DEF Me, HasReadied
    <3>2. messages[c][1].type # "Welcome"  BY <1>1
    <3>3. Reads(c)  BY <2>7, <3>1, <3>2 DEF Reads, Keeps
    <3> QED  BY <2>7, <3>3 DEF Move, Takes
  <2>9. BotsTyped'
    BY <1>2, <2>2, <2>5, <2>6 DEF BotsTyped, BotRecord, CoRecord, B!GameState
  <2>10. GamesOk'
    <3>1. \A a \in 1..Bots :
          /\ bot'[a].game \in Playing => bot'[a].ticket = 1
          /\ bot'[a].game = "Finished" => bot'[a].result = TheResult
      BY <1>2, <2>3, <2>5 DEF GamesFit
    <3> QED  BY <1>1, <1>4, <2>6, <3>1 DEF GamesOk, Begun, lobbyVars, counters, matchVars
  <2>11. /\ lobbyTimer' = "Fired" => lobbyTimer = "Fired"
         /\ gameTimer' = "Fired" => gameTimer = "Fired"
    BY <2>2 DEF B!TimerCancelled
  <2>12. bot'[b].game # "Failed"  BY <2>3, <2>5
  <2> QED  BY <2>6, <2>7, <2>8, <2>9, <2>10, <2>11, <2>12, BotMoves
<1> QED  BY <1>8, <1>9

LEMMA BotErrorKeeps ==
    ASSUME RoomInv, NEW b \in 1..Bots, BotReceives(b),
           Head(messages[BotConnection(b)]).type = "Error"
    PROVE  RoomInv'
<1> DEFINE c == BotConnection(b)
<1>1. /\ c \in Seat /\ 1 \in Inbox(c) /\ Head(messages[c]) = messages[c][1]
      /\ UNCHANGED <<lobbyVars, hostVars, trouble>>
  BY BotHears
<1>2. B!Fail("Error")  BY DEF BotReceives
<1>3. co'.done
  <2>1. co' = [co EXCEPT !.done = TRUE, !.exit = 3, !.why = "Error", !.result = co.result]
    BY <1>2 DEF B!Fail, B!Shutdown
  <2> QED  BY <2>1, BotsAreTyped DEF RoomInv, BotsTyped, CoRecord
<1>4. BotsClose /\ UNCHANGED requests  BY <1>3 DEF BotReceives
<1>5. trouble # 0
  <2>1. Hears(c, "Error")  BY <1>1 DEF Hears
  <2> QED  BY <1>1, <2>1 DEF RoomInv, QuietInv, Quiet
<1> QED  BY <1>1, <1>2, <1>4, <1>5, FailKeeps

\* A bot takes a message of any kind.
LEMMA BotReceivesKeeps ==
    ASSUME RoomInv, NEW b \in 1..Bots, BotReceives(b)
    PROVE  RoomInv'
<1> DEFINE m == Head(messages[BotConnection(b)])
<1>1. m \in Note  BY BotHears
<1>2. m.type \in {"Welcome", "Room", "Ticket", "Error", "RoomList"}  BY <1>1 DEF Note
<1>3. ASSUME m.type = "RoomList" PROVE RoomInv'
  <2>1. UNCHANGED botVars  BY <1>3 DEF BotReceives
  <2> QED  BY <1>3, <2>1, BotOnlyReads
<1> QED
  BY <1>2, <1>3, BotWelcomeKeeps, BotRoomKeeps, BotTicketKeeps, BotErrorKeeps

-----------------------------------------------------------------------------
(* A connection is opened. *)

LEMMA ConnectKeeps ==
    ASSUME RoomInv, NEW c \in Seat, Connects(c), UNCHANGED <<hostVars, botVars>>,
           c = HostConnection => hostFailed = "No" /\ hostStop = "No",
           c # HostConnection => co.started /\ ~co.done
    PROVE  RoomInv'
<1> DEFINE n == nextConnection  h == HostConnection
<1>1. /\ LobbyInv /\ WireTypes /\ FlowInv /\ CountInv /\ TalkInv /\ LinkInv /\ ReadyInv
      /\ c \in ConnectionId /\ h \in Seat /\ h \in ConnectionId /\ h = 1
      /\ \A d \in Seat : d \in ConnectionId
  BY RoomBounds DEF RoomInv
<1>2. /\ OpenConnection /\ n = c
      /\ link' = [link EXCEPT ![c] = "Up"] /\ requests' = [requests EXCEPT ![c] = <<"Hello">>]
      /\ UNCHANGED <<messages, trouble>>
  BY DEF Connects
<1>3. [Next]_lobbyVars  BY <1>2 DEF Next
<1>4. LobbyInv'  BY <1>3, LobbyStep
<1>5. /\ n \in Nat /\ c \in Nat /\ nextConnection' = n + 1 /\ open' = open \cup {c}
      /\ UNCHANGED <<nextPlayer, nextRoom, nextOrdinal, nextMatch, connPlayer, playerRoom,
                     roomState, roomHost, members, ready, pending, active>>
  BY <1>1, <1>2, Bounds, RoomBounds DEF OpenConnection, roomVars, matchVars, LobbyInv, TypeOK, Seat
<1> HIDE DEF n
<1>6. /\ DOMAIN requests' = ConnectionId
      /\ link' \in [ConnectionId -> {"Down", "Up", "Cut"}]
      /\ requests'[c] = <<"Hello">> /\ link'[c] = "Up"
      /\ \A d \in ConnectionId : d # c => requests'[d] = requests[d] /\ link'[d] = link[d]
  BY <1>1, <1>2 DEF WireTypes
<1>7. WireTypes' /\ ClientTypes'
  BY <1>1, <1>2, <1>6 DEF WireTypes, RoomInv, ClientTypes, hostVars, botVars
<1>8. \A d \in Seat : Me(d)' = Me(d) /\ HasReadied(d)' = HasReadied(d)
  BY DEF Me, HasReadied, hostVars, botVars
<1>9. Silent(c)
  BY <1>1, <1>2, <1>5 DEF LinkInv, n
<1>10. connPlayer[c] = None
  <2>1. c \notin open  BY <1>1, <1>2, <1>5, OpenSeat DEF n
  <2> QED  BY <1>1, <2>1 DEF LobbyInv, ConnectionsAgree
<1>11. Greeting(c)' /\ ~Inside(c)'
  <2>1. Greeting(c)'
    BY <1>2, <1>5, <1>6, <1>8, <1>9, <1>10 DEF Greeting, Silent, Asked
  <2> QED  BY <2>1 DEF Greeting, Inside
<1>12. \A d \in Seat : d # c => SameSeat(d)
  BY <1>1, <1>2, <1>5, <1>6, <1>8 DEF SameSeat
<1>13. TalkInv'
  <2>1. \A d \in Seat : Talk(d)'
    BY <1>1, <1>5, <1>11, <1>12, SeatSame DEF TalkInv, Talk
  <2> QED  BY <2>1 DEF TalkInv, Seat
<1>14. flow' = flow /\ co' = co  BY DEF hostVars, botVars
<1>15. LinkInv'
  <2>1. \A d \in Seat : d >= n + 1 => Silent(d)'
    <3> SUFFICES ASSUME NEW d \in Seat, d >= n + 1 PROVE Silent(d)'
      OBVIOUS
    <3>1. d \in Nat /\ d >= n /\ d # c  BY <1>2, <1>5, RoomBounds DEF Seat
    <3>2. Silent(d)  BY <1>1, <3>1 DEF LinkInv, n
    <3> QED  BY <1>5, <1>12, <3>1, <3>2, SeatSame
  <2>2. n + 1 <= Bots + 2  BY <1>2, <1>5, RoomBounds DEF Seat
  <2>3. n + 1 > 2 => co.started
    BY <1>1, <1>2, <1>5
  <2>4. ASSUME NEW d \in ConnectionId
        PROVE  /\ link'[d] = "Up" => d \in open'
               /\ d >= n + 1 => link'[d] # "Up"
    <3>1. CASE d = c  BY <1>2, <1>5, <3>1
    <3>2. CASE d # c
      <4>1. d \in Nat  BY Bounds DEF ConnectionId
      <4>2. d >= n + 1 => d >= n  BY <1>5, <4>1
      <4>3. d >= n => link[d] # "Up"  BY <1>1 DEF LinkInv, n
      <4> QED  BY <1>1, <1>5, <1>6, <3>2, <4>2, <4>3 DEF LinkInv
    <3> QED  BY <3>1, <3>2
  <2> QED  BY <1>1, <1>5, <1>14, <2>1, <2>2, <2>3, <2>4 DEF LinkInv, Seat, ConnectionId
<1>16. ReadyInv'
  <2>1. ASSUME NEW d \in Seat, NEW r \in RoomId, d \in open', connPlayer'[d] \in ready'[r]
        PROVE  HasReadied(d)' /\ ~Asked(d, "SetReady")'
    <3>1. d # c
      <4>1. None \notin ready[r]
        BY <1>1 DEF LobbyInv, TypeOK, ReadyInv, PlayerId, None
      <4> QED  BY <1>5, <1>10, <2>1, <4>1
    <3>2. SameSeat(d)  BY <1>12, <3>1
    <3> QED  BY <1>1, <1>5, <2>1, <3>1, <3>2 DEF SameSeat, ReadyInv, Asked
  <2> QED  BY <1>1, <1>5, <2>1 DEF ReadyInv, Seat, RoomId
<1>17. c = h => nextRoom = 1
  BY <1>1, <1>9 DEF FlowInv, Silent, Inside
<1>18. Asked(h, "StartMatch")' => Asked(h, "StartMatch")
  BY <1>1, <1>6, Unasked DEF Asked
<1>19. FlowInv'
  <2>1. ~Inside(h)' => nextRoom = 1
    <3>1. c # h => (Inside(h)' <=> Inside(h))  BY <1>1, <1>5, <1>12, SeatSame
    <3> QED  BY <1>1, <1>17, <3>1 DEF FlowInv
  <2>2. Begun' = Begun  BY <1>5 DEF Begun
  <2> QED  BY <1>1, <1>5, <1>14, <1>18, <2>1, <2>2 DEF FlowInv
<1>20. LeadInv'
  <2>1. LeadInv  BY DEF RoomInv
  <2>2. c = h => ~Exists(1)  BY <1>1, <1>17, OneRoom, RoomBounds
  <2> QED  BY <1>1, <1>5, <2>1, <2>2 DEF LeadInv, Exists, MatchId
<1>21. RoomsFit'
  <2>1. ASSUME NEW i \in Inbox(h)', messages'[h][i].type = "Room"
        PROVE  FitsNext(messages'[h][i].view)
    <3>1. c # h
      <4>1. i \in Inbox(h)  BY <1>2, <2>1 DEF Inbox
      <4>2. messages[h] # <<>>  BY <4>1 DEF Inbox
      <4> QED  BY <1>9, <4>2 DEF Silent
    <3>2. requests'[h] = requests[h]  BY <1>1, <1>6, <3>1
    <3>3. ViewFits(messages[h][i].view)  BY <1>2, <2>1 DEF RoomInv, RoomsFit, Inbox
    <3> QED  BY <1>2, <1>5, <1>14, <3>2, <3>3 DEF ViewFits, FitsNext, Asked
  <2> QED  BY <2>1, RoomsFitNext
<1>22. TicketsFit'
  <2>1. TicketsFit  BY DEF RoomInv
  <2>2. ASSUME c = h, NEW m \in MatchId, active[m].room # None PROVE FALSE
    <3>1. nextMatch = 2  BY <1>1, <2>2, OneMatch
    <3>2. flow.startRequested /\ flow.room # None /\ nextRoom = 2
      BY <1>1, <3>1 DEF FlowInv
    <3> QED  BY <1>17, <2>2, <3>2
  <2>3. c # h => link'[h] = link[h]  BY <1>1, <1>6
  <2> QED
    BY <1>2, <1>5, <1>14, <2>1, <2>2, <2>3 DEF TicketsFit, TicketAt, Inbox, Hears, MatchId
<1>23. GamesFit'
  <2>1. moving' = moving /\ bot' = bot /\ Begun' = Begun  BY <1>5 DEF botVars, Begun
  <2> QED  BY <1>2, <1>14, <2>1 DEF RoomInv, GamesFit, Seat, Inbox
<1>24. CountInv'
  <2>1. Greeters \subseteq Greeters'
    <3> SUFFICES ASSUME NEW d \in Seat, d < n, ~Asked(d, "Hello")
                 PROVE  d < n + 1 /\ ~Asked(d, "Hello")'
      BY <1>5 DEF Greeters, Seat, n
    <3>1. d \in Nat  BY RoomBounds DEF Seat
    <3>2. d # c  BY <1>2, <1>5, <3>1
    <3> QED  BY <1>1, <1>5, <1>6, <3>1, <3>2 DEF Asked
  <2>2. IsFiniteSet(Greeters')
    <3>1. Greeters' \subseteq Seat  BY DEF Greeters, Seat
    <3> QED  BY <3>1, GreetersAreFew, FS_Subset
  <2>3. Cardinality(Greeters) <= Cardinality(Greeters')  BY <2>1, <2>2, FS_Subset
  <2>4. Cardinality(Greeters') \in Nat  BY <2>2, FS_CardinalityType
  <2>5. nextPlayer \in Nat  BY <1>1, Bounds DEF LobbyInv, TypeOK
  <2>6. nextPlayer' <= Cardinality(Greeters') + 1
    BY <1>1, <1>5, <2>3, <2>4, <2>5, GreetersAreFew DEF CountInv
  <2> QED  BY <2>6 DEF CountInv
<1>25. QuietInv'
  <2>1. SUFFICES ASSUME trouble' = 0
                 PROVE  /\ Quiet' /\ (nextMatch' = 1 => Grows') /\ nextMatch' # 2
    BY DEF QuietInv
  <2>2. trouble = 0 /\ Quiet  BY <1>2, <2>1 DEF RoomInv, QuietInv
  <2>3. Quiet'
    <3>1. ASSUME NEW d \in Seat
          PROVE  /\ ~Hears(d, "Error")'
                 /\ d < n + 1 => link'[d] = "Up" \/ (d # h /\ co.done)
                 /\ link'[d] = "Cut" => d < n + 1
      <4>1. ~Hears(d, "Error")'  BY <1>2, <2>2 DEF Quiet, Hears, Inbox
      <4>2. CASE d = c  BY <1>6, <4>1, <4>2
      <4>3. CASE d # c
        <5>1. d \in Nat  BY RoomBounds DEF Seat
        <5>2. d < n + 1 <=> d < n  BY <1>2, <1>5, <4>3, <5>1
        <5>3. link'[d] = link[d]  BY <1>1, <1>6, <4>3
        <5> QED  BY <2>2, <4>1, <5>2, <5>3 DEF Quiet, n
      <4> QED  BY <4>2, <4>3
    <3>2. Begun' = Begun  BY <1>5 DEF Begun
    <3>3. UNCHANGED <<hostFailed, hostStop, co, lobbyTimer, gameTimer, bot>>
      BY DEF hostVars, botVars
    <3>4. nextConnection' = n + 1  BY <1>5
    <3> QED  BY <2>2, <3>1, <3>2, <3>3, <3>4 DEF Quiet, Seat
  <2>4. ASSUME nextMatch' = 1 PROVE Grows'
    <3>1. Grows  BY <1>5, <2>2, <2>4 DEF RoomInv, QuietInv
    <3>2. ASSUME NEW d \in Seat, Inside(d)' PROVE Me(d)' \in members'[1]
      <4>1. d # c  BY <1>11, <3>2
      <4>2. Inside(d) /\ Me(d)' = Me(d)  BY <1>5, <1>12, <3>2, <4>1, SeatSame DEF SameSeat
      <4> QED  BY <1>5, <3>1, <4>2 DEF Grows
    <3>3. \A i \in Inbox(h)' : messages'[h][i].type = "Room" =>
            /\ messages'[h][i].view.members \subseteq members[1]
            /\ messages'[h][i].view.ready \subseteq ready[1]
      BY <1>2, <3>1 DEF Grows, Inbox
    <3> QED  BY <1>5, <1>18, <3>1, <3>2, <3>3 DEF Grows, Seat, Everyone
  <2>5. nextMatch # 2
    <3>1. ASSUME nextMatch = 2 PROVE FALSE
      <4>1. HasReadied(c)  BY <2>2, <3>1 DEF RoomInv, QuietInv, Settled
      <4> QED  BY <1>9, <4>1 DEF Silent
    <3> QED  BY <3>1
  <2> QED  BY <1>5, <2>3, <2>4, <2>5
<1> QED
  BY <1>4, <1>7, <1>13, <1>15, <1>16, <1>19, <1>20, <1>21, <1>22, <1>23, <1>24, <1>25
  DEF RoomInv

-----------------------------------------------------------------------------
(* All together. *)

LEMMA RoomInvInit ==
    ASSUME RoomInit
    PROVE  RoomInv
<1> DEFINE h == HostConnection
<1>1. LobbyInv  BY InitLobbyInv DEF RoomInit
<1>2. /\ nextConnection = 1 /\ nextPlayer = 1 /\ nextRoom = 1 /\ nextOrdinal = 1
      /\ nextMatch = 1 /\ open = {}
      /\ \A r \in RoomId : members[r] = {} /\ ready[r] = {}
      /\ \A m \in MatchId : pending[m].room = None /\ active[m].room = None
  BY DEF RoomInit, Init, NoReservation, NoMatch
<1>3. /\ flow = [player |-> 0, room |-> 0, readyRequested |-> FALSE,
                 startRequested |-> FALSE, ticketReceived |-> FALSE]
      /\ hostFailed = "No" /\ hostStop = "No"
  BY DEF RoomInit, H!Init, H!NewFlow, H!Unset
<1>4. /\ bot = [b \in 1..Bots |-> [player |-> 0, readySent |-> FALSE, ticket |-> 0,
                                   game |-> "None", result |-> B!NoResult,
                                   finished |-> FALSE, exit |-> 3]]
      /\ co = [started |-> FALSE, done |-> FALSE, exit |-> 3, why |-> "None",
               tickets |-> 0, sessions |-> 0, match |-> 0, ticking |-> FALSE,
               result |-> B!NoResult]
      /\ lobbyTimer = "Off" /\ gameTimer = "Off" /\ moving = 0 /\ play = TRUE
  BY DEF RoomInit, B!BotInit, B!Unset, B!Bot
<1>5. /\ requests = [c \in ConnectionId |-> <<>>] /\ messages = [c \in ConnectionId |-> <<>>]
      /\ link = [c \in ConnectionId |-> "Down"] /\ trouble = 0
  BY DEF RoomInit
<1>6. h \in Seat /\ h = 1 /\ h \in ConnectionId /\ \A c \in Seat : c \in ConnectionId /\ c \in Nat
  BY RoomBounds, Bounds DEF Seat
<1>7. WireTypes
  <2>1. <<>> \in Seq(Note)  BY NoNote
  <2> QED  BY <1>5, <2>1 DEF WireTypes
<1>8. ClientTypes
  <2>1. "None" \in B!GameState  BY DEF B!GameState
  <2>2. 0 \in 0..Bots  BY RoomBounds
  <2>3. B!NoResult \in Results  BY DEF Results
  <2> QED  BY <1>3, <1>4, <2>1, <2>2, <2>3 DEF ClientTypes, None
<1>9. \A b \in 1..Bots : bot[b].player = None /\ ~bot[b].readySent /\ bot[b].game = "None"
  BY <1>4 DEF None
<1>10. ASSUME NEW c \in Seat
       PROVE  /\ Me(c) = None /\ ~HasReadied(c) /\ requests[c] = <<>> /\ messages[c] = <<>>
              /\ link[c] = "Down" /\ c \notin open /\ Inbox(c) = {}
  <2>1. c = h \/ (c # h /\ c - 1 \in 1..Bots)  BY SeatIs
  <2>2. Me(c) = None /\ ~HasReadied(c)  BY <1>3, <1>9, <2>1 DEF Me, HasReadied, None
  <2>3. requests[c] = <<>> /\ messages[c] = <<>> /\ link[c] = "Down"  BY <1>5, <1>6
  <2>4. Inbox(c) = {}  BY <2>3 DEF Inbox
  <2> QED  BY <1>2, <2>2, <2>3, <2>4
<1>11. \A c \in Seat : Silent(c) /\ ~Inside(c) /\ ~Asked(c, "StartMatch")
  BY <1>10, Unasked DEF Silent, Inside, Asked
<1>12. TalkInv  BY <1>11 DEF TalkInv, Talk
<1>13. LinkInv
  <2>1. \A c \in ConnectionId : link[c] # "Up"  BY <1>5
  <2>2. ~co.started /\ 1 <= Bots + 2  BY <1>4, RoomBounds
  <2> QED  BY <1>2, <1>11, <2>1, <2>2 DEF LinkInv
<1>14. ReadyInv  BY <1>2 DEF ReadyInv
<1>15. FlowInv  BY <1>2, <1>3, <1>6, <1>11 DEF FlowInv, None
<1>16. LeadInv  BY <1>2 DEF LeadInv
<1>17. RoomsFit  BY <1>6, <1>10 DEF RoomsFit
<1>18. TicketsFit  BY <1>2, <1>6, <1>10 DEF TicketsFit
<1>19. GamesFit
  <2>1. ~co.ticking /\ moving = None  BY <1>4 DEF None
  <2> QED  BY <1>9, <1>10, <2>1 DEF GamesFit, Playing
<1>20. CountInv  BY <1>2, GreetersAreFew DEF CountInv
<1>21. QuietInv
  <2>1. Quiet
    <3>1. co.why = "None" /\ ~co.done  BY <1>4
    <3>2. ASSUME NEW c \in Seat
          PROVE  ~Hears(c, "Error") /\ ~(c < nextConnection) /\ link[c] # "Cut"
      <4>1. c >= 1 /\ c \in Nat  BY RoomBounds DEF Seat
      <4>2. ~Hears(c, "Error")  BY <1>10 DEF Hears
      <4> QED  BY <1>2, <1>10, <4>1, <4>2
    <3> QED  BY <1>3, <1>4, <1>9, <3>1, <3>2 DEF Quiet
  <2>2. Grows
    <3>1. 1 \in RoomId  BY RoomBounds
    <3>2. members[1] = {} /\ Cardinality(members[1]) = 0  BY <1>2, <3>1, FS_EmptySet
    <3> QED  BY <1>2, <1>6, <1>10, <1>11, <3>2 DEF Grows
  <2> QED  BY <1>2, <2>1, <2>2 DEF QuietInv
<1> QED
  BY <1>1, <1>7, <1>8, <1>12, <1>13, <1>14, <1>15, <1>16, <1>17, <1>18, <1>19, <1>20, <1>21
  DEF RoomInv

LEMMA RoomInvNext ==
    ASSUME RoomInv, [RoomNext]_vars
    PROVE  RoomInv'
<1>1. ASSUME NEW c \in ConnectionId,
             LobbyGrants(c) \/ LobbyRefuses(c) \/ LobbyRollsBack(c) \/ LobbyDisconnects(c)
      PROVE  RoomInv'
  BY <1>1, LobbyKeeps
<1>2. ASSUME NEW c \in ConnectionId, ConnectionFails(c) PROVE RoomInv'
  BY <1>2, FailureKeeps
<1>3. ASSUME NEW m \in MatchId,
             \/ \E w \in Worker : ServerReady(m, w) \/ MatchEnds(m, w)
             \/ ServerFails(m) \/ MatchIsOver(m)
      PROVE  RoomInv'
  BY <1>3, GameServerKeeps
<1>4. ASSUME HostConnects PROVE RoomInv'
  <2>1. Connects(HostConnection) /\ UNCHANGED <<hostVars, botVars>> /\ H!Listens
    BY <1>4 DEF HostConnects
  <2>2. hostFailed = "No" /\ hostStop = "No"  BY <2>1 DEF H!Listens, H!StopRequested
  <2> QED  BY <2>1, <2>2, ConnectKeeps, RoomBounds
<1>5. ASSUME NEW b \in 1..Bots, BotConnects(b) PROVE RoomInv'
  <2>1. /\ Connects(BotConnection(b)) /\ UNCHANGED <<hostVars, botVars>>
        /\ co.started /\ ~co.done
    BY <1>5 DEF BotConnects, B!Ready
  <2>2. BotConnection(b) \in Seat /\ BotConnection(b) # HostConnection  BY RoomBounds
  <2> QED  BY <2>1, <2>2, ConnectKeeps
<1>6. CASE HostReceives \/ HostNotices \/ HostThreads
  BY <1>6, ReceiveKeeps, NoticeKeeps, ThreadsKeep
<1>7. CASE BotsStart \/ BotTicks \/ BotTimers \/ BotsStop
  BY <1>7, BotsStartKeeps, TicksKeep, TimersKeep, StopKeeps
<1>8. ASSUME NEW b \in 1..Bots, BotReceives(b) \/ BotNotices(b) \/ BotSessions(b)
      PROVE  RoomInv'
  BY <1>8, BotReceivesKeeps, BotNoticeKeeps, SessionsKeep
<1>9. CASE UNCHANGED vars
  <2>1. UNCHANGED <<lobbyVars, hostVars, botVars, wires, trouble>>  BY <1>9 DEF vars
  <2> QED  BY <2>1, NothingHappens
<1> QED
  BY <1>1, <1>2, <1>3, <1>4, <1>5, <1>6, <1>7, <1>8, <1>9 DEF RoomNext

LEMMA RoomInvFits ==
    ASSUME RoomInv
    PROVE  OnlyTroubleFails
<1>1. ClientTypes /\ trouble \in Nat  BY DEF RoomInv, WireTypes
<1>2. hostFailed # "Throw"  BY <1>1 DEF ClientTypes
<1>3. co.why # "Confused"  BY <1>1, BotsAreTyped DEF BotsTyped, CoRecord
<1>4. trouble = 0 => /\ hostFailed = "No"
                     /\ co.why \in {"None", "Results", "Destination"}
  BY DEF RoomInv, QuietInv, Quiet
<1> QED  BY <1>1, <1>2, <1>3, <1>4 DEF OnlyTroubleFails

\* The clients fit the lobby and each other, for any number of bots and whatever
\* the order in which requests, messages and failures arrive: the checks of
\* LobbyHostFlow and of BotCoordinator::Impl::Message never find a message that
\* cannot be, and neither NetworkClientController nor the bots fail before
\* something outside their hands has gone wrong.
THEOREM OnlyTroubleEverFails == RoomSpec => []OnlyTroubleFails
<1>1. RoomInit => RoomInv  BY RoomInvInit
<1>2. RoomInv /\ [RoomNext]_vars => RoomInv'  BY RoomInvNext
<1>3. RoomInv => OnlyTroubleFails  BY RoomInvFits
<1> QED  BY <1>1, <1>2, <1>3, PTL DEF RoomSpec
=============================================================================
