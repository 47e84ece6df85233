--------------------------- MODULE ClientSession ---------------------------
(***************************************************************************)
(* The client's game session (GameSession.cpp on GameNetworkRuntime.cpp):   *)
(* a network thread that runs the handlers of an io_context, and a game     *)
(* thread that calls FixedUpdate and Stop.  They share the atomics state    *)
(* and stopRequested and the locked snapshot queue; every write of state    *)
(* that follows a check of it is a step of its own, so that the other       *)
(* thread can come in between.  The server is the one of this repository,   *)
(* reached over TCP in order and over UDP that loses and repeats.           *)
(***************************************************************************)
EXTENDS Naturals, Sequences, SequencesExt

CONSTANTS
    MaxSnapshot,       \* bound: the snapshots the server sends
    MaxInput,          \* bound: the inputs the client issues
    QueueCapacity,     \* SnapshotQueueCapacity, 64
    BufferCapacity,    \* MaxClientSnapshotBuffer, 32
    HistoryCapacity    \* MaxClientInputHistory, 256

ASSUME SessionAssumption ==
    /\ {MaxSnapshot, MaxInput, HistoryCapacity} \subseteq Nat \ {0}
    /\ QueueCapacity \in Nat /\ QueueCapacity >= 3
    /\ BufferCapacity \in Nat /\ BufferCapacity >= 3

VARIABLES
    state, stopRequested,
    about,             \* what the running network handler has decided to store
    posted,            \* handlers posted to the io_context, in order
    tcp, frames,       \* the connection, and the server's frames under way
    server,            \* how far the server's side of the connection is
    udp, receiving,    \* the socket, and whether a receive is outstanding
    bindTimer, bindAnswer,
    stream,            \* the newest world the network thread has applied
    result,            \* whether a match result is kept
    queue,             \* snapshotQueue, from the network to the game thread
    game, batch,       \* where the game thread is, and what it has drained
    predictor, serverInput,
    buffer, scene      \* the interpolator's snapshots, and what is on screen

netVars == <<about, tcp, frames, server, udp, receiving, bindTimer, bindAnswer>>
gameVars == <<game, batch, predictor, buffer, scene>>
shared == <<state, stopRequested, queue, result>>
vars == <<netVars, gameVars, shared, posted, stream, serverInput>>

None == "none"
Ended == {"Finished", "ProtocolError", "Closed"}
States == Ended \cup {"Idle", "Connecting", "Authenticating", "BindingUdp",
                      "Synchronizing", "Running"}

\* One remote actor stands for all of them.  A stay is one uninterrupted
\* presence of it in the client's worlds: 0 when it is absent, and a new number
\* each time it comes back.
Stay == 0 .. MaxSnapshot
Snapshots == [id : 1 .. MaxSnapshot, ack : 0 .. MaxInput, stay : Stay, reset : BOOLEAN]

\* What is posted to the io_context.
Handler(run) == [run |-> run]
InputHandler(n) == [run |-> "input", sequence |-> n]

Init ==
    /\ state = "Idle" /\ stopRequested = FALSE /\ about = None /\ posted = <<>>
    /\ tcp = None /\ frames = <<>> /\ server = None
    /\ udp = None /\ receiving = FALSE /\ bindTimer = "off" /\ bindAnswer = FALSE
    /\ stream = [id |-> 0, ack |-> 0, stay |-> 0, stays |-> 0]
    /\ result = FALSE /\ queue = <<>> /\ game = "frame" /\ batch = <<>>
    /\ predictor = [live |-> FALSE, issued |-> 0, acked |-> 0]
    /\ serverInput = 0 /\ buffer = <<>> /\ scene = <<0, 0>>

-----------------------------------------------------------------------------
(* The network thread. *)

\* A handler runs to its end before the next one: while one is about to store
\* the state, no other starts.
Idle == about = None

\* A timer that is cancelled may have expired already, its handler queued.
TimerCancelled == IF bindTimer = "off" THEN {"off"} ELSE {"off", "late"}

\* CloseNetwork.  Closing the transport posts its close handler.  A resolution
\* of the server's name that is under way is cancelled if that is not too late.
CloseNetwork(rest) ==
    /\ bindTimer' \in TimerCancelled
    /\ tcp' = IF tcp = "open" THEN "closed" ELSE tcp
    /\ frames' = <<>>
    /\ posted' = IF tcp = "open" THEN Append(rest, Handler("closed")) ELSE rest
    /\ udp' = IF udp = "open" THEN "closed" ELSE udp
    /\ receiving' = FALSE

\* A receive is followed by the next one while the socket is open and nobody has
\* asked the session to stop.  (Its mutant only looks at the socket.)
ReceivesWhileOpen == udp = "open"
ReceivesAgain == udp = "open" /\ ~stopRequested

\* The handler stores the state it decided on, and finishes.
Store ==
    /\ about # None
    /\ state' = about
    /\ about' = None
    /\ IF about = "ProtocolError"
         THEN CloseNetwork(posted)
         ELSE /\ udp' = IF about = "BindingUdp" THEN "resolving" ELSE udp
              /\ receiving' = IF about = "Synchronizing" THEN ReceivesAgain ELSE receiving
              /\ UNCHANGED <<posted, tcp, frames, bindTimer>>
    /\ server' = IF about = "Authenticating" THEN "hello" ELSE server
    /\ UNCHANGED <<gameVars, stopRequested, queue, result, bindAnswer, stream, serverInput>>

\* ResolveTcp, posted by Start.
HandleResolve ==
    /\ Idle /\ posted # <<>> /\ Head(posted).run = "resolve"
    /\ posted' = Tail(posted)
    /\ tcp' = IF stopRequested THEN tcp ELSE "resolving"
    /\ UNCHANGED <<gameVars, shared, about, frames, server, udp, receiving,
                   bindTimer, bindAnswer, stream, serverInput>>

\* The name is resolved, or not.
TcpResolved(ok) ==
    /\ Idle /\ tcp = "resolving"
    /\ tcp' = IF ok /\ ~stopRequested THEN "connecting" ELSE None
    /\ about' = IF ok \/ stopRequested THEN None ELSE "Closed"
    /\ UNCHANGED <<gameVars, shared, posted, frames, server, udp, receiving,
                   bindTimer, bindAnswer, stream, serverInput>>

\* The connection is there, or not; AttachTcp stores Authenticating whatever
\* the state has become.
TcpConnected(ok) ==
    /\ Idle /\ tcp = "connecting"
    /\ tcp' = IF ok /\ ~stopRequested THEN "open" ELSE None
    /\ about' = IF stopRequested THEN None
                ELSE IF ok THEN "Authenticating" ELSE "Closed"
    /\ UNCHANGED <<gameVars, shared, posted, frames, server, udp, receiving,
                   bindTimer, bindAnswer, stream, serverInput>>

\* HandleTcpFrame: it does not look at stopRequested.
HandleWelcome ==
    /\ Idle /\ tcp = "open" /\ frames # <<>> /\ Head(frames) = "welcome"
    /\ frames' = Tail(frames)
    /\ about' = IF state = "Authenticating" THEN "BindingUdp" ELSE "ProtocolError"
    /\ UNCHANGED <<gameVars, shared, posted, tcp, server, udp, receiving,
                   bindTimer, bindAnswer, stream, serverInput>>

HandleError ==
    /\ Idle /\ tcp = "open" /\ frames # <<>> /\ Head(frames) = "error"
    /\ frames' = Tail(frames)
    /\ about' = "ProtocolError"
    /\ UNCHANGED <<gameVars, shared, posted, tcp, server, udp, receiving,
                   bindTimer, bindAnswer, stream, serverInput>>

HandleResult ==
    /\ Idle /\ tcp = "open" /\ frames # <<>> /\ Head(frames) = "result"
    /\ frames' = Tail(frames)
    /\ IF state \in {"BindingUdp", "Synchronizing", "Running"}
         THEN /\ result' = TRUE
              /\ bindTimer' \in TimerCancelled
              /\ udp' = IF udp = "open" THEN "closed" ELSE udp
              /\ receiving' = FALSE
              /\ about' = "Finished"
         ELSE /\ about' = "ProtocolError"
              /\ UNCHANGED <<result, bindTimer, udp, receiving>>
    /\ UNCHANGED <<gameVars, state, stopRequested, queue, posted, tcp, server,
                   bindAnswer, stream, serverInput>>

\* The server closed the connection, or it broke.
ReadEof ==
    /\ Idle /\ tcp = "open" /\ frames # <<>> /\ Head(frames) = "eof"
    /\ tcp' = "closed" /\ frames' = <<>>
    /\ posted' = Append(posted, Handler("closed"))
    /\ UNCHANGED <<gameVars, shared, about, server, udp, receiving, bindTimer,
                   bindAnswer, stream, serverInput>>

\* The transport's close handler.
HandleClosed ==
    /\ Idle /\ posted # <<>> /\ Head(posted).run = "closed"
    /\ posted' = Tail(posted)
    /\ about' = IF stopRequested \/ state \in {"Finished", "ProtocolError"}
                  THEN None ELSE "Closed"
    /\ UNCHANGED <<gameVars, shared, tcp, frames, server, udp, receiving,
                   bindTimer, bindAnswer, stream, serverInput>>

\* SendBind: the bind is sent while the session waits for its answer, and the
\* timer is armed to send it again, also when the queue of held-back datagrams is
\* full and the session fails.  (Its mutant sends once.)
Binds == ~stopRequested /\ state = "BindingUdp"
SendBindOnce(fits) ==
    /\ bindAnswer' = (bindAnswer \/ (Binds /\ bindTimer = "off"))
    /\ bindTimer' = "off"
    /\ about' = None
SendBind(fits) ==
    /\ bindAnswer' = (bindAnswer \/ (Binds /\ fits))
    /\ bindTimer' = IF Binds THEN "armed" ELSE "off"
    /\ about' = IF Binds /\ ~fits THEN "ProtocolError" ELSE None

\* The server's datagram address is resolved, or not.
UdpResolved(ok) ==
    /\ Idle /\ udp = "resolving"
    /\ IF ok /\ ~stopRequested
         THEN udp' = "open" /\ receiving' = TRUE /\ \E fits \in BOOLEAN : SendBind(fits)
         ELSE /\ udp' = None
              /\ about' = IF stopRequested THEN None ELSE "ProtocolError"
              /\ UNCHANGED <<receiving, bindTimer, bindAnswer>>
    /\ UNCHANGED <<gameVars, shared, posted, tcp, frames, server, stream, serverInput>>

BindTimerFires ==
    /\ Idle /\ bindTimer # "off"
    /\ \E fits \in BOOLEAN : SendBind(fits)
    /\ UNCHANGED <<gameVars, shared, posted, tcp, frames, server, udp,
                   receiving, stream, serverInput>>

\* The answer to a bind arrives, the last one of it or not.  The next receive
\* is started when the handler ends.
ReceiveBindAccepted ==
    /\ Idle /\ receiving /\ bindAnswer
    /\ bindAnswer' \in BOOLEAN
    /\ IF state = "BindingUdp"
         THEN /\ bindTimer' \in TimerCancelled
              /\ about' = "Synchronizing"
              /\ receiving' = FALSE
         ELSE /\ receiving' = ReceivesAgain
              /\ UNCHANGED <<bindTimer, about>>
    /\ UNCHANGED <<gameVars, shared, posted, tcp, frames, server, udp, stream, serverInput>>

\* The oldest snapshot makes room for the newest.  (In its mutant the newest
\* replaces the one before it.)
EnqueueOverNewest(snapshot) ==
    queue' = Append(IF Len(queue) >= QueueCapacity THEN Front(queue) ELSE queue, snapshot)
Enqueue(snapshot) ==
    queue' = Append(IF Len(queue) >= QueueCapacity THEN Tail(queue) ELSE queue, snapshot)

\* A newer snapshot is complete, with the actor in it or not, and with an
\* acknowledgement no older than the last.  It may reset the actor's interpolation
\* or not, whatever became of it: a delta names who left and came back since its
\* base and a keyframe since the world before it, or every actor.
ReceiveSnapshot(id, ack, present, reset) ==
    /\ Idle /\ receiving /\ server = "bound"
    /\ id > stream.id /\ ack \in stream.ack .. serverInput
    /\ receiving' = ReceivesAgain
    /\ IF state \in {"Synchronizing", "Running"}
         THEN LET back  == present /\ stream.stay = 0
                  stays == IF back THEN stream.stays + 1 ELSE stream.stays
                  stay  == IF present THEN stays ELSE 0
              IN  /\ stream' = [id |-> id, ack |-> ack, stay |-> stay, stays |-> stays]
                  /\ Enqueue([id |-> id, ack |-> ack, stay |-> stay, reset |-> reset])
         ELSE UNCHANGED <<stream, queue>>
    /\ UNCHANGED <<gameVars, state, stopRequested, result, posted, about, tcp, frames,
                   server, udp, bindTimer, bindAnswer, serverInput>>

\* An input the game thread posted: if it is sent, it arrives or is lost, or the
\* queue of held-back datagrams is full and the session fails.
HandleInput(outcome) ==
    LET sends == ~stopRequested /\ state = "Running" /\ udp = "open"
    IN  /\ Idle /\ posted # <<>> /\ Head(posted).run = "input"
        /\ posted' = Tail(posted)
        /\ serverInput' = IF sends /\ outcome = "arrives"
                            THEN Head(posted).sequence ELSE serverInput
        /\ about' = IF sends /\ outcome = "overflows" THEN "ProtocolError" ELSE None
        /\ UNCHANGED <<gameVars, shared, tcp, frames, server, udp, receiving,
                       bindTimer, bindAnswer, stream>>

\* CloseNetwork, posted by FailFromCaller, or by a Stop that waits for it.
HandleClose ==
    /\ Idle /\ posted # <<>> /\ Head(posted).run \in {"close", "closeAndTell"}
    /\ CloseNetwork(Tail(posted))
    /\ game' = IF Head(posted).run = "closeAndTell" THEN "frame" ELSE game
    /\ UNCHANGED <<batch, predictor, buffer, scene, shared, about, server,
                   bindAnswer, stream, serverInput>>

-----------------------------------------------------------------------------
(* The server and the network, as the session sees them. *)

ServerSends(from, to, sent) ==
    /\ server = from /\ tcp = "open"
    /\ server' = to
    /\ frames' = frames \o sent
    /\ UNCHANGED <<gameVars, shared, posted, about, tcp, udp, receiving,
                   bindTimer, bindAnswer, stream, serverInput>>

ServerWelcomes == ServerSends("hello", "welcomed", <<"welcome">>)
ServerRefuses == ServerSends("hello", "done", <<"error", "eof">>)
ServerEnds == ServerSends("welcomed", "done", <<"result", "eof">>)
              \/ ServerSends("bound", "done", <<"result", "eof">>)
ServerIsLost == \E from \in {"hello", "welcomed", "bound"} :
                    ServerSends(from, "done", <<"eof">>)

\* The server has a bind of the client; it answers each, and its snapshots follow.
ServerBinds ==
    /\ server = "welcomed" /\ bindAnswer
    /\ server' = "bound"
    /\ UNCHANGED <<gameVars, shared, posted, about, tcp, frames, udp, receiving,
                   bindTimer, bindAnswer, stream, serverInput>>

\* A bind or its answer is lost.
LoseBind ==
    /\ bindAnswer
    /\ bindAnswer' = FALSE
    /\ UNCHANGED <<gameVars, shared, posted, about, tcp, frames, server, udp,
                   receiving, bindTimer, stream, serverInput>>

-----------------------------------------------------------------------------
(* The game thread. *)

Start ==
    /\ game = "frame" /\ state = "Idle"
    /\ state' = "Connecting"
    /\ stopRequested' = FALSE
    /\ posted' = Append(posted, Handler("resolve"))
    /\ UNCHANGED <<gameVars, netVars, queue, result, stream, serverInput>>

\* FixedUpdate returns at once in a session that has ended, and else takes all
\* that is queued.
FixedUpdate ==
    /\ game = "frame" /\ state \notin Ended \cup {"Idle"}
    /\ predictor.issued < MaxInput
    /\ batch' = queue /\ queue' = <<>>
    /\ game' = "applying"
    /\ UNCHANGED <<predictor, buffer, scene, state, stopRequested, result, netVars,
                   posted, stream, serverInput>>

\* RemoteInterpolator: what it keeps when an actor is forgotten, when a snapshot
\* is pushed, and the two stays it interpolates between three ticks behind the
\* newest snapshot; a snapshot's tick is twice its id.
Forget(kept, snapshot) ==
    IF snapshot.reset
      THEN [i \in DOMAIN kept |-> [kept[i] EXCEPT !.stay = 0]] ELSE kept
Push(kept, snapshot) ==
    LET all == Append(kept, [id |-> snapshot.id, stay |-> snapshot.stay])
    IN  IF Len(all) > BufferCapacity THEN Tail(all) ELSE all
Sample(kept) ==
    LET Late(i) == 2 * kept[i].id + 3 >= 2 * Last(kept).id
        newer   == CHOOSE i \in DOMAIN kept :
                      Late(i) /\ \A j \in 1 .. i - 1 : ~Late(j)
    IN  IF newer = 1 THEN <<kept[1].stay, kept[1].stay>>
                     ELSE <<kept[newer - 1].stay, kept[newer].stay>>

Present(kept, snapshot) == Push(Forget(kept, snapshot), snapshot)

\* ClientPredictor::Reconcile: an acknowledgement older than the last does
\* nothing, else the inputs it covers leave the history.
Reconcile(acked, snapshot) == IF snapshot.ack < acked THEN acked ELSE snapshot.ack

\* The exchange of Synchronizing for Running succeeds, or finds Running.
MayRun == state \in {"Synchronizing", "Running"}

\* The drained snapshots, in the order of their ticks.  The first ever makes the
\* predictor and the session Running, unless it has ended meanwhile: then the
\* rest of them is dropped.
ApplyBatch ==
    /\ game = "applying"
    /\ batch' = <<>>
    /\ IF batch # <<>> /\ ~predictor.live /\ ~MayRun
         THEN /\ predictor' = [predictor EXCEPT !.live = TRUE]
              /\ game' = "frame"
              /\ UNCHANGED <<state, buffer, scene>>
         ELSE /\ predictor' = [predictor EXCEPT
                     !.live = predictor.live \/ batch # <<>>,
                     !.acked = FoldLeft(Reconcile, @, batch)]
              /\ buffer' = FoldLeft(Present, buffer, batch)
              /\ scene' = IF batch = <<>> THEN scene ELSE Sample(buffer')
              /\ state' = IF batch # <<>> /\ ~predictor.live THEN "Running" ELSE state
              /\ game' = IF predictor.live THEN "advancing" ELSE "frame"
    /\ UNCHANGED <<stopRequested, queue, result, netVars, posted, stream, serverInput>>

\* AdvanceTick throws when the history is full; the state is looked at once more
\* before it, and not after.
AdvanceTick ==
    /\ game = "advancing"
    /\ IF state # "Running"
         THEN game' = "frame" /\ UNCHANGED <<predictor, posted>>
         ELSE IF predictor.issued - predictor.acked >= HistoryCapacity
         THEN game' = "failing" /\ UNCHANGED <<predictor, posted>>
         ELSE /\ predictor' = [predictor EXCEPT !.issued = @ + 1]
              /\ posted' = Append(posted, InputHandler(predictor'.issued))
              /\ game' = "frame"
    /\ UNCHANGED <<batch, buffer, scene, shared, netVars, stream, serverInput>>

FailFromCaller ==
    /\ game = "failing"
    /\ state' = "ProtocolError"
    /\ posted' = Append(posted, Handler("close"))
    /\ game' = "frame"
    /\ UNCHANGED <<batch, predictor, buffer, scene, stopRequested, queue, result,
                   netVars, stream, serverInput>>

\* Stop, in three steps: the request, the state, and the wait for the network
\* thread, which HandleClose ends.  (StoreClosed's mutant posts nothing when the
\* transport is closed already.)
RequestStop ==
    /\ game = "frame" /\ state # "Idle" /\ ~stopRequested
    /\ stopRequested' = TRUE
    /\ game' = "stopping"
    /\ UNCHANGED <<batch, predictor, buffer, scene, state, queue, result, netVars,
                   posted, stream, serverInput>>

StoreClosedUnlessLost ==
    /\ game = "stopping"
    /\ state' = "Closed"
    /\ posted' = IF tcp = "closed" THEN posted ELSE Append(posted, Handler("closeAndTell"))
    /\ game' = "waiting"
    /\ UNCHANGED <<batch, predictor, buffer, scene, stopRequested, queue, result,
                   netVars, stream, serverInput>>
StoreClosed ==
    /\ game = "stopping"
    /\ state' = "Closed"
    /\ posted' = Append(posted, Handler("closeAndTell"))
    /\ game' = "waiting"
    /\ UNCHANGED <<batch, predictor, buffer, scene, stopRequested, queue, result,
                   netVars, stream, serverInput>>

-----------------------------------------------------------------------------
HandlePosted == \/ HandleResolve \/ HandleClosed \/ HandleClose
                \/ \E outcome \in {"arrives", "lost", "overflows"} : HandleInput(outcome)
Resolves == \E ok \in BOOLEAN : TcpResolved(ok) \/ TcpConnected(ok) \/ UdpResolved(ok)
HandleTcpFrame == HandleWelcome \/ HandleError \/ HandleResult \/ ReadEof
ReceiveUdp ==
    \/ ReceiveBindAccepted
    \/ \E id \in 1 .. MaxSnapshot, ack \in 0 .. MaxInput, present, reset \in BOOLEAN :
           ReceiveSnapshot(id, ack, present, reset)
NetworkThread == \/ Store \/ HandlePosted \/ Resolves \/ HandleTcpFrame
                 \/ BindTimerFires \/ ReceiveUdp
Server == \/ ServerWelcomes \/ ServerRefuses \/ ServerEnds \/ ServerIsLost
          \/ ServerBinds \/ LoseBind
GameThread == \/ Start \/ FixedUpdate \/ ApplyBatch \/ AdvanceTick
              \/ FailFromCaller \/ RequestStop \/ StoreClosed

Next == NetworkThread \/ Server \/ GameThread
Spec == Init /\ [][Next]_vars

\* The io_context runs every handler that is ready, the timer's too, and the
\* network delivers an answer that is sent again and again.  The game thread
\* finishes a call it has begun.
Fairness ==
    /\ WF_vars(Store) /\ WF_vars(HandlePosted) /\ WF_vars(Resolves)
    /\ WF_vars(HandleTcpFrame) /\ WF_vars(BindTimerFires)
    /\ SF_vars(ReceiveBindAccepted)
    /\ WF_vars(ApplyBatch) /\ WF_vars(AdvanceTick)
    /\ WF_vars(FailFromCaller) /\ WF_vars(StoreClosed)
FairSpec == Spec /\ Fairness

-----------------------------------------------------------------------------
(* Correctness. *)

\* Every variable has its type.
TypeOK ==
    /\ state \in States /\ about \in States \cup {None}
    /\ {stopRequested, receiving, bindAnswer, result} \subseteq BOOLEAN
    /\ tcp \in {None, "resolving", "connecting", "open", "closed"}
    /\ udp \in {None, "resolving", "open", "closed"}
    /\ bindTimer \in {"off", "armed", "late"}
    /\ queue \in Seq(Snapshots) /\ Len(queue) <= QueueCapacity
    /\ batch \in Seq(Snapshots) /\ Len(batch) <= QueueCapacity
    /\ game \in {"frame", "applying", "advancing", "failing", "stopping", "waiting"}
    /\ predictor \in [live : BOOLEAN, issued : 0 .. MaxInput, acked : 0 .. MaxInput]
    /\ serverInput \in 0 .. MaxInput
    /\ Len(buffer) <= BufferCapacity /\ scene \in Stay \X Stay

\* A session that has ended stays so, whichever thread ended it and whatever the
\* other one is in the middle of (GameSession.cpp:632's exchange against
\* :171, :265 and :705); only a Stop may still come and say Closed.
\* And nothing a handler stores after that (GameSession.cpp:737) lets the game
\* thread run the session again: no snapshot gets past the stop request to do it.
EndedIsFinal ==
    [][/\ ~stopRequested /\ state \in Ended => state' \in Ended
       /\ stopRequested /\ state # "Running" => state' # "Running"]_vars

\* What the game thread shows never slides an actor from where it was before it
\* left to where it came back, although a queue that overflows
\* (GameSession.cpp:526) may drop every snapshot without it.  Not the resets see to
\* it, but that Sample looks at two neighbours near the end of what is kept, and
\* that nothing is missing there.
SceneIsCurrent == scene[1] = scene[2] \/ 0 \in {scene[1], scene[2]}

\* A Stop that waits for the network thread (GameSession.cpp:751) returns.
StopReturns == game = "waiting" ~> game = "frame"

\* A session that binds its datagram address gets on or ends, however many binds
\* and answers are lost (GameSession.cpp:335).
BindResolves ==
    state = "BindingUdp" ~> state # "BindingUdp" \/ stopRequested

\* A test expects a session that was stopped to be Closed
\* (tests/game_session_integration_test.cpp:977).
StoppedIsClosed == stopRequested /\ game = "frame" => state = "Closed"

\* A test expects Finished to survive a FixedUpdate
\* (tests/game_session_integration_test.cpp:924): no step of the game thread's
\* call changes it.
FinishedSurvives ==
    [][state = "Finished" /\ ~stopRequested /\ game' # game => state' = "Finished"]_vars
=============================================================================
