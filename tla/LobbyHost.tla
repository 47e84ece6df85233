------------------------------ MODULE LobbyHost ------------------------------
(***************************************************************************)
(* The client that hosts a network match: LobbyHostFlow, which turns the   *)
(* lobby's messages into the next request, and the part of                 *)
(* NetworkClientController around it that two threads share.  The lobby    *)
(* thread runs the handlers of the lobby connection; the main thread calls *)
(* Stop, which has to find every game session the lobby thread starts.     *)
(*                                                                         *)
(* A command is the request the flow asks for, "None", or "Throw" for the  *)
(* std::logic_error of a message that cannot be.                           *)
(***************************************************************************)
EXTENDS Naturals, FiniteSets

CONSTANT ExpectedPlayers   \* the option of the same name, the host included

Unset == 0   \* an empty optional

VARIABLES
    flow,         \* the members of LobbyHostFlow
    hostFailed,   \* failed, with what made it: "No", "Error", "Closed", "Throw"
    hostStop,     \* how far Stop is: "No", "Requested", "Posted", "Closed", "Done"
    hostGame      \* the GameSession: "None", "Started" by StartGame and not yet
                  \* stored, "Stored", "Stopped"

hostVars == <<flow, hostFailed, hostStop, hostGame>>

NewFlow == [player |-> Unset, room |-> Unset, readyRequested |-> FALSE,
            startRequested |-> FALSE, ticketReceived |-> FALSE]

Init ==
    /\ flow = NewFlow
    /\ hostFailed = "No" /\ hostStop = "No" /\ hostGame = "None"

\* Stop's exchange of stopRequested was made.
StopRequested == hostStop # "No"

\* Message and Connected do nothing for a controller that is over.
Listens == ~StopRequested /\ hostFailed = "No"

-----------------------------------------------------------------------------
(* LobbyHostFlow.  An error makes the flow terminal and the controller     *)
(* fail in one call, so no message reaches a terminal flow.                *)

OnWelcome(p) ==
    IF flow.player # Unset THEN [flow |-> flow, command |-> "Throw"]
    ELSE [flow |-> [flow EXCEPT !.player = p], command |-> "CreateRoom"]

\* The checks before anything of the flow changes.
Foreign(view) ==
    \/ flow.player = Unset
    \/ view.host # flow.player
    \/ Cardinality(view.members) > ExpectedPlayers
    \/ flow.room \notin {Unset, view.room}

\* The flow asks for the start again after its room was not full.
OnRoomSnapshotRetries(view) ==
    LET in == [flow EXCEPT !.room = view.room]
        all == Cardinality(view.members) = ExpectedPlayers
    IN  IF Foreign(view) \/ flow.player \notin view.members
        THEN [flow |-> flow, command |-> "Throw"]
        ELSE IF view.state # "Waiting" THEN [flow |-> in, command |-> "None"]
        ELSE IF flow.player \notin view.ready
        THEN [flow |-> [in EXCEPT !.readyRequested = TRUE],
              command |-> IF flow.readyRequested THEN "None" ELSE "SetReady"]
        ELSE IF all /\ view.members \subseteq view.ready
        THEN [flow |-> [in EXCEPT !.startRequested = TRUE],
              command |-> IF flow.startRequested THEN "None" ELSE "StartMatch"]
        ELSE [flow |-> [in EXCEPT !.startRequested = FALSE], command |-> "None"]

OnRoomSnapshot(view) ==
    LET in == [flow EXCEPT !.room = view.room]
        all == Cardinality(view.members) = ExpectedPlayers
    IN  IF Foreign(view) \/ flow.player \notin view.members
        THEN [flow |-> flow, command |-> "Throw"]
        ELSE IF view.state # "Waiting" THEN [flow |-> in, command |-> "None"]
        ELSE IF flow.player \notin view.ready
        THEN [flow |-> [in EXCEPT !.readyRequested = TRUE],
              command |-> IF flow.readyRequested THEN "None" ELSE "SetReady"]
        ELSE IF all /\ view.members \subseteq view.ready /\ ~flow.startRequested
        THEN [flow |-> [in EXCEPT !.startRequested = TRUE], command |-> "StartMatch"]
        ELSE [flow |-> in, command |-> "None"]

\* The controller starts its game session on the ticket (StartGame).
OnMatchTicket ==
    IF Unset \in {flow.player, flow.room} \/ ~flow.startRequested \/ flow.ticketReceived
    THEN [flow |-> flow, command |-> "Throw"]
    ELSE [flow |-> [flow EXCEPT !.ticketReceived = TRUE], command |-> "StartGame"]

\* A room list only tells a host in a match that its room was closed.
OnRoomList ==
    [flow |-> flow, command |-> IF flow.ticketReceived THEN "None" ELSE "Throw"]

-----------------------------------------------------------------------------
(* NetworkClientController.  Fail closes the lobby connection and gives up *)
(* the lobby thread's work; the module that composes this one closes it.   *)

\* Message, for everything but an ErrorResponse.
Obey(answer) ==
    /\ flow' = answer.flow
    /\ hostFailed' = IF answer.command = "Throw" THEN "Throw" ELSE hostFailed
    /\ hostGame' = IF answer.command = "StartGame" THEN "Started" ELSE hostGame
    /\ UNCHANGED hostStop

Fail(reason) ==
    /\ hostFailed' = IF hostFailed = "No" THEN reason ELSE hostFailed
    /\ UNCHANGED <<flow, hostStop, hostGame>>

\* The end of StartGame, under sessionMutex: a session that Stop can no longer
\* find is stopped here.
StoreSessionAlways ==
    /\ hostGame = "Started"
    /\ hostGame' = "Stored"
    /\ UNCHANGED <<flow, hostFailed, hostStop>>
StoreSession ==
    /\ hostGame = "Started"
    /\ hostGame' = IF StopRequested THEN "Stopped" ELSE "Stored"
    /\ UNCHANGED <<flow, hostFailed, hostStop>>

\* Stop on the main thread: the flag; the session, with the close posted to the
\* lobby thread; and the join of a thread whose work has run out.
RequestStop ==
    /\ hostStop = "No"
    /\ hostStop' = "Requested"
    /\ UNCHANGED <<flow, hostFailed, hostGame>>

StopSession ==
    /\ hostStop = "Requested"
    /\ hostStop' = "Posted"
    /\ hostGame' = IF hostGame = "Stored" THEN "Stopped" ELSE hostGame
    /\ UNCHANGED <<flow, hostFailed>>

\* The posted handler, which waits for the handler that is running.
CloseOnThread ==
    /\ hostStop = "Posted" /\ hostGame # "Started"
    /\ hostStop' = "Closed"
    /\ UNCHANGED <<flow, hostFailed, hostGame>>

Join ==
    /\ hostStop = "Closed"
    /\ hostStop' = "Done"
    /\ UNCHANGED <<flow, hostFailed, hostGame>>

=============================================================================
