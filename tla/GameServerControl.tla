-------------------------- MODULE GameServerControl --------------------------
(***************************************************************************)
(* The game server's side of the worker control channel (GameServer.cpp):  *)
(* one transport to the lobby at a time, at most one match, and what       *)
(* becomes of the match when the transport closes.  Each game server runs  *)
(* its io_context on one thread, so a handler is one atomic step.  What    *)
(* the match does between its start and its end is AuthoritativeMatch's    *)
(* business; here it may end at any time.                                  *)
(***************************************************************************)
EXTENDS ControlChannel

VARIABLES
    link,        \* the connection of controlTransport_, Nobody when it is reset
    linkState,   \* "Up", "Down", or "Closing": closed, with ControlClosed posted
    registered,  \* registered_
    hosted,      \* activeReservation_ and activeMatch_, set while match_ is
    toServer, toLobby

serverVars == <<link, linkState, registered, hosted>>

Init ==
    /\ link = [w \in Worker |-> Nobody]
    /\ linkState = [w \in Worker |-> "Down"]
    /\ registered = [w \in Worker |-> FALSE]
    /\ hosted = [w \in Worker |-> Nobody]

\* SendControl: nothing goes out on a closed transport.
Answered(w, msg) ==
    [toLobby EXCEPT ![link[w]] = IF linkState[w] = "Up" THEN Append(@, msg) ELSE @]

\* ConnectControl and AttachControl, which sends WorkerRegister first.
Connect(w, k) ==
    /\ linkState[w] = "Down"
    /\ link' = [link EXCEPT ![w] = k]
    /\ linkState' = [linkState EXCEPT ![w] = "Up"]
    /\ registered' = [registered EXCEPT ![w] = FALSE]
    /\ toLobby' = [toLobby EXCEPT ![k] = <<About("Register", w)>>]
    /\ UNCHANGED hosted

Frame(w) == Head(toServer[link[w]])

\* A frame reaches HandleControlFrame while the transport is open.
Arrives(w, t) ==
    /\ linkState[w] = "Up"
    /\ toServer[link[w]] # <<>>
    /\ Frame(w).type = t

Taken(w) == toServer' = [toServer EXCEPT ![link[w]] = Tail(@)]

\* No frame is delivered after the close.
CloseLink(w) ==
    /\ linkState' = [linkState EXCEPT ![w] = "Closing"]
    /\ toServer' = [toServer EXCEPT ![link[w]] = <<>>]

ReceiveRegistered(w) ==
    /\ Arrives(w, "Registered")
    /\ IF registered[w] \/ Frame(w).worker # w
       THEN CloseLink(w) /\ UNCHANGED <<link, registered, hosted, toLobby>>
       ELSE /\ Taken(w)
            /\ registered' = [registered EXCEPT ![w] = TRUE]
            /\ UNCHANGED <<link, linkState, hosted, toLobby>>

\* HandleReservation: AuthoritativeMatch::Create succeeds...  (A frame before
\* Registered closes the transport; the lobby sends none, FramesExpected.)
AcceptReservation(w) ==
    /\ Arrives(w, "Reserve") /\ registered[w]
    /\ hosted[w] = Nobody
    /\ Taken(w)
    /\ hosted' = [hosted EXCEPT ![w] = Frame(w).match]
    /\ toLobby' = Answered(w, For("Ready", Frame(w).match))
    /\ UNCHANGED <<link, linkState, registered>>

\* ... or throws; a server that has a match already is Busy.
RejectReservation(w) ==
    /\ Arrives(w, "Reserve") /\ registered[w]
    /\ Taken(w)
    /\ toLobby' = Answered(w, For("Rejected", Frame(w).match))
    /\ UNCHANGED serverVars

KeepMatch(w)    == hosted
DiscardMatch(w) == [hosted EXCEPT ![w] = Nobody]

\* A cancellation of anything but the current match closes the transport.
ReceiveCancel(w) ==
    /\ Arrives(w, "Cancel")
    /\ IF registered[w] /\ hosted[w] = Frame(w).match
       THEN /\ Taken(w)
            /\ hosted' = DiscardMatch(w)
            /\ toLobby' = Answered(w, For("Cancelled", Frame(w).match))
            /\ UNCHANGED <<link, linkState, registered>>
       ELSE CloseLink(w) /\ UNCHANGED <<link, registered, hosted, toLobby>>

\* RouteMatchResult with a completed match: the result goes out and the match
\* is discarded.
MatchEnds(w) ==
    /\ hosted[w] # Nobody
    /\ toLobby' = Answered(w, For("Finished", hosted[w]))
    /\ hosted' = DiscardMatch(w)
    /\ UNCHANGED <<link, linkState, registered, toServer>>

\* The transport closes: end of stream, an I/O error or a full write queue.
LinkFails(w) ==
    /\ linkState[w] = "Up"
    /\ CloseLink(w)
    /\ UNCHANGED <<link, registered, hosted, toLobby>>

MatchAfterClose(w) == DiscardMatch(w)

\* ControlClosed: the match dies with the transport, then the server reconnects.
ControlClosed(w) ==
    /\ linkState[w] = "Closing"
    /\ link' = [link EXCEPT ![w] = Nobody]
    /\ linkState' = [linkState EXCEPT ![w] = "Down"]
    /\ registered' = [registered EXCEPT ![w] = FALSE]
    /\ hosted' = MatchAfterClose(w)
    /\ UNCHANGED <<toServer, toLobby>>

\* The process dies and is started again.
Crash(w) ==
    /\ linkState[w] # "Down"
    /\ link' = [link EXCEPT ![w] = Nobody]
    /\ linkState' = [linkState EXCEPT ![w] = "Down"]
    /\ registered' = [registered EXCEPT ![w] = FALSE]
    /\ hosted' = DiscardMatch(w)
    /\ toServer' = [toServer EXCEPT ![link[w]] = <<>>]
    /\ UNCHANGED toLobby

HandleFrame(w) ==
    \/ ReceiveRegistered(w)
    \/ AcceptReservation(w)
    \/ RejectReservation(w)
    \/ ReceiveCancel(w)

\* Every variable has its type.
ServerTypeOK ==
    /\ link \in [Worker -> ControlId \cup {Nobody}]
    /\ linkState \in [Worker -> {"Up", "Down", "Closing"}]
    /\ registered \in [Worker -> BOOLEAN]
    /\ hosted \in [Worker -> Match \cup {Nobody}]

=============================================================================
