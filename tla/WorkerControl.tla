---------------------------- MODULE WorkerControl ----------------------------
(***************************************************************************)
(* The lobby's side of the worker control channel: WorkerRegistry (which   *)
(* game servers are known, and what each is reserved for) together with    *)
(* WorkerControlServer (TCP sessions and reservation timers).              *)
(*                                                                         *)
(* Everything runs on the lobby's one io_context thread.  Route hands the  *)
(* registry's events to LobbyService in the same call; "inbox" holds them, *)
(* and no other step of the lobby happens until it is empty.               *)
(***************************************************************************)
EXTENDS ControlChannel

Event == [type : {"Failed", "Ready", "Finished", "Unavailable"},
          worker : Worker \cup {Nobody}, match : Match]

WorkerState == {"Absent", "Idle", "Reserved", "Cancelling", "Active"}

VARIABLES
    nextControl,  \* nextConnection_
    session,      \* TCP session of each connection: None, Open, Closing, Gone
    wstate,       \* WorkerRecord::state; "Absent" when workers_ has no such key
    wconn,        \* WorkerRecord::connection; connections_ is its inverse
    wmatch,       \* WorkerRecord::reservation and ::match
    tracked,      \* reservations_: the worker of each tracked reservation
    timer,        \* timers_: the connection that owns the reservation's timer
    toServer, toLobby,
    inbox         \* events LobbyService has yet to handle in this call

registryVars == <<wstate, wconn, wmatch, tracked>>
controlVars == <<nextControl, session, registryVars, timer, toServer, toLobby,
                 inbox>>

Init ==
    /\ nextControl = 1
    /\ session = [k \in ControlId |-> "None"]
    /\ wstate = [w \in Worker |-> "Absent"]
    /\ wconn = [w \in Worker |-> Nobody]
    /\ wmatch = [w \in Worker |-> Nobody]
    /\ tracked = [m \in Match |-> Nobody]
    /\ timer = [m \in Match |-> Nobody]
    /\ toServer = [k \in ControlId |-> <<>>]
    /\ toLobby = [k \in ControlId |-> <<>>]
    /\ inbox = <<>>

\* AsioFramedConnection::Send returns false on a closed connection.
Sent(k, msg) ==
    [toServer EXCEPT ![k] = IF session[k] = "Open" THEN Append(@, msg) ELSE @]

UnreservedWorkers == {w \in Worker : wstate[w] \in {"Idle", "Cancelling"}}
IdleWorkers == {w \in Worker : wstate[w] = "Idle"}
First(S)    == CHOOSE w \in S : \A v \in S : w <= v

-----------------------------------------------------------------------------
(* Execute: what LobbyService asks for, inside the lobby's step. *)


Reserve(m) ==
    \/ /\ IdleWorkers # {}
       /\ LET w == First(IdleWorkers)
          IN  /\ wstate' = [wstate EXCEPT ![w] = "Reserved"]
              /\ wmatch' = [wmatch EXCEPT ![w] = m]
              /\ tracked' = [tracked EXCEPT ![m] = w]
              /\ timer' = [timer EXCEPT ![m] = wconn[w]]
              /\ toServer' = Sent(wconn[w], For("Reserve", m))
       /\ UNCHANGED <<nextControl, session, wconn, toLobby, inbox>>
    \/ /\ IdleWorkers = {}
       /\ inbox' = Append(inbox, [type |-> "Failed", worker |-> Nobody, match |-> m])
       /\ UNCHANGED <<nextControl, session, registryVars, timer, toServer, toLobby>>

\* The reservation to cancel is always tracked by a Reserved worker: Starting
\* rooms have one (LobbyAndRegistryAgree), so Cancel's early returns are dead.
TimerDropped(m) == [timer EXCEPT ![m] = Nobody]
Rearmed(m) == [timer EXCEPT ![m] = wconn[tracked[m]]]

Cancel(m) ==
    LET w == tracked[m]
    IN  /\ w # Nobody
        /\ wstate[w] = "Reserved" /\ wmatch[w] = m
        /\ wstate' = [wstate EXCEPT ![w] = "Cancelling"]
        /\ timer' = Rearmed(m)
        /\ toServer' = Sent(wconn[w], For("Cancel", m))
        /\ UNCHANGED <<nextControl, session, wconn, wmatch, tracked, toLobby, inbox>>

-----------------------------------------------------------------------------
(* The registry's ways out of a reservation, as next values. *)

\* ClearReservation.
Cleared(w) ==
    /\ wstate' = [wstate EXCEPT ![w] = "Idle"]
    /\ wmatch' = [wmatch EXCEPT ![w] = Nobody]
    /\ tracked' = [m \in Match |-> IF m = wmatch[w] THEN Nobody ELSE tracked[m]]
    /\ wconn' = wconn

\* Disconnect: the record goes; a Reserved worker fails its reservation and an
\* Active one loses its match, a Cancelling one owes the lobby nothing.
LossEventsOfActive(w) ==
    IF wstate[w] = "Active"
    THEN <<[type |-> "Unavailable", worker |-> w, match |-> wmatch[w]]>>
    ELSE <<>>

LossEvents(w) ==
    CASE wstate[w] = "Reserved" ->
             <<[type |-> "Failed", worker |-> Nobody, match |-> wmatch[w]]>>
      [] wstate[w] = "Active" ->
             <<[type |-> "Unavailable", worker |-> w, match |-> wmatch[w]]>>
      [] OTHER -> <<>>

Dropped(w) ==
    /\ wstate' = [wstate EXCEPT ![w] = "Absent"]
    /\ wmatch' = [wmatch EXCEPT ![w] = Nobody]
    /\ wconn' = [wconn EXCEPT ![w] = Nobody]
    /\ tracked' = [m \in Match |-> IF m = wmatch[w] THEN Nobody ELSE tracked[m]]
    /\ inbox' = inbox \o LossEvents(w)

\* Route cancels the timer of the reservation a Failed event names.
TimersAfterLoss(w) ==
    [m \in Match |-> IF wstate[w] = "Reserved" /\ m = wmatch[w] THEN Nobody
                     ELSE timer[m]]

\* A frame is never delivered to a closed session.
Closed(k) ==
    /\ session' = [session EXCEPT ![k] = "Closing"]
    /\ toLobby' = [toLobby EXCEPT ![k] = <<>>]

Consumed(k) == toLobby' = [toLobby EXCEPT ![k] = Tail(@)]

-----------------------------------------------------------------------------
(* Sessions. *)

\* The accept handler.
Accept(k) ==
    /\ k = nextControl /\ k \in ControlId
    /\ nextControl' = k + 1
    /\ session' = [session EXCEPT ![k] = "Open"]
    /\ UNCHANGED <<registryVars, timer, toServer, inbox>>

HasFrame(k)     == session[k] = "Open" /\ toLobby[k] # <<>>
Unregistered(k) == \A w \in Worker : wconn[w] # k

\* WorkerRegistry::Register; a worker id that is still known is refused.
ReceiveRegister(k) ==
    LET w == Head(toLobby[k]).worker
    IN  /\ HasFrame(k) /\ Unregistered(k)
        /\ Head(toLobby[k]).type = "Register"
        /\ IF wstate[w] = "Absent"
           THEN /\ wstate' = [wstate EXCEPT ![w] = "Idle"]
                /\ wconn' = [wconn EXCEPT ![w] = k]
                /\ toServer' = Sent(k, About("Registered", w))
                /\ Consumed(k)
                /\ UNCHANGED <<nextControl, session, wmatch, tracked, timer, inbox>>
           ELSE /\ Closed(k)
                /\ UNCHANGED <<nextControl, registryVars, timer, toServer, inbox>>

\* What Receive makes of a frame from a registered worker: a worker that has
\* moved on ignores late answers, anything it could not mean closes it.
VerdictReadyRevives(w, msg) ==
    LET s == wstate[w]
        mine == wmatch[w] = msg.match
    IN  CASE msg.type = "Ready" /\ s \in {"Reserved", "Cancelling"} /\ mine -> "Activate"
          [] msg.type = "Rejected" /\ s = "Reserved" /\ mine     -> "Fail"
          [] msg.type = "Cancelled" /\ s = "Cancelling" /\ mine  -> "Release"
          [] msg.type = "Finished" /\ s = "Active" /\ mine       -> "Finish"
          [] OTHER -> "Ignore"

Verdict(w, msg) ==
    LET s == wstate[w]
        mine == wmatch[w] = msg.match
    IN  CASE msg.type = "Ready" /\ s = "Reserved" /\ mine        -> "Activate"
          [] msg.type = "Rejected" /\ s = "Reserved" /\ mine     -> "Fail"
          [] msg.type = "Cancelled" /\ s = "Cancelling" /\ mine  -> "Release"
          [] msg.type = "Finished" /\ s = "Active" /\ mine       -> "Finish"
          [] msg.type # "Register" /\ s = "Idle"                 -> "Ignore"
          [] msg.type = "Cancelled" /\ s = "Active"              -> "Ignore"
          [] msg.type \in {"Ready", "Rejected"} /\ mine
                 /\ s \in {"Cancelling", "Active"}               -> "Ignore"
          [] OTHER                                               -> "Violation"

Received(k, w, verdict) ==
    /\ HasFrame(k)
    /\ wconn[w] = k
    /\ Verdict(w, Head(toLobby[k])) = verdict

\* Route cancels the timer of a reservation that became ready or failed, and
\* HandleFrame the one an accepted acknowledgement names.
Disarmed(m) == [timer EXCEPT ![m] = Nobody]

ReceiveReady(k, w) ==
    LET m == Head(toLobby[k]).match
    IN  /\ Received(k, w, "Activate")
        /\ wstate' = [wstate EXCEPT ![w] = "Active"]
        /\ tracked' = [tracked EXCEPT ![m] = Nobody]
        /\ timer' = Disarmed(m)
        /\ inbox' = Append(inbox, [type |-> "Ready", worker |-> w, match |-> m])
        /\ Consumed(k)
        /\ UNCHANGED <<nextControl, session, wconn, wmatch, toServer>>

ReceiveRejected(k, w) ==
    LET m == Head(toLobby[k]).match
    IN  /\ Received(k, w, "Fail")
        /\ Cleared(w)
        /\ timer' = Disarmed(m)
        /\ inbox' = Append(inbox, [type |-> "Failed", worker |-> Nobody, match |-> m])
        /\ Consumed(k)
        /\ UNCHANGED <<nextControl, session, toServer>>

ReceiveCancelled(k, w) ==
    /\ Received(k, w, "Release")
    /\ Cleared(w)
    /\ timer' = Disarmed(Head(toLobby[k]).match)
    /\ Consumed(k)
    /\ UNCHANGED <<nextControl, session, toServer, inbox>>

ReceiveFinished(k, w) ==
    LET m == Head(toLobby[k]).match
    IN  /\ Received(k, w, "Finish")
        /\ Cleared(w)
        /\ inbox' = Append(inbox, [type |-> "Finished", worker |-> w, match |-> m])
        /\ Consumed(k)
        /\ UNCHANGED <<nextControl, session, timer, toServer>>

ReceiveLate(k, w) ==
    /\ Received(k, w, "Ignore")
    /\ timer' = IF Head(toLobby[k]).type = "Cancelled"
                THEN Disarmed(Head(toLobby[k]).match) ELSE timer
    /\ Consumed(k)
    /\ UNCHANGED <<nextControl, session, registryVars, toServer, inbox>>

\* CloseForProtocolViolation.
ReceiveViolation(k, w) ==
    /\ Received(k, w, "Violation")
    /\ Dropped(w)
    /\ timer' = TimersAfterLoss(w)
    /\ Closed(k)
    /\ UNCHANGED <<nextControl, toServer>>

\* A session that sends anything but its registration first is closed.
ReceiveUnregistered(k) ==
    /\ HasFrame(k) /\ Unregistered(k)
    /\ Head(toLobby[k]).type # "Register"
    /\ Closed(k)
    /\ UNCHANGED <<nextControl, registryVars, timer, toServer, inbox>>

\* The transport closes on this side: an I/O error, the peer's end of stream,
\* or a full write queue.  SessionClosed is posted and runs later.
SessionFails(k) ==
    /\ session[k] = "Open"
    /\ Closed(k)
    /\ UNCHANGED <<nextControl, registryVars, timer, toServer, inbox>>

SessionClosed(k) ==
    /\ session[k] = "Closing"
    /\ session' = [session EXCEPT ![k] = "Gone"]
    /\ timer' = [m \in Match |-> IF timer[m] = k THEN Nobody ELSE timer[m]]
    /\ \/ \E w \in Worker : wconn[w] = k /\ Dropped(w)
       \/ Unregistered(k) /\ UNCHANGED <<registryVars, inbox>>
    /\ UNCHANGED <<nextControl, toServer, toLobby>>

\* WorkerRegistry::Timeout: the whole worker is dropped and its session closed,
\* whether it owes the lobby an answer to a start or to a cancellation.
TimerFires(m) ==
    LET w == tracked[m]
    IN  /\ timer[m] # Nobody
        /\ IF w = Nobody
           THEN /\ timer' = Disarmed(m)
                /\ UNCHANGED <<session, registryVars, toLobby, inbox>>
           ELSE /\ Dropped(w)
                /\ timer' = Disarmed(m)
                /\ Closed(wconn[w])
        /\ UNCHANGED <<nextControl, toServer>>

\* One lobby-side step of the channel on connection k.
ControlStep(k) ==
    \/ ReceiveRegister(k)
    \/ ReceiveUnregistered(k)
    \/ \E w \in Worker :
          \/ ReceiveReady(k, w)
          \/ ReceiveRejected(k, w)
          \/ ReceiveCancelled(k, w)
          \/ ReceiveFinished(k, w)
          \/ ReceiveLate(k, w)
          \/ ReceiveViolation(k, w)
    \/ SessionClosed(k)

-----------------------------------------------------------------------------
(* Correctness. *)

\* Every variable has its type.
ControlTypeOK ==
    /\ nextControl \in 1..(MaxControl + 1)
    /\ session \in [ControlId -> {"None", "Open", "Closing", "Gone"}]
    /\ wstate \in [Worker -> WorkerState]
    /\ wconn \in [Worker -> ControlId \cup {Nobody}]
    /\ wmatch \in [Worker -> Match \cup {Nobody}]
    /\ tracked \in [Match -> Worker \cup {Nobody}]
    /\ timer \in [Match -> ControlId \cup {Nobody}]
    /\ toServer \in [ControlId -> Seq(Message)]
    /\ toLobby \in [ControlId -> Seq(Message)]
    /\ inbox \in Seq(Event)

\* The registry is well formed, and its three maps agree: a worker holds a reservation or match
\* exactly when its state says so, reservations_ names exactly the workers that
\* owe an answer, and no two workers share a connection or a match.
RegistryAgrees ==
    /\ ControlTypeOK
    /\ \A w \in Worker :
          /\ wstate[w] = "Absent" <=> wconn[w] = Nobody
          /\ wmatch[w] # Nobody <=> wstate[w] \in {"Reserved", "Cancelling", "Active"}
    /\ \A m \in Match, w \in Worker :
          tracked[m] = w <=> wmatch[w] = m /\ wstate[w] \in {"Reserved", "Cancelling"}
    /\ \A v, w \in Worker : v # w =>
          /\ wconn[v] = wconn[w] => wconn[v] = Nobody
          /\ wmatch[v] = wmatch[w] => wmatch[v] = Nobody

=============================================================================
