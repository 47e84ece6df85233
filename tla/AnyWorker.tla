----------------------------- MODULE AnyWorker -----------------------------
(***************************************************************************)
(* WorkerControl against game servers that may send anything about any     *)
(* reservation, at any time and more than once: what the registry's        *)
(* late-answer and protocol-violation branches are for, and what           *)
(* GameServerControl never does.  LobbyService is reduced to what it asks  *)
(* (a fresh reservation, the cancellation of one it waits for) and to the  *)
(* state it believes each match is in.                                     *)
(***************************************************************************)
EXTENDS WorkerControl

CONSTANT MaxInFlight   \* frames of one connection not yet read

VARIABLES
    speaker,  \* the game server that opened each connection
    fate,     \* LobbyService's view of each match
    disowned  \* reservations that a server which did not hold them has called
              \* cancelled since their timer was armed (history)

openVars == <<controlVars, speaker, fate, disowned>>

OpenInit ==
    /\ Init
    /\ speaker = [k \in ControlId |-> Nobody]
    /\ fate = [m \in Match |-> "New"]
    /\ disowned = {}

Quiet == inbox = <<>>

WorkerConnects(w) ==
    /\ Quiet
    /\ \E k \in ControlId :
          /\ Accept(k)
          /\ speaker' = [speaker EXCEPT ![k] = w]
    /\ UNCHANGED <<toLobby, fate, disowned>>

\* Any frame, in any order, about any reservation, the server's own or not.  One
\* whose two ids do not belong together is taken as one about another server's.
Frames(w) ==
    {About("Register", w)} \cup
    {For(t, m) : t \in {"Ready", "Rejected", "Cancelled", "Finished"}, m \in Match}

WorkerSends(k) ==
    /\ session[k] = "Open"
    /\ Len(toLobby[k]) < MaxInFlight
    /\ \E msg \in Frames(speaker[k]) :
          toLobby' = [toLobby EXCEPT ![k] = Append(@, msg)]
    /\ UNCHANGED <<nextControl, session, registryVars, timer, toServer, inbox,
                   speaker, fate, disowned>>

LobbyReserves(m) ==
    /\ Quiet
    /\ fate[m] = "New" /\ \A n \in Match : n < m => fate[n] # "New"
    /\ Reserve(m)
    /\ fate' = [fate EXCEPT ![m] = "Waiting"]
    /\ disowned' = disowned \ {m}
    /\ UNCHANGED speaker

LobbyCancels(m) ==
    /\ Quiet
    /\ fate[m] = "Waiting"
    /\ Cancel(m)
    /\ fate' = [fate EXCEPT ![m] = "Over"]
    /\ disowned' = disowned \ {m}
    /\ UNCHANGED speaker

LobbyTakes ==
    /\ inbox # <<>>
    /\ LET e == Head(inbox)
       IN  fate' = [fate EXCEPT ![e.match] = IF e.type = "Ready" THEN "Active" ELSE "Over"]
    /\ inbox' = Tail(inbox)
    /\ UNCHANGED <<nextControl, session, registryVars, timer, toServer, toLobby,
                   speaker, disowned>>

\* What the next frame on k disowns: an idle or playing server's Cancelled is
\* accepted without a look at what it names.
Disowned(k) ==
    {m \in Match : \E w \in Worker :
        /\ Received(k, w, "Ignore")
        /\ Head(toLobby[k]) = For("Cancelled", m) /\ wmatch[w] # m}

Channel ==
    /\ Quiet
    /\ \/ \E k \in ControlId : ControlStep(k) /\ disowned' = disowned \cup Disowned(k)
       \/ \E k \in ControlId : SessionFails(k) /\ UNCHANGED disowned
       \/ \E m \in Match : TimerFires(m) /\ UNCHANGED disowned
    /\ UNCHANGED <<speaker, fate>>

OpenNext ==
    \/ \E w \in Worker : WorkerConnects(w)
    \/ \E k \in ControlId : WorkerSends(k)
    \/ \E m \in Match : LobbyReserves(m) \/ LobbyCancels(m)
    \/ LobbyTakes
    \/ Channel

OpenSpec == OpenInit /\ [][OpenNext]_openVars

-----------------------------------------------------------------------------
(* Correctness. *)

\* Whoever owes the lobby an answer has a running timer that its own connection
\* owns, whatever the servers send, until another server calls the reservation
\* cancelled: HandleFrame takes the timer a Cancelled names, and does not ask
\* whose it is (WorkerControlServer.cpp:359).  A timer that outlived its
\* reservation can no longer reach a live worker.
OwedAnswersAreTimed ==
    /\ \A w \in Worker : wstate[w] \in {"Reserved", "Cancelling"} =>
          timer[wmatch[w]] = IF wmatch[w] \in disowned THEN Nobody ELSE wconn[w]
    /\ \A m \in Match : timer[m] # Nobody /\ tracked[m] = Nobody =>
          session[timer[m]] = "Closing"

\* Whatever the servers send, the lobby is told of a reservation's outcome once,
\* while it waits for it, and of the end of a match once, while it runs: a late,
\* repeated or crossed answer never becomes an event.
EventsInOrder ==
    \A i \in 1..Len(inbox) :
        LET e == inbox[i]
        IN  /\ e.type \in {"Failed", "Ready"} => fate[e.match] = "Waiting"
            /\ e.type \in {"Finished", "Unavailable"} => fate[e.match] = "Active"
            /\ \A j \in 1..Len(inbox) : inbox[j].match = e.match => i = j

\* Whatever the servers send, a match the lobby waits for or runs stays with the
\* worker that holds it until the event that says otherwise is on its way.
NothingForgotten ==
    \A m \in Match : fate[m] \in {"Waiting", "Active"} =>
        \/ \E i \in 1..Len(inbox) : inbox[i].match = m
        \/ \E w \in Worker :
              /\ wmatch[w] = m
              /\ wstate[w] = IF fate[m] = "Waiting" THEN "Reserved" ELSE "Active"

=============================================================================
