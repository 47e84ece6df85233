---------------------------- MODULE GameSessions ----------------------------
(***************************************************************************)
(* The game server's players (GameServer.cpp): their TCP sessions and      *)
(* authentication timers, the match they play in, its timer, and the       *)
(* datagrams that reach it.  One match follows another on the same server, *)
(* while sessions, timers and datagrams of earlier ones still arrive.      *)
(***************************************************************************)
EXTENDS AuthoritativeMatch, Sequences

VARIABLES
  up,            \* FALSE once an exception has left the event loop
  match,         \* match_: the current match, or None
  gameSessions,  \* by connection: the accepted session, or None
  accepted,      \* how many connections were accepted (nextGameConnection_ - 1)
  authTimers,    \* the connections whose authentication timer runs
  timer,         \* whether the match timer is armed, at NextDeadline
  fired,         \* the matches (generations) with a timer handler in the queue
  welcomed,      \* by connection: the match and player its welcome named
  outcomes       \* by match: how it ended, in order

matchVars == <<match, timer, outcomes>>
sessionVars == <<gameSessions, accepted, authTimers, welcomed>>
vars == <<up, matchVars, sessionVars, fired>>

Links == {"open", "flushing", "closed"}
ServerSessions == [authenticated : BOOLEAN, link : Links]
\* None is a value of its own: no match, and no session of either kind.
ASSUME NoneAssumption == None \notin MatchStates \cup PlayerSessions \cup ServerSessions

Hellos == [match : Matches, player : Players, ticket : Players]

Issued == {i \in Matches : outcomes[i] # <<>>} \cup (IF match = None THEN {} ELSE {match.id})
Reading(c) == gameSessions[c] # None /\ gameSessions[c].link # "closed"

\* CloseAfterFlush on some connections, Close on all of them.
Flushed(gs, cs) ==
  [c \in Connections |-> IF c \in cs /\ gs[c] # None /\ gs[c].link = "open"
                           THEN [gs[c] EXCEPT !.link = "flushing"] ELSE gs[c]]
AllClosed(gs) ==
  [c \in Connections |-> IF gs[c] # None THEN [gs[c] EXCEPT !.link = "closed"] ELSE gs[c]]
Marked(gs, c) == [gs EXCEPT ![c].authenticated = TRUE]

Init ==
  /\ up = TRUE /\ match = None /\ timer = FALSE /\ fired = {}
  /\ gameSessions = [c \in Connections |-> None]
  /\ accepted = 0 /\ authTimers = {}
  /\ welcomed = [c \in Connections |-> None]
  /\ outcomes = [i \in Matches |-> <<>>]

-----------------------------------------------------------------------------
(* DiscardMatch, and what becomes of a result of the match: if it finished,
   the server reports and discards it, and otherwise it arms the timer anew. *)
Discard(reason) ==
  /\ match' = None /\ timer' = FALSE
  /\ outcomes' = [outcomes EXCEPT ![match.id] = Append(@, reason)]

\* Mutant: the timer is not armed anew.
RouteWithoutTimer(m) ==
  IF Terminal(m) THEN Discard(m.ending)
  ELSE match' = m /\ UNCHANGED <<timer, outcomes>>
RouteMatchResult(m) ==
  IF Terminal(m) THEN Discard(m.ending)
  ELSE match' = m /\ timer' = TRUE /\ UNCHANGED outcomes

\* Who is sent the winner, and then closed.
Dismissed(m) == IF m.ending = "Winner" THEN Connected(m) ELSE {}

-----------------------------------------------------------------------------
(* The lobby's frames and the loss of its connection. *)
Reserve(i) ==
  /\ up /\ match = None /\ i \notin Issued
  /\ \A j \in Matches : j < i => j \in Issued
  /\ match' = Create(i) /\ timer' = TRUE
  /\ UNCHANGED <<up, outcomes, sessionVars, fired>>

CloseAllGameSessions ==
  /\ gameSessions' = AllClosed(gameSessions) /\ authTimers' = {}
  /\ UNCHANGED <<accepted, welcomed>>

Cancel ==
  /\ up /\ match # None
  /\ Discard("Cancelled")
  /\ CloseAllGameSessions
  /\ UNCHANGED <<up, fired>>

ControlClosed ==
  /\ up
  /\ IF match = None THEN UNCHANGED matchVars ELSE Discard("LinkLost")
  /\ CloseAllGameSessions
  /\ UNCHANGED <<up, fired>>

-----------------------------------------------------------------------------
(* TCP sessions. *)
AcceptGameSession ==
  /\ up /\ accepted + 1 \in Connections
  /\ accepted' = accepted + 1
  /\ gameSessions' = [gameSessions EXCEPT
                        ![accepted + 1] = [authenticated |-> FALSE, link |-> "open"]]
  /\ authTimers' = authTimers \cup {accepted + 1}
  /\ UNCHANGED <<up, matchVars, welcomed, fired>>

AuthenticationTimeout(c) ==
  /\ up /\ c \in authTimers
  /\ authTimers' = authTimers \ {c}
  /\ gameSessions' = IF gameSessions[c] # None /\ ~gameSessions[c].authenticated
                       THEN [gameSessions EXCEPT ![c].link = "closed"]
                       ELSE gameSessions
  /\ UNCHANGED <<up, matchVars, accepted, welcomed, fired>>

\* The connection fails, or its peer closes it, or it carries no frame the
\* codec accepts.
LinkFails(c) ==
  /\ up /\ Reading(c)
  /\ gameSessions' = [gameSessions EXCEPT ![c].link = "closed"]
  /\ UNCHANGED <<up, matchVars, accepted, authTimers, welcomed, fired>>

\* The last queued frame was written.
FlushDone(c) ==
  /\ up /\ gameSessions[c] # None /\ gameSessions[c].link = "flushing"
  /\ gameSessions' = [gameSessions EXCEPT ![c].link = "closed"]
  /\ UNCHANGED <<up, matchVars, accepted, authTimers, welcomed, fired>>

\* An error is sent, and the session closed behind it.
Dismiss(c) ==
  /\ gameSessions' = Flushed(gameSessions, {c})
  /\ authTimers' = authTimers \ {c}
  /\ UNCHANGED <<accepted, welcomed>>

\* A frame of a session already authenticated, or with no match to join.
FrameOutOfPlace(c) ==
  /\ up /\ Reading(c)
  /\ gameSessions[c].authenticated \/ match = None
  /\ Dismiss(c)
  /\ UNCHANGED <<up, matchVars, fired>>

HelloRejected(c, hello) ==
  /\ up /\ Reading(c) /\ ~gameSessions[c].authenticated /\ match # None
  /\ LET m == Observe(match)
     IN  ~Admits(m, c, hello) /\ RouteMatchResult(m)
  /\ Dismiss(c)
  /\ UNCHANGED <<up, fired>>

\* The source of tokens fails, or the roster refuses the connection.
HelloRefused(c, hello) ==
  /\ up /\ Reading(c) /\ ~gameSessions[c].authenticated /\ match # None
  /\ LET m == Observe(match)
     IN  Admits(m, c, hello) /\ RouteMatchResult(Refuse(m, hello.player))
  /\ Dismiss(c)
  /\ UNCHANGED <<up, fired>>

HelloAccepted(c, hello) ==
  /\ up /\ Reading(c) /\ ~gameSessions[c].authenticated /\ match # None
  /\ LET m == Observe(match)
     IN  /\ Admits(m, c, hello) /\ ~ConnectionInUse(m, c)
         /\ RouteMatchResult(Welcome(m, c, hello.player))
  /\ gameSessions' = Marked(gameSessions, c)
  /\ authTimers' = authTimers \ {c}
  /\ welcomed' = [welcomed EXCEPT ![c] = [match |-> match.id, player |-> hello.player]]
  /\ UNCHANGED <<up, accepted, fired>>

\* The posted close handler of a session.
GameSessionClosed(c) ==
  /\ up /\ gameSessions[c] # None /\ gameSessions[c].link = "closed"
  /\ gameSessions' = [gameSessions EXCEPT ![c] = None]
  /\ authTimers' = authTimers \ {c}
  /\ IF gameSessions[c].authenticated /\ match # None
       THEN RouteMatchResult(Disconnect(match, c))
       ELSE UNCHANGED matchVars
  /\ UNCHANGED <<up, accepted, welcomed, fired>>

-----------------------------------------------------------------------------
(* Datagrams: any a welcomed client may have sent, late, again or never. *)
BindArrives(c, peer) ==
  /\ up /\ match # None /\ welcomed[c] # None
  /\ LET p == welcomed[c].player
     IN  /\ HasSession(match, welcomed[c].match, p, c) /\ MayBind(match, p, peer)
         /\ RouteMatchResult(Bind(match, p, peer))
  /\ UNCHANGED <<up, sessionVars, fired>>

InputArrives(c, peer, sequence, usable) ==
  /\ up /\ match # None /\ welcomed[c] # None
  /\ LET p == welcomed[c].player
     IN  /\ HasSession(match, welcomed[c].match, p, c)
         /\ MayInput(match, p, peer, sequence)
         /\ RouteMatchResult(Input(match, p, sequence, usable))
  /\ UNCHANGED <<up, sessionVars, fired>>

\* An input acknowledging a snapshot the replicator never sent its player.
BadAcknowledgement(c, peer, sequence) ==
  /\ up /\ match # None /\ welcomed[c] # None
  /\ LET p == welcomed[c].player
     IN  /\ HasSession(match, welcomed[c].match, p, c)
         /\ MayInput(match, p, peer, sequence)
  /\ RouteMatchResult(match)
  /\ Dismiss(c)
  /\ UNCHANGED <<up, fired>>

-----------------------------------------------------------------------------
(* Time and the match timer. *)
Tick ==
  /\ up /\ match # None
  /\ match' = TimePasses(match)
  /\ UNCHANGED <<up, timer, outcomes, sessionVars, fired>>

TimerFires ==
  /\ up /\ timer /\ DeadlinePassed(match)
  /\ timer' = FALSE /\ fired' = fired \cup {match.id}
  /\ UNCHANGED <<up, match, outcomes, sessionVars>>

\* A handler of a match that is gone does nothing.
StaleTimer ==
  /\ up
  /\ \E i \in fired : (match # None => match.id # i) /\ fired' = fired \ {i}
  /\ UNCHANGED <<up, matchVars, sessionVars>>

Advance ==
  /\ up /\ match # None /\ match.id \in fired
  /\ fired' = fired \ {match.id}
  /\ LET m == Clocked(match)
     IN  /\ ~(m.started /\ StepThrows(m))
         /\ \E after \in Advanced(m) :
              /\ RouteMatchResult(after)
              /\ gameSessions' = Flushed(gameSessions, Dismissed(after))
              /\ authTimers' = authTimers \ Dismissed(after)
  /\ UNCHANGED <<up, accepted, welcomed>>

\* The simulation refuses to lose every living contender, and the exception
\* ends the process.
AdvanceThrows ==
  /\ up /\ match # None /\ match.id \in fired
  /\ LET m == Clocked(match) IN m.started /\ StepThrows(m)
  /\ up' = FALSE /\ match' = None /\ timer' = FALSE /\ fired' = {}
  /\ outcomes' = [outcomes EXCEPT ![match.id] = Append(@, "ServerDied")]
  /\ gameSessions' = [c \in Connections |-> None] /\ authTimers' = {}
  /\ UNCHANGED <<accepted, welcomed>>

-----------------------------------------------------------------------------
Next ==
  \/ \E i \in Matches : Reserve(i)
  \/ Cancel
  \/ ControlClosed
  \/ AcceptGameSession
  \/ \E c \in Connections :
       \/ AuthenticationTimeout(c)
       \/ LinkFails(c)
       \/ FlushDone(c)
       \/ FrameOutOfPlace(c)
       \/ \E hello \in Hellos :
            HelloRejected(c, hello) \/ HelloRefused(c, hello) \/ HelloAccepted(c, hello)
       \/ GameSessionClosed(c)
       \/ \E peer \in Peers :
            \/ BindArrives(c, peer)
            \/ \E sequence \in 1..MaxInput :
                 \/ \E usable \in BOOLEAN : InputArrives(c, peer, sequence, usable)
                 \/ BadAcknowledgement(c, peer, sequence)
  \/ Tick
  \/ TimerFires
  \/ StaleTimer
  \/ Advance
  \/ AdvanceThrows

Spec == Init /\ [][Next]_vars

(* Time goes by and the event loop runs the match timer's handler; that a
   client speaks, leaves or sends anything is never assumed. *)
Fairness == WF_vars(Tick) /\ WF_vars(TimerFires) /\ WF_vars(Advance \/ AdvanceThrows)

FairSpec == Spec /\ Fairness

-----------------------------------------------------------------------------
(* The types of the server's state. *)
TypeOK ==
  /\ up \in BOOLEAN /\ timer \in BOOLEAN
  /\ match \in MatchStates \cup {None}
  /\ gameSessions \in [Connections -> ServerSessions \cup {None}]
  /\ accepted \in {0} \cup Connections
  /\ authTimers \subseteq Connections /\ fired \subseteq Matches
  /\ welcomed \in [Connections -> [match : Matches, player : Players] \cup {None}]
  /\ DOMAIN outcomes = Matches

(* A match that has not started waits for somebody, and exactly for those whose
   tickets are still live: nobody can spend a ticket without being resolved, and
   nobody stays pending whose ticket is gone (AuthoritativeMatch.cpp:257-293). *)
WaitsForTickets ==
  match # None =>
    /\ Slots(match, "Pending") = match.tickets
    /\ ~match.started => match.tickets # {}

(* The match's three accounts of who plays agree: a connection leads to a player
   whose session leads back to it, and these are the authenticated slots. *)
ParticipantsAgree ==
  match # None =>
    /\ \A p \in Players :
         match.slot[p] = "Authenticated" <=>
           match.sessions[p] # None /\ match.sessions[p].connected
    /\ \A c \in Connections, p \in Players :
         match.connections[c] = p <=>
           /\ match.sessions[p] # None /\ match.sessions[p].connected
           /\ match.sessions[p].connection = c

(* Everybody in the match has a TCP session whose close will be passed on to it:
   otherwise a player who left would stay in the match for good
   (GameServer.cpp:717-734). *)
PlayersHaveSessions ==
  match # None =>
    \A c \in Connected(match) : gameSessions[c] # None /\ gameSessions[c].authenticated

(* The match and the sessions agree on who plays, through every order of hellos,
   closes and match ends. *)
PlayersAgree == ParticipantsAgree /\ PlayersHaveSessions

(* One ticket admits one player once, whatever connections and matches it is
   presented on (GameTicketStore.cpp:52-79). *)
WelcomedOnce ==
  \A c, d \in Connections : c # d /\ welcomed[c] # None => welcomed[c] # welcomed[d]

(* A match ends once: it is reported finished or given up, never both or twice. *)
EndsOnce ==
  /\ \A i \in Matches : Len(outcomes[i]) <= 1
  /\ match # None => outcomes[match.id] = <<>> /\ ~Terminal(match)

(* What is handed out once stays handed out: a ticket that admitted a player, and
   the outcome of a match, through every order of reconnects, cancellations and
   results. *)
OnceOnly == WelcomedOnce /\ EndsOnce

(* In a running match somebody is connected, and every living contender is
   somebody's or on the way out: a player's disconnect always reaches the
   simulation, whether it came before the start or after. *)
NoOrphanedContender ==
  match # None /\ match.started =>
    /\ Connected(match) # {}
    /\ \A p \in match.alive :
         match.slot[p] = "Authenticated" \/ p \in match.pendingDisconnects \cup match.leaving

(* The assertion of OfflineMatchStep.cpp:403-408, "offline match cannot
   disconnect every living contender": no handler is about to run a tick that
   would. *)
DisconnectsLeaveAContender ==
  match # None /\ match.started /\ match.id \in fired => ~StepThrows(match)

(* A match starts with a clock just read: no tick is due at the start, so that
   nobody is moved, killed or late before having been welcomed
   (ResolveStart in Disconnect uses the time last seen). *)
SameMatch == match # None /\ match' # None /\ match'.id = match.id
StartsOnTime ==
  [][SameMatch /\ ~match.started /\ match'.started => match'.late = 0]_vars

(* A match takes a player's commands only from the address first bound, each
   with a higher sequence than the one before, so that neither a late nor a
   repeated datagram takes a command back (AuthoritativeMatch.cpp:591-677). *)
CommandsMoveForward ==
  [][SameMatch =>
       \A p \in Players :
         match.sessions[p] # None /\ match'.sessions[p] # None =>
           LET old == match.sessions[p]
               new == match'.sessions[p]
           IN  /\ new.acknowledgedInput >= old.acknowledgedInput
               /\ new.connected => new.command >= old.command
               /\ new.command <= new.acknowledgedInput
               /\ old.peer # None => new.peer \in {old.peer, None}
               /\ new.command # old.command /\ new.connected => old.peer # None]_vars

(* Every match ends: its tickets expire, and once started it reaches the tick at
   which the simulation decides it, however its clients behave. *)
MatchEnds == \A i \in Matches : match # None /\ match.id = i ~> outcomes[i] # <<>>
=============================================================================
