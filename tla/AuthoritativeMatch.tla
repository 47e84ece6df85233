------------------------- MODULE AuthoritativeMatch -------------------------
(***************************************************************************)
(* One match of the game server (AuthoritativeMatch.cpp, with its          *)
(* ParticipantRoster, GameTicketStore and FixedTickScheduler, and the end  *)
(* of a tick of OfflineMatchStep.cpp) as a value: a record of its state    *)
(* and the operators that are its methods.  GameSessions drives it.        *)
(*                                                                         *)
(* Time is relative and counted in ticks of the simulation: how long until *)
(* the tickets expire, how long since the match last read the clock, how   *)
(* many tick deadlines have passed unprocessed.                            *)
(***************************************************************************)
EXTENDS Naturals, FiniteSets

CONSTANTS
  Players,        \* the participants of every match
  MaxConnection,  \* bound: TCP connections accepted
  Peers,          \* UDP addresses datagrams come from
  None,           \* no session, no peer, no match
  MaxMatch,       \* bound: matches the server is given
  Lifetime,       \* the tickets' lifetime, in ticks
  CatchUp,        \* ticks one Advance may run at most (5 in the code)
  HardTimeout,    \* the tick at which the simulation decides a winner
  MaxInput        \* bound: the highest input sequence a client sends

Connections == 1..MaxConnection
Matches == 1..MaxMatch

ASSUME MatchAssumption ==
  /\ IsFiniteSet(Players) /\ Cardinality(Players) >= 2
  /\ MaxConnection \in Nat /\ MaxMatch \in Nat
  /\ Lifetime \in Nat \ {0} /\ CatchUp \in Nat \ {0} /\ HardTimeout \in Nat \ {0}
  /\ MaxInput \in Nat
  /\ None \notin Players \cup Peers \cup Connections

SlotStates == {"Pending", "Authenticated", "Unavailable"}
Endings == {"NoAuthenticatedPlayers", "NoConnectedPlayers", "Winner"}

\* A PlayerSession.  Its UDP token is fresh for the connection it was made on,
\* and is named by it; its command is named by the input that carried it.
PlayerSessions == [connection : Connections, peer : Peers \cup {None},
                   acknowledgedInput : 0..MaxInput, command : 0..MaxInput,
                   connected : BOOLEAN]

NewSession(c) == [connection |-> c, peer |-> None, acknowledgedInput |-> 0,
                  command |-> 0, connected |-> TRUE]

\* A match: its live tickets are named by their holders; ending is "No" until
\* the match is terminal; alive and leaving are the simulation's living
\* contenders and its queued lifecycle commands.
MatchStates ==
  [id : Matches, slot : [Players -> SlotStates], tickets : SUBSET Players,
   sessions : [Players -> PlayerSessions \cup {None}],
   connections : [Connections -> Players \cup {None}],
   pendingDisconnects : SUBSET Players, started : BOOLEAN,
   ending : Endings \cup {"No"},
   expiresIn : 0..Lifetime, unseen : 0..CatchUp + 1, late : 0..CatchUp + 1,
   alive : SUBSET Players, leaving : SUBSET Players, tick : 0..HardTimeout]

Create(id) ==
  [id |-> id, slot |-> [p \in Players |-> "Pending"], tickets |-> Players,
   sessions |-> [p \in Players |-> None],
   connections |-> [c \in Connections |-> None],
   pendingDisconnects |-> {}, started |-> FALSE, ending |-> "No",
   expiresIn |-> Lifetime, unseen |-> 0, late |-> 0,
   alive |-> Players, leaving |-> {}, tick |-> 0]

Terminal(m) == m.ending # "No"
Slots(m, state) == {p \in Players : m.slot[p] = state}
ReadyToStart(m) == Slots(m, "Pending") = {}
Connected(m) == {c \in Connections : m.connections[c] # None}

Finish(m, reason) == [m EXCEPT !.ending = reason, !.started = FALSE]

MarkUnavailable(m, gone) ==
  [m EXCEPT !.slot = [p \in Players |-> IF p \in gone THEN "Unavailable" ELSE @[p]]]

-----------------------------------------------------------------------------
\* Mutant: those who never came stay alive.
StartForgetsAbsent(m, since) ==
  IF m.started \/ Terminal(m) \/ ~ReadyToStart(m) THEN m
  ELSE IF Slots(m, "Authenticated") = {} THEN Finish(m, "NoAuthenticatedPlayers")
  ELSE [m EXCEPT !.started = TRUE, !.late = since]

(* Starting: when nobody is pending the match starts, its scheduler from a
   time that lies since ticks back, or ends if nobody came. *)
ResolveStart(m, since) ==
  IF m.started \/ Terminal(m) \/ ~ReadyToStart(m) THEN m
  ELSE IF Slots(m, "Authenticated") = {} THEN Finish(m, "NoAuthenticatedPlayers")
  ELSE [m EXCEPT !.started = TRUE, !.late = since,
                 !.leaving = @ \cup Slots(m, "Unavailable")]

ExpirePending(m) ==
  IF m.expiresIn > 0 THEN ResolveStart(m, 0)
  ELSE ResolveStart(MarkUnavailable([m EXCEPT !.tickets = {}], m.tickets), 0)

\* Authenticate, up to the ticket: the clock is read and expired tickets purged.
Observe(m) == ExpirePending([m EXCEPT !.unseen = 0])

\* Mutant: a player who left may present its spent ticket again.
AdmitsAgain(m, c, hello) ==
  /\ ~Terminal(m) /\ ~m.started
  /\ m.connections[c] = None
  /\ m.sessions[hello.player] # None => ~m.sessions[hello.player].connected
  /\ hello.match = m.id
  /\ hello.ticket = hello.player

\* A hello is accepted if its connection and its player are new to a match not
\* yet started and its ticket is live, for that match and that player.
Admits(m, c, hello) ==
  /\ ~Terminal(m) /\ ~m.started
  /\ m.connections[c] = None
  /\ m.sessions[hello.player] = None
  /\ hello.match = m.id
  /\ hello.ticket \in m.tickets
  /\ hello.ticket = hello.player

ConnectionInUse(m, c) ==
  \E p \in Slots(m, "Authenticated") : m.sessions[p].connection = c

Consume(m, p) == [m EXCEPT !.tickets = @ \ {p}]

\* Mutant: the player stays pending without a ticket.
RefuseKeepsPending(m, p) == ResolveStart(Consume(m, p), 0)

\* The ticket is spent and the token source or the roster refuses.
Refuse(m, p) == ResolveStart(MarkUnavailable(Consume(m, p), {p}), 0)

\* Mutant: the last to be welcomed does not start the match.
WelcomeOnly(m, c, p) ==
  [Consume(m, p) EXCEPT !.slot[p] = "Authenticated", !.sessions[p] = NewSession(c),
                        !.connections[c] = p]

Welcome(m, c, p) ==
  ResolveStart([Consume(m, p) EXCEPT !.slot[p] = "Authenticated",
                                     !.sessions[p] = NewSession(c),
                                     !.connections[c] = p], 0)

-----------------------------------------------------------------------------
(* Leaving. *)
\* Mutant: the session of the player who left stays connected.
DisconnectKeepsSession(m, c) ==
  LET p == m.connections[c]
      left == MarkUnavailable([m EXCEPT !.connections[c] = None], {p})
  IN  IF p = None \/ Terminal(m) THEN m
      ELSE IF ~m.started THEN ResolveStart(left, m.unseen)
      ELSE IF Connected(left) = {} THEN Finish(left, "NoConnectedPlayers")
      ELSE [left EXCEPT !.pendingDisconnects = @ \cup {p}]

Disconnect(m, c) ==
  LET p == m.connections[c]
      left == MarkUnavailable(
                [m EXCEPT !.connections[c] = None,
                          !.sessions[p] = [@ EXCEPT !.connected = FALSE,
                                                    !.peer = None, !.command = 0]],
                {p})
  IN  IF p = None \/ Terminal(m) THEN m
      ELSE IF ~m.started THEN ResolveStart(left, m.unseen)
      ELSE IF Connected(left) = {} THEN Finish(left, "NoConnectedPlayers")
      ELSE [left EXCEPT !.pendingDisconnects = @ \cup {p}]

-----------------------------------------------------------------------------
(* Ticking.  The first tick of an Advance hands the simulation everybody who
   left; it refuses to lose every living contender that way.  Otherwise combat
   and the safe zone kill anybody but leave somebody alive. *)
TicksDue(m) == IF m.late < CatchUp THEN m.late ELSE CatchUp

Staying(m) == m.alive \ (m.leaving \cup m.pendingDisconnects)
StepThrows(m) == TicksDue(m) > 0 /\ Staying(m) = {}

Decided(m, n, survivors) ==
  Cardinality(survivors) = 1 \/ m.tick + n >= HardTimeout

\* After n of the ticks due the survivors are left: all of the ticks, unless
\* one of them decided the match.
MayReach(m, n, survivors) ==
  /\ survivors # {} /\ survivors \subseteq Staying(m)
  /\ n > 1 => Cardinality(Staying(m)) > 1 /\ m.tick + n - 1 < HardTimeout
  /\ n < TicksDue(m) => Decided(m, n, survivors)

AfterTicks(m, n, survivors) ==
  LET ran == [m EXCEPT !.alive = survivors, !.tick = @ + n, !.late = 0,
                       !.leaving = {}, !.pendingDisconnects = {}]
  IN  IF Decided(m, n, survivors) THEN Finish(ran, "Winner") ELSE ran

\* Advance reads the clock, and a match not yet started expires its tickets.
Clocked(m) == IF m.started THEN [m EXCEPT !.unseen = 0] ELSE Observe(m)

\* What the ticks due can make of a match that has read the clock.
Advanced(m) ==
  IF Terminal(m) \/ ~m.started \/ TicksDue(m) = 0 THEN {m}
  ELSE UNION {{AfterTicks(m, n, s) : s \in {t \in SUBSET Staying(m) : MayReach(m, n, t)}}
                : n \in 1..TicksDue(m)}

\* NextDeadline has passed.
DeadlinePassed(m) == IF m.started THEN m.late > 0 ELSE m.expiresIn = 0

Later(n) == IF n > CatchUp THEN n ELSE n + 1
TimePasses(m) ==
  [m EXCEPT !.expiresIn = IF @ = 0 THEN 0 ELSE @ - 1,
            !.unseen = Later(@), !.late = IF m.started THEN Later(@) ELSE @]

-----------------------------------------------------------------------------
(* Datagrams: a token is that of the connection its player was welcomed on. *)
HasSession(m, match, p, token) ==
  /\ match = m.id
  /\ m.sessions[p] # None
  /\ m.sessions[p].connected
  /\ m.sessions[p].connection = token

MayBind(m, p, peer) == m.sessions[p].peer \in {None, peer}
Bind(m, p, peer) == [m EXCEPT !.sessions[p].peer = peer]

\* Mutant: an input is accepted in any order.
MayInputAgain(m, p, peer, sequence) == m.started /\ m.sessions[p].peer = peer

MayInput(m, p, peer, sequence) ==
  /\ m.started
  /\ m.sessions[p].peer = peer
  /\ sequence > m.sessions[p].acknowledgedInput

\* The command replaces the one before if the simulation could carry it out.
Input(m, p, sequence, usable) ==
  [m EXCEPT !.sessions[p].acknowledgedInput = sequence,
            !.sessions[p].command = IF usable THEN sequence ELSE @]
=============================================================================
