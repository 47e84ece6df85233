----------------------------- MODULE GameProofs -----------------------------
(***************************************************************************)
(* The game server's matches and sessions (GameSessions) for every number  *)
(* of players, connections and matches: who is waited for, who plays, and  *)
(* what is handed out only once.  Then the rules of the simulation that    *)
(* runs in a match (OfflineMatch).                                         *)
(***************************************************************************)
EXTENDS GameSessions, OfflineMatch, FiniteSetTheorems, WellFoundedInduction,
        TLAPS

-----------------------------------------------------------------------------
(* A match.  Its operators take a sound match to a sound one, or end it.   *)

Agree(m) ==
  /\ \A p \in Players :
       m.slot[p] = "Authenticated" <=>
         m.sessions[p] # None /\ m.sessions[p].connected
  /\ \A c \in Connections, p \in Players :
       m.connections[c] = p <=>
         /\ m.sessions[p] # None /\ m.sessions[p].connected
         /\ m.sessions[p].connection = c

Represented(m) ==
  \A p \in m.alive :
    m.slot[p] = "Authenticated" \/ p \in m.pendingDisconnects \cup m.leaving

\* What holds of a match before and after it starts.
SoundMatch(m) ==
  /\ m \in MatchStates
  /\ ~Terminal(m)
  /\ m.tick < HardTimeout
  /\ Slots(m, "Pending") = m.tickets
  /\ Agree(m)

Waits(m) == ~m.started => m.tickets # {}
Plays(m) == m.started => m.tickets = {} /\ Connected(m) # {} /\ Represented(m)

MatchInv(m) == SoundMatch(m) /\ Waits(m) /\ Plays(m)

\* What a step may make of a match: the same match still, no ticket more, and
\* these players on these connections.
Becomes(r, m, links) ==
  /\ r.id = m.id /\ r.tickets \subseteq m.tickets /\ r.connections = links
  /\ Terminal(r) \/ MatchInv(r)

Follows(r, m) == Becomes(r, m, m.connections)

LEMMA Numbers ==
  /\ Lifetime \in Nat \ {0} /\ CatchUp \in Nat \ {0} /\ HardTimeout \in Nat \ {0}
  /\ MaxInput \in Nat /\ MaxConnection \in Nat /\ MaxMatch \in Nat
BY MatchAssumption

\* The fields of a match.
LEMMA MatchTypes ==
  ASSUME NEW m \in MatchStates
  PROVE  /\ m.id \in Matches
         /\ m.slot \in [Players -> SlotStates]
         /\ m.tickets \in SUBSET Players
         /\ m.sessions \in [Players -> PlayerSessions \cup {None}]
         /\ m.connections \in [Connections -> Players \cup {None}]
         /\ m.pendingDisconnects \in SUBSET Players
         /\ m.started \in BOOLEAN
         /\ m.ending \in Endings \cup {"No"}
         /\ m.expiresIn \in 0..Lifetime
         /\ m.unseen \in 0..CatchUp + 1
         /\ m.late \in 0..CatchUp + 1
         /\ m.alive \in SUBSET Players
         /\ m.leaving \in SUBSET Players
         /\ m.tick \in 0..HardTimeout
BY DEF MatchStates

\* Once nobody is pending, each player came or did not.
LEMMA NobodyPending ==
  ASSUME NEW m, SoundMatch(m), ReadyToStart(m)
  PROVE  /\ m.tickets = {}
         /\ \A p \in Players : m.slot[p] \in {"Authenticated", "Unavailable"}
BY DEF SoundMatch, ReadyToStart, Slots, MatchStates, SlotStates

LEMMA SomebodyConnected ==
  ASSUME NEW m, SoundMatch(m), Slots(m, "Authenticated") # {}
  PROVE  Connected(m) # {}
<1>1. PICK p \in Players : m.slot[p] = "Authenticated"  BY DEF Slots
<1>2. m.sessions[p] # None /\ m.sessions[p].connected  BY <1>1 DEF SoundMatch, Agree
<1>3. m.sessions[p].connection \in Connections
  BY <1>2, MatchTypes DEF SoundMatch, PlayerSessions
<1>4. m.connections[m.sessions[p].connection] = p  BY <1>2, <1>3 DEF SoundMatch, Agree
<1>5. p # None  BY MatchAssumption
<1> QED  BY <1>3, <1>4, <1>5 DEF Connected

LEMMA StartedFields ==
  ASSUME NEW m \in MatchStates, NEW since \in 0..CatchUp + 1, NEW r,
         r = [m EXCEPT !.started = TRUE, !.late = since,
                       !.leaving = @ \cup Slots(m, "Unavailable")]
  PROVE  /\ r \in MatchStates
         /\ r.started = TRUE /\ r.leaving = m.leaving \cup Slots(m, "Unavailable")
         /\ r.id = m.id /\ r.slot = m.slot /\ r.tickets = m.tickets
         /\ r.sessions = m.sessions /\ r.connections = m.connections
         /\ r.alive = m.alive /\ r.ending = m.ending /\ r.tick = m.tick
BY MatchTypes DEF MatchStates, Slots

LEMMA Resolved ==
  ASSUME NEW m, SoundMatch(m), ~m.started, NEW since \in 0..CatchUp + 1
  PROVE  Follows(ResolveStart(m, since), m)
<1>1. CASE ~ReadyToStart(m)
  <2>1. ResolveStart(m, since) = m  BY <1>1 DEF ResolveStart
  <2>2. MatchInv(m)  BY <1>1 DEF MatchInv, Waits, Plays, SoundMatch, ReadyToStart
  <2> QED  BY <2>1, <2>2 DEF Follows, Becomes
<1>2. CASE ReadyToStart(m) /\ Slots(m, "Authenticated") = {}
  <2>1. PICK r : r = Finish(m, "NoAuthenticatedPlayers") /\ r = ResolveStart(m, since)
    BY <1>2 DEF ResolveStart, SoundMatch
  <2>2. /\ r.id = m.id /\ r.tickets = m.tickets /\ r.connections = m.connections
        /\ r.ending = "NoAuthenticatedPlayers"
    BY <2>1 DEF Finish, SoundMatch, MatchStates
  <2> QED  BY <2>1, <2>2 DEF Follows, Becomes, Terminal
<1>3. CASE ReadyToStart(m) /\ Slots(m, "Authenticated") # {}
  <2>1. PICK r : /\ r = ResolveStart(m, since)
                 /\ r = [m EXCEPT !.started = TRUE, !.late = since,
                                  !.leaving = @ \cup Slots(m, "Unavailable")]
    BY <1>3 DEF ResolveStart, SoundMatch
  <2>2. /\ r \in MatchStates
        /\ r.started = TRUE /\ r.leaving = m.leaving \cup Slots(m, "Unavailable")
        /\ r.id = m.id /\ r.slot = m.slot /\ r.tickets = m.tickets
        /\ r.sessions = m.sessions /\ r.connections = m.connections
        /\ r.alive = m.alive /\ r.ending = m.ending /\ r.tick = m.tick
    BY <2>1, StartedFields DEF SoundMatch
  <2>3. SoundMatch(r)  BY <2>2 DEF SoundMatch, Terminal, Slots, Agree
  <2>4. r.tickets = {} /\ Connected(r) # {}
    BY <1>3, <2>2, NobodyPending, SomebodyConnected DEF Connected
  <2>5. Represented(r)
    <3> SUFFICES ASSUME NEW p \in m.alive, m.slot[p] # "Authenticated"
                 PROVE  p \in r.leaving
      BY <2>2 DEF Represented
    <3>1. p \in Players  BY MatchTypes DEF SoundMatch
    <3>2. m.slot[p] = "Unavailable"  BY <1>3, <3>1, NobodyPending
    <3> QED  BY <2>2, <3>1, <3>2 DEF Slots
  <2> QED  BY <2>1, <2>2, <2>3, <2>4, <2>5 DEF Follows, Becomes, MatchInv, Waits, Plays
<1> QED  BY <1>1, <1>2, <1>3

LEMMA Created ==
  ASSUME NEW i \in Matches
  PROVE  MatchInv(Create(i)) /\ Create(i).id = i /\ Create(i).tickets = Players
<1>1. PICK r : r = Create(i)  OBVIOUS
<1>2. /\ r.id = i /\ r.slot = [p \in Players |-> "Pending"] /\ r.tickets = Players
      /\ r.sessions = [p \in Players |-> None]
      /\ r.connections = [c \in Connections |-> None]
      /\ ~r.started /\ r.ending = "No" /\ r.tick = 0
  BY <1>1 DEF Create
<1>3. r \in MatchStates
  BY <1>1, Numbers DEF Create, MatchStates, SlotStates, Endings
<1>4. Agree(r)  BY <1>2, MatchAssumption DEF Agree
<1>5. Slots(r, "Pending") = r.tickets  BY <1>2 DEF Slots
<1>6. Players # {}
  <2>1. Cardinality({}) = 0  BY FS_EmptySet
  <2> QED  BY <2>1, MatchAssumption
<1> QED
  BY <1>1, <1>2, <1>3, <1>4, <1>5, <1>6, Numbers
  DEF MatchInv, SoundMatch, Waits, Plays, Terminal

\* A match reads the clock.
LEMMA SeenStill ==
  ASSUME NEW m, MatchInv(m)
  PROVE  LET r == [m EXCEPT !.unseen = 0]
         IN  /\ MatchInv(r) /\ r.id = m.id /\ r.tickets = m.tickets
             /\ r.started = m.started /\ r.expiresIn = m.expiresIn
             /\ r.connections = m.connections
<1>1. PICK r : r = [m EXCEPT !.unseen = 0]  OBVIOUS
<1>2. m \in MatchStates  BY DEF MatchInv, SoundMatch
<1>3. /\ r.id = m.id /\ r.slot = m.slot /\ r.tickets = m.tickets
      /\ r.sessions = m.sessions /\ r.connections = m.connections
      /\ r.pendingDisconnects = m.pendingDisconnects /\ r.started = m.started
      /\ r.ending = m.ending /\ r.expiresIn = m.expiresIn
      /\ r.alive = m.alive /\ r.leaving = m.leaving /\ r.tick = m.tick
  BY <1>1, <1>2 DEF MatchStates
<1>4. r \in MatchStates  BY <1>1, <1>2, MatchTypes, Numbers DEF MatchStates
<1>5. SoundMatch(r)  BY <1>3, <1>4 DEF MatchInv, SoundMatch, Terminal, Slots, Agree
<1>6. Waits(r) /\ Plays(r)
  BY <1>3 DEF MatchInv, Waits, Plays, Connected, Represented
<1> QED  BY <1>1, <1>3, <1>5, <1>6 DEF MatchInv

\* Whoever has no connection to lose is given up, with the ticket.
LEMMA GivenUp ==
  ASSUME NEW m, SoundMatch(m), ~m.started, NEW gone \in SUBSET m.tickets
  PROVE  LET r == MarkUnavailable([m EXCEPT !.tickets = @ \ gone], gone)
         IN  /\ SoundMatch(r) /\ ~r.started /\ r.id = m.id
             /\ r.tickets = m.tickets \ gone /\ r.connections = m.connections
             /\ r.sessions = m.sessions
<1>1. PICK r : r = MarkUnavailable([m EXCEPT !.tickets = @ \ gone], gone)  OBVIOUS
<1>2. m \in MatchStates /\ gone \subseteq Players  BY MatchTypes DEF SoundMatch
<1>3. /\ r.id = m.id /\ r.tickets = m.tickets \ gone
      /\ r.slot = [p \in Players |-> IF p \in gone THEN "Unavailable" ELSE m.slot[p]]
      /\ r.sessions = m.sessions /\ r.connections = m.connections
      /\ r.started = m.started /\ r.ending = m.ending /\ r.tick = m.tick
  BY <1>1, <1>2 DEF MarkUnavailable, MatchStates
<1>4. r \in MatchStates
  BY <1>1, <1>2, MatchTypes DEF MarkUnavailable, MatchStates, SlotStates
<1>5. \A p \in gone : m.slot[p] = "Pending"  BY <1>2 DEF SoundMatch, Slots
<1>6. Slots(r, "Pending") = r.tickets
  BY <1>2, <1>3 DEF SoundMatch, Slots
<1>7. Agree(r)
  <2>1. \A p \in Players : r.slot[p] = "Authenticated" <=> m.slot[p] = "Authenticated"
    BY <1>3, <1>5
  <2> QED  BY <1>3, <2>1 DEF SoundMatch, Agree
<1>8. SoundMatch(r)  BY <1>3, <1>4, <1>6, <1>7 DEF SoundMatch, Terminal
<1> QED  BY <1>1, <1>3, <1>8

LEMMA ObservedWaiting ==
  ASSUME NEW m, MatchInv(m), ~m.started
  PROVE  Follows(Observe(m), m)
<1>1. PICK n : n = [m EXCEPT !.unseen = 0]  OBVIOUS
<1>2. /\ MatchInv(n) /\ n.id = m.id /\ n.tickets = m.tickets /\ ~n.started
      /\ n.connections = m.connections
  BY <1>1, SeenStill
<1>3. 0 \in 0..CatchUp + 1  BY Numbers
<1>4. CASE n.expiresIn > 0
  <2>1. Observe(m) = ResolveStart(n, 0)  BY <1>1, <1>4 DEF Observe, ExpirePending
  <2>2. Follows(ResolveStart(n, 0), n)  BY <1>2, <1>3, Resolved DEF MatchInv
  <2> QED  BY <1>2, <2>1, <2>2 DEF Follows, Becomes
<1>5. CASE ~ (n.expiresIn > 0)
  <2>1. PICK g : g = MarkUnavailable([n EXCEPT !.tickets = @ \ n.tickets], n.tickets)
    OBVIOUS
  <2>2. [n EXCEPT !.tickets = @ \ n.tickets] = [n EXCEPT !.tickets = {}]
    BY <1>2 DEF MatchInv, SoundMatch, MatchStates
  <2>3. Observe(m) = ResolveStart(g, 0)
    BY <1>1, <1>5, <2>1, <2>2 DEF Observe, ExpirePending
  <2>4. /\ SoundMatch(g) /\ ~g.started /\ g.id = n.id /\ g.tickets = n.tickets \ n.tickets
        /\ g.connections = n.connections
    BY <1>2, <2>1, GivenUp DEF MatchInv
  <2>5. Follows(ResolveStart(g, 0), g)  BY <1>3, <2>4, Resolved
  <2> QED  BY <1>2, <2>3, <2>4, <2>5 DEF Follows, Becomes
<1> QED  BY <1>4, <1>5

\* A match that plays has no ticket left to expire.
LEMMA ObservedPlaying ==
  ASSUME NEW m, MatchInv(m), m.started
  PROVE  Follows(Observe(m), m)
<1>1. PICK n : n = [m EXCEPT !.unseen = 0]  OBVIOUS
<1>2. /\ MatchInv(n) /\ n.id = m.id /\ n.tickets = m.tickets /\ n.started
      /\ n.connections = m.connections
  BY <1>1, SeenStill
<1>3. n.tickets = {} /\ n \in MatchStates
  BY <1>2 DEF MatchInv, Plays, SoundMatch
<1>4. [n EXCEPT !.tickets = {}] = n  BY <1>3 DEF MatchStates
<1>5. MarkUnavailable(n, {}) = n
  <2>1. n.slot = [p \in Players |-> IF p \in {} THEN "Unavailable" ELSE n.slot[p]]
    BY <1>3, MatchTypes
  <2> QED  BY <1>3, <2>1 DEF MarkUnavailable, MatchStates
<1>6. ResolveStart(n, 0) = n  BY <1>2 DEF ResolveStart
<1>7. Observe(m) = n
  BY <1>1, <1>3, <1>4, <1>5, <1>6 DEF Observe, ExpirePending
<1> QED  BY <1>2, <1>7 DEF Follows, Becomes

LEMMA Observed ==
  ASSUME NEW m, MatchInv(m)
  PROVE  Follows(Observe(m), m)
BY ObservedWaiting, ObservedPlaying

LEMMA ClockRead ==
  ASSUME NEW m, MatchInv(m)
  PROVE  Follows(Clocked(m), m)
BY SeenStill, Observed DEF Clocked, Follows, Becomes

LEMMA Refused ==
  ASSUME NEW m, MatchInv(m), ~m.started, NEW p \in m.tickets
  PROVE  Follows(Refuse(m, p), m)
<1>1. PICK r : r = MarkUnavailable(Consume(m, p), {p})  OBVIOUS
<1>2. /\ SoundMatch(r) /\ ~r.started /\ r.id = m.id /\ r.tickets = m.tickets \ {p}
      /\ r.connections = m.connections
  BY <1>1, GivenUp DEF Consume, MatchInv
<1>3. Follows(ResolveStart(r, 0), r)  BY <1>2, Numbers, Resolved
<1>4. Refuse(m, p) = ResolveStart(r, 0)  BY <1>1 DEF Refuse
<1> QED  BY <1>2, <1>3, <1>4 DEF Follows, Becomes


LEMMA Welcomed ==
  ASSUME NEW m, MatchInv(m), ~m.started, NEW c \in Connections, NEW p \in m.tickets,
         m.connections[c] = None, m.sessions[p] = None
  PROVE  /\ Becomes(Welcome(m, c, p), m, [m.connections EXCEPT ![c] = p])
         /\ Welcome(m, c, p).tickets \subseteq m.tickets \ {p}
<1>1. PICK n : n = NewSession(c)  OBVIOUS
<1>2. n \in PlayerSessions /\ n.connected /\ n.connection = c
  BY <1>1, Numbers DEF NewSession, PlayerSessions
<1>3. n # None  BY <1>2, NoneAssumption
<1>4. PICK r : r = [Consume(m, p) EXCEPT !.slot[p] = "Authenticated",
                                         !.sessions[p] = n, !.connections[c] = p]
  OBVIOUS
<1>5. m \in MatchStates /\ p \in Players /\ p # None
  BY MatchTypes, MatchAssumption DEF MatchInv, SoundMatch
<1>6. /\ r.id = m.id /\ r.tickets = m.tickets \ {p}
      /\ r.slot = [m.slot EXCEPT ![p] = "Authenticated"]
      /\ r.sessions = [m.sessions EXCEPT ![p] = n]
      /\ r.connections = [m.connections EXCEPT ![c] = p]
      /\ r.started = m.started /\ r.ending = m.ending /\ r.tick = m.tick
  BY <1>4, <1>5 DEF Consume, MatchStates
<1>7. r \in MatchStates
  BY <1>2, <1>4, <1>5, MatchTypes DEF Consume, MatchStates, SlotStates
<1>8. Slots(r, "Pending") = r.tickets
  BY <1>5, <1>6, MatchTypes DEF MatchInv, SoundMatch, Slots
<1>9. /\ r.slot[p] = "Authenticated" /\ r.sessions[p] = n /\ r.connections[c] = p
      /\ \A q \in Players : q # p =>
             r.slot[q] = m.slot[q] /\ r.sessions[q] = m.sessions[q]
      /\ \A d \in Connections : d # c => r.connections[d] = m.connections[d]
  BY <1>5, <1>6, MatchTypes
<1>10. Agree(r)
  <2>1. ASSUME NEW q \in Players
        PROVE  r.slot[q] = "Authenticated" <=>
                 r.sessions[q] # None /\ r.sessions[q].connected
    <3>1. CASE q = p  BY <1>2, <1>3, <1>9, <3>1
    <3>2. CASE q # p  BY <1>9, <3>2 DEF MatchInv, SoundMatch, Agree
    <3> QED  BY <3>1, <3>2
  <2>2. ASSUME NEW d \in Connections, NEW q \in Players
        PROVE  r.connections[d] = q <=> /\ r.sessions[q] # None /\ r.sessions[q].connected
                                        /\ r.sessions[q].connection = d
    <3>1. m.connections[d] = q <=> /\ m.sessions[q] # None /\ m.sessions[q].connected
                                   /\ m.sessions[q].connection = d
      BY DEF MatchInv, SoundMatch, Agree
    <3>2. q # None  BY MatchAssumption
    <3>3. CASE q = p /\ d = c  BY <1>2, <1>3, <1>9, <3>3
    <3>4. CASE q = p /\ d # c
      <4>1. m.connections[d] # p  BY <3>1, <3>4
      <4> QED  BY <1>2, <1>9, <3>4, <4>1
    <3>5. CASE q # p /\ d = c
      <4>1. r.connections[d] # q /\ m.connections[d] # q  BY <1>9, <3>2, <3>5
      <4> QED  BY <1>9, <3>1, <3>5, <4>1
    <3>6. CASE q # p /\ d # c  BY <1>9, <3>1, <3>6
    <3> QED  BY <3>3, <3>4, <3>5, <3>6
  <2> QED  BY <2>1, <2>2 DEF Agree
<1>11. SoundMatch(r) /\ ~r.started
  BY <1>6, <1>7, <1>8, <1>10 DEF MatchInv, SoundMatch, Terminal
<1>12. Follows(ResolveStart(r, 0), r)  BY <1>11, Numbers, Resolved
<1>13. Welcome(m, c, p) = ResolveStart(r, 0)  BY <1>1, <1>4 DEF Welcome
<1> QED  BY <1>6, <1>12, <1>13 DEF Follows, Becomes

\* The player on a connection loses it.
Left(m, c, p) ==
  MarkUnavailable([m EXCEPT !.connections[c] = None,
                            !.sessions[p] = [@ EXCEPT !.connected = FALSE,
                                                      !.peer = None, !.command = 0]],
                  {p})

SessionClosed(new, old) ==
  /\ ~new.connected /\ new.peer = None /\ new.command = 0
  /\ new.acknowledgedInput = old.acknowledgedInput

LEMMA LeftSound ==
  ASSUME NEW m, MatchInv(m), NEW c \in Connections, NEW p \in Players,
         m.connections[c] = p
  PROVE  LET r == Left(m, c, p)
         IN  /\ SoundMatch(r) /\ r.started = m.started /\ r.id = m.id
             /\ r.tickets = m.tickets
             /\ r.connections = [m.connections EXCEPT ![c] = None]
             /\ r.slot = [m.slot EXCEPT ![p] = "Unavailable"]
             /\ r.alive = m.alive /\ r.leaving = m.leaving
             /\ r.pendingDisconnects = m.pendingDisconnects
             /\ r.unseen = m.unseen
             /\ SessionClosed(r.sessions[p], m.sessions[p])
             /\ \A q \in Players : q # p => r.sessions[q] = m.sessions[q]
<1>1. m \in MatchStates /\ p # None
  BY MatchAssumption DEF MatchInv, SoundMatch
<1>2. /\ m.sessions[p] \in PlayerSessions /\ m.sessions[p].connected
      /\ m.sessions[p].connection = c /\ m.slot[p] = "Authenticated"
  BY <1>1, MatchTypes DEF MatchInv, SoundMatch, Agree
<1>3. PICK n : n = [m.sessions[p] EXCEPT !.connected = FALSE, !.peer = None, !.command = 0]
  OBVIOUS
<1>4. n \in PlayerSessions /\ ~n.connected /\ SessionClosed(n, m.sessions[p])
  <2>1. PICK s \in PlayerSessions : s = m.sessions[p]  BY <1>2
  <2>2. n = [s EXCEPT !.connected = FALSE, !.peer = None, !.command = 0]
    BY <1>3, <2>1
  <2>3. /\ n.connection = s.connection /\ n.peer = None /\ n.command = 0
        /\ n.acknowledgedInput = s.acknowledgedInput /\ n.connected = FALSE
    BY <2>2 DEF PlayerSessions
  <2>4. n = [connection |-> s.connection, peer |-> None,
             acknowledgedInput |-> s.acknowledgedInput, command |-> 0,
             connected |-> FALSE]
    BY <2>2 DEF PlayerSessions
  <2>5. s.connection \in Connections /\ s.acknowledgedInput \in 0..MaxInput
    BY DEF PlayerSessions
  <2>6. 0 \in 0..MaxInput  BY Numbers
  <2>7. n \in PlayerSessions  BY <2>4, <2>5, <2>6 DEF PlayerSessions
  <2> QED  BY <2>1, <2>3, <2>7 DEF SessionClosed
<1>5. PICK r : r = Left(m, c, p)  OBVIOUS
<1>6. /\ r.id = m.id /\ r.tickets = m.tickets
      /\ r.slot = [q \in Players |-> IF q \in {p} THEN "Unavailable" ELSE m.slot[q]]
      /\ r.sessions = [m.sessions EXCEPT ![p] = n]
      /\ r.connections = [m.connections EXCEPT ![c] = None]
      /\ r.started = m.started /\ r.ending = m.ending /\ r.tick = m.tick
      /\ r.alive = m.alive /\ r.leaving = m.leaving
      /\ r.pendingDisconnects = m.pendingDisconnects /\ r.unseen = m.unseen
  BY <1>1, <1>3, <1>5 DEF Left, MarkUnavailable, MatchStates
<1>7. r.slot = [m.slot EXCEPT ![p] = "Unavailable"]
  BY <1>1, <1>6, MatchTypes
<1>8. r \in MatchStates
  BY <1>1, <1>3, <1>4, <1>5, MatchTypes DEF Left, MarkUnavailable, MatchStates, SlotStates
<1>9. /\ r.slot[p] = "Unavailable" /\ r.sessions[p] = n /\ r.connections[c] = None
      /\ \A q \in Players : q # p =>
             r.slot[q] = m.slot[q] /\ r.sessions[q] = m.sessions[q]
      /\ \A d \in Connections : d # c => r.connections[d] = m.connections[d]
  BY <1>1, <1>6, <1>7, MatchTypes
<1>10. Slots(r, "Pending") = r.tickets
  BY <1>2, <1>6, <1>9 DEF MatchInv, SoundMatch, Slots
<1>11. Agree(r)
  <2>1. ASSUME NEW q \in Players
        PROVE  r.slot[q] = "Authenticated" <=>
                 r.sessions[q] # None /\ r.sessions[q].connected
    <3>1. CASE q = p  BY <1>4, <1>9, <3>1
    <3>2. CASE q # p  BY <1>9, <3>2 DEF MatchInv, SoundMatch, Agree
    <3> QED  BY <3>1, <3>2
  <2>2. ASSUME NEW d \in Connections, NEW q \in Players
        PROVE  r.connections[d] = q <=> /\ r.sessions[q] # None /\ r.sessions[q].connected
                                        /\ r.sessions[q].connection = d
    <3>1. m.connections[d] = q <=> /\ m.sessions[q] # None /\ m.sessions[q].connected
                                   /\ m.sessions[q].connection = d
      BY DEF MatchInv, SoundMatch, Agree
    <3>2. q # None  BY MatchAssumption
    <3>3. CASE q = p
      <4>1. r.connections[d] # p
        <5>1. CASE d = c  BY <1>1, <1>9, <5>1
        <5>2. CASE d # c  BY <1>2, <1>9, <3>1, <3>3, <5>2
        <5> QED  BY <5>1, <5>2
      <4> QED  BY <1>4, <1>9, <3>3, <4>1
    <3>4. CASE q # p
      <4>1. CASE d = c
        <5>1. r.connections[d] # q /\ m.connections[d] # q
          BY <1>9, <3>2, <3>4, <4>1
        <5> QED  BY <1>9, <3>1, <3>4, <5>1
      <4>2. CASE d # c  BY <1>9, <3>1, <3>4, <4>2
      <4> QED  BY <4>1, <4>2
    <3> QED  BY <3>3, <3>4
  <2> QED  BY <2>1, <2>2 DEF Agree
<1>12. SoundMatch(r)
  BY <1>6, <1>8, <1>10, <1>11 DEF MatchInv, SoundMatch, Terminal
<1> QED  BY <1>4, <1>5, <1>6, <1>7, <1>9, <1>12


LEMMA DisconnectedStill ==
  ASSUME NEW m, MatchInv(m), NEW c \in Connections
  PROVE  Becomes(Disconnect(m, c), m, [m.connections EXCEPT ![c] = None])
<1>1. m \in MatchStates /\ ~Terminal(m) /\ m.connections[c] \in Players \cup {None}
  BY MatchTypes DEF MatchInv, SoundMatch
<1>2. CASE m.connections[c] = None
  <2>1. Disconnect(m, c) = m  BY <1>2 DEF Disconnect
  <2>2. [m.connections EXCEPT ![c] = None] = m.connections
    BY <1>1, <1>2, MatchTypes
  <2> QED  BY <2>1, <2>2 DEF Becomes
<1>3. CASE m.connections[c] # None
  <2>1. PICK p \in Players : p = m.connections[c] /\ p # None  BY <1>1, <1>3
  <2>2. PICK left : left = Left(m, c, p)  OBVIOUS
  <2>3. /\ SoundMatch(left) /\ left.started = m.started /\ left.id = m.id
        /\ left.tickets = m.tickets
        /\ left.connections = [m.connections EXCEPT ![c] = None]
        /\ left.slot = [m.slot EXCEPT ![p] = "Unavailable"]
        /\ left.alive = m.alive /\ left.leaving = m.leaving
        /\ left.pendingDisconnects = m.pendingDisconnects
        /\ left.unseen = m.unseen
    BY <2>1, <2>2, LeftSound
  <2>4. Disconnect(m, c) =
          IF ~m.started THEN ResolveStart(left, m.unseen)
          ELSE IF Connected(left) = {} THEN Finish(left, "NoConnectedPlayers")
          ELSE [left EXCEPT !.pendingDisconnects = @ \cup {p}]
    BY <1>1, <2>1, <2>2 DEF Disconnect, Left
  <2>5. CASE ~m.started
    <3>1. m.unseen \in 0..CatchUp + 1  BY <1>1, MatchTypes
    <3>2. Follows(ResolveStart(left, m.unseen), left)
      BY <2>3, <2>5, <3>1, Resolved
    <3> QED  BY <2>3, <2>4, <2>5, <3>2 DEF Follows, Becomes
  <2>6. CASE m.started /\ Connected(left) = {}
    <3>1. PICK r : r = Finish(left, "NoConnectedPlayers") /\ r = Disconnect(m, c)
      BY <2>4, <2>6
    <3>2. /\ r.id = left.id /\ r.tickets = left.tickets
          /\ r.connections = left.connections /\ r.ending = "NoConnectedPlayers"
      BY <2>3, <3>1 DEF Finish, SoundMatch, MatchStates
    <3> QED  BY <2>3, <3>1, <3>2 DEF Becomes, Terminal
  <2>7. CASE m.started /\ Connected(left) # {}
    <3>1. PICK r : /\ r = [left EXCEPT !.pendingDisconnects = @ \cup {p}]
                   /\ r = Disconnect(m, c)
      BY <2>4, <2>7
    <3>2. left \in MatchStates  BY <2>3 DEF SoundMatch
    <3>3. /\ r.id = left.id /\ r.slot = left.slot /\ r.tickets = left.tickets
          /\ r.sessions = left.sessions /\ r.connections = left.connections
          /\ r.pendingDisconnects = left.pendingDisconnects \cup {p}
          /\ r.started = left.started /\ r.ending = left.ending
          /\ r.alive = left.alive /\ r.leaving = left.leaving /\ r.tick = left.tick
      BY <3>1, <3>2 DEF MatchStates
    <3>4. r \in MatchStates  BY <3>1, <3>2, MatchTypes DEF MatchStates
    <3>5. SoundMatch(r)  BY <2>3, <3>3, <3>4 DEF SoundMatch, Terminal, Slots, Agree
    <3>6. Represented(r)
      <4> SUFFICES ASSUME NEW q \in m.alive, q # p
                   PROVE  \/ r.slot[q] = "Authenticated"
                          \/ q \in r.pendingDisconnects \cup r.leaving
        BY <2>3, <3>3 DEF Represented
      <4>1. q \in Players  BY <1>1, MatchTypes
      <4>2. r.slot[q] = m.slot[q]  BY <1>1, <2>3, <3>3, <4>1, MatchTypes
      <4>3. m.slot[q] = "Authenticated" \/ q \in m.pendingDisconnects \cup m.leaving
        BY <2>7 DEF MatchInv, Plays, Represented
      <4> QED  BY <2>3, <3>3, <4>2, <4>3
    <3>7. r.started /\ r.tickets = {} /\ Connected(r) # {}
      BY <2>3, <2>7, <3>3 DEF MatchInv, Plays, Connected
    <3>8. MatchInv(r)  BY <3>5, <3>6, <3>7 DEF MatchInv, Waits, Plays
    <3> QED  BY <2>3, <3>1, <3>3, <3>8 DEF Becomes
  <2> QED  BY <2>5, <2>6, <2>7
<1> QED  BY <1>2, <1>3

-----------------------------------------------------------------------------
(* Datagrams change what a connected player's session holds.               *)
LEMMA SessionChanged ==
  ASSUME NEW m, MatchInv(m), NEW p \in Players, NEW s \in PlayerSessions,
         m.sessions[p] # None, m.sessions[p].connected,
         s.connected, s.connection = m.sessions[p].connection
  PROVE  Follows([m EXCEPT !.sessions[p] = s], m)
<1>1. PICK r : r = [m EXCEPT !.sessions[p] = s]  OBVIOUS
<1>2. m \in MatchStates /\ s # None  BY NoneAssumption DEF MatchInv, SoundMatch
<1>3. /\ r.id = m.id /\ r.slot = m.slot /\ r.tickets = m.tickets
      /\ r.sessions = [m.sessions EXCEPT ![p] = s] /\ r.connections = m.connections
      /\ r.pendingDisconnects = m.pendingDisconnects /\ r.started = m.started
      /\ r.ending = m.ending /\ r.alive = m.alive /\ r.leaving = m.leaving
      /\ r.tick = m.tick
  BY <1>1, <1>2 DEF MatchStates
<1>4. r \in MatchStates  BY <1>1, <1>2, MatchTypes DEF MatchStates
<1>5. r.sessions[p] = s /\ \A q \in Players : q # p => r.sessions[q] = m.sessions[q]
  BY <1>2, <1>3, MatchTypes
<1>6. Agree(r)
  <2>1. \A q \in Players : r.slot[q] = "Authenticated" <=>
            r.sessions[q] # None /\ r.sessions[q].connected
    BY <1>2, <1>3, <1>5 DEF MatchInv, SoundMatch, Agree
  <2>2. ASSUME NEW d \in Connections, NEW q \in Players
        PROVE  r.connections[d] = q <=> /\ r.sessions[q] # None /\ r.sessions[q].connected
                                        /\ r.sessions[q].connection = d
    <3>1. m.connections[d] = q <=> /\ m.sessions[q] # None /\ m.sessions[q].connected
                                   /\ m.sessions[q].connection = d
      BY DEF MatchInv, SoundMatch, Agree
    <3>2. CASE q = p  BY <1>2, <1>3, <1>5, <3>1, <3>2
    <3>3. CASE q # p  BY <1>3, <1>5, <3>1, <3>3
    <3> QED  BY <3>2, <3>3
  <2> QED  BY <2>1, <2>2 DEF Agree
<1>7. SoundMatch(r)  BY <1>3, <1>4, <1>6 DEF MatchInv, SoundMatch, Terminal, Slots
<1>8. Waits(r) /\ Plays(r)
  BY <1>3 DEF MatchInv, Waits, Plays, Connected, Represented
<1> QED  BY <1>1, <1>3, <1>7, <1>8 DEF Follows, Becomes, MatchInv

LEMMA Bound ==
  ASSUME NEW m, MatchInv(m), NEW p \in Players, NEW peer \in Peers,
         m.sessions[p] # None, m.sessions[p].connected
  PROVE  Follows(Bind(m, p, peer), m)
<1>1. m.sessions[p] \in PlayerSessions /\ m \in MatchStates
  BY MatchTypes DEF MatchInv, SoundMatch
<1>2. PICK s : s = [m.sessions[p] EXCEPT !.peer = peer]  OBVIOUS
<1>3. s \in PlayerSessions /\ s.connected = m.sessions[p].connected
      /\ s.connection = m.sessions[p].connection
  BY <1>1, <1>2 DEF PlayerSessions
<1>4. Bind(m, p, peer) = [m EXCEPT !.sessions[p] = s]
  BY <1>1, <1>2 DEF Bind, MatchStates
<1> QED  BY <1>3, <1>4, SessionChanged

LEMMA Heard ==
  ASSUME NEW m, MatchInv(m), NEW p \in Players, NEW sequence \in 1..MaxInput,
         NEW usable \in BOOLEAN, m.sessions[p] # None, m.sessions[p].connected
  PROVE  Follows(Input(m, p, sequence, usable), m)
<1>1. m.sessions[p] \in PlayerSessions /\ m \in MatchStates
  BY MatchTypes DEF MatchInv, SoundMatch
<1>2. PICK s : s = [m.sessions[p] EXCEPT !.acknowledgedInput = sequence,
                                         !.command = IF usable THEN sequence ELSE @]
  OBVIOUS
<1>3. sequence \in 0..MaxInput  BY Numbers
<1>4. s \in PlayerSessions /\ s.connected = m.sessions[p].connected
      /\ s.connection = m.sessions[p].connection
  BY <1>1, <1>2, <1>3 DEF PlayerSessions
<1>5. Input(m, p, sequence, usable) = [m EXCEPT !.sessions[p] = s]
  BY <1>1, <1>2 DEF Input, MatchStates
<1> QED  BY <1>4, <1>5, SessionChanged


-----------------------------------------------------------------------------
(* Time.                                                                   *)
LEMMA Elapsed ==
  ASSUME NEW m, MatchInv(m)
  PROVE  Follows(TimePasses(m), m) /\ MatchInv(TimePasses(m))
<1>1. m \in MatchStates  BY DEF MatchInv, SoundMatch
<1>2. PICK r : r = TimePasses(m)  OBVIOUS
<1>3. /\ r.id = m.id /\ r.slot = m.slot /\ r.tickets = m.tickets
      /\ r.sessions = m.sessions /\ r.connections = m.connections
      /\ r.pendingDisconnects = m.pendingDisconnects /\ r.started = m.started
      /\ r.ending = m.ending /\ r.alive = m.alive /\ r.leaving = m.leaving
      /\ r.tick = m.tick
  BY <1>1, <1>2 DEF TimePasses, MatchStates
<1>4. r \in MatchStates
  <2>1. \A n \in 0..CatchUp + 1 : Later(n) \in 0..CatchUp + 1
    BY Numbers DEF Later
  <2>2. PICK e \in 0..Lifetime : e = IF m.expiresIn = 0 THEN 0 ELSE m.expiresIn - 1
    BY <1>1, MatchTypes, Numbers
  <2>3. PICK u \in 0..CatchUp + 1 : u = Later(m.unseen)  BY <1>1, <2>1, MatchTypes
  <2>4. PICK l \in 0..CatchUp + 1 : l = IF m.started THEN Later(m.late) ELSE m.late
    BY <1>1, <2>1, MatchTypes
  <2>5. r = [m EXCEPT !.expiresIn = e, !.unseen = u, !.late = l]
    BY <1>1, <1>2, <2>2, <2>3, <2>4 DEF TimePasses, MatchStates
  <2> QED  BY <1>1, <2>5, MatchTypes DEF MatchStates
<1>5. SoundMatch(r)  BY <1>3, <1>4 DEF MatchInv, SoundMatch, Terminal, Slots, Agree
<1>6. Waits(r) /\ Plays(r)
  BY <1>3 DEF MatchInv, Waits, Plays, Connected, Represented
<1> QED  BY <1>2, <1>3, <1>5, <1>6 DEF Follows, Becomes, MatchInv

\* Whoever the first tick does not remove is connected, and only they survive.
LEMMA Ticked ==
  ASSUME NEW m, MatchInv(m), m.started, NEW n \in 1..TicksDue(m),
         NEW s \in SUBSET Staying(m), MayReach(m, n, s)
  PROVE  Follows(AfterTicks(m, n, s), m)
<1>1. m \in MatchStates /\ s \subseteq m.alive
  BY DEF MatchInv, SoundMatch, Staying
<1>2. PICK ran : ran = [m EXCEPT !.alive = s, !.tick = @ + n, !.late = 0,
                                 !.leaving = {}, !.pendingDisconnects = {}]
  OBVIOUS
<1>3. /\ ran.id = m.id /\ ran.slot = m.slot /\ ran.tickets = m.tickets
      /\ ran.sessions = m.sessions /\ ran.connections = m.connections
      /\ ran.started = m.started /\ ran.ending = m.ending
      /\ ran.alive = s /\ ran.leaving = {} /\ ran.pendingDisconnects = {}
      /\ ran.tick = m.tick + n
  BY <1>1, <1>2 DEF MatchStates
<1>4. AfterTicks(m, n, s) = IF Decided(m, n, s) THEN Finish(ran, "Winner") ELSE ran
  BY <1>2 DEF AfterTicks
<1>5. CASE Decided(m, n, s)
  <2>1. PICK r : r = Finish(ran, "Winner") /\ r = AfterTicks(m, n, s)
    BY <1>4, <1>5
  <2>2. /\ r.id = ran.id /\ r.tickets = ran.tickets
        /\ r.connections = ran.connections /\ r.ending = "Winner"
    BY <1>1, <1>2, <2>1 DEF Finish, MatchStates
  <2> QED  BY <1>3, <2>1, <2>2 DEF Follows, Becomes, Terminal
<1>6. CASE ~Decided(m, n, s)
  <2>1. n \in Nat /\ m.tick \in Nat /\ m.tick + n < HardTimeout
    <3>1. m.tick \in Nat  BY <1>1, MatchTypes, Numbers
    <3>2. n \in Nat  BY <1>1, MatchTypes, Numbers DEF TicksDue
    <3> QED  BY <1>6, <3>1, <3>2, Numbers DEF Decided
  <2>2. PICK t \in 0..HardTimeout : t = m.tick + n  BY <2>1, Numbers
  <2>3. ran \in MatchStates
    <3>1. ran = [m EXCEPT !.alive = s, !.tick = t, !.late = 0,
                          !.leaving = {}, !.pendingDisconnects = {}]
      BY <1>1, <1>2, <2>2 DEF MatchStates
    <3>2. s \in SUBSET Players /\ 0 \in 0..CatchUp + 1
      BY <1>1, MatchTypes, Numbers
    <3> QED  BY <1>1, <3>1, <3>2, MatchTypes DEF MatchStates
  <2>4. SoundMatch(ran)
    BY <1>3, <2>1, <2>3 DEF MatchInv, SoundMatch, Terminal, Slots, Agree
  <2>5. \A p \in s : m.slot[p] = "Authenticated"
    BY DEF MatchInv, Plays, Represented, Staying
  <2>6. Waits(ran) /\ Plays(ran)
    BY <1>3, <2>5 DEF MatchInv, Waits, Plays, Connected, Represented
  <2> QED  BY <1>3, <1>4, <1>6, <2>4, <2>6 DEF Follows, Becomes, MatchInv
<1> QED  BY <1>5, <1>6

LEMMA Ran ==
  ASSUME NEW m, Terminal(m) \/ MatchInv(m), NEW r \in Advanced(m)
  PROVE  Follows(r, m)
<1>1. CASE Terminal(m) \/ ~m.started \/ TicksDue(m) = 0
  BY <1>1 DEF Advanced, Follows, Becomes
<1>2. CASE ~ (Terminal(m) \/ ~m.started \/ TicksDue(m) = 0)
  <2>1. PICK n \in 1..TicksDue(m), s \in SUBSET Staying(m) :
            MayReach(m, n, s) /\ r = AfterTicks(m, n, s)
    BY <1>2 DEF Advanced
  <2> QED  BY <1>2, <2>1, Ticked
<1> QED  BY <1>1, <1>2

-----------------------------------------------------------------------------
(* The server.                                                             *)

\* A spent ticket is one that was welcomed, and no later match has its id.
TicketsSpent ==
  \A c \in Connections : welcomed[c] # None =>
    /\ welcomed[c].match \in Issued
    /\ match # None /\ welcomed[c].match = match.id =>
         welcomed[c].player \notin match.tickets

MatchPart ==
  /\ timer \in BOOLEAN /\ (timer => match # None)
  /\ match # None => MatchInv(match) /\ outcomes[match.id] = <<>>
  /\ DOMAIN outcomes = Matches
  /\ \A i \in Matches : Len(outcomes[i]) <= 1

SessionPart ==
  /\ up \in BOOLEAN
  /\ gameSessions \in [Connections -> ServerSessions \cup {None}]
  /\ accepted \in {0} \cup Connections
  /\ authTimers \subseteq Connections /\ fired \subseteq Matches
  /\ welcomed \in [Connections -> [match : Matches, player : Players] \cup {None}]
  /\ \A c \in Connections : gameSessions[c] # None => c <= accepted

GameInv ==
  /\ MatchPart
  /\ SessionPart
  /\ PlayersHaveSessions
  /\ TicketsSpent
  /\ WelcomedOnce

LEMMA GameInvSays ==
  ASSUME GameInv
  PROVE  TypeOK /\ WaitsForTickets /\ PlayersAgree /\ OnceOnly /\ NoOrphanedContender
<1> USE DEF GameInv, MatchPart, SessionPart
<1>1. TypeOK  BY DEF TypeOK, MatchInv, SoundMatch
<1>2. WaitsForTickets  BY DEF WaitsForTickets, MatchInv, SoundMatch, Waits
<1>3. PlayersAgree
  BY DEF PlayersAgree, ParticipantsAgree, MatchInv, SoundMatch, Agree
<1>4. OnceOnly  BY DEF OnceOnly, EndsOnce, MatchInv, SoundMatch
<1>5. NoOrphanedContender
  BY DEF NoOrphanedContender, MatchInv, Plays, Represented
<1> QED  BY <1>1, <1>2, <1>3, <1>4, <1>5

LEMMA InitGameInv == Init => GameInv
<1> SUFFICES ASSUME Init PROVE GameInv  OBVIOUS
<1>1. MatchPart
  <2>1. timer = FALSE /\ match = None /\ outcomes = [i \in Matches |-> <<>>]
    BY DEF Init
  <2>2. ASSUME NEW i \in Matches PROVE Len(outcomes[i]) <= 1
    <3>1. outcomes[i] = <<>>  BY <2>1
    <3>2. Len(<<>>) = 0  OBVIOUS
    <3>3. Len(outcomes[i]) = 0  BY <3>1, <3>2
    <3> QED  BY <3>3
  <2> QED  BY <2>1, <2>2 DEF MatchPart
<1>2. SessionPart
  BY DEF Init, SessionPart
<1> QED
  BY <1>1, <1>2 DEF Init, GameInv, PlayersHaveSessions, TicketsSpent, WelcomedOnce


\* What a step leaves of the issued matches and their tickets.
Onwards ==
  /\ Issued \subseteq Issued'
  /\ match' # None => /\ match # None /\ match'.id = match.id
                      /\ match'.tickets \subseteq match.tickets

LEMMA Discarded ==
  ASSUME GameInv, match # None, NEW reason, Discard(reason)
  PROVE  MatchPart' /\ Onwards /\ match' = None
<1>1. /\ match' = None /\ timer' = FALSE
      /\ outcomes' = [outcomes EXCEPT ![match.id] = Append(@, reason)]
  BY DEF Discard
<1>2. /\ match.id \in Matches /\ outcomes[match.id] = <<>> /\ DOMAIN outcomes = Matches
      /\ \A i \in Matches : Len(outcomes[i]) <= 1
  BY MatchTypes DEF GameInv, MatchPart, MatchInv, SoundMatch
<1>3. PICK i \in Matches : i = match.id  BY <1>2
<1>4. PICK over : over = <<reason>>  OBVIOUS
<1>5. over # <<>> /\ Len(over) = 1  BY <1>4
<1>6. Append(outcomes[i], reason) = over
  <2>1. outcomes[i] = <<>>  BY <1>2, <1>3
  <2>2. Append(<<>>, reason) = <<reason>>  OBVIOUS
  <2> QED  BY <1>4, <2>1, <2>2
<1>7. outcomes' = [outcomes EXCEPT ![i] = over]  BY <1>1, <1>3, <1>6
<1>8. /\ outcomes'[i] = over /\ DOMAIN outcomes' = Matches
      /\ \A j \in Matches : j # i => outcomes'[j] = outcomes[j]
  BY <1>2, <1>7
<1>9. ASSUME NEW j \in Matches PROVE Len(outcomes'[j]) <= 1
  <2>1. CASE j = i
    <3>1. Len(outcomes'[j]) = 1  BY <1>5, <1>8, <2>1
    <3> QED  BY <3>1
  <2>2. CASE j # i
    <3>1. outcomes'[j] = outcomes[j]  BY <1>8, <2>2
    <3>2. Len(outcomes[j]) <= 1  BY <1>2
    <3> QED  BY <3>1, <3>2
  <2> QED  BY <2>1, <2>2
<1>10. Issued \subseteq Issued'
  BY <1>1, <1>3, <1>5, <1>8 DEF Issued
<1> QED  BY <1>1, <1>8, <1>9, <1>10 DEF MatchPart, Onwards

LEMMA Routed ==
  ASSUME GameInv, match # None, NEW links, NEW r, Becomes(r, match, links),
         RouteMatchResult(r)
  PROVE  MatchPart' /\ Onwards /\ (match' # None => match'.connections = links)
<1>1. CASE Terminal(r)
  BY <1>1, Discarded DEF RouteMatchResult
<1>2. CASE ~Terminal(r)
  <2>1. match' = r /\ timer' = TRUE /\ outcomes' = outcomes
    BY <1>2 DEF RouteMatchResult
  <2>2. MatchInv(r) /\ r.id = match.id /\ r.tickets \subseteq match.tickets
        /\ r.connections = links
    BY <1>2 DEF Becomes
  <2>3. r # None  BY <2>2, NoneAssumption DEF MatchInv, SoundMatch
  <2>4. MatchPart'
    BY <2>1, <2>2, <2>3 DEF GameInv, MatchPart
  <2>5. Issued' = Issued  BY <2>1, <2>2, <2>3 DEF Issued
  <2> QED  BY <2>1, <2>2, <2>4, <2>5 DEF Onwards
<1> QED  BY <1>1, <1>2

\* A step that welcomes nobody spends no ticket and breaks no promise.
LEMMA NobodyWelcomed ==
  ASSUME GameInv, Onwards, UNCHANGED welcomed
  PROVE  TicketsSpent' /\ WelcomedOnce'
<1>1. WelcomedOnce'  BY DEF GameInv, WelcomedOnce
<1>2. ASSUME NEW c \in Connections, welcomed'[c] # None
      PROVE  /\ welcomed'[c].match \in Issued'
             /\ match' # None /\ welcomed'[c].match = match'.id =>
                  welcomed'[c].player \notin match'.tickets
  BY <1>2 DEF GameInv, TicketsSpent, Onwards
<1> QED  BY <1>1, <1>2 DEF TicketsSpent

SameMarks ==
  \A c \in Connections : gameSessions[c] # None =>
    /\ gameSessions'[c] # None
    /\ gameSessions'[c].authenticated = gameSessions[c].authenticated

\* Players keep their sessions if the sessions keep their marks.
LEMMA SessionsStay ==
  ASSUME GameInv, SameMarks,
         match' # None => match # None /\ match'.connections = match.connections
  PROVE  PlayersHaveSessions'
BY DEF GameInv, SameMarks, PlayersHaveSessions, Connected

LEMMA NoMatchNoPlayers == ASSUME match' = None PROVE PlayersHaveSessions'
BY DEF PlayersHaveSessions

\* The link of some sessions changes, and nothing else of any.
Relinked(gs) ==
  /\ gs \in [Connections -> ServerSessions \cup {None}]
  /\ \A c \in Connections : (gs[c] # None) <=> (gameSessions[c] # None)
  /\ \A c \in Connections : gameSessions[c] # None =>
       gs[c].authenticated = gameSessions[c].authenticated

LEMMA LinkSet ==
  ASSUME NEW s \in ServerSessions, NEW l \in Links
  PROVE  LET n == [s EXCEPT !.link = l]
         IN  n \in ServerSessions /\ n # None /\ n.authenticated = s.authenticated
<1>1. PICK n : n = [s EXCEPT !.link = l]  OBVIOUS
<1>2. n \in ServerSessions /\ n.authenticated = s.authenticated
  BY <1>1 DEF ServerSessions
<1> QED  BY <1>1, <1>2, NoneAssumption

LEMMA OneRelinked ==
  ASSUME GameInv, NEW c \in Connections, gameSessions[c] # None, NEW l \in Links
  PROVE  Relinked([gameSessions EXCEPT ![c].link = l])
<1>1. gameSessions[c] \in ServerSessions  BY DEF GameInv, SessionPart
<1>2. PICK n : n = [gameSessions[c] EXCEPT !.link = l]  OBVIOUS
<1>3. n \in ServerSessions /\ n # None /\ n.authenticated = gameSessions[c].authenticated
  BY <1>1, <1>2, LinkSet
<1>4. [gameSessions EXCEPT ![c].link = l] = [gameSessions EXCEPT ![c] = n]
  BY <1>2 DEF GameInv, SessionPart
<1> QED  BY <1>3, <1>4 DEF GameInv, SessionPart, Relinked

LEMMA FlushedRelinked ==
  ASSUME GameInv, NEW cs
  PROVE  Relinked(Flushed(gameSessions, cs))
<1>1. "flushing" \in Links  BY DEF Links
<1>2. \A c \in Connections : gameSessions[c] \in ServerSessions \cup {None}
  BY DEF GameInv, SessionPart
<1>3. ASSUME NEW c \in Connections, gameSessions[c] # None
      PROVE  LET n == [gameSessions[c] EXCEPT !.link = "flushing"]
             IN  /\ n \in ServerSessions /\ n # None
                 /\ n.authenticated = gameSessions[c].authenticated
  BY <1>1, <1>2, <1>3, LinkSet
<1>4. PICK gs : gs = Flushed(gameSessions, cs)  OBVIOUS
<1>5. \A c \in Connections :
          gs[c] = IF c \in cs /\ gameSessions[c] # None /\ gameSessions[c].link = "open"
                  THEN [gameSessions[c] EXCEPT !.link = "flushing"] ELSE gameSessions[c]
  BY <1>4 DEF Flushed
<1>6. gs \in [Connections -> ServerSessions \cup {None}]
  BY <1>2, <1>3, <1>4 DEF Flushed
<1>7. \A c \in Connections : (gs[c] # None) <=> (gameSessions[c] # None)
  BY <1>3, <1>5
<1>8. \A c \in Connections : gameSessions[c] # None =>
          gs[c].authenticated = gameSessions[c].authenticated
  BY <1>3, <1>5
<1> QED  BY <1>4, <1>6, <1>7, <1>8 DEF Relinked

LEMMA AllClosedRelinked ==
  ASSUME GameInv
  PROVE  Relinked(AllClosed(gameSessions))
<1>1. "closed" \in Links  BY DEF Links
<1>2. \A c \in Connections : gameSessions[c] \in ServerSessions \cup {None}
  BY DEF GameInv, SessionPart
<1>3. ASSUME NEW c \in Connections, gameSessions[c] # None
      PROVE  LET n == [gameSessions[c] EXCEPT !.link = "closed"]
             IN  /\ n \in ServerSessions /\ n # None
                 /\ n.authenticated = gameSessions[c].authenticated
  BY <1>1, <1>2, <1>3, LinkSet
<1>4. PICK gs : gs = AllClosed(gameSessions)  OBVIOUS
<1>5. \A c \in Connections :
          gs[c] = IF gameSessions[c] # None
                  THEN [gameSessions[c] EXCEPT !.link = "closed"] ELSE gameSessions[c]
  BY <1>4 DEF AllClosed
<1>6. gs \in [Connections -> ServerSessions \cup {None}]
  BY <1>2, <1>3, <1>4 DEF AllClosed
<1>7. \A c \in Connections : (gs[c] # None) <=> (gameSessions[c] # None)
  BY <1>3, <1>5
<1>8. \A c \in Connections : gameSessions[c] # None =>
          gs[c].authenticated = gameSessions[c].authenticated
  BY <1>3, <1>5
<1> QED  BY <1>4, <1>6, <1>7, <1>8 DEF Relinked

\* Sessions that keep their marks.
LEMMA RelinkedKeeps ==
  ASSUME GameInv, Relinked(gameSessions'), authTimers' \subseteq authTimers,
         UNCHANGED <<up, accepted, welcomed>>, fired' \subseteq fired
  PROVE  SessionPart' /\ SameMarks
<1>1. SessionPart'
  BY DEF GameInv, SessionPart, Relinked
<1>2. SameMarks  BY DEF Relinked, SameMarks
<1> QED  BY <1>1, <1>2


-----------------------------------------------------------------------------
(* Every action.                                                           *)

\* The steps that route a match's result and change no connection of it, while
\* the sessions keep their marks.
LEMMA RoutedKeeps ==
  ASSUME GameInv, match # None, NEW r, Follows(r, match), RouteMatchResult(r),
         Relinked(gameSessions'), authTimers' \subseteq authTimers,
         UNCHANGED <<up, accepted, welcomed>>, fired' \subseteq fired
  PROVE  GameInv'
<1>1. /\ MatchPart' /\ Onwards
      /\ match' # None => match'.connections = match.connections
  BY Routed DEF Follows
<1>2. SessionPart' /\ SameMarks  BY RelinkedKeeps
<1>3. PlayersHaveSessions'  BY <1>1, <1>2, SessionsStay
<1>4. TicketsSpent' /\ WelcomedOnce'  BY <1>1, NobodyWelcomed
<1> QED  BY <1>1, <1>2, <1>3, <1>4 DEF GameInv

\* The steps that leave the match alone.
LEMMA QuietKeeps ==
  ASSUME GameInv, UNCHANGED <<matchVars, up, accepted, welcomed>>,
         Relinked(gameSessions'), authTimers' \subseteq authTimers, fired' \subseteq fired
  PROVE  GameInv'
<1>1. MatchPart'  BY DEF GameInv, MatchPart, matchVars
<1>2. Onwards  BY DEF Onwards, Issued, matchVars
<1>3. SessionPart' /\ SameMarks  BY RelinkedKeeps
<1>4. PlayersHaveSessions'  BY <1>3, SessionsStay DEF matchVars
<1>5. TicketsSpent' /\ WelcomedOnce'  BY <1>2, NobodyWelcomed
<1> QED  BY <1>1, <1>3, <1>4, <1>5 DEF GameInv

LEMMA SameRelinked == ASSUME GameInv PROVE Relinked(gameSessions)
BY DEF GameInv, SessionPart, Relinked

LEMMA ReserveKeeps ==
  ASSUME GameInv, NEW i \in Matches, Reserve(i)
  PROVE  GameInv'
<1>1. /\ match = None /\ i \notin Issued /\ match' = Create(i) /\ timer' = TRUE
      /\ UNCHANGED <<up, outcomes, sessionVars, fired>>
  BY DEF Reserve
<1>2. MatchInv(match') /\ match'.id = i /\ match' # None /\ match'.connections = [c \in Connections |-> None]
  <2>1. PICK r : r = Create(i)  OBVIOUS
  <2>2. MatchInv(r) /\ r.id = i  BY <2>1, Created
  <2>3. r # None  BY <2>2, NoneAssumption DEF MatchInv, SoundMatch
  <2>4. r.connections = [c \in Connections |-> None]  BY <2>1 DEF Create
  <2> QED  BY <1>1, <2>1, <2>2, <2>3, <2>4
<1>3. MatchPart'
  BY <1>1, <1>2 DEF GameInv, MatchPart, Issued
<1>4. SessionPart'  BY <1>1 DEF GameInv, SessionPart, sessionVars
<1>5. PlayersHaveSessions'  BY <1>2 DEF PlayersHaveSessions, Connected
<1>6. TicketsSpent'
  BY <1>1, <1>2 DEF GameInv, TicketsSpent, Issued, sessionVars
<1>7. WelcomedOnce'  BY <1>1 DEF GameInv, WelcomedOnce, sessionVars
<1> QED  BY <1>3, <1>4, <1>5, <1>6, <1>7 DEF GameInv

LEMMA GivenUpKeeps ==
  ASSUME GameInv, match # None, NEW reason, Discard(reason), CloseAllGameSessions,
         UNCHANGED <<up, fired>>
  PROVE  GameInv'
<1>1. MatchPart' /\ Onwards /\ match' = None  BY Discarded
<1>2. /\ Relinked(gameSessions') /\ authTimers' \subseteq authTimers
      /\ UNCHANGED <<accepted, welcomed>>
  BY AllClosedRelinked DEF CloseAllGameSessions
<1>3. SessionPart'  BY <1>2, RelinkedKeeps
<1>4. TicketsSpent' /\ WelcomedOnce'  BY <1>1, <1>2, NobodyWelcomed
<1> QED  BY <1>1, <1>3, <1>4, NoMatchNoPlayers DEF GameInv

LEMMA LobbyLostKeeps ==
  ASSUME GameInv, ControlClosed
  PROVE  GameInv'
<1>1. CASE match # None  BY <1>1, GivenUpKeeps DEF ControlClosed
<1>2. CASE match = None
  BY <1>2, QuietKeeps, AllClosedRelinked
  DEF ControlClosed, CloseAllGameSessions, matchVars
<1> QED  BY <1>1, <1>2

LEMMA AcceptKeeps ==
  ASSUME GameInv, AcceptGameSession
  PROVE  GameInv'
<1>1. PICK c \in Connections : c = accepted + 1
  BY DEF AcceptGameSession
<1>2. PICK n : n = [authenticated |-> FALSE, link |-> "open"]  OBVIOUS
<1>3. /\ accepted' = c /\ gameSessions' = [gameSessions EXCEPT ![c] = n]
      /\ authTimers' = authTimers \cup {c}
      /\ UNCHANGED <<up, matchVars, welcomed, fired>>
  BY <1>1, <1>2 DEF AcceptGameSession
<1>4. n \in ServerSessions  BY <1>2 DEF ServerSessions, Links
<1>5. accepted \in Nat /\ c \in Nat /\ accepted < c /\ ~(c <= accepted)
  BY <1>1, Numbers DEF GameInv, SessionPart, Connections
<1>6. gameSessions[c] = None  BY <1>5 DEF GameInv, SessionPart
<1>7. /\ gameSessions'[c] = n
      /\ \A d \in Connections : d # c => gameSessions'[d] = gameSessions[d]
  BY <1>3 DEF GameInv, SessionPart
<1>8. \A d \in Connections : gameSessions'[d] # None => d <= accepted'
  BY <1>3, <1>5, <1>7, Numbers DEF GameInv, SessionPart, Connections
<1>9. SessionPart'
  BY <1>3, <1>4, <1>8 DEF GameInv, SessionPart
<1>10. MatchPart'  BY <1>3 DEF GameInv, MatchPart, matchVars
<1>11. Onwards  BY <1>3 DEF Onwards, Issued, matchVars
<1>12. SameMarks  BY <1>6, <1>7 DEF SameMarks
<1>13. PlayersHaveSessions'  BY <1>3, <1>12, SessionsStay DEF matchVars
<1> QED  BY <1>3, <1>9, <1>10, <1>11, <1>13, NobodyWelcomed DEF GameInv

LEMMA LinkKeeps ==
  ASSUME GameInv, NEW c \in Connections,
         AuthenticationTimeout(c) \/ LinkFails(c) \/ FlushDone(c)
  PROVE  GameInv'
<1>1. "closed" \in Links  BY DEF Links
<1>2. UNCHANGED <<up, matchVars, accepted, welcomed, fired>>
      /\ authTimers' \subseteq authTimers
  BY DEF AuthenticationTimeout, LinkFails, FlushDone
<1>3. \/ gameSessions' = gameSessions
      \/ /\ gameSessions[c] # None
         /\ gameSessions' = [gameSessions EXCEPT ![c].link = "closed"]
  BY DEF AuthenticationTimeout, LinkFails, FlushDone, Reading
<1>4. Relinked(gameSessions')
  BY <1>1, <1>3, SameRelinked, OneRelinked
<1> QED  BY <1>2, <1>4, QuietKeeps

LEMMA DismissSays ==
  ASSUME GameInv, NEW c, Dismiss(c)
  PROVE  /\ Relinked(gameSessions') /\ authTimers' \subseteq authTimers
         /\ UNCHANGED <<accepted, welcomed>>
BY FlushedRelinked DEF Dismiss

\* A refused player's connection is dismissed; the match has read the clock.
LEMMA RefusalKeeps ==
  ASSUME GameInv, NEW c \in Connections, NEW hello \in Hellos,
         HelloRejected(c, hello) \/ HelloRefused(c, hello)
  PROVE  GameInv'
<1>1. match # None /\ Dismiss(c) /\ UNCHANGED <<up, fired>>
  BY DEF HelloRejected, HelloRefused
<1>2. MatchInv(match)  BY <1>1 DEF GameInv, MatchPart
<1>3. PICK m : m = Observe(match)  OBVIOUS
<1>4. Follows(m, match)  BY <1>2, <1>3, Observed
<1>5. \E r : Follows(r, match) /\ RouteMatchResult(r)
  <2>1. CASE HelloRejected(c, hello)
    BY <1>3, <1>4, <2>1 DEF HelloRejected
  <2>2. CASE HelloRefused(c, hello)
    <3>1. Admits(m, c, hello) /\ RouteMatchResult(Refuse(m, hello.player))
      BY <1>3, <2>2 DEF HelloRefused
    <3>2. MatchInv(m) /\ ~m.started /\ hello.player \in m.tickets
      BY <1>4, <3>1 DEF Admits, Follows, Becomes
    <3>3. Follows(Refuse(m, hello.player), m)  BY <3>2, Refused
    <3> QED  BY <1>4, <3>1, <3>3 DEF Follows, Becomes
  <2> QED  BY <2>1, <2>2
<1> QED  BY <1>1, <1>5, DismissSays, RoutedKeeps

\* A welcome spends the ticket: nobody was welcomed with it before.
LEMMA WelcomeKeeps ==
  ASSUME GameInv, NEW c \in Connections, NEW hello \in Hellos,
         HelloAccepted(c, hello)
  PROVE  GameInv'
<1>1. /\ match # None /\ Reading(c) /\ gameSessions' = Marked(gameSessions, c)
      /\ authTimers' = authTimers \ {c}
      /\ UNCHANGED <<up, accepted, fired>>
  BY DEF HelloAccepted
<1>2. MatchInv(match)  BY <1>1 DEF GameInv, MatchPart
<1>3. PICK m : m = Observe(match)  OBVIOUS
<1>4. Follows(m, match)  BY <1>2, <1>3, Observed
<1>5. Admits(m, c, hello) /\ RouteMatchResult(Welcome(m, c, hello.player))
  BY <1>3 DEF HelloAccepted
<1>6. PICK p : p = hello.player  OBVIOUS
<1>7. /\ MatchInv(m) /\ ~m.started /\ p \in m.tickets
      /\ m.connections[c] = None /\ m.sessions[p] = None
  BY <1>4, <1>5, <1>6 DEF Admits, Follows, Becomes
<1>8. p \in Players /\ match.id \in Matches /\ p \in match.tickets
  BY <1>2, <1>4, <1>7, MatchTypes DEF MatchInv, SoundMatch, Follows, Becomes
<1>9. PICK links : links = [match.connections EXCEPT ![c] = p]  OBVIOUS
<1>10. PICK r : r = Welcome(m, c, p)  OBVIOUS
<1>11. Becomes(r, m, links)
  BY <1>4, <1>7, <1>9, <1>10, Welcomed DEF Follows, Becomes
<1>12. Becomes(r, match, links)  BY <1>4, <1>11 DEF Follows, Becomes
<1>13. /\ MatchPart' /\ Onwards /\ (match' # None => match'.connections = links)
  BY <1>1, <1>5, <1>6, <1>10, <1>12, Routed
<1>14. match' # None => match'.tickets \subseteq match.tickets \ {p}
  <2>1. r.tickets \subseteq m.tickets \ {p}
    BY <1>7, <1>10, Welcomed
  <2>2. match' # None => match' = r
    BY <1>5, <1>6, <1>10 DEF RouteMatchResult, Discard
  <2> QED  BY <1>4, <2>1, <2>2 DEF Follows, Becomes
<1>15. PICK n : n = [gameSessions[c] EXCEPT !.authenticated = TRUE]  OBVIOUS
<1>16. gameSessions[c] \in ServerSessions
  BY <1>1 DEF Reading, GameInv, SessionPart
<1>17. n \in ServerSessions /\ n # None /\ n.authenticated = TRUE
  <2>1. n = [authenticated |-> TRUE, link |-> gameSessions[c].link]
    BY <1>15, <1>16 DEF ServerSessions
  <2>2. n \in ServerSessions  BY <1>16, <2>1 DEF ServerSessions
  <2> QED  BY <2>1, <2>2, NoneAssumption
<1>18. gameSessions' = [gameSessions EXCEPT ![c] = n]
  BY <1>1, <1>15 DEF Marked, GameInv, SessionPart
<1>19. /\ gameSessions'[c] = n
       /\ \A d \in Connections : d # c => gameSessions'[d] = gameSessions[d]
  BY <1>18 DEF GameInv, SessionPart
<1>20. PICK w : w = [match |-> match.id, player |-> p]  OBVIOUS
<1>21. w \in [match : Matches, player : Players] /\ w.match = match.id /\ w.player = p
  BY <1>8, <1>20
<1>22. welcomed' = [welcomed EXCEPT ![c] = w]
  BY <1>6, <1>20 DEF HelloAccepted
<1>23. /\ welcomed'[c] = w
       /\ \A d \in Connections : d # c => welcomed'[d] = welcomed[d]
  BY <1>22 DEF GameInv, SessionPart
<1>24. SessionPart'
  <2>1. \A d \in Connections : gameSessions'[d] # None => d <= accepted'
    BY <1>1, <1>19 DEF GameInv, SessionPart, Reading
  <2>2. gameSessions' \in [Connections -> ServerSessions \cup {None}]
    BY <1>17, <1>18 DEF GameInv, SessionPart
  <2>3. welcomed' \in [Connections -> [match : Matches, player : Players] \cup {None}]
    BY <1>21, <1>22 DEF GameInv, SessionPart
  <2> QED  BY <1>1, <2>1, <2>2, <2>3 DEF GameInv, SessionPart
<1>25. PlayersHaveSessions'
  <2> SUFFICES ASSUME match' # None, NEW d \in Connections, match'.connections[d] # None
               PROVE  gameSessions'[d] # None /\ gameSessions'[d].authenticated
    BY DEF PlayersHaveSessions, Connected
  <2>1. CASE d = c  BY <1>17, <1>19, <2>1
  <2>2. CASE d # c
    <3>1. match.connections[d] # None
      BY <1>2, <1>9, <1>13, <2>2, MatchTypes DEF MatchInv, SoundMatch
    <3> QED  BY <1>1, <1>19, <2>2, <3>1 DEF GameInv, PlayersHaveSessions, Connected
  <2> QED  BY <2>1, <2>2
<1>26. TicketsSpent'
  <2> SUFFICES ASSUME NEW d \in Connections, welcomed'[d] # None
               PROVE  /\ welcomed'[d].match \in Issued'
                      /\ match' # None /\ welcomed'[d].match = match'.id =>
                           welcomed'[d].player \notin match'.tickets
    BY DEF TicketsSpent
  <2>1. CASE d = c
    <3>1. match.id \in Issued  BY <1>1 DEF Issued
    <3> QED  BY <1>13, <1>14, <1>21, <1>23, <2>1, <3>1 DEF Onwards
  <2>2. CASE d # c
    BY <1>1, <1>13, <1>23, <2>2 DEF GameInv, TicketsSpent, Onwards
  <2> QED  BY <2>1, <2>2
<1>27. WelcomedOnce'
  <2>1. w # None => \A d \in Connections : welcomed[d] # w
    <3> SUFFICES ASSUME NEW d \in Connections, welcomed[d] = w, w # None PROVE FALSE
      OBVIOUS
    <3> QED  BY <1>1, <1>8, <1>21 DEF GameInv, TicketsSpent
  <2> QED  BY <1>23, <2>1 DEF GameInv, WelcomedOnce
<1> QED  BY <1>13, <1>24, <1>25, <1>26, <1>27 DEF GameInv


\* The posted close: a player's connection goes out of the match with it.
LEMMA CloseKeeps ==
  ASSUME GameInv, NEW c \in Connections, GameSessionClosed(c)
  PROVE  GameInv'
<1>1. /\ gameSessions[c] # None
      /\ gameSessions' = [gameSessions EXCEPT ![c] = None]
      /\ authTimers' = authTimers \ {c}
      /\ UNCHANGED <<up, accepted, welcomed, fired>>
  BY DEF GameSessionClosed
<1>2. /\ gameSessions'[c] = None
      /\ \A d \in Connections : d # c => gameSessions'[d] = gameSessions[d]
  BY <1>1 DEF GameInv, SessionPart
<1>3. SessionPart'
  <2>1. \A d \in Connections : gameSessions'[d] # None => d <= accepted'
    BY <1>1, <1>2 DEF GameInv, SessionPart
  <2> QED  BY <1>1, <2>1 DEF GameInv, SessionPart
<1>4. CASE match # None /\ gameSessions[c].authenticated
  <2>1. MatchInv(match)  BY <1>4 DEF GameInv, MatchPart
  <2>2. PICK links : links = [match.connections EXCEPT ![c] = None]  OBVIOUS
  <2>3. PICK r : r = Disconnect(match, c)  OBVIOUS
  <2>4. Becomes(r, match, links)  BY <2>1, <2>2, <2>3, DisconnectedStill
  <2>5. RouteMatchResult(r)  BY <1>4, <2>3 DEF GameSessionClosed
  <2>6. MatchPart' /\ Onwards /\ (match' # None => match'.connections = links)
    BY <1>4, <2>4, <2>5, Routed
  <2>7. PlayersHaveSessions'
    <3> SUFFICES ASSUME match' # None, NEW d \in Connections, match'.connections[d] # None
                 PROVE  gameSessions'[d] # None /\ gameSessions'[d].authenticated
      BY DEF PlayersHaveSessions, Connected
    <3>1. d # c /\ match.connections[d] # None
      BY <2>1, <2>2, <2>6, MatchTypes DEF MatchInv, SoundMatch
    <3> QED  BY <1>2, <1>4, <3>1 DEF GameInv, PlayersHaveSessions, Connected
  <2> QED  BY <1>1, <1>3, <2>6, <2>7, NobodyWelcomed DEF GameInv
<1>5. CASE ~ (match # None /\ gameSessions[c].authenticated)
  <2>1. UNCHANGED matchVars  BY <1>5 DEF GameSessionClosed
  <2>2. MatchPart'  BY <2>1 DEF GameInv, MatchPart, matchVars
  <2>3. Onwards  BY <2>1 DEF Onwards, Issued, matchVars
  <2>4. PlayersHaveSessions'
    <3> SUFFICES ASSUME match # None, NEW d \in Connected(match)
                 PROVE  gameSessions'[d] # None /\ gameSessions'[d].authenticated
      BY <2>1 DEF PlayersHaveSessions, matchVars
    <3>1. d \in Connections /\ gameSessions[d] # None /\ gameSessions[d].authenticated
      BY DEF GameInv, PlayersHaveSessions, Connected
    <3>2. d # c  BY <1>5, <3>1
    <3> QED  BY <1>2, <3>1, <3>2
  <2> QED  BY <1>1, <1>3, <2>2, <2>3, <2>4, NobodyWelcomed DEF GameInv
<1> QED  BY <1>4, <1>5

LEMMA DatagramKeeps ==
  ASSUME GameInv, NEW c \in Connections, NEW peer \in Peers
  PROVE  /\ BindArrives(c, peer) => GameInv'
         /\ \A sequence \in 1..MaxInput :
              /\ \A usable \in BOOLEAN : InputArrives(c, peer, sequence, usable) => GameInv'
              /\ BadAcknowledgement(c, peer, sequence) => GameInv'
<1>1. ASSUME match # None, welcomed[c] # None,
             HasSession(match, welcomed[c].match, welcomed[c].player, c)
      PROVE  /\ MatchInv(match) /\ welcomed[c].player \in Players
             /\ match.sessions[welcomed[c].player] # None
             /\ match.sessions[welcomed[c].player].connected
  BY <1>1 DEF GameInv, MatchPart, SessionPart, HasSession
<1>2. ASSUME BindArrives(c, peer) PROVE GameInv'
  <2>1. PICK r : /\ r = Bind(match, welcomed[c].player, peer)
                 /\ RouteMatchResult(r)
    BY <1>2 DEF BindArrives
  <2>2. match # None /\ UNCHANGED <<up, sessionVars, fired>>
    BY <1>2 DEF BindArrives
  <2>3. Follows(r, match)  BY <1>1, <1>2, <2>1, Bound DEF BindArrives
  <2> QED  BY <2>1, <2>2, <2>3, SameRelinked, RoutedKeeps DEF sessionVars
<1>3. ASSUME NEW sequence \in 1..MaxInput, NEW usable \in BOOLEAN,
             InputArrives(c, peer, sequence, usable)
      PROVE  GameInv'
  <2>1. PICK r : /\ r = Input(match, welcomed[c].player, sequence, usable)
                 /\ RouteMatchResult(r)
    BY <1>3 DEF InputArrives
  <2>2. match # None /\ UNCHANGED <<up, sessionVars, fired>>
    BY <1>3 DEF InputArrives
  <2>3. Follows(r, match)  BY <1>1, <1>3, <2>1, Heard DEF InputArrives
  <2> QED  BY <2>1, <2>2, <2>3, SameRelinked, RoutedKeeps DEF sessionVars
<1>4. ASSUME NEW sequence \in 1..MaxInput, BadAcknowledgement(c, peer, sequence)
      PROVE  GameInv'
  <2>1. /\ match # None /\ RouteMatchResult(match) /\ Dismiss(c)
        /\ UNCHANGED <<up, fired>>
    BY <1>4 DEF BadAcknowledgement
  <2>2. Follows(match, match)
    BY <2>1 DEF GameInv, MatchPart, Follows, Becomes
  <2> QED  BY <2>1, <2>2, DismissSays, RoutedKeeps
<1> QED  BY <1>2, <1>3, <1>4

LEMMA TimeKeeps ==
  ASSUME GameInv, Tick
  PROVE  GameInv'
<1>1. PICK r : r = TimePasses(match) /\ match' = r /\ match # None
  BY DEF Tick
<1>2. UNCHANGED <<up, timer, outcomes, sessionVars, fired>>  BY DEF Tick
<1>3. /\ MatchInv(r) /\ r.id = match.id /\ r.tickets \subseteq match.tickets
      /\ r.connections = match.connections /\ r # None
  <2>1. MatchInv(r) /\ Follows(r, match)
    BY <1>1, Elapsed DEF GameInv, MatchPart
  <2> QED  BY <2>1, NoneAssumption DEF Follows, Becomes, MatchInv, SoundMatch
<1>4. MatchPart'  BY <1>1, <1>2, <1>3 DEF GameInv, MatchPart
<1>5. Onwards  BY <1>1, <1>2, <1>3 DEF Onwards, Issued
<1>6. SessionPart'  BY <1>2 DEF GameInv, SessionPart, sessionVars
<1>7. SameMarks  BY <1>2 DEF SameMarks, sessionVars
<1>8. PlayersHaveSessions'  BY <1>1, <1>3, <1>7, SessionsStay
<1> QED  BY <1>2, <1>4, <1>5, <1>6, <1>8, NobodyWelcomed DEF GameInv, sessionVars

LEMMA TimerKeeps ==
  ASSUME GameInv, TimerFires \/ StaleTimer
  PROVE  GameInv'
<1>1. UNCHANGED <<up, match, outcomes, sessionVars>> /\ timer' \in {timer, FALSE}
  BY DEF TimerFires, StaleTimer, matchVars
<1>2. fired' \subseteq Matches
  <2>1. match # None => match.id \in Matches
    BY MatchTypes DEF GameInv, MatchPart, MatchInv, SoundMatch
  <2> QED  BY <2>1 DEF TimerFires, StaleTimer, GameInv, MatchPart, SessionPart
<1>3. MatchPart'
  <2>1. CASE timer' = timer  BY <1>1, <2>1 DEF GameInv, MatchPart
  <2>2. CASE timer' = FALSE  BY <1>1, <2>2 DEF GameInv, MatchPart
  <2> QED  BY <1>1, <2>1, <2>2
<1>4. Onwards  BY <1>1 DEF Onwards, Issued
<1>5. SessionPart'  BY <1>1, <1>2 DEF GameInv, SessionPart, sessionVars
<1>6. SameMarks  BY <1>1 DEF SameMarks, sessionVars
<1>7. PlayersHaveSessions'  BY <1>1, <1>6, SessionsStay
<1> QED  BY <1>1, <1>3, <1>4, <1>5, <1>7, NobodyWelcomed DEF GameInv, sessionVars

LEMMA AdvanceKeeps ==
  ASSUME GameInv, Advance
  PROVE  GameInv'
<1>1. PICK m : m = Clocked(match)  OBVIOUS
<1>2. PICK r \in Advanced(m) :
          /\ RouteMatchResult(r)
          /\ gameSessions' = Flushed(gameSessions, Dismissed(r))
          /\ authTimers' = authTimers \ Dismissed(r)
  BY <1>1 DEF Advance
<1>3. match # None /\ fired' \subseteq fired /\ UNCHANGED <<up, accepted, welcomed>>
  BY DEF Advance
<1>4. Follows(m, match)  BY <1>1, <1>3, ClockRead DEF GameInv, MatchPart
<1>5. Follows(r, match)
  <2>1. Follows(r, m)  BY <1>4, Ran DEF Follows, Becomes
  <2> QED  BY <1>4, <2>1 DEF Follows, Becomes
<1>6. Relinked(gameSessions') /\ authTimers' \subseteq authTimers
  BY <1>2, FlushedRelinked
<1> QED  BY <1>2, <1>3, <1>5, <1>6, RoutedKeeps

\* The server dies, and takes match and sessions with it.
LEMMA DeathKeeps ==
  ASSUME GameInv, AdvanceThrows
  PROVE  GameInv'
<1>1. match # None /\ Discard("ServerDied")
  BY DEF AdvanceThrows, Discard
<1>2. /\ up' = FALSE /\ fired' = {} /\ authTimers' = {}
      /\ gameSessions' = [c \in Connections |-> None]
      /\ UNCHANGED <<accepted, welcomed>>
  BY DEF AdvanceThrows
<1>3. MatchPart' /\ Onwards /\ match' = None  BY <1>1, Discarded
<1>4. SessionPart'  BY <1>2 DEF GameInv, SessionPart
<1> QED
  BY <1>2, <1>3, <1>4, NobodyWelcomed, NoMatchNoPlayers DEF GameInv

LEMMA GameStep == GameInv /\ [Next]_vars => GameInv'
<1> SUFFICES ASSUME GameInv, [Next]_vars PROVE GameInv'  OBVIOUS
<1>1. ASSUME NEW i \in Matches, Reserve(i) PROVE GameInv'
  BY <1>1, ReserveKeeps
<1>2. CASE Cancel  BY <1>2, GivenUpKeeps DEF Cancel
<1>3. CASE ControlClosed  BY <1>3, LobbyLostKeeps
<1>4. CASE AcceptGameSession  BY <1>4, AcceptKeeps
<1>5. ASSUME NEW c \in Connections,
             AuthenticationTimeout(c) \/ LinkFails(c) \/ FlushDone(c)
      PROVE  GameInv'
  BY <1>5, LinkKeeps
<1>6. ASSUME NEW c \in Connections, FrameOutOfPlace(c) PROVE GameInv'
  <2>1. Dismiss(c) /\ UNCHANGED <<up, matchVars, fired>>
    BY <1>6 DEF FrameOutOfPlace
  <2> QED  BY <2>1, DismissSays, QuietKeeps
<1>7. ASSUME NEW c \in Connections, NEW hello \in Hellos,
             HelloRejected(c, hello) \/ HelloRefused(c, hello)
      PROVE  GameInv'
  BY <1>7, RefusalKeeps
<1>8. ASSUME NEW c \in Connections, NEW hello \in Hellos, HelloAccepted(c, hello)
      PROVE  GameInv'
  BY <1>8, WelcomeKeeps
<1>9. ASSUME NEW c \in Connections, GameSessionClosed(c) PROVE GameInv'
  BY <1>9, CloseKeeps
<1>10. ASSUME NEW c \in Connections, NEW peer \in Peers,
              \/ BindArrives(c, peer)
              \/ \E sequence \in 1..MaxInput :
                   \/ \E usable \in BOOLEAN : InputArrives(c, peer, sequence, usable)
                   \/ BadAcknowledgement(c, peer, sequence)
       PROVE  GameInv'
  BY <1>10, DatagramKeeps
<1>11. CASE Tick  BY <1>11, TimeKeeps
<1>12. CASE TimerFires \/ StaleTimer  BY <1>12, TimerKeeps
<1>13. CASE Advance  BY <1>13, AdvanceKeeps
<1>14. CASE AdvanceThrows  BY <1>14, DeathKeeps
<1>15. CASE UNCHANGED vars
  <2>1. UNCHANGED <<up, match, timer, outcomes, gameSessions, accepted, authTimers,
                    welcomed, fired>>
    BY <1>15 DEF vars, matchVars, sessionVars
  <2> QED  BY <2>1, QuietKeeps, SameRelinked DEF matchVars
<1> QED
  BY <1>1, <1>2, <1>3, <1>4, <1>5, <1>6, <1>7, <1>8, <1>9, <1>10, <1>11, <1>12, <1>13,
     <1>14, <1>15
  DEF Next

LEMMA GameInvariant == Spec => []GameInv
BY InitGameInv, GameStep, PTL DEF Spec

\* The server's state keeps its type for any numbers of players and connections.
THEOREM TypesHold == Spec => []TypeOK
<1>1. GameInv => TypeOK  BY GameInvSays
<1> QED  BY <1>1, GameInvariant, PTL

\* A match that has not started waits for exactly the holders of live tickets,
\* and there is one: AuthoritativeMatch never waits for nobody.
THEOREM MatchesAlwaysWait == Spec => []WaitsForTickets
<1>1. GameInv => WaitsForTickets  BY GameInvSays
<1> QED  BY <1>1, GameInvariant, PTL

\* Slots, sessions and connections of a match name the same players, and each
\* of them has a TCP session of the server.
THEOREM PlayersAlwaysAgree == Spec => []PlayersAgree
<1>1. GameInv => PlayersAgree  BY GameInvSays
<1> QED  BY <1>1, GameInvariant, PTL

\* GameTicketStore admits each player of a match once, and a match ends once.
THEOREM HandedOutOnce == Spec => []OnceOnly
<1>1. GameInv => OnceOnly  BY GameInvSays
<1> QED  BY <1>1, GameInvariant, PTL

\* Whoever lives in a running match is connected or about to be removed by the
\* next tick: no disconnect is lost between the roster and the simulation.
THEOREM ContendersAlwaysRepresented == Spec => []NoOrphanedContender
<1>1. GameInv => NoOrphanedContender  BY GameInvSays
<1> QED  BY <1>1, GameInvariant, PTL

-----------------------------------------------------------------------------
(* Starts and commands: what a step makes of a match, session by session.  *)

CommandHeard(s) == s.command <= s.acknowledgedInput

SessionForward(new, old) ==
  /\ new.acknowledgedInput >= old.acknowledgedInput
  /\ new.connected => new.command >= old.command
  /\ old.peer # None => new.peer \in {old.peer, None}
  /\ new.command # old.command /\ new.connected => old.peer # None

AllHeard(m) == \A p \in Players : m.sessions[p] # None => CommandHeard(m.sessions[p])

ClockFresh(r, m) == r.started /\ ~m.started => r.late = 0

\* The same players with the same commands, and no tick due to a match that starts.
Stays(r, m) == r.sessions = m.sessions /\ ClockFresh(r, m)

\* No command taken back, if none is ahead of what was acknowledged.
Proceeds(r, m) ==
  /\ ClockFresh(r, m)
  /\ AllHeard(m) =>
       /\ AllHeard(r)
       /\ \A p \in Players : m.sessions[p] # None /\ r.sessions[p] # None =>
            SessionForward(r.sessions[p], m.sessions[p])

LEMMA SessionSame ==
  ASSUME NEW s \in PlayerSessions
  PROVE  SessionForward(s, s)
<1>1. s.acknowledgedInput \in Int /\ s.command \in Int
  BY Numbers DEF PlayerSessions
<1> QED  BY <1>1 DEF SessionForward

LEMMA StaysProceeds ==
  ASSUME NEW m \in MatchStates, NEW r, Stays(r, m)
  PROVE  Proceeds(r, m)
<1>1. \A p \in Players : m.sessions[p] # None => SessionForward(m.sessions[p], m.sessions[p])
  BY MatchTypes, SessionSame
<1> QED  BY <1>1 DEF Stays, Proceeds, AllHeard

\* One player's session becomes s.
LEMMA OneProceeds ==
  ASSUME NEW m \in MatchStates, NEW p \in Players, NEW s, NEW r,
         ClockFresh(r, m), r.sessions[p] = s,
         \A q \in Players : q # p => r.sessions[q] = m.sessions[q],
         AllHeard(m) => CommandHeard(s),
         AllHeard(m) /\ m.sessions[p] # None => SessionForward(s, m.sessions[p])
  PROVE  Proceeds(r, m)
<1> SUFFICES ASSUME AllHeard(m)
             PROVE  /\ AllHeard(r)
                    /\ \A q \in Players : m.sessions[q] # None /\ r.sessions[q] # None =>
                         SessionForward(r.sessions[q], m.sessions[q])
  BY DEF Proceeds
<1>1. AllHeard(r)
  <2> SUFFICES ASSUME NEW q \in Players, r.sessions[q] # None
               PROVE  CommandHeard(r.sessions[q])
    BY DEF AllHeard
  <2>1. CASE q = p  BY <2>1
  <2>2. CASE q # p  BY <2>2 DEF AllHeard
  <2> QED  BY <2>1, <2>2
<1>2. ASSUME NEW q \in Players, m.sessions[q] # None, r.sessions[q] # None
      PROVE  SessionForward(r.sessions[q], m.sessions[q])
  <2>1. CASE q = p  BY <1>2, <2>1
  <2>2. CASE q # p
    <3>1. m.sessions[q] \in PlayerSessions  BY <1>2, MatchTypes
    <3>2. r.sessions[q] = m.sessions[q]  BY <2>2
    <3> QED  BY <3>1, <3>2, SessionSame
  <2> QED  BY <2>1, <2>2
<1> QED  BY <1>1, <1>2

LEMMA ResolveStays ==
  ASSUME NEW m \in MatchStates, NEW since
  PROVE  LET r == ResolveStart(m, since)
         IN  r.sessions = m.sessions /\ (r.started /\ ~m.started => r.late = since)
<1>1. PICK r : r = ResolveStart(m, since)  OBVIOUS
<1>2. CASE m.started \/ Terminal(m) \/ ~ReadyToStart(m)
  BY <1>2 DEF ResolveStart
<1>3. CASE /\ ~ (m.started \/ Terminal(m) \/ ~ReadyToStart(m))
           /\ Slots(m, "Authenticated") = {}
  <2>1. r = [m EXCEPT !.ending = "NoAuthenticatedPlayers", !.started = FALSE]
    BY <1>1, <1>3 DEF ResolveStart, Finish
  <2>2. r.sessions = m.sessions /\ r.started = FALSE  BY <2>1 DEF MatchStates
  <2> QED  BY <1>1, <2>2
<1>4. CASE /\ ~ (m.started \/ Terminal(m) \/ ~ReadyToStart(m))
           /\ Slots(m, "Authenticated") # {}
  <2>1. r = [m EXCEPT !.started = TRUE, !.late = since,
                      !.leaving = @ \cup Slots(m, "Unavailable")]
    BY <1>1, <1>4 DEF ResolveStart
  <2>2. r.sessions = m.sessions /\ r.late = since  BY <2>1 DEF MatchStates
  <2> QED  BY <1>1, <2>2
<1> QED  BY <1>2, <1>3, <1>4

LEMMA ObserveStays ==
  ASSUME NEW m, MatchInv(m)
  PROVE  Stays(Observe(m), m)
<1>1. PICK n : n = [m EXCEPT !.unseen = 0]  OBVIOUS
<1>2. m \in MatchStates  BY DEF MatchInv, SoundMatch
<1>3. /\ MatchInv(n) /\ n.started = m.started /\ n.tickets = m.tickets
  BY <1>1, SeenStill
<1>4. n \in MatchStates /\ n.sessions = m.sessions
  BY <1>1, <1>2, <1>3 DEF MatchInv, SoundMatch, MatchStates
<1>5. CASE n.expiresIn > 0
  <2>1. Observe(m) = ResolveStart(n, 0)  BY <1>1, <1>5 DEF Observe, ExpirePending
  <2> QED  BY <1>3, <1>4, <2>1, ResolveStays DEF Stays, ClockFresh
<1>6. CASE ~ (n.expiresIn > 0)
  <2>1. PICK g : g = MarkUnavailable([n EXCEPT !.tickets = {}], n.tickets)  OBVIOUS
  <2>2. g.sessions = n.sessions /\ g.started = n.started /\ g \in MatchStates
    <3>1. g.sessions = n.sessions /\ g.started = n.started
      BY <1>4, <2>1 DEF MarkUnavailable, MatchStates
    <3>2. g \in MatchStates
      BY <1>4, <2>1, MatchTypes DEF MarkUnavailable, MatchStates, SlotStates
    <3> QED  BY <3>1, <3>2
  <2>3. Observe(m) = ResolveStart(g, 0)
    BY <1>1, <1>6, <2>1 DEF Observe, ExpirePending
  <2> QED  BY <1>3, <1>4, <2>2, <2>3, ResolveStays DEF Stays, ClockFresh
<1> QED  BY <1>5, <1>6

LEMMA ClockStays ==
  ASSUME NEW m, MatchInv(m)
  PROVE  Stays(Clocked(m), m)
<1>1. m \in MatchStates  BY DEF MatchInv, SoundMatch
<1>2. CASE m.started
  <2>1. PICK n : n = [m EXCEPT !.unseen = 0] /\ n = Clocked(m)
    BY <1>2 DEF Clocked
  <2>2. n.sessions = m.sessions  BY <1>1, <2>1 DEF MatchStates
  <2> QED  BY <1>2, <2>1, <2>2 DEF Stays, ClockFresh
<1>3. CASE ~m.started  BY <1>3, ObserveStays DEF Clocked
<1> QED  BY <1>2, <1>3

LEMMA RefuseStays ==
  ASSUME NEW m, MatchInv(m), ~m.started, NEW p \in m.tickets
  PROVE  Stays(Refuse(m, p), m)
<1>1. PICK r : r = MarkUnavailable(Consume(m, p), {p})  OBVIOUS
<1>2. SoundMatch(r) /\ ~r.started /\ r.sessions = m.sessions
  BY <1>1, GivenUp DEF Consume, MatchInv
<1>3. r \in MatchStates  BY <1>2 DEF SoundMatch
<1>4. Refuse(m, p) = ResolveStart(r, 0)  BY <1>1 DEF Refuse
<1> QED  BY <1>2, <1>3, <1>4, ResolveStays DEF Stays, ClockFresh

LEMMA WelcomeProceeds ==
  ASSUME NEW m, MatchInv(m), ~m.started, NEW c \in Connections, NEW p \in Players,
         m.sessions[p] = None
  PROVE  Proceeds(Welcome(m, c, p), m)
<1>1. m \in MatchStates  BY DEF MatchInv, SoundMatch
<1>2. PICK n : n = NewSession(c)  OBVIOUS
<1>3. n \in PlayerSessions /\ CommandHeard(n)
  BY <1>2, Numbers DEF NewSession, PlayerSessions, CommandHeard
<1>4. PICK r : r = [Consume(m, p) EXCEPT !.slot[p] = "Authenticated",
                                         !.sessions[p] = n, !.connections[c] = p]
  OBVIOUS
<1>5. r.sessions = [m.sessions EXCEPT ![p] = n] /\ r.started = m.started
  BY <1>1, <1>4 DEF Consume, MatchStates
<1>6. r \in MatchStates
  BY <1>1, <1>3, <1>4, MatchTypes DEF Consume, MatchStates, SlotStates
<1>7. PICK w : w = ResolveStart(r, 0) /\ w = Welcome(m, c, p)
  BY <1>2, <1>4 DEF Welcome
<1>8. w.sessions = r.sessions /\ ClockFresh(w, m)
  BY <1>5, <1>6, <1>7, ResolveStays DEF ClockFresh
<1>9. /\ w.sessions[p] = n
      /\ \A q \in Players : q # p => w.sessions[q] = m.sessions[q]
  BY <1>1, <1>5, <1>8, MatchTypes
<1> QED  BY <1>1, <1>3, <1>7, <1>8, <1>9, OneProceeds

\* A player who leaves before the start leaves others pending: nothing starts.
LEMMA DisconnectProceeds ==
  ASSUME NEW m, MatchInv(m), NEW c \in Connections
  PROVE  Proceeds(Disconnect(m, c), m)
<1>1. m \in MatchStates /\ ~Terminal(m) /\ m.connections[c] \in Players \cup {None}
  BY MatchTypes DEF MatchInv, SoundMatch
<1>2. CASE m.connections[c] = None
  <2>1. Disconnect(m, c) = m  BY <1>2 DEF Disconnect
  <2> QED  BY <1>1, <2>1, StaysProceeds DEF Stays, ClockFresh
<1>3. CASE m.connections[c] # None
  <2>1. PICK p \in Players : p = m.connections[c] /\ p # None  BY <1>1, <1>3
  <2>2. PICK left : left = Left(m, c, p)  OBVIOUS
  <2>3. /\ SoundMatch(left) /\ left.started = m.started /\ left.tickets = m.tickets
        /\ SessionClosed(left.sessions[p], m.sessions[p])
        /\ \A q \in Players : q # p => left.sessions[q] = m.sessions[q]
    <3>1. m.connections[c] = p  BY <2>1
    <3>2. LET r == Left(m, c, p)
          IN  /\ SoundMatch(r) /\ r.started = m.started /\ r.id = m.id
              /\ r.tickets = m.tickets
              /\ r.connections = [m.connections EXCEPT ![c] = None]
              /\ r.slot = [m.slot EXCEPT ![p] = "Unavailable"]
              /\ r.alive = m.alive /\ r.leaving = m.leaving
              /\ r.pendingDisconnects = m.pendingDisconnects
              /\ r.unseen = m.unseen
              /\ SessionClosed(r.sessions[p], m.sessions[p])
              /\ \A q \in Players : q # p => r.sessions[q] = m.sessions[q]
      BY <3>1, LeftSound
    <3> QED  BY <2>2, <3>2
  <2>4. Disconnect(m, c) =
          IF ~m.started THEN ResolveStart(left, m.unseen)
          ELSE IF Connected(left) = {} THEN Finish(left, "NoConnectedPlayers")
          ELSE [left EXCEPT !.pendingDisconnects = @ \cup {p}]
    BY <1>1, <2>1, <2>2 DEF Disconnect, Left
  <2>5. left \in MatchStates  BY <2>3 DEF SoundMatch
  <2>6. PICK r : r = Disconnect(m, c)  OBVIOUS
  <2>7. r.sessions = left.sessions /\ ClockFresh(r, m)
    <3>1. CASE ~m.started
      <4>1. ~ReadyToStart(left)
        BY <2>3, <3>1 DEF MatchInv, Waits, SoundMatch, ReadyToStart
      <4>2. r = left  BY <2>4, <2>6, <3>1, <4>1 DEF ResolveStart
      <4> QED  BY <2>3, <3>1, <4>2 DEF ClockFresh
    <3>2. CASE m.started /\ Connected(left) = {}
      <4>1. r = [left EXCEPT !.ending = "NoConnectedPlayers", !.started = FALSE]
        BY <2>4, <2>6, <3>2 DEF Finish
      <4> QED  BY <2>5, <3>2, <4>1 DEF ClockFresh, MatchStates
    <3>3. CASE m.started /\ Connected(left) # {}
      <4>1. r = [left EXCEPT !.pendingDisconnects = @ \cup {p}]
        BY <2>4, <2>6, <3>3
      <4> QED  BY <2>5, <3>3, <4>1 DEF ClockFresh, MatchStates
    <3> QED  BY <3>1, <3>2, <3>3
  <2>8. PICK new : new = left.sessions[p]  OBVIOUS
  <2>9. PICK old : old = m.sessions[p]  OBVIOUS
  <2>10. old \in PlayerSessions \cup {None}  BY <1>1, <2>9, MatchTypes
  <2>11. old \in PlayerSessions
    BY <1>1, <2>1, <2>9, <2>10 DEF MatchInv, SoundMatch, Agree
  <2>12. old.acknowledgedInput \in Nat /\ SessionClosed(new, old)
    BY <2>3, <2>8, <2>9, <2>11, Numbers DEF PlayerSessions
  <2>13. CommandHeard(new) /\ SessionForward(new, old)
    BY <2>12 DEF SessionClosed, CommandHeard, SessionForward
  <2>14. r.sessions[p] = new
    BY <2>7, <2>8
  <2>15. \A q \in Players : q # p => r.sessions[q] = m.sessions[q]
    BY <2>3, <2>7
  <2>16. Proceeds(r, m)
    BY <1>1, <2>7, <2>9, <2>13, <2>14, <2>15, OneProceeds
  <2> QED  BY <2>6, <2>16
<1> QED  BY <1>2, <1>3

\* A datagram changes one session, and starts nothing.
LEMMA DatagramProceeds ==
  ASSUME NEW m, MatchInv(m), NEW p \in Players, NEW s,
         AllHeard(m) => CommandHeard(s),
         AllHeard(m) /\ m.sessions[p] # None => SessionForward(s, m.sessions[p])
  PROVE  Proceeds([m EXCEPT !.sessions[p] = s], m)
<1>1. m \in MatchStates  BY DEF MatchInv, SoundMatch
<1>2. PICK r : r = [m EXCEPT !.sessions[p] = s]  OBVIOUS
<1>3. r.sessions = [m.sessions EXCEPT ![p] = s] /\ r.started = m.started
  BY <1>1, <1>2 DEF MatchStates
<1>4. r.sessions[p] = s /\ \A q \in Players : q # p => r.sessions[q] = m.sessions[q]
  BY <1>1, <1>3, MatchTypes
<1>5. ClockFresh(r, m)  BY <1>3 DEF ClockFresh
<1> QED  BY <1>1, <1>2, <1>4, <1>5, OneProceeds

LEMMA BindProceeds ==
  ASSUME NEW m, MatchInv(m), NEW p \in Players, NEW peer \in Peers,
         m.sessions[p] # None, MayBind(m, p, peer)
  PROVE  Proceeds(Bind(m, p, peer), m)
<1>1. m \in MatchStates  BY DEF MatchInv, SoundMatch
<1>2. PICK old \in PlayerSessions : old = m.sessions[p]  BY <1>1, MatchTypes
<1>3. PICK s : s = [old EXCEPT !.peer = peer]  OBVIOUS
<1>4. /\ s.peer = peer /\ s.command = old.command
      /\ s.acknowledgedInput = old.acknowledgedInput
  BY <1>3 DEF PlayerSessions
<1>5. old.command \in Int /\ old.acknowledgedInput \in Int
  BY Numbers DEF PlayerSessions
<1>6. SessionForward(s, old)
  BY <1>2, <1>4, <1>5 DEF SessionForward, MayBind
<1>7. AllHeard(m) => CommandHeard(s)  BY <1>2, <1>4 DEF AllHeard, CommandHeard
<1>8. Bind(m, p, peer) = [m EXCEPT !.sessions[p] = s]
  BY <1>1, <1>2, <1>3 DEF Bind, MatchStates
<1> QED  BY <1>2, <1>6, <1>7, <1>8, DatagramProceeds

LEMMA InputProceeds ==
  ASSUME NEW m, MatchInv(m), NEW p \in Players, NEW peer \in Peers,
         NEW sequence \in 1..MaxInput, NEW usable \in BOOLEAN,
         m.sessions[p] # None, MayInput(m, p, peer, sequence)
  PROVE  Proceeds(Input(m, p, sequence, usable), m)
<1>1. m \in MatchStates /\ peer # None
  BY MatchAssumption DEF MatchInv, SoundMatch
<1>2. PICK old \in PlayerSessions : old = m.sessions[p]  BY <1>1, MatchTypes
<1>3. PICK s : s = [old EXCEPT !.acknowledgedInput = sequence,
                               !.command = IF usable THEN sequence ELSE @]
  OBVIOUS
<1>4. /\ s.peer = old.peer /\ s.command = IF usable THEN sequence ELSE old.command
      /\ s.acknowledgedInput = sequence
  BY <1>3 DEF PlayerSessions
<1>5. /\ old.command \in Int /\ old.acknowledgedInput \in Int /\ sequence \in Int
      /\ sequence > old.acknowledgedInput /\ old.peer = peer
  BY <1>2, Numbers DEF PlayerSessions, MayInput
<1>6. AllHeard(m) => old.command <= old.acknowledgedInput
  BY <1>2 DEF AllHeard, CommandHeard
<1>7. AllHeard(m) => SessionForward(s, old)
  <2> SUFFICES ASSUME AllHeard(m) PROVE SessionForward(s, old)  OBVIOUS
  <2>1. s.acknowledgedInput >= old.acknowledgedInput /\ s.command >= old.command
    BY <1>4, <1>5, <1>6
  <2> QED  BY <1>1, <1>4, <1>5, <2>1 DEF SessionForward
<1>8. AllHeard(m) => CommandHeard(s)
  BY <1>4, <1>5, <1>6 DEF CommandHeard
<1>9. Input(m, p, sequence, usable) = [m EXCEPT !.sessions[p] = s]
  BY <1>1, <1>2, <1>3 DEF Input, MatchStates
<1> QED  BY <1>2, <1>7, <1>8, <1>9, DatagramProceeds

LEMMA TimeStays ==
  ASSUME NEW m, MatchInv(m)
  PROVE  Stays(TimePasses(m), m)
<1>1. m \in MatchStates  BY DEF MatchInv, SoundMatch
<1>2. PICK r : r = TimePasses(m)  OBVIOUS
<1>3. r.sessions = m.sessions /\ r.started = m.started
  BY <1>1, <1>2 DEF TimePasses, MatchStates
<1> QED  BY <1>2, <1>3 DEF Stays, ClockFresh

\* A tick moves nobody's command, and a match that starts has none due.
LEMMA AdvanceStays ==
  ASSUME NEW m, MatchInv(m), NEW r \in Advanced(Clocked(m))
  PROVE  Stays(r, m)
<1>1. PICK n : n = Clocked(m)  OBVIOUS
<1>2. Stays(n, m) /\ Follows(n, m)  BY <1>1, ClockStays, ClockRead
<1>3. CASE Terminal(n) \/ ~n.started \/ TicksDue(n) = 0
  <2>1. r = n  BY <1>1, <1>3 DEF Advanced
  <2> QED  BY <1>2, <2>1
<1>4. CASE ~ (Terminal(n) \/ ~n.started \/ TicksDue(n) = 0)
  <2>1. PICK k \in 1..TicksDue(n), s \in SUBSET Staying(n) : r = AfterTicks(n, k, s)
    BY <1>1, <1>4 DEF Advanced
  <2>2. m.started
    <3> SUFFICES ASSUME ~m.started PROVE FALSE  OBVIOUS
    <3>1. n.late = 0  BY <1>2, <1>4 DEF Stays, ClockFresh
    <3>2. TicksDue(n) = 0  BY <3>1, Numbers DEF TicksDue
    <3> QED  BY <1>4, <3>2
  <2>3. n \in MatchStates  BY <1>2, <1>4 DEF Follows, Becomes, MatchInv, SoundMatch
  <2>4. r.sessions = n.sessions
    <3>1. PICK ran : ran = [n EXCEPT !.alive = s, !.tick = @ + k, !.late = 0,
                                     !.leaving = {}, !.pendingDisconnects = {}]
      OBVIOUS
    <3>2. ran.sessions = n.sessions  BY <2>3, <3>1 DEF MatchStates
    <3>3. r = ran \/ r = Finish(ran, "Winner")
      BY <2>1, <3>1 DEF AfterTicks
    <3>4. Finish(ran, "Winner").sessions = ran.sessions
      BY <2>3, <3>1 DEF Finish, MatchStates
    <3> QED  BY <3>2, <3>3, <3>4
  <2> QED  BY <1>2, <2>2, <2>4 DEF Stays, ClockFresh
<1> QED  BY <1>3, <1>4

-----------------------------------------------------------------------------
(* What every step of the server makes of its match.                       *)

HeardInv == match # None => AllHeard(match)

MatchProceeds == SameMatch => Proceeds(match', match)

\* A result is routed: the match that goes on, if any, is the one routed.
LEMMA RoutedProceeds ==
  ASSUME NEW r, Proceeds(r, match), RouteMatchResult(r)
  PROVE  MatchProceeds /\ (match' # None => match' = r)
BY DEF RouteMatchResult, Discard, MatchProceeds, SameMatch

LEMMA HelloProceeds ==
  ASSUME GameInv, NEW c \in Connections, NEW hello \in Hellos,
         \/ HelloRejected(c, hello) \/ HelloRefused(c, hello)
         \/ HelloAccepted(c, hello)
  PROVE  match # None /\ \E r : Proceeds(r, match) /\ RouteMatchResult(r)
<1>1. match # None
  BY DEF HelloRejected, HelloRefused, HelloAccepted
<1>2. MatchInv(match) /\ match \in MatchStates
  BY <1>1 DEF GameInv, MatchPart, MatchInv, SoundMatch
<1>3. PICK m : m = Observe(match)  OBVIOUS
<1>4. Follows(m, match) /\ Stays(m, match)
  BY <1>2, <1>3, Observed, ObserveStays
<1>5. CASE HelloRejected(c, hello)
  <2>1. Proceeds(m, match)  BY <1>2, <1>4, StaysProceeds
  <2> QED  BY <1>1, <1>3, <1>5, <2>1 DEF HelloRejected
<1>6. CASE HelloRefused(c, hello)
  <2>1. Admits(m, c, hello) /\ RouteMatchResult(Refuse(m, hello.player))
    BY <1>3, <1>6 DEF HelloRefused
  <2>2. MatchInv(m) /\ ~m.started /\ hello.player \in m.tickets
    BY <1>4, <2>1 DEF Admits, Follows, Becomes
  <2>3. Stays(Refuse(m, hello.player), m)  BY <2>2, RefuseStays
  <2>4. Stays(Refuse(m, hello.player), match)
    BY <1>4, <2>2, <2>3 DEF Stays, ClockFresh
  <2> QED  BY <1>1, <1>2, <2>1, <2>4, StaysProceeds
<1>7. CASE HelloAccepted(c, hello)
  <2>1. Admits(m, c, hello) /\ RouteMatchResult(Welcome(m, c, hello.player))
    BY <1>3, <1>7 DEF HelloAccepted
  <2>2. /\ MatchInv(m) /\ ~m.started /\ hello.player \in Players
        /\ m.sessions[hello.player] = None
    BY <1>4, <2>1 DEF Admits, Follows, Becomes, Hellos
  <2>3. Proceeds(Welcome(m, c, hello.player), m)  BY <2>2, WelcomeProceeds
  <2>4. Proceeds(Welcome(m, c, hello.player), match)
    BY <1>4, <2>2, <2>3 DEF Stays, Proceeds, ClockFresh, AllHeard
  <2> QED  BY <1>1, <2>1, <2>4
<1> QED  BY <1>5, <1>6, <1>7

LEMMA ArrivalProceeds ==
  ASSUME GameInv, NEW c \in Connections, NEW peer \in Peers,
         \/ BindArrives(c, peer)
         \/ \E sequence \in 1..MaxInput :
              \/ \E usable \in BOOLEAN : InputArrives(c, peer, sequence, usable)
              \/ BadAcknowledgement(c, peer, sequence)
  PROVE  match # None /\ \E r : Proceeds(r, match) /\ RouteMatchResult(r)
<1>1. match # None /\ welcomed[c] # None
      /\ HasSession(match, welcomed[c].match, welcomed[c].player, c)
  BY DEF BindArrives, InputArrives, BadAcknowledgement
<1>2. MatchInv(match) /\ match \in MatchStates
  BY <1>1 DEF GameInv, MatchPart, MatchInv, SoundMatch
<1>3. PICK p \in Players : p = welcomed[c].player
  BY <1>1 DEF GameInv, SessionPart
<1>4. match.sessions[p] # None  BY <1>1, <1>3 DEF HasSession
<1>5. CASE BindArrives(c, peer)
  <2>1. MayBind(match, p, peer) /\ RouteMatchResult(Bind(match, p, peer))
    BY <1>3, <1>5 DEF BindArrives
  <2> QED  BY <1>1, <1>2, <1>4, <2>1, BindProceeds
<1>6. ASSUME NEW sequence \in 1..MaxInput, NEW usable \in BOOLEAN,
             InputArrives(c, peer, sequence, usable)
      PROVE  \E r : Proceeds(r, match) /\ RouteMatchResult(r)
  <2>1. /\ MayInput(match, p, peer, sequence)
        /\ RouteMatchResult(Input(match, p, sequence, usable))
    BY <1>3, <1>6 DEF InputArrives
  <2>2. Proceeds(Input(match, p, sequence, usable), match)
    BY <1>2, <1>4, <2>1, InputProceeds
  <2> QED  BY <2>1, <2>2
<1>7. ASSUME NEW sequence \in 1..MaxInput, BadAcknowledgement(c, peer, sequence)
      PROVE  \E r : Proceeds(r, match) /\ RouteMatchResult(r)
  <2>1. RouteMatchResult(match)  BY <1>7 DEF BadAcknowledgement
  <2>2. Proceeds(match, match)  BY <1>2, StaysProceeds DEF Stays, ClockFresh
  <2> QED  BY <2>1, <2>2
<1> QED  BY <1>1, <1>5, <1>6, <1>7

\* Of a step's match: it proceeds, and what it becomes is what it proceeds to.
LEMMA ProceedsSays ==
  ASSUME GameInv, HeardInv,
         \/ UNCHANGED match
         \/ match' = None
         \/ match # None /\ \E r : Proceeds(r, match) /\ RouteMatchResult(r)
         \/ match # None /\ Proceeds(match', match)
  PROVE  HeardInv' /\ MatchProceeds
<1>1. CASE UNCHANGED match
  <2>1. match # None => match \in MatchStates
    BY DEF GameInv, MatchPart, MatchInv, SoundMatch
  <2>2. match # None => Proceeds(match, match)
    BY <2>1, StaysProceeds DEF Stays, ClockFresh
  <2> QED  BY <1>1, <2>2 DEF HeardInv, MatchProceeds, SameMatch, AllHeard
<1>2. CASE match' = None
  BY <1>2 DEF HeardInv, MatchProceeds, SameMatch
<1>3. CASE match # None /\ Proceeds(match', match)
  BY <1>3 DEF HeardInv, MatchProceeds, Proceeds, AllHeard
<1>4. CASE match # None /\ \E r : Proceeds(r, match) /\ RouteMatchResult(r)
  <2>1. PICK r : Proceeds(r, match) /\ RouteMatchResult(r)  BY <1>4
  <2>2. match' = None \/ match' = r  BY <2>1 DEF RouteMatchResult, Discard
  <2> QED  BY <1>2, <1>3, <1>4, <2>1, <2>2
<1> QED  BY <1>1, <1>2, <1>3, <1>4

LEMMA StepProceeds ==
  ASSUME GameInv, HeardInv, [Next]_vars
  PROVE  HeardInv' /\ MatchProceeds
<1>1. ASSUME NEW i \in Matches, Reserve(i)
      PROVE  HeardInv' /\ MatchProceeds
  <2>1. match = None /\ match' = Create(i)  BY <1>1 DEF Reserve
  <2>2. \A p \in Players : match'.sessions[p] = None
    BY <2>1 DEF Create
  <2> QED  BY <2>1, <2>2 DEF HeardInv, AllHeard, MatchProceeds, SameMatch
<1>2. CASE Cancel \/ ControlClosed \/ AdvanceThrows
  BY <1>2, ProceedsSays DEF Cancel, ControlClosed, AdvanceThrows, Discard, matchVars
<1>3. CASE AcceptGameSession
  BY <1>3, ProceedsSays DEF AcceptGameSession, matchVars
<1>4. ASSUME NEW c \in Connections,
             \/ AuthenticationTimeout(c) \/ LinkFails(c) \/ FlushDone(c)
             \/ FrameOutOfPlace(c)
      PROVE  HeardInv' /\ MatchProceeds
  <2>1. UNCHANGED match
    BY <1>4 DEF AuthenticationTimeout, LinkFails, FlushDone, FrameOutOfPlace, matchVars
  <2> QED  BY <2>1, ProceedsSays
<1>5. ASSUME NEW c \in Connections, NEW hello \in Hellos,
             \/ HelloRejected(c, hello) \/ HelloRefused(c, hello)
             \/ HelloAccepted(c, hello)
      PROVE  HeardInv' /\ MatchProceeds
  BY <1>5, HelloProceeds, ProceedsSays
<1>6. ASSUME NEW c \in Connections, GameSessionClosed(c)
      PROVE  HeardInv' /\ MatchProceeds
  <2>1. CASE match # None /\ gameSessions[c].authenticated
    <3>1. MatchInv(match)  BY <2>1 DEF GameInv, MatchPart
    <3>2. Proceeds(Disconnect(match, c), match)  BY <3>1, DisconnectProceeds
    <3>3. RouteMatchResult(Disconnect(match, c))
      BY <1>6, <2>1 DEF GameSessionClosed
    <3> QED  BY <2>1, <3>2, <3>3, ProceedsSays
  <2>2. CASE ~ (match # None /\ gameSessions[c].authenticated)
    <3>1. UNCHANGED match  BY <1>6, <2>2 DEF GameSessionClosed, matchVars
    <3> QED  BY <3>1, ProceedsSays
  <2> QED  BY <2>1, <2>2
<1>7. ASSUME NEW c \in Connections, NEW peer \in Peers,
             \/ BindArrives(c, peer)
             \/ \E sequence \in 1..MaxInput :
                  \/ \E usable \in BOOLEAN : InputArrives(c, peer, sequence, usable)
                  \/ BadAcknowledgement(c, peer, sequence)
      PROVE  HeardInv' /\ MatchProceeds
  BY <1>7, ArrivalProceeds, ProceedsSays
<1>8. CASE Tick
  <2>1. match # None /\ match' = TimePasses(match)  BY <1>8 DEF Tick
  <2>2. MatchInv(match) /\ match \in MatchStates
    BY <2>1 DEF GameInv, MatchPart, MatchInv, SoundMatch
  <2>3. Proceeds(match', match)  BY <2>1, <2>2, TimeStays, StaysProceeds
  <2> QED  BY <2>1, <2>3, ProceedsSays
<1>9. CASE TimerFires \/ StaleTimer
  BY <1>9, ProceedsSays DEF TimerFires, StaleTimer, matchVars
<1>10. CASE Advance
  <2>1. match # None  BY <1>10 DEF Advance
  <2>2. PICK r \in Advanced(Clocked(match)) : RouteMatchResult(r)
    BY <1>10 DEF Advance
  <2>3. MatchInv(match) /\ match \in MatchStates
    BY <2>1 DEF GameInv, MatchPart, MatchInv, SoundMatch
  <2>4. Proceeds(r, match)  BY <2>3, AdvanceStays, StaysProceeds
  <2> QED  BY <2>1, <2>2, <2>4, ProceedsSays
<1>11. CASE UNCHANGED vars
  BY <1>11, ProceedsSays DEF vars, matchVars
<1> QED
  BY <1>1, <1>2, <1>3, <1>4, <1>5, <1>6, <1>7, <1>8, <1>9, <1>10, <1>11
  DEF Next

LEMMA HeardInvariant == Spec => []HeardInv
<1>1. Init => HeardInv  BY DEF Init, HeardInv
<1>2. GameInv /\ HeardInv /\ [Next]_vars => HeardInv'  BY StepProceeds
<1> QED  BY <1>1, <1>2, GameInvariant, PTL DEF Spec

\* A match never owes ticks when it starts: whoever leaves before, whose
\* Disconnect reads no clock, leaves others pending.
THEOREM MatchesAlwaysStartOnTime == Spec => StartsOnTime
<1>1. GameInv /\ HeardInv /\ [Next]_vars =>
          [SameMatch /\ ~match.started /\ match'.started => match'.late = 0]_vars
  BY StepProceeds DEF MatchProceeds, Proceeds, ClockFresh
<1> QED  BY <1>1, GameInvariant, HeardInvariant, PTL DEF Spec, StartsOnTime

\* No datagram, however late, repeated or foreign, takes back what a player was
\* acknowledged to have ordered, nor moves a session to another address.
THEOREM CommandsAlwaysMoveForward == Spec => CommandsMoveForward
<1> DEFINE Moved == SameMatch =>
      \A p \in Players :
        match.sessions[p] # None /\ match'.sessions[p] # None =>
          LET old == match.sessions[p]
              new == match'.sessions[p]
          IN  /\ new.acknowledgedInput >= old.acknowledgedInput
              /\ new.connected => new.command >= old.command
              /\ new.command <= new.acknowledgedInput
              /\ old.peer # None => new.peer \in {old.peer, None}
              /\ new.command # old.command /\ new.connected => old.peer # None
<1>1. ASSUME GameInv, HeardInv, [Next]_vars PROVE Moved
  <2>1. HeardInv' /\ MatchProceeds  BY <1>1, StepProceeds
  <2> SUFFICES ASSUME SameMatch, NEW p \in Players,
                      match.sessions[p] # None, match'.sessions[p] # None
               PROVE  LET old == match.sessions[p]
                          new == match'.sessions[p]
                      IN  SessionForward(new, old) /\ CommandHeard(new)
    BY DEF SessionForward, CommandHeard
  <2>2. Proceeds(match', match)  BY <2>1 DEF MatchProceeds
  <2>3. AllHeard(match)  BY <1>1 DEF HeardInv, SameMatch
  <2> QED  BY <2>2, <2>3 DEF Proceeds, AllHeard
<1>2. GameInv /\ HeardInv /\ [Next]_vars => [Moved]_vars  BY <1>1
<1> QED  BY <1>2, GameInvariant, HeardInvariant, PTL DEF Spec, CommandsMoveForward

-----------------------------------------------------------------------------
(* The rules of the simulation (OfflineMatch), for any contenders, neutral
   actors, loot, weapons and zone: however actors die together, a contender
   is left, and a tick is one that the game server expects. *)

(* The invariant.  Eliminations are only added to, so they have no bound but
   in each state they have one: with it, the ranking has a best. *)

Bounded(w) == \E most \in Nat : \A a \in Actors : w.eliminations[a] <= most

Sound(w) == w \in Worlds /\ Valid(w) /\ Bounded(w)

RulesInv ==
  /\ Sound(world)
  /\ phase \in {"Waiting", "Running", "SuddenDeath", "Finished"}
  /\ tick \in Nat
  /\ phase # "Finished" /\ error = "none" => tick < HardTimeoutTick
  /\ RulesHold

-----------------------------------------------------------------------------
(* Who ranks highest. *)

LEMMA LeastNumber ==
  ASSUME NEW X, X \subseteq Nat, X # {}
  PROVE  \E x \in X : \A y \in X : x <= y
<1> DEFINE R == OpToRel(<, Nat)
<1>1. PICK x \in X : \A y \in X : ~ (<<y, x>> \in R)
  <2> HIDE DEF R
  <2> IsWellFoundedOn(R, Nat)  BY NatLessThanWellFounded DEF R
  <2> QED  BY WFMin
<1>2. ASSUME NEW y \in X PROVE x <= y
  <2>1. ~ (y < x)  BY <1>1 DEF OpToRel
  <2> QED  BY <2>1
<1> QED  BY <1>2

\* A bounded measure has a highest value on a set that is not empty.
LEMMA Highest ==
  ASSUME NEW S, S # {}, NEW f, NEW most \in Nat,
         \A s \in S : f[s] \in Nat /\ f[s] <= most
  PROVE  \E s \in S : \A t \in S : f[t] <= f[s]
<1> DEFINE X == {most - f[s] : s \in S}
<1>1. X \subseteq Nat /\ X # {}  OBVIOUS
<1>2. PICK x \in X : \A y \in X : x <= y
  <2> HIDE DEF X
  <2> QED  BY <1>1, LeastNumber
<1>3. PICK s \in S : x = most - f[s]  OBVIOUS
<1>4. ASSUME NEW t \in S PROVE f[t] <= f[s]
  <2>1. most - f[s] <= most - f[t]  BY <1>2, <1>3
  <2>2. f[t] \in Nat /\ f[s] \in Nat  OBVIOUS
  <2> QED  BY <2>1, <2>2
<1> QED  BY <1>4

\* The winner that SelectSurvivalWinner's min_element finds is there, and ranks
\* before every other contender.
LEMMA WinnerRanksFirst ==
  ASSUME NEW w, Sound(w)
  PROVE  /\ SelectSurvivalWinner(w) \in Contenders
         /\ \A d \in Contenders \ {SelectSurvivalWinner(w)} :
              Outranks(w, SelectSurvivalWinner(w), d)
<1>1. /\ \A c \in Contenders : w.health[c] \in Nat /\ w.health[c] <= FullHealth
      /\ \A c \in Contenders : w.eliminations[c] \in Nat /\ c \in Nat
      /\ FullHealth \in Nat
  BY RulesAssumption DEF Sound, Worlds, Actors
<1>2. Contenders # {}
  BY RulesAssumption, FS_EmptySet
<1>3. PICK h \in Contenders : \A c \in Contenders : w.health[c] <= w.health[h]
  <2> DEFINE f == w.health
  <2>1. \A s \in Contenders : f[s] \in Nat /\ f[s] <= FullHealth  BY <1>1
  <2> HIDE DEF f
  <2>2. \E s \in Contenders : \A t \in Contenders : f[t] <= f[s]
    BY <1>1, <1>2, <2>1, Highest
  <2> QED  BY <2>2 DEF f
<1> DEFINE H == {c \in Contenders : w.health[c] = w.health[h]}
<1>4. PICK e \in H : \A c \in H : w.eliminations[c] <= w.eliminations[e]
  <2> DEFINE f == w.eliminations
  <2>1. PICK most \in Nat : \A a \in Actors : w.eliminations[a] <= most
    BY DEF Sound, Bounded
  <2>2. \A s \in H : f[s] \in Nat /\ f[s] <= most  BY <1>1, <2>1 DEF Actors
  <2>3. H # {}  BY <1>3
  <2> HIDE DEF f, H
  <2>4. \E s \in H : \A t \in H : f[t] <= f[s]  BY <2>2, <2>3, Highest
  <2> QED  BY <2>4 DEF f
<1> DEFINE E == {c \in H : w.eliminations[c] = w.eliminations[e]}
<1>5. PICK best \in E : \A c \in E : best <= c
  <2>1. E \subseteq Nat /\ E # {}  BY <1>1, <1>4
  <2> HIDE DEF E
  <2> QED  BY <2>1, LeastNumber
<1>6. /\ best \in Contenders /\ w.health[best] = w.health[h]
      /\ w.eliminations[best] = w.eliminations[e]
  BY <1>5
<1>7. ASSUME NEW d \in Contenders \ {best} PROVE Outranks(w, best, d)
  <2>1. /\ w.health[best] \in Nat /\ w.health[d] \in Nat
        /\ w.eliminations[best] \in Nat /\ w.eliminations[d] \in Nat
        /\ best \in Nat /\ d \in Nat
    BY <1>1, <1>6
  <2>2. /\ best \in w.alive <=> w.health[best] > 0
        /\ d \in w.alive <=> w.health[d] > 0
    BY <1>6 DEF Sound, Valid, Actors
  <2>3. w.health[d] <= w.health[best]  BY <1>3, <1>6
  <2>4. CASE w.health[d] < w.health[best]
    BY <2>1, <2>2, <2>4 DEF Outranks
  <2>5. CASE w.health[d] = w.health[best]
    <3>1. d \in H  BY <1>6, <2>5
    <3>2. w.eliminations[d] <= w.eliminations[best]  BY <1>4, <1>6, <3>1
    <3>3. CASE w.eliminations[d] < w.eliminations[best]
      BY <2>1, <2>2, <2>5, <3>3 DEF Outranks
    <3>4. CASE w.eliminations[d] = w.eliminations[best]
      <4>1. d \in E  BY <1>6, <3>1, <3>4
      <4>2. best < d  BY <1>5, <2>1, <4>1
      <4> QED  BY <2>1, <2>2, <2>5, <3>4, <4>2 DEF Outranks
    <3> QED  BY <2>1, <3>2, <3>3, <3>4
  <2> QED  BY <2>1, <2>3, <2>4, <2>5
<1>8. \E c \in Contenders : \A d \in Contenders \ {c} : Outranks(w, c, d)
  BY <1>6, <1>7
<1> QED  BY <1>8 DEF SelectSurvivalWinner

\* If a contender lives, the winner does.
LEMMA WinnerLives ==
  ASSUME NEW w, Sound(w), AliveContenders(w) # {}
  PROVE  SelectSurvivalWinner(w) \in AliveContenders(w)
<1>1. PICK d \in AliveContenders(w) : TRUE  OBVIOUS
<1>2. CASE d = SelectSurvivalWinner(w)  BY <1>2
<1>3. CASE d # SelectSurvivalWinner(w)
  <2>1. d \in Contenders \ {SelectSurvivalWinner(w)} /\ d \in w.alive
    BY <1>1, <1>3 DEF AliveContenders
  <2>2. Outranks(w, SelectSurvivalWinner(w), d)  BY <2>1, WinnerRanksFirst
  <2>3. SelectSurvivalWinner(w) \in w.alive  BY <2>1, <2>2 DEF Outranks
  <2> QED  BY <2>3, WinnerRanksFirst DEF AliveContenders
<1> QED  BY <1>2, <1>3

-----------------------------------------------------------------------------
(* Leaving, loot and cooldowns. *)

LEMMA HealthChanged ==
  ASSUME NEW w, Sound(w), NEW health \in [Actors -> 0..FullHealth],
         \A a \in Actors : health[a] > 0 => a \in w.alive
  PROVE  /\ Sound(WithHealth(w, health))
         /\ WithHealth(w, health).health = health
         /\ WithHealth(w, health).alive = {a \in Actors : health[a] > 0}
         /\ WithHealth(w, health).eliminations = w.eliminations
<1>1. PICK u : u = WithHealth(w, health)  OBVIOUS
<1>2. u = [health |-> health, alive |-> {a \in w.alive : health[a] > 0},
           weapon |-> w.weapon, cooldown |-> w.cooldown,
           eliminations |-> w.eliminations, loot |-> w.loot]
  BY <1>1 DEF Sound, Worlds, WithHealth
<1>3. w.alive \subseteq Actors  BY DEF Sound, Worlds
<1>4. {a \in w.alive : health[a] > 0} = {a \in Actors : health[a] > 0}  BY <1>3
<1>5. u \in Worlds  BY <1>2 DEF Sound, Worlds
<1>6. Valid(u)
  <2>1. \A a \in Actors : health[a] \in 0..FullHealth  OBVIOUS
  <2>2. \A a \in Actors : health[a] <= FullHealth  BY <2>1, RulesAssumption
  <2>3. u.health = health /\ u.alive = {a \in Actors : health[a] > 0}
    BY <1>2, <1>4
  <2> QED  BY <2>2, <2>3 DEF Valid
<1>7. Bounded(u)
  <2>1. u.eliminations = w.eliminations  BY <1>2
  <2> QED  BY <2>1 DEF Sound, Bounded
<1> QED  BY <1>1, <1>2, <1>4, <1>5, <1>6, <1>7 DEF Sound

LEMMA OthersStay ==
  ASSUME NEW w, Sound(w), NEW gone \in SUBSET AliveContenders(w)
  PROVE  /\ Sound(Disconnected(w, gone))
         /\ Disconnected(w, gone).alive = w.alive \ gone
<1> DEFINE health == [a \in Actors |-> IF a \in gone THEN 0 ELSE w.health[a]]
<1>1. w.alive \subseteq Actors /\ w.health \in [Actors -> 0..FullHealth]
  BY DEF Sound, Worlds
<1>2. \A a \in Actors : a \in w.alive <=> w.health[a] > 0  BY DEF Sound, Valid
<1>3. health \in [Actors -> 0..FullHealth]  BY <1>1, RulesAssumption
<1>4. \A a \in Actors : health[a] > 0 <=> a \in w.alive \ gone
  <2>1. ASSUME NEW a \in Actors PROVE health[a] > 0 <=> a \in w.alive \ gone
    <3>1. CASE a \in gone
      <4>1. health[a] = 0  BY <3>1
      <4> QED  BY <3>1, <4>1
    <3>2. CASE a \notin gone
      <4>1. health[a] = w.health[a]  BY <3>2
      <4> QED  BY <3>2, <4>1, <1>2
    <3> QED  BY <3>1, <3>2
  <2> QED  BY <2>1
<1>5. {a \in Actors : health[a] > 0} = w.alive \ gone  BY <1>1, <1>4
<1>6. \A a \in Actors : health[a] > 0 => a \in w.alive  BY <1>4
<1>7. Disconnected(w, gone) = WithHealth(w, health)  BY DEF Disconnected
<1> HIDE DEF health
<1> QED  BY <1>3, <1>5, <1>6, <1>7, HealthChanged

LEMMA HealingFits ==
  ASSUME NEW w, Sound(w), NEW takes \in PickUps(w), NEW a \in Actors
  PROVE  /\ Healing(w, takes, a) \in Nat
         /\ w.health[a] + Healing(w, takes, a) <= FullHealth
         /\ Healing(w, takes, a) > 0 => a \in w.alive
<1>1. /\ w.health[a] \in Nat /\ w.health[a] <= FullHealth
      /\ FullHealth \in Nat /\ MedKitHealth \in Nat
  BY RulesAssumption DEF Sound, Worlds
<1>2. a \in DOMAIN takes => a \in w.alive  BY DEF PickUps, AliveContenders
<1> QED  BY <1>1, <1>2 DEF Healing

LEMMA LootTaken ==
  ASSUME NEW w, Sound(w), NEW takes \in PickUps(w)
  PROVE  /\ Sound(PickedUp(w, takes))
         /\ PickedUp(w, takes).alive = w.alive
         /\ PickedUp(w, takes).eliminations = w.eliminations
<1> DEFINE health == [a \in Actors |-> w.health[a] + Healing(w, takes, a)]
           weapon == [a \in Actors |->
                        IF a \in DOMAIN takes /\ LootItems[takes[a]] # "MedKit"
                          THEN LootItems[takes[a]] ELSE w.weapon[a]]
<1>0. PICK u : u = PickedUp(w, takes)  OBVIOUS
<1>1. u = [health |-> health, alive |-> w.alive, weapon |-> weapon,
           cooldown |-> w.cooldown, eliminations |-> w.eliminations,
           loot |-> w.loot \ Range(takes)]
  BY <1>0 DEF Sound, Worlds, PickedUp
<1>2. ASSUME NEW a \in Actors
      PROVE  /\ health[a] \in 0..FullHealth /\ health[a] <= FullHealth
             /\ a \in w.alive <=> health[a] > 0
  <2>1. /\ w.health[a] \in Nat
        /\ a \in w.alive <=> w.health[a] > 0
    BY DEF Sound, Worlds, Valid
  <2>2. /\ Healing(w, takes, a) \in Nat
        /\ w.health[a] + Healing(w, takes, a) <= FullHealth
        /\ Healing(w, takes, a) > 0 => a \in w.alive
    BY HealingFits
  <2>3. health[a] = w.health[a] + Healing(w, takes, a)  OBVIOUS
  <2>4. FullHealth \in Nat  BY RulesAssumption
  <2> HIDE DEF health, weapon
  <2>5. health[a] \in Nat /\ health[a] <= FullHealth  BY <2>1, <2>2, <2>3
  <2>6. a \in w.alive <=> health[a] > 0  BY <2>1, <2>2, <2>3
  <2> QED  BY <2>4, <2>5, <2>6
<1>3. weapon \in [Actors -> Weapons]
  <2>1. w.weapon \in [Actors -> Weapons]  BY DEF Sound, Worlds
  <2>2. \A a \in DOMAIN takes : takes[a] \in DOMAIN LootItems
    BY DEF PickUps, Sound, Worlds
  <2>3. \A i \in DOMAIN LootItems : LootItems[i] \in {"Rifle", "ArcPulse", "MedKit"}
    BY RulesAssumption
  <2> QED  BY <2>1, <2>2, <2>3 DEF Weapons
<1>4. health \in [Actors -> 0..FullHealth]  BY <1>2
<1> HIDE DEF health, weapon
<1>5. u \in Worlds  BY <1>1, <1>3, <1>4 DEF Sound, Worlds
<1>6. Valid(u)  BY <1>1, <1>2 DEF Valid
<1>7. Bounded(u)
  <2>1. u.eliminations = w.eliminations  BY <1>1
  <2> QED  BY <2>1 DEF Sound, Bounded
<1> QED  BY <1>0, <1>1, <1>5, <1>6, <1>7 DEF Sound

LEMMA CooldownsTick ==
  ASSUME NEW w, Sound(w)
  PROVE  /\ Sound(CooledDown(w))
         /\ CooledDown(w).alive = w.alive
         /\ CooledDown(w).eliminations = w.eliminations
<1> DEFINE cooldown == [a \in Actors |-> IF w.cooldown[a] = 0 THEN 0 ELSE w.cooldown[a] - 1]
<1>0. PICK u : u = CooledDown(w)  OBVIOUS
<1>1. u = [health |-> w.health, alive |-> w.alive, weapon |-> w.weapon,
           cooldown |-> cooldown, eliminations |-> w.eliminations, loot |-> w.loot]
  BY <1>0 DEF Sound, Worlds, CooledDown
<1>2. cooldown \in [Actors -> Nat]
  <2>1. w.cooldown \in [Actors -> Nat]  BY DEF Sound, Worlds
  <2> QED  BY <2>1
<1> HIDE DEF cooldown
<1>3. u \in Worlds  BY <1>1, <1>2 DEF Sound, Worlds
<1>4. Valid(u)  BY <1>1 DEF Sound, Valid
<1>5. Bounded(u)  BY <1>1 DEF Sound, Bounded
<1> QED  BY <1>0, <1>1, <1>3, <1>4, <1>5 DEF Sound

-----------------------------------------------------------------------------
(* Combat. *)

MostDamage == WeaponDefinition["Blade"].damage + WeaponDefinition["Rifle"].damage
                + WeaponDefinition["ArcPulse"].damage

LEMMA DamageBounded ==
  ASSUME NEW w, Sound(w), NEW a \in Actors
  PROVE  /\ DamageOf(w, a) \in Nat \ {0} /\ DamageOf(w, a) <= MostDamage
         /\ MostDamage \in Nat
<1>1. /\ WeaponDefinition["Blade"].damage \in Nat \ {0}
      /\ WeaponDefinition["Rifle"].damage \in Nat \ {0}
      /\ WeaponDefinition["ArcPulse"].damage \in Nat \ {0}
  BY RulesAssumption DEF Weapons
<1>2. w.weapon[a] \in Weapons  BY DEF Sound, Worlds
<1> QED  BY <1>1, <1>2 DEF DamageOf, MostDamage, Weapons

LEMMA PrimarySourceIsOne ==
  ASSUME NEW w, Sound(w), NEW S \in SUBSET Actors, S # {}
  PROVE  PrimarySource(w, S) \in S
<1> DEFINE f == [a \in S |-> DamageOf(w, a)]
<1>1. \A a \in S : f[a] \in Nat /\ f[a] <= MostDamage  BY DamageBounded
<1>2. MostDamage \in Nat  BY DamageBounded
<1>3. \A a \in S : f[a] = DamageOf(w, a)  OBVIOUS
<1> HIDE DEF f
<1>4. PICK h \in S : \A a \in S : f[a] <= f[h]  BY <1>1, <1>2, Highest
<1> DEFINE H == {a \in S : f[a] = f[h]}
<1>5. \A a \in S : a \in Nat  BY RulesAssumption DEF Actors
<1>6. PICK least \in H : \A a \in H : least <= a
  <2>1. H \subseteq Nat /\ H # {}  BY <1>4, <1>5
  <2> HIDE DEF H
  <2> QED  BY <2>1, LeastNumber
<1>7. ASSUME NEW b \in S \ {least}
      PROVE  \/ DamageOf(w, least) > DamageOf(w, b)
             \/ DamageOf(w, least) = DamageOf(w, b) /\ least < b
  <2>1. f[least] = f[h] /\ f[b] <= f[h] /\ least \in S /\ least \in Nat /\ b \in Nat
    BY <1>4, <1>5, <1>6
  <2>2. f[least] \in Nat /\ f[b] \in Nat  BY <1>1, <2>1
  <2>3. f[b] = f[h] => least < b  BY <1>6, <2>1
  <2> QED  BY <1>3, <2>1, <2>2, <2>3
<1>8. least \in S  BY <1>6
<1> QED  BY <1>7, <1>8 DEF PrimarySource

LEMMA DamageAddsUp ==
  ASSUME NEW w, Sound(w), NEW S \in SUBSET Actors, S # {}
  PROVE  TotalDamage(w, S) \in Nat /\ TotalDamage(w, S) >= 1
<1> DEFINE points == UNION {{a} \X (1..DamageOf(w, a)) : a \in S}
<1>1. IsFiniteSet(Actors \X (1..MostDamage))
  <2>1. IsFiniteSet(Actors)  BY RulesAssumption, FS_Union DEF Actors
  <2>2. IsFiniteSet(1..MostDamage)
    <3>1. PICK a \in S : TRUE  OBVIOUS
    <3>2. MostDamage \in Nat  BY <3>1, DamageBounded
    <3> QED  BY <3>2, FS_Interval
  <2> QED  BY <2>1, <2>2, FS_Product
<1>2. points \subseteq Actors \X (1..MostDamage)
  <2>1. ASSUME NEW a \in S PROVE {a} \X (1..DamageOf(w, a)) \subseteq Actors \X (1..MostDamage)
    <3>1. /\ DamageOf(w, a) \in Nat /\ DamageOf(w, a) <= MostDamage /\ MostDamage \in Nat
      BY DamageBounded
    <3>2. 1..DamageOf(w, a) \subseteq 1..MostDamage  BY <3>1
    <3> QED  BY <3>2
  <2> QED  BY <2>1
<1>3. points # {}
  <2>1. PICK a \in S : TRUE  OBVIOUS
  <2>2. 1 \in 1..DamageOf(w, a)  BY DamageBounded
  <2>3. <<a, 1>> \in {a} \X (1..DamageOf(w, a))  BY <2>2
  <2> QED  BY <2>3
<1>4. TotalDamage(w, S) = Cardinality(points)  BY DEF TotalDamage
<1> HIDE DEF points
<1>5. IsFiniteSet(points)  BY <1>1, <1>2, FS_Subset
<1>6. Cardinality(points) \in Nat /\ Cardinality(points) # 0
  BY <1>3, <1>5, FS_CardinalityType, FS_EmptySet
<1> QED  BY <1>4, <1>6

\* What ResolveAttacks reports: only the living are hurt, by somebody, no more than
\* they can bear, and who has nothing left dies.
Resolves(w, r) ==
  /\ DOMAIN r.damage \subseteq w.alive /\ DOMAIN r.source = DOMAIN r.damage
  /\ \A t \in DOMAIN r.damage :
       /\ r.damage[t] \in Nat /\ 1 <= r.damage[t] /\ r.damage[t] <= w.health[t]
       /\ r.source[t] \in Actors
  /\ r.deaths = {t \in DOMAIN r.damage : r.damage[t] = w.health[t]}

LEMMA AttacksResolve ==
  ASSUME NEW w, Sound(w), NEW aim \in Aims(w), NEW near
  PROVE  Resolves(w, Resolution(w, aim, near))
<1> DEFINE sources == [t \in w.alive |-> Sources(w, aim, near, t)]
           hurt == {t \in w.alive : sources[t] # {}}
           total == [t \in hurt |-> TotalDamage(w, sources[t])]
           damage == [t \in hurt |-> IF w.health[t] < total[t] THEN w.health[t] ELSE total[t]]
           source == [t \in hurt |-> PrimarySource(w, sources[t])]
           deaths == {t \in hurt : w.health[t] <= total[t]}
<1>1. PICK r : r = Resolution(w, aim, near)  OBVIOUS
<1>2. r = [damage |-> damage, source |-> source, deaths |-> deaths]
  BY <1>1 DEF Resolution
<1>3. ASSUME NEW t \in hurt
      PROVE  /\ total[t] \in Nat /\ total[t] >= 1 /\ source[t] \in Actors
             /\ w.health[t] \in Nat /\ w.health[t] > 0
  <2>1. sources[t] \in SUBSET Actors /\ sources[t] # {}
    <3>1. DOMAIN aim \subseteq Actors  BY DEF Aims, Commanded, Sound, Worlds, AliveContenders
    <3>2. t \in w.alive  OBVIOUS
    <3>3. sources[t] = Sources(w, aim, near, t)  BY <3>2
    <3> QED  BY <3>1, <3>3 DEF Sources
  <2>2. total[t] = TotalDamage(w, sources[t]) /\ source[t] = PrimarySource(w, sources[t])
    OBVIOUS
  <2>3. t \in w.alive /\ w.alive \subseteq Actors  BY DEF Sound, Worlds
  <2> HIDE DEF sources, total, source
  <2>4. total[t] \in Nat /\ total[t] >= 1  BY <2>1, <2>2, DamageAddsUp
  <2>5. source[t] \in Actors  BY <2>1, <2>2, PrimarySourceIsOne
  <2>6. w.health[t] \in Nat /\ w.health[t] > 0
    BY <2>3, RulesAssumption DEF Sound, Worlds, Valid
  <2> QED  BY <2>4, <2>5, <2>6
<1>4. hurt \subseteq w.alive  OBVIOUS
<1>5. DOMAIN damage = hurt /\ DOMAIN source = hurt  OBVIOUS
<1>6. \A t \in hurt : damage[t] = IF w.health[t] < total[t] THEN w.health[t] ELSE total[t]
  OBVIOUS
<1>7. \A t \in Actors : t \in deaths <=> t \in hurt /\ w.health[t] <= total[t]  OBVIOUS
<1>8. r.damage = damage /\ r.source = source /\ r.deaths = deaths  BY <1>2
<1>9. deaths \subseteq hurt /\ hurt \subseteq Actors  BY DEF Sound, Worlds
<1> HIDE DEF sources, hurt, total, damage, source, deaths
<1>10. \A t \in hurt : /\ damage[t] \in Nat /\ 1 <= damage[t] /\ damage[t] <= w.health[t]
                       /\ damage[t] = w.health[t] <=> w.health[t] <= total[t]
  BY <1>3, <1>6
<1>11. deaths = {t \in hurt : damage[t] = w.health[t]}  BY <1>7, <1>9, <1>10
<1> QED  BY <1>1, <1>3, <1>4, <1>5, <1>8, <1>10, <1>11 DEF Resolves

LEMMA KillsCounted ==
  ASSUME NEW w, Sound(w), NEW r, Resolves(w, r), NEW a
  PROVE  /\ KillsOf(r, a) \in Nat /\ KillsOf(r, a) <= Cardinality(Actors)
         /\ \A v \in r.deaths : r.source[v] = a => KillsOf(r, a) >= 1
<1> DEFINE kills == {v \in r.deaths : r.source[v] = a}
<1>1. IsFiniteSet(Actors)  BY RulesAssumption, FS_Union DEF Actors
<1>2. kills \subseteq Actors  BY DEF Resolves, Sound, Worlds
<1>3. KillsOf(r, a) = Cardinality(kills)  BY DEF KillsOf
<1>4. \A v \in r.deaths : r.source[v] = a => kills # {}  OBVIOUS
<1> HIDE DEF kills
<1>5. IsFiniteSet(kills) /\ Cardinality(kills) <= Cardinality(Actors)
  BY <1>1, <1>2, FS_Subset
<1>6. Cardinality(kills) \in Nat /\ (kills # {} => Cardinality(kills) # 0)
  BY <1>5, FS_CardinalityType, FS_EmptySet
<1> QED  BY <1>3, <1>4, <1>5, <1>6

HealthLeft(w, r) ==
  [a \in Actors |-> IF a \in DOMAIN r.damage THEN w.health[a] - r.damage[a] ELSE w.health[a]]

LEMMA FightIsSound ==
  ASSUME NEW w, Sound(w), NEW aim \in Aims(w), NEW r, Resolves(w, r)
  PROVE  /\ Sound(Fought(w, aim, r))
         /\ Fought(w, aim, r).health = HealthLeft(w, r)
         /\ Fought(w, aim, r).alive = w.alive \ r.deaths
         /\ Fought(w, aim, r).eliminations = [a \in Actors |-> w.eliminations[a] + KillsOf(r, a)]
<1> DEFINE cooldown == [a \in Actors |-> IF a \in DOMAIN aim
                          THEN WeaponDefinition[w.weapon[a]].cooldown ELSE w.cooldown[a]]
           eliminations == [a \in Actors |-> w.eliminations[a] + KillsOf(r, a)]
           health == HealthLeft(w, r)
<1>1. PICK h : h = WithHealth(w, health)  OBVIOUS
<1>2. ASSUME NEW a \in Actors
      PROVE  /\ health[a] \in 0..FullHealth
             /\ health[a] > 0 <=> a \in w.alive \ r.deaths
  <2>1. /\ w.health[a] \in Nat /\ w.health[a] <= FullHealth /\ FullHealth \in Nat
        /\ a \in w.alive <=> w.health[a] > 0
    BY RulesAssumption DEF Sound, Worlds, Valid
  <2>2. a \in DOMAIN r.damage => /\ r.damage[a] \in Nat /\ r.damage[a] <= w.health[a]
                                 /\ a \in w.alive
                                 /\ a \in r.deaths <=> r.damage[a] = w.health[a]
    BY DEF Resolves
  <2>3. a \notin DOMAIN r.damage => a \notin r.deaths  BY DEF Resolves
  <2>4. health[a] = IF a \in DOMAIN r.damage THEN w.health[a] - r.damage[a] ELSE w.health[a]
    BY DEF HealthLeft
  <2> HIDE DEF health
  <2> QED  BY <2>1, <2>2, <2>3, <2>4
<1>3. health \in [Actors -> 0..FullHealth]
  <2>1. health = [a \in Actors |-> health[a]]  BY DEF HealthLeft
  <2> HIDE DEF health
  <2> QED  BY <1>2, <2>1
<1>4. w.alive \subseteq Actors  BY DEF Sound, Worlds
<1>5. {a \in Actors : health[a] > 0} = w.alive \ r.deaths  BY <1>2, <1>4
<1>6. Sound(h) /\ h.health = health /\ h.alive = w.alive \ r.deaths
      /\ h.eliminations = w.eliminations
  <2>1. \A a \in Actors : health[a] > 0 => a \in w.alive  BY <1>2
  <2> HIDE DEF health
  <2> QED  BY <1>1, <1>3, <1>5, <2>1, HealthChanged
<1>7. h.cooldown = w.cooldown /\ h.weapon = w.weapon /\ h.loot = w.loot
  BY <1>1 DEF WithHealth, Sound, Worlds
<1>8. PICK u : u = Fought(w, aim, r)  OBVIOUS
<1>9. u = [health |-> health, alive |-> w.alive \ r.deaths, weapon |-> w.weapon,
           cooldown |-> cooldown, eliminations |-> eliminations, loot |-> w.loot]
  <2>1. u = [h EXCEPT !.cooldown = [a \in Actors |-> IF a \in DOMAIN aim
                        THEN WeaponDefinition[w.weapon[a]].cooldown ELSE h.cooldown[a]],
                      !.eliminations = [a \in Actors |-> h.eliminations[a] + KillsOf(r, a)]]
    BY <1>1, <1>8 DEF Fought, HealthLeft
  <2>2. h \in Worlds  BY <1>6 DEF Sound
  <2>3. u = [h EXCEPT !.cooldown = cooldown, !.eliminations = eliminations]
    BY <1>6, <1>7, <2>1
  <2> HIDE DEF cooldown, eliminations, health
  <2>4. u = [health |-> h.health, alive |-> h.alive, weapon |-> h.weapon,
             cooldown |-> cooldown, eliminations |-> eliminations, loot |-> h.loot]
    BY <2>2, <2>3 DEF Worlds
  <2> QED  BY <1>6, <1>7, <2>4
<1>10. cooldown \in [Actors -> Nat]
  <2>1. w.cooldown \in [Actors -> Nat] /\ w.weapon \in [Actors -> Weapons]
    BY DEF Sound, Worlds
  <2>2. \A x \in Weapons : WeaponDefinition[x].cooldown \in Nat  BY RulesAssumption
  <2> QED  BY <2>1, <2>2
<1>11. eliminations \in [Actors -> Nat]
  <2>1. \A a \in Actors : w.eliminations[a] \in Nat  BY DEF Sound, Worlds
  <2>2. \A a \in Actors : KillsOf(r, a) \in Nat  BY KillsCounted
  <2> QED  BY <2>1, <2>2
<1>12. u \in Worlds
  <2> HIDE DEF cooldown, eliminations, health
  <2> QED  BY <1>3, <1>4, <1>9, <1>10, <1>11 DEF Sound, Worlds
<1>13. Valid(u)
  <2>1. u.health = h.health /\ u.alive = h.alive  BY <1>6, <1>9
  <2> QED  BY <1>6, <2>1 DEF Sound, Valid
<1>14. Bounded(u)
  <2>1. PICK most \in Nat : \A a \in Actors : w.eliminations[a] <= most
    BY DEF Sound, Bounded
  <2>2. Cardinality(Actors) \in Nat
    BY RulesAssumption, FS_Union, FS_CardinalityType DEF Actors
  <2>3. ASSUME NEW a \in Actors PROVE u.eliminations[a] <= most + Cardinality(Actors)
    <3>1. w.eliminations[a] \in Nat /\ w.eliminations[a] <= most
      BY <2>1 DEF Sound, Worlds
    <3>2. KillsOf(r, a) \in Nat /\ KillsOf(r, a) <= Cardinality(Actors)  BY KillsCounted
    <3>3. u.eliminations[a] = w.eliminations[a] + KillsOf(r, a)  BY <1>9
    <3> QED  BY <2>2, <3>1, <3>2, <3>3
  <2>4. most + Cardinality(Actors) \in Nat  BY <2>2
  <2> QED  BY <2>3, <2>4 DEF Bounded
<1> QED  BY <1>8, <1>9, <1>12, <1>13, <1>14 DEF Sound

\* The logic_errors of PreserveCombatWipe are never thrown: the contender it protects
\* lived before the fight, so it has a death, a damage and a killer with a kill.
LEMMA WipeIsUndone ==
  ASSUME NEW w, Sound(w), AliveContenders(w) # {},
         NEW aim \in Aims(w), NEW r, Resolves(w, r), Wiped(Fought(w, aim, r))
  PROVE  ~WipeFails(w, Fought(w, aim, r), r)
<1>1. PICK best : best = SelectSurvivalWinner(w)  OBVIOUS
<1>2. best \in AliveContenders(w)  BY <1>1, WinnerLives
<1>3. best \in w.alive /\ best \in Contenders /\ best \in Actors
  BY <1>2 DEF AliveContenders, Actors
<1>4. Fought(w, aim, r).alive = w.alive \ r.deaths  BY FightIsSound
<1>5. best \in r.deaths  BY <1>3, <1>4 DEF Wiped, AliveContenders
<1>6. best \in DOMAIN r.damage /\ r.source[best] \in Actors  BY <1>5 DEF Resolves
<1>7. PICK a \in Actors : a = r.source[best]  BY <1>6
<1>8. Fought(w, aim, r).eliminations[a] = w.eliminations[a] + KillsOf(r, a)
  <2>1. Fought(w, aim, r).eliminations = [b \in Actors |-> w.eliminations[b] + KillsOf(r, b)]
    BY FightIsSound
  <2> QED  BY <2>1
<1>9. KillsOf(r, a) \in Nat /\ KillsOf(r, a) >= 1  BY <1>5, <1>7, KillsCounted
<1>10. w.eliminations[a] \in Nat  BY DEF Sound, Worlds
<1>11. Fought(w, aim, r).eliminations[a] # 0  BY <1>8, <1>9, <1>10
<1> QED  BY <1>1, <1>5, <1>6, <1>7, <1>11 DEF WipeFails

\* Taking the death back leaves a sound world in which the protected contender lives.
LEMMA RevivalIsSound ==
  ASSUME NEW w, Sound(w), AliveContenders(w) # {},
         NEW aim \in Aims(w), NEW r, Resolves(w, r), Wiped(Fought(w, aim, r))
  PROVE  LET u == Revived(w, Fought(w, aim, r), r)
         IN  /\ Sound(u)
             /\ u.alive = Fought(w, aim, r).alive \cup {SelectSurvivalWinner(w)}
             /\ SelectSurvivalWinner(w) \in AliveContenders(w)
             /\ AliveContenders(u) # {}
<1>1. PICK best : best = SelectSurvivalWinner(w)  OBVIOUS
<1>2. PICK f : f = Fought(w, aim, r)  OBVIOUS
<1>3. PICK u : u = Revived(w, f, r)  OBVIOUS
<1>4. PICK killer : killer = r.source[best]  OBVIOUS
<1>5. Sound(f)  BY <1>2, FightIsSound
<1>6. ~WipeFails(w, f, r)  BY <1>2, WipeIsUndone
<1>7. best \in r.deaths /\ f.eliminations[killer] # 0 /\ best \in DOMAIN r.damage
  BY <1>1, <1>4, <1>6 DEF WipeFails
<1>8. killer \in Actors  BY <1>4, <1>7 DEF Resolves
<1>9. best \in AliveContenders(w)  BY <1>1, WinnerLives
<1>10. best \in Contenders /\ best \in Actors  BY <1>9 DEF AliveContenders, Actors
<1> DEFINE health == [f.health EXCEPT ![best] = 1]
           eliminations == [f.eliminations EXCEPT ![killer] = @ - 1]
<1>11. u = [health |-> health, alive |-> f.alive \cup {best}, weapon |-> f.weapon,
            cooldown |-> f.cooldown, eliminations |-> eliminations, loot |-> f.loot]
  BY <1>1, <1>3, <1>4, <1>5 DEF Revived, Sound, Worlds
<1>12. health \in [Actors -> 0..FullHealth]
  <2>1. f.health \in [Actors -> 0..FullHealth]  BY <1>5 DEF Sound, Worlds
  <2>2. 1 \in 0..FullHealth  BY RulesAssumption
  <2> QED  BY <2>1, <2>2
<1>13. f.eliminations \in [Actors -> Nat]  BY <1>5 DEF Sound, Worlds
<1>14. eliminations \in [Actors -> Nat]
  <2>1. f.eliminations[killer] - 1 \in Nat  BY <1>7, <1>8, <1>13
  <2> QED  BY <1>13, <2>1
<1>15. u \in Worlds
  <2>1. f.alive \cup {best} \subseteq Actors  BY <1>5, <1>10 DEF Sound, Worlds
  <2> HIDE DEF health, eliminations
  <2> QED  BY <1>5, <1>11, <1>12, <1>14, <2>1 DEF Sound, Worlds
<1>16. Valid(u)
  <2>1. ASSUME NEW a \in Actors
        PROVE  u.health[a] <= FullHealth /\ (a \in u.alive <=> u.health[a] > 0)
    <3>1. f.health[a] <= FullHealth /\ (a \in f.alive <=> f.health[a] > 0)
      BY <1>5 DEF Sound, Valid
    <3>2. 1 <= FullHealth
      <4>1. FullHealth \in Nat \ {0}  BY RulesAssumption
      <4> QED  BY <4>1
    <3>3. health[a] = IF a = best THEN 1 ELSE f.health[a]
      <4>1. f.health \in [Actors -> 0..FullHealth]  BY <1>5 DEF Sound, Worlds
      <4> QED  BY <4>1
    <3>4. u.health = health /\ u.alive = f.alive \cup {best}  BY <1>11
    <3> HIDE DEF health, eliminations
    <3>5. CASE a = best  BY <3>2, <3>3, <3>4, <3>5
    <3>6. CASE a # best  BY <3>1, <3>3, <3>4, <3>6
    <3> QED  BY <3>5, <3>6
  <2> QED  BY <2>1 DEF Valid
<1>17. Bounded(u)
  <2>1. PICK most \in Nat : \A a \in Actors : f.eliminations[a] <= most
    BY <1>5 DEF Sound, Bounded
  <2>2. ASSUME NEW a \in Actors PROVE u.eliminations[a] <= most
    <3>1. f.eliminations[a] \in Nat /\ f.eliminations[a] <= most  BY <1>13, <2>1
    <3>2. eliminations[a] = IF a = killer THEN f.eliminations[a] - 1 ELSE f.eliminations[a]
      BY <1>13
    <3>3. u.eliminations = eliminations  BY <1>11
    <3> HIDE DEF health, eliminations
    <3> QED  BY <3>1, <3>2, <3>3
  <2> QED  BY <2>2 DEF Bounded
<1>18. u.alive = f.alive \cup {best}  BY <1>11
<1>19. AliveContenders(u) # {}  BY <1>10, <1>18 DEF AliveContenders
<1> QED  BY <1>1, <1>2, <1>3, <1>9, <1>15, <1>16, <1>17, <1>18, <1>19 DEF Sound

\* No damage is reported that is not positive, also when some is taken back.
LEMMA DamageIsPositive ==
  ASSUME NEW w, Sound(w), NEW r, Resolves(w, r)
  PROVE  /\ \A a \in DOMAIN r.damage : ~(r.damage[a] <= 0)
         /\ SelectSurvivalWinner(w) \in DOMAIN r.damage =>
              LET report == TakenBack(w, r)
              IN  \A a \in DOMAIN report.damage : ~(report.damage[a] <= 0)
<1>1. \A a \in DOMAIN r.damage : r.damage[a] \in Nat /\ ~(r.damage[a] <= 0)
  BY DEF Resolves
<1>2. ASSUME SelectSurvivalWinner(w) \in DOMAIN r.damage
      PROVE  \A a \in DOMAIN TakenBack(w, r).damage : ~(TakenBack(w, r).damage[a] <= 0)
  <2>1. PICK best : best = SelectSurvivalWinner(w)  OBVIOUS
  <2>2. PICK damage : damage = r.damage  OBVIOUS
  <2>3. w.health[best] \in Nat
    <3>1. best \in Actors  BY <1>2, <2>1 DEF Resolves, Sound, Worlds
    <3> QED  BY <3>1 DEF Sound, Worlds
  <2>4. CASE w.health[best] <= 1
    <3>1. TakenBack(w, r).damage = Restrict(damage, DOMAIN damage \ {best})
      BY <2>1, <2>2, <2>4 DEF TakenBack
    <3>2. TakenBack(w, r).damage = [x \in DOMAIN damage \ {best} |-> damage[x]]
      BY <3>1 DEF Restrict
    <3> QED  BY <1>1, <2>2, <3>2
  <2>5. CASE ~(w.health[best] <= 1)
    <3>1. TakenBack(w, r).damage = [damage EXCEPT ![best] = w.health[best] - 1]
      BY <2>1, <2>2, <2>5 DEF TakenBack
    <3>2. w.health[best] - 1 > 0  BY <2>3, <2>5
    <3> QED  BY <1>1, <2>2, <2>3, <3>1, <3>2
  <2> QED  BY <2>4, <2>5
<1> QED  BY <1>1, <1>2

-----------------------------------------------------------------------------
(* The safe zone, and the end of a tick. *)

LEMMA ZoneDamageIsNatural ==
  ASSUME NEW t
  PROVE  SafeZoneDamageForTick(t) \in Nat
<1> DEFINE open == {s \in DOMAIN SafeZoneStages : t < SafeZoneStages[s].until}
           last == CHOOSE s \in DOMAIN SafeZoneStages :
                     \A o \in DOMAIN SafeZoneStages : o <= s
           first == CHOOSE s \in open : \A o \in open : s <= o
<1>1. /\ DOMAIN SafeZoneStages = 1..Len(SafeZoneStages) /\ Len(SafeZoneStages) \in Nat
      /\ SafeZoneStages # <<>>
      /\ \A s \in DOMAIN SafeZoneStages : SafeZoneStages[s].damage \in Nat
  <2>1. PICK Stages : Stages = [until : Nat, damage : Nat \ {0}]  OBVIOUS
  <2>2. SafeZoneStages \in Seq(Stages) /\ SafeZoneStages # <<>>
    BY <2>1, RulesAssumption
  <2>3. \A s \in DOMAIN SafeZoneStages : SafeZoneStages[s] \in Stages  BY <2>2
  <2>4. \A s \in DOMAIN SafeZoneStages : SafeZoneStages[s].damage \in Nat
    BY <2>1, <2>3
  <2> QED  BY <2>2, <2>4
<1>2. Len(SafeZoneStages) \in DOMAIN SafeZoneStages  BY <1>1, RulesAssumption
<1>3. last \in DOMAIN SafeZoneStages
  <2>1. \A o \in DOMAIN SafeZoneStages : o <= Len(SafeZoneStages)  BY <1>1
  <2> QED  BY <1>2, <2>1
<1>4. open # {} => first \in open
  <2>1. open \subseteq Nat  BY <1>1
  <2> HIDE DEF open
  <2>2. open # {} => \E s \in open : \A o \in open : s <= o  BY <2>1, LeastNumber
  <2> QED  BY <2>2
<1>5. open \subseteq DOMAIN SafeZoneStages  OBVIOUS
<1>6. SafeZoneDamageForTick(t)
        = IF t = 0 \/ t % TickRate # 0 THEN 0
          ELSE SafeZoneStages[IF open = {} THEN last ELSE first].damage
  BY DEF SafeZoneDamageForTick
<1> HIDE DEF open, first, last
<1>7. PICK stage : stage = IF open = {} THEN last ELSE first  OBVIOUS
<1>8. stage \in DOMAIN SafeZoneStages  BY <1>3, <1>4, <1>5, <1>7
<1>9. SafeZoneDamageForTick(t)
        = IF t = 0 \/ t % TickRate # 0 THEN 0 ELSE SafeZoneStages[stage].damage
  BY <1>6, <1>7
<1>10. SafeZoneStages[stage].damage \in Nat  BY <1>1, <1>8
<1> QED  BY <1>9, <1>10

\* Whatever the zone does, to whomever, somebody who lived before lives after.
LEMMA ZoneSparesSomebody ==
  ASSUME NEW w, Sound(w), AliveContenders(w) # {},
         NEW outside \in SUBSET w.alive, NEW damage \in Nat
  PROVE  LET z == Zoned(w, outside, damage)
         IN  Sound(z) /\ z.alive \subseteq w.alive /\ AliveContenders(z) # {}
<1>1. PICK z : z = Zoned(w, outside, damage)  OBVIOUS
<1>2. CASE damage = 0
  <2>1. z = w  BY <1>1, <1>2 DEF Zoned
  <2> QED  BY <1>1, <2>1
<1>3. CASE damage # 0
  <2>1. PICK spared : spared = Spared(w, outside, damage)  OBVIOUS
  <2> DEFINE health == [a \in Actors |->
               IF a \notin outside THEN w.health[a]
               ELSE IF a \in spared THEN 1
               ELSE IF w.health[a] > damage THEN w.health[a] - damage ELSE 0]
  <2>2. z = WithHealth(w, health)  BY <1>1, <1>3, <2>1 DEF Zoned
  <2>3. ASSUME NEW a \in Actors
        PROVE  health[a] \in 0..FullHealth /\ (health[a] > 0 => a \in w.alive)
    <3>1. /\ w.health[a] \in Nat /\ w.health[a] <= FullHealth
          /\ FullHealth \in Nat /\ 1 <= FullHealth
          /\ a \in w.alive <=> w.health[a] > 0
      BY RulesAssumption DEF Sound, Worlds, Valid
    <3>2. health[a] = IF a \notin outside THEN w.health[a]
                      ELSE IF a \in spared THEN 1
                      ELSE IF w.health[a] > damage THEN w.health[a] - damage ELSE 0
      OBVIOUS
    <3> HIDE DEF health
    <3> QED  BY <3>1, <3>2
  <2>4. health \in [Actors -> 0..FullHealth]
    <3>1. health = [a \in Actors |-> health[a]]  OBVIOUS
    <3> HIDE DEF health
    <3> QED  BY <2>3, <3>1
  <2>5. \A a \in Actors : health[a] > 0 => a \in w.alive  BY <2>3
  <2>6. \E c \in AliveContenders(w) : health[c] > 0
    <3>1. CASE \E c \in AliveContenders(w) : c \notin outside \/ w.health[c] > damage
      <4>1. PICK c \in AliveContenders(w) : c \notin outside \/ w.health[c] > damage
        BY <3>1
      <4>2. c \in Actors /\ c \in w.alive  BY DEF AliveContenders, Actors
      <4>3. w.health[c] \in Nat /\ w.health[c] > 0  BY <4>2, RulesAssumption DEF Sound, Worlds, Valid
      <4>4. spared = {}  BY <2>1, <3>1 DEF Spared
      <4>5. health[c] = IF c \notin outside THEN w.health[c]
                        ELSE IF w.health[c] > damage THEN w.health[c] - damage ELSE 0
        BY <4>2, <4>4
      <4> HIDE DEF health
      <4> QED  BY <4>1, <4>3, <4>5
    <3>2. CASE ~ \E c \in AliveContenders(w) : c \notin outside \/ w.health[c] > damage
      <4>1. PICK best : best = SelectSurvivalWinner(w)  OBVIOUS
      <4>2. best \in AliveContenders(w)  BY <4>1, WinnerLives
      <4>3. best \in Actors  BY <4>2 DEF AliveContenders, Actors
      <4>4. best \in spared /\ best \in outside  BY <2>1, <3>2, <4>1, <4>2 DEF Spared
      <4>5. health[best] = 1  BY <4>3, <4>4
      <4> HIDE DEF health
      <4> QED  BY <4>2, <4>5
    <3> QED  BY <3>1, <3>2
  <2> HIDE DEF health
  <2>7. Sound(z) /\ z.alive = {a \in Actors : health[a] > 0}
    BY <2>2, <2>4, <2>5, HealthChanged
  <2>8. z.alive \subseteq w.alive  BY <2>5, <2>7
  <2>9. AliveContenders(z) # {}
    <3>1. PICK c \in AliveContenders(w) : health[c] > 0  BY <2>6
    <3>2. c \in Contenders /\ c \in Actors  BY DEF AliveContenders, Actors
    <3> QED  BY <2>7, <3>1, <3>2 DEF AliveContenders
  <2> QED  BY <1>1, <2>7, <2>8, <2>9
<1> QED  BY <1>2, <1>3

LEMMA AliveAreCounted ==
  ASSUME NEW w
  PROVE  /\ IsFiniteSet(AliveContenders(w)) /\ Cardinality(AliveContenders(w)) \in Nat
         /\ AliveContenders(w) # {} => Cardinality(AliveContenders(w)) >= 1
<1>1. AliveContenders(w) \in SUBSET Contenders  BY DEF AliveContenders
<1>2. IsFiniteSet(AliveContenders(w))  BY <1>1, RulesAssumption, FS_Subset
<1>3. Cardinality(AliveContenders(w)) \in Nat  BY <1>2, FS_CardinalityType
<1>4. AliveContenders(w) # {} => Cardinality(AliveContenders(w)) # 0
  BY <1>2, FS_EmptySet
<1> QED  BY <1>2, <1>3, <1>4

\* A tick that finishes the match leaves the winner alone alive, at the time limit
\* with one health.
LEMMA WinnerIsLeft ==
  ASSUME NEW w, Sound(w), AliveContenders(w) # {}, NEW t \in Nat
  PROVE  LET v == Concluded(w, t)
         IN  /\ Sound(v) /\ v.alive \subseteq w.alive
             /\ Finishes(w, t) => AliveContenders(v) = {Winner(w, t)}
             /\ OnTime(w, t) => v.health[Winner(w, t)] = 1
             /\ ~Finishes(w, t) => v = w /\ Cardinality(AliveContenders(w)) >= 2
<1>1. PICK v : v = Concluded(w, t)  OBVIOUS
<1>2. Cardinality(AliveContenders(w)) \in Nat /\ Cardinality(AliveContenders(w)) >= 1
      /\ IsFiniteSet(AliveContenders(w))
  BY AliveAreCounted
<1>3. CASE OnTime(w, t)
  <2>1. PICK winner : winner = SelectSurvivalWinner(w)  OBVIOUS
  <2>2. Winner(w, t) = winner  BY <1>3, <2>1 DEF Winner
  <2>3. winner \in AliveContenders(w)  BY <2>1, WinnerLives
  <2>4. winner \in w.alive /\ winner \in Contenders /\ winner \in Actors
    BY <2>3 DEF AliveContenders, Actors
  <2> DEFINE health == [a \in Actors |-> IF a \notin AliveContenders(w) THEN w.health[a]
                                         ELSE IF a = winner THEN 1 ELSE 0]
  <2>5. v = WithHealth(w, health)  BY <1>1, <1>3, <2>1 DEF Concluded
  <2>6. ASSUME NEW a \in Actors
        PROVE  health[a] \in 0..FullHealth /\ (health[a] > 0 => a \in w.alive)
    <3>1. /\ w.health[a] \in Nat /\ w.health[a] <= FullHealth
          /\ FullHealth \in Nat /\ 1 <= FullHealth
          /\ a \in w.alive <=> w.health[a] > 0
      BY RulesAssumption DEF Sound, Worlds, Valid
    <3>2. health[a] = IF a \notin AliveContenders(w) THEN w.health[a]
                      ELSE IF a = winner THEN 1 ELSE 0
      OBVIOUS
    <3> HIDE DEF health
    <3> QED  BY <2>4, <3>1, <3>2
  <2>7. health \in [Actors -> 0..FullHealth]
    <3>1. health = [a \in Actors |-> health[a]]  OBVIOUS
    <3> HIDE DEF health
    <3> QED  BY <2>6, <3>1
  <2>8. \A a \in Actors : health[a] > 0 => a \in w.alive  BY <2>6
  <2>9. /\ health[winner] = 1
        /\ \A a \in Contenders \ {winner} : ~(health[a] > 0)
    <3>1. health[winner] = 1  BY <2>3, <2>4
    <3>2. ASSUME NEW a \in Contenders \ {winner} PROVE ~(health[a] > 0)
      <4>1. a \in Actors  BY DEF Actors
      <4>2. CASE a \in AliveContenders(w)
        <5>1. health[a] = 0  BY <4>1, <4>2
        <5> QED  BY <5>1
      <4>3. CASE a \notin AliveContenders(w)
        <5>1. health[a] = w.health[a]  BY <4>1, <4>3
        <5>2. a \notin w.alive  BY <4>3 DEF AliveContenders
        <5>3. ~(w.health[a] > 0)  BY <4>1, <5>2 DEF Sound, Valid
        <5> QED  BY <5>1, <5>3
      <4> QED  BY <4>2, <4>3
    <3> QED  BY <3>1, <3>2
  <2> HIDE DEF health
  <2>10. Sound(v) /\ v.health = health /\ v.alive = {a \in Actors : health[a] > 0}
    BY <2>5, <2>7, <2>8, HealthChanged
  <2>11. AliveContenders(v) = {winner}
    BY <2>4, <2>9, <2>10 DEF AliveContenders, Actors
  <2>12. v.alive \subseteq w.alive  BY <2>8, <2>10
  <2>13. Finishes(w, t)  BY <1>3 DEF OnTime, Finishes
  <2> QED  BY <1>1, <2>2, <2>9, <2>10, <2>11, <2>12, <2>13
<1>4. CASE ~OnTime(w, t)
  <2>1. v = w  BY <1>1, <1>4 DEF Concluded
  <2>2. ASSUME Finishes(w, t) PROVE AliveContenders(w) = {Winner(w, t)}
    <3>1. Cardinality(AliveContenders(w)) = 1  BY <1>2, <1>4, <2>2 DEF OnTime, Finishes
    <3>2. PICK c : AliveContenders(w) = {c}  BY <1>2, <3>1, FS_Singleton
    <3>3. Winner(w, t) \in AliveContenders(w)  BY <1>4, <3>2 DEF Winner
    <3> QED  BY <3>2, <3>3
  <2>3. ~Finishes(w, t) => Cardinality(AliveContenders(w)) >= 2
    BY <1>2 DEF Finishes
  <2> QED  BY <1>1, <1>4, <2>1, <2>2, <2>3
<1> QED  BY <1>3, <1>4

-----------------------------------------------------------------------------
(* The tick as a whole. *)

\* What combat makes of the world w, and what is reported of it: also when a death,
\* its damage and its kill are taken back.
CombatAccounts(w, u, r) ==
  /\ Sound(u) /\ u.alive \subseteq w.alive /\ r.deaths = w.alive \ u.alive
  /\ DOMAIN r.damage \subseteq w.alive
  /\ \A a \in DOMAIN r.damage : r.damage[a] \in Nat /\ r.source[a] \in Actors
  /\ \A a \in Actors :
       /\ w.health[a] = u.health[a] + (IF a \in DOMAIN r.damage THEN r.damage[a] ELSE 0)
       /\ u.eliminations[a] = w.eliminations[a] + KillsOf(r, a)

Report(r) == r = [damage |-> r.damage, source |-> r.source, deaths |-> r.deaths]

LEMMA FightAccounts ==
  ASSUME NEW w, Sound(w), NEW aim \in Aims(w), NEW r, Resolves(w, r)
  PROVE  CombatAccounts(w, Fought(w, aim, r), r)
<1>1. PICK u : u = Fought(w, aim, r)  OBVIOUS
<1>2. /\ Sound(u) /\ u.health = HealthLeft(w, r) /\ u.alive = w.alive \ r.deaths
      /\ u.eliminations = [a \in Actors |-> w.eliminations[a] + KillsOf(r, a)]
  BY <1>1, FightIsSound
<1>3. /\ DOMAIN r.damage \subseteq w.alive /\ r.deaths \subseteq w.alive
      /\ \A a \in DOMAIN r.damage : /\ r.damage[a] \in Nat /\ r.source[a] \in Actors
                                    /\ r.damage[a] <= w.health[a]
  BY DEF Resolves
<1>4. r.deaths = w.alive \ u.alive  BY <1>2, <1>3
<1>5. ASSUME NEW a \in Actors
      PROVE  w.health[a] = u.health[a] + (IF a \in DOMAIN r.damage THEN r.damage[a] ELSE 0)
  <2>1. u.health[a] = IF a \in DOMAIN r.damage THEN w.health[a] - r.damage[a]
                      ELSE w.health[a]
    BY <1>2 DEF HealthLeft
  <2>2. w.health[a] \in Nat  BY RulesAssumption DEF Sound, Worlds
  <2> QED  BY <1>3, <2>1, <2>2
<1>6. \A a \in Actors : u.eliminations[a] = w.eliminations[a] + KillsOf(r, a)  BY <1>2
<1> QED  BY <1>1, <1>2, <1>3, <1>4, <1>5, <1>6 DEF CombatAccounts

LEMMA KillTakenBack ==
  ASSUME NEW w, Sound(w), NEW r, Resolves(w, r), NEW q, NEW best \in r.deaths,
         q.deaths = r.deaths \ {best}, q.source = r.source, NEW a
  PROVE  KillsOf(q, a) = IF r.source[best] = a THEN KillsOf(r, a) - 1 ELSE KillsOf(r, a)
<1> DEFINE kills == {v \in r.deaths : r.source[v] = a}
<1>1. IsFiniteSet(Actors)  BY RulesAssumption, FS_Union DEF Actors
<1>2. kills \subseteq Actors  BY DEF Resolves, Sound, Worlds
<1>3. {v \in q.deaths : q.source[v] = a} = kills \ {best}  OBVIOUS
<1>4. best \in kills <=> r.source[best] = a  OBVIOUS
<1>5. KillsOf(r, a) = Cardinality(kills) /\ KillsOf(q, a) = Cardinality(kills \ {best})
  BY <1>3 DEF KillsOf
<1> HIDE DEF kills
<1>6. IsFiniteSet(kills)  BY <1>1, <1>2, FS_Subset
<1> QED  BY <1>4, <1>5, <1>6, FS_RemoveElement

LEMMA RevivalAccounts ==
  ASSUME NEW w, Sound(w), AliveContenders(w) # {}, NEW aim \in Aims(w),
         NEW r, Resolves(w, r), Report(r), Wiped(Fought(w, aim, r))
  PROVE  CombatAccounts(w, Revived(w, Fought(w, aim, r), r), TakenBack(w, r))
<1>1. PICK best : best = SelectSurvivalWinner(w)  OBVIOUS
<1>2. PICK f : f = Fought(w, aim, r)  OBVIOUS
<1>3. PICK u : u = Revived(w, f, r)  OBVIOUS
<1>4. PICK q : q = TakenBack(w, r)  OBVIOUS
<1>5. PICK killer : killer = r.source[best]  OBVIOUS
<1>6. CombatAccounts(w, f, r)  BY <1>2, FightAccounts
<1>7. best \in r.deaths /\ f.eliminations[killer] # 0 /\ best \in DOMAIN r.damage
  BY <1>1, <1>2, <1>5, WipeIsUndone DEF WipeFails
<1>8. killer \in Actors /\ best \in w.alive /\ best \in Actors
  BY <1>5, <1>7 DEF Resolves, Sound, Worlds
<1>9. Sound(u) /\ u.alive = f.alive \cup {best}  BY <1>1, <1>2, <1>3, RevivalIsSound
<1>10. /\ u.health = [f.health EXCEPT ![best] = 1]
       /\ u.eliminations = [f.eliminations EXCEPT ![killer] = @ - 1]
  BY <1>1, <1>3, <1>5, <1>6 DEF Revived, CombatAccounts, Sound, Worlds
<1>11. /\ f.health \in [Actors -> 0..FullHealth] /\ f.eliminations \in [Actors -> Nat]
       /\ w.health \in [Actors -> 0..FullHealth] /\ w.eliminations \in [Actors -> Nat]
  BY <1>6 DEF CombatAccounts, Sound, Worlds
<1> DEFINE damage == IF w.health[best] <= 1
                       THEN [a \in DOMAIN r.damage \ {best} |-> r.damage[a]]
                       ELSE [r.damage EXCEPT ![best] = w.health[best] - 1]
<1>12. q.damage = damage /\ q.source = r.source /\ q.deaths = r.deaths \ {best}
  <2>1. q = [r EXCEPT !.deaths = r.deaths \ {best}, !.damage = damage]
    BY <1>1, <1>4 DEF TakenBack, Restrict
  <2> HIDE DEF damage
  <2>2. q = [damage |-> damage, source |-> r.source, deaths |-> r.deaths \ {best}]
    BY <2>1 DEF Report
  <2> QED  BY <2>2
<1>13. w.health[best] \in Nat /\ w.health[best] >= 1
  <2>1. w.health[best] > 0  BY <1>8 DEF Sound, Valid
  <2> QED  BY <1>8, <1>11, <2>1, RulesAssumption
<1>14. r.damage[best] = w.health[best]  BY <1>7 DEF Resolves
<1>15. q.deaths = w.alive \ u.alive /\ u.alive \subseteq w.alive
  BY <1>6, <1>8, <1>9, <1>12 DEF CombatAccounts
<1>16. DOMAIN q.damage \subseteq w.alive
       /\ \A a \in DOMAIN q.damage : q.damage[a] \in Nat /\ q.source[a] \in Actors
  BY <1>6, <1>12, <1>13 DEF CombatAccounts
<1>17. ASSUME NEW a \in Actors
       PROVE  w.health[a] = u.health[a] + (IF a \in DOMAIN q.damage THEN q.damage[a] ELSE 0)
  <2>1. u.health[a] = IF a = best THEN 1 ELSE f.health[a]  BY <1>10, <1>11
  <2>2. CASE a = best /\ w.health[best] <= 1
    <3>1. a \notin DOMAIN q.damage  BY <1>12, <2>2
    <3> QED  BY <1>13, <2>1, <2>2, <3>1
  <2>3. CASE a = best /\ ~(w.health[best] <= 1)
    <3>1. a \in DOMAIN q.damage /\ q.damage[a] = w.health[best] - 1  BY <1>7, <1>12, <2>3
    <3> QED  BY <1>13, <2>1, <2>3, <3>1
  <2>4. CASE a # best
    <3>1. a \in DOMAIN q.damage <=> a \in DOMAIN r.damage  BY <1>12, <2>4
    <3>2. a \in DOMAIN q.damage => q.damage[a] = r.damage[a]  BY <1>12, <2>4
    <3> HIDE DEF damage
    <3> QED  BY <1>6, <2>1, <2>4, <3>1, <3>2 DEF CombatAccounts
  <2> QED  BY <2>2, <2>3, <2>4
<1>18. ASSUME NEW a \in Actors
       PROVE  u.eliminations[a] = w.eliminations[a] + KillsOf(q, a)
  <2>1. u.eliminations[a] = IF a = killer THEN f.eliminations[a] - 1 ELSE f.eliminations[a]
    BY <1>8, <1>10, <1>11
  <2>2. f.eliminations[a] = w.eliminations[a] + KillsOf(r, a)  BY <1>6 DEF CombatAccounts
  <2>3. KillsOf(q, a) = IF a = killer THEN KillsOf(r, a) - 1 ELSE KillsOf(r, a)
    BY <1>5, <1>7, <1>12, KillTakenBack
  <2>4. KillsOf(r, a) \in Nat  BY KillsCounted
  <2>5. w.eliminations[a] \in Nat  BY <1>11
  <2> QED  BY <2>1, <2>2, <2>3, <2>4, <2>5
<1> HIDE DEF damage
<1> QED  BY <1>2, <1>3, <1>4, <1>9, <1>15, <1>16, <1>17, <1>18 DEF CombatAccounts

\* What the zone makes of u: it heals nobody, and spares a contender.
ZoneAccounts(u, z) ==
  /\ Sound(z) /\ z.alive \subseteq u.alive /\ AliveContenders(z) # {}
  /\ z.eliminations = u.eliminations
  /\ \A a \in Actors : z.health[a] <= u.health[a]

LEMMA ZoneOnlyHurts ==
  ASSUME NEW u, Sound(u), AliveContenders(u) # {},
         NEW outside \in SUBSET u.alive, NEW damage \in Nat
  PROVE  ZoneAccounts(u, Zoned(u, outside, damage))
<1>1. PICK z : z = Zoned(u, outside, damage)  OBVIOUS
<1>2. Sound(z) /\ z.alive \subseteq u.alive /\ AliveContenders(z) # {}
  BY <1>1, ZoneSparesSomebody
<1>3. z.eliminations = u.eliminations
  BY <1>1 DEF Zoned, WithHealth, Sound, Worlds
<1>4. ASSUME NEW a \in Actors PROVE z.health[a] <= u.health[a]
  <2>1. u.health[a] \in Nat /\ (a \in u.alive <=> u.health[a] > 0)
    BY RulesAssumption DEF Sound, Worlds, Valid
  <2>2. CASE damage = 0
    <3>1. z = u  BY <1>1, <2>2 DEF Zoned
    <3> QED  BY <2>1, <3>1
  <2>3. CASE damage # 0
    <3>1. PICK spared : spared = Spared(u, outside, damage)  OBVIOUS
    <3> DEFINE health == [b \in Actors |->
                 IF b \notin outside THEN u.health[b]
                 ELSE IF b \in spared THEN 1
                 ELSE IF u.health[b] > damage THEN u.health[b] - damage ELSE 0]
    <3>2. z = WithHealth(u, health)  BY <1>1, <2>3, <3>1 DEF Zoned
    <3>3. z.health = health
      <4> HIDE DEF health
      <4> QED  BY <3>2 DEF WithHealth, Sound, Worlds
    <3>4. health[a] = IF a \notin outside THEN u.health[a]
                      ELSE IF a \in spared THEN 1
                      ELSE IF u.health[a] > damage THEN u.health[a] - damage ELSE 0
      OBVIOUS
    <3>5. a \in outside => a \in u.alive  OBVIOUS
    <3> HIDE DEF health
    <3> QED  BY <2>1, <3>3, <3>4, <3>5
  <2> QED  BY <2>2, <2>3
<1> QED  BY <1>1, <1>2, <1>3, <1>4 DEF ZoneAccounts

\* None of the exceptions of combat and zone is thrown: a fight among actors in order
\* goes on to the end of the tick, with a contender left.
LEMMA FightSettles ==
  ASSUME NEW ready, Sound(ready), AliveContenders(ready) # {},
         NEW aim \in Aims(ready), NEW near, NEW n \in Nat, NEW reported,
         FightAndSettle(ready, aim, near, n, reported)
  PROVE  \E r, u, z :
           /\ CombatAccounts(ready, u, r) /\ ZoneAccounts(u, z)
           /\ Settle(z, n, reported \cup CombatEvents(r) \cup ZoneEvents(u, z))
<1>1. PICK r : r = Resolution(ready, aim, near)  OBVIOUS
<1>2. PICK fought : fought = Fought(ready, aim, r)  OBVIOUS
<1>3. PICK saved : saved = IF Wiped(fought) THEN Revived(ready, fought, r) ELSE fought
  OBVIOUS
<1>4. PICK report : report = IF Wiped(fought) THEN TakenBack(ready, r) ELSE r  OBVIOUS
<1>5. Resolves(ready, r) /\ Report(r)
  BY <1>1, AttacksResolve DEF Resolution, Report
<1>7. Valid(ready)  BY DEF Sound
<1>8. Wiped(fought) => ~WipeFails(ready, fought, r)  BY <1>2, <1>5, WipeIsUndone
<1>9. CombatAccounts(ready, saved, report) /\ AliveContenders(saved) # {}
  <2>1. CASE Wiped(fought)
    <3>1. saved = Revived(ready, fought, r) /\ report = TakenBack(ready, r)
      BY <1>3, <1>4, <2>1
    <3>2. AliveContenders(saved) # {}  BY <1>2, <1>5, <2>1, <3>1, RevivalIsSound
    <3>3. CombatAccounts(ready, saved, report)
      BY <1>2, <1>5, <2>1, <3>1, RevivalAccounts
    <3> QED  BY <3>2, <3>3
  <2>2. CASE ~Wiped(fought)
    <3>1. saved = fought /\ report = r  BY <1>3, <1>4, <2>2
    <3>2. CombatAccounts(ready, fought, r)  BY <1>2, <1>5, FightAccounts
    <3> QED  BY <2>2, <3>1, <3>2 DEF Wiped
  <2> QED  BY <2>1, <2>2
<1>10. \A a \in DOMAIN report.damage : ~(report.damage[a] <= 0)
  <2>1. CASE Wiped(fought)
    <3>1. SelectSurvivalWinner(ready) \in DOMAIN r.damage
      BY <1>8, <2>1 DEF WipeFails
    <3>2. report = TakenBack(ready, r)  BY <1>4, <2>1
    <3> QED  BY <1>5, <3>1, <3>2, DamageIsPositive
  <2>2. CASE ~Wiped(fought)  BY <1>4, <1>5, <2>2, DamageIsPositive
  <2> QED  BY <2>1, <2>2
<1>11. \E outside \in Outside(saved, n) :
         \E zoned \in {Zoned(saved, outside, SafeZoneDamageForTick(n))} :
           IF AliveContenders(zoned) = {} THEN Throw("nobody")
           ELSE Settle(zoned, n, reported \cup CombatEvents(report)
                                          \cup ZoneEvents(saved, zoned))
  BY <1>1, <1>2, <1>3, <1>4, <1>7, <1>8, <1>10 DEF FightAndSettle
<1>12. PICK outside \in Outside(saved, n) :
         \E zoned \in {Zoned(saved, outside, SafeZoneDamageForTick(n))} :
           IF AliveContenders(zoned) = {} THEN Throw("nobody")
           ELSE Settle(zoned, n, reported \cup CombatEvents(report)
                                          \cup ZoneEvents(saved, zoned))
  BY <1>11
<1>13. PICK zoned : zoned = Zoned(saved, outside, SafeZoneDamageForTick(n))  OBVIOUS
<1>14. outside \in SUBSET saved.alive  BY <1>12 DEF Outside
<1>15. ZoneAccounts(saved, zoned)
  BY <1>9, <1>13, <1>14, ZoneDamageIsNatural, ZoneOnlyHurts DEF CombatAccounts
<1>16. AliveContenders(zoned) # {}  BY <1>15 DEF ZoneAccounts
<1>17. Settle(zoned, n, reported \cup CombatEvents(report) \cup ZoneEvents(saved, zoned))
  BY <1>12, <1>13, <1>16
<1> QED  BY <1>9, <1>15, <1>17

\* What a tick starts its fight with: who left is gone, and the others are healed.
ReadyAccounts(gone, left, takes, ready) ==
  /\ Sound(ready) /\ ready.alive = world.alive \ gone
  /\ ready.eliminations = world.eliminations
  /\ \A a \in Actors :
       /\ Healing(left, takes, a) \in Nat
       /\ a \notin gone => ready.health[a] = world.health[a] + Healing(left, takes, a)
  /\ \A a \in DOMAIN takes : a \in Actors

LEMMA ReadyIsHealed ==
  ASSUME Sound(world), NEW gone \in SUBSET AliveContenders(world),
         NEW takes \in PickUps(Disconnected(world, gone))
  PROVE  ReadyAccounts(gone, Disconnected(world, gone), takes,
                       CooledDown(PickedUp(Disconnected(world, gone), takes)))
<1>1. PICK left : left = Disconnected(world, gone)  OBVIOUS
<1>2. PICK taken : taken = PickedUp(left, takes)  OBVIOUS
<1>3. PICK ready : ready = CooledDown(taken)  OBVIOUS
<1>4. Sound(left) /\ left.alive = world.alive \ gone  BY <1>1, OthersStay
<1>5. /\ left.eliminations = world.eliminations
      /\ \A a \in Actors : a \notin gone => left.health[a] = world.health[a]
  BY <1>1 DEF Disconnected, WithHealth, Sound, Worlds
<1>6. Sound(taken) /\ taken.alive = left.alive /\ taken.eliminations = left.eliminations
  BY <1>1, <1>2, <1>4, LootTaken
<1>7. \A a \in Actors : taken.health[a] = left.health[a] + Healing(left, takes, a)
  BY <1>2, <1>4 DEF PickedUp, Sound, Worlds
<1>8. /\ Sound(ready) /\ ready.alive = taken.alive
      /\ ready.eliminations = taken.eliminations
  BY <1>3, <1>6, CooldownsTick
<1>9. ready.health = taken.health
  BY <1>3, <1>6 DEF CooledDown, Sound, Worlds
<1>10. \A a \in Actors : Healing(left, takes, a) \in Nat  BY <1>1, <1>4, HealingFits
<1>11. \A a \in DOMAIN takes : a \in Actors
  BY <1>1 DEF PickUps, AliveContenders, Actors
<1> QED
  BY <1>1, <1>2, <1>3, <1>4, <1>5, <1>6, <1>7, <1>8, <1>9, <1>10, <1>11 DEF ReadyAccounts

Leavers(gone) == {Event("ActorDisconnected", a, Nobody, 0) : a \in gone}

\* The whole tick: refused when all leave, and otherwise an account of each stage.
TickAccounts(gone, left, takes, ready, r, u, z) ==
  /\ ReadyAccounts(gone, left, takes, ready)
  /\ CombatAccounts(ready, u, r) /\ ZoneAccounts(u, z)
  /\ Settle(z, tick + 1, Leavers(gone) \cup PickUpEvents(left, takes)
                           \cup CombatEvents(r) \cup ZoneEvents(u, z))

LEMMA TickSettles ==
  ASSUME RulesInv, NEW gone \in SUBSET AliveContenders(world), Step(gone)
  PROVE  /\ tick' = tick + 1
         /\ \/ gone = AliveContenders(world) /\ Throw("disconnect")
            \/ \E left, takes, ready, r, u, z :
                 TickAccounts(gone, left, takes, ready, r, u, z)
<1>1. PICK n : n = tick + 1  OBVIOUS
<1>2. n \in Nat  BY <1>1 DEF RulesInv
<1>3. tick' = n  BY <1>1 DEF Step
<1>4. CASE gone = AliveContenders(world)
  BY <1>1, <1>3, <1>4 DEF Step
<1>5. CASE gone # AliveContenders(world)
  <2>1. PICK left : left = Disconnected(world, gone)  OBVIOUS
  <2>2. \E takes \in PickUps(left) :
        \E ready \in {CooledDown(PickedUp(left, takes))} :
        \E aim \in Aims(ready) : \E near \in SUBSET NearPairs(ready, aim) :
          FightAndSettle(ready, aim, near, n,
            {Event("ActorDisconnected", a, Nobody, 0) : a \in gone}
              \cup PickUpEvents(left, takes))
    BY <1>3, <1>5, <2>1 DEF Step
  <2>3. PICK takes \in PickUps(left) :
        \E ready \in {CooledDown(PickedUp(left, takes))} :
        \E aim \in Aims(ready) : \E near \in SUBSET NearPairs(ready, aim) :
          FightAndSettle(ready, aim, near, n,
            {Event("ActorDisconnected", a, Nobody, 0) : a \in gone}
              \cup PickUpEvents(left, takes))
    BY <2>2
  <2>4. PICK ready : ready = CooledDown(PickedUp(left, takes))  OBVIOUS
  <2>5. PICK aim \in Aims(ready) :
          \E near \in SUBSET NearPairs(ready, aim) :
            FightAndSettle(ready, aim, near, n,
              {Event("ActorDisconnected", a, Nobody, 0) : a \in gone}
                \cup PickUpEvents(left, takes))
    BY <2>3, <2>4
  <2>6. PICK reported : reported = Leavers(gone) \cup PickUpEvents(left, takes)
    OBVIOUS
  <2>7. ReadyAccounts(gone, left, takes, ready)
    BY <2>1, <2>4, ReadyIsHealed DEF RulesInv
  <2>8. Sound(ready) /\ AliveContenders(ready) = AliveContenders(world) \ gone
    BY <2>7 DEF ReadyAccounts, AliveContenders
  <2>9. AliveContenders(ready) # {}  BY <1>5, <2>8
  <2>10. PICK near : FightAndSettle(ready, aim, near, n, reported)
    BY <2>5, <2>6 DEF Leavers
  <2>11. PICK r, u, z :
           /\ CombatAccounts(ready, u, r) /\ ZoneAccounts(u, z)
           /\ Settle(z, n, reported \cup CombatEvents(r) \cup ZoneEvents(u, z))
    BY <1>2, <2>8, <2>9, <2>10, FightSettles
  <2>12. TickAccounts(gone, left, takes, ready, r, u, z)
    BY <1>1, <2>6, <2>7, <2>11 DEF TickAccounts
  <2> QED  BY <1>1, <1>3, <2>12
<1> QED  BY <1>4, <1>5

NobodyLeaves(reports) == \A e \in reports : e.type # "ActorDisconnected"

\* What a tick does: it is refused when all leave, and otherwise loses who leaves and
\* perhaps others, but not everybody.
LEMMA TickEffect ==
  ASSUME RulesInv, NEW gone \in SUBSET AliveContenders(world), Step(gone)
  PROVE  /\ tick' = tick + 1
         /\ \/ gone = AliveContenders(world) /\ Throw("disconnect")
            \/ \E z, more :
                 /\ Sound(z) /\ AliveContenders(z) # {}
                 /\ AliveContenders(z) \subseteq AliveContenders(world) \ gone
                 /\ NobodyLeaves(more)
                 /\ Settle(z, tick + 1, Leavers(gone) \cup more)
<1>1. CASE gone = AliveContenders(world) /\ Throw("disconnect")
  BY <1>1, TickSettles
<1>2. CASE \E left, takes, ready, r, u, z : TickAccounts(gone, left, takes, ready, r, u, z)
  <2>1. PICK left, takes, ready, r, u, z : TickAccounts(gone, left, takes, ready, r, u, z)
    BY <1>2
  <2>2. PICK more : more = PickUpEvents(left, takes) \cup CombatEvents(r) \cup ZoneEvents(u, z)
    OBVIOUS
  <2>3. ReadyAccounts(gone, left, takes, ready) /\ CombatAccounts(ready, u, r)
        /\ ZoneAccounts(u, z)
    BY <2>1 DEF TickAccounts
  <2>4. /\ Sound(z) /\ AliveContenders(z) # {}
        /\ AliveContenders(z) \subseteq AliveContenders(world) \ gone
    BY <2>3 DEF ReadyAccounts, CombatAccounts, ZoneAccounts, AliveContenders
  <2>5. NobodyLeaves(more)
    <3>1. NobodyLeaves(PickUpEvents(left, takes))  BY DEF NobodyLeaves, PickUpEvents, Event
    <3>2. NobodyLeaves(CombatEvents(r))  BY DEF NobodyLeaves, CombatEvents, Event
    <3>3. NobodyLeaves(ZoneEvents(u, z))  BY DEF NobodyLeaves, ZoneEvents, Event
    <3> QED  BY <2>2, <3>1, <3>2, <3>3 DEF NobodyLeaves
  <2>6. Leavers(gone) \cup PickUpEvents(left, takes) \cup CombatEvents(r) \cup ZoneEvents(u, z)
          = Leavers(gone) \cup more
    BY <2>2
  <2>7. Settle(z, tick + 1, Leavers(gone) \cup more)
    BY <2>1, <2>6 DEF TickAccounts
  <2> QED  BY <2>4, <2>5, <2>7, TickSettles
<1> QED  BY <1>1, <1>2, TickSettles

LEMMA SpawnIsSound ==
  Sound(Spawn) /\ AliveContenders(Spawn) = Contenders
<1>0. PICK w : w = Spawn  OBVIOUS
<1> DEFINE health == [a \in Actors |-> IF a \in Contenders THEN FullHealth
                                       ELSE NeutralSpawns[a].health]
           weapon == [a \in Actors |-> IF a \in Contenders THEN "Blade"
                                       ELSE NeutralSpawns[a].weapon]
<1>1. w = [health |-> health, alive |-> Actors, weapon |-> weapon,
           cooldown |-> [a \in Actors |-> 0], eliminations |-> [a \in Actors |-> 0],
           loot |-> DOMAIN LootItems]
  BY <1>0 DEF Spawn
<1>2. ASSUME NEW a \in Actors
      PROVE  health[a] \in 0..FullHealth /\ health[a] > 0 /\ weapon[a] \in Weapons
  <2>1. FullHealth \in Nat \ {0}  BY RulesAssumption
  <2>2. CASE a \in Contenders  BY <2>1, <2>2 DEF Weapons
  <2>3. CASE a \notin Contenders
    <3>1. a \in Neutrals  BY <2>3 DEF Actors
    <3>2. NeutralSpawns[a] \in [health : 1..FullHealth, weapon : Weapons]
      BY <3>1, RulesAssumption
    <3>3. NeutralSpawns[a].health \in 1..FullHealth /\ NeutralSpawns[a].weapon \in Weapons
      BY <3>2
    <3>4. health[a] = NeutralSpawns[a].health /\ weapon[a] = NeutralSpawns[a].weapon
      BY <2>3
    <3> HIDE DEF health, weapon
    <3> QED  BY <2>1, <3>3, <3>4
  <2> QED  BY <2>2, <2>3
<1>3. health \in [Actors -> 0..FullHealth] /\ weapon \in [Actors -> Weapons]
  <2>1. health = [a \in Actors |-> health[a]] /\ weapon = [a \in Actors |-> weapon[a]]
    OBVIOUS
  <2> HIDE DEF health, weapon
  <2> QED  BY <1>2, <2>1
<1> HIDE DEF health, weapon
<1>4. w \in Worlds  BY <1>1, <1>3 DEF Worlds
<1>5. Valid(w)
  <2>1. \A a \in Actors : health[a] <= FullHealth /\ health[a] > 0
    BY <1>2, RulesAssumption
  <2> QED  BY <1>1, <2>1 DEF Valid
<1>6. Bounded(w)
  <2>1. \A a \in Actors : w.eliminations[a] <= 0  BY <1>1
  <2> QED  BY <2>1 DEF Bounded
<1>7. AliveContenders(w) = Contenders  BY <1>1 DEF AliveContenders, Actors
<1> QED  BY <1>0, <1>4, <1>5, <1>6, <1>7 DEF Sound

LEMMA RulesInitInv ==
  RulesInit => RulesInv
<1> SUFFICES ASSUME RulesInit PROVE RulesInv  OBVIOUS
<1>1. /\ world = Spawn /\ phase = "Waiting" /\ tick = 0
      /\ result = Nobody /\ error = "none"
  BY DEF RulesInit
<1>2. Sound(world) /\ AliveContenders(world) = Contenders  BY <1>1, SpawnIsSound
<1>3. world \in Worlds /\ Valid(world)  BY <1>2 DEF Sound
<1>4. RulesHold  BY <1>1, <1>2, <1>3, RulesAssumption DEF RulesHold
<1>5. tick \in Nat /\ tick < HardTimeoutTick  BY <1>1, RulesAssumption
<1> QED  BY <1>1, <1>2, <1>4, <1>5 DEF RulesInv

LEMMA StartKeepsRules ==
  ASSUME RulesInv, Start
  PROVE  RulesInv'
<1>1. /\ phase = "Waiting" /\ phase' = "Running" /\ world' = Spawn
      /\ tick' = tick /\ result' = result /\ error' = error
  BY DEF Start
<1>2. PICK w : w = Spawn  OBVIOUS
<1>3. Sound(w) /\ AliveContenders(w) = Contenders  BY <1>2, SpawnIsSound
<1>4. world' = w  BY <1>1, <1>2
<1>5. Sound(world)' /\ AliveContenders(world)' = Contenders
  BY <1>3, <1>4 DEF Sound, Worlds, Valid, Bounded, AliveContenders
<1>6. result = Nobody /\ error \in {"none", "disconnect"}
  BY <1>1 DEF RulesInv, RulesHold
<1>7. (world \in Worlds)' /\ Valid(world)'  BY <1>5 DEF Sound
<1>8. RulesHold'  BY <1>1, <1>5, <1>6, <1>7, RulesAssumption DEF RulesHold
<1>9. tick' \in Nat /\ (phase' # "Finished" /\ error' = "none" => tick' < HardTimeoutTick)
  BY <1>1 DEF RulesInv
<1> QED  BY <1>1, <1>5, <1>8, <1>9 DEF RulesInv

LEMMA StepKeepsRules ==
  ASSUME RulesInv, NEW gone \in SUBSET AliveContenders(world), Step(gone)
  PROVE  RulesInv'
<1>1. /\ phase \in {"Running", "SuddenDeath"} /\ error = "none" /\ tick \in Nat
      /\ tick < HardTimeoutTick /\ result = Nobody
  BY DEF Step, RulesInv, RulesHold
<1>2. tick' = tick + 1  BY TickEffect
<1>3. CASE Throw("disconnect")
  <2>1. /\ error' = "disconnect" /\ world' = world /\ phase' = phase /\ result' = result
    BY <1>3 DEF Throw
  <2>2. Sound(world)' /\ RulesHold'
    BY <2>1, <1>1 DEF RulesInv, RulesHold, Sound, Worlds, Valid, Bounded, AliveContenders
  <2> QED  BY <1>1, <1>2, <2>1, <2>2 DEF RulesInv
<1>4. CASE \E z, more :
             /\ Sound(z) /\ AliveContenders(z) # {}
             /\ AliveContenders(z) \subseteq AliveContenders(world) \ gone
             /\ NobodyLeaves(more)
             /\ Settle(z, tick + 1, Leavers(gone) \cup more)
  <2>1. PICK z, more : /\ Sound(z) /\ AliveContenders(z) # {}
                       /\ Settle(z, tick + 1, Leavers(gone) \cup more)
    BY <1>4
  <2>2. PICK n \in Nat : n = tick + 1  BY <1>1
  <2>3. PICK v : v = Concluded(z, n)  OBVIOUS
  <2>4. /\ Sound(v)
        /\ Finishes(z, n) => AliveContenders(v) = {Winner(z, n)}
        /\ OnTime(z, n) => v.health[Winner(z, n)] = 1
        /\ ~Finishes(z, n) => v = z /\ Cardinality(AliveContenders(z)) >= 2
    BY <2>1, <2>3, WinnerIsLeft
  <2>5. /\ world' = v /\ error' = "none"
        /\ IF Finishes(z, n)
             THEN /\ phase' = "Finished"
                  /\ result' = [winner |-> Winner(z, n),
                                reason |-> IF OnTime(z, n) THEN "TimeLimit" ELSE "LastSurvivor"]
             ELSE /\ phase' = IF n >= SuddenDeathTick THEN "SuddenDeath" ELSE "Running"
                  /\ result' = result
    BY <2>1, <2>2, <2>3 DEF Settle
  <2>6. Sound(world)' /\ AliveContenders(world)' = AliveContenders(v)
    BY <2>4, <2>5 DEF Sound, Worlds, Valid, Bounded, AliveContenders
  <2>7. (world \in Worlds)' /\ Valid(world)'  BY <2>6 DEF Sound
  <2>8. tick' = n /\ n <= HardTimeoutTick /\ HardTimeoutTick \in Nat
    BY <1>1, <1>2, <2>2, RulesAssumption
  <2>9. CASE Finishes(z, n)
    <3>1. /\ phase' = "Finished" /\ AliveContenders(world)' = {result'.winner}
          /\ result'.winner = Winner(z, n)
      BY <2>4, <2>5, <2>6, <2>9
    <3>2. result'.reason = "TimeLimit" =>
            tick' = HardTimeoutTick /\ world'.health[result'.winner] = 1
      <4>1. result'.reason = "TimeLimit" => OnTime(z, n)  BY <2>5, <2>9
      <4>2. OnTime(z, n) => n >= HardTimeoutTick  BY DEF OnTime, TimeIsUp
      <4> QED  BY <2>2, <2>4, <2>5, <2>8, <3>1, <4>1, <4>2
    <3>3. RulesHold'  BY <2>5, <2>7, <3>1, <3>2 DEF RulesHold
    <3> QED  BY <2>6, <2>8, <2>2, <3>1, <3>3 DEF RulesInv
  <2>10. CASE ~Finishes(z, n)
    <3>1. phase' \in {"SuddenDeath", "Running"} /\ phase' # "Finished" /\ result' = Nobody
      BY <1>1, <2>5, <2>10
    <3>2. Cardinality(AliveContenders(world)') >= 2  BY <2>4, <2>6, <2>10
    <3>3. RulesHold'  BY <2>5, <2>7, <3>1, <3>2 DEF RulesHold
    <3>4. ~(n >= HardTimeoutTick)  BY <2>10 DEF Finishes, TimeIsUp
    <3>5. tick' < HardTimeoutTick  BY <2>2, <2>8, <3>4
    <3> QED  BY <2>2, <2>6, <2>8, <3>1, <3>3, <3>5 DEF RulesInv
  <2> QED  BY <2>9, <2>10
<1> QED  BY <1>3, <1>4, TickEffect

LEMMA RulesStep ==
  RulesInv /\ [RulesNext]_simulationVars => RulesInv'
<1> SUFFICES ASSUME RulesInv, [RulesNext]_simulationVars PROVE RulesInv'  OBVIOUS
<1>1. CASE Start  BY <1>1, StartKeepsRules
<1>2. CASE \E gone \in SUBSET AliveContenders(world) : Step(gone)
  BY <1>2, StepKeepsRules
<1>3. CASE UNCHANGED simulationVars
  BY <1>3 DEF simulationVars, RulesInv, RulesHold, Sound, Worlds, Valid, Bounded,
              AliveContenders
<1> QED  BY <1>1, <1>2, <1>3 DEF RulesNext

\* However the contenders of a match leave, heal, kill each other, burn in the zone
\* and run out of time, each tick but one that all leave before ends with somebody
\* alive, and the match with the winner alone (RulesHold).
THEOREM SomebodyIsLeft ==
  RulesSpec => []RulesHold
<1>1. RulesInit => RulesInv  BY RulesInitInv
<1>2. RulesInv /\ [RulesNext]_simulationVars => RulesInv'  BY RulesStep
<1>3. RulesInv => RulesHold  BY DEF RulesInv
<1> QED  BY <1>1, <1>2, <1>3, PTL DEF RulesSpec

-----------------------------------------------------------------------------
(* The tick as the game server's match expects it. *)

\* A match of AuthoritativeMatch as far as the simulation is concerned.
Seen(started, ending, alive, n, late, leaving) ==
  [id |-> 1, slot |-> [p \in Contenders |-> "Pending"], tickets |-> Contenders,
   sessions |-> [p \in Contenders |-> Nobody], connections |-> [c \in 1..0 |-> Nobody],
   pendingDisconnects |-> leaving, started |-> started, ending |-> ending,
   expiresIn |-> 1, unseen |-> 0, late |-> late,
   alive |-> alive, leaving |-> {}, tick |-> n]

LEMMA CreatedIsSeen ==
  ASSUME NEW started, NEW ending, NEW alive, NEW n, NEW late, NEW leaving
  PROVE  [M!Create(1) EXCEPT !.started = started, !.ending = ending, !.alive = alive,
                             !.tick = n, !.late = late, !.pendingDisconnects = leaving]
           = Seen(started, ending, alive, n, late, leaving)
<1>1. PICK m : m = M!Create(1)  OBVIOUS
<1>2. m = Seen(FALSE, "No", Contenders, 0, 0, {})
  BY <1>1 DEF M!Create, M!Connections, Seen
<1>3. PICK s : s = [m EXCEPT !.started = started, !.ending = ending, !.alive = alive,
                             !.tick = n, !.late = late, !.pendingDisconnects = leaving]
  OBVIOUS
<1>4. s = Seen(started, ending, alive, n, late, leaving)  BY <1>2, <1>3 DEF Seen
<1> QED  BY <1>1, <1>3, <1>4

\* What AuthoritativeMatch lets a tick make of such a match at tick n.
AllowedFrom(due, n, survivors) ==
  /\ M!MayReach(due, 1, survivors)
  /\ (Cardinality(survivors) = 1 \/ n + 1 >= HardTimeoutTick) =>
       M!AfterTicks(due, 1, survivors) = Seen(FALSE, "Winner", survivors, n + 1, 0, {})
  /\ ~(Cardinality(survivors) = 1 \/ n + 1 >= HardTimeoutTick) =>
       M!AfterTicks(due, 1, survivors) = Seen(TRUE, "No", survivors, n + 1, 0, {})

LEMMA TickOfSeen ==
  ASSUME NEW alive, NEW gone, NEW n \in Nat, NEW survivors, survivors # {},
         survivors \subseteq alive \ gone,
         NEW due, due = Seen(TRUE, "No", alive, n, 1, gone)
  PROVE  AllowedFrom(due, n, survivors)
<1>1. /\ due.alive = alive /\ due.leaving = {} /\ due.pendingDisconnects = gone
      /\ due.late = 1 /\ due.tick = n
  BY DEF Seen
<1>2. M!Staying(due) = alive \ gone  BY <1>1 DEF M!Staying
<1>3. M!TicksDue(due) = 1  BY <1>1 DEF M!TicksDue
<1>4. M!MayReach(due, 1, survivors)
  <2>1. PICK ticks : ticks = M!TicksDue(due)  OBVIOUS
  <2>2. ticks = 1  BY <1>3, <2>1
  <2>3. ~(1 > 1) /\ ~(1 < ticks)  BY <2>2
  <2> QED  BY <1>2, <2>1, <2>3 DEF M!MayReach
<1>5. M!Decided(due, 1, survivors)
        <=> Cardinality(survivors) = 1 \/ n + 1 >= HardTimeoutTick
  <2>1. M!Cardinality(survivors) = Cardinality(survivors)
    BY DEF M!Cardinality, Cardinality
  <2> QED  BY <1>1, <2>1 DEF M!Decided
<1>6. PICK ran : ran = [due EXCEPT !.alive = survivors, !.tick = due.tick + 1, !.late = 0,
                                   !.leaving = {}, !.pendingDisconnects = {}]
  OBVIOUS
<1>7. ran = Seen(TRUE, "No", survivors, n + 1, 0, {})  BY <1>1, <1>6 DEF Seen
<1>8. M!AfterTicks(due, 1, survivors)
        = IF M!Decided(due, 1, survivors) THEN M!Finish(ran, "Winner") ELSE ran
  BY <1>6 DEF M!AfterTicks
<1>9. M!Finish(ran, "Winner") = Seen(FALSE, "Winner", survivors, n + 1, 0, {})
  <2>1. PICK fin : fin = [ran EXCEPT !.ending = "Winner", !.started = FALSE]  OBVIOUS
  <2>2. fin = Seen(FALSE, "Winner", survivors, n + 1, 0, {})  BY <1>7, <2>1 DEF Seen
  <2> QED  BY <2>1, <2>2 DEF M!Finish
<1> QED  BY <1>4, <1>5, <1>7, <1>8, <1>9 DEF AllowedFrom

LEMMA LeaversAreReported ==
  ASSUME NEW gone \in SUBSET Contenders, NEW more, NobodyLeaves(more),
         NEW dead, events' = Leavers(gone) \cup more \cup {Event("ActorDied", a, Nobody, 0) : a \in dead}
  PROVE  {c \in Contenders : Reported("ActorDisconnected", c)' # {}} = gone
<1>1. ASSUME NEW c \in gone PROVE Reported("ActorDisconnected", c)' # {}
  <2>1. Event("ActorDisconnected", c, Nobody, 0) \in events'  BY DEF Leavers
  <2>2. /\ Event("ActorDisconnected", c, Nobody, 0).type = "ActorDisconnected"
        /\ Event("ActorDisconnected", c, Nobody, 0).actor = c
    BY DEF Event
  <2> QED  BY <2>1, <2>2 DEF Reported
<1>2. ASSUME NEW c \in Contenders, Reported("ActorDisconnected", c)' # {}
      PROVE  c \in gone
  <2>1. PICK e \in events' : e.type = "ActorDisconnected" /\ e.actor = c
    BY <1>2 DEF Reported
  <2>2. e \notin more  BY <2>1 DEF NobodyLeaves
  <2>3. e \notin {Event("ActorDied", a, Nobody, 0) : a \in dead}  BY <2>1 DEF Event
  <2>4. PICK a \in gone : e = Event("ActorDisconnected", a, Nobody, 0)
    BY <2>2, <2>3 DEF Leavers
  <2> QED  BY <2>1, <2>4 DEF Event
<1> QED  BY <1>1, <1>2

LEMMA StepIsExpected ==
  ASSUME RulesInv, NEW gone \in SUBSET AliveContenders(world), Step(gone), error' = "none"
  PROVE  LET leaving == {c \in Contenders : Reported("ActorDisconnected", c)' # {}}
             due == Playing(1, leaving)
             survivors == AliveContenders(world')
         IN  /\ M!MayReach(due, 1, survivors)
             /\ Playing(0, {})' = M!AfterTicks(due, 1, survivors)
<1>1. /\ phase \in {"Running", "SuddenDeath"} /\ phase # "Finished" /\ tick \in Nat
  BY DEF Step, RulesInv
<1>2. tick' = tick + 1  BY TickEffect
<1>3. PICK z, more :
        /\ Sound(z) /\ AliveContenders(z) # {}
        /\ AliveContenders(z) \subseteq AliveContenders(world) \ gone
        /\ NobodyLeaves(more)
        /\ Settle(z, tick + 1, Leavers(gone) \cup more)
  <2>1. ~Throw("disconnect")  BY DEF Throw
  <2> QED  BY <2>1, TickEffect
<1>4. PICK n \in Nat : n = tick + 1  BY <1>1
<1>5. PICK v : v = Concluded(z, n)  OBVIOUS
<1>6. /\ v.alive \subseteq z.alive
      /\ Finishes(z, n) => AliveContenders(v) = {Winner(z, n)}
      /\ ~Finishes(z, n) => v = z /\ Cardinality(AliveContenders(z)) >= 2
  BY <1>3, <1>5, WinnerIsLeft
<1>7. world' = v /\ (phase' = "Finished" <=> Finishes(z, n))
  BY <1>3, <1>4, <1>5 DEF Settle
<1>8. PICK survivors : survivors = AliveContenders(v)  OBVIOUS
<1>9. survivors \subseteq AliveContenders(world) \ gone
  BY <1>3, <1>6, <1>8 DEF AliveContenders
<1>10. survivors # {}  BY <1>3, <1>6, <1>8
<1>11. Finishes(z, n) <=> Cardinality(survivors) = 1 \/ tick + 1 >= HardTimeoutTick
  <2>1. CASE Finishes(z, n)
    <3>1. Cardinality({Winner(z, n)}) = 1  BY FS_Singleton
    <3> QED  BY <1>6, <1>8, <2>1, <3>1
  <2>2. CASE ~Finishes(z, n)
    <3>1. survivors = AliveContenders(z) /\ Cardinality(survivors) >= 2
      BY <1>6, <1>8, <2>2
    <3>2. Cardinality(survivors) # 1 /\ ~(n >= HardTimeoutTick)
      BY <2>2, <3>1 DEF Finishes, TimeIsUp
    <3> QED  BY <1>4, <2>2, <3>2
  <2> QED  BY <2>1, <2>2
<1>12. {c \in Contenders : Reported("ActorDisconnected", c)' # {}} = gone
  <2>1. gone \in SUBSET Contenders  BY DEF AliveContenders
  <2>2. PICK dead : dead = z.alive \ v.alive  OBVIOUS
  <2>3. events' = Leavers(gone) \cup more \cup {Event("ActorDied", a, Nobody, 0) : a \in dead}
    BY <1>3, <1>7, <2>2 DEF Settle
  <2> QED  BY <1>3, <2>1, <2>3, LeaversAreReported
<1>13. PICK due : due = Playing(1, gone)  OBVIOUS
<1>14. due = Seen(TRUE, "No", AliveContenders(world), tick, 1, gone)
  BY <1>1, <1>13, CreatedIsSeen DEF Playing
<1>15. AliveContenders(world') = survivors  BY <1>7, <1>8
<1>16. Playing(0, {})'
         = Seen(phase' # "Finished", IF phase' = "Finished" THEN "Winner" ELSE "No",
                survivors, tick + 1, 0, {})
  BY <1>2, <1>15, CreatedIsSeen DEF Playing
<1>17. PICK alive : alive = AliveContenders(world)  OBVIOUS
<1>18. AllowedFrom(due, tick, survivors)
  <2>1. due = Seen(TRUE, "No", alive, tick, 1, gone)  BY <1>14, <1>17
  <2>2. survivors \subseteq alive \ gone  BY <1>9, <1>17
  <2> QED  BY <1>1, <1>10, <2>1, <2>2, TickOfSeen
<1>19. ASSUME Finishes(z, n) PROVE Playing(0, {})' = M!AfterTicks(due, 1, survivors)
  <2>1. M!AfterTicks(due, 1, survivors) = Seen(FALSE, "Winner", survivors, tick + 1, 0, {})
    BY <1>4, <1>11, <1>18, <1>19 DEF AllowedFrom
  <2>2. /\ (phase' # "Finished") = FALSE
        /\ (IF phase' = "Finished" THEN "Winner" ELSE "No") = "Winner"
    BY <1>7, <1>19
  <2> QED  BY <1>16, <2>1, <2>2
<1>20. ASSUME ~Finishes(z, n) PROVE Playing(0, {})' = M!AfterTicks(due, 1, survivors)
  <2>1. M!AfterTicks(due, 1, survivors) = Seen(TRUE, "No", survivors, tick + 1, 0, {})
    BY <1>4, <1>11, <1>18, <1>20 DEF AllowedFrom
  <2>2. /\ (phase' # "Finished") = TRUE
        /\ (IF phase' = "Finished" THEN "Winner" ELSE "No") = "No"
    BY <1>7, <1>20
  <2> QED  BY <1>16, <2>1, <2>2
<1> QED  BY <1>12, <1>13, <1>15, <1>18, <1>19, <1>20 DEF AllowedFrom

\* Every tick of the simulation is one that the model of the game server's match
\* allows (TicksAreExpected): what is proved of GameSessions is not about a
\* simulation that could do something else.
THEOREM ServerExpectsEveryTick ==
  RulesSpec => TicksAreExpected
<1>1. RulesInit => RulesInv  BY RulesInitInv
<1>2. RulesInv /\ [RulesNext]_simulationVars => RulesInv'  BY RulesStep
<1>3. RulesInv /\ [RulesNext]_simulationVars =>
        [TickRan =>
           LET leaving == {c \in Contenders : Reported("ActorDisconnected", c)' # {}}
               due == Playing(1, leaving)
               survivors == AliveContenders(world')
           IN  /\ M!MayReach(due, 1, survivors)
               /\ Playing(0, {})' = M!AfterTicks(due, 1, survivors)]_simulationVars
  <2> SUFFICES ASSUME RulesInv, [RulesNext]_simulationVars, TickRan
               PROVE  LET leaving == {c \in Contenders : Reported("ActorDisconnected", c)' # {}}
                          due == Playing(1, leaving)
                          survivors == AliveContenders(world')
                      IN  /\ M!MayReach(due, 1, survivors)
                          /\ Playing(0, {})' = M!AfterTicks(due, 1, survivors)
    OBVIOUS
  <2>1. tick' # tick /\ error' = "none"  BY DEF TickRan
  <2>2. PICK gone \in SUBSET AliveContenders(world) : Step(gone)
    BY <2>1 DEF RulesNext, Start, simulationVars
  <2> QED  BY <2>1, <2>2, StepIsExpected
<1> QED  BY <1>1, <1>2, <1>3, PTL DEF RulesSpec, TicksAreExpected

-----------------------------------------------------------------------------
(* The events of a tick as its account. *)

\* What a tick reports of an actor is one or two events.
LEMMA SumOfTwo ==
  ASSUME NEW c, NEW d, NEW S \in SUBSET {c, d},
         c \in S => c.amount \in Nat, d \in S => d.amount \in Nat
  PROVE  Sum(S) = (IF c \in S THEN c.amount ELSE 0)
                    + (IF d \in S /\ d # c THEN d.amount ELSE 0)
<1> DEFINE D == SUBSET S
           One(s) == CHOOSE x \in s : TRUE
           h == [s \in D |-> (IF c \in s THEN c.amount ELSE 0)
                               + (IF d \in s /\ d # c THEN d.amount ELSE 0)]
           Solves(f) == f = [s \in D |-> IF s = {} THEN 0
                                         ELSE One(s).amount + f[s \ {One(s)}]]
<1>1. \A s : s # {} => One(s) \in s  OBVIOUS
<1>2. h[{}] = 0  OBVIOUS
<1>3. ASSUME NEW s \in D, s # {} PROVE h[s] = One(s).amount + h[s \ {One(s)}]
  <2>0. PICK x : x = One(s)  OBVIOUS
  <2>1. x \in s /\ s \ {x} \in D  BY <1>1, <1>3, <2>0
  <2>2. x = c \/ x = d  BY <2>1
  <2>3. /\ h[s] = (IF c \in s THEN c.amount ELSE 0)
                    + (IF d \in s /\ d # c THEN d.amount ELSE 0)
        /\ h[s \ {x}] = (IF c \in s \ {x} THEN c.amount ELSE 0)
                          + (IF d \in s \ {x} /\ d # c THEN d.amount ELSE 0)
    BY <2>1
  <2> HIDE DEF h, One
  <2>4. CASE x = c
    <3>1. h[s] = c.amount + (IF d \in s /\ d # c THEN d.amount ELSE 0)  BY <2>1, <2>3, <2>4
    <3>2. h[s \ {x}] = 0 + (IF d \in s /\ d # c THEN d.amount ELSE 0)  BY <2>1, <2>3, <2>4
    <3>3. c.amount \in Nat /\ (d \in s => d.amount \in Nat)  BY <2>1, <2>4
    <3> QED  BY <2>0, <2>4, <3>1, <3>2, <3>3
  <2>5. CASE x = d /\ d # c
    <3>1. h[s] = (IF c \in s THEN c.amount ELSE 0) + d.amount  BY <2>1, <2>3, <2>5
    <3>2. h[s \ {x}] = (IF c \in s THEN c.amount ELSE 0) + 0  BY <2>1, <2>3, <2>5
    <3>3. d.amount \in Nat /\ (c \in s => c.amount \in Nat)  BY <2>1, <2>5
    <3> QED  BY <2>0, <2>5, <3>1, <3>2, <3>3
  <2> QED  BY <2>2, <2>4, <2>5
<1>4. Solves(h)
  <2>1. \A s \in D : h[s] = IF s = {} THEN 0 ELSE One(s).amount + h[s \ {One(s)}]
    <3> HIDE DEF One, h
    <3> QED  BY <1>2, <1>3
  <2>2. h = [s \in D |-> h[s]]  OBVIOUS
  <2> HIDE DEF One, h
  <2> QED  BY <2>1, <2>2
<1> DEFINE e == CHOOSE f : Solves(f)
<1>5. Solves(e)
  <2> HIDE DEF h, One, Solves
  <2> QED  BY <1>4
<1>6. Sum(S) = e[S]
  BY DEF Sum, MapThenSumSet, MapThenFoldSet
<1>7. e[{}] = 0 /\ \A s \in D : s # {} => e[s] = One(s).amount + e[s \ {One(s)}]
  <2> HIDE DEF e, One
  <2> QED  BY <1>5
<1>8. \A s \in D : h[s] = e[s]
  <2> HIDE DEF e, h, One
  <2>1. ASSUME NEW x \in S PROVE h[{x}] = e[{x}]
    <3>1. {x} \in D /\ One({x}) = x  BY <1>1
    <3>2. {x} \ {x} = {} /\ {x} # {}  OBVIOUS
    <3> QED  BY <1>2, <1>3, <1>7, <3>1, <3>2
  <2>2. ASSUME NEW s \in D PROVE h[s] = e[s]
    <3>1. CASE s = {}  BY <1>2, <1>7, <3>1
    <3>2. CASE s # {}
      <4>1. PICK x : x = One(s)  OBVIOUS
      <4>2. x \in s  BY <1>1, <3>2, <4>1
      <4>3. s \ {x} = {} \/ \E y \in S : s \ {x} = {y}  BY <4>2
      <4>4. h[s \ {x}] = e[s \ {x}]  BY <1>2, <1>7, <2>1, <4>3
      <4> QED  BY <1>3, <1>7, <3>2, <4>1, <4>4
    <3> QED  BY <3>1, <3>2
  <2> QED  BY <2>2
<1>9. S \in D /\ h[S] = (IF c \in S THEN c.amount ELSE 0)
                          + (IF d \in S /\ d # c THEN d.amount ELSE 0)
  OBVIOUS
<1> HIDE DEF e, h
<1> QED  BY <1>6, <1>8, <1>9

\* The events of one type of an actor.
Of(E, type, a) == {e \in E : e.type = type /\ e.actor = a}
Deaths(z, v) == {Event("ActorDied", a, Nobody, 0) : a \in z.alive \ v.alive}

LEMMA ActorsAreNumbers == \A a \in Actors : a \in Nat /\ a # Nobody
BY RulesAssumption DEF Actors

LEMMA DamageOfActor ==
  ASSUME NEW w, NEW r, NEW u, NEW z, CombatAccounts(w, u, r), ZoneAccounts(u, z),
         NEW E, \A e \in E : e.type # "DamageApplied", NEW a \in Actors
  PROVE  w.health[a] = z.health[a]
           + Sum(Of(E \cup CombatEvents(r) \cup ZoneEvents(u, z), "DamageApplied", a))
<1> DEFINE S == Of(E \cup CombatEvents(r) \cup ZoneEvents(u, z), "DamageApplied", a)
           c == Event("DamageApplied", a, r.source[a], r.damage[a])
           d == Event("DamageApplied", a, Nobody, u.health[a] - z.health[a])
           hit == a \in DOMAIN r.damage
           burnt == z.health[a] < u.health[a]
<1>1. /\ u.health[a] \in Nat /\ z.health[a] \in Nat /\ z.health[a] <= u.health[a]
      /\ w.health[a] = u.health[a] + (IF hit THEN r.damage[a] ELSE 0)
  BY RulesAssumption DEF CombatAccounts, ZoneAccounts, Sound, Worlds
<1>2. hit => r.damage[a] \in Nat /\ r.source[a] # Nobody
  BY ActorsAreNumbers DEF CombatAccounts
<1>3. c.amount = r.damage[a] /\ d.amount = u.health[a] - z.health[a]
  BY DEF Event
<1>4. hit => c # d  BY <1>2 DEF Event
<1>5. /\ hit => c \in S
      /\ burnt => d \in S
  <2>1. hit => c \in CombatEvents(r)  BY DEF CombatEvents
  <2>2. burnt => d \in ZoneEvents(u, z)  BY DEF ZoneEvents
  <2>3. c.type = "DamageApplied" /\ c.actor = a /\ d.type = "DamageApplied" /\ d.actor = a
    BY DEF Event
  <2> HIDE DEF c, d, hit, burnt
  <2> QED  BY <2>1, <2>2, <2>3 DEF Of
<1>6. ASSUME NEW e \in S PROVE (hit /\ e = c) \/ (burnt /\ e = d)
  <2>1. e.type = "DamageApplied" /\ e.actor = a  BY DEF Of
  <2>2. e \in CombatEvents(r) \/ e \in ZoneEvents(u, z)  BY <2>1 DEF Of
  <2>3. CASE e \in CombatEvents(r)
    <3>1. PICK t : \/ t \in DOMAIN r.damage
                      /\ e = Event("DamageApplied", t, r.source[t], r.damage[t])
                   \/ e = Event("ActorDied", t, r.source[t], 0)
      BY <2>3 DEF CombatEvents
    <3> QED  BY <2>1, <3>1 DEF Event
  <2>4. CASE e \in ZoneEvents(u, z)
    <3>1. PICK t : \/ t \in Actors /\ z.health[t] < u.health[t]
                      /\ e = Event("DamageApplied", t, Nobody, u.health[t] - z.health[t])
                   \/ e = Event("ActorDied", t, Nobody, 0)
      BY <2>4 DEF ZoneEvents
    <3> QED  BY <2>1, <3>1 DEF Event
  <2> QED  BY <2>2, <2>3, <2>4
<1> HIDE DEF S, c, d
<1>7. burnt => d.amount \in Nat  BY <1>1, <1>3
<1>8. CASE hit
  <2>1. S \in SUBSET {c, d} /\ c \in S /\ (d \in S <=> burnt)
    BY <1>4, <1>5, <1>6, <1>8
  <2>2. c.amount \in Nat /\ (d \in S => d.amount \in Nat)  BY <1>2, <1>3, <1>7, <1>8, <2>1
  <2>3. Sum(S) = (IF c \in S THEN c.amount ELSE 0)
                   + (IF d \in S /\ d # c THEN d.amount ELSE 0)
    BY <2>1, <2>2, SumOfTwo
  <2>4. Sum(S) = r.damage[a] + (IF burnt THEN u.health[a] - z.health[a] ELSE 0)
    BY <1>3, <1>4, <1>8, <2>1, <2>3
  <2> QED  BY <1>1, <1>2, <1>8, <2>4 DEF S
<1>9. CASE ~hit
  <2>1. S \in SUBSET {d, d} /\ (d \in S <=> burnt)  BY <1>5, <1>6, <1>9
  <2>2. Sum(S) = (IF d \in S THEN d.amount ELSE 0)
                   + (IF d \in S /\ d # d THEN d.amount ELSE 0)
    BY <1>7, <2>1, SumOfTwo
  <2>3. Sum(S) = (IF burnt THEN u.health[a] - z.health[a] ELSE 0) + 0
    BY <1>3, <2>1, <2>2
  <2> QED  BY <1>1, <1>9, <2>3 DEF S
<1> QED  BY <1>8, <1>9

LEMMA HealingOfActor ==
  ASSUME NEW left, NEW takes, NEW E, \A e \in E : e.type # "ActorHealed", NEW a \in Actors,
         Healing(left, takes, a) \in Nat
  PROVE  Sum(Of(E \cup PickUpEvents(left, takes), "ActorHealed", a)) = Healing(left, takes, a)
<1> DEFINE S == Of(E \cup PickUpEvents(left, takes), "ActorHealed", a)
           c == Event("ActorHealed", a, Nobody, Healing(left, takes, a))
           healed == a \in DOMAIN takes /\ Healing(left, takes, a) > 0
<1>1. healed <=> Healing(left, takes, a) > 0  BY DEF Healing
<1>2. c.amount = Healing(left, takes, a)  BY DEF Event
<1>3. healed => c \in S
  <2>1. healed => c \in PickUpEvents(left, takes)  BY DEF PickUpEvents
  <2>2. c.type = "ActorHealed" /\ c.actor = a  BY DEF Event
  <2> HIDE DEF c, healed
  <2> QED  BY <2>1, <2>2 DEF Of
<1>4. ASSUME NEW e \in S PROVE healed /\ e = c
  <2>1. e.type = "ActorHealed" /\ e.actor = a /\ e \in PickUpEvents(left, takes)  BY DEF Of
  <2>2. PICK t \in DOMAIN takes : /\ Healing(left, takes, t) > 0
                                  /\ e = Event("ActorHealed", t, Nobody, Healing(left, takes, t))
    BY <2>1 DEF PickUpEvents
  <2>3. t = a  BY <2>1, <2>2 DEF Event
  <2> QED  BY <2>2, <2>3
<1> HIDE DEF S, c
<1>5. S \in SUBSET {c, c} /\ (c \in S <=> healed)  BY <1>3, <1>4
<1>6. Sum(S) = (IF c \in S THEN c.amount ELSE 0) + (IF c \in S /\ c # c THEN c.amount ELSE 0)
  BY <1>2, <1>5, SumOfTwo
<1>7. Sum(S) = (IF healed THEN Healing(left, takes, a) ELSE 0) + 0  BY <1>2, <1>5, <1>6
<1> HIDE DEF healed
<1> QED  BY <1>1, <1>7 DEF S

LEMMA KillsAreReported ==
  ASSUME NEW w, Sound(w), NEW u, NEW r, CombatAccounts(w, u, r), NEW a \in Actors,
         NEW E, \A e \in E : ~(e.type = "ActorDied" /\ e.subject = a)
  PROVE  Cardinality({e \in E \cup CombatEvents(r) : e.type = "ActorDied" /\ e.subject = a})
           = KillsOf(r, a)
<1> DEFINE kills == {v \in r.deaths : r.source[v] = a}
           K == {e \in E \cup CombatEvents(r) : e.type = "ActorDied" /\ e.subject = a}
           f == [v \in kills |-> Event("ActorDied", v, a, 0)]
<1>1. \A v, x : Event("ActorDied", v, a, 0) = Event("ActorDied", x, a, 0) => v = x
  BY DEF Event
<1>2. ASSUME NEW v \in kills PROVE Event("ActorDied", v, a, 0) \in K
  <2>1. Event("ActorDied", v, a, 0) \in CombatEvents(r)  BY DEF CombatEvents
  <2>2. /\ Event("ActorDied", v, a, 0).type = "ActorDied"
        /\ Event("ActorDied", v, a, 0).subject = a
    BY DEF Event
  <2> QED  BY <2>1, <2>2
<1>3. ASSUME NEW e \in K PROVE \E v \in kills : e = Event("ActorDied", v, a, 0)
  <2>1. e.type = "ActorDied" /\ e.subject = a /\ e \in CombatEvents(r)  OBVIOUS
  <2>2. PICK v : \/ e = Event("DamageApplied", v, r.source[v], r.damage[v])
                 \/ v \in r.deaths /\ e = Event("ActorDied", v, r.source[v], 0)
    BY <2>1 DEF CombatEvents
  <2>3. v \in r.deaths /\ e = Event("ActorDied", v, r.source[v], 0) /\ r.source[v] = a
    BY <2>1, <2>2 DEF Event
  <2> QED  BY <2>3
<1>4. f \in [kills -> K]
  <2> HIDE DEF K, kills
  <2> QED  BY <1>2
<1>5. \A x, y \in kills : f[x] = f[y] => x = y  BY <1>1
<1>6. \A e \in K : \E v \in kills : f[v] = e  BY <1>3
<1>7. IsFiniteSet(kills)
  <2>1. IsFiniteSet(Actors)  BY RulesAssumption, FS_Union DEF Actors
  <2>2. kills \subseteq Actors  BY DEF CombatAccounts, Sound, Worlds
  <2> HIDE DEF kills
  <2> QED  BY <2>1, <2>2, FS_Subset
<1>8. KillsOf(r, a) = Cardinality(kills)  BY DEF KillsOf
<1> HIDE DEF kills, K, f
<1>9. f \in Bijection(kills, K)
  BY <1>4, <1>5, <1>6 DEF Bijection, Injection, Surjection, IsInjective
<1>10. ExistsBijection(kills, K)  BY <1>9 DEF ExistsBijection
<1>11. Cardinality(K) = Cardinality(kills)  BY <1>7, <1>10, FS_Bijection
<1> QED  BY <1>8, <1>11 DEF K

\* The account of a whole tick, the verdict of time included.
Ledger(gone, left, takes, ready, r, u, z, v) ==
  /\ gone \subseteq world.alive
  /\ ReadyAccounts(gone, left, takes, ready)
  /\ CombatAccounts(ready, u, r) /\ ZoneAccounts(u, z)
  /\ v.alive \subseteq z.alive /\ v.eliminations = z.eliminations
  /\ ~TimeDecided' => v = z
  /\ world' = v
  /\ events' = Leavers(gone) \cup PickUpEvents(left, takes) \cup CombatEvents(r)
                 \cup ZoneEvents(u, z) \cup Deaths(z, v)

LEMMA TickIsAccounted ==
  ASSUME RulesInv, NEW gone \in SUBSET AliveContenders(world), Step(gone), error' = "none"
  PROVE  \E left, takes, ready, r, u, z, v : Ledger(gone, left, takes, ready, r, u, z, v)
<1>1. PICK n : n = tick + 1 /\ n \in Nat  BY DEF RulesInv
<1>2. PICK left, takes, ready, r, u, z : TickAccounts(gone, left, takes, ready, r, u, z)
  BY TickSettles DEF Throw
<1>3. PICK reported : reported = Leavers(gone) \cup PickUpEvents(left, takes)
                                   \cup CombatEvents(r) \cup ZoneEvents(u, z)
  OBVIOUS
<1>4. /\ ReadyAccounts(gone, left, takes, ready)
      /\ CombatAccounts(ready, u, r) /\ ZoneAccounts(u, z)
      /\ Settle(z, n, reported)
  BY <1>1, <1>2, <1>3 DEF TickAccounts
<1>5. PICK v : v = Concluded(z, n)  OBVIOUS
<1>6. world' = v /\ events' = reported \cup Deaths(z, v)
  BY <1>4, <1>5 DEF Settle, Deaths
<1>7. Sound(z) /\ AliveContenders(z) # {}  BY <1>4 DEF ZoneAccounts
<1>8. v.alive \subseteq z.alive  BY <1>1, <1>5, <1>7, WinnerIsLeft
<1>9. v.eliminations = z.eliminations
  BY <1>5, <1>7 DEF Concluded, WithHealth, Sound, Worlds
<1>10. ASSUME ~TimeDecided' PROVE v = z
  <2>1. CASE OnTime(z, n)
    <3>1. Finishes(z, n)  BY <2>1 DEF OnTime, Finishes
    <3>2. phase' = "Finished" /\ result' = [winner |-> Winner(z, n), reason |-> "TimeLimit"]
      BY <1>4, <2>1, <3>1 DEF Settle
    <3> QED  BY <1>10, <3>2 DEF TimeDecided
  <2>2. CASE ~OnTime(z, n)  BY <1>5, <2>2 DEF Concluded
  <2> QED  BY <2>1, <2>2
<1>11. gone \subseteq world.alive  BY DEF AliveContenders
<1> QED  BY <1>3, <1>4, <1>6, <1>8, <1>9, <1>10, <1>11 DEF Ledger

\* Health: what is left of it is what there was, healed and hurt as reported.
LEMMA HealthIsAccounted ==
  ASSUME RulesInv, NEW gone, NEW left, NEW takes, NEW ready, NEW r, NEW u, NEW z, NEW v,
         Ledger(gone, left, takes, ready, r, u, z, v), NEW a \in Actors,
         Reported("ActorDisconnected", a)' = {}, ~TimeDecided'
  PROVE  world'.health[a] + Sum(Reported("DamageApplied", a))'
           = world.health[a] + Sum(Reported("ActorHealed", a))'
<1> DEFINE others == Leavers(gone) \cup PickUpEvents(left, takes)
           unhealing == Leavers(gone) \cup CombatEvents(r) \cup ZoneEvents(u, z)
<1>1. v = z /\ world' = z  BY DEF Ledger
<1>2. events' = Leavers(gone) \cup PickUpEvents(left, takes) \cup CombatEvents(r)
                  \cup ZoneEvents(u, z)
  BY <1>1 DEF Ledger, Deaths
<1>3. events' = others \cup CombatEvents(r) \cup ZoneEvents(u, z)  BY <1>2
<1>4. events' = unhealing \cup PickUpEvents(left, takes)  BY <1>2
<1>5. \A e \in others : e.type # "DamageApplied"  BY DEF Leavers, PickUpEvents, Event
<1>6. \A e \in unhealing : e.type # "ActorHealed"
  BY DEF Leavers, CombatEvents, ZoneEvents, Event
<1>7. a \notin gone
  <2>1. a \in gone => Event("ActorDisconnected", a, Nobody, 0) \in events'
    BY <1>2 DEF Leavers
  <2>2. /\ Event("ActorDisconnected", a, Nobody, 0).type = "ActorDisconnected"
        /\ Event("ActorDisconnected", a, Nobody, 0).actor = a
    BY DEF Event
  <2> QED  BY <2>1, <2>2 DEF Reported
<1> HIDE DEF others, unhealing
<1>8. PICK h : h = Healing(left, takes, a)  OBVIOUS
<1>9. h \in Nat /\ ready.health[a] = world.health[a] + h
  BY <1>7, <1>8 DEF Ledger, ReadyAccounts
<1>10. CombatAccounts(ready, u, r) /\ ZoneAccounts(u, z)  BY DEF Ledger
<1>11. Reported("DamageApplied", a)' = Of(events', "DamageApplied", a)
       /\ Reported("ActorHealed", a)' = Of(events', "ActorHealed", a)
  BY DEF Reported, Of
<1>12. ready.health[a] = z.health[a] + Sum(Of(events', "DamageApplied", a))
  <2>1. ready.health[a] = z.health[a]
          + Sum(Of(others \cup CombatEvents(r) \cup ZoneEvents(u, z), "DamageApplied", a))
    BY ONLY <1>5, <1>10, DamageOfActor, a \in Actors
  <2> QED  BY <1>3, <2>1
<1>13. Sum(Of(events', "ActorHealed", a)) = h
  BY <1>4, <1>6, <1>8, <1>9, HealingOfActor
<1>14. /\ Sum(Reported("DamageApplied", a))' = Sum(Of(events', "DamageApplied", a))
       /\ Sum(Reported("ActorHealed", a))' = Sum(Of(events', "ActorHealed", a))
  BY <1>11
<1> QED  BY <1>1, <1>9, <1>12, <1>13, <1>14

\* Eliminations: each is a death that names its killer.
LEMMA KillsAreAccounted ==
  ASSUME NEW gone, NEW left, NEW takes, NEW ready, NEW r, NEW u, NEW z, NEW v,
         Ledger(gone, left, takes, ready, r, u, z, v), NEW a \in Actors
  PROVE  world'.eliminations[a] = world.eliminations[a]
           + Cardinality({e \in events' : e.type = "ActorDied" /\ e.subject = a})
<1> DEFINE others == Leavers(gone) \cup PickUpEvents(left, takes) \cup ZoneEvents(u, z)
                       \cup Deaths(z, v)
<1>1. events' = others \cup CombatEvents(r)  BY DEF Ledger
<1>2. \A e \in others : e.subject = Nobody
  BY DEF Leavers, PickUpEvents, ZoneEvents, Deaths, Event
<1> HIDE DEF others
<1>3. \A e \in others : ~(e.type = "ActorDied" /\ e.subject = a)
  BY <1>2, ActorsAreNumbers
<1>4. CombatAccounts(ready, u, r) /\ Sound(ready)  BY DEF Ledger, ReadyAccounts
<1>5. Cardinality({e \in events' : e.type = "ActorDied" /\ e.subject = a}) = KillsOf(r, a)
  BY <1>1, <1>3, <1>4, KillsAreReported
<1>6. world'.eliminations[a] = world.eliminations[a] + KillsOf(r, a)
  BY DEF Ledger, ReadyAccounts, CombatAccounts, ZoneAccounts
<1> QED  BY <1>5, <1>6

\* Deaths: who dies leaves, falls in combat, burns or is left behind at the time
\* limit, one of them.
LEMMA DeathsAreAccounted ==
  ASSUME NEW gone, NEW left, NEW takes, NEW ready, NEW r, NEW u, NEW z, NEW v,
         Ledger(gone, left, takes, ready, r, u, z, v), NEW a \in Actors
  PROVE  Cardinality(Reported("ActorDied", a) \cup Reported("ActorDisconnected", a))'
           = IF a \in world.alive \ world'.alive THEN 1 ELSE 0
<1> DEFINE D == (Reported("ActorDied", a) \cup Reported("ActorDisconnected", a))'
           leaves == Event("ActorDisconnected", a, Nobody, 0)
           falls == Event("ActorDied", a, r.source[a], 0)
           burns == Event("ActorDied", a, Nobody, 0)
<1>1. /\ ready.alive = world.alive \ gone /\ gone \subseteq world.alive
      /\ u.alive \subseteq ready.alive /\ z.alive \subseteq u.alive /\ v.alive \subseteq z.alive
      /\ r.deaths = ready.alive \ u.alive /\ world' = v
  BY DEF Ledger, ReadyAccounts, CombatAccounts, ZoneAccounts
<1>2. events' = Leavers(gone) \cup PickUpEvents(left, takes) \cup CombatEvents(r)
                  \cup ZoneEvents(u, z) \cup Deaths(z, v)
  BY DEF Ledger
<1>3. D = {e \in events' : e.type \in {"ActorDied", "ActorDisconnected"} /\ e.actor = a}
  BY DEF Reported
<1> HIDE DEF D
<1>4. ASSUME NEW e \in D
      PROVE  \/ a \in gone /\ e = leaves
             \/ a \in r.deaths /\ e = falls
             \/ a \in u.alive \ v.alive /\ e = burns
  <2>1. e \in events' /\ e.type \in {"ActorDied", "ActorDisconnected"} /\ e.actor = a
    BY <1>3
  <2>2. CASE e \in Leavers(gone)
    BY <2>1, <2>2 DEF Leavers, Event
  <2>3. CASE e \in PickUpEvents(left, takes)
    BY <2>1, <2>3 DEF PickUpEvents, Event
  <2>4. CASE e \in CombatEvents(r)
    BY <2>1, <2>4 DEF CombatEvents, Event
  <2>5. CASE e \in ZoneEvents(u, z)
    BY <1>1, <2>1, <2>5 DEF ZoneEvents, Event
  <2>6. CASE e \in Deaths(z, v)
    BY <1>1, <2>1, <2>6 DEF Deaths, Event
  <2> QED  BY <1>2, <2>1, <2>2, <2>3, <2>4, <2>5, <2>6
<1>5. /\ a \in gone => leaves \in D
      /\ a \in r.deaths => falls \in D
      /\ a \in u.alive \ v.alive => burns \in D
  <2>1. /\ leaves.type = "ActorDisconnected" /\ leaves.actor = a
        /\ falls.type = "ActorDied" /\ falls.actor = a
        /\ burns.type = "ActorDied" /\ burns.actor = a
    BY DEF Event
  <2>2. a \in gone => leaves \in events'  BY <1>2 DEF Leavers
  <2>3. a \in r.deaths => falls \in events'  BY <1>2 DEF CombatEvents
  <2>4. a \in u.alive \ z.alive => burns \in events'  BY <1>2 DEF ZoneEvents
  <2>5. a \in z.alive \ v.alive => burns \in events'  BY <1>2 DEF Deaths
  <2> HIDE DEF leaves, falls, burns
  <2> QED  BY <1>3, <2>1, <2>2, <2>3, <2>4, <2>5
<1> HIDE DEF leaves, falls, burns
<1>6. CASE a \in world.alive \ v.alive
  <2>1. \/ a \in gone /\ a \notin r.deaths /\ a \notin u.alive
        \/ a \notin gone /\ a \in r.deaths /\ a \notin u.alive
        \/ a \notin gone /\ a \notin r.deaths /\ a \in u.alive \ v.alive
    BY <1>1, <1>6
  <2>2. D = {leaves} \/ D = {falls} \/ D = {burns}
    <3>1. CASE a \in gone /\ a \notin r.deaths /\ a \notin u.alive
      <4>1. D = {leaves}  BY <1>4, <1>5, <3>1
      <4> QED  BY <4>1
    <3>2. CASE a \notin gone /\ a \in r.deaths /\ a \notin u.alive
      <4>1. D = {falls}  BY <1>4, <1>5, <3>2
      <4> QED  BY <4>1
    <3>3. CASE a \notin gone /\ a \notin r.deaths /\ a \in u.alive \ v.alive
      <4>1. D = {burns}  BY <1>4, <1>5, <3>3
      <4> QED  BY <4>1
    <3> QED  BY <2>1, <3>1, <3>2, <3>3
  <2>3. Cardinality(D) = 1  BY <2>2, FS_Singleton
  <2> QED  BY <1>1, <1>6, <2>3 DEF D
<1>7. CASE a \notin world.alive \ v.alive
  <2>1. D = {}  BY <1>1, <1>4, <1>7
  <2>2. Cardinality(D) = 0  BY <2>1, FS_EmptySet
  <2> QED  BY <1>1, <1>7, <2>2 DEF D
<1> QED  BY <1>6, <1>7

\* However a tick kills and spares, its events say what it did to each actor
\* (EventsAccount): the events that OfflineMatchStep.cpp collects from combat, zone
\* and time, with the death that PreserveCombatWipe takes back.
THEOREM EventsAlwaysAccount ==
  RulesSpec => EventsAccount
<1>1. RulesInit => RulesInv  BY RulesInitInv
<1>2. RulesInv /\ [RulesNext]_simulationVars => RulesInv'  BY RulesStep
<1>3. RulesInv /\ [RulesNext]_simulationVars =>
        [TickRan => \A a \in Actors :
           /\ Reported("ActorDisconnected", a)' = {} /\ ~TimeDecided' =>
                world'.health[a] + Sum(Reported("DamageApplied", a))'
                  = world.health[a] + Sum(Reported("ActorHealed", a))'
           /\ world'.eliminations[a] = world.eliminations[a]
                + Cardinality({e \in events' : e.type = "ActorDied" /\ e.subject = a})
           /\ Cardinality(Reported("ActorDied", a) \cup Reported("ActorDisconnected", a))'
                = IF a \in world.alive \ world'.alive THEN 1 ELSE 0]_simulationVars
  <2> SUFFICES ASSUME RulesInv, [RulesNext]_simulationVars, TickRan, NEW a \in Actors
               PROVE
           /\ Reported("ActorDisconnected", a)' = {} /\ ~TimeDecided' =>
                world'.health[a] + Sum(Reported("DamageApplied", a))'
                  = world.health[a] + Sum(Reported("ActorHealed", a))'
           /\ world'.eliminations[a] = world.eliminations[a]
                + Cardinality({e \in events' : e.type = "ActorDied" /\ e.subject = a})
           /\ Cardinality(Reported("ActorDied", a) \cup Reported("ActorDisconnected", a))'
                = IF a \in world.alive \ world'.alive THEN 1 ELSE 0
    OBVIOUS
  <2>1. tick' # tick /\ error' = "none"  BY DEF TickRan
  <2>2. PICK gone \in SUBSET AliveContenders(world) : Step(gone)
    BY <2>1 DEF RulesNext, Start, simulationVars
  <2>3. PICK left, takes, ready, r, u, z, v : Ledger(gone, left, takes, ready, r, u, z, v)
    BY <2>1, <2>2, TickIsAccounted
  <2> QED  BY <2>3, HealthIsAccounted, KillsAreAccounted, DeathsAreAccounted
<1> QED  BY <1>1, <1>2, <1>3, PTL DEF RulesSpec, EventsAccount
=============================================================================
