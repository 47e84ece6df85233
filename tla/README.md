# Survival Arena: TLA+ models, model checks and proofs

This directory specifies the networked part of Survival Arena: the lobby
server, the control channel between it and the game servers, the authoritative
match a game server runs for its players and the rules of its simulation, the
replication of that match to one client, the client's two threads, its transports, and the programs that host and
fill a room. The definitions are translated from the C++ under `src/`;
`PROJECT.json` names, for every definition, the lines it stands for.

1. [The system](#the-system)
2. [Modules and their correspondence to the code](#modules-and-their-correspondence-to-the-code)
3. [Runs](#runs)
4. [Bounds, views and symmetry](#bounds-views-and-symmetry)
5. [Fairness](#fairness)
6. [Proofs](#proofs)
7. [What the models found](#what-the-models-found)
8. [What is not modelled](#what-is-not-modelled)
9. [Plan](#plan)

## The system

    clients, bots --TCP--> lobby server <--TCP control channel-- game servers
         |                                                           ^
         +------------------ TCP session + UDP datagrams ------------+

A player says hello to the lobby, creates or joins a room and sets ready. When
the host starts, the lobby issues a ticket for each member and reserves an idle
game server. A game server that is ready makes the match active and the lobby
hands the tickets to the clients, which connect to the game server, present
their tickets, bind a UDP address and from then on send inputs and receive
snapshots. When the match ends the game server says so on the control channel,
is idle again, and the lobby lets the players out of the room.

Each of the two servers runs one `io_context` on one thread, so a handler is
one atomic step; what can interleave are handlers, timers, posted closes, frames
on the way and the other programs. The game client has two threads.

| Component | Source | State | Operations | Talks to | What is hard | What makes it correct |
|---|---|---|---|---|---|---|
| Lobby service | `apps/lobby_server/src/LobbyService.cpp`, `Room.cpp`, `MatchTicketRegistry.cpp` | connections, players, rooms, pending reservations, active matches, tickets | requests of clients, disconnects, worker events, clock | clients by TCP; registry by actions and events of the same call | requests and disconnects in any room state; answers that come too late; several maps that must change together | the maps agree; the roster of a match is frozen; no ticket outlives its match; clients see their room |
| Worker registry and control server | `WorkerRegistry.cpp`, `WorkerControlServer.cpp` | workers, their connection and reservation, TCP sessions, reservation timers | register, reserve, cancel, verdicts, result, loss, timeout | lobby; game servers | cancel crossing ready, posted closes, reconnects, timers re-armed, late answers | the lobby hears each outcome once and in order; every owed answer is timed |
| Game server control plane | `apps/game_server/src/GameServer.cpp` | control link, registration, the one match | connect, register, reserve, cancel, end, loss, reconnect | lobby | the match dies with the link; the process may too | a running match is the one the registry has |
| Game server sessions and match timer | `GameServer.cpp` | TCP sessions, authentication timers, the match timer and its generation | accept, hello, time-outs, closes, datagrams, timer | players; the match | posted closes and stale timer handlers reach a later match | sessions and match agree; a match is never left without a timer; it ends once |
| Authoritative match | `AuthoritativeMatch.cpp`, `ParticipantRoster.cpp`, `GameTicketStore.cpp`, `FixedTickScheduler.cpp` | slots, tickets, player sessions, tick clock, the simulation's living and leaving | authenticate, bind, input, disconnect, advance | game server; simulation; replicator | tickets expire while players authenticate and leave; ticks fall due late | a ticket admits once; nobody living is without a player; the match ends |
| Snapshot replication | `SnapshotReplicator.cpp`, `InterestGrid.cpp`, `apps/game_client/src/ClientSnapshotStream.cpp` | baselines on both sides, acknowledgements, keyframe requests | build, acknowledge, apply, refuse | UDP | deltas against lost, old or dropped baselines | the client's worlds are the ones shown to it |
| Snapshot reassembly, UDP queue | `SnapshotReassembler.cpp`, `UdpDatagramQueue.cpp`, `DatagramShaper.cpp` | one assembly; outbound queue | push a fragment; send | UDP | fragments of several snapshots interleave, get lost, repeat | a snapshot is completed from its own fragments only |
| Client game session | `GameSession.cpp`, `GameNetworkRuntime.cpp` | connection state, bounded queues, atomics shared by two threads | start, stop, bind with retries, inputs, snapshots | game server; prediction | two threads; stop at any time; retries racing answers | the game thread sees snapshots in order; stop wins |
| Client prediction, interpolation | `ClientPredictor.cpp`, `RemoteInterpolator.cpp` | pending inputs; a buffer of positions | predict, reconcile, push, forget | session | acknowledgements of inputs out of order | pending inputs are replayed once |
| Framed TCP transport | `protocol/src/AsioFramedConnection.cpp`, `TcpFrame.cpp`, `LobbyTcpServer.cpp` | write queue, closing flags | send, close, close after flush | both servers, client | the close handler is posted | frames arrive in order or the connection ends |
| Message codecs | `protocol/src/*Codec.cpp`, `Crc32.cpp` | none | encode, decode | all | none | decode inverts encode |
| Bots and lobby clients | `BotCoordinator.cpp`, `LobbyClient.cpp`, `NetworkClientController.cpp`, `LobbyHostFlow.cpp` | the host's flow and session; the bots' tickets, sessions, counters and timers | room flow of bots and hosts, stop | lobby, game server | requests made on an old view of the room; timers cancelled too late; stop while a session is made | the report is about all bots; the run ends; stop leaves nothing |
| Match simulation | `simulation/src/OfflineMatch*.cpp`, `Combat.cpp`, `MatchResolution.cpp`, ... | actors, loot, phase, events | start, step | match | several deaths of a tick, by combat, zone and time, each sparing somebody in its own way | one winner, alone alive; no tick throws; the events account for the tick |
| Navigation, AI | `simulation/src/NavMesh*.cpp`, ... | geometry | queries | simulation | floating point | - |
| Metrics, options, engine, asset tool, single-player game | see `PROJECT.json` | - | - | - | - | - |

`PROJECT.json` lists the same components with their status, and under `hazards`
what is hard to test in this code, at the line where it bites, with the
properties that watch over it.

## Modules and their correspondence to the code

    ControlChannel -- WorkerControl -- AnyWorker            (any game server)
                   \- GameServerControl
    Lobby + WorkerControl + GameServerControl = MatchControl ==implements==> MatchLifecycle
    AuthoritativeMatch -- GameSessions
    OfflineMatch ==each tick one of==> AuthoritativeMatch
    SnapshotReplication
    ClientSession
    TransportParameters -- DatagramQueue
                        \- FramedConnection ==implements==> FrameStream
    BotParameters -- BotCoordinator -- BotClient            (any lobby)
    Lobby + LobbyHost + BotCoordinator = HostedRoom

**Lobby** models `LobbyService` with the rooms and tickets it owns. A map of the
program is a function with `None` (0, never a valid id) for an absent entry, a
request, disconnect or worker event is one action, and a message to a client is
what it leaves there (`seen`). A match and its reservation draw their ids from
two counters that always advance together, so one number names both. A ticket
is `<<match, player>>`; time is reduced to which matches' tickets have expired
(`expired`) or have less than a second left (`closing`). Requests that the code
answers with an error and nothing else leave the state unchanged and need no
action.

**ControlChannel** has the messages both ends share. **WorkerControl** is
`WorkerRegistry` and `WorkerControlServer`: `wstate`, `wconn`, `wmatch` are the
`WorkerRecord`s, `tracked` and `timer` the maps of reservations and timers,
`session` the TCP sessions (a `Closing` one has its `SessionClosed` posted).
The events `Route` passes to the lobby in the same call wait in `inbox`, and no
other step of the lobby happens until it is empty. **AnyWorker** closes this
with game servers that may say anything about any reservation, their own or
another's, which exercises the branches for late answers and protocol violations.
`disowned` is history: the reservations that a server which does not hold them has
called cancelled.

**GameServerControl** is the other end: connect, register, take or give up a
reservation, lose the link, crash. **MatchControl** composes the three over FIFO
connections that fail at either end; the lobby's actions of `Lobby` are conjoined
with what they make the registry do. **MatchLifecycle** is the abstract
specification: a match is asked for once, given up or run on one server, which
runs one match at a time, and ends for good. `MatchControl` implements it under
the mapping `Stage` and `active[m].worker`.

**AuthoritativeMatch** has the match as a value: a record, and the methods as
operators on it. **GameSessions** drives it as `GameServer` does: TCP sessions with
their authentication timers, the match timer, whose queued handlers are the set
`fired` of the generations they were armed for (running `Advance` again without
due ticks changes nothing), datagrams, cancellation and loss of the control
link, and one match after another. A ticket is named by its holder and a UDP
token by the connection it was made for; the reuse of a token is a failure of
`Fill` to the caller. Time is relative and counted in ticks; a match that is
later than one catch-up is late by one more, whatever the clock says, since
`FixedTickScheduler` drops the rest. Which contenders die in a tick is any choice that
leaves somebody alive. Whether a snapshot acknowledgement is refused is decided
in `SnapshotReplication` and nondeterministic here (`BadAcknowledgement`); the
orderly `Stop` of the server is left out: to its peers it is a lost connection.

**OfflineMatch** is the simulation's tick (`OfflineMatch::Step`, with `Combat`, `Loot`,
`SafeZone` and `MatchResolution`) as one action, `Step(gone)`: disconnect who left,
hand out loot, cool down, resolve all attacks at once, save somebody from a combat
that kills everybody, let the zone hurt and spare somebody from it, and look for a
winner. `world` is the combat actors and the loot; an exception that leaves the
tick is `error`. Positions are not in it: who picks up what, which attacks are in
range, who stands within an area weapon's radius of a target and who is outside
the zone may be anything, tick by tick, and so may the commands; neutral actors
attack only with `EnableInternalBots`, which a game server has off. `AuthoritativeMatch`
says what a server may expect of a tick (`MayReach`, `AfterTicks`); `TicksAreExpected`
instantiates it over the simulation's variables and says that no tick does more.
`MCGamePlay` puts the two halves side by side, and a behaviour runs one of them.

**SnapshotReplication** has one recipient of the server's replicator in its
`InterestDelta` mode and its client. A view maps the visible entities to values;
quantization and the interest grid are behind the choice of the view. `shown` is
history: the view each snapshot was built from. Datagrams stay in `sent` and
`inputs` for good: a datagram is received when it is, again when the network
repeats it, or never. A deque of baselines is a function of their ids, which
only grow. Fragments that contradict each other (metadata, checksum) are left
out, as the server does not send them. `remembered` is who has a position in the
interpolator's older snapshots. The step between the network thread and the game
thread is taken at once; the queue between them is `ClientSession`'s.

**ClientSession** is `GameSession` on `GameNetworkRuntime`. A handler of the
network thread that checks the state and then stores it is two steps with
`about` between them, so that the game thread's `Stop` or `FixedUpdate` can come
in between; `posted` is the io_context's queue of posted handlers. The server is
the one of this repository: welcome or error, then result, then the end of the
connection, or its loss at any time; binds, their answers and snapshots may be
lost, repeated and late. A bind or an input may also find the queue of held-back
datagrams full, which fails the session (`SendUdp`). One remote actor stands for
all; a *stay* is one uninterrupted presence of it, which is what the interpolator
must never mix with another. A snapshot may report the actor as reset or not,
whatever became of it: what a delta reports is relative to its base, which
`SnapshotReplication` has in detail. `FixedUpdate` is taken in four steps: drain the queue, apply the batch,
look at the state once more and advance, or fail.

**DatagramQueue** is one peer of `UdpDatagramQueue`; peers share nothing. A
cancelled timer still queues its handler, with an error, and an expired one may
be cancelled too late: `handlers` are the ones ready to run, by the generation
they were armed in. **FramedConnection** is `AsioFramedConnection` on one thread:
the write queue with the write in progress, closing, flushing, the limit on
pending bytes and the posted close handler; a frame is its name and its size.
**FrameStream** is what it promises: the peer reads a prefix of what was
accepted. **ClientTransport** puts it beside other machines. **TransportParameters** and **BotParameters** hold the constants and
assumptions of these modules where a module that composes them can extend them.

**LobbyHost** is `LobbyHostFlow` and the part of `NetworkClientController` its two
threads share; **BotCoordinator** the bots, whose sessions' states change at any
time, also between two reads of one tick (`moving`). A session keeps the result of
its ticket's match only; the coordinator compares the results with each other
(`Disagrees`) and fails when they differ. **BotClient** closes the
coordinator with a lobby that may say anything to any bot and a game server that
sends any result to any of them. **HostedRoom** puts a
host and its bots on lobby connections of their own and runs the handlers of
`Lobby` on the requests they send: requests and messages are queues, so each
client acts on what the lobby was like when it sent. What goes wrong outside the
clients' hands (a connection, the ticket source, the worker, the user's stop, a
time-out) is counted in `trouble`; the lobby may lose the worker also when the players
already have the result and it has not yet read of it. A client that is done reads no more, and nobody
but these clients comes to the lobby. The bots play (`--play`), as
`scripts/run_network_load.ps1` tells them to.

`MC*.tla` instantiate these for TLC. `MCMatchControl` also has two starts:
`HostedSpec` begins with the first player alone in a room and `SeatedFairSpec`
with both players seated and ready, both states the program reaches; the ways
there are explored in the run of the lobby.

## Runs

| Run | Module, cfg | Question |
|---|---|---|
| `lobby` | `MCLobby.cfg` | Do the lobby's maps stay consistent, and its clients' view of their room true, over all interleavings of requests, disconnects, worker events and ticket expiry? |
| `any_worker` | `MCAnyWorker.cfg` | Whatever a game server answers, does the lobby hear one outcome of each reservation, in order, and are all owed answers timed? |
| `match_control` | `MCMatchControl.cfg` | Do lobby, registry and a real game server agree on the matches across crossed cancellations, failures, crashes and reconnects, and implement `MatchLifecycle`? |
| `match_control_live` | `MCMatchControlLive.cfg` | Is every start answered, every cancellation ended, every lost match reported? |
| `game_sessions` | `MCGameSessions.cfg` | While one match follows another, do the match's own accounts and the TCP sessions agree; is every ticket good for one welcome, every match for one end; is nobody living left without a player? |
| `game_play` | `MCGamePlay.cfg` | The server: does every match end, whatever its clients do; does it start owing no ticks; is no command taken back by a late, repeated or foreign datagram? The rules: whatever dies together, is somebody left, do the events account for it, and is every tick one the server expects? |
| `game_assertion` | `MCGameSessionsAssertion.cfg` | Violation: the simulation's "offline match cannot disconnect every living contender". |
| `replication` | `MCSnapshotReplication.cfg` | Are the client's worlds the ones shown to it, and do both sides' accounts of acknowledgements and baselines stay compatible? |
| `replication_reentry` | `MCSnapshotReentry.cfg` | Violation: an actor that re-enters the client's world has been reported, so that its interpolation is reset. |
| `client_session` | `MCClientSession.cfg` | Over all interleavings of the two threads and the network: is nobody on screen interpolated across an absence, whatever the queue drops, and does a session that has ended never run again? |
| `client_parts` | `MCClientParts.cfg` | The client's four machines one at a time, with their fairness: does `Stop` return, is a lost bind made up for; are datagrams passed on in time and order; is the connection a stream whose flush ends; is the bots' report about all of them, and does it come? |
| `hosted_room` | `MCHostedRoom.cfg` | Host, bots and lobby together: does anybody fail without something having gone wrong, and does stopping the host find the game session in whatever hands it is? |

Each property of a passing run has a mutant in `PROJECT.json`: a definition
changed as a slip in that code would change it, under which TLC finds the
property violated. The mutated forms stand next to the definitions they change
and are used nowhere else.

Several properties are conjunctions of named parts, stated and commented one by
one where they are defined, that fail together or not at all in a reader's mind:
`LobbyAgrees` (`MembershipAgrees`, `ConnectionsAgree`, `StartingIffPending`,
`InMatchIffActive`), `RoomsAreAttended`, `PlayersAgree`, `ServersMatchRegistry` (with
`LobbyAndRegistryAgree`), `RulesHold`, `LossesResolve`, `OnceOnly`, `AcknowledgementsWork`, `DatagramsKeepTime`, `StreamSafe`.

The types of `GameSessions` and `SnapshotReplication` are proved (`TypesHold`) and in no
run. All runs say `CHECK_DEADLOCK FALSE`: ids, connections, inputs and snapshots are
bounded, the system stops when they are used up, and a match stops when it ends.

## Bounds, views and symmetry

* `lobby`: three players on three connections, two rooms, two matches, five join
  ordinals. Two rooms and three players are what succession of hosts, a player
  in the wrong room and a disconnect in each room state need; two matches let one
  be late or pending while the other runs. Ids are bounded by guards, which are
  the code's own checks for exhausted ids with a smaller maximum.
* `any_worker`: two servers (one idle, one owing) on three connections, so one
  reconnects under its id; two reservations; one frame of a connection not yet
  read. `View` leaves out `toServer`, which nothing reads there.
* `match_control`: one server with a second connection, two clients, one room,
  two matches. The interesting cases are two matches on one worker and one worker
  on two connections, and both happen; clients beyond two only lengthen the
  lobby's part. The liveness run has one match.
* `game_sessions`: three players, two matches: one can be dead, one away and one
  left, and a connection of the first match lives into the second. `game_play` has
  two players, two addresses and two inputs; `CatchUp` is 2 (5 in the code) and
  `HardTimeout` 3 ticks, so that lateness beyond a catch-up and the time-out both
  happen. Its rules have three contenders and a neutral actor that does not attack,
  three kinds of weapon, an area weapon and a medkit to pick up, two points of
  health (100 in the code), sudden death at the second tick and the limit at the
  third: two can kill each other or all three, a wipe and the zone at tick two
  leave one to spare, area damage meets damage of another source, and time runs out
  with two or three alive. The theorems cover all values of these constants.
* `replication`: five snapshots and three inputs, capacity two on both sides (32
  in the code), keyframes of two fragments, a keyframe interval of four: both
  sides evict, a keyframe is due by the interval, by request and by a missing
  baseline, partial snapshots are replaced. One entity with two values enters,
  changes and leaves. The theorems cover all values of these constants.
* `client_session`: five snapshots, each with a reset or without, through a queue of
  three (64 in the code) and a buffer of three (32): one is presented, the next is
  dropped with the absence that falls into it, and the three behind the gap push
  out what was before it. Two inputs and a history of one (256) let
  the history be full. `View` leaves out the acknowledgements that `Reconcile` gets no
  other result from, and a bind timer whose handler does nothing any more.
* `client_parts`: four datagrams held back for one tick or three by a queue of two,
  so that a later one overtakes, the queue is full, and two are due at once; four
  frames of one and two bytes through a limit of three; two bots, tickets of two
  matches, two player ids; two inputs and one snapshot. The machines share nothing:
  a behaviour runs one of them and leaves the others at their beginning, and each
  keeps the fairness of its own module.
* `hosted_room`: a host and two bots, one room, one match and one thing that goes
  wrong. The next match of the program needs new clients. Tickets that come too
  late look to the clients like a failed reservation and are taken as one.
  `RoomView` leaves out `seen`, which nothing reads there.
* Symmetry: players of `GameSessions` and entities and values of
  `SnapshotReplication` are never compared. It is used in no liveness run. Players
  and workers of the lobby have an order the code uses, and are not permuted.

## Fairness

`match_control_live` assumes what runs without anybody's choice: the lobby's event
loop handles the events it has and the frames it has received, its timers go
off, and it notices a connection closed at the other end (`io_context::run` on
one thread, steady timers, a pending read). Nothing is assumed of clients or
game servers, which may hang with the connection up. So `LossesResolve`
speaks of matches whose server gave them up or lost its connection or process;
a server that hangs for ever is covered by nothing in the code, and there is no
such property.

`game_play` assumes that time goes by (`Tick`), the match timer's handler is queued
once due (`TimerFires`), and a queued handler runs (`Advance`, also when it
throws). Clients owe nothing: they need not speak, bind, send or leave. The
simulation's hard time-out is what ends a match in which nobody dies.

`client_parts` assumes for the session that its network thread runs what is ready
(resolutions and connections answer, posted handlers run, frames that have come
are read), that the game thread finishes a call it is in, and that binds sent
again and again are not lost for ever (strong fairness of their answer); the
server may say nothing for ever, which `BindResolves` allows for as long as it has
not welcomed the client. For the queue: time passes, timers expire, ready handlers
run. For the connection: a write completes or fails, which is the peer reading or
going away; a peer that does neither is covered by no timer in the code. For the
bots: their two timers expire and the handler of an expired one runs although
`GameTick` is queued again and again, the loop's queue being first in, first out.
Lobby, host and game sessions owe nothing.

## Proofs

TLAPS checks the theorems for every value of the constants that satisfies the
modules' `ASSUME`s: counters are natural numbers, capacities positive, the ids of
workers positive numbers (the registry gives a match to the idle one with the
least), and `None` neither a match nor a session. `RoomSuffices` of `HostedRoom` says
what its three programs are started with: the host expects its bots and itself, the
room has a place for each, and the lobby has ids for that many connections and
players, a room and a match (`scripts/run_network_load.ps1` starts 23 bots for a host
that expects 24 players, `:259` and `:289`, and a room holds 24). In a smaller room, or with
a host that expects fewer, the last bot is refused although nothing has gone wrong.

**LobbyProofs** has three invariants, each on top of the one before.

* `LobbyInv` (`LobbyInvHolds`, from it `LobbyAgreesHolds`). No part of `LobbyAgrees` is
  inductive alone. Leaving a room in `Starting` is possible only by the
  reservation's end, which needs the pending map to name exactly that room's
  members (`StartingIffPending`); giving a match's players back needs
  `InMatchIffActive`; both need that no player is in two rooms (`MembershipAgrees`),
  that a connection leads to the player it speaks for (`ConnectionsAgree`), and that
  the counters are ahead of every id in use (`IdsAreFresh`). The types are proved
  before (`TypesHold`), and there is one lemma per operation. TLC checks the
  conjuncts in `lobby`, all but `IdsAreFresh`, which is there for the induction and
  says nothing a client sees.
* Hosts and tickets. That the successor of a host joined before everybody else
  needs that no two members share an ordinal (`HostInv`); `RoomsAlwaysAttended` adds
  that who waits in a room is connected. That a ticket belongs to the match it was
  frozen into needs that a match nobody reserved has no players (`TicketInv`,
  `TicketsAlwaysBelong`).
* What others see. `RostersStayFrozen` compares a room before and after each step.
  `ClientsAlwaysSee` follows from `ClientsTold`: each connection was last told of the
  room its player is in, as it is now, or of none. Every handler that changes a
  room must broadcast after the change and not before it, and to those it removed.

**WorkerProofs** is about the lobby's registry against servers that may say anything
about any reservation (`AnyWorker`): `RegistryAlwaysAgrees`, `AnswersAlwaysTimed`,
`EventsStayInOrder`, `MatchesAlwaysHeld`. In `OpenInv` a session is spoken on by the
server that opened it (`SessionInv`); a record, the connection it is on and the
tracked reservation agree, and no two records hold one reservation (`RegistryInv`);
whoever owes an answer has the timer of its own connection, unless another server
has called its reservation cancelled (`TimerOf`), and a timer without a reservation
leads to a session that is closing (`TimerInv`).
`FateInv` is the one that ties the registry to the lobby: the event in between,
taken or not, decides what the lobby will believe of the match (`Believed`), and
every record is in the state of that belief. Late, crossed and foreign frames are
harmless to records and events because the registry compares what a frame names
with the record of the connection it came on, before it changes either; the timers
are the one thing it does not compare.

**ControlProofs** is about the whole control plane (`MatchControl`), with the game
servers as they are and frames on their way in both directions:
`ServersAlwaysMatch`, and `LifecycleHolds`, the refinement of `MatchLifecycle`. The
invariant `ControlInv` (`ControlInvHolds`) stands on `LobbyInv` and has two layers.

* Between registry and server. `Conversations` names, for the connection that a server
  holds, everything that may be under way on it: its registration, not yet seen
  (`Fresh`); an exchange about the record that holds the connection (`Talk`, by the
  state of the record); or, once the lobby has closed its end, the frames it sent
  before (`Leftover`). There are at most three frames, and a server's state is the
  record's but for what they will tell. `ServersMatchRegistry` alone is not
  inductive: what a server makes of a frame depends on all those before it. A
  cancellation crosses every answer, so `StoppedFor` is the long case. `Records` and
  `Links` say that no two records share a match or a connection and that a
  connection leads to one server: a new connection is not mistaken for an old one.
* Between registry and lobby. `Agreement`: a match is pending in the lobby exactly
  while a record is reserved for it, and active exactly while the record that runs
  it is `Active`, but for the one event in between. That there is at most one
  (`OneEvent`), and that it still tells the truth when the lobby takes it
  (`EventsTrue`), is why the lobby may believe it without asking.

`LifecycleHolds` then has a lemma per step. A step that could end a match
which has not begun, or run two on one server, is excluded by `Agreement`.

**GameProofs** is about the players of the game server (`GameSessions`):
`MatchesAlwaysWait`, `PlayersAlwaysAgree`, `HandedOutOnce`, `ContendersAlwaysRepresented`,
`MatchesAlwaysStartOnTime`, `CommandsAlwaysMoveForward`, `TypesHold`. The operators of `AuthoritativeMatch` are proved first to take a match
that satisfies `MatchInv` to one that does, or to end it, never adding a ticket
(`Becomes`), so the steps of the server only say which operator they apply.
`MatchInv` says that the pending slots are the tickets left, that the three accounts
of who plays agree, that a match not started has a ticket left, and that a started
one has somebody connected and nobody orphaned. `GameInv` adds the server's side:
who is in the match has a session marked authenticated, who was welcomed to a
match has no ticket left in it, and an outcome is recorded when the match goes.
`HeardInv` is on top of it: no session's command is ahead of what it acknowledged.
`MatchesAlwaysStartOnTime` needs that a player who leaves early does not start the
match, since its `Disconnect` reads no clock: other tickets are still out then.

The second part of **GameProofs** is about the simulation (`OfflineMatch`), and says
of it what the first part needs, `SomebodyIsLeft` and `ServerExpectsEveryTick`, and
what a client needs, `EventsAlwaysAccount`.
`RulesInv` says the world is `Sound`: of its types, valid (alive is having health),
and `Bounded`. The last is what the ranking needs: eliminations are natural numbers
without a limit, but in every state they have one, so that among the living, the
healthiest, and of those the ones with most kills, there is a best with the lowest
id (`WinnerRanksFirst`). A combat that kills all is undone for the best of the
contenders before it, whose killer has a kill to give back (`WipeIsUndone`); the zone
spares one if nobody is safe from it (`ZoneSparesSomebody`); time leaves the winner
(`WinnerIsLeft`). Each stage hands the next a sound world with a contender alive
(`FightSettles`), and the match goes on with two. The second theorem compares such a
tick with `AfterTicks` of a match with one tick due.

The third theorem is about the same stages. Each has an account of what it made of
health, kills and the living (`ReadyAccounts`, `CombatAccounts`, `ZoneAccounts`), that of combat also for
the report with a death taken back (`RevivalAccounts`), and `Ledger` puts them together.
Of one actor a tick reports at most one healing and two damages, of combat and of the
zone, and these differ in their subject, so that the set of events loses none; that
makes the fold over a set a sum of two (`SumOfTwo`). The deaths that name a killer are
in bijection with the kills he is credited with (`KillsAreReported`), and an actor leaves,
falls, burns or loses to time, only one of these (`DeathsAreAccounted`).

**HostedProofs** has two theorems. `StopAlwaysLeavesNothing`: of a step of the whole
room the threads of `NetworkClientController` see a session started, stored or stopped,
or nothing (`HostStep`); `StopInv` says who can still hold a session at each point of
`Stop`. It does not need `RoomSuffices`.

`OnlyTroubleEverFails`: while nothing goes wrong outside the clients' hands, the host's
flow, the coordinator and the lobby never fail each other, although each acts on what
the lobby was like when it last sent. That is no property of one machine, and far
from inductive. The invariant `RoomInv` adds to `LobbyInv`:

* `TalkInv`: each connection's conversation is in one of five stages, `Silent`,
  `Greeting`, `Greeted`, `Entering`, `Inside`. A stage fixes together what the client
  remembers, the one request that may be under way, what may be in its messages and
  what the lobby knows of the connection. No client asks again before the answer to
  its last request, which is why none is ever told a thing twice.
* `LinkInv`, `ReadyInv`, `FlowInv`, `LeadInv`, `CountInv`: connections are opened in
  order and make one player each; who is ready in the lobby has said so; the flow's
  flags are in the order of the protocol, and the host leads the only room.
* `RoomsFit`, `TicketsFit`, `GamesFit`: what is still unread fits what its reader
  expects. Every old view in the host's messages has the host in it, the host's ticket
  comes once and before any list of rooms, and all tickets are of the one match, as are the
  sessions' results, which are the same.
* `QuietInv`, while `trouble = 0`: until the start the room only grows (`Grows`), so the
  old views in the host's messages are still true of the room, and a start asked for
  on one of them is granted; after the start nobody asks for anything (`Settled`), so
  no request meets a room that is no longer `Waiting`.

TLC found `RoomInv` to hold on the run's instance before it was proved. The proof has
two halves. A step of a client changes its own end of one conversation (`ClientInv`,
`SideInv`: each seat makes a `Move`, from stage to stage); a step of the lobby reads one
request, and what it sends to each member is a message that fits there. `RoomSuffices`
is used where an id could run out or the room be full, and where the host could see
enough players ready before all have come.

**SnapshotProofs**: `WorldsAreShown`, `AcknowledgementsAlwaysWork`, `TypesHold`,
`BaselineSurvives`, `RefusalsAlwaysAsked`. The inductive invariant `ReplicaInv` adds to those that every
payload on the network carries the view shown in its snapshot, a delta relative
to an earlier shown one (`Carries`), that both sides' baselines are views that
were shown (`Remembers`), and the chain of accounts none of which runs ahead of
the one it comes from (`InOrder`): input <= applied <= seen <= assembled <= issued.
The algebra under it is `DeltaRoundTrip`: `ApplyDelta(base, BuildDelta(base, view)) =
view`, and the delta fits. The capacities are a second invariant on top
(`Capacity`), with counting lemmas on one baseline more and one dropped.

**SessionProofs** is about the two threads of the client's game session:
`EndedStaysFinal`, from `SessionInv` (`SessionInvHolds`). A handler of the network
thread looks at the session, lets go, and stores what it decided; the game thread
may end the session in between. `Starts` has a session that nobody stopped start
once, one thing after the other, so that nothing is posted twice. `Advances` is the
part that matters: a handler about to move the session on has found it before it
began to play, with no snapshot yet, and then the game thread has nothing to fail
it for; only a `Stop` can come in between. `Stopped` says what such a late store
leaves: a session that looks alive, with no snapshot and no datagram on its way,
so that no `Update` can run it again. That needs `Hears`: the socket is not read
before the store of `Synchronizing`, and not after a stop. `Frame` says where the
game thread stands in its call.

`SceneAlwaysCurrent` is about what the game thread shows. An overflow of the queue
drops snapshots that an actor is absent from, a return may not be reported as a
reset, and yet no actor slides between two of its stays. `SceneInv` (`SceneInvHolds`)
follows the snapshots from the stream through queue and batch to the buffer: each
follows the one before it (`Follows`: later, and of the same stay unless the actor
is absent from one of the two), but for a gap in front of a queue that overflowed
(`Joins`), behind which there are still three. `Close` counts from the buffer's end:
the last k + 1 snapshots kept are of one stay, two by two, or of none. A batch without
a gap keeps that at two; one with a gap has built it up anew, snapshot by snapshot,
when it ends; and `Sample` looks at no more than the last three (`SampleTogether`).
That is where the assumption on the capacities, of three or more, comes from.

What the fold over a batch computes cannot be had from the library's induction
theorems, since they take an operator. The lemmas before it go another way: a recursion along
a sequence has a solution (`FoldExists`), each solution is a chain of intermediate
results (`FoldChain`), and what holds of the first and passes from one to the next
holds of all, because there is no least one for which it fails (`LeastNatural`).

Below the session is the framed connection. `QueueAlwaysWritten`: what was accepted
is what the peer has read, the write in progress and the queue, in that order.
From it `ConnectionIsAStream`, the refinement of `FrameStream`, each step of the
connection being a step of the stream or a stutter. `BytesAlwaysCounted`: the bytes
counted are the sum over the queue, which is a fold too; two chains over the same frames
differ by where they start (`SumsAgree`), so a frame more or less changes the sum by its
size. The three make `StreamIsSafe`.

**ClientProofs** has two machines that share nothing. `DatagramsAlwaysKeepTime`: no timer
or handler is of a later generation than the queue, and a failed one of the present
generation only in a stopped queue (`Generations`); the items are in order and behind
everything delivered (`InOrder`). The lemmas on insertion and on the items that are
due say that in an ordered queue the due ones are its first. `ReportsAreHonest`: the
bots' coordinator decides by its counters, so the invariant `ReportInv` (theorem
`ReportInvHolds`) is that they count what they are meant to: `tickets` the bots with a
ticket, `sessions` the finished ones, of which each has a session and the
coordinator's match. `Agreed` says that the one result it keeps is that of every
finished bot and of its match, which the next one is compared with (`Disagrees`).

Only model-checked:

* Liveness under fairness, which is outside the prover: `StartResolves`,
  `LossesResolve`, `MatchEnds`, `StopReturns`, `BindResolves`, `HeldBackIsDelivered`,
  `FlushEnds`, `BotsEnd`.

Every other property of a passing run is a theorem.

## What the models found

**The last contenders leave together.** `OfflineMatch::Step` throws
`std::logic_error{"offline match cannot disconnect every living contender"}`
(`src/simulation/src/OfflineMatchStep.cpp:403`). `AuthoritativeMatch` ends a
match when its last connection goes, and a dead player keeps its
connection. If all living contenders disconnect between two ticks while a dead
player is still connected, the next `Advance` submits all of their disconnects;
the exception passes the timer's handler and `io.run`, and the game server
exits. Run `game_assertion`. `GameSessions` models the exit (`AdvanceThrows`, `up`),
and `game_play` counts it as an end of the match.

**An actor re-enters unreported.** `ClientSnapshotStream::Apply` reports
which actors left or entered so that their interpolation is reset. For a
keyframe it compares with the latest world, for a delta it repeats the delta's
own lists, which are relative to its base. When acknowledgements lag by a
snapshot (shown `{}`, `{a}`, `{}`, `{a}`; the third a delta against the first, the
fourth against the second) `a` leaves and re-enters in neither list, `ForgetActors` is
not called for it, and the interpolator keeps the position it had before. A test
(`tests/game_client_snapshot_stream_test.cpp:242`, the list at `:263`) expects the
return to be reported, and only tries deltas against the latest world. Run
`replication_reentry`. Nothing of it is seen on the screen: `Sample` looks at two
neighbouring snapshots, and the one that `a` is absent from lies between the
others. `SceneIsCurrent` states that for every snapshot with or without a reset.

**A stranger's Cancelled.** The registry accepts a `MatchReservationCancelled` about
any reservation from a worker that is idle or plays
(`src/apps/lobby_server/src/WorkerRegistry.cpp:373`), as a late answer to ignore, and
`HandleFrame` then cancels the timer of the reservation it names without asking whose
it is (`src/apps/lobby_server/src/WorkerControlServer.cpp:359`). If another worker holds
that reservation, nothing bounds its answer any more but the loss of its connection;
a cancellation of the lobby's arms a timer again. The repository's game server never
sends such a frame, and no doc says anything of it; `OwedAnswersAreTimed` names the
exception (`disowned`).

Four more disagreements are stated next to the properties, as formulas that TLC
refutes when they are added to a cfg of their module. They are in no run:

**Stop is overwritten** (`ClientSession!StoppedIsClosed`). `GameSession::Stop` stores
`Closed` and then closes the network on its thread; a handler that has looked at
`stopRequested` before (`src/apps/game_client/src/GameSession.cpp:182`) or does not
look at it stores another state after `Stop`'s `Closed` (`:737`). The state after
`Stop` may be `Authenticating` or `ProtocolError`;
`tests/game_session_integration_test.cpp:977` expects `Closed`. `EndedIsFinal` states
what does hold: an ended session does not run again.

**Finished is overwritten** (`ClientSession!FinishedSurvives`). A `FixedUpdate` that began
while the session was `Running` and fails (its history is full) calls
`FailFromCaller` (`GameSession.cpp:698`), which stores `ProtocolError` without looking
at the state: when the match's result has come in between, it replaces
`Finished`. The result is kept (`result`), the state is not;
`tests/game_session_integration_test.cpp:924` expects `Finished` to survive a
`FixedUpdate`.

**A short room** (`HostedRoom!MatchIsAsExpected`). The host asks to start when its
snapshot shows the expected players ready. A bot whose connection fails before
the lobby serves the request leaves a smaller room, all ready, and the lobby starts
it. `AuthoritativeMatch` numbers the neutral actors from the real count
(`src/apps/game_server/src/AuthoritativeMatch.cpp:50`), and `SampleScene` throws
`network actor role or ID is invalid` at the first id below `expectedPlayers`
(`src/apps/client/src/NetworkClientController.cpp:429`).

**A destination after the result** (`HostedRoom!DestinationsAreTaken`). `GameTick` reads
that a session is `Running` and asks it to move; `SetDestination` reads the state
again (`GameSession.cpp:688`), and when the result has come in between the bot is
`Failed`: the coordinator exits with 3 although every session was about to finish
(`src/apps/bot_client/src/BotCoordinator.cpp:488`). `PlayCoordinatorReportsEverySession`
in `tests/game_server_integration_test.cpp` expects 0. `OnlyTroubleFails` excepts
this one failure by name.

## What is not modelled

* Codecs, checksums and frames: pure functions of bytes; messages are records.
* Geometry, navigation, movement, behaviour trees: floating point. The rules of combat,
  loot and zone are in `OfflineMatch` with any positions; the checksum of a tick's
  events is not.
* The full-state replication modes: every snapshot is a keyframe, and nothing of
  the delta protocol is left. Snapshot ids and join ordinals that wrap: the code
  refuses at their maximum, and no run reaches it.
* Which entities the interest grid picks: the view is any.
* That a client which asks for a keyframe gets one in the end: the snapshots of the
  model are bounded, and UDP owes nothing. `RefusalsAreAsked` states the part that
  is the code's.
* What the predictor replays and where the interpolator puts an actor: floating
  point. What of them is counted (inputs issued and acknowledged, snapshots kept) is
  in `ClientSession`.
* The order in which a tick visits the bots; the metrics they and the sessions keep.
* The random choices of the datagram shaper: a datagram is dropped or delayed as it
  may be. Delays and times do not overflow.
* A game server that stops in an orderly way: to its peers it is a lost connection.
* Rendering, assets, options, metrics, the single-player game: no protocol.

## Plan

Done: `Lobby`, `WorkerControl` with `AnyWorker`, `GameServerControl`, `MatchControl` over
`MatchLifecycle`, `AuthoritativeMatch` with `GameSessions`, `OfflineMatch`, `SnapshotReplication`,
`ClientSession`, `DatagramQueue`, `FramedConnection` over `FrameStream`, `LobbyHost`,
`BotCoordinator` with `BotClient`, `HostedRoom`; `LobbyProofs`, `WorkerProofs`,
`ControlProofs`, `GameProofs`, `SessionProofs`, `SnapshotProofs`, `ClientProofs`,
`HostedProofs`.

Left: `ControlChannel` over `FramedConnection` in place of the FIFO it assumes.
