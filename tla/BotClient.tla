------------------------------ MODULE BotClient ------------------------------
(***************************************************************************)
(* The bot client on its own: BotCoordinator against a lobby that says      *)
(* anything to any bot, and game sessions that run, finish and fail as they *)
(* please.  What it promises here it promises whoever it plays with.        *)
(***************************************************************************)
EXTENDS BotCoordinator

CONSTANT MaxId   \* bound: the ids of players and of matches, and the outcomes

Id == 1..MaxId

\* The lobby's messages to a bot, and the end of its connection.
Hears(b) ==
    /\ Ready
    /\ \/ \E p \in Id : Welcomed(b, p)
       \/ \E who \in SUBSET Id : SawRoom(b, [members |-> who])
       \/ \E m \in Id : TookTicket(b, m)
       \/ Fail("Error")
       \/ LobbyClosed(b)

BotNext ==
    \/ Start \/ StopBots
    \/ \E b \in Bot :
          \/ Hears(b) \/ TickBot(b)
          \/ SessionMoves(b, Id) \/ SessionFails(b)
    \/ TickSetsDestination
    \/ LobbyTimerExpires \/ GameTimerExpires \/ TimerRuns

BotSpec == BotInit /\ [][BotNext]_botVars

\* Timers go off, and the loop's queue is first in, first out: the handler of a
\* timer runs although GameTick is queued again and again.
BotFairness ==
    /\ WF_botVars(LobbyTimerExpires) /\ WF_botVars(GameTimerExpires)
    /\ WF_botVars(TickSetsDestination) /\ SF_botVars(TimerRuns)

-----------------------------------------------------------------------------
(* Correctness. *)

\* The coordinator's report is about all of its bots: zero when every bot has
\* what it came for and only then, however results, failures and timers of
\* different bots come between each other.  What they came for, when they play, is
\* one and the same result of the match that every one of them has a ticket for
\* (BotCoordinator.cpp:561).
ReportIsHonest ==
    co.done => /\ co.exit = 0 <=> \A b \in Bot : bot[b].exit = 0
               /\ co.exit = 0 => \A b \in Bot : bot[b].ticket # 0
               /\ co.exit = 0 /\ play => \A b \in Bot :
                      /\ bot[b].finished
                      /\ bot[b].result = co.result
                      /\ co.result.match = bot[b].ticket

\* A coordinator that has started ends, whatever the lobby, the host and the
\* game server do: there is always a timer that covers what it waits for.
BotsEnd == co.started ~> co.done
=============================================================================
