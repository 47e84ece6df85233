--------------------------- MODULE BotCoordinator ---------------------------
(***************************************************************************)
(* The bot client: one BotCoordinator, whose handlers run on one thread,   *)
(* brings its bots into a room and, unless it is there for the tickets     *)
(* only, plays the match with one GameSession per bot.  Everything ends in *)
(* Shutdown: a result of every session, a failure of any bot or a timer.   *)
(*                                                                         *)
(* The network threads of the game sessions change what State() says at    *)
(* any time, also between two reads of one tick.  What GameTick does at a  *)
(* bot depends on that bot and the count of the finished ones alone, so a  *)
(* visit to one bot is a step, and the order of the visits is not kept.    *)
(* A session keeps a result only when it is of its ticket's match, and ends *)
(* in a protocol error otherwise (GameSession.cpp:248).                    *)
(***************************************************************************)
EXTENDS BotParameters

Unset == 0   \* an empty optional

\* A GameMatchResult: the match, and how it ended.
Result(m, outcome) == [match |-> m, outcome |-> outcome]
NoResult == Result(Unset, Unset)

\* GameSessionState: "Connecting" is everything before Running, "Failed" is
\* ProtocolError and Closed; "Stopped" is a session the coordinator stopped.
GameState == {"None", "Connecting", "Running", "Finished", "Failed", "Stopped"}

VARIABLES
    play,        \* options.play
    bot,         \* BotState of each bot
    co,          \* the coordinator's own members
    lobbyTimer, gameTimer,  \* "Off", "Armed", "Fired" (handler queued)
    moving       \* the bot whose session GameTick has read to be Running, and
                 \* whose destination it is about to set; 0 elsewhere

botVars == <<play, bot, co, lobbyTimer, gameTimer, moving>>

BotInit ==
    /\ play \in BOOLEAN
    /\ bot = [b \in Bot |-> [player |-> Unset, readySent |-> FALSE, ticket |-> Unset,
                             game |-> "None", result |-> NoResult,
                             finished |-> FALSE, exit |-> 3]]
    /\ co = [started |-> FALSE, done |-> FALSE, exit |-> 3, why |-> "None",
             tickets |-> 0, sessions |-> 0, match |-> Unset, ticking |-> FALSE,
             result |-> NoResult]
    /\ lobbyTimer = "Off" /\ gameTimer = "Off"
    /\ moving = Unset

\* The coordinator's thread is between two handlers, and the next one finds it
\* not shutting down.
Ready == co.started /\ ~co.done /\ moving = Unset

-----------------------------------------------------------------------------
(* Ways to the end. *)

\* Cancelling a timer does not reach a handler that is queued already.
TimerCancelled(timer) == IF timer = "Armed" THEN "Off" ELSE timer

Stopped(game) == IF game = "None" THEN game ELSE "Stopped"

\* Shutdown, with the exit codes and the result its caller sets before it.  A
\* timer's handler that is queued by now finds the coordinator shutting down and
\* does nothing.
Shutdown(code, why, codes, result) ==
    /\ co' = [co EXCEPT !.done = TRUE, !.exit = code, !.why = why, !.result = result]
    /\ bot' = [b \in Bot |-> [codes[b] EXCEPT !.game = Stopped(@)]]
    /\ lobbyTimer' = "Off" /\ gameTimer' = "Off"
    /\ moving' = Unset
    /\ UNCHANGED play

SetUnfinished(code) ==
    [b \in Bot |-> IF bot[b].finished THEN bot[b] ELSE [bot[b] EXCEPT !.exit = code]]

Fail(why) == Shutdown(3, why, SetUnfinished(3), co.result)
Timeout   == Shutdown(4, "Timeout", SetUnfinished(4), co.result)

\* Stop from outside: Shutdown itself changes no exit code.
StopBots ==
    /\ co.started /\ ~co.done /\ moving = Unset
    /\ Shutdown(co.exit, "Stopped", bot, co.result)

-----------------------------------------------------------------------------
(* The lobby's part. *)

Start ==
    /\ ~co.started
    /\ co' = [co EXCEPT !.started = TRUE]
    /\ lobbyTimer' = "Armed"
    /\ UNCHANGED <<play, bot, gameTimer, moving>>

\* Message(index, ServerWelcome): the caller joins the room.
Welcomed(b, p) ==
    IF bot[b].player # Unset THEN Fail("Confused")
    ELSE /\ bot' = [bot EXCEPT ![b].player = p]
         /\ UNCHANGED <<play, co, lobbyTimer, gameTimer, moving>>

\* Message(index, RoomSnapshot): MustReady says that the caller sends a SetReady.
MustReady(b, view) == bot[b].player \in view.members /\ ~bot[b].readySent

SawRoom(b, view) ==
    IF bot[b].player = Unset THEN Fail("Confused")
    ELSE /\ bot' = [bot EXCEPT ![b].readySent = @ \/ MustReady(b, view)]
         /\ UNCHANGED <<play, co, lobbyTimer, gameTimer, moving>>

\* StartGame.  The first session of a match starts the ticks and the game's
\* own timer.
StartGameTimerless(b, m) ==
    /\ bot' = [bot EXCEPT ![b].ticket = m, ![b].game = "Connecting"]
    /\ co' = [co EXCEPT !.tickets = @ + 1, !.match = m, !.ticking = TRUE]
    /\ lobbyTimer' = TimerCancelled(lobbyTimer)
    /\ gameTimer' = IF co.ticking THEN "Armed" ELSE gameTimer
    /\ UNCHANGED <<play, moving>>
StartGame(b, m) ==
    /\ bot' = [bot EXCEPT ![b].ticket = m, ![b].game = "Connecting"]
    /\ co' = [co EXCEPT !.tickets = @ + 1, !.match = m, !.ticking = TRUE]
    /\ lobbyTimer' = TimerCancelled(lobbyTimer)
    /\ gameTimer' = IF co.ticking THEN gameTimer ELSE "Armed"
    /\ UNCHANGED <<play, moving>>

\* FinishLobby: every bot has its ticket, and that is all it was there for.
FinishLobby(b, m) ==
    Shutdown(0, "Tickets", [a \in Bot |-> [bot[a] EXCEPT
        !.exit = 0, !.ticket = IF a = b THEN m ELSE @]], co.result)

TookTicket(b, m) ==
    IF bot[b].player = Unset THEN Fail("Confused")
    ELSE IF bot[b].ticket # Unset THEN UNCHANGED botVars
    ELSE IF play THEN IF co.match \notin {Unset, m} THEN Fail("Confused")
                      ELSE StartGame(b, m)
    ELSE IF co.tickets + 1 = Bots THEN FinishLobby(b, m)
    ELSE /\ bot' = [bot EXCEPT ![b].ticket = m]
         /\ co' = [co EXCEPT !.tickets = @ + 1]
         /\ UNCHANGED <<play, lobbyTimer, gameTimer, moving>>

\* Closed(index, error).
LobbyClosed(b) ==
    IF play \/ bot[b].ticket = Unset THEN Fail("Closed") ELSE UNCHANGED botVars

-----------------------------------------------------------------------------
(* The game's part. *)

\* The network thread of a session; "outcomes" are those of the results that the
\* server may have sent it.
SessionMoves(b, outcomes) ==
    /\ co.ticking /\ ~co.done
    /\ \/ bot[b].game = "Connecting" /\ bot' = [bot EXCEPT ![b].game = "Running"]
       \/ /\ bot[b].game \in {"Connecting", "Running"}
          /\ \E o \in outcomes :
                bot' = [bot EXCEPT ![b].game = "Finished",
                                   ![b].result = Result(bot[b].ticket, o)]
    /\ UNCHANGED <<play, co, lobbyTimer, gameTimer, moving>>

SessionFails(b) ==
    /\ co.ticking /\ ~co.done
    /\ bot[b].game \in {"Connecting", "Running"}
    /\ bot' = [bot EXCEPT ![b].game = "Failed"]
    /\ UNCHANGED <<play, co, lobbyTimer, gameTimer, moving>>

\* FinishGame: a result of another match than the bot's ticket, or another result
\* than the first that came, is a failure; the last session's ends the coordinator.
\* (Its mutant counts the session and compares nothing.)
Disagrees(b) ==
    \/ bot[b].result.match # bot[b].ticket
    \/ co.result \notin {NoResult, bot[b].result}
CountSession(b) ==
    LET done == [bot EXCEPT ![b].finished = TRUE, ![b].exit = 0]
    IN  IF co.sessions + 1 = Bots
        THEN Shutdown(0, "Results", done, bot[b].result)
        ELSE /\ bot' = done
             /\ co' = [co EXCEPT !.sessions = @ + 1, !.result = bot[b].result]
             /\ UNCHANGED <<play, lobbyTimer, gameTimer, moving>>
FinishGame(b) == IF Disagrees(b) THEN Fail("Disagree") ELSE CountSession(b)

\* GameTick at one bot: what it reads of State() decides.  Every 90th tick of a
\* running session it goes on to SetDestination.
TickBot(b) ==
    /\ Ready /\ ~bot[b].finished
    /\ \/ /\ bot[b].game = "Running"
          /\ moving' = b
          /\ UNCHANGED <<play, bot, co, lobbyTimer, gameTimer>>
       \/ bot[b].game = "Finished" /\ FinishGame(b)
       \/ bot[b].game = "Failed" /\ Fail("Session")

\* GameSession::SetDestination reads the state again, and refuses unless the
\* session still runs.
TickSetsDestination ==
    /\ moving # Unset
    /\ IF bot[moving].game = "Running"
       THEN moving' = Unset /\ UNCHANGED <<play, bot, co, lobbyTimer, gameTimer>>
       ELSE Fail("Destination")

-----------------------------------------------------------------------------
(* Timers. *)

LobbyTimerExpires ==
    /\ lobbyTimer = "Armed"
    /\ lobbyTimer' = "Fired"
    /\ UNCHANGED <<play, bot, co, gameTimer, moving>>
GameTimerExpires ==
    /\ gameTimer = "Armed"
    /\ gameTimer' = "Fired"
    /\ UNCHANGED <<play, bot, co, lobbyTimer, moving>>

\* A queued handler runs, after the cancellation too.
TimerRuns == Ready /\ "Fired" \in {lobbyTimer, gameTimer} /\ Timeout

=============================================================================
