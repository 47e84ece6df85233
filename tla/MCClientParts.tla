---------------------------- MODULE MCClientParts ----------------------------
(***************************************************************************)
(* The machines of the client programs that promise progress: the queue of  *)
(* delayed datagrams and the bot client (by EXTENDS), the session and the   *)
(* framed connection.  Here they share nothing, so a behaviour runs one of  *)
(* them, chosen at the start, and leaves the others where they begin.       *)
(***************************************************************************)
EXTENDS DatagramQueue, BotClient, ClientTransport

CONSTANTS MaxSnapshot, MaxInput, QueueCapacity, BufferCapacity, HistoryCapacity

VARIABLES
    part,
    state, stopRequested, about, posted, tcp, frames, server, udp, receiving,
    bindTimer, bindAnswer, stream, result, queue, game, batch, predictor,
    serverInput, buffer, scene

S == INSTANCE ClientSession

\* A short frame and a long one, of which the limit holds one and the other.
FramesDef == {"short", "long"}
SizeDef == [short |-> 1, long |-> 2]

sessionVars == <<state, stopRequested, about, posted, tcp, frames, server, udp,
                 receiving, bindTimer, bindAnswer, stream, result, queue, game,
                 batch, predictor, serverInput, buffer, scene>>

PartsInit ==
    /\ part \in {"session", "datagrams", "connection", "bots"}
    /\ Init /\ BotInit /\ S!Init /\ F!Init
    /\ part # "bots" => play

PartsNext ==
    \/ /\ part = "session" /\ S!Next
       /\ UNCHANGED <<part, vars, connectionVars, botVars>>
    \/ /\ part = "datagrams" /\ Next
       /\ UNCHANGED <<part, sessionVars, connectionVars, botVars>>
    \/ /\ part = "connection" /\ F!Next
       /\ UNCHANGED <<part, sessionVars, vars, botVars>>
    \/ /\ part = "bots" /\ BotNext
       /\ UNCHANGED <<part, sessionVars, vars, connectionVars>>

partsVars == <<part, sessionVars, vars, connectionVars, botVars>>

\* The fairness of each module, for the machine that runs.
PartsSpec ==
    /\ PartsInit /\ [][PartsNext]_partsVars
    /\ S!Fairness
    /\ WF_vars(part = "datagrams" /\ Tick)
    /\ WF_vars(part = "datagrams" /\ Expire)
    /\ WF_vars(part = "datagrams" /\ \E h \in handlers : RunHandler(h))
    /\ WF_connectionVars(part = "connection" /\ (F!WriteCompletes \/ F!WriteFails))
    /\ WF_connectionVars(part = "connection" /\ F!Notify)
    /\ BotFairness

\* The properties of the modules that are instantiated.
StopReturns == S!StopReturns
BindResolves == S!BindResolves
=============================================================================
