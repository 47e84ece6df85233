--------------------------- MODULE ClientTransport ---------------------------
(* The client's framed connection, for the modules that have it beside another *)
(* machine: its state, and what it promises.                                   *)
EXTENDS TransportParameters

VARIABLES
    closed, closeAfterFlush, writeQueue, pendingWriteBytes, writeInProgress, operation,
    reading, closeHandler, why, accepted, written

F == INSTANCE FramedConnection

connectionVars == <<closed, closeAfterFlush, writeQueue, pendingWriteBytes,
                    writeInProgress, operation, reading, closeHandler, why,
                    accepted, written>>

\* The connection is a stream whose queue is written and counted, and a flush ends
\* (AsioFramedConnection.cpp, see FramedConnection).
StreamSafe == F!StreamSafe
FlushEnds == F!FlushEnds
=============================================================================
