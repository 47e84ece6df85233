-------------------------- MODULE FramedConnection --------------------------
(***************************************************************************)
(* One end of the framed TCP transport (AsioFramedConnection.cpp): the      *)
(* queue of frames and its limit, the one write under way, closing at once  *)
(* or after a flush, and the close handler that is posted.  Reads and       *)
(* writes complete as handlers of the io_context; a completion may already  *)
(* be queued when the connection is closed.  Owners send and close at any   *)
(* time, from inside a frame's handler too.                                 *)
(***************************************************************************)
EXTENDS TransportParameters, SequencesExt

VARIABLES
    closed, closeAfterFlush,
    writeQueue, pendingWriteBytes, writeInProgress,
    operation,         \* the write given to the socket, and not yet completed
    reading,           \* a read is outstanding
    closeHandler,      \* kept, posted or called
    why,               \* how the connection came to be closed
    accepted, written  \* the frames Send took, and those the socket has taken

vars == <<closed, closeAfterFlush, writeQueue, pendingWriteBytes, writeInProgress,
          operation, reading, closeHandler, why, accepted, written>>
queueVars == <<writeQueue, pendingWriteBytes, writeInProgress, operation>>
history == <<accepted, written>>

None == "none"

Init ==
    /\ closed = FALSE /\ closeAfterFlush = FALSE
    /\ writeQueue = <<>> /\ pendingWriteBytes = 0 /\ writeInProgress = FALSE
    /\ operation = None /\ reading = TRUE
    /\ closeHandler = "kept" /\ why = "open"
    /\ accepted = <<>> /\ written = <<>>

-----------------------------------------------------------------------------
\* FinishClose: only the first call does anything.  The queue keeps its frames,
\* because the socket may still be reading the first of them.
FinishClose(reason) ==
    /\ closed' = TRUE
    /\ pendingWriteBytes' = 0 /\ writeInProgress' = FALSE /\ closeAfterFlush' = FALSE
    /\ closeHandler' = IF closed THEN closeHandler ELSE "posted"
    /\ why' = IF closed THEN why ELSE reason

\* WriteNext, with the frames that are left.  (Its mutant forgets the flush.)
WriteNextOnly(left) ==
    /\ writeInProgress' = (left # <<>>)
    /\ operation' = IF left # <<>> THEN Head(left) ELSE None
    /\ UNCHANGED <<closed, closeAfterFlush, closeHandler, why>>
WriteNext(left) ==
    IF left # <<>>
      THEN /\ writeInProgress' = TRUE /\ operation' = Head(left)
           /\ UNCHANGED <<closed, closeAfterFlush, closeHandler, why>>
      ELSE /\ operation' = None
           /\ IF closeAfterFlush
                THEN FinishClose("flushed")
                ELSE /\ writeInProgress' = FALSE
                     /\ UNCHANGED <<closed, closeAfterFlush, closeHandler, why>>

\* Send.  A frame that does not fit under the limit cuts the connection; one
\* that is too large to be encoded does the same, and has no part here.  (The
\* mutant takes a frame while the connection is draining.)
MaySendWhileDraining == ~closed
MaySend == ~closed /\ ~closeAfterFlush
Fits(f) == Size[f] <= MaxPending - pendingWriteBytes

Send(f) ==
    /\ MaySend /\ Fits(f) /\ Len(accepted) < MaxFrames
    /\ accepted' = Append(accepted, f)
    /\ writeQueue' = Append(writeQueue, f)
    /\ pendingWriteBytes' = pendingWriteBytes + Size[f]
    /\ IF writeInProgress
         THEN UNCHANGED <<writeInProgress, operation>>
         ELSE writeInProgress' = TRUE /\ operation' = Head(writeQueue')
    /\ UNCHANGED <<closed, closeAfterFlush, reading, closeHandler, why, written>>

SendTooMuch(f) ==
    /\ MaySend /\ ~Fits(f)
    /\ FinishClose("cut")
    /\ UNCHANGED <<writeQueue, operation, reading, history>>

Close ==
    /\ ~closed
    /\ FinishClose("cut")
    /\ UNCHANGED <<writeQueue, operation, reading, history>>

CloseAfterFlush ==
    /\ ~closed /\ ~closeAfterFlush
    /\ IF ~writeInProgress /\ writeQueue = <<>>
         THEN FinishClose("flushed")
         ELSE /\ closeAfterFlush' = TRUE
              /\ UNCHANGED <<closed, pendingWriteBytes, writeInProgress, closeHandler, why>>
    /\ UNCHANGED <<writeQueue, operation, reading, history>>

\* The socket has taken the frame.  A completion that finds the connection
\* closed does nothing more.
WriteCompletes ==
    /\ operation # None
    /\ IF closed
         THEN /\ operation' = None
              /\ UNCHANGED <<closed, closeAfterFlush, writeQueue, pendingWriteBytes,
                             writeInProgress, closeHandler, why, written>>
         ELSE /\ written' = Append(written, operation)
              /\ writeQueue' = Tail(writeQueue)
              /\ WriteNext(Tail(writeQueue))
              /\ pendingWriteBytes' = IF closed' THEN 0
                                      ELSE pendingWriteBytes - Size[Head(writeQueue)]
    /\ UNCHANGED <<reading, accepted>>

WriteFails ==
    /\ operation # None
    /\ operation' = None
    /\ FinishClose("cut")
    /\ UNCHANGED <<writeQueue, reading, history>>

\* A frame arrives and its handler returns, or throws; or the read fails.  What
\* the handler does with the connection are actions of their own before this one.
ReadFrame ==
    /\ reading
    /\ reading' = ~closed
    /\ UNCHANGED <<closed, closeAfterFlush, queueVars, closeHandler, why, history>>

ReadFails ==
    /\ reading
    /\ reading' = FALSE
    /\ FinishClose("cut")
    /\ UNCHANGED <<writeQueue, operation, history>>

\* The posted close handler runs.
Notify ==
    /\ closeHandler = "posted"
    /\ closeHandler' = "called"
    /\ UNCHANGED <<closed, closeAfterFlush, queueVars, reading, why, history>>

Next ==
    \/ \E f \in Frames : Send(f) \/ SendTooMuch(f)
    \/ Close \/ CloseAfterFlush
    \/ WriteCompletes \/ WriteFails
    \/ ReadFrame \/ ReadFails
    \/ Notify

Spec == Init /\ [][Next]_vars

\* The peer reads, so that every write ends; and what is posted is run.
FairSpec == Spec /\ WF_vars(WriteCompletes \/ WriteFails) /\ WF_vars(Notify)

-----------------------------------------------------------------------------
(* Correctness. *)

\* The write under way is of the first frame of the queue, and there is one
\* exactly while the queue is not empty: two writes would mix their bytes, and
\* none would leave the frames, and a flush that waits for them, there for good.
QueueIsWritten ==
    ~closed =>
      /\ writeInProgress = (operation # None)
      /\ operation = IF writeQueue = <<>> THEN None ELSE Head(writeQueue)
      /\ closeAfterFlush => writeQueue # <<>>
      /\ accepted = written \o writeQueue

\* The bytes counted against the limit are those of the frames in the queue.
BytesAreCounted ==
    ~closed =>
      /\ pendingWriteBytes = FoldLeft(LAMBDA sum, f : sum + Size[f], 0, writeQueue)
      /\ pendingWriteBytes <= MaxPending

\* The connection implements FrameStream: order, flush and the one notice of its
\* end, whatever the order of sends, closes, completions and failures; and all
\* the while its queue is the one that is being written, and counted.
Stream == INSTANCE FrameStream WITH
    phase <- IF closed THEN why ELSE IF closeAfterFlush THEN "draining" ELSE "open",
    told <- closeHandler = "called"
StreamSafe == Stream!StreamSpec /\ []QueueIsWritten /\ []BytesAreCounted

\* A connection that is to close when it has flushed closes, and its owner hears
\* of it, if its peer reads (the code has no timer for one that does not).
FlushEnds == closeAfterFlush ~> closeHandler = "called"
=============================================================================
