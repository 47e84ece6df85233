\* The session with two inputs and few snapshots; four datagrams, at most two of
\* them held back, for one or three ticks each; four frames through a limit of
\* three bytes; two bots and tickets of two matches.
SPECIFICATION PartsSpec
CONSTANTS
    MaxSnapshot = 1
    MaxInput = 2
    QueueCapacity = 3
    BufferCapacity = 3
    HistoryCapacity = 1
    Delays = {0, 1, 3}
    Capacity = 2
    MaxDatagram = 4
    MaxTime = 5
    Frames <- FramesDef
    Size <- SizeDef
    MaxPending = 3
    MaxFrames = 4
    Bots = 2
    MaxId = 2
INVARIANTS
    DatagramsKeepTime
    ReportIsHonest
PROPERTIES
    StopReturns
    BindResolves
    HeldBackIsDelivered
    StreamSafe
    FlushEnds
    BotsEnd
CHECK_DEADLOCK FALSE
