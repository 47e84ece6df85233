\* Five snapshots through a queue of three, two inputs, a history of one.
SPECIFICATION Spec
CONSTANTS
    MaxSnapshot = 5
    MaxInput = 2
    QueueCapacity = 3
    BufferCapacity = 3
    HistoryCapacity = 1
INVARIANTS
    SceneIsCurrent
PROPERTIES
    EndedIsFinal
VIEW View
CHECK_DEADLOCK FALSE
