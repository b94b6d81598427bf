\* Four ids that wrap around, one coroutine that creates, as in server.cpp.
SPECIFICATION FairSpec
CONSTANTS
    IdMod = 4
    InitialCapacity = 1
    NoTask = NoTask
    Creators = {1}
INVARIANTS
    TypeOK
    WatchedAreStarted
    WaitingIsWatched
    ErrorIsDelivered
    IteratorIsSound
PROPERTIES
    Lifecycle
    RunnableRuns
\* RunTasks returns when task_map is empty, and a signal ends the process
CHECK_DEADLOCK FALSE
