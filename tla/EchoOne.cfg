SPECIFICATION Spec
CONSTANTS
    IdMod = 3
    InitialCapacity = 2
    NoTask = NoTask
    Clients = {c1}
    FDs = {1, 2, 3}
    Backlog = 1
    SndBuf = 2
    MaxEvents = 1
    Free = Free
    Listener = Listener
    NoCoro = NoCoro
    Commands = {"time", "echo:text", "echo:", "other", ""}
    Returning = {c1}
    HeaderUnits = 2
    TextUnits = 2
    NoFD = NoFD
INVARIANTS
    NoLostWakeup
    RegisteredWhileServing
    FramesAreWhole
PROPERTIES
    AnswersMatch
\* nothing is left to happen once the process has been killed
CHECK_DEADLOCK FALSE
