SPECIFICATION Spec
CONSTANTS
    IdMod = 3
    InitialCapacity = 2
    NoTask = NoTask
    Clients = {c1}
    FDs = {1, 2, 3}
    Backlog = 1
    SndBuf = 1
    MaxEvents = 1
    Free = Free
    Listener = Listener
    NoCoro = NoCoro
    Commands = {"echo:text"}
    Returning = {}
    HeaderUnits = 1
    TextUnits = 1
    NoFD = NoFD
INVARIANTS
    CloseIsLocal
\* nothing is left to happen once the process has been killed
CHECK_DEADLOCK FALSE
