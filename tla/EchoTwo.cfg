SPECIFICATION Spec
CONSTANTS
    IdMod = 3
    InitialCapacity = 2
    NoTask = NoTask
    Clients = {c1, c2}
    FDs = {1, 2, 3, 4}
    Backlog = 2
    SndBuf = 1
    MaxEvents = 1
    Free = Free
    Listener = Listener
    NoCoro = NoCoro
    Commands = {"echo:text", ""}
    Returning = {c1, c2}
    HeaderUnits = 1
    TextUnits = 1
    NoFD = NoFD
SYMMETRY ClientSymmetry
INVARIANTS
    TypeOK
    NoLostWakeup
    DescriptorsAreOwned
PROPERTIES
    ListenerStays
    LoopSpec
\* nothing is left to happen once the process has been killed
CHECK_DEADLOCK FALSE
