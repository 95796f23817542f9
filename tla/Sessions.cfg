SPECIFICATION FairSpec
CONSTANTS
    Keys = {k1}
    Clients = {c1}
    SessionCap = 2
    ChunkCap = 2
    Scrollback = 1
    QueueSize = 4
    LifeCap = 2
INVARIANTS
    ShellsCanBeReaped
    OutputHasNoGap
PROPERTY
    EndIsTold
CHECK_DEADLOCK FALSE
