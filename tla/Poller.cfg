CONSTANTS
    n1 = n1
    Nodes = {n1, n2}
    Fds = {f1, f2}
    Operation <- Operations
    EventsMax = 2
    MaxMessages = 1
    NoNode = NoNode
    Pipe = Pipe
    Timer = Timer
    Stop = Stop
SPECIFICATION FairSpec
INVARIANT OneFinalResult
PROPERTIES
    DeletedHandedOut
    ExpiredHandedOut
CHECK_DEADLOCK FALSE
