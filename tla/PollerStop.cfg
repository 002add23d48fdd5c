CONSTANTS
    n1 = n1
    Nodes = {n1, n2}
    Fds = {f1}
    Operation <- Operations
    EventsMax = 1
    MaxMessages = 1
    NoNode = NoNode
    Pipe = Pipe
    Timer = Timer
    Stop = Stop
SPECIFICATION FairSpec
PROPERTY StopReturns
CHECK_DEADLOCK FALSE
