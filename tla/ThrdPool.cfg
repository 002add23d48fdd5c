CONSTANTS
    Threads = {t1, t2, t3}
    Clients = {c1, c2}
    Owner = owner
    Tasks = {k1, k2, k3}
    NThreads = 2
    NoThread = NoThread
    NoTask = NoTask
SPECIFICATION FairSpec
INVARIANTS
    QuietWhenFreed
    JoinedExactlyOnce
PROPERTIES
    ImplementsTaskPool
    TasksSettled
    DestroyReturns
