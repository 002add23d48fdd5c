CONSTANTS
    Keys = {a, b}
    Handles = {h1, h2}
    MaxSizes = {0, 1}
    MaxHeld = 2
    NoHandle = NoHandle
    NoKey = NoKey
    Routers = {r1, r2}
    Lives <- MCLives
    Forever = Forever
    Increment = 1
    MaxTime = 2
SYMMETRY Symmetric
SPECIFICATION DNSSpec
INVARIANTS
    CacheSound
    HeldByTasks
    OneMoveForEachIncrement
CHECK_DEADLOCK FALSE
