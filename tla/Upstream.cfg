CONSTANTS
    Servers = {u1, u2}
    Addresses = {a1, a2}
    GroupIds = {0}
    Weights = {1}
    Limits = {1}
    Modes <- MCModes
    Threads = {k1, k2}
    Managers = {k1}
    MTTR = 1
    MaxTime = 2
    MaxFail = 2
    MaxBreak = 2
    NoServer = NoServer
    NoGroup = NoGroup
SYMMETRY Symmetric
SPECIFICATION Spec
INVARIANTS
    CountersRight
    DownIsListed
CHECK_DEADLOCK FALSE
