CONSTANTS
    Targets = {t1, t2}
    Tasks = {k1, k2}
    Clients = {k1}
    Nodes = {n1, n2, n3}
    MTTR = 1
    MaxTime = 2
    NoTarget = NoTarget
    RetryMax = 1
    RedirectMax = 1
    MaxUser = 1
SPECIFICATION ClientSpec
INVARIANTS
    CountsAgree
    GroupNeverEmpty
    NoneForgotten
    RouteForOneExchange
PROPERTIES
    TargetsReturn
    RequestEnds
